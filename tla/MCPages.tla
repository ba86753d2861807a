------------------------------- MODULE MCPages -------------------------------
(* Instances of the pages for TLC: two people of two domains in the        *)
(* phonebook, one of them disabled, seen by somebody who is not an          *)
(* administrator; seven tasks in 1C, an osTicket and the document system,   *)
(* among them one that is empty, one that lacks what it must have and one   *)
(* that cannot be read; two people at a browser with two tabs; a profile of *)
(* a name, picked from a list, and a birthday; two files; three people who  *)
(* are each other's managers, one of them disabled.                         *)
EXTENDS Pages, TLC

CONSTANTS ann, bob, eve, iva, ivan, here, there, name

MCText        == {Empty, iva, ivan}
MCCompletions == (Empty :> {}) @@ (iva :> {iva, ivan}) @@ (ivan :> {ivan})
MCRanking     == name :> <<ann, bob>>
MCMatching    == ivan :> {ann}
MCFlagged     == "disabled" :> {bob}
MCDomainOf    == (ann :> there) @@ (bob :> here)

CONSTANTS purchase, odd, ringing, blank, letter, bare, scan, ost

MCHolder == (purchase :> Soap) @@ (odd :> Soap) @@ (ringing :> ost) @@ (blank :> ost)
            @@ (letter :> Docflow) @@ (bare :> Docflow) @@ (scan :> Docflow)

MCChief == (ann :> bob) @@ (bob :> eve) @@ (eve :> ann)

Interchangeable == Permutations(Tab) \cup Permutations(Visitor) \cup Permutations(Call)
=============================================================================
