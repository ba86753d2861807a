---------------------------- MODULE ProfileChange ----------------------------
(***************************************************************************)
(* Editing a profile: ProfileService.changeProfile, called from            *)
(* pages/profile/edit.tsx, while the synchronization imports profiles.     *)
(*                                                                         *)
(* A change is written twice, to the directory and to the database, with   *)
(* awaits in between and nothing that undoes the first write when the      *)
(* second fails.  What is written is made of three readings of different   *)
(* age: the editor's row, the directory entry (which may come from a       *)
(* cache), and the change itself.  The entry keeps seven of the profile's  *)
(* fields in one JSON attribute, "comment", which is always written as a   *)
(* whole; the others have an attribute of their own.  Both may lack a      *)
(* field; an import then leaves most of the row's fields as they are.      *)
(***************************************************************************)
EXTENDS Naturals

CONSTANTS
  Person,       \* a directory object and the id of its profile row
  Contact,      \* those whose profile has no user name
  Editor, Own,  \* people who edit at a time, and whose session each one has
  OnlyOwn,      \* TRUE: everyone edits the profile of the session
  Field, CommentField, gender, middleName,
  Defaulted,    \* fields whose absence an import takes for "no value"
  Value,        \* the values of a field
  Spaced,       \* those of several words
  man, woman,   \* the two values of gender the directory can keep
  null,         \* "no value" in a row: null, an empty text, unknown
  Absent,       \* what an entry lacks
  None, Gone,
  Outside,      \* those whose entry others change in the directory as well
  Failures,     \* TRUE: writing to the directory or the database may fail
  MaxChanges    \* bound: edits and changes from outside

Entry == [Field -> Value \cup {Absent}]
Data  == [Field -> Value \cup {null}]
Row   == [of : Person, data : Data, disabled : BOOLEAN]

ASSUME PersonAssumption ==
  /\ Contact \subseteq Person /\ Own \in [Editor -> Person]
  /\ {OnlyOwn, Failures} \subseteq BOOLEAN /\ Outside \subseteq Person
ASSUME FieldAssumption ==
  /\ CommentField \subseteq Field /\ gender \notin Field \ CommentField
  /\ {man, woman} \subseteq Value /\ middleName # gender
  /\ null \notin Value /\ Absent \notin Value /\ None \notin Entry /\ Gone \notin Entry /\ None # Gone
ASSUME BoundAssumption == MaxChanges \in Nat

VARIABLES
  entry,      \* the directory
  cached,     \* the directory answers the portal keeps in Redis
  row,        \* the profile table, by id; "of" is the row's loginGUID
  edit,       \* the change each editor has under way
  importing,  \* the directory answer a synchronization is about to save
  changes,    \* edits and outside changes so far
  foreign     \* history: people whose row somebody else's session has saved

vars == <<entry, cached, row, edit, importing, changes, foreign>>

EditPc == {"search", "modify", "save"}
Edit == [pc : EditPc, id : Person, field : Field, choice : Value,
         created : Row, found : Entry \cup {Gone}]
Idle == [pc |-> "idle"]

(* A directory entry is only rewritten when it has been found.              *)
TypeOK ==
  /\ entry \in [Person -> Entry \cup {Gone}]
  /\ cached \in [Person -> Entry \cup {None}]
  /\ row \in [Person -> Row]
  /\ edit \in [Editor -> Edit \cup {Idle}]
  /\ importing \in [Person -> Entry \cup {None}]
  /\ changes \in 0..MaxChanges
  /\ foreign \subseteq Person
  /\ \A e \in Editor : edit[e].pc = "modify" => edit[e].found \in Entry

(* What the directory keeps of a value: gender is "M" or "W", and a middle  *)
(* name is the last of exactly three words.                                 *)
Stored(f, v) == IF f = gender /\ v # man THEN woman
                ELSE IF f = middleName /\ v \in Spaced THEN Absent ELSE v

(* What an import makes of the row's data: what the entry lacks is          *)
(* undefined, and saving leaves such a column alone.                        *)
Imported(old, found) ==
  [f \in Field |-> IF found[f] # Absent THEN found[f]
                  ELSE IF f \in Defaulted THEN null ELSE old[f]]

(* The rows are as some import has left them, and may be older than what    *)
(* the entries lack.                                                        *)
Init ==
  /\ \E v \in Value, old \in Value \cup {null}, missing \in SUBSET Field :
       /\ entry = [p \in Person |->
                    [f \in Field |-> IF f \in missing THEN Absent ELSE Stored(f, v)]]
       /\ row = [p \in Person |-> [of |-> p, disabled |-> FALSE,
                    data |-> Imported([f \in Field |-> old], entry[p])]]
  /\ cached = [p \in Person |-> None]
  /\ edit = [e \in Editor |-> Idle]
  /\ importing = [p \in Person |-> None]
  /\ changes = 0
  /\ foreign = {}

-----------------------------------------------------------------------------
(* The page passes a choice on; gender goes through parseInt, which makes   *)
(* "no value" of every member of a string enumeration.                      *)
Sent(f, choice) == IF f = gender THEN null ELSE choice

At(e, pc)  == edit[e].pc = pc
Goto(e, x) == edit' = [edit EXCEPT ![e] = x]
Whose(e)   == edit[e].created.of

(* The row that is edited is always the session's own.                      *)
Begin(e) ==
  /\ At(e, "idle") /\ changes < MaxChanges
  /\ changes' = changes + 1
  /\ \E id \in IF OnlyOwn THEN {Own[e]} ELSE Person, f \in Field, v \in Value :
       Goto(e, [pc |-> "search", id |-> id, field |-> f, choice |-> v,
                created |-> row[Own[e]], found |-> Gone])
  /\ UNCHANGED <<entry, cached, row, importing, foreign>>

SearchCached(e) ==
  /\ At(e, "search") /\ cached[Whose(e)] # None
  /\ Goto(e, [edit[e] EXCEPT !.pc = "modify", !.found = cached[Whose(e)]])
  /\ UNCHANGED <<entry, cached, row, importing, changes, foreign>>

(* By DN, and once more by DN without the cache; a person is then looked    *)
(* for by user name, which throws when there is nobody; a contact that is   *)
(* gone is changed in the database only.                                    *)
SearchDirectory(e) ==
  /\ At(e, "search") /\ cached[Whose(e)] = None
  /\ \/ /\ entry[Whose(e)] # Gone
        /\ Goto(e, [edit[e] EXCEPT !.pc = "modify", !.found = entry[Whose(e)]])
        /\ cached' = [cached EXCEPT ![Whose(e)] = entry[Whose(e)]]
     \/ /\ entry[Whose(e)] = Gone
        /\ Goto(e, IF Whose(e) \in Contact THEN [edit[e] EXCEPT !.pc = "save"]
                                           ELSE Idle)
        /\ UNCHANGED cached
  /\ UNCHANGED <<entry, row, importing, changes, foreign>>

(* A bug: the whole entry is written back.                                  *)
Rewritten_Whole(now, found, f, v) == [found EXCEPT ![f] = v]

(* The entry after "replace": the field's attribute, and the comment, made  *)
(* of the comment that was found and the change.                            *)
Rewritten(now, found, f, v) ==
  [g \in Field |-> IF g = f THEN v
                   ELSE IF g \in CommentField THEN found[g] ELSE now[g]]

(* A bug: the cached entry survives the change.                             *)
Modify_CacheKept(e) ==
  /\ At(e, "modify") /\ entry[Whose(e)] # Gone
  /\ entry' = [entry EXCEPT ![Whose(e)] =
       Rewritten(@, edit[e].found, edit[e].field,
                 Stored(edit[e].field, Sent(edit[e].field, edit[e].choice)))]
  /\ Goto(e, [edit[e] EXCEPT !.pc = "save"])
  /\ UNCHANGED <<cached, row, importing, changes, foreign>>

(* LdapService.modify is given the user name so that it can forget the      *)
(* cached entry.                                                            *)
Modify(e) ==
  /\ At(e, "modify") /\ entry[Whose(e)] # Gone
  /\ entry' = [entry EXCEPT ![Whose(e)] =
       Rewritten(@, edit[e].found, edit[e].field,
                 Stored(edit[e].field, Sent(edit[e].field, edit[e].choice)))]
  /\ cached' = [cached EXCEPT ![Whose(e)] = None]
  /\ Goto(e, [edit[e] EXCEPT !.pc = "save"])
  /\ UNCHANGED <<row, importing, changes, foreign>>

(* The error is told; nothing that was written before is taken back.        *)
Fails(e) ==
  /\ \/ Failures /\ At(e, "modify")
     \/ Failures /\ At(e, "save")
     \/ At(e, "modify") /\ entry[Whose(e)] = Gone
  /\ Goto(e, Idle)
  /\ UNCHANGED <<entry, cached, row, importing, changes, foreign>>

(* The change is merged into the row that was read, its id included, and    *)
(* the result is saved as a whole.                                          *)
Save(e) ==
  /\ At(e, "save")
  /\ row' = [row EXCEPT ![edit[e].id] =
       [of |-> Whose(e),
        data |-> [edit[e].created.data EXCEPT
                    ![edit[e].field] = Sent(edit[e].field, edit[e].choice)],
        disabled |-> edit[e].created.disabled \/ edit[e].found = Gone]]
  /\ foreign' = foreign \cup ({edit[e].id} \ {Own[e]})
  /\ Goto(e, Idle)
  /\ UNCHANGED <<entry, cached, importing, changes>>

-----------------------------------------------------------------------------
(* The synchronization, reduced to what it does to an existing row.         *)
ImportRead(p) ==
  /\ importing[p] = None /\ entry[p] # Gone
  /\ importing' = [importing EXCEPT ![p] = entry[p]]
  /\ UNCHANGED <<entry, cached, row, edit, changes, foreign>>

(* Bugs: the row is not looked up by loginGUID; it is left as it is.        *)
ImportSave_AnyRow(p) ==
  /\ importing[p] # None
  /\ importing' = [importing EXCEPT ![p] = None]
  /\ \E i \in Person :
       row' = [row EXCEPT ![i] = [of |-> p, disabled |-> FALSE,
                                  data |-> Imported(row[i].data, importing[p])]]
  /\ UNCHANGED <<entry, cached, edit, changes, foreign>>

ImportSave_OnlyNew(p) ==
  /\ importing[p] # None
  /\ importing' = [importing EXCEPT ![p] = None]
  /\ UNCHANGED <<entry, cached, row, edit, changes, foreign>>

(* Without a row of that loginGUID a new one would be inserted; it has no   *)
(* id here.                                                                 *)
ImportSave(p) ==
  /\ importing[p] # None
  /\ importing' = [importing EXCEPT ![p] = None]
  /\ \/ \E i \in Person :
          /\ row[i].of = p
          /\ row' = [row EXCEPT ![i] = [of |-> p, disabled |-> FALSE,
                                     data |-> Imported(row[i].data, importing[p])]]
     \/ (\A i \in Person : row[i].of # p) /\ UNCHANGED row
  /\ UNCHANGED <<entry, cached, edit, changes, foreign>>

-----------------------------------------------------------------------------
(* Administrators of the directory change and remove objects; the portal's  *)
(* cache does not notice, and expires.                                      *)
ChangeOutside(p) ==
  /\ p \in Outside /\ changes < MaxChanges /\ entry[p] # Gone
  /\ changes' = changes + 1
  /\ \/ \E f \in Field, v \in Value :
          entry' = [entry EXCEPT ![p][f] = Stored(f, v)]
     \/ \E f \in Field : entry' = [entry EXCEPT ![p][f] = Absent]
     \/ entry' = [entry EXCEPT ![p] = Gone]
  /\ UNCHANGED <<cached, row, edit, importing, foreign>>

CacheExpires(p) ==
  /\ cached[p] # None
  /\ cached' = [cached EXCEPT ![p] = None]
  /\ UNCHANGED <<entry, row, edit, importing, changes, foreign>>

EditStep(e) ==
  SearchCached(e) \/ SearchDirectory(e) \/ Modify(e) \/ Fails(e) \/ Save(e)

Next ==
  \/ \E e \in Editor : Begin(e) \/ EditStep(e)
  \/ \E p \in Person : ImportRead(p) \/ ImportSave(p)
  \/ \E p \in Person : ChangeOutside(p) \/ CacheExpires(p)

(* A request runs to its end; the synchronization comes back every hour.    *)
Fairness ==
  /\ \A e \in Editor : WF_vars(EditStep(e))
  /\ \A p \in Person : WF_vars(ImportRead(p)) /\ WF_vars(ImportSave(p))

Spec == Init /\ [][Next]_vars /\ Fairness

-----------------------------------------------------------------------------
(* changeProfile takes "Profile params" and returns "The corrected Profile" *)
(* (profile.service.ts:946-948): what is saved under a person's id is that  *)
(* person's row, and a change never puts one person's row in the place of   *)
(* another's.                                                               *)
RowIdentity == \A p \in Person : row[p].of = p

(* Whatever administrators do to the rows of others, and to their own that  *)
(* way: a row nobody else's session has saved is its own person's, also     *)
(* when it is edited through sessions whose rows have been exchanged, and   *)
(* while imports of exchanged rows go on.                                   *)
OwnRowsKept == \A p \in Person \ foreign : row[p].of = p

(* However edits, failures and changes from outside overlap, an edit does   *)
(* not undo what somebody else wrote into an attribute of its own.          *)
Editing(p, f) == \E e \in Editor : Modify(e) /\ Whose(e) = p /\ edit[e].field = f

AttributesKept ==
  [][\A p \in Person, f \in Field \ CommentField :
       entry[p] # Gone /\ entry'[p] # Gone /\ entry'[p][f] # entry[p][f]
       => Editing(p, f) \/ ChangeOutside(p)]_vars

(* Of somebody who edits in one place and is not changed from outside, the  *)
(* fields that share the comment keep what was written into them, although  *)
(* each edit writes all of them from a reading older than the edit, as long *)
(* as nobody's row has been exchanged.                                      *)
Alone == {p \in Person \ Outside : \A d, e \in Editor : Own[d] = p /\ Own[e] = p => d = e}

CommentsKept ==
  [][\A p \in Alone, f \in CommentField :
       foreign = {} /\ entry[p] # Gone /\ entry'[p] # Gone /\ entry'[p][f] # entry[p][f]
       => Editing(p, f)]_vars

(* Once the edits are over, the database says of everyone who is in the     *)
(* directory what an import makes of the entry, hence every value that the  *)
(* entry has, whatever failed and in whatever order edits and imports were  *)
(* saved, unless one person's row was saved in the place of another's.      *)
Agreement ==
  \A p \in Person : <>[](\/ entry[p] = Gone \/ foreign # {}
                         \/ \A i \in Person : row[i].of = p =>
                              row[i].data = Imported(row[i].data, entry[p]))

=============================================================================
