--------------------------- MODULE TicketForm_proofs ---------------------------
(***************************************************************************)
(* Proofs about TicketCommand and TicketForm, for any orders, files,       *)
(* systems and services.  CommandInv is inductive: it ties what the portal *)
(* has done for an order to what is on the wire, what the system has       *)
(* executed and what the caller was told.  From it follow that the         *)
(* commands implement AtMostOnce and that no order is executed without its *)
(* files; with PageInv, that the page shows no success that is none.       *)
(***************************************************************************)
EXTENDS TicketForm, TLAPS

(* Before the call nothing is on the wire, and without an answer on the     *)
(* wire the portal does not end with one.                                   *)
WireInv ==
  \A o \in Order :
    /\ order[o].pc \in {"new", "upload", "connect", "refused"} => wire[o] = "none"
    /\ At(o, "done") => wire[o] = "result"
    /\ At(o, "hollow") => wire[o] = "empty"

(* A system executes an order when it answers, and a result says so.        *)
ExecutionInv ==
  \A o \in Order :
    /\ wire[o] \in {"none", "sent"} => o \notin executed
    /\ wire[o] = "result" => o \in executed

(* What the caller was told is what the portal said, or "unsure".           *)
ToldInv ==
  \A o \in Order :
    /\ At(o, "new") <=> told[o] = "unasked"
    /\ told[o] \in {"done", "hollow", "refused"} => At(o, told[o])

(* The files are complete when the request is sent, and before that when    *)
(* the connection is made after the uploads.                                *)
FilesInv ==
  \A o \in Order :
    (wire[o] # "none" \/ (At(o, "connect") /\ order[o].kind # "edit"))
      => order[o].read = order[o].files

CommandInv == CommandTypeOK /\ WireInv /\ ExecutionInv /\ ToldInv /\ FilesInv

-----------------------------------------------------------------------------
(* An order the portal works on is a full record.                           *)
LEMMA GivenOrder ==
  ASSUME CommandTypeOK, NEW o \in Order, ~At(o, "new")
  PROVE  order[o] \in Given
BY DEF CommandTypeOK, At, New

(* What Goto writes, field by field.                                        *)
LEMMA GotoWrites ==
  ASSUME CommandTypeOK, NEW o \in Order, NEW pc \in Working \cup Answered,
         NEW c, c.kind \in Kind, c.system \in System,
         c.files \subseteq File, c.read \subseteq File, Goto(o, c, pc)
  PROVE  /\ order' \in [Order -> Given \cup {New}]
         /\ order'[o].pc = pc /\ order'[o].kind = c.kind
         /\ order'[o].files = c.files /\ order'[o].read = c.read
         /\ wire' \in [Order -> {"none", "sent", "result", "empty", "error"}]
         /\ wire'[o] = IF pc = "waiting" THEN "sent" ELSE wire[o]
         /\ \A x \in Order \ {o} : order'[x] = order[x] /\ wire'[x] = wire[x]
<1> DEFINE r == [pc |-> pc, kind |-> c.kind, system |-> c.system,
                 files |-> c.files, read |-> c.read]
<1>1. r \in Given
  BY DEF Given
<1>2. r.pc = pc /\ r.kind = c.kind /\ r.files = c.files /\ r.read = c.read
  OBVIOUS
<1>3. order' = [order EXCEPT ![o] = r]
  BY DEF Goto
<1> HIDE DEF r
<1>4. order' \in [Order -> Given \cup {New}] /\ order'[o] = r
  BY <1>1, <1>3 DEF CommandTypeOK
<1>5. wire' \in [Order -> {"none", "sent", "result", "empty", "error"}]
  BY DEF Goto, CommandTypeOK
<1>6. wire'[o] = IF pc = "waiting" THEN "sent" ELSE wire[o]
  BY DEF Goto, CommandTypeOK
<1>7. \A x \in Order \ {o} : order'[x] = order[x] /\ wire'[x] = wire[x]
  BY <1>3 DEF Goto, CommandTypeOK
<1>8. QED
  BY <1>2, <1>4, <1>5, <1>6, <1>7

(* A step from one phase of an order to another keeps the invariant when it *)
(* sends nothing without the files and does not end with an answer it has   *)
(* not got.                                                                 *)
LEMMA EnterKeeps ==
  ASSUME CommandInv, NEW o \in Order, NEW pc \in Working \cup Answered, Enter(o, pc),
         order[o].pc \in Working,
         pc \in {"upload", "connect", "refused"} => wire[o] = "none",
         pc = "waiting" => wire[o] = "none",
         pc = "waiting" \/ (pc = "connect" /\ order[o].kind # "edit")
           => order[o].read = order[o].files,
         pc = "done" => wire[o] = "result",
         pc = "hollow" => wire[o] = "empty"
  PROVE  CommandInv'
<1>1. CommandTypeOK /\ order[o] \in Given
  BY GivenOrder DEF CommandInv, At, Working
<1>2. /\ order[o].kind \in Kind /\ order[o].system \in System
      /\ order[o].files \subseteq File /\ order[o].read \subseteq File
  BY <1>1 DEF Given
<1>3. Goto(o, order[o], pc) /\ executed' = executed /\ told' = told
  BY DEF Enter
<1>4. /\ order' \in [Order -> Given \cup {New}]
      /\ order'[o].pc = pc /\ order'[o].kind = order[o].kind
      /\ order'[o].files = order[o].files /\ order'[o].read = order[o].read
      /\ wire' \in [Order -> {"none", "sent", "result", "empty", "error"}]
      /\ wire'[o] = IF pc = "waiting" THEN "sent" ELSE wire[o]
      /\ \A x \in Order \ {o} : order'[x] = order[x] /\ wire'[x] = wire[x]
  BY <1>1, <1>2, <1>3, GotoWrites
<1>5. pc # "new"
  BY DEF Working, Answered
<1>6. CommandTypeOK'
  BY <1>1, <1>3, <1>4 DEF CommandTypeOK
<1>7. WireInv'
  BY <1>4, <1>5 DEF CommandInv, WireInv, At
<1>8. ExecutionInv'
  BY <1>3, <1>4 DEF CommandInv, ExecutionInv
<1>9. ToldInv'
  <2>1. told[o] \notin {"done", "hollow", "refused", "unasked"}
    BY DEF CommandInv, ToldInv, At, Working
  <2>2. QED
    BY <1>3, <1>4, <1>5, <2>1 DEF CommandInv, ToldInv, At
<1>10. FilesInv'
  BY <1>4 DEF CommandInv, FilesInv, At
<1>11. QED
  BY <1>6, <1>7, <1>8, <1>9, <1>10 DEF CommandInv

-----------------------------------------------------------------------------
(* The phases: one lemma for the steps before the call, one for its end.    *)

LEMMA Phases ==
  ASSUME NEW c
  PROVE /\ Dispatch(c) \in {"connect", "waiting", "refused"}
        /\ Dispatch(c) = "waiting" => c.kind # "edit"
        /\ AfterUpload(c) \in {"connect", "waiting", "refused"}
        /\ AfterConnect(c) \in {"upload", "waiting"}
        /\ (AfterConnect(c) = "waiting") <=> (c.kind # "edit")
BY DEF Dispatch, AfterUpload, AfterConnect

LEMMA IssueKeeps ==
  ASSUME CommandInv, NEW o \in Order, NEW c \in Command, Issue(o, c)
  PROVE  CommandInv'
<1> DEFINE d == [kind |-> c.kind, system |-> c.system, files |-> c.files, read |-> {}]
<1>1. /\ c.kind \in Kind /\ c.system \in System /\ c.files \subseteq File
      /\ c.kind \in {"file", "comment"} => c.files = {}
  BY DEF Command
<1>2. /\ d.kind = c.kind /\ d.system = c.system
      /\ d.files = c.files /\ d.read = {}
  OBVIOUS
<1>3. Goto(o, d, First(c))
  BY DEF Issue
<1> HIDE DEF d
<1>4. /\ First(c) \in {"upload", "connect", "waiting", "refused"}
      /\ First(c) = "waiting" => c.kind \in {"file", "comment"}
      /\ First(c) = "connect" => c.kind \in {"edit", "file", "comment"}
  <2>1. c.kind \in {"new", "edit", "file", "comment"}
    BY <1>1, KindAssumption
  <2>2. QED
    BY <2>1, Phases DEF First
<1>5. First(c) \in Working \cup Answered
  BY <1>4 DEF Working, Answered
<1>6. CommandTypeOK
  BY DEF CommandInv
<1>7. /\ order' \in [Order -> Given \cup {New}]
      /\ order'[o].pc = First(c) /\ order'[o].kind = c.kind
      /\ order'[o].files = c.files /\ order'[o].read = {}
      /\ wire' \in [Order -> {"none", "sent", "result", "empty", "error"}]
      /\ wire'[o] = IF First(c) = "waiting" THEN "sent" ELSE wire[o]
      /\ \A x \in Order \ {o} : order'[x] = order[x] /\ wire'[x] = wire[x]
  BY <1>1, <1>2, <1>3, <1>5, <1>6, GotoWrites
<1>8. /\ At(o, "new") /\ wire[o] = "none" /\ o \notin executed
      /\ executed' = executed /\ told' = [told EXCEPT ![o] = "nothing"]
  BY DEF Issue, CommandInv, WireInv, ExecutionInv, At
<1>9. CommandTypeOK'
  BY <1>6, <1>7, <1>8 DEF CommandTypeOK
<1>10. WireInv'
  BY <1>4, <1>7, <1>8 DEF CommandInv, WireInv, At
<1>11. ExecutionInv'
  BY <1>7, <1>8 DEF CommandInv, ExecutionInv
<1>12. ToldInv'
  BY <1>4, <1>6, <1>7, <1>8 DEF CommandInv, ToldInv, At, CommandTypeOK
<1>13. FilesInv'
  BY <1>1, <1>4, <1>7, <1>8 DEF CommandInv, FilesInv, At
<1>14. QED
  BY <1>9, <1>10, <1>11, <1>12, <1>13 DEF CommandInv

LEMMA UploadReadKeeps ==
  ASSUME CommandInv, NEW o \in Order, NEW f \in File, UploadRead(o, f)
  PROVE  CommandInv'
<1>1. CommandTypeOK /\ order[o] \in Given /\ At(o, "upload") /\ wire[o] = "none"
  BY GivenOrder DEF CommandInv, WireInv, At, UploadRead
<1>2. UNCHANGED <<wire, executed, told>>
  BY DEF UploadRead
<1> DEFINE r == [order[o] EXCEPT !.read = order[o].read \cup {f}]
<1>3. r \in Given /\ r.pc = "upload"
  BY <1>1 DEF Given, At
<1>4. order' = [order EXCEPT ![o] = r]
  BY DEF UploadRead
<1> HIDE DEF r
<1>5. /\ order' \in [Order -> Given \cup {New}] /\ order'[o] = r
      /\ \A x \in Order \ {o} : order'[x] = order[x]
  BY <1>1, <1>3, <1>4 DEF CommandTypeOK
<1>6. CommandTypeOK'
  BY <1>1, <1>2, <1>5 DEF CommandTypeOK
<1>7. WireInv' /\ ExecutionInv' /\ ToldInv'
  <2>1. WireInv'
    BY <1>1, <1>2, <1>3, <1>5 DEF CommandInv, WireInv, At
  <2>2. ExecutionInv'
    BY <1>2 DEF CommandInv, ExecutionInv
  <2>3. ToldInv'
    BY <1>1, <1>2, <1>3, <1>5 DEF CommandInv, ToldInv, At
  <2>4. QED
    BY <2>1, <2>2, <2>3
<1>8. FilesInv'
  BY <1>1, <1>2, <1>3, <1>5 DEF CommandInv, FilesInv, At
<1>9. QED
  BY <1>6, <1>7, <1>8 DEF CommandInv

(* Uploading and connecting.                                                *)
LEMMA BeforeCallKeeps ==
  ASSUME CommandInv, NEW o \in Order,
         (\E f \in File : UploadFails(o, f)) \/ Uploaded(o) \/ Connect(o) \/ ConnectFails(o)
  PROVE  CommandInv'
<1>1. order[o].pc \in {"upload", "connect"}
  BY DEF UploadFails, Uploaded, Connect, ConnectFails, At
<1>2. wire[o] = "none" /\ order[o].pc \in Working
  BY <1>1 DEF CommandInv, WireInv, Working
<1>3. CASE (\E f \in File : UploadFails(o, f)) \/ ConnectFails(o)
  <2>1. Enter(o, "refused") /\ "refused" \in Working \cup Answered
    BY <1>3 DEF UploadFails, ConnectFails, Answered
  <2>2. QED
    BY <1>2, <2>1, EnterKeeps
<1>4. CASE Uploaded(o)
  <2> DEFINE pc == AfterUpload(order[o])
  <2>1. Enter(o, pc) /\ order[o].read = order[o].files
    BY <1>4 DEF Uploaded
  <2>2. pc \in {"connect", "waiting", "refused"}
    BY Phases
  <2> HIDE DEF pc
  <2>3. pc \in Working \cup Answered
    BY <2>2 DEF Working, Answered
  <2>4. QED
    BY <1>2, <2>1, <2>2, <2>3, EnterKeeps
<1>5. CASE Connect(o)
  <2> DEFINE pc == AfterConnect(order[o])
  <2>1. Enter(o, pc) /\ (order[o].kind # "edit" => order[o].read = order[o].files)
    BY <1>5 DEF Connect, CommandInv, FilesInv
  <2>2. pc \in {"upload", "waiting"} /\ (pc = "waiting" <=> order[o].kind # "edit")
    BY Phases
  <2> HIDE DEF pc
  <2>3. pc \in Working \cup Answered
    BY <2>2 DEF Working, Answered
  <2>4. QED
    BY <1>2, <2>1, <2>2, <2>3, EnterKeeps
<1>6. QED
  BY <1>3, <1>4, <1>5

(* The end of a call.                                                       *)
LEMMA CallEndKeeps ==
  ASSUME CommandInv, NEW o \in Order, Reply(o) \/ CallBreaks(o) \/ TimesOut(o)
  PROVE  CommandInv'
<1>1. order[o].pc \in Working
  BY DEF Reply, CallBreaks, TimesOut, At, Working
<1>2. PICK pc \in {"done", "hollow", "unsure"} :
        Enter(o, pc) /\ (pc = "done" => wire[o] = "result") /\ (pc = "hollow" => wire[o] = "empty")
  BY DEF Reply, CallBreaks, TimesOut, EmptyMeans
<1>3. pc \in Working \cup Answered
  BY DEF Answered
<1>4. QED
  BY <1>1, <1>2, <1>3, EnterKeeps

LEMMA ServeKeeps ==
  ASSUME CommandInv, NEW o \in Order, Serve(o)
  PROVE  CommandInv'
<1>1. PICK answer \in {"result", "empty", "error"} :
        /\ wire' = [wire EXCEPT ![o] = answer]
        /\ executed' = executed \cup {o} \/ (answer # "result" /\ UNCHANGED executed)
  BY DEF Serve
<1>2. wire[o] = "sent" /\ UNCHANGED <<order, told>>
  BY DEF Serve
<1>3. CommandTypeOK'
  BY <1>1, <1>2 DEF CommandInv, CommandTypeOK
<1>4. WireInv'
  BY <1>1, <1>2 DEF CommandInv, CommandTypeOK, WireInv, At
<1>5. ExecutionInv'
  BY <1>1, <1>2 DEF CommandInv, CommandTypeOK, ExecutionInv
<1>6. ToldInv'
  BY <1>2 DEF CommandInv, ToldInv, At
<1>7. FilesInv'
  BY <1>1, <1>2 DEF CommandInv, CommandTypeOK, FilesInv, At
<1>8. QED
  BY <1>3, <1>4, <1>5, <1>6, <1>7 DEF CommandInv

LEMMA RestartKeeps ==
  ASSUME CommandInv, Restart
  PROVE  CommandInv'
<1>1. UNCHANGED <<wire, executed, told>> /\ CommandTypeOK
  BY DEF Restart, CommandInv
<1>2. ASSUME NEW o \in Order
      PROVE  IF order[o].pc \in Working
             THEN /\ order'[o] \in Given /\ order'[o].pc = "gone"
                  /\ order'[o].files = order[o].files
                  /\ order'[o].read = order[o].read
             ELSE order'[o] = order[o]
  <2>1. CASE order[o].pc \in Working
    <3>1. order[o] \in Given
      BY <1>1, <2>1, GivenOrder DEF At, Working
    <3>2. order'[o] = [order[o] EXCEPT !.pc = "gone"]
      BY <2>1 DEF Restart
    <3>3. QED
      BY <2>1, <3>1, <3>2 DEF Given, Answered
  <2>2. CASE order[o].pc \notin Working
    BY <2>2 DEF Restart
  <2>3. QED
    BY <2>1, <2>2
<1>3. order' \in [Order -> Given \cup {New}]
  <2>1. \A o \in Order : order'[o] \in Given \cup {New}
    BY <1>1, <1>2 DEF CommandTypeOK
  <2>2. order' = [o \in Order |-> order'[o]]
    BY DEF Restart
  <2>3. QED
    BY <2>1, <2>2
<1>4. CommandTypeOK'
  BY <1>1, <1>3 DEF CommandTypeOK
<1>5. WireInv'
  BY <1>1, <1>2 DEF CommandInv, WireInv, At
<1>6. ExecutionInv'
  BY <1>1 DEF CommandInv, ExecutionInv
<1>7. ToldInv'
  BY <1>1, <1>2 DEF CommandInv, ToldInv, At, Working
<1>8. FilesInv'
  BY <1>1, <1>2 DEF CommandInv, FilesInv, At
<1>9. QED
  BY <1>4, <1>5, <1>6, <1>7, <1>8 DEF CommandInv

LEMMA TellKeeps ==
  ASSUME CommandInv, NEW o \in Order, Hear(o) \/ Cut(o)
  PROVE  CommandInv'
<1>1. /\ UNCHANGED <<order, wire, executed>> /\ told[o] = "nothing"
      /\ \/ told' = [told EXCEPT ![o] = "unsure"]
         \/ order[o].pc \in Answered /\ told' = [told EXCEPT ![o] = order[o].pc]
  BY DEF Hear, Cut
<1>2. CommandTypeOK'
  BY <1>1 DEF CommandInv, CommandTypeOK, Answered, Hear, Cut, At
<1>3. WireInv' /\ ExecutionInv' /\ FilesInv'
  BY <1>1 DEF CommandInv, WireInv, ExecutionInv, FilesInv, At
<1>4. ToldInv'
  BY <1>1 DEF CommandInv, CommandTypeOK, ToldInv, At, Answered
<1>5. QED
  BY <1>2, <1>3, <1>4 DEF CommandInv

LEMMA HandlerKeeps ==
  ASSUME CommandInv, NEW o \in Order, HandlerStep(o)
  PROVE  CommandInv'
BY UploadReadKeeps, BeforeCallKeeps, CallEndKeeps, ServeKeeps DEF HandlerStep

LEMMA NothingKeeps ==
  ASSUME CommandInv, UNCHANGED commandVars
  PROVE  CommandInv'
BY DEF CommandInv, CommandTypeOK, WireInv, ExecutionInv, ToldInv, FilesInv, At, commandVars

LEMMA CommandInitInv == CommandInit => CommandInv
<1> SUFFICES ASSUME CommandInit PROVE CommandInv
  OBVIOUS
<1>1. CommandTypeOK
  BY DEF CommandInit, CommandTypeOK
<1>2. \A o \in Order : order[o].pc = "new" /\ wire[o] = "none"
                        /\ told[o] = "unasked" /\ executed = {}
  BY DEF CommandInit, New
<1>3. QED
  BY <1>1, <1>2 DEF CommandInv, WireInv, ExecutionInv, ToldInv, FilesInv, At

LEMMA CommandInvariance == CommandSpec => []CommandInv
<1>1. CommandInv /\ [CommandNext]_commandVars => CommandInv'
  BY IssueKeeps, HandlerKeeps, RestartKeeps, TellKeeps, NothingKeeps DEF CommandNext
<1>2. QED
  BY <1>1, CommandInitInv, PTL DEF CommandSpec

(* No system is asked to carry out an order without its files: see          *)
(* WholeOrders.                                                             *)
THEOREM TicketWholeOrders == CommandSpec => []WholeOrders
<1>1. CommandInv => WholeOrders
  BY DEF CommandInv, CommandTypeOK, ExecutionInv, FilesInv, WholeOrders
<1>2. QED
  BY <1>1, CommandInvariance, PTL

-----------------------------------------------------------------------------
(* The refinement.  known is what AtMostOnce calls told.                    *)

known == [o \in Order |-> KnownTo(o)]

(* A step of the portal that tells nobody and executes nothing.             *)
LEMMA SilentStep ==
  ASSUME UNCHANGED <<executed, told>>
  PROVE  UNCHANGED <<known, executed>>
BY DEF known, KnownTo

(* A step that tells one caller a word, or starts to let one wait.          *)
LEMMA OneWord ==
  ASSUME CommandTypeOK, NEW o \in Order, NEW word,
         told' = [told EXCEPT ![o] = word]
  PROVE  known' = [known EXCEPT ![o] = IF word = "hollow" THEN "unsure" ELSE word]
BY DEF known, KnownTo, CommandTypeOK

LEMMA RefinementStep ==
  ASSUME CommandInv, [CommandNext]_commandVars
  PROVE  [Abstract!Next]_<<known, executed>>
<1>1. ASSUME NEW o \in Order, NEW c \in Command, Issue(o, c) PROVE Abstract!Next
  <2>1. told[o] = "unasked" /\ told' = [told EXCEPT ![o] = "nothing"] /\ UNCHANGED executed
    BY <1>1 DEF CommandInv, ToldInv, Issue
  <2>2. known[o] = "unasked"
    BY <2>1 DEF known, KnownTo
  <2>3. known' = [known EXCEPT ![o] = "nothing"]
    BY <2>1, OneWord DEF CommandInv
  <2>4. Abstract!Ask(o)
    BY <2>1, <2>2, <2>3 DEF Abstract!Ask, Abstract!Answer, known
  <2>5. QED
    BY <2>4 DEF Abstract!Next
<1>2. ASSUME NEW o \in Order, Serve(o) PROVE [Abstract!Next]_<<known, executed>>
  <2>1. wire[o] = "sent" /\ o \notin executed /\ UNCHANGED told
    BY <1>2 DEF Serve, CommandInv, ExecutionInv
  <2>2. UNCHANGED known
    BY <2>1 DEF known, KnownTo
  <2>3. order[o].pc \notin {"new", "refused", "done", "hollow"}
    BY <2>1 DEF CommandInv, WireInv, At
  <2>4. known[o] \in {"nothing", "unsure"}
    <3>1. told[o] \notin {"unasked", "done", "hollow", "refused"}
      BY <2>3 DEF CommandInv, ToldInv, At
    <3>2. QED
      BY <3>1 DEF CommandInv, CommandTypeOK, known, KnownTo
  <2>5. executed' = executed \/ executed' = executed \cup {o}
    BY <1>2 DEF Serve
  <2>6. CASE executed' = executed
    BY <2>2, <2>6
  <2>7. CASE executed' = executed \cup {o}
    <3>1. Abstract!Execute(o)
      BY <2>1, <2>2, <2>4, <2>7 DEF Abstract!Execute, known
    <3>2. QED
      BY <3>1 DEF Abstract!Next
  <2>8. QED
    BY <2>5, <2>6, <2>7
<1>3. ASSUME NEW o \in Order, Hear(o) \/ Cut(o) PROVE Abstract!Next
  <2>1. told[o] = "nothing" /\ UNCHANGED executed
    BY <1>3 DEF Hear, Cut
  <2>2. known[o] = "nothing"
    BY <2>1 DEF known, KnownTo
  <2>3. PICK word \in Answered \cup {"unsure"} :
          /\ told' = [told EXCEPT ![o] = word]
          /\ word = "unsure" \/ (At(o, word) /\ word # "gone")
    BY <1>3 DEF Hear, Cut, Answered, At
  <2>4. known' = [known EXCEPT ![o] = IF word = "hollow" THEN "unsure" ELSE word]
    BY <2>3, OneWord DEF CommandInv
  <2>5. CASE word \in {"unsure", "hollow"}
    <3>1. Abstract!GiveUp(o)
      BY <2>1, <2>2, <2>4, <2>5 DEF Abstract!GiveUp, Abstract!Answer, known
    <3>2. QED
      BY <3>1 DEF Abstract!Next
  <2>6. CASE word = "done"
    <3>1. o \in executed
      BY <2>3, <2>6 DEF CommandInv, WireInv, ExecutionInv
    <3>2. Abstract!Confirm(o)
      BY <2>1, <2>2, <2>4, <2>6, <3>1 DEF Abstract!Confirm, Abstract!Answer, known
    <3>3. QED
      BY <3>2 DEF Abstract!Next
  <2>7. CASE word = "refused"
    <3>1. o \notin executed
      BY <2>3, <2>7 DEF CommandInv, WireInv, ExecutionInv, At
    <3>2. Abstract!Refuse(o)
      BY <2>1, <2>2, <2>4, <2>7, <3>1 DEF Abstract!Refuse, Abstract!Answer, known
    <3>3. QED
      BY <3>2 DEF Abstract!Next
  <2>8. QED
    BY <2>3, <2>5, <2>6, <2>7 DEF Answered
<1>4. ASSUME NEW o \in Order, HandlerStep(o) PROVE [Abstract!Next]_<<known, executed>>
  <2>1. CASE Serve(o)
    BY <2>1, <1>2
  <2>2. CASE ~Serve(o)
    <3>1. UNCHANGED <<executed, told>>
      BY <1>4, <2>2 DEF HandlerStep, UploadRead, UploadFails, Uploaded, Connect,
         ConnectFails, Reply, CallBreaks, TimesOut, Enter
    <3>2. QED
      BY <3>1, SilentStep
  <2>3. QED
    BY <2>1, <2>2
<1>5. ASSUME Restart \/ UNCHANGED commandVars PROVE [Abstract!Next]_<<known, executed>>
  BY <1>5, SilentStep DEF Restart, commandVars
<1>6. QED
  BY <1>1, <1>3, <1>4, <1>5 DEF CommandNext

LEMMA RefinementInit == CommandInit => Abstract!Init
BY DEF CommandInit, Abstract!Init, KnownTo

(* The four commands implement AtMostOnce: see Promise.                     *)
THEOREM TicketPromise == CommandSpec => Promise
<1>1. CommandInv /\ [CommandNext]_commandVars
        => [Abstract!Next]_<<[o \in Order |-> KnownTo(o)], executed>>
  BY RefinementStep DEF known
<1>2. QED
  BY <1>1, RefinementInit, CommandInvariance, PTL DEF CommandSpec, Promise, Abstract!Spec

-----------------------------------------------------------------------------
(* The page knows of no created ticket but the one of the latest order, and *)
(* the mutation of that order is over exactly when its answer is known.     *)
LatestInv ==
  /\ latest # NoOrder => told[latest] # "unasked"
  /\ created # NoOrder => created = latest /\ told[latest] = "done"
  /\ latest # NoOrder /\ told[latest] # "nothing" => failed \/ created = latest

PageInv == TypeOK /\ CommandInv /\ LatestInv

(* A new choice keeps the type of the form.                                 *)
LEMMA ChoiceKeepsForm ==
  ASSUME form \in Form, NEW c \in Choice, NEW w \in BOOLEAN, NEW fs \in SUBSET File,
         NEW g, g = [choice |-> c, written |-> w, files |-> fs]
  PROVE  g \in Form
BY DEF Form

LEMMA FormFields ==
  ASSUME form \in Form
  PROVE  /\ form.choice \in Choice /\ form.written \in BOOLEAN /\ form.files \in SUBSET File
         /\ form = [choice |-> form.choice, written |-> form.written, files |-> form.files]
BY DEF Form

LEMMA NothingIsChoice == Nothing \in Choice
BY DEF Nothing, Choice

(* The reset and every filling in leave a form.                             *)
LEMMA ResetKeepsForm ==
  ASSUME form \in Form, Reset
  PROVE  form' \in Form /\ link' \in Choice /\ submitted' \in BOOLEAN
<1>1. form' = [choice |-> Nothing, written |-> FALSE, files |-> {}]
  BY FormFields DEF Reset
<1>2. QED
  BY <1>1, NothingIsChoice, ChoiceKeepsForm DEF Reset

LEMMA FillingKeepsForm ==
  ASSUME form \in Form, Choosing \/ Filling
  PROVE  form' \in Form
<1>1. CASE Choosing
  <2>1. PICK c \in Choice : Follow(c)
    BY <1>1 DEF Choosing
  <2>2. form' = [choice |-> c, written |-> form.written, files |-> form.files]
    BY <2>1, FormFields DEF Follow
  <2>3. QED
    BY <2>2, FormFields, ChoiceKeepsForm
<1>2. ASSUME NEW s \in Service, PickService(s) PROVE form' \in Form
  <2> DEFINE c == [form.choice EXCEPT !.service = s]
  <2>1. c \in Choice
    BY <1>2, FormFields DEF PickService, Choice, ServicesOf
  <2>2. form' = [form EXCEPT !.choice = c]
    BY <1>2 DEF PickService
  <2> HIDE DEF c
  <2>3. form' = [choice |-> c, written |-> form.written, files |-> form.files]
    BY <2>2, FormFields
  <2>4. QED
    BY <2>1, <2>3, FormFields, ChoiceKeepsForm
<1>3. ASSUME NEW w \in BOOLEAN, Write(w) PROVE form' \in Form
  <2>1. form' = [choice |-> form.choice, written |-> w, files |-> form.files]
    BY <1>3, FormFields DEF Write
  <2>2. QED
    BY <2>1, FormFields, ChoiceKeepsForm
<1>4. ASSUME NEW fs \in SUBSET File, Attach(fs) PROVE form' \in Form
  <2>1. form' = [choice |-> form.choice, written |-> form.written, files |-> fs]
    BY <1>4, FormFields DEF Attach
  <2>2. QED
    BY <2>1, FormFields, ChoiceKeepsForm
<1>5. QED
  BY <1>1, <1>2, <1>3, <1>4 DEF Filling

(* A step of the page that sends nothing and hears nothing.                 *)
LEMMA QuietKeeps ==
  ASSUME PageInv, UNCHANGED <<commandVars, latest, created, failed>>,
         form' \in Form, link' \in Choice, routes' \subseteq Routes, submitted' \in BOOLEAN
  PROVE  PageInv'
<1>1. CommandInv'
  BY NothingKeeps DEF PageInv
<1>2. TypeOK' /\ LatestInv'
  BY <1>1 DEF PageInv, TypeOK, LatestInv, CommandInv, commandVars
<1>3. QED
  BY <1>1, <1>2 DEF PageInv

LEMMA FillKeeps ==
  ASSUME PageInv, Choosing \/ Filling
  PROVE  PageInv'
<1>1. form' \in Form
  BY FillingKeepsForm DEF PageInv, TypeOK
<1>2. link' \in Choice /\ submitted' = submitted /\ Untouched
  BY DEF PageInv, TypeOK, Choosing, Filling, Follow, PickService, Write, Attach
<1>3. QED
  BY <1>1, <1>2, QuietKeeps DEF PageInv, TypeOK, Untouched

LEMMA LeaveKeeps ==
  ASSUME PageInv, Leave
  PROVE  PageInv'
BY ResetKeepsForm, QuietKeeps DEF PageInv, TypeOK, Leave, Untouched

LEMMA RoutesKeep ==
  ASSUME PageInv, NEW r \in SUBSET Routes, RoutesArrive(r)
  PROVE  PageInv'
<1>1. /\ form \in Form /\ link \in Choice /\ submitted \in BOOLEAN
      /\ UNCHANGED <<commandVars, latest, created, failed>> /\ routes' = r
  BY DEF PageInv, TypeOK, RoutesArrive
<1>2. form' \in Form /\ link' \in Choice /\ submitted' \in BOOLEAN
  <2>1. CASE UNCHANGED <<form, link, submitted>>
    BY <1>1, <2>1
  <2>2. CASE form' = [form EXCEPT !.choice = link] /\ UNCHANGED <<link, submitted>>
    <3>1. form' = [choice |-> link, written |-> form.written, files |-> form.files]
      BY <1>1, <2>2, FormFields
    <3>2. QED
      BY <1>1, <2>2, <3>1, FormFields, ChoiceKeepsForm
  <2>3. CASE Reset
    BY <1>1, <2>3, ResetKeepsForm
  <2>4. QED
    BY <2>1, <2>2, <2>3 DEF RoutesArrive
<1>3. QED
  BY <1>1, <1>2, QuietKeeps

(* What the page sends is an order the commands accept.                     *)
LEMMA SentIsCommand ==
  ASSUME PageInv, MaySend
  PROVE  NewTicket \in Command
<1>1. form.choice \in Choice /\ form.files \in SUBSET File /\ form.choice.service # NoService
  BY FormFields DEF PageInv, TypeOK, MaySend
<1>2. RouteOf[form.choice.service] \in System
  BY <1>1, FormAssumption DEF Choice
<1>3. QED
  BY <1>1, <1>2, FormAssumption DEF NewTicket, Command

LEMMA SubmitKeeps ==
  ASSUME PageInv, NEW o \in Order, Submit(o)
  PROVE  PageInv'
<1>1. NewTicket \in Command
  BY SentIsCommand DEF Submit
<1>2. CommandInv'
  BY <1>1, IssueKeeps DEF PageInv, Submit
<1>3. /\ latest' = o /\ created' = NoOrder /\ failed' = FALSE /\ submitted' = TRUE
      /\ UNCHANGED <<form, link, routes>> /\ told' = [told EXCEPT ![o] = "nothing"]
  BY DEF Submit, Issue
<1>4. TypeOK'
  BY <1>2, <1>3 DEF PageInv, TypeOK, CommandInv
<1>5. LatestInv'
  BY <1>3, FormAssumption DEF PageInv, CommandInv, CommandTypeOK, LatestInv
<1>6. QED
  BY <1>2, <1>4, <1>5 DEF PageInv

LEMMA HearsKeeps ==
  ASSUME PageInv, NEW o \in Order, Hears(o)
  PROVE  PageInv'
<1>1. CommandInv'
  BY TellKeeps DEF PageInv, Hears
<1>2. /\ told[o] = "nothing" /\ \A x \in Order \ {o} : told'[x] = told[x]
      /\ told'[o] \notin {"unasked", "nothing"}
      /\ UNCHANGED <<form, link, routes, submitted, latest>>
  BY DEF PageInv, CommandInv, CommandTypeOK, Hears, Hear, Cut, Answered, At
<1>3. CASE o = latest
  <2>1. /\ created' = IF told'[o] = "done" THEN o ELSE NoOrder
        /\ failed' = (told'[o] # "done")
    BY <1>3 DEF Hears, Learn
  <2>2. TypeOK'
    BY <1>1, <1>2, <2>1 DEF PageInv, TypeOK, CommandInv
  <2>3. LatestInv'
    BY <1>2, <1>3, <2>1 DEF LatestInv
  <2>4. QED
    BY <1>1, <2>2, <2>3 DEF PageInv
<1>4. CASE o # latest
  <2>1. UNCHANGED <<created, failed>>
    BY <1>4 DEF Hears, Learn
  <2>2. TypeOK'
    BY <1>1, <1>2, <2>1 DEF PageInv, TypeOK, CommandInv
  <2>3. latest # NoOrder => told'[latest] = told[latest]
    BY <1>2, <1>4 DEF PageInv, TypeOK
  <2>4. LatestInv'
    <3>1. created # NoOrder => latest # NoOrder
      BY DEF PageInv, LatestInv
    <3>2. QED
      BY <1>2, <2>1, <2>3, <3>1 DEF PageInv, LatestInv
  <2>5. QED
    BY <1>1, <2>2, <2>4 DEF PageInv
<1>5. QED
  BY <1>3, <1>4

LEMMA PortalKeeps ==
  ASSUME PageInv, Portal
  PROVE  PageInv'
<1>1. CommandInv' /\ UNCHANGED told /\ UNCHANGED pageVars
  <2>1. CommandInv'
    BY HandlerKeeps, RestartKeeps DEF PageInv, Portal
  <2>2. UNCHANGED told
    BY DEF Portal, Restart, HandlerStep, UploadRead, UploadFails, Uploaded, Connect,
       ConnectFails, Serve, Reply, CallBreaks, TimesOut, Enter
  <2>3. QED
    BY <2>1, <2>2 DEF Portal
<1>2. TypeOK' /\ LatestInv'
  BY <1>1 DEF PageInv, TypeOK, LatestInv, CommandInv, pageVars
<1>3. QED
  BY <1>1, <1>2 DEF PageInv

LEMMA PageInvariance == Spec => []PageInv
<1>1. Init => PageInv
  <2> SUFFICES ASSUME Init PROVE PageInv
    OBVIOUS
  <2>1. CommandInv
    BY CommandInitInv DEF Init
  <2>2. form \in Form
    BY NothingIsChoice DEF Init, Form
  <2>3. TypeOK /\ LatestInv
    BY <2>1, <2>2 DEF Init, TypeOK, LatestInv, CommandInv
  <2>4. QED
    BY <2>1, <2>3 DEF PageInv
<1>2. PageInv /\ [Next]_vars => PageInv'
  <2> SUFFICES ASSUME PageInv, [Next]_vars PROVE PageInv'
    OBVIOUS
  <2>1. CASE UNCHANGED vars
    BY <2>1, QuietKeeps DEF vars, pageVars, PageInv, TypeOK
  <2>2. QED
    BY <2>1, FillKeeps, LeaveKeeps, RoutesKeep, SubmitKeeps, HearsKeeps, PortalKeeps DEF Next
<1>3. QED
  BY <1>1, <1>2, PTL DEF Spec

(* The variables of the page and of the portal keep their types; in         *)
(* particular the form never offers or holds a service of another route.    *)
THEOREM FormTypes == Spec => []TypeOK
BY PageInvariance, PTL DEF PageInv

(* The page shows no success that is none: see SuccessIsTrue.               *)
THEOREM FormSuccess == Spec => []SuccessIsTrue
<1>1. PageInv => SuccessIsTrue
  <2> SUFFICES ASSUME PageInv, ShowsSuccess
               PROVE  created = latest /\ latest \in executed
                      /\ order[latest].read = order[latest].files
    BY DEF SuccessIsTrue
  <2>1. latest \in Order /\ created = latest /\ told[latest] = "done"
    BY DEF PageInv, TypeOK, LatestInv, ShowsSuccess
  <2>2. wire[latest] = "result"
    BY <2>1 DEF PageInv, CommandInv, ToldInv, WireInv
  <2>3. QED
    BY <2>1, <2>2 DEF PageInv, CommandInv, ExecutionInv, FilesInv
<1>2. QED
  BY <1>1, PageInvariance, PTL

(* Seen from the systems the page does nothing but order, so that it keeps  *)
(* the promise of AtMostOnce to whoever uses it: see Promise.               *)
THEOREM FormPromise == Spec => Promise
<1>1. Init => Abstract!Init
  BY RefinementInit DEF Init
<1>2. ASSUME PageInv, [Next]_vars PROVE [CommandNext]_commandVars
  <2>1. ASSUME NEW o \in Order, Submit(o) PROVE CommandNext
    BY <1>2, <2>1, SentIsCommand DEF Submit, CommandNext
  <2>2. ASSUME NEW o \in Order, Hears(o) PROVE CommandNext
    BY <2>2 DEF Hears, CommandNext
  <2>3. CASE Portal
    BY <2>3 DEF Portal, CommandNext
  <2>4. CASE Choosing \/ Filling \/ Leave \/ \E r \in SUBSET Routes : RoutesArrive(r)
    BY <2>4 DEF Choosing, Filling, Leave, RoutesArrive, Follow, PickService, Write,
       Attach, Untouched
  <2>5. CASE UNCHANGED vars
    BY <2>5 DEF vars
  <2>6. QED
    BY <1>2, <2>1, <2>2, <2>3, <2>4, <2>5 DEF Next
<1>3. PageInv /\ [Next]_vars
        => [Abstract!Next]_<<[o \in Order |-> KnownTo(o)], executed>>
  BY <1>2, RefinementStep DEF known, PageInv
<1>4. QED
  BY <1>1, <1>3, PageInvariance, PTL DEF Spec, Promise, Abstract!Spec
=============================================================================
