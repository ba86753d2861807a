---------------------------- MODULE TicketCommand ----------------------------
(***************************************************************************)
(* The commands of TicketsService that the portal forwards to a ticket     *)
(* system: ticketsTaskNew, ticketsTaskEdit, ticketsTaskFile and            *)
(* ticketsComment.  A command reads the uploaded files, connects to the    *)
(* system, calls it and translates its answer.  The call may break or be   *)
(* cut off by the timeout while the system goes on executing it, the       *)
(* portal may restart, and the caller may lose the answer.                 *)
(*                                                                         *)
(* An order is one call of a command.  Every exception a command throws is *)
(* one of two answers: "refused", thrown before the system was called, and *)
(* "unsure", thrown afterwards.  "hollow" is a normal return without       *)
(* content.                                                                *)
(***************************************************************************)
CONSTANTS
  Order,
  Kind,       \* "new", "edit", "file", "comment"
  File,       \* uploads
  System,     \* the values of TkWhere
  Soap,       \* the system that is called through SOAP
  Configured  \* the osTicket systems with an address in OSTICKET_URL

(* A download has nothing to upload.                                        *)
Command ==
  {c \in [kind : Kind, system : System, files : SUBSET File] :
     c.kind \in {"file", "comment"} => c.files = {}}

ASSUME KindAssumption   == Kind \subseteq {"new", "edit", "file", "comment"}
ASSUME SystemAssumption == Soap \in System /\ Configured \subseteq System \ {Soap}

VARIABLES
  order,     \* how far the portal is with each order
  wire,      \* the request to the system, then its answer
  executed,  \* the orders the systems have carried out
  told       \* what the caller knows

commandVars == <<order, wire, executed, told>>

Answered == {"done", "hollow", "refused", "unsure", "gone"}
Working  == {"upload", "connect", "waiting"}

(* read: the files whose streams have ended.                                *)
Given == [pc : Working \cup Answered, kind : Kind, system : System,
          files : SUBSET File, read : SUBSET File]
New   == [pc |-> "new"]

CommandTypeOK ==
  /\ order \in [Order -> Given \cup {New}]
  /\ wire \in [Order -> {"none", "sent", "result", "empty", "error"}]
  /\ executed \subseteq Order
  /\ told \in [Order -> {"unasked", "nothing", "done", "hollow", "refused", "unsure"}]

CommandInit ==
  /\ order = [o \in Order |-> New]
  /\ wire = [o \in Order |-> "none"]
  /\ executed = {}
  /\ told = [o \in Order |-> "unasked"]

-----------------------------------------------------------------------------
(* The phases of a command.  ticketsTaskNew reads the uploads before it     *)
(* looks at the system, ticketsTaskEdit after it has connected.             *)

(* Only 1C can be edited; a system without an address is not implemented.   *)
Dispatch(c) ==
  IF c.system = Soap THEN "connect"
  ELSE IF c.system \in Configured /\ c.kind # "edit" THEN "waiting"
  ELSE "refused"

First(c)        == IF c.kind = "new"  THEN "upload" ELSE Dispatch(c)
AfterUpload(c)  == IF c.kind = "new"  THEN Dispatch(c) ELSE "waiting"
AfterConnect(c) == IF c.kind = "edit" THEN "upload" ELSE "waiting"

(* To wait is to have sent the request, in the same turn of the event loop. *)
Goto(o, c, pc) ==
  /\ order' = [order EXCEPT ![o] =
       [pc |-> pc, kind |-> c.kind, system |-> c.system,
        files |-> c.files, read |-> c.read]]
  /\ wire' = [wire EXCEPT ![o] = IF pc = "waiting" THEN "sent" ELSE @]

At(o, pc) == order[o].pc = pc

Enter(o, pc) == Goto(o, order[o], pc) /\ UNCHANGED <<executed, told>>

Issue(o, c) ==
  /\ At(o, "new")
  /\ Goto(o, [kind |-> c.kind, system |-> c.system, files |-> c.files,
              read |-> {}], First(c))
  /\ told' = [told EXCEPT ![o] = "nothing"]
  /\ UNCHANGED executed

(* constructUploads: the streams are read side by side, one error ends all. *)
UploadRead(o, f) ==
  /\ At(o, "upload") /\ f \in order[o].files \ order[o].read
  /\ order' = [order EXCEPT ![o].read = @ \cup {f}]
  /\ UNCHANGED <<wire, executed, told>>

(* A bug: the error of the uploads is logged and not thrown again.          *)
UploadFails_Logged(o, f) ==
  /\ At(o, "upload") /\ f \in order[o].files \ order[o].read
  /\ Enter(o, AfterUpload(order[o]))

UploadFails(o, f) ==
  /\ At(o, "upload") /\ f \in order[o].files \ order[o].read
  /\ Enter(o, "refused")

Uploaded(o) ==
  /\ At(o, "upload") /\ order[o].read = order[o].files
  /\ Enter(o, AfterUpload(order[o]))

Connect(o)      == At(o, "connect") /\ Enter(o, AfterConnect(order[o]))
ConnectFails(o) == At(o, "connect") /\ Enter(o, "refused")

-----------------------------------------------------------------------------
(* The call.                                                                *)

(* The system executes the request or does not, and answers with a result,  *)
(* with nothing or with an error; a result means that it has executed it.   *)
Serve(o) ==
  /\ wire[o] = "sent"
  /\ \E answer \in {"result", "empty", "error"} :
       /\ wire' = [wire EXCEPT ![o] = answer]
       /\ \/ executed' = executed \cup {o}
          \/ answer # "result" /\ UNCHANGED executed
  /\ UNCHANGED <<order, told>>

(* A bug: an empty answer is taken for a ticket.                            *)
EmptyMeans_Done(c) == IF c.kind = "new" THEN "done" ELSE "hollow"

(* A new ticket must come back; the others return the lack of an answer.    *)
EmptyMeans(c) == IF c.kind = "new" THEN "unsure" ELSE "hollow"

Reply(o) ==
  /\ At(o, "waiting")
  /\ \/ wire[o] = "result" /\ Enter(o, "done")
     \/ wire[o] = "empty"  /\ Enter(o, EmptyMeans(order[o]))
     \/ wire[o] = "error"  /\ Enter(o, "unsure")

(* A bug: the handler of connection errors catches those of the call too.   *)
CallBreaks_Forbidden(o) == At(o, "waiting") /\ Enter(o, "refused")

(* The connection breaks; the request may have arrived.                     *)
CallBreaks(o) == At(o, "waiting") /\ Enter(o, "unsure")

(* A bug: the call is made without the option.                              *)
TimesOut_Never(o) == FALSE

(* Only SOAP calls are given a timeout.                                     *)
TimesOut(o) ==
  At(o, "waiting") /\ order[o].system = Soap /\ Enter(o, "unsure")

-----------------------------------------------------------------------------
(* Around the commands.                                                     *)

(* A restart of the portal ends what it was doing, not the systems' work.   *)
Restart ==
  /\ \E o \in Order : order[o].pc \in Working
  /\ order' = [o \in Order |-> IF order[o].pc \in Working
                               THEN [order[o] EXCEPT !.pc = "gone"] ELSE order[o]]
  /\ UNCHANGED <<wire, executed, told>>

(* The answer reaches the caller; that of a dead portal is a network error. *)
Hear(o) ==
  /\ told[o] = "nothing" /\ order[o].pc \in Answered
  /\ told' = [told EXCEPT ![o] = IF At(o, "gone") THEN "unsure" ELSE order[o].pc]
  /\ UNCHANGED <<order, wire, executed>>

(* The caller's connection breaks while the portal goes on.                 *)
Cut(o) ==
  /\ told[o] = "nothing"
  /\ told' = [told EXCEPT ![o] = "unsure"]
  /\ UNCHANGED <<order, wire, executed>>

HandlerStep(o) ==
  \/ \E f \in File : UploadRead(o, f) \/ UploadFails(o, f)
  \/ Uploaded(o) \/ Connect(o) \/ ConnectFails(o)
  \/ Serve(o) \/ Reply(o) \/ CallBreaks(o) \/ TimesOut(o)

CommandNext ==
  \/ \E o \in Order, c \in Command : Issue(o, c)
  \/ \E o \in Order : HandlerStep(o) \/ Hear(o) \/ Cut(o)
  \/ Restart

(* A SOAP call is cut off after TIMEOUT, and a finished answer reaches      *)
(* whoever still waits for it.  No system has to answer, no upload and no   *)
(* connection to 1C, which has no timeout, has to end, nobody has to order. *)
CommandFairness ==
  \A o \in Order : WF_commandVars(Reply(o) \/ TimesOut(o)) /\ WF_commandVars(Hear(o))

CommandSpec == CommandInit /\ [][CommandNext]_commandVars /\ CommandFairness

-----------------------------------------------------------------------------
(* A system is never asked to carry out an order with only some of its      *)
(* files: constructUploads waits for all of them or throws.                 *)
WholeOrders ==
  \A o \in executed : order[o].read = order[o].files

(* The commands keep the promise of AtMostOnce: success is only reported of *)
(* what was executed, and Forbidden, NotImplemented and an upload error     *)
(* only of what never will be, whatever breaks, restarts or is overtaken.   *)
KnownTo(o) == IF told[o] = "hollow" THEN "unsure" ELSE told[o]

Abstract == INSTANCE AtMostOnce WITH told <- [o \in Order |-> KnownTo(o)]

Promise == Abstract!Spec

(* Once 1C has been called, its silence does not keep the caller waiting    *)
(* for ever: every SOAP call of the commands has a timeout.                 *)
SoapAnswers ==
  \A o \in Order :
    (told[o] = "nothing" /\ At(o, "waiting") /\ order[o].system = Soap)
      ~> (told[o] # "nothing")
=============================================================================
