-------------------------------- MODULE NewUser --------------------------------
(***************************************************************************)
(* Adding a person or a contact to the directory from the portal:          *)
(* UserService.ldapCheckUsername and ldapNewUser, beside the logins and    *)
(* changes of LdapImport.                                                  *)
(*                                                                         *)
(* ldapNewUser has three parts that may fail one after the other: reading  *)
(* the photo, adding the object, and importing what the directory answers  *)
(* into the two tables.  Nothing takes an added object back.  The actor of *)
(* a request is the actor of its import; a request that asks for a name    *)
(* is answered with "free" whenever the search throws.                     *)
(***************************************************************************)
EXTENDS LdapImport

VARIABLES
  request,  \* the request each actor serves, then its answer
  doubted   \* history: accounts for which two imports were about to insert a
            \* profile, or which a lookup did not find although they have one

userVars == <<importVars, request>>
newVars  == <<userVars, doubted>>

Serving  == {"photo", "add", "import"}
Answered == {"created", "error", "busy", "free"}

NoRequest == [pc |-> "none"]

NewInit ==
  /\ ImportInit
  /\ request = [p \in Actor |-> NoRequest]
  /\ doubted = {}

-----------------------------------------------------------------------------
In(p, a, pc) == request[p] = [pc |-> pc, account |-> a]

Becomes(p, a, pc) == request' = [request EXCEPT ![p] = [pc |-> pc, account |-> a]]

Free(p) ==
  /\ request[p] = NoRequest
  /\ \A a \in Account : At(p, a, "idle")

(* ldapCheckUsername: the search finds the name, or throws, which it does   *)
(* when nobody has the name and when the directory cannot be asked.         *)
CheckUsername(p, a) ==
  /\ Free(p)
  /\ \/ Answers(p, a) # {"absent"} /\ Becomes(p, a, "busy") /\ UNCHANGED faults
     \/ "absent" \in Answers(p, a) /\ Becomes(p, a, "free") /\ UNCHANGED faults
     \/ "absent" \notin Answers(p, a) /\ Fault /\ Becomes(p, a, "free")
  /\ UNCHANGED <<dbVars, copyVars, sourceVars, task>>

(* The head of ldapNewUser: a contact must not have a login name, a person  *)
(* must have one; a photo is read before the directory is touched.          *)
AskNew(p, a, named, photo) ==
  /\ Free(p)
  /\ Becomes(p, a, IF named # (a \in UserAccount) THEN "error"
                   ELSE IF photo THEN "photo" ELSE "add")
  /\ UNCHANGED <<importVars>>

PhotoRead(p, a) ==
  /\ In(p, a, "photo") /\ Becomes(p, a, "add")
  /\ UNCHANGED <<importVars>>

PhotoFails(p, a) ==
  /\ In(p, a, "photo") /\ Fault /\ Becomes(p, a, "error")
  /\ UNCHANGED <<dbVars, copyVars, sourceVars, task>>

(* LdapService.add (external): a name is given once; s is the state of the  *)
(* new object, from "disabled" of the form.                                 *)
Exists(a, s) ==
  /\ directory[a] = "absent"
  /\ Says(a, s)

(* The answer of the directory is what the import starts from.              *)
Add(p, a, s) ==
  /\ In(p, a, "add") /\ Exists(a, s)
  /\ task' = [task EXCEPT ![p][a] = Started(a, s)]
  /\ Becomes(p, a, "import")
  /\ UNCHANGED <<dbVars, copyVars, changes, faults>>

(* Added, and the answer is lost or empty: "Cannot contact with AD".        *)
AddedUnseen(p, a, s) ==
  /\ In(p, a, "add") /\ Exists(a, s)
  /\ Fault /\ Becomes(p, a, "error")
  /\ UNCHANGED <<dbVars, copyVars, changes, task>>

AddFails(p, a) ==
  /\ In(p, a, "add")
  /\ IF directory[a] = "absent" THEN Fault ELSE UNCHANGED faults
  /\ Becomes(p, a, "error")
  /\ UNCHANGED <<dbVars, copyVars, sourceVars, task>>

(* A bug: the failure of the import is caught and the request goes on.      *)
ReplyNew_Anyhow(p, a) ==
  /\ In(p, a, "import")
  /\ At(p, a, "saved") \/ At(p, a, "failed")
  /\ Becomes(p, a, "created")
  /\ task' = [task EXCEPT ![p][a] = IdleTask]
  /\ UNCHANGED <<dbVars, copyVars, sourceVars, faults>>

ReplyNew(p, a) ==
  /\ In(p, a, "import")
  /\ \/ At(p, a, "saved")  /\ Becomes(p, a, "created")
     \/ At(p, a, "failed") /\ Becomes(p, a, "error")
  /\ task' = [task EXCEPT ![p][a] = IdleTask]
  /\ UNCHANGED <<dbVars, copyVars, sourceVars, faults>>

(* The page shows the answer.                                               *)
ShowReply(p) ==
  /\ request[p].pc \in Answered
  /\ request' = [request EXCEPT ![p] = NoRequest]
  /\ UNCHANGED importVars

-----------------------------------------------------------------------------
NewUserStep(p, a) ==
  \/ PhotoRead(p, a) \/ PhotoFails(p, a)
  \/ \E s \in Status : Add(p, a, s) \/ AddedUnseen(p, a, s)
  \/ AddFails(p, a) \/ ReplyNew(p, a)

AskStep(p, a) ==
  \/ CheckUsername(p, a)
  \/ \E named, photo \in BOOLEAN : AskNew(p, a, named, photo)

(* Imports, logins of actors that serve no request, and the environment.    *)
OtherStep ==
  /\ \/ \E p \in Actor, a \in Account : ImportStep(p, a)
     \/ \E p \in Actor : request[p] = NoRequest /\ LoginStep(p)
     \/ Environment
  /\ UNCHANGED request

NewStep ==
  \/ OtherStep
  \/ \E p \in Actor, a \in Account : NewUserStep(p, a) \/ AskStep(p, a)
  \/ \E p \in Actor : ShowReply(p)

(* For the property: two imports are about to insert the same profile, both *)
(* having found none; a lookup finds none although there is one, since it   *)
(* fails or the replica is behind.                                          *)
Inserting(p, a, x) ==
  At(p, a, "profileSave") /\ task[p][a].found = 0 /\ Current(p, a).account = x

Overlap(x) == \E p, q \in Actor, a, b \in Account :
  <<p, a>> # <<q, b>> /\ Inserting(p, a, x) /\ Inserting(q, b, x)

Missed(x) == \E p \in Actor, a \in Account :
  /\ At(p, a, "profileFind") /\ Current(p, a).account = x /\ Inserting(p, a, x)'
  /\ \E i \in Row : profile[x][i] # "none"

NewNext ==
  /\ NewStep
  /\ doubted' = doubted \cup {x \in Account : Overlap(x)' \/ Missed(x)}

(* A request and an import that run go on; nobody has to ask.               *)
NewFairness == \A p \in Actor, a \in Account :
  /\ WF_userVars(ImportStep(p, a) /\ UNCHANGED request)
  /\ WF_userVars(Answer(p, a) /\ request[p] = NoRequest /\ UNCHANGED request)
  /\ WF_userVars(NewUserStep(p, a))

NewSpec == NewInit /\ [][NewNext]_newVars /\ NewFairness

-----------------------------------------------------------------------------
(* Whoever is told that a person or contact was created finds it complete:  *)
(* its profile is in the table, and so is the user row of a person, though  *)
(* every part of the request may fail after the object was added.           *)
CreatedIsComplete ==
  \A p \in Actor, a \in Account :
    In(p, a, "created") =>
      /\ \E i \in Row : profile[a][i] # "none"
      /\ a \in UserAccount => user[a] # "none"

(* "Create or update": an object of the directory has at most one profile,  *)
(* however its own import and those of the people it manages, in a circle   *)
(* even, come one after the other or overlap: byLoginGUID is asked after    *)
(* the managers have been saved.  Left out are objects whose lookup failed, *)
(* was answered by a replica without the row, or was asked again before the *)
(* first one to ask had inserted it: there is no unique index to help.      *)
OneProfile ==
  \A x \in Account \ doubted : \A i, j \in Row :
    profile[x][i] # "none" /\ profile[x][j] # "none" => i = j

-----------------------------------------------------------------------------
(* The inductive invariants behind CreatedIsComplete and OneProfile.        *)

RequestTypeOK ==
  request \in [Actor -> {NoRequest} \cup [pc : Serving \cup Answered, account : Account]]

(* An actor imports one account at a time: a request begins when it imports *)
(* nothing, and has no other import but its own.                            *)
RequestInv ==
  \A p \in Actor :
    /\ \A a, b \in Account : ~At(p, a, "idle") /\ ~At(p, b, "idle") => a = b
    /\ \A a, b \in Account : In(p, a, "import") /\ ~At(p, b, "idle") => b = a
    /\ request[p].pc \notin {"none", "import"} => \A a \in Account : At(p, a, "idle")

NewInv ==
  /\ ImportInv /\ SavedInv
  /\ RequestTypeOK /\ RequestInv /\ CreatedIsComplete

(* Rows are never removed, and the replica has none that is not stored.     *)
RowFoundInv ==
  /\ \A x \in Account, i \in Row : profileCopy[x][i] # "none" => profile[x][i] # "none"
  /\ \A p \in Actor, a \in Account :
       At(p, a, "profileSave") /\ task[p][a].found # 0 =>
         profile[Current(p, a).account][task[p][a].found] # "none"

(* Whoever is about to insert a profile is alone, and there is none yet.    *)
InsertInv == \A x \in Account \ doubted :
  /\ ~Overlap(x)
  /\ \A p \in Actor, a \in Account : Inserting(p, a, x) =>
       \A i \in Row : profile[x][i] = "none"
=============================================================================
