----------------------------- MODULE ProfileForm -----------------------------
(***************************************************************************)
(* The form of a profile: pages/profile/edit.tsx and new.tsx.  It keeps    *)
(* what it shows (`current`) apart from what it will send (`updated`), and *)
(* begins both anew when the query of the page brings something else.      *)
(* A photo is made smaller before it is shown, in a callback that puts     *)
(* back the form it was dropped on.                                        *)
(*                                                                         *)
(* What changeProfile does with the change is the subject of ProfileChange;*)
(* here it makes it or fails.  A new profile is never made: the documents  *)
(* of that page do not fit the interface.  Left out: the choice of a       *)
(* gender, and a list field whose text is typed and not picked, which is   *)
(* shown and not passed to the form.                                       *)
(***************************************************************************)
EXTENDS Naturals, FiniteSets

CONSTANTS
  FormField,
  NameField,  \* the names: one is needed for a new profile
  Listed,     \* ProfileAutocompleteFields: fields that offer a list
  Birthday,
  Word, noWord,
  Call,       \* changes on their way
  MaxCalls,   \* bound: those and the query of the page at a time
  PageQuery,        \* the query of the page
  NoProfile

ASSUME FormAssumption ==
  /\ NameField \cup Listed \cup {Birthday} \subseteq FormField
  /\ noWord \in Word /\ PageQuery \notin Call
  /\ MaxCalls \in Nat

VARIABLES
  person,   \* the profile in the database
  page, isAdmin,
  given,    \* the answer of the query
  current, updated,
  photo,    \* one was chosen
  resizing, \* the form that waits for its photo
  call,
  latest,   \* the change whose answer is awaited: older ones do not count
  rushed    \* history: the form was changed while a photo was made smaller

profileFormVars ==
  <<person, page, isAdmin, given, current, updated, photo, resizing, call, latest, rushed>>

FormValue == [FormField -> Word]
EmptyForm     == [f \in FormField |-> noWord]
NoChange  == [f \in {} |-> noWord]
Changed   == UNION {[fields -> Word] : fields \in SUBSET FormField}

(* { ...base, ...change }                                                   *)
With(base, change) ==
  [f \in DOMAIN base \cup DOMAIN change |-> IF f \in DOMAIN change THEN change[f] ELSE base[f]]

WithField(base, f, v) == With(base, [g \in {f} |-> v])

ASSUME NoProfileAssumption == NoProfile \notin FormValue \cup Changed \cup Call

Ended == [pc |-> "ended"]
Going == [pc : {"sent"}, what : Changed] \cup [pc : {"made"}] \cup [pc : {"read"}, got : FormValue]

ProfileFormTypeOK ==
  /\ person \in FormValue /\ page \in {"edit", "new"} /\ isAdmin \in BOOLEAN
  /\ given \in FormValue \cup {NoProfile} /\ current \in FormValue \cup {NoProfile}
  /\ updated \in Changed \cup {NoProfile}
  /\ photo \in BOOLEAN /\ resizing \in FormValue \cup {NoProfile}
  /\ call \in [Call \cup {PageQuery} -> Going \cup {Ended}] /\ latest \in Call \cup {NoProfile}
  /\ rushed \in BOOLEAN

(* Who is not an administrator is shown his or her own profile.             *)
Mine == EmptyForm

(* A new profile begins with newParameters, shown and to be sent.           *)
ProfileFormInit ==
  /\ person = EmptyForm /\ page \in {"edit", "new"} /\ isAdmin \in BOOLEAN
  /\ page = "new" => isAdmin
  /\ given   = IF page = "new" THEN EmptyForm ELSE NoProfile
  /\ current = IF isAdmin THEN given ELSE Mine
  /\ updated = given
  /\ photo = FALSE /\ resizing = NoProfile /\ rushed = FALSE
  /\ call = [q \in Call \cup {PageQuery} |-> IF q = PageQuery /\ page = "edit" THEN [pc |-> "made"] ELSE Ended]
  /\ latest = NoProfile

-----------------------------------------------------------------------------
(* The fields.                                                              *)

LoadingProfile == call[PageQuery] # Ended
LoadingChanged == latest # NoProfile

FormIsShown == current # NoProfile /\ ~LoadingProfile

(* A list offers what the profiles of all others have, but nothing empty.   *)
FieldSelection(f) == IF f \in Listed THEN Word \ {noWord} ELSE Word

(* Only an administrator's changes are taken.                               *)
HandleChange(f, v) ==
  /\ FormIsShown /\ ~LoadingChanged
  /\ isAdmin /\ updated # NoProfile
  /\ v \in FieldSelection(f)
  /\ current' = WithField(current, f, v) /\ updated' = WithField(updated, f, v)
  /\ rushed' = (rushed \/ resizing # NoProfile)
  /\ UNCHANGED <<person, page, isAdmin, given, photo, resizing, call, latest>>

(* Anybody's, here; without `updated` it is shown only.                     *)
HandleBirthday(v) ==
  /\ FormIsShown /\ ~LoadingChanged
  /\ current' = WithField(current, Birthday, v)
  /\ updated' = IF updated = NoProfile THEN updated ELSE WithField(updated, Birthday, v)
  /\ rushed' = (rushed \/ resizing # NoProfile)
  /\ UNCHANGED <<person, page, isAdmin, given, photo, resizing, call, latest>>

(* At any time, while the form is being sent too.                           *)
OnDrop ==
  /\ FormIsShown /\ resizing = NoProfile
  /\ photo' = TRUE /\ resizing' = current
  /\ UNCHANGED <<person, page, isAdmin, given, current, updated, call, latest, rushed>>

Resized ==
  /\ resizing # NoProfile /\ resizing' = NoProfile
  /\ current' \in {resizing, current}   \* or the photo cannot be read
  /\ UNCHANGED <<person, page, isAdmin, given, updated, photo, call, latest, rushed>>

-----------------------------------------------------------------------------
(* Sending.                                                                 *)

Room == Cardinality({q \in DOMAIN call : call[q] # Ended}) < MaxCalls

HasUpdate ==
  \/ LoadingChanged
  \/ page = "edit" /\ updated \notin {NoProfile, NoChange}
  \/ page = "edit" /\ photo
  \/ page = "new" /\ \E f \in NameField : updated[f] # noWord

(* Again while the last change is on its way: the button is enabled then.   *)
HandleSave(c) ==
  /\ isAdmin /\ HasUpdate /\ call[c] = Ended /\ Room
  /\ call' = [call EXCEPT ![c] = [pc |-> "sent", what |-> updated]]
  /\ latest' = c
  /\ UNCHANGED <<person, page, isAdmin, given, current, updated, photo, resizing, rushed>>

ChangeProfile(c) ==
  /\ call[c].pc = "sent" /\ page = "edit"
  /\ person' = With(person, call[c].what)
  /\ call' = [call EXCEPT ![c] = [pc |-> "made"]]
  /\ UNCHANGED <<page, isAdmin, given, current, updated, photo, resizing, latest, rushed>>

RefetchProfile ==
  /\ page = "edit" /\ call[PageQuery] = Ended /\ Room
  /\ call' = [call EXCEPT ![PageQuery] = [pc |-> "made"]]
  /\ UNCHANGED <<person, page, isAdmin, given, current, updated, photo, resizing, latest, rushed>>

(* A profile is read from the replica, and its answer kept for a while:     *)
(* either may still have what the page got last.                            *)
Readable == {person, given} \ {NoProfile}

(* What has been made is asked for again, and waited for.                   *)
ReadProfile(q) ==
  /\ call[q].pc = "made"
  /\ \E p \in Readable :
       call' = [call EXCEPT ![q] = [pc |-> "read", got |-> p]]
  /\ UNCHANGED <<person, page, isAdmin, given, current, updated, photo, resizing, latest, rushed>>

(* A bug: what was to be sent is still to be sent.                          *)
BeginForm_UpdatedKept(d) ==
  /\ current' = d
  /\ updated' = IF updated = NoProfile THEN NoChange ELSE updated
  /\ rushed' = (resizing # NoProfile)

(* The effect that begins the form anew.                                    *)
BeginForm(d) ==
  /\ current' = d /\ updated' = NoChange
  /\ rushed' = (resizing # NoProfile)

End(q) ==
  /\ call' = [call EXCEPT ![q] = Ended]
  /\ latest' = IF latest = q THEN NoProfile ELSE latest

(* Only what differs from the last answer is noticed.                       *)
ProfileArrives(q) ==
  /\ call[q].pc = "read"
  /\ End(q) /\ given' = call[q].got
  /\ IF given' = given THEN UNCHANGED <<current, updated, rushed>>
     ELSE IF isAdmin THEN BeginForm(given')
     ELSE current' = Mine /\ UNCHANGED <<updated, rushed>>
  /\ UNCHANGED <<person, page, isAdmin, photo, resizing>>

CallFails(q) ==
  /\ call[q] # Ended /\ End(q)
  /\ UNCHANGED <<person, page, isAdmin, given, current, updated, photo, resizing, rushed>>

(* A synchronization, or another administrator.                             *)
OthersChange(f, v) ==
  /\ page = "edit" /\ person[f] # v /\ person' = [person EXCEPT ![f] = v]
  /\ UNCHANGED <<page, isAdmin, given, current, updated, photo, resizing, call, latest, rushed>>

-----------------------------------------------------------------------------
FillIn ==
  \/ \E f \in FormField \ {Birthday}, v \in Word : HandleChange(f, v)
  \/ \E v \in Word : HandleBirthday(v)
  \/ OnDrop \/ Resized

ProfileFormNext ==
  \/ FillIn \/ RefetchProfile
  \/ \E c \in Call : HandleSave(c) \/ ChangeProfile(c)
  \/ \E q \in Call \cup {PageQuery} : ReadProfile(q) \/ ProfileArrives(q) \/ CallFails(q)
  \/ \E f \in FormField, v \in Word : OthersChange(f, v)

(* An administrator sees what will be saved: the answer of the query with   *)
(* the changes that Accept would send, whatever arrives, fails or is sent   *)
(* twice in between.  A form that was changed while a photo was being made  *)
(* smaller is shown without those changes until the next answer.            *)
SavedAsShown ==
  isAdmin /\ ~rushed /\ given # NoProfile => current = With(given, updated)

-----------------------------------------------------------------------------
(* The inductive invariant behind SavedAsShown: what waits for a photo is   *)
(* what is shown, and before the query is answered there is nothing to be   *)
(* shown, changed or sent.                                                  *)
FormInv ==
  /\ ProfileFormTypeOK /\ SavedAsShown
  /\ isAdmin /\ ~rushed /\ resizing # NoProfile => resizing = current
  /\ isAdmin /\ given = NoProfile => current = NoProfile /\ updated = NoProfile
  /\ isAdmin /\ given # NoProfile => current # NoProfile /\ updated # NoProfile
  /\ isAdmin /\ given = NoProfile => ~photo /\ resizing = NoProfile /\ latest = NoProfile
  /\ page = "new" => given # NoProfile
=============================================================================
