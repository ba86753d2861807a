----------------------------- MODULE Pages_proofs -----------------------------
(***************************************************************************)
(* Proofs about Pages, for any people, tasks, files, tabs and requests:    *)
(* each part has an inductive invariant of its own, and a part that has    *)
(* not begun keeps its own.                                                *)
(***************************************************************************)
EXTENDS Pages, WellFoundedInduction, TLAPS

-----------------------------------------------------------------------------
(* The card of a person.                                                    *)

LEMMA CardStarts == ProfileCardInit => CardInv
BY DEF ProfileCardInit, CardInv, ProfileCardTypeOK, CardIsAsked, Anybody

LEMMA CardAsks ==
  ASSUME CardInv, NEW p \in Colleague, NEW who \in Anybody, GetProfile(p, who),
         url' \in Colleague
  PROVE  CardInv'
BY CardAssumption DEF GetProfile, SetProfile, CardInv, ProfileCardTypeOK, CardIsAsked, Anybody

LEMMA CardStep ==
  ASSUME CardInv, [ProfileCardNext]_profileCardVars
  PROVE  CardInv'
<1> USE CardAssumption DEF CardInv, ProfileCardTypeOK, CardIsAsked, Anybody
<1>1. ASSUME NEW p \in Colleague, OpenCard(p) \/ ChangeAddress(p) \/ HandleProfile(p)
      PROVE  CardInv'
  <2>1. \E who \in Anybody : GetProfile(p, who)
    BY <1>1 DEF OpenCard, ChangeAddress, HandleProfile
  <2>2. url' \in Colleague
    BY <1>1 DEF OpenCard, ChangeAddress, HandleProfile, ProfileField, FieldsAreShown
  <2>3. QED
    BY <2>1, <2>2, CardAsks
<1>2. ASSUME NEW p \in Colleague, OutrunAnswers(p) PROVE CardInv'
  BY <1>2 DEF OutrunAnswers
<1>3. CASE CloseCard
  BY <1>3 DEF CloseCard
<1>4. CASE CardAnswers
  BY <1>4 DEF CardAnswers, SetProfile
<1>5. CASE CardFails
  BY <1>5 DEF CardFails
<1>6. CASE UNCHANGED profileCardVars
  BY <1>6 DEF profileCardVars
<1>7. QED
  BY <1>1, <1>2, <1>3, <1>4, <1>5, <1>6 DEF ProfileCardNext

-----------------------------------------------------------------------------
(* The files of a task.                                                     *)

LEMMA NothingSaved ==
  /\ <<>> \in Seq(File) /\ Len(<<>>) <= 1 /\ Len(<<>>) <= MaxSaved /\ ToSet(<<>>) = {}
BY DEF ToSet, MaxSaved

LEMMA OneSaved ==
  ASSUME NEW f \in File
  PROVE  /\ <<f>> \in Seq(File) /\ Len(<<f>>) = 1 /\ Len(<<f>>) <= MaxSaved
         /\ <<f>> # <<>> /\ ToSet(<<f>>) = {f}
<1>1. <<f>> \in Seq(File) /\ Len(<<f>>) = 1 /\ <<f>>[1] = f /\ <<f>> # <<>>
  OBVIOUS
<1>2. DOMAIN <<f>> = {1}
  OBVIOUS
<1>3. QED
  BY <1>1, <1>2 DEF ToSet, MaxSaved

LEMMA Downloaded ==
  ASSUME saved \in Seq(File), Len(saved) <= MaxSaved, NEW f \in File, Download(f)
  PROVE  /\ saved' \in Seq(File) /\ Len(saved') <= MaxSaved /\ saved' # <<>>
         /\ ToSet(saved') \subseteq ToSet(saved) \cup {f}
         /\ saved = <<>> => Len(saved') <= 1
<1> USE DEF MaxSaved
<1>1. Len(saved) \in Nat
  OBVIOUS
<1>2. CASE Len(saved) < MaxSaved
  <2>1. saved' = Append(saved, f)
    BY <1>2 DEF Download
  <2>2. /\ Append(saved, f) \in Seq(File) /\ Len(Append(saved, f)) = Len(saved) + 1
        /\ DOMAIN Append(saved, f) = 1..Len(saved) + 1 /\ DOMAIN saved = 1..Len(saved)
        /\ \A i \in 1..Len(saved) : Append(saved, f)[i] = saved[i]
        /\ Append(saved, f)[Len(saved) + 1] = f
    OBVIOUS
  <2>3. ToSet(Append(saved, f)) \subseteq ToSet(saved) \cup {f}
    BY <1>1, <2>2 DEF ToSet
  <2>4. Append(saved, f) # <<>>
    BY <1>1, <2>2
  <2>5. saved = <<>> => Len(saved) = 0
    OBVIOUS
  <2>6. QED
    BY <1>1, <1>2, <2>1, <2>2, <2>3, <2>4, <2>5
<1>3. CASE ~(Len(saved) < MaxSaved)
  <2>1. saved' = saved
    BY <1>3 DEF Download
  <2>2. saved # <<>>
    BY <1>3
  <2>3. QED
    BY <2>1, <2>2
<1>4. QED
  BY <1>2, <1>3

LEMMA FilesStart == TaskFilesInit => FilesInv
<1> SUFFICES ASSUME TaskFilesInit PROVE FilesInv
  OBVIOUS
<1>1. saved = <<>>
  BY DEF TaskFilesInit
<1>2. saved \in Seq(File) /\ Len(saved) <= 1 /\ Len(saved) <= MaxSaved /\ ToSet(saved) = {}
  BY <1>1, NothingSaved
<1>3. /\ area \in {"tickets", "documents"} /\ fetch = [c \in Fetch |-> NoFile]
      /\ heeded = NoFile /\ body = NoFile /\ stepping = FALSE /\ kept = {}
      /\ wanted = NoFile /\ refused = FALSE
  BY DEF TaskFilesInit
<1>4. TaskFilesTypeOK
  BY <1>2, <1>3 DEF TaskFilesTypeOK
<1>5. FileArrives
  BY <1>2, <1>3 DEF FileArrives
<1>6. QED
  BY <1>1, <1>3, <1>4, <1>5 DEF FilesInv

LEMMA ClickKeeps ==
  ASSUME FilesInv, NEW f \in File, HandleDownload(f)
  PROVE  FilesInv'
<1> USE FileAssumption DEF FilesInv
<1>1. wanted' = f /\ refused' = FALSE /\ UNCHANGED <<area, stepping>> /\ f # NoFile
  BY DEF HandleDownload, Clicked, TaskFilesTypeOK
<1>2. CASE FromCache(f) /\ body' = f /\ saved' = <<f>> /\ heeded' = NoFile /\ UNCHANGED <<fetch, kept>>
  <2>1. /\ saved' \in Seq(File) /\ Len(saved') <= 1 /\ Len(saved') <= MaxSaved
        /\ saved' # <<>> /\ ToSet(saved') = {f}
    BY <1>2, OneSaved
  <2>2. body' = f /\ heeded' = NoFile /\ UNCHANGED <<fetch, kept>>
    BY <1>2
  <2>3. TaskFilesTypeOK'
    BY <1>1, <2>1, <2>2 DEF TaskFilesTypeOK
  <2>4. FileArrives'
    BY <1>1, <2>1, <2>2 DEF FileArrives
  <2>5. QED
    BY <1>1, <2>1, <2>2, <2>3, <2>4
<1>3. ASSUME NEW c \in Fetch, fetch' = [fetch EXCEPT ![c] = f], heeded' = c,
             body' = NoFile, saved' = <<>>, UNCHANGED kept
      PROVE  FilesInv'
  <2>1. saved' \in Seq(File) /\ Len(saved') <= 1 /\ Len(saved') <= MaxSaved /\ ToSet(saved') = {}
    BY <1>3, NothingSaved
  <2>2. /\ fetch' \in [Fetch -> File \cup {NoFile}] /\ fetch'[c] = f
        /\ heeded' = c /\ body' = NoFile /\ UNCHANGED kept
    BY <1>3 DEF TaskFilesTypeOK
  <2>3. TaskFilesTypeOK'
    BY <1>1, <2>1, <2>2 DEF TaskFilesTypeOK
  <2>4. FileArrives'
    BY <1>1, <2>1, <2>2 DEF FileArrives
  <2>5. QED
    BY <1>1, <1>3, <2>2, <2>3, <2>4
<1>4. QED
  BY <1>2, <1>3 DEF HandleDownload

LEMMA FileAnswersKeeps ==
  ASSUME FilesInv, NEW c \in Fetch, FileAnswers(c)
  PROVE  FilesInv'
<1> USE FileAssumption DEF FilesInv
<1>1. /\ fetch[c] \in File /\ fetch' = [fetch EXCEPT ![c] = NoFile]
      /\ UNCHANGED <<area, stepping, wanted, refused>>
      /\ kept' \subseteq File
  BY DEF FileAnswers, TaskFilesTypeOK
<1>2. CASE c = heeded
  <2>1. /\ body' = fetch[c] /\ Download(fetch[c]) /\ heeded' = NoFile
        /\ fetch[c] = wanted /\ saved = <<>> /\ refused = FALSE
    BY <1>1, <1>2 DEF FileAnswers, HasFile, TaskFilesTypeOK
  <2>2. ToSet(saved) = {}
    BY <2>1, NothingSaved
  <2>3. /\ saved' \in Seq(File) /\ Len(saved') <= MaxSaved /\ saved' # <<>>
        /\ ToSet(saved') \subseteq {wanted} /\ Len(saved') <= 1
    BY <1>1, <2>1, <2>2, Downloaded DEF TaskFilesTypeOK
  <2>4. TaskFilesTypeOK'
    BY <1>1, <2>1, <2>3 DEF TaskFilesTypeOK
  <2>5. FileArrives'
    BY <1>1, <2>1, <2>3 DEF FileArrives
  <2>6. QED
    BY <1>1, <2>1, <2>4, <2>5
<1>3. CASE c # heeded
  <2>1. UNCHANGED <<body, saved, heeded>>
    BY <1>3 DEF FileAnswers, HasFile
  <2>2. TaskFilesTypeOK'
    BY <1>1, <2>1 DEF TaskFilesTypeOK
  <2>3. heeded # NoFile => fetch'[heeded] = fetch[heeded]
    BY <1>1, <1>3 DEF TaskFilesTypeOK
  <2>4. FileArrives'
    BY <1>1, <2>1 DEF FileArrives
  <2>5. QED
    BY <1>1, <2>1, <2>2, <2>3, <2>4
<1>4. QED
  BY <1>2, <1>3

LEMMA FileFailsKeeps ==
  ASSUME FilesInv, NEW c \in Fetch, FileFails(c)
  PROVE  FilesInv'
<1> USE FileAssumption DEF FilesInv
<1>1. fetch' = [fetch EXCEPT ![c] = NoFile] /\ UNCHANGED <<area, body, stepping, kept, wanted, saved>>
  BY DEF FileFails
<1>2. heeded' \in {heeded, NoFile} /\ refused' \in BOOLEAN
  BY DEF FileFails, TaskFilesTypeOK
<1>3. TaskFilesTypeOK'
  BY <1>1, <1>2 DEF TaskFilesTypeOK
<1>4. CASE c = heeded
  BY <1>1, <1>3, <1>4 DEF FileFails, FileArrives, TaskFilesTypeOK
<1>5. CASE c # heeded
  <2>1. UNCHANGED <<heeded, refused>>
    BY <1>5 DEF FileFails
  <2>2. heeded # NoFile => fetch'[heeded] = fetch[heeded]
    BY <1>1, <1>5 DEF TaskFilesTypeOK
  <2>3. QED
    BY <1>1, <1>3, <2>1, <2>2 DEF FileArrives
<1>6. QED
  BY <1>4, <1>5

LEMMA RenderKeeps ==
  ASSUME FilesInv, RenderDocument, stepping' \in BOOLEAN
  PROVE  FilesInv'
<1> USE FileAssumption DEF FilesInv
<1>1. area = "documents" /\ UNCHANGED <<area, fetch, heeded, body, kept, wanted, refused>>
  BY DEF RenderDocument
<1>2. CASE body = NoFile
  <2>1. UNCHANGED saved
    BY <1>2 DEF RenderDocument
  <2>2. QED
    BY <1>1, <2>1 DEF TaskFilesTypeOK, FileArrives
<1>3. CASE body # NoFile
  <2>1. Download(body) /\ body \in File /\ body = wanted /\ ~refused /\ heeded = NoFile
    BY <1>3 DEF RenderDocument, TaskFilesTypeOK
  <2>2. /\ saved' \in Seq(File) /\ Len(saved') <= MaxSaved /\ saved' # <<>>
        /\ ToSet(saved') \subseteq ToSet(saved) \cup {wanted}
    BY <2>1, Downloaded DEF TaskFilesTypeOK
  <2>3. TaskFilesTypeOK'
    BY <1>1, <2>2 DEF TaskFilesTypeOK
  <2>4. FileArrives'
    BY <1>1, <2>1, <2>2 DEF FileArrives
  <2>5. QED
    BY <1>1, <2>1, <2>3, <2>4
<1>4. QED
  BY <1>2, <1>3

LEMMA FilesStep ==
  ASSUME FilesInv, [TaskFilesNext]_taskFilesVars
  PROVE  FilesInv'
<1>1. HandleComments \/ HandleProcessStep \/ ProcessStepFails => FilesInv'
  BY RenderKeeps DEF HandleComments, HandleProcessStep, ProcessStepFails, FilesInv, TaskFilesTypeOK
<1>2. UNCHANGED taskFilesVars => FilesInv'
  BY DEF taskFilesVars, FilesInv, TaskFilesTypeOK, FileArrives
<1>3. QED
  BY <1>1, <1>2, ClickKeeps, FileAnswersKeeps, FileFailsKeeps DEF TaskFilesNext

-----------------------------------------------------------------------------
(* The form of a profile.                                                   *)

(* What a change makes of a form, or of another change.                     *)
LEMMA Laid ==
  ASSUME NEW base \in FormValue, NEW change \in Changed
  PROVE  /\ With(base, change) \in FormValue
         /\ \A f \in FormField : With(base, change)[f] =
              IF f \in DOMAIN change THEN change[f] ELSE base[f]
<1>1. PICK fields \in SUBSET FormField : change \in [fields -> Word]
  BY DEF Changed
<1>2. DOMAIN base = FormField /\ FormField \cup DOMAIN change = FormField
  BY <1>1 DEF FormValue
<1>3. With(base, change) =
        [f \in FormField |-> IF f \in DOMAIN change THEN change[f] ELSE base[f]]
  BY <1>2 DEF With
<1>4. QED
  BY <1>1, <1>3 DEF FormValue

LEMMA NoChangeLaid ==
  ASSUME NEW base \in FormValue
  PROVE  NoChange \in Changed /\ With(base, NoChange) = base
<1>1. NoChange \in [{} -> Word] /\ DOMAIN NoChange = {}
  BY FormAssumption DEF NoChange
<1>2. NoChange \in Changed
  BY <1>1 DEF Changed
<1>3. QED
  BY <1>1, <1>2, Laid DEF FormValue

LEMMA FieldLaid ==
  ASSUME NEW change \in Changed, NEW f \in FormField, NEW v \in Word
  PROVE  /\ WithField(change, f, v) \in Changed
         /\ \A g \in FormField : g \in DOMAIN WithField(change, f, v) <=> g \in DOMAIN change \/ g = f
         /\ \A g \in FormField : g \in DOMAIN change \/ g = f =>
              WithField(change, f, v)[g] = IF g = f THEN v ELSE change[g]
<1>1. PICK fields \in SUBSET FormField : change \in [fields -> Word]
  BY DEF Changed
<1>2. WithField(change, f, v) = [g \in fields \cup {f} |-> IF g = f THEN v ELSE change[g]]
  BY <1>1 DEF WithField, With
<1>3. fields \cup {f} \in SUBSET FormField
  OBVIOUS
<1>4. WithField(change, f, v) \in [fields \cup {f} -> Word]
  BY <1>1, <1>2
<1>5. QED
  BY <1>1, <1>2, <1>3, <1>4 DEF Changed

LEMMA FieldOfForm ==
  ASSUME NEW form \in FormValue, NEW f \in FormField, NEW v \in Word
  PROVE  WithField(form, f, v) = [form EXCEPT ![f] = v]
<1>1. DOMAIN form = FormField /\ FormField \cup {f} = FormField
  BY DEF FormValue
<1>2. WithField(form, f, v) = [g \in FormField |-> IF g = f THEN v ELSE form[g]]
  BY <1>1 DEF WithField, With
<1>3. QED
  BY <1>1, <1>2 DEF FormValue

(* To change a field and then lay the change over a form is to change the   *)
(* field of the form.                                                       *)
LEMMA OneMore ==
  ASSUME NEW change \in Changed, NEW f \in FormField, NEW v \in Word, NEW base \in FormValue
  PROVE  With(base, WithField(change, f, v)) = WithField(With(base, change), f, v)
<1> DEFINE wider == WithField(change, f, v)
           laid == With(base, change)
<1>1. wider \in Changed /\ laid \in FormValue
  BY FieldLaid, Laid
<1>2. With(base, wider) \in [FormField -> Word]
  BY <1>1, Laid DEF FormValue
<1>3. WithField(laid, f, v) = [laid EXCEPT ![f] = v]
  BY <1>1, FieldOfForm
<1>4. ASSUME NEW g \in FormField
      PROVE  With(base, wider)[g] = [laid EXCEPT ![f] = v][g]
  <2>1. With(base, wider)[g] = IF g \in DOMAIN wider THEN wider[g] ELSE base[g]
    BY <1>1, Laid
  <2>2. laid[g] = IF g \in DOMAIN change THEN change[g] ELSE base[g]
    BY Laid
  <2>3. /\ g \in DOMAIN wider <=> g \in DOMAIN change \/ g = f
        /\ g \in DOMAIN change \/ g = f => wider[g] = IF g = f THEN v ELSE change[g]
    BY FieldLaid
  <2>4. [laid EXCEPT ![f] = v][g] = IF g = f THEN v ELSE laid[g]
    BY <1>1 DEF FormValue
  <2>5. QED
    BY <2>1, <2>2, <2>3, <2>4
<1>5. [laid EXCEPT ![f] = v] \in [FormField -> Word]
  BY <1>1 DEF FormValue
<1>6. QED
  BY <1>2, <1>3, <1>4, <1>5

LEMMA FormStarts == ProfileFormInit => FormInv
<1> SUFFICES ASSUME ProfileFormInit PROVE FormInv
  OBVIOUS
<1>1. EmptyForm \in FormValue /\ DOMAIN EmptyForm = FormField
  BY FormAssumption DEF EmptyForm, FormValue
<1>2. EmptyForm \in Changed
  BY <1>1 DEF Changed, FormValue
<1>3. With(EmptyForm, EmptyForm) = EmptyForm
  BY <1>1, <1>2, Laid DEF FormValue
<1>4. call \in [Call \cup {PageQuery} -> Going \cup {Ended}]
  BY DEF ProfileFormInit, Going, Ended
<1>5. NoProfile # EmptyForm
  BY <1>1, NoProfileAssumption
<1>6. given \in {EmptyForm, NoProfile} /\ updated = given /\ current \in {EmptyForm, NoProfile}
  BY DEF ProfileFormInit, Mine
<1>7. ProfileFormTypeOK
  BY <1>1, <1>2, <1>4, <1>6 DEF ProfileFormInit, ProfileFormTypeOK
<1>8. SavedAsShown
  BY <1>3, <1>6 DEF ProfileFormInit, SavedAsShown
<1>9. QED
  BY <1>5, <1>6, <1>7, <1>8 DEF ProfileFormInit, FormInv

(* The form with one field changed, shown and to be sent.                   *)
LEMMA FillsIn ==
  ASSUME FormInv, NEW f \in FormField, NEW v \in Word, current # NoProfile,
         current' = WithField(current, f, v),
         updated' = IF updated = NoProfile THEN updated ELSE WithField(updated, f, v),
         rushed' = (rushed \/ resizing # NoProfile),
         UNCHANGED <<person, page, isAdmin, given, photo, resizing, call, latest>>
  PROVE  FormInv'
<1> USE DEF FormInv
<1>1. current \in FormValue /\ current' \in FormValue
  <2>1. current \in FormValue
    BY DEF ProfileFormTypeOK
  <2>2. current' = [current EXCEPT ![f] = v]
    BY <2>1, FieldOfForm
  <2>3. QED
    BY <2>1, <2>2 DEF FormValue
<1>2. /\ updated' \in Changed \cup {NoProfile}
      /\ updated # NoProfile => updated \in Changed /\ updated' \in Changed
  BY FieldLaid DEF ProfileFormTypeOK
<1>3. ProfileFormTypeOK'
  BY <1>1, <1>2 DEF ProfileFormTypeOK
<1>4. /\ current' # NoProfile
      /\ updated # NoProfile => updated' # NoProfile
  BY <1>1, <1>2, NoProfileAssumption
<1>5. ~rushed' => ~rushed /\ resizing = NoProfile
  BY DEF ProfileFormTypeOK
<1>6. ASSUME isAdmin, ~rushed', given # NoProfile PROVE current' = With(given, updated')
  <2>1. current = With(given, updated) /\ updated # NoProfile /\ given \in FormValue
    BY <1>5, <1>6 DEF SavedAsShown, ProfileFormTypeOK
  <2>2. With(given, updated') = WithField(With(given, updated), f, v)
    BY <1>2, <2>1, OneMore
  <2>3. QED
    BY <2>1, <2>2
<1>7. SavedAsShown'
  BY <1>6 DEF SavedAsShown
<1>8. QED
  BY <1>3, <1>4, <1>5, <1>7

LEMMA FormBegins ==
  ASSUME FormInv, NEW q \in Call \cup {PageQuery}, ProfileArrives(q)
  PROVE  FormInv'
<1> USE DEF FormInv
<1>1. /\ given' \in FormValue /\ call' = [call EXCEPT ![q] = Ended]
      /\ latest' \in {latest, NoProfile}
      /\ UNCHANGED <<person, page, isAdmin, photo, resizing>>
  <2>1. call[q] \in Going \cup {Ended} /\ call[q].pc = "read"
    BY DEF ProfileArrives, ProfileFormTypeOK
  <2>2. call[q].got \in FormValue
    BY <2>1 DEF Going, Ended
  <2>3. QED
    BY <2>2 DEF ProfileArrives, End
<1>2. /\ call' \in [Call \cup {PageQuery} -> Going \cup {Ended}]
      /\ latest' \in Call \cup {NoProfile}
  BY <1>1 DEF ProfileFormTypeOK
<1>3. given' # NoProfile
  BY <1>1, NoProfileAssumption
<1>4. CASE given' = given
  <2>1. UNCHANGED <<current, updated, rushed>>
    BY <1>4 DEF ProfileArrives
  <2>2. ProfileFormTypeOK'
    BY <1>1, <1>2, <2>1 DEF ProfileFormTypeOK
  <2>3. SavedAsShown'
    BY <1>1, <1>4, <2>1 DEF SavedAsShown
  <2>4. QED
    BY <1>1, <1>3, <1>4, <2>1, <2>2, <2>3
<1>5. CASE given' # given /\ isAdmin
  <2>1. current' = given' /\ updated' = NoChange /\ rushed' = (resizing # NoProfile)
    BY <1>5 DEF ProfileArrives, BeginForm
  <2>2. NoChange \in Changed /\ With(given', NoChange) = given'
    BY <1>1, NoChangeLaid
  <2>3. ProfileFormTypeOK'
    BY <1>1, <1>2, <2>1, <2>2 DEF ProfileFormTypeOK
  <2>4. SavedAsShown'
    BY <2>1, <2>2 DEF SavedAsShown
  <2>5. updated' # NoProfile /\ (~rushed' => resizing' = NoProfile)
    BY <1>1, <2>1, <2>2, NoProfileAssumption
  <2>6. QED
    BY <1>3, <2>1, <2>3, <2>4, <2>5
<1>6. CASE given' # given /\ ~isAdmin
  <2>1. current' = Mine /\ UNCHANGED <<updated, rushed>>
    BY <1>6 DEF ProfileArrives
  <2>2. Mine \in FormValue
    BY FormAssumption DEF Mine, EmptyForm, FormValue
  <2>3. ProfileFormTypeOK'
    BY <1>1, <1>2, <2>1, <2>2 DEF ProfileFormTypeOK
  <2>4. ~isAdmin'
    BY <1>1, <1>6
  <2>5. QED
    BY <1>3, <2>3, <2>4 DEF SavedAsShown
<1>7. QED
  BY <1>4, <1>5, <1>6

(* Nothing that concerns the form.                                          *)
LEMMA FormStays ==
  ASSUME FormInv, person' \in FormValue,
         call' \in [Call \cup {PageQuery} -> Going \cup {Ended}],
         latest' \in Call \cup {NoProfile},
         isAdmin /\ given = NoProfile => latest' = NoProfile,
         UNCHANGED <<page, isAdmin, given, current, updated, photo, resizing, rushed>>
  PROVE  FormInv'
BY DEF FormInv, ProfileFormTypeOK, SavedAsShown

LEMMA FormStep ==
  ASSUME FormInv, [ProfileFormNext]_profileFormVars
  PROVE  FormInv'
<1>1. ProfileFormTypeOK
  BY DEF FormInv
<1>2. ASSUME NEW f \in FormField, NEW v \in Word, HandleChange(f, v) PROVE FormInv'
  BY <1>2, FillsIn DEF HandleChange, FormIsShown
<1>3. ASSUME NEW v \in Word, HandleBirthday(v) PROVE FormInv'
  BY <1>3, FillsIn, FormAssumption DEF HandleBirthday, FormIsShown
<1>4. CASE OnDrop
  <2>1. current \in FormValue /\ current # NoProfile
    BY <1>1, <1>4 DEF OnDrop, FormIsShown, ProfileFormTypeOK
  <2>2. QED
    BY <1>4, <2>1 DEF OnDrop, FormInv, ProfileFormTypeOK, SavedAsShown
<1>5. CASE Resized
  <2>1. current' \in FormValue \cup {NoProfile}
    BY <1>1, <1>5 DEF Resized, ProfileFormTypeOK
  <2>2. ~rushed /\ isAdmin => current' = current
    BY <1>5 DEF Resized, FormInv
  <2>3. isAdmin /\ given # NoProfile => current' # NoProfile
    BY <1>5 DEF Resized, FormInv
  <2>4. isAdmin => given # NoProfile
    BY <1>5 DEF Resized, FormInv
  <2>5. QED
    BY <1>5, <2>1, <2>2, <2>3, <2>4 DEF Resized, FormInv, ProfileFormTypeOK, SavedAsShown
<1>6. ASSUME NEW c \in Call, HandleSave(c) PROVE FormInv'
  <2>1. given # NoProfile /\ updated \in Changed
    BY <1>1, <1>6 DEF HandleSave, HasUpdate, LoadingChanged, FormInv, ProfileFormTypeOK
  <2>2. [pc |-> "sent", what |-> updated] \in Going
    BY <2>1 DEF Going
  <2>3. QED
    BY <1>1, <1>6, <2>1, <2>2, FormStays DEF HandleSave, ProfileFormTypeOK
<1>7. ASSUME NEW c \in Call, ChangeProfile(c) PROVE FormInv'
  <2>1. call[c] \in Going \cup {Ended} /\ call[c].pc = "sent"
    BY <1>1, <1>7 DEF ChangeProfile, ProfileFormTypeOK
  <2>2. call[c].what \in Changed
    BY <2>1 DEF Going, Ended
  <2>3. person' \in FormValue /\ [pc |-> "made"] \in Going
    BY <1>1, <1>7, <2>2, Laid DEF ChangeProfile, ProfileFormTypeOK, Going
  <2>4. QED
    BY <1>1, <1>7, <2>3, FormStays DEF ChangeProfile, ProfileFormTypeOK, FormInv
<1>8. CASE RefetchProfile
  <2>1. [pc |-> "made"] \in Going
    BY DEF Going
  <2>2. QED
    BY <1>1, <1>8, <2>1, FormStays DEF RefetchProfile, ProfileFormTypeOK, FormInv
<1>9. ASSUME NEW q \in Call \cup {PageQuery}, ReadProfile(q) PROVE FormInv'
  <2>1. PICK p \in Readable : call' = [call EXCEPT ![q] = [pc |-> "read", got |-> p]]
    BY <1>9 DEF ReadProfile
  <2>2. [pc |-> "read", got |-> p] \in Going
    BY <1>1, <2>1 DEF Readable, Going, ProfileFormTypeOK
  <2>3. QED
    BY <1>1, <1>9, <2>1, <2>2, FormStays DEF ReadProfile, ProfileFormTypeOK, FormInv
<1>10. ASSUME NEW q \in Call \cup {PageQuery}, CallFails(q) PROVE FormInv'
  BY <1>1, <1>10, FormStays DEF CallFails, End, ProfileFormTypeOK, FormInv
<1>11. ASSUME NEW f \in FormField, NEW v \in Word, OthersChange(f, v) PROVE FormInv'
  <2>1. person' \in FormValue
    BY <1>1, <1>11 DEF OthersChange, ProfileFormTypeOK, FormValue
  <2>2. QED
    BY <1>1, <1>11, <2>1, FormStays DEF OthersChange, ProfileFormTypeOK, FormInv
<1>12. CASE UNCHANGED profileFormVars
  BY <1>1, <1>12, FormStays DEF profileFormVars, ProfileFormTypeOK, FormInv
<1>13. QED
  BY <1>2, <1>3, <1>4, <1>5, <1>6, <1>7, <1>8, <1>9, <1>10, <1>11, <1>12, FormBegins
  DEF ProfileFormNext, FillIn

-----------------------------------------------------------------------------
(* The pages of tasks.                                                      *)

LEMMA TasksStart == TaskPagesInit => TasksInv
<1> SUFFICES ASSUME TaskPagesInit PROVE TasksInv
  OBVIOUS
<1>1. \A s \in System \cup Target : reply[s] = Waiting /\ Items(s) = {}
  BY DEF TaskPagesInit, Items, Waiting
<1>2. NoData \in [items : SUBSET About, errors : BOOLEAN] /\ ~NoData.errors
  BY DEF NoData
<1>3. reply \in [System \cup Target -> Reply \cup {Waiting}]
  BY DEF TaskPagesInit
<1>4. TaskPagesTypeOK
  BY <1>2, <1>3 DEF TaskPagesInit, TaskPagesTypeOK
<1>5. SeenInv
  BY <1>1 DEF TaskPagesInit, SeenInv, Waiting, System
<1>6. \A s \in OSTicket : reply[s].kind # "late"
  BY <1>1 DEF System, Waiting
<1>7. QED
  BY <1>2, <1>4, <1>5, <1>6 DEF TaskPagesInit, TasksInv, NothingVanishes

(* What is asked for, and of whom.                                          *)
LEMMA AboutWhom ==
  ASSUME TaskPagesTypeOK, NEW i \in About
  PROVE  /\ i \in Item /\ Holder[i] \in System /\ Holder[i] \in Asked
         /\ view = "tickets" => Holder[i] # Docflow
         /\ view = "documents" => Holder[i] = Docflow
         /\ view \in Item => i = view
<1>1. view \in Item => view \notin {"tickets", "documents"}
  BY TaskPagesAssumption
<1>2. i \in Item
  BY <1>1 DEF About, TaskPagesTypeOK
<1>3. Holder[i] \in System
  BY <1>2, TaskPagesAssumption
<1>4. QED
  BY <1>1, <1>2, <1>3 DEF About, Asked, System, TaskPagesTypeOK

LEMMA RepliesKeep ==
  ASSUME TasksInv, NEW s \in System \cup Target, SystemReplies(s)
  PROVE  TasksInv'
<1> USE DEF TasksInv
<1>1. PICK r \in {[kind |-> k] : k \in {"refused", "fault", "late", "empty", "disguised"}}
                 \cup {[kind |-> "items", items |-> {i \in held : Holder[i] = s}]} :
        /\ r.kind = "late" => s \notin OSTicket
        /\ reply' = [reply EXCEPT ![s] = r]
        /\ mute' = IF r.kind = "disguised" /\ view = "tickets" THEN mute \cup {s} ELSE mute
  BY DEF SystemReplies
<1>2. /\ due # "no" /\ reply[s] = Waiting
      /\ seen' = seen \cup {i \in held : Holder[i] = s}
      /\ UNCHANGED <<view, held, due, known, shown, data, told, stale>>
  BY DEF SystemReplies
<1>3. /\ About' = About
      /\ held \subseteq About /\ \A i \in held : Holder[i] \in System
  <2>1. About' = About
    BY <1>2 DEF About
  <2>2. QED
    BY <2>1, AboutWhom DEF TaskPagesTypeOK
<1>4. r \in Reply /\ r # Waiting
  <2>1. CASE r \in {[kind |-> k] : k \in {"refused", "fault", "late", "empty", "disguised"}}
    BY <2>1 DEF Reply, Waiting
  <2>2. CASE r = [kind |-> "items", items |-> {i \in held : Holder[i] = s}]
    <3>1. {i \in held : Holder[i] = s} \subseteq Item
      BY <1>3, AboutWhom DEF TaskPagesTypeOK
    <3>2. r \in [kind : {"items"}, items : SUBSET Item] /\ r.kind = "items"
      BY <2>2, <3>1
    <3>3. Waiting.kind # "items"
      BY DEF Waiting
    <3>4. QED
      BY <3>2, <3>3 DEF Reply
  <2>3. QED
    BY <1>1, <2>1, <2>2
<1>5. /\ reply' \in [System \cup Target -> Reply \cup {Waiting}]
      /\ reply'[s] = r /\ \A q \in System \cup Target : q # s => reply'[q] = reply[q]
  BY <1>1, <1>4 DEF TaskPagesTypeOK
<1>14. mute' \subseteq System /\ (view # "tickets" => mute' = {})
  <2>1. view = "tickets" => s \in System
    BY <1>2 DEF SystemReplies, Asked, System
  <2>2. QED
    BY <1>1, <2>1 DEF TaskPagesTypeOK
<1>6. TaskPagesTypeOK'
  BY <1>2, <1>3, <1>5, <1>14 DEF TaskPagesTypeOK
<1>15. /\ \A q \in mute' : reply'[q].kind = "disguised"
       /\ view = "tickets" => \A q \in System : reply'[q].kind = "disguised" => q \in mute'
  <2>1. mute \subseteq System /\ s \notin mute
    BY <1>2 DEF TaskPagesTypeOK, SeenInv, Waiting
  <2>2. QED
    BY <1>1, <1>2, <1>5, <2>1 DEF SeenInv
<1>7. /\ Items(s)' \subseteq {i \in held : Holder[i] = s}
      /\ reply'[s].kind = "items" => Items(s)' = {i \in held : Holder[i] = s}
  <2>1. r.kind = "items" => r.items = {i \in held : Holder[i] = s}
    BY <1>1
  <2>2. QED
    BY <1>5, <2>1 DEF Items
<1>8. \A q \in System \cup Target : q # s => Items(q)' = Items(q)
  BY <1>5 DEF Items
<1>9. \A q \in System \cup Target : Items(q)' \subseteq {i \in seen' : Holder[i] = q}
  BY <1>2, <1>7, <1>8 DEF SeenInv
<1>10. ASSUME NEW i \in seen'
       PROVE  /\ reply'[Holder[i]] # Waiting
              /\ reply'[Holder[i]].kind = "items" => i \in Items(Holder[i])'
  <2>1. Holder[i] \in System /\ i \in About
    BY <1>2, <1>3, AboutWhom DEF TaskPagesTypeOK
  <2>2. CASE Holder[i] = s
    <3>1. i \notin seen
      BY <1>2, <2>2 DEF SeenInv
    <3>2. i \in held
      BY <1>2, <3>1
    <3>3. QED
      BY <1>4, <1>5, <1>7, <2>2, <3>2
  <2>3. CASE Holder[i] # s
    <3>1. i \in seen
      BY <1>2, <2>3
    <3>2. reply'[Holder[i]] = reply[Holder[i]] /\ Items(Holder[i])' = Items(Holder[i])
      BY <1>5, <1>8, <2>1, <2>3
    <3>3. QED
      BY <1>2, <3>1, <3>2 DEF SeenInv
  <2>4. QED
    BY <2>2, <2>3
<1>11. SeenInv'
  BY <1>2, <1>9, <1>10, <1>15 DEF SeenInv
<1>12. \A q \in OSTicket : reply'[q].kind # "late"
  BY <1>1, <1>5 DEF System
<1>13. QED
  BY <1>2, <1>6, <1>11, <1>12 DEF NothingVanishes

(* Once a request is over, nothing of it is left; what the page shows and   *)
(* tells is all there is to see.                                            *)
LEMMA OverKeeps ==
  ASSUME TasksInv, Over, shown' \subseteq About,
         data' \in [items : SUBSET About, errors : BOOLEAN],
         known' \in BOOLEAN, told' \in BOOLEAN, stale' \in BOOLEAN,
         shown' = Visible \/ told' \/ (OfDocuments /\ stale') \/ view \in Target,
         view = "tickets" /\ data'.errors => told'
  PROVE  TasksInv'
<1> USE DEF TasksInv
<1>1. About' = About /\ OfDocuments' = OfDocuments /\ view' = view
  BY DEF Over, About, OfDocuments
<1>2. /\ reply' \in [System \cup Target -> Reply \cup {Waiting}]
      /\ \A s \in System \cup Target : reply'[s] = Waiting /\ Items(s)' = {}
  BY DEF Over, Items, Waiting
<1>3. TaskPagesTypeOK'
  BY <1>1, <1>2 DEF TaskPagesTypeOK, Over
<1>4. SeenInv'
  BY <1>2 DEF SeenInv, Over, Waiting
<1>5. NothingVanishes'
  BY <1>1 DEF NothingVanishes, Visible, Over
<1>6. \A s \in OSTicket : reply'[s].kind # "late"
  BY <1>2 DEF System, Waiting
<1>7. QED
  BY <1>1, <1>3, <1>4, <1>5, <1>6

(* An error is told, but where a page of documents shows what it had.       *)
LEMMA ErrorKeeps ==
  ASSUME TasksInv, ShowError, Over
  PROVE  TasksInv'
<1>1. TaskPagesTypeOK
  BY DEF TasksInv
<1>2. view = "tickets" => ~OfDocuments /\ view \notin Target
  BY TaskPagesAssumption DEF OfDocuments
<1>3. view = "documents" => OfDocuments
  BY DEF OfDocuments
<1>4. NoData \in [items : SUBSET About, errors : BOOLEAN]
  BY DEF NoData
<1>5. /\ shown' \subseteq About /\ data' \in [items : SUBSET About, errors : BOOLEAN]
      /\ known' \in BOOLEAN /\ stale' = (shown' # {})
  BY <1>1, <1>4 DEF ShowError, TaskPagesTypeOK
<1>6. /\ view = "documents" => told' = (shown' = {})
      /\ view # "documents" /\ view \notin Target => told' = (OfDocuments => shown' = {})
      /\ view # "documents" /\ view \in Target => told' = (shown' # {})
  BY DEF ShowError, DocumentListTells, TargetTells, DocumentTaskTells
<1>7. told' \in BOOLEAN /\ (told' \/ (OfDocuments /\ stale') \/ view \in Target)
  BY <1>3, <1>5, <1>6
<1>8. view = "tickets" => told'
  BY <1>2, <1>6
<1>9. QED
  BY <1>5, <1>7, <1>8, OverKeeps

LEMMA AnswerTyped ==
  ASSUME TasksInv
  PROVE  /\ Answer \in [items : SUBSET About, errors : BOOLEAN]
         /\ Answer.items \subseteq seen
<1>1. TaskPagesTypeOK /\ SeenInv
  BY DEF TasksInv
<1>2. \A s \in System : Gives(s) \subseteq seen
  BY <1>1 DEF SeenInv, Gives
<1>3. Answer.items \subseteq seen
  BY <1>2 DEF Answer
<1>4. Answer.errors \in BOOLEAN
  BY DEF Answer
<1>5. Answer = [items |-> Answer.items, errors |-> Answer.errors]
  BY DEF Answer
<1>6. QED
  BY <1>1, <1>3, <1>4, <1>5 DEF TaskPagesTypeOK

LEMMA Conversion ==
  ASSUME NEW i
  PROVE  Converted(i) \in {"nothing", "throws", "unfit", "fine"}
BY DEF Converted, SoapTask, OstDescription, OstTask, DocflowDocument, DocflowTask

(* What a system has given, and what neither throws nor is refused, is in   *)
(* the answer.                                                              *)
LEMMA GivenIsAnswered ==
  ASSUME TasksInv, due # "no", NEW i \in seen, reply[Holder[i]].kind = "items",
         ~Throws(Holder[i]), ~Refused(Items(Holder[i]))
  PROVE  i \in Answer.items
<1>1. i \in About /\ Holder[i] \in Asked \cap System
  BY AboutWhom DEF TasksInv, TaskPagesTypeOK
<1>2. i \in Items(Holder[i]) /\ Gives(Holder[i]) = Items(Holder[i])
  BY DEF TasksInv, SeenInv, Gives
<1>3. Converted(i) = "fine"
  BY <1>2, Conversion DEF Throws, Refused
<1>4. QED
  BY <1>1, <1>2, <1>3 DEF Answer

(* A system whose error is disguised gives nothing.                         *)
LEMMA MuteGiveNothing ==
  ASSUME TasksInv, due # "no", NEW i \in Answer.items
  PROVE  i \in Visible
<1>1. PICK s \in System : i \in Items(s)
  BY DEF Answer, Gives
<1>2. Holder[i] = s /\ i \in seen /\ reply[s].kind = "items"
  BY <1>1 DEF TasksInv, SeenInv, Items
<1>3. s \notin mute
  BY <1>2 DEF TasksInv, SeenInv
<1>4. QED
  BY <1>2, <1>3 DEF Visible

(* A list that is answered without an error is all there was to see.        *)
LEMMA ListIsWhole ==
  ASSUME TasksInv, due # "no", ~AnswerFails, view \in {"tickets", "documents"},
         ~Answer.errors, NEW i \in Visible
  PROVE  i \in Answer.items
<1>1. TaskPagesTypeOK /\ SeenInv /\ \A s \in OSTicket : reply[s].kind # "late"
  BY DEF TasksInv
<1>2. i \in About /\ i \in seen /\ Holder[i] \notin mute
  BY <1>1 DEF TaskPagesTypeOK, Visible
<1> DEFINE s == Holder[i]
<1>3. s \in System /\ s \in Asked /\ reply[s] # Waiting /\ reply[s] \in Reply \cup {Waiting}
  BY <1>1, <1>2, AboutWhom DEF SeenInv, TaskPagesTypeOK
<1>4. reply[s].kind \in {"refused", "fault", "late", "empty", "disguised", "items"}
  BY <1>3 DEF Reply
<1>5. CASE view = "tickets"
  <2>1. s \in {Soap} \cup OSTicket
    BY <1>3, <1>5 DEF Asked
  <2>2. ~Complains(s)
    BY <1>3, <1>5 DEF Answer
  <2>3. reply[Soap].kind # "late" /\ ~Refused(Gives(s))
    BY <1>3, <1>5 DEF AnswerFails, TicketListFails
  <2>4. reply[s].kind # "disguised"
    BY <1>1, <1>2, <1>3, <1>5 DEF SeenInv
  <2>5. reply[s].kind = "items" /\ ~Throws(s)
    BY <1>1, <1>4, <2>1, <2>2, <2>3, <2>4 DEF Complains
  <2>6. QED
    BY <1>2, <2>3, <2>5, GivenIsAnswered DEF Gives
<1>6. CASE view = "documents"
  <2>1. s = Docflow
    BY <1>1, <1>2, <1>6, AboutWhom
  <2>2. reply[s].kind = "items" /\ ~Throws(s) /\ ~Refused(Items(s))
    BY <1>6, <2>1 DEF AnswerFails, DocumentListFails
  <2>3. QED
    BY <1>2, <2>2, GivenIsAnswered
<1>7. QED
  BY <1>5, <1>6

(* The page of one task shows it, or has nothing to show and says so.       *)
LEMMA DataKeeps ==
  ASSUME TasksInv, due # "no", ~AnswerFails, ShowData(Answer), Over
  PROVE  TasksInv'
<1>1. TaskPagesTypeOK
  BY DEF TasksInv
<1>2. Answer \in [items : SUBSET About, errors : BOOLEAN] /\ Answer.items \subseteq seen
  BY AnswerTyped
<1>3. shown' = Answer.items /\ data' = Answer /\ stale' = FALSE /\ known' \in BOOLEAN
  BY <1>1 DEF ShowData, TaskPagesTypeOK
<1>4. seen \subseteq About /\ (view # "tickets" => Visible = seen)
  BY <1>1 DEF TaskPagesTypeOK, Visible
<1>9. Answer.items \subseteq Visible
  BY MuteGiveNothing
<1>5. CASE view = "tickets"
  <2>1. told' = IF Answer = data THEN told ELSE Answer.errors
    BY <1>5 DEF ShowData, TicketListTells
  <2>2. told' \in BOOLEAN
    BY <1>1, <1>2, <2>1 DEF TaskPagesTypeOK
  <2>3. Answer.errors => told'
    BY <1>5, <2>1 DEF TasksInv
  <2>4. shown' = Visible \/ told'
    BY <1>9, <1>3, <1>5, <2>3, ListIsWhole
  <2>5. QED
    BY <1>2, <1>3, <2>2, <2>3, <2>4, OverKeeps
<1>6. CASE view = "documents"
  <2>1. ~Answer.errors
    BY <1>6 DEF Answer
  <2>2. shown' = Visible
    BY <1>9, <1>3, <1>6, <2>1, ListIsWhole
  <2>3. told' \in BOOLEAN
    BY <1>6 DEF ShowData, DocumentListTells
  <2>4. QED
    BY <1>2, <1>3, <1>6, <2>2, <2>3, OverKeeps
<1>7. CASE view \in Item
  <2>1. view \notin {"tickets", "documents"}
    BY <1>7, TaskPagesAssumption
  <2>2. About = {view}
    BY <2>1 DEF About
  <2>3. told' = (shown' = {})
    BY <2>1 DEF ShowData, DocumentTaskTells, TicketTells
  <2>4. shown' = Visible \/ told'
    BY <1>2, <1>3, <1>4, <2>1, <2>2, <2>3
  <2>5. QED
    BY <1>2, <1>3, <2>1, <2>3, <2>4, OverKeeps
<1>8. QED
  BY <1>1, <1>5, <1>6, <1>7 DEF TaskPagesTypeOK

LEMMA TasksStep ==
  ASSUME TasksInv, [TaskPagesNext]_taskPageVars
  PROVE  TasksInv'
<1>1. TaskPagesTypeOK
  BY DEF TasksInv
<1>2. ASSUME NEW items \in SUBSET About, Hold(items) PROVE TasksInv'
  BY <1>1, <1>2 DEF Hold, TasksInv, TaskPagesTypeOK, SeenInv, NothingVanishes, Visible, About,
                    OfDocuments, Items
<1>3. ASSUME NEW s \in System \cup Target, SystemReplies(s) PROVE TasksInv'
  BY <1>3, RepliesKeep
<1>4. CASE Receive
  BY <1>4, ErrorKeeps, DataKeeps DEF Receive
<1>5. CASE RequestFails
  BY <1>5, ErrorKeeps DEF RequestFails
<1>6. CASE RefetchTasks
  <2>1. About' = About /\ \A s \in System \cup Target : reply'[s] = Waiting /\ Items(s)' = {}
    BY <1>6 DEF RefetchTasks, About, Items, TasksInv, SeenInv, Waiting
  <2>2. QED
    BY <1>1, <1>6, <2>1 DEF RefetchTasks, TasksInv, TaskPagesTypeOK, SeenInv, NothingVanishes, Visible,
                       Waiting
<1>7. CASE UNCHANGED taskPageVars
  BY <1>1, <1>7 DEF taskPageVars, TasksInv, TaskPagesTypeOK, SeenInv, NothingVanishes, Visible, About,
                    OfDocuments, Items
<1>8. QED
  BY <1>2, <1>3, <1>4, <1>5, <1>6, <1>7 DEF TaskPagesNext

-----------------------------------------------------------------------------
(* The visit of a browser.                                                  *)

LEMMA VisitStarts == VisitInit => VisitInv
<1> SUFFICES ASSUME VisitInit PROVE VisitInv
  OBVIOUS
<1>1. \A r \in Request : request[r] = Idle /\ request[r].kind = "idle"
  BY DEF VisitInit, Idle
<1>2. VisitTypeOK
  BY PageAssumption DEF VisitInit, VisitTypeOK, Address, Nobody
<1>3. TabInv
  BY <1>1 DEF VisitInit, TabInv, Fits, Matches, Asks
<1>4. RequestInv
  BY <1>1 DEF RequestInv, Asks, Hears
<1>5. QED
  BY <1>2, <1>3, <1>4 DEF VisitInv

LEMMA RequestTyped ==
  ASSUME VisitTypeOK, NEW r \in Request
  PROVE  /\ request[r] = Idle => request[r].kind = "idle"
         /\ request[r] # Idle => request[r] \in Busy /\ request[r].kind # "idle"
         /\ request[r] \in Busy =>
              /\ request[r].kind \in {"page", "me", "login", "logout"}
              /\ request[r].tab \in Tab \cup {None} /\ request[r].pc \in {"sent", "served"}
              /\ request[r].who \in Nobody
<1>1. request[r] \in Busy \cup {Idle}
  BY DEF VisitTypeOK
<1>2. QED
  BY <1>1 DEF Busy, Idle

(* A tab goes on showing who is signed in when nothing it is about to hear  *)
(* changes, or when what it is to hear is who is signed in.                 *)
LEMMA FitsStill ==
  ASSUME NEW t \in Tab, Fits(t), session' \in {session, None}, me'[t] = me[t],
         \A r \in Request :
           request'[r].kind \in {"me", "login"} /\ request'[r].tab = t /\ request'[r].pc = "served"
           => request'[r] = request[r] \/ request'[r].who \in {None, session'},
         \A r \in Request :
           request[r].kind \in {"login", "logout"} /\ request[r].tab = t
             /\ request[r].pc = "served" /\ request[r].who # None
           => request'[r] = request[r]
  PROVE  Fits(t)'
<1>1. CASE session' = None
  BY <1>1 DEF Fits, Matches
<1>2. CASE session' = session
  <2>1. Unheard(t) => Unheard(t)'
    BY DEF Unheard, Asks, Hears
  <2>2. ~Unheard(t)' => Matches(me[t])'
    BY <1>2, <2>1 DEF Fits, Matches
  <2>3. ASSUME NEW r \in Request, Asks(r, t, {"me"})', Hears(r, {"me"})', ~Unheard(t)'
        PROVE  Matches(request[r].who)'
    BY <1>2, <2>1, <2>3 DEF Fits, Matches, Asks, Hears
  <2>4. ASSUME NEW r \in Request, Asks(r, t, {"login"})', Hears(r, {"login"})'
        PROVE  Matches(request[r].who)'
    BY <1>2, <2>4 DEF Fits, Matches, Asks, Hears
  <2>5. QED
    BY <2>2, <2>3, <2>4 DEF Fits
<1>3. QED
  BY <1>1, <1>2

(* One request changes.                                                     *)
LEMMA OneRequest ==
  ASSUME VisitTypeOK, RequestInv, NEW r \in Request, NEW new \in Busy \cup {Idle},
         request' = [request EXCEPT ![r] = new],
         new.kind # "idle" =>
           /\ new.pc = "served" => new.tab \in Tab
           /\ new.kind = "login" =>
                /\ new.pc = "sent" => new.who # None
                /\ \A q \in Request \ {r} : ~Asks(q, new.tab, {"login"}) \/ new.tab \notin Tab
  PROVE  /\ RequestInv' /\ request' \in [Request -> Busy \cup {Idle}]
         /\ request'[r] = new /\ \A q \in Request \ {r} : request'[q] = request[q]
<1>1. /\ request' \in [Request -> Busy \cup {Idle}]
      /\ request'[r] = new /\ \A q \in Request \ {r} : request'[q] = request[q]
  BY DEF VisitTypeOK
<1>2. ASSUME NEW q \in Request
      PROVE  /\ Hears(q, {"page", "me", "login", "logout"})' => request'[q].tab \in Tab
             /\ request'[q].kind = "login" /\ request'[q].pc = "sent" => request'[q].who # None
  <2>1. CASE q = r
    BY <1>1, <2>1 DEF Hears
  <2>2. CASE q # r
    BY <1>1, <2>2 DEF Hears, RequestInv
  <2>3. QED
    BY <2>1, <2>2
<1>3. ASSUME NEW t \in Tab, NEW p \in Request, NEW q \in Request,
             Asks(p, t, {"login"})', Asks(q, t, {"login"})'
      PROVE  p = q
  BY <1>1, <1>3 DEF RequestInv, Asks
<1>4. QED
  BY <1>1, <1>2, <1>3 DEF RequestInv

(* What is sent is nothing anybody hears yet.                               *)
LEMMA SendKeeps ==
  ASSUME VisitInv, NEW t \in Tab, NEW kind \in {"page", "login", "logout"}, NEW who \in Nobody,
         Send(t, kind, who), kind = "login" => FormIsOpen(t) /\ who # None,
         UNCHANGED <<session, at, back, me, disturbed>>
  PROVE  VisitInv'
<1> USE DEF VisitInv
<1> DEFINE new == [kind |-> kind, tab |-> t, pc |-> "sent", who |-> who]
<1>1. PICK r \in Request : request[r] = Idle /\ request' = [request EXCEPT ![r] = new]
  BY DEF Send
<1>2. new \in Busy
  BY DEF Busy
<1>3. kind = "login" => \A q \in Request : ~Asks(q, t, {"login"})
  BY DEF FormIsOpen
<1>4. /\ RequestInv' /\ request' \in [Request -> Busy \cup {Idle}]
      /\ request'[r] = new /\ \A q \in Request \ {r} : request'[q] = request[q]
  BY <1>1, <1>2, <1>3, OneRequest
<1>5. request[r].kind = "idle"
  BY <1>1 DEF Idle
<1>6. ASSUME NEW s \in Tab \ disturbed PROVE Fits(s)'
  BY <1>4, <1>5, FitsStill DEF TabInv
<1>7. QED
  BY <1>4, <1>6 DEF VisitTypeOK, TabInv

LEMMA Redirected == \A p : GetRedirect(p) \in Place
BY PageAssumption DEF GetRedirect

(* Without the requests of a tab there is nothing it can hear of.           *)
LEMMA WithoutRequests ==
  ASSUME VisitTypeOK, RequestInv, NEW t \in Tab,
         NEW kinds \in SUBSET {"page", "me", "login", "logout"}, request' = Without(t, kinds)
  PROVE  /\ request' \in [Request -> Busy \cup {Idle}] /\ RequestInv'
         /\ \A r \in Request : ~Asks(r, t, kinds) => request'[r] = request[r]
         /\ \A r \in Request : ~Asks(r, t, kinds)'
<1>1. ASSUME NEW r \in Request
      PROVE  /\ ~Asks(r, t, kinds) => request'[r] = request[r]
             /\ Asks(r, t, kinds) =>
                  \/ request'[r] = Idle
                  \/ /\ request'[r] = [request[r] EXCEPT !.tab = None]
                     /\ request[r].kind \notin {"page", "me"} /\ request[r].pc # "served"
  BY <1>1 DEF Without
<1>2. None \notin Tab
  BY NobodyAssumption
<1>3. ASSUME NEW r \in Request, Asks(r, t, kinds), request'[r] # Idle
      PROVE  /\ request[r] \in Busy /\ request[r].pc = "sent" /\ request'[r] \in Busy
             /\ request'[r].tab = None /\ request'[r].kind = request[r].kind
             /\ request'[r].pc = "sent" /\ request'[r].who = request[r].who
  <2>1. request[r] \in Busy
    <3>1. CASE request[r] = Idle
      BY <1>1, <1>3, <3>1 DEF Idle
    <3>2. QED
      BY <3>1, RequestTyped
  <2>2. request'[r] = [request[r] EXCEPT !.tab = None] /\ request[r].pc = "sent"
    BY <1>1, <1>3, <2>1, RequestTyped
  <2>3. QED
    BY <2>1, <2>2 DEF Busy
<1>4. request' \in [Request -> Busy \cup {Idle}]
  <2>1. \A r \in Request : request'[r] \in Busy \cup {Idle}
    BY <1>1, <1>3 DEF VisitTypeOK
  <2>2. QED
    BY <2>1 DEF Without
<1>5. Idle.kind = "idle"
  BY DEF Idle
<1>6. ASSUME NEW r \in Request PROVE ~Asks(r, t, kinds)'
  <2>1. CASE ~Asks(r, t, kinds)
    BY <1>1, <2>1 DEF Asks
  <2>2. CASE request'[r] = Idle
    <3>1. request'[r].kind \notin kinds
      BY <1>5, <2>2
    <3>2. QED
      BY <3>1 DEF Asks
  <2>3. CASE Asks(r, t, kinds) /\ request'[r] # Idle
    <3>1. request'[r].tab # t
      BY <1>2, <1>3, <2>3
    <3>2. QED
      BY <3>1 DEF Asks
  <2>4. QED
    BY <2>1, <2>2, <2>3
<1>7. ASSUME NEW r \in Request
      PROVE  \/ request'[r] = request[r] \/ request'[r].kind = "idle"
             \/ /\ request'[r].tab = None /\ request'[r].kind = request[r].kind
                /\ request'[r].pc = "sent" /\ request[r].pc = "sent"
                /\ request'[r].who = request[r].who
  BY <1>1, <1>3, <1>5
<1>8. ASSUME NEW r \in Request
      PROVE  /\ Hears(r, {"page", "me", "login", "logout"})' => request'[r].tab \in Tab
             /\ request'[r].kind = "login" /\ request'[r].pc = "sent" => request'[r].who # None
  BY <1>7 DEF RequestInv, Hears
<1>9. ASSUME NEW s \in Tab, NEW r \in Request, Asks(r, s, {"login"})'
      PROVE  Asks(r, s, {"login"})
  BY <1>2, <1>7, <1>9 DEF Asks
<1>10. RequestInv'
  BY <1>8, <1>9 DEF RequestInv
<1>11. QED
  BY <1>1, <1>4, <1>6, <1>10

LEMMA LoadKeeps ==
  ASSUME VisitInv, NEW t \in Tab, NEW p \in Place \cup {Auth}, NEW redirect \in Allowed \cup {None},
         Load(t, p, redirect)
  PROVE  VisitInv'
<1> USE DEF VisitInv
<1>1. /\ request' = Without(t, {"page", "me", "login", "logout"})
      /\ session' = session /\ disturbed' = disturbed \ {t}
      /\ back' = [back EXCEPT ![t] = IF p = Auth THEN redirect ELSE GetRedirect(p)]
  BY DEF Load
<1>2. PICK who \in Brought : /\ at' = [at EXCEPT ![t] = Rendered(who, p, redirect)]
                              /\ me' = [me EXCEPT ![t] = who]
  BY DEF Load
<1>3. who \in Nobody /\ (who = None \/ who = session)
  BY <1>2 DEF Brought, FoundById, VisitTypeOK, Nobody
<1>4. /\ request' \in [Request -> Busy \cup {Idle}] /\ RequestInv'
      /\ \A r \in Request : ~Asks(r, t, {"page", "me", "login", "logout"}) => request'[r] = request[r]
      /\ \A r \in Request : ~Asks(r, t, {"page", "me", "login", "logout"})'
  BY <1>1, WithoutRequests
<1>5. Rendered(who, p, redirect) \in Address /\ (p = Auth \/ GetRedirect(p) \in Place)
  BY PageAssumption, Redirected DEF Rendered, Address
<1>6. VisitTypeOK'
  BY <1>1, <1>2, <1>3, <1>4, <1>5, PageAssumption DEF VisitTypeOK
<1>7. Fits(t)'
  BY <1>1, <1>2, <1>3, <1>4 DEF Fits, Matches, Asks, VisitTypeOK
<1>8. ASSUME NEW s \in Tab \ disturbed, s # t PROVE Fits(s)'
  <2>1. ASSUME NEW r \in Request, request[r].tab = s PROVE request'[r] = request[r]
    BY <1>4, <1>8, <2>1 DEF Asks
  <2>2. ASSUME NEW r \in Request, request'[r].kind \in {"me", "login"}, request'[r].tab = s,
               request'[r].pc = "served"
        PROVE  request'[r] = request[r]
    BY <1>1, <1>4, <1>8, <2>2, NobodyAssumption DEF Without, Asks, Idle
  <2>3. QED
    BY <1>1, <1>2, <1>8, <2>1, <2>2, FitsStill DEF TabInv, VisitTypeOK
<1>9. QED
  BY <1>1, <1>4, <1>6, <1>7, <1>8 DEF TabInv

(* A login page that is left hears nothing of the login, which may succeed. *)
LEMMA GoKeeps ==
  ASSUME VisitInv, NEW t \in Tab, NEW p \in Place \cup {Auth}, Go(t, p)
  PROVE  VisitInv'
<1> USE DEF VisitInv
<1>1. /\ request' = Without(t, {"login"}) /\ session' = session /\ me' = me /\ back' = back
      /\ at' = [at EXCEPT ![t] = p]
      /\ disturbed' = IF \E r \in Request : Asks(r, t, {"login"}) THEN disturbed \cup {t}
                     ELSE disturbed
  BY DEF Go
<1>2. /\ request' \in [Request -> Busy \cup {Idle}] /\ RequestInv'
      /\ \A r \in Request : ~Asks(r, t, {"login"}) => request'[r] = request[r]
  BY <1>1, WithoutRequests
<1>3. VisitTypeOK'
  BY <1>1, <1>2 DEF VisitTypeOK, Address
<1>4. ASSUME NEW s \in Tab \ disturbed' PROVE Fits(s)'
  <2>1. s \notin disturbed
    BY <1>1, <1>4
  <2>2. ASSUME NEW r \in Request, request[r].tab = s PROVE request'[r] = request[r]
    BY <1>1, <1>2, <1>4, <2>2 DEF Asks
  <2>3. ASSUME NEW r \in Request, request'[r].kind \in {"me", "login"}, request'[r].tab = s,
               request'[r].pc = "served"
        PROVE  request'[r] = request[r]
    BY <1>1, <1>2, <2>3, NobodyAssumption DEF Without, Asks, Idle
  <2>4. QED
    BY <1>1, <1>4, <2>1, <2>2, <2>3, FitsStill DEF TabInv, VisitTypeOK
<1>5. QED
  BY <1>2, <1>3, <1>4 DEF TabInv

(* The server signs in and out; a tab that did not ask for it is disturbed. *)
LEMMA ServeKeeps ==
  ASSUME VisitInv, NEW r \in Request, Serve(r)
  PROVE  VisitInv'
<1> USE DEF VisitInv
<1> DEFINE answer(who) == IF request[r].tab = None THEN Idle
                          ELSE [request[r] EXCEPT !.pc = "served", !.who = who]
<1>1. /\ request[r] \in Busy /\ request[r].pc = "sent" /\ UNCHANGED <<at, back, me>>
      /\ request[r].tab \in Tab \cup {None} /\ request[r].who \in Nobody
      /\ request[r].kind = "login" => request[r].who # None
  BY RequestTyped DEF Serve, RequestInv
<1>2. ASSUME NEW who \in Nobody
      PROVE  /\ answer(who) \in Busy \cup {Idle}
             /\ request[r].tab = None => answer(who).kind = "idle"
             /\ request[r].tab # None =>
                  /\ answer(who).pc = "served" /\ answer(who).tab = request[r].tab
                  /\ answer(who).kind = request[r].kind /\ answer(who).who = who
  BY <1>1 DEF Busy, Idle
<1>3. ASSUME NEW who \in Nobody, Answered(r, who)
      PROVE  /\ RequestInv' /\ request' \in [Request -> Busy \cup {Idle}]
             /\ request'[r] = answer(who) /\ \A q \in Request \ {r} : request'[q] = request[q]
  <2>1. request' = [request EXCEPT ![r] = answer(who)]
    BY <1>3 DEF Answered, VisitTypeOK
  <2>2. request[r].kind = "login" =>
          \A q \in Request \ {r} : ~Asks(q, request[r].tab, {"login"}) \/ request[r].tab \notin Tab
    BY DEF RequestInv, Asks
  <2>3. QED
    BY <1>1, <1>2, <2>1, <2>2, OneRequest
<1>4. ASSUME NEW who \in Nobody, Answered(r, who), session' \in {session, None},
             request[r].kind \in {"me", "login"} => who \in {None, session'},
             NEW s \in Tab, Fits(s)
      PROVE  Fits(s)'
  <2>1. /\ request'[r].kind \in {"me", "login"} => request'[r].who \in {None, session'}
        /\ \A q \in Request \ {r} : request'[q] = request[q]
    BY <1>2, <1>3, <1>4
  <2>2. me'[s] = me[s]
    BY <1>1
  <2>3. \A q \in Request :
          request'[q].kind \in {"me", "login"} /\ request'[q].tab = s /\ request'[q].pc = "served"
          => request'[q] = request[q] \/ request'[q].who \in {None, session'}
    BY <2>1
  <2>4. \A q \in Request :
          request[q].kind \in {"login", "logout"} /\ request[q].tab = s
            /\ request[q].pc = "served" /\ request[q].who # None
          => request'[q] = request[q]
    BY <1>1, <2>1
  <2>5. QED
    BY <1>4, <2>2, <2>3, <2>4, FitsStill
<1>5. CASE request[r].kind \in {"page", "me"} /\ Answered(r, session) /\ UNCHANGED <<session, disturbed>>
  BY <1>1, <1>3, <1>4, <1>5 DEF VisitTypeOK, TabInv
<1>6. CASE request[r].kind = "login" /\ Answered(r, None) /\ UNCHANGED <<session, disturbed>>
  BY <1>1, <1>3, <1>4, <1>6 DEF VisitTypeOK, TabInv, Nobody
<1>7. CASE request[r].kind = "logout" /\ Answered(r, session) /\ Change(r, None)
  <2>1. session' = None /\ disturbed \subseteq disturbed' /\ disturbed' \subseteq Tab
    BY <1>7 DEF Change, VisitTypeOK
  <2>2. session \in Nobody /\ None \in Nobody
    BY DEF VisitTypeOK, Nobody
  <2>3. QED
    BY <1>1, <1>3, <1>4, <1>7, <2>1, <2>2 DEF VisitTypeOK, TabInv
<1>8. CASE /\ request[r].kind = "login"
           /\ Answered(r, request[r].who) /\ Change(r, request[r].who)
  <2>1. /\ session' = request[r].who /\ disturbed \subseteq disturbed' /\ disturbed' \subseteq Tab
        /\ session # session' => Tab \ disturbed' \subseteq {request[r].tab}
    BY <1>8 DEF Change, VisitTypeOK
  <2>2. VisitTypeOK' /\ RequestInv'
    BY <1>1, <1>3, <1>8, <2>1 DEF VisitTypeOK
  <2>3. ASSUME NEW s \in Tab, s = request[r].tab PROVE Fits(s)'
    <3>1. /\ request'[r].kind = "login" /\ request'[r].tab = s /\ request'[r].pc = "served"
          /\ request'[r].who # None /\ request'[r].who = session'
      <4>1. request[r].tab # None
        BY <2>3, NobodyAssumption
      <4>2. request'[r] = answer(request[r].who)
        BY <1>1, <1>3, <1>8
      <4>3. QED
        BY <1>1, <1>2, <1>8, <2>1, <2>3, <4>1, <4>2
    <3>2. Unheard(s)'
      BY <3>1 DEF Unheard, Asks, Hears
    <3>3. ASSUME NEW q \in Request, Asks(q, s, {"login"})' PROVE q = r
      BY <2>2, <3>1, <3>3 DEF RequestInv, Asks
    <3>4. QED
      BY <3>1, <3>2, <3>3 DEF Fits, Matches
  <2>4. ASSUME NEW s \in Tab \ disturbed', s # request[r].tab PROVE Fits(s)'
    BY <1>1, <1>4, <1>8, <2>1, <2>4 DEF TabInv
  <2>5. QED
    BY <2>2, <2>3, <2>4 DEF TabInv
<1>9. QED
  BY <1>5, <1>6, <1>7, <1>8 DEF Serve

(* A request that is over.                                                  *)
LEMMA OneLess ==
  ASSUME VisitInv, NEW r \in Request, request' = [request EXCEPT ![r] = Idle]
  PROVE  /\ RequestInv' /\ request' \in [Request -> Busy \cup {Idle}]
         /\ request'[r].kind = "idle" /\ \A q \in Request \ {r} : request'[q] = request[q]
<1>1. Idle.kind = "idle"
  BY DEF Idle
<1>2. QED
  BY <1>1, OneRequest DEF VisitInv

(* It was not about a login or logout of this tab that it has yet to hear.  *)
LEMMA OneLessFits ==
  ASSUME VisitInv, NEW r \in Request, request' = [request EXCEPT ![r] = Idle],
         NEW s \in Tab, Fits(s), session' \in {session, None}, me'[s] = me[s],
         \/ request[r].kind \notin {"login", "logout"} \/ request[r].tab # s
         \/ request[r].pc # "served" \/ request[r].who = None
  PROVE  Fits(s)'
<1>1. request'[r].kind = "idle" /\ \A q \in Request \ {r} : request'[q] = request[q]
  BY OneLess
<1>2. \A q \in Request : request'[q].kind \in {"me", "login"} => request'[q] = request[q]
  BY <1>1
<1>3. QED
  BY <1>1, <1>2, FitsStill

LEMMA FailsKeeps ==
  ASSUME VisitInv, NEW r \in Request, Fails(r) \/ HearUnauthorized(r) \/ HearPage(r)
  PROVE  VisitInv'
<1>1. /\ request' = [request EXCEPT ![r] = Idle] /\ UNCHANGED <<session, me, disturbed>>
      /\ request[r].pc = "sent" \/ request[r].who = None \/ request[r].kind = "page"
  BY DEF Fails, HearUnauthorized, HearPage, Heard, Hears
<1>2. at' \in [Tab -> Address] /\ back' \in [Tab -> Place \cup {None}]
  <2>1. CASE UNCHANGED <<at, back>>
    BY <2>1 DEF VisitInv, VisitTypeOK
  <2>2. CASE ThrownOut(request[r].tab)
    BY <2>2, Redirected DEF ThrownOut, VisitInv, VisitTypeOK, Address
  <2>3. QED
    BY <2>1, <2>2 DEF Fails, HearUnauthorized, HearPage
<1>3. RequestInv' /\ request' \in [Request -> Busy \cup {Idle}]
  BY <1>1, OneLess
<1>4. ASSUME NEW s \in Tab \ disturbed PROVE Fits(s)'
  BY <1>1, OneLessFits DEF VisitInv, TabInv
<1>5. QED
  BY <1>1, <1>2, <1>3, <1>4 DEF VisitInv, VisitTypeOK, TabInv

LEMMA HearMeKeeps ==
  ASSUME VisitInv, NEW r \in Request, NEW t \in Tab, t = request[r].tab, HearMe(r)
  PROVE  VisitInv'
<1>1. /\ request' = [request EXCEPT ![r] = Idle] /\ UNCHANGED <<session, at, back, disturbed>>
      /\ me' = [me EXCEPT ![t] = request[r].who]
      /\ request[r].kind = "me" /\ request[r].pc = "served"
  BY DEF HearMe, Heard, Hears
<1>2. request[r].who \in Nobody
  BY <1>1, RequestTyped DEF VisitInv, Idle
<1>3. /\ RequestInv' /\ request' \in [Request -> Busy \cup {Idle}]
      /\ request'[r].kind = "idle" /\ \A q \in Request \ {r} : request'[q] = request[q]
  BY <1>1, OneLess
<1>4. VisitTypeOK'
  BY <1>1, <1>2, <1>3 DEF VisitInv, VisitTypeOK
<1>5. ASSUME NEW s \in Tab \ disturbed, s # t PROVE Fits(s)'
  <2>1. me'[s] = me[s]
    BY <1>1, <1>5 DEF VisitInv, VisitTypeOK
  <2>2. QED
    BY <1>1, <1>5, <2>1, OneLessFits DEF VisitInv, TabInv
<1>6. ASSUME t \notin disturbed PROVE Fits(t)'
  <2>1. Fits(t) /\ me'[t] = request[r].who /\ session' = session
    BY <1>1, <1>2, <1>6 DEF VisitInv, TabInv, VisitTypeOK
  <2>2. Unheard(t)' = Unheard(t)
    BY <1>1, <1>3 DEF Unheard, Asks, Hears
  <2>3. ~Unheard(t) => Matches(request[r].who)
    BY <1>1, <2>1 DEF Fits, Asks, Hears
  <2>4. ~Unheard(t)' => Matches(me[t])'
    BY <2>1, <2>2, <2>3 DEF Matches
  <2>5. ASSUME NEW q \in Request, request'[q].kind \in {"me", "login"}
        PROVE  request'[q] = request[q]
    BY <1>3, <2>5
  <2>6. QED
    BY <2>1, <2>2, <2>4, <2>5 DEF Fits, Matches, Asks, Hears
<1>7. QED
  BY <1>1, <1>3, <1>4, <1>5, <1>6 DEF VisitInv, TabInv

(* The answer to a login is who is signed in, where nobody else has signed  *)
(* in since.                                                                *)
LEMMA HearLoginKeeps ==
  ASSUME VisitInv, NEW r \in Request, NEW t \in Tab, t = request[r].tab, HearLogin(r)
  PROVE  VisitInv'
<1>1. /\ request' = [request EXCEPT ![r] = Idle] /\ UNCHANGED <<session, back>>
      /\ me' = [me EXCEPT ![t] = request[r].who]
      /\ at' = [at EXCEPT ![t] = IF back[t] = None THEN FirstPage ELSE back[t]]
      /\ request[r].kind = "login" /\ request[r].pc = "served"
      /\ disturbed' = IF \E q \in Request : Asks(q, t, {"me"}) THEN disturbed \cup {t}
                    ELSE IF session = request[r].who THEN disturbed \ {t} ELSE disturbed
  BY DEF HearLogin, Heard, Hears, SettledBy
<1>2. request[r].who \in Nobody
  BY <1>1, RequestTyped DEF VisitInv, Idle
<1>3. /\ RequestInv' /\ request' \in [Request -> Busy \cup {Idle}]
      /\ request'[r].kind = "idle" /\ \A q \in Request \ {r} : request'[q] = request[q]
  BY <1>1, OneLess
<1>4. VisitTypeOK'
  <2>1. at' \in [Tab -> Address]
    BY <1>1, PageAssumption DEF VisitInv, VisitTypeOK, Address
  <2>2. QED
    BY <1>1, <1>2, <1>3, <2>1 DEF VisitInv, VisitTypeOK
<1>5. ASSUME NEW s \in Tab \ disturbed', s # t PROVE Fits(s)'
  <2>1. me'[s] = me[s] /\ s \notin disturbed
    BY <1>1, <1>5 DEF VisitInv, VisitTypeOK
  <2>2. QED
    BY <1>1, <1>5, <2>1, OneLessFits DEF VisitInv, TabInv
<1>6. ASSUME t \notin disturbed' PROVE Fits(t)'
  <2>1. \A q \in Request : ~Asks(q, t, {"me"})
    BY <1>1, <1>6
  <2>2. Matches(request[r].who)
    <3>1. CASE session = request[r].who
      BY <3>1 DEF Matches
    <3>2. CASE session # request[r].who
      <4>1. Fits(t)
        BY <1>1, <1>2, <1>6, <2>1, <3>2 DEF VisitInv, TabInv
      <4>2. QED
        BY <1>1, <4>1 DEF Fits, Asks, Hears
    <3>3. QED
      BY <3>1, <3>2
  <2>3. Matches(me[t])'
    BY <1>1, <1>2, <2>2 DEF Matches, VisitInv, VisitTypeOK
  <2>4. ASSUME NEW q \in Request PROVE ~Asks(q, t, {"me"})' /\ ~Asks(q, t, {"login"})'
    <3>1. CASE q = r
      BY <1>3, <3>1 DEF Asks
    <3>2. CASE q # r
      BY <1>1, <1>2, <1>3, <2>1, <3>2 DEF VisitInv, RequestInv, Asks
    <3>3. QED
      BY <3>1, <3>2
  <2>5. QED
    BY <2>3, <2>4 DEF Fits
<1>7. QED
  BY <1>1, <1>3, <1>4, <1>5, <1>6 DEF VisitInv, TabInv

(* After a logout the tab shows nobody, and asks for nobody it knows.       *)
LEMMA HearLogoutKeeps ==
  ASSUME VisitInv, NEW r \in Request, NEW t \in Tab, t = request[r].tab, HearLogout(r)
  PROVE  VisitInv'
<1> DEFINE new == [kind |-> "me", tab |-> t, pc |-> "sent", who |-> None]
<1>1. /\ session' \in {session, None} /\ disturbed' = disturbed
      /\ me' = [me EXCEPT ![t] = None] /\ ThrownOut(t)
      /\ request[r].kind = "logout" /\ request[r].pc = "served"
      /\ request' = [q \in Request |-> IF q = r THEN new
                                       ELSE IF Asks(q, t, {"me"}) THEN [request[q] EXCEPT !.kind = "page"]
                                       ELSE request[q]]
  BY DEF HearLogout, Hears
<1>2. t \in Tab
  OBVIOUS
<1>3. new \in Busy
  BY DEF Busy, Nobody
<1>4. ASSUME NEW q \in Request, q # r, Asks(q, t, {"me"})
      PROVE  /\ request'[q] \in Busy /\ request'[q].kind = "page"
             /\ request'[q].tab = t /\ request'[q].pc = request[q].pc
  <2>1. request[q] \in Busy
    <3>1. request[q] # Idle
      BY <1>4 DEF Asks, Idle
    <3>2. QED
      BY <3>1, RequestTyped DEF VisitInv
  <2>2. request'[q] = [request[q] EXCEPT !.kind = "page"]
    BY <1>1, <1>4
  <2>3. QED
    BY <1>4, <2>1, <2>2 DEF Busy, Asks
<1>5. \A q \in Request : q # r /\ ~Asks(q, t, {"me"}) => request'[q] = request[q]
  BY <1>1
<1>6. request'[r] = new
  BY <1>1
<1>7. request' \in [Request -> Busy \cup {Idle}]
  <2>1. \A q \in Request : request'[q] \in Busy \cup {Idle}
    BY <1>3, <1>4, <1>5, <1>6 DEF VisitInv, VisitTypeOK
  <2>2. QED
    BY <1>1, <2>1
<1>8. VisitTypeOK'
  <2>1. at' \in [Tab -> Address] /\ back' \in [Tab -> Place \cup {None}]
    BY <1>1, Redirected DEF ThrownOut, VisitInv, VisitTypeOK, Address
  <2>2. None \in Nobody
    BY DEF Nobody
  <2>3. QED
    BY <1>1, <1>7, <2>1, <2>2 DEF VisitInv, VisitTypeOK
<1>9. ASSUME NEW q \in Request, request'[q].kind \in {"me", "login"}, request'[q].pc = "served"
      PROVE  request'[q] = request[q] /\ ~Asks(q, t, {"me"})
  BY <1>4, <1>5, <1>6, <1>9
<1>10. ASSUME NEW q \in Request, request'[q].kind = "login" PROVE request'[q] = request[q]
  BY <1>4, <1>5, <1>6, <1>10
<1>11. RequestInv'
  <2>1. ASSUME NEW q \in Request, Hears(q, {"page", "me", "login", "logout"})'
        PROVE  request'[q].tab \in Tab
    BY <1>2, <1>4, <1>5, <1>6, <2>1 DEF VisitInv, RequestInv, Hears
  <2>2. QED
    BY <1>10, <2>1 DEF VisitInv, RequestInv, Asks
<1>12. ASSUME NEW s \in Tab \ disturbed, s # t PROVE Fits(s)'
  <2>1. me'[s] = me[s] /\ Fits(s)
    BY <1>1, <1>12 DEF VisitInv, VisitTypeOK, TabInv
  <2>2. ASSUME NEW q \in Request, request[q].tab = s PROVE request'[q] = request[q]
    BY <1>5, <1>12, <2>2 DEF Asks
  <2>3. QED
    BY <1>1, <1>9, <1>12, <2>1, <2>2, FitsStill
<1>13. ASSUME t \notin disturbed PROVE Fits(t)'
  <2>1. Fits(t) /\ me'[t] = None
    BY <1>1, <1>2, <1>13 DEF VisitInv, TabInv, VisitTypeOK
  <2>2. ASSUME NEW q \in Request, Asks(q, t, {"me"})' PROVE ~Hears(q, {"me"})'
    BY <1>5, <1>9, <2>2 DEF Asks, Hears
  <2>3. ASSUME NEW q \in Request, Asks(q, t, {"login"})', Hears(q, {"login"})'
        PROVE  Matches(request[q].who)'
    BY <1>1, <1>10, <2>1, <2>3 DEF Fits, Asks, Hears, Matches
  <2>4. QED
    BY <2>1, <2>2, <2>3 DEF Fits, Matches
<1>14. QED
  BY <1>1, <1>8, <1>11, <1>12, <1>13 DEF VisitInv, TabInv

LEMMA VisitStep ==
  ASSUME VisitInv, [VisitNext]_visitVars
  PROVE  VisitInv'
<1>1. ASSUME NEW t \in Tab, NEW p \in Place, Load(t, p, None) PROVE VisitInv'
  BY <1>1, LoadKeeps
<1>2. ASSUME NEW t \in Tab, NEW redirect \in Allowed \cup {None}, Load(t, Auth, redirect)
      PROVE  VisitInv'
  BY <1>2, LoadKeeps
<1>3. ASSUME NEW t \in Tab, NEW p \in Place \cup {Auth}, Go(t, p) PROVE VisitInv'
  BY <1>3, GoKeeps
<1>4. ASSUME NEW t \in Tab, Question(t) \/ Logout(t) PROVE VisitInv'
  BY <1>4, SendKeeps DEF Question, Logout, Nobody
<1>5. ASSUME NEW t \in Tab, NEW p \in Visitor, Login(t, p) PROVE VisitInv'
  BY <1>5, SendKeeps, NobodyAssumption DEF Login, Nobody
<1>6. ASSUME NEW r \in Request, HearUnauthorized(r) \/ HearPage(r) \/ Fails(r) PROVE VisitInv'
  BY <1>6, FailsKeeps
<1>7. ASSUME NEW r \in Request, HearMe(r) \/ HearLogin(r) \/ HearLogout(r) PROVE VisitInv'
  <2>1. request[r].tab \in Tab
    BY <1>7 DEF HearMe, HearLogin, HearLogout, Hears, VisitInv, RequestInv
  <2>2. QED
    BY <1>7, <2>1, HearMeKeeps, HearLoginKeeps, HearLogoutKeeps
<1>8. CASE Expire
  BY <1>8 DEF Expire, VisitInv, VisitTypeOK, Nobody, TabInv, Fits, Matches, RequestInv, Asks, Hears
<1>9. ASSUME NEW r \in Request, Serve(r) PROVE VisitInv'
  BY <1>9, ServeKeeps
<1>10. CASE UNCHANGED visitVars
  BY <1>10 DEF visitVars, VisitInv, VisitTypeOK, TabInv, Fits, Unheard, Matches, RequestInv,
              Asks, Hears
<1>11. QED
  BY <1>1, <1>2, <1>3, <1>4, <1>5, <1>6, <1>7, <1>8, <1>9, <1>10 DEF VisitNext, Visiting, Hearing

LEMMA WhoIsShownHolds ==
  ASSUME VisitInv
  PROVE  WhoIsShown
BY DEF VisitInv, TabInv, Fits, Unheard, Matches, WhoIsShown, Asks, Hears

-----------------------------------------------------------------------------
(* The phonebook: the order, and who is found in it.                         *)

(* Natural numbers can be climbed one by one.                               *)
LEMMA NatOrder ==
  ASSUME NEW T \in SUBSET Nat, T # {}
  PROVE  \E x \in T : \A y \in T : ~(y < x)
<1> DEFINE R == {ss \in Nat \X Nat : ss[1] < ss[2]}
<1>1. IsWellFoundedOn(R, Nat)
  BY NatLessThanWellFounded DEF OpToRel
<1> HIDE DEF R
<1>2. \E x \in T : \A y \in T : <<y, x>> \notin R
  BY <1>1, WFMin
<1>3. \A x, y \in Nat : y < x => <<y, x>> \in R
  BY DEF R
<1>4. QED
  BY <1>2, <1>3

LEMMA Climb ==
  ASSUME NEW S, 0 \in S, \A n \in Nat : n \in S => n + 1 \in S
  PROVE  \A n \in Nat : n \in S
<1> DEFINE T == {n \in Nat : n \notin S}
<1>1. SUFFICES ASSUME T # {} PROVE FALSE
  OBVIOUS
<1>2. PICK x \in T : \A y \in T : ~(y < x)
  BY <1>1, NatOrder
<1>3. x # 0 /\ x \in Nat /\ x \notin S
  OBVIOUS
<1> HIDE DEF T
<1>4. x - 1 \in Nat /\ x - 1 < x /\ x = (x - 1) + 1
  BY ONLY <1>3
<1>5. x - 1 \in S
  BY <1>2, <1>4 DEF T
<1>6. QED
  BY <1>3, <1>4, <1>5

LEMMA RankedIs ==
  ASSUME NEW s \in Sort
  PROVE  /\ Ranked(s) \in Seq(Person)
         /\ \A i, j \in 1 .. Len(Ranked(s)) : Ranked(s)[i] = Ranked(s)[j] => i = j
         /\ \A p \in Person : \E i \in 1 .. Len(Ranked(s)) : Ranked(s)[i] = p
<1> DEFINE r == Ranking[s.field]
<1>1. /\ r \in Seq(Person) /\ s.field \in Column
      /\ \A i, j \in 1 .. Len(r) : r[i] = r[j] => i = j
      /\ \A p \in Person : \E i \in 1 .. Len(r) : r[i] = p
  <2>1. s.field \in Column
    BY DEF Sort
  <2>2. r \in Seq(Person) /\ IsInjective(r) /\ Range(r) = Person
    BY <2>1, DirectoryAssumption
  <2>3. DOMAIN r = 1 .. Len(r)
    BY <2>2
  <2>4. QED
    BY <2>1, <2>2, <2>3 DEF IsInjective, Range
<1> HIDE DEF r
<1>2. CASE s.direction = "ASC"
  BY <1>1, <1>2 DEF Ranked, r
<1>3. CASE s.direction # "ASC"
  <2>1. Ranked(s) = [i \in 1 .. Len(r) |-> r[(Len(r) - i) + 1]]
    BY <1>3 DEF Ranked, Reverse, r
  <2>2. Len(r) \in Nat /\ \A i \in 1 .. Len(r) : r[i] \in Person
    BY <1>1
  <2>3. Ranked(s) \in Seq(Person) /\ Len(Ranked(s)) = Len(r)
    BY <2>1, <2>2
  <2>4. \A i, j \in 1 .. Len(r) : Ranked(s)[i] = Ranked(s)[j] => i = j
    <3>1. ASSUME NEW i \in 1 .. Len(r), NEW j \in 1 .. Len(r), Ranked(s)[i] = Ranked(s)[j]
          PROVE  i = j
      <4>1. (Len(r) - i) + 1 \in 1 .. Len(r) /\ (Len(r) - j) + 1 \in 1 .. Len(r)
        BY <2>2
      <4>2. r[(Len(r) - i) + 1] = r[(Len(r) - j) + 1]
        BY <2>1, <3>1
      <4>3. (Len(r) - i) + 1 = (Len(r) - j) + 1
        BY <1>1, <4>1, <4>2
      <4>4. QED
        BY <2>2, <4>3
    <3>2. QED
      BY <3>1
  <2>5. ASSUME NEW p \in Person PROVE \E i \in 1 .. Len(r) : Ranked(s)[i] = p
    <3>1. PICK i \in 1 .. Len(r) : r[i] = p
      BY <1>1
    <3>2. (Len(r) - i) + 1 \in 1 .. Len(r) /\ Len(r) - ((Len(r) - i) + 1) + 1 = i
      BY <2>2, <3>1
    <3>3. QED
      BY <2>1, <3>1, <3>2
  <2>6. QED
    BY <2>3, <2>4, <2>5
<1>4. QED
  BY <1>2, <1>3

(* Who is found behind the first n, when f says it of all but the first.    *)
OneMoreBehind(q, f, n) ==
  LET order == Ranked(q.sort)
  IN  IF n = Len(order) THEN <<>>
      ELSE IF Finds(q, order[n + 1]) THEN <<order[n + 1]>> \o f[n + 1]
      ELSE f[n + 1]

LEMMA FoundBehindIs ==
  ASSUME NEW q, q.sort \in Sort
  PROVE  FoundBehind(q) =
           [n \in 0 .. Len(Ranked(q.sort)) |-> OneMoreBehind(q, FoundBehind(q), n)]
<1> DEFINE L == Len(Ranked(q.sort))
           One(f, n) == OneMoreBehind(q, f, n)
           Solves(f, k) == f = [n \in (L - k) .. L |-> One(f, n)]
           S == {k \in Nat : k <= L => \E f : Solves(f, k)}
<1>1. L \in Nat
  BY RankedIs
<1>2. 0 \in S
  <2>1. Solves([n \in L .. L |-> <<>>], 0)
    BY <1>1 DEF OneMoreBehind
  <2>2. QED
    BY <2>1
<1>3. ASSUME NEW k \in Nat, k \in S, k + 1 <= L PROVE \E f : Solves(f, k + 1)
  <2>1. PICK f : Solves(f, k)
    BY <1>1, <1>3
  <2> DEFINE m == L - (k + 1)
             g == [n \in m .. L |-> IF n = m THEN One(f, m) ELSE f[n]]
  <2>2. m \in Nat /\ m + 1 = L - k /\ m # L
    BY <1>1, <1>3
  <2>3. ASSUME NEW n \in m .. L PROVE g[n] = One(g, n)
    <3>1. n # L => n + 1 \in m .. L /\ n + 1 # m /\ g[n + 1] = f[n + 1]
      BY <1>1, <2>2
    <3>2. One(g, n) = One(f, n)
      BY <3>1 DEF OneMoreBehind
    <3>3. n # m => f[n] = One(f, n)
      BY <1>1, <2>1, <2>2
    <3>4. QED
      BY <3>2, <3>3
  <2>4. g = [n \in m .. L |-> One(g, n)]
    BY <2>3
  <2>5. QED
    BY <2>4
<1>4. L \in S
  <2> HIDE DEF S
  <2>1. ASSUME NEW k \in Nat, k \in S PROVE k + 1 \in S
    <3>1. k + 1 <= L => \E f : Solves(f, k + 1)
      BY <1>3, <2>1
    <3>2. k + 1 \in Nat
      OBVIOUS
    <3>3. QED
      BY <3>1, <3>2 DEF S
  <2>2. QED
    BY <1>1, <1>2, <2>1, Climb
<1>5. \E f : f = [n \in 0 .. L |-> One(f, n)]
  BY <1>1, <1>4
<1>6. FoundBehind(q) = CHOOSE f : f = [n \in 0 .. L |-> One(f, n)]
  BY DEF FoundBehind, OneMoreBehind
<1>7. QED
  BY <1>5, <1>6

(* f is what is left of an order behind each place of it.                   *)
IsLeft(f, L, order, Kept) ==
  /\ L \in Nat /\ \A i \in 1 .. L : order[i] \in Person
  /\ \A n \in 0 .. L :
       f[n] = IF n = L THEN <<>>
              ELSE IF order[n + 1] \in Kept THEN <<order[n + 1]>> \o f[n + 1] ELSE f[n + 1]

(* Behind each person in f[n] comes what is left behind that person's place.*)
Continues(f, L, order, n) ==
  /\ f[n] \in Seq(Person)
  /\ \A j \in 1 .. Len(f[n]) : \E i \in (n + 1) .. L :
       order[i] = f[n][j] /\ f[i] = SubSeq(f[n], j + 1, Len(f[n]))

(* In what is left of an order behind each place, what comes behind a       *)
(* person is what is left behind the place of that person.                  *)
LEMMA LeftBehind ==
  ASSUME NEW L, NEW order, NEW Kept, NEW f, IsLeft(f, L, order, Kept), NEW n \in 0 .. L
  PROVE  Continues(f, L, order, n)
<1> DEFINE Good(m) == /\ f[m] \in Seq(Person)
                      /\ \A j \in 1 .. Len(f[m]) : \E i \in (m + 1) .. L :
                           order[i] = f[m][j] /\ f[i] = SubSeq(f[m], j + 1, Len(f[m]))
           S == {k \in Nat : k <= L => Good(L - k)}
<1> USE DEF IsLeft
<1>1. Good(L)
  <2>1. f[L] = <<>>
    <3>1. L \in 0 .. L
      OBVIOUS
    <3>2. QED
      BY <3>1, Zenon
  <2>2. <<>> \in Seq(Person) /\ Len(<<>>) = 0
    OBVIOUS
  <2>3. QED
    BY <2>1, <2>2
<1>2. 0 \in S
  <2> HIDE DEF Good
  <2>1. L - 0 = L
    OBVIOUS
  <2>2. QED
    BY <1>1, <2>1
<1>3. ASSUME NEW m \in 0 .. L, m # L, Good(m + 1) PROVE Good(m)
  <2> DEFINE g == f[m + 1]
             p == order[m + 1]
  <2>1. m \in Nat /\ m + 1 \in 1 .. L
    BY <1>3
  <2>2. g \in Seq(Person) /\ Len(g) \in Nat /\ p \in Person
    BY <1>3, <2>1
  <2>3. \A j \in 1 .. Len(g) : \E i \in (m + 2) .. L :
          order[i] = g[j] /\ f[i] = SubSeq(g, j + 1, Len(g))
    <3>1. (m + 1) + 1 = m + 2
      BY <2>1
    <3>2. QED
      BY <1>3, <3>1
  <2>4. f[m] = IF p \in Kept THEN <<p>> \o g ELSE g
    BY <1>3
  <2>5. \A i \in (m + 2) .. L : i \in (m + 1) .. L
    BY <2>1
  <2>6. m + 1 \in (m + 1) .. L
    BY <2>1
  <2> HIDE DEF g, p
  <2>7. CASE p \notin Kept
    <3>1. f[m] = g
      BY <2>4, <2>7
    <3>2. QED
      BY <2>2, <2>3, <2>5, <3>1
  <2>8. CASE p \in Kept
    <3> DEFINE h == <<p>> \o g
    <3>1. f[m] = h
      BY <2>4, <2>8
    <3>2. h \in Seq(Person) /\ Len(h) = Len(g) + 1 /\ h[1] = p
      BY <2>2
    <3>3. \A j \in 1 .. Len(g) : h[j + 1] = g[j]
      BY <2>2
    <3>4. ASSUME NEW j \in 1 .. (Len(g) + 1)
          PROVE  SubSeq(h, j + 1, Len(h)) = SubSeq(g, j, Len(g))
      <4>1. SubSeq(h, j + 1, Len(g) + 1) = [k \in 1 .. ((Len(g) + 1) - (j + 1) + 1) |-> h[(j + 1) + k - 1]]
        BY <2>2, <3>2
      <4>2. SubSeq(g, j, Len(g)) = [k \in 1 .. (Len(g) - j + 1) |-> g[j + k - 1]]
        BY <2>2
      <4>3. (Len(g) + 1) - (j + 1) + 1 = Len(g) - j + 1
        BY <2>2
      <4>4. ASSUME NEW k \in 1 .. (Len(g) - j + 1)
            PROVE  h[(j + 1) + k - 1] = g[j + k - 1]
        <5>1. j + k - 1 \in 1 .. Len(g) /\ (j + 1) + k - 1 = (j + k - 1) + 1
          BY <2>2
        <5>2. QED
          BY <3>3, <5>1
      <4>5. QED
        BY <3>2, <4>1, <4>2, <4>3, <4>4
    <3> HIDE DEF h
    <3>5. ASSUME NEW j \in 1 .. Len(h)
          PROVE  \E i \in (m + 1) .. L : order[i] = h[j] /\ f[i] = SubSeq(h, j + 1, Len(h))
      <4>1. CASE j = 1
        <5>1. SubSeq(g, 1, Len(g)) = g
          BY <2>2
        <5>2. f[m + 1] = SubSeq(h, j + 1, Len(h))
          BY <2>2, <3>2, <3>4, <4>1, <5>1 DEF g
        <5>3. order[m + 1] = h[j]
          BY <3>2, <4>1 DEF p
        <5>4. QED
          BY <2>6, <5>2, <5>3
      <4>2. CASE j # 1
        <5>1. j - 1 \in 1 .. Len(g) /\ (j - 1) + 1 = j /\ j \in 1 .. (Len(g) + 1)
          BY <2>2, <3>2, <4>2
        <5>2. PICK i \in (m + 2) .. L :
                order[i] = g[j - 1] /\ f[i] = SubSeq(g, (j - 1) + 1, Len(g))
          BY <2>3, <5>1
        <5>3. order[i] = h[j]
          BY <3>3, <5>1, <5>2
        <5>4. f[i] = SubSeq(h, j + 1, Len(h))
          BY <3>4, <5>1, <5>2
        <5>5. QED
          BY <2>5, <5>3, <5>4
      <4>3. QED
        BY <4>1, <4>2
    <3>6. QED
      BY <3>1, <3>2, <3>5
  <2>9. QED
    BY <2>7, <2>8
<1>4. \A k \in Nat : k \in S
  <2> HIDE DEF Good
  <2>1. ASSUME NEW k \in Nat, k \in S PROVE k + 1 \in S
    <3>1. CASE k + 1 <= L
      <4>1. L - (k + 1) \in 0 .. L /\ L - (k + 1) # L /\ (L - (k + 1)) + 1 = L - k /\ k <= L
        BY <3>1
      <4>2. Good(L - k)
        BY <2>1, <4>1
      <4>3. Good(L - (k + 1))
        BY <1>3, <4>1, <4>2
      <4>4. QED
        BY <4>3
    <3>2. CASE ~(k + 1 <= L)
      BY <3>2
    <3>3. QED
      BY <3>1, <3>2
  <2> HIDE DEF S
  <2>2. QED
    BY <1>2, <2>1, Climb
<1>5. Good(n)
  <2> HIDE DEF Good
  <2>1. L - n \in Nat /\ L - n <= L /\ L - (L - n) = n
    OBVIOUS
  <2>2. L - n \in S
    BY <1>4, <2>1
  <2>3. QED
    BY <2>1, <2>2
<1>6. QED
  BY <1>5 DEF Continues

(* Behind each person found come the people found after that person.        *)
LEMMA BehindEach ==
  ASSUME NEW q, q.sort \in Sort, NEW n \in 0 .. Len(Ranked(q.sort))
  PROVE  /\ FoundBehind(q)[n] \in Seq(Person)
         /\ \A j \in 1 .. Len(FoundBehind(q)[n]) : \E i \in (n + 1) .. Len(Ranked(q.sort)) :
              /\ Ranked(q.sort)[i] = FoundBehind(q)[n][j]
              /\ FoundBehind(q)[i] =
                   SubSeq(FoundBehind(q)[n], j + 1, Len(FoundBehind(q)[n]))
<1> DEFINE order == Ranked(q.sort)
           L == Len(order)
           f == FoundBehind(q)
           Kept == {p \in Person : Finds(q, p)}
<1>1. L \in Nat /\ \A i \in 1 .. L : order[i] \in Person
  BY RankedIs
<1>2. ASSUME NEW m \in 0 .. L
      PROVE  f[m] = IF m = L THEN <<>>
                    ELSE IF order[m + 1] \in Kept THEN <<order[m + 1]>> \o f[m + 1]
                    ELSE f[m + 1]
  <2>1. f[m] = OneMoreBehind(q, f, m)
    BY FoundBehindIs
  <2>2. m # L => m + 1 \in 1 .. L
    BY <1>1
  <2>3. m # L => (order[m + 1] \in Kept <=> Finds(q, order[m + 1]))
    BY <1>1, <2>2
  <2>4. QED
    BY <2>1, <2>3 DEF OneMoreBehind
<1> HIDE DEF f, order, Kept, L
<1>3. n \in 0 .. L
  BY DEF order, L
<1>4. Continues(f, L, order, n)
  <2>1. IsLeft(f, L, order, Kept)
    BY <1>1, <1>2 DEF IsLeft
  <2>2. QED
    BY <1>3, <2>1, LeftBehind
<1>5. QED
  BY <1>4 DEF f, order, L, Continues

(* What two lists make when they are put together.                          *)
LEMMA Joined ==
  ASSUME NEW l \in Seq(Person), NEW r \in Seq(Person)
  PROVE  /\ l \o r \in Seq(Person) /\ Len(l \o r) = Len(l) + Len(r)
         /\ \A i \in 1 .. (Len(l) + Len(r)) :
              (l \o r)[i] = IF i <= Len(l) THEN l[i] ELSE r[i - Len(l)]
<1>1. l \o r \in Seq(Person)
  OBVIOUS
<1>2. Len(l \o r) = Len(l) + Len(r)
  OBVIOUS
<1>3. \A i \in 1 .. (Len(l) + Len(r)) :
        (l \o r)[i] = IF i <= Len(l) THEN l[i] ELSE r[i - Len(l)]
  OBVIOUS
<1>4. QED
  BY <1>1, <1>2, <1>3

(* The people found are a list without repetition, and behind the cursor of *)
(* one of them comes the rest of it.                                        *)
LEMMA FoundIs ==
  ASSUME NEW q, q.sort \in Sort
  PROVE  /\ Found(q) \in Seq(Person) /\ Behind(q, Start) = Found(q)
         /\ \A j \in 1 .. Len(Found(q)) :
              Behind(q, Found(q)[j]) = SubSeq(Found(q), j + 1, Len(Found(q)))
         /\ \A j, k \in 1 .. Len(Found(q)) : Found(q)[j] = Found(q)[k] => j = k
         /\ \A p \in Person : Behind(q, p) \in Seq(Person)
<1> DEFINE order == Ranked(q.sort)
           F == Found(q)
<1>1. Len(order) \in Nat /\ order \in Seq(Person) /\ DOMAIN order = 1 .. Len(order)
  BY RankedIs
<1>2. 0 \in 0 .. Len(order) /\ F = FoundBehind(q)[0]
  BY <1>1 DEF Found
<1>3. F \in Seq(Person)
  BY <1>2, BehindEach
<1>4. ASSUME NEW j \in 1 .. Len(F)
      PROVE  \E i \in 1 .. Len(order) :
               order[i] = F[j] /\ FoundBehind(q)[i] = SubSeq(F, j + 1, Len(F))
  BY <1>2, BehindEach
<1>5. ASSUME NEW i \in 1 .. Len(order) PROVE Behind(q, order[i]) = FoundBehind(q)[i]
  <2>1. order[i] # Start
    BY <1>1, DirectoryAssumption
  <2>2. (CHOOSE n \in DOMAIN order : order[n] = order[i]) = i
    BY <1>1, RankedIs
  <2>3. PlaceOf(q, order[i]) = i
    BY <2>1, <2>2 DEF PlaceOf
  <2>4. QED
    BY <2>3 DEF Behind
<1>6. Behind(q, Start) = F
  BY DEF Behind, PlaceOf, Found
<1>7. ASSUME NEW j \in 1 .. Len(F) PROVE Behind(q, F[j]) = SubSeq(F, j + 1, Len(F))
  <2>1. PICK i \in 1 .. Len(order) : order[i] = F[j] /\ FoundBehind(q)[i] = SubSeq(F, j + 1, Len(F))
    BY <1>4
  <2>2. QED
    BY <1>5, <2>1
<1>8. ASSUME NEW j \in 1 .. Len(F), NEW k \in 1 .. Len(F), F[j] = F[k] PROVE j = k
  <2> HIDE DEF F
  <2>1. SubSeq(F, j + 1, Len(F)) = SubSeq(F, k + 1, Len(F))
    BY <1>7, <1>8
  <2>2. /\ Len(SubSeq(F, j + 1, Len(F))) = Len(F) - j
        /\ Len(SubSeq(F, k + 1, Len(F))) = Len(F) - k
    BY <1>3
  <2>3. Len(F) \in Nat
    BY <1>3
  <2>4. QED
    BY <2>1, <2>2, <2>3
<1>9. ASSUME NEW p \in Person PROVE Behind(q, p) \in Seq(Person)
  <2>1. PICK i \in 1 .. Len(order) : order[i] = p
    BY RankedIs
  <2>2. i \in 0 .. Len(order)
    BY <1>1
  <2>3. FoundBehind(q)[i] \in Seq(Person)
    BY <2>2, BehindEach
  <2>4. QED
    BY <1>5, <2>1, <2>3
<1>10. QED
  BY <1>3, <1>6, <1>7, <1>8, <1>9

LEMMA RowsAre ==
  ASSUME NEW q, q.sort \in Sort, NEW after \in Cursor
  PROVE  /\ Behind(q, after) \in Seq(Person) /\ Rows(q, after) \in Seq(Person)
         /\ MoreRows(q, after) \in BOOLEAN
         /\ LET rest == Behind(q, after)
                n == IF Len(rest) < PageSize THEN Len(rest) ELSE PageSize
            IN  /\ n \in 0 .. Len(rest) /\ Rows(q, after) = SubSeq(rest, 1, n)
                /\ Len(Rows(q, after)) = n /\ MoreRows(q, after) = (n < Len(rest))
<1> DEFINE rest == Behind(q, after)
           n == IF Len(rest) < PageSize THEN Len(rest) ELSE PageSize
<1>1. rest \in Seq(Person)
  BY FoundIs DEF Cursor
<1>2. Rows(q, after) = SubSeq(rest, 1, n) /\ MoreRows(q, after) = (Len(rest) > PageSize)
  BY DEF Rows, MoreRows
<1> HIDE DEF rest
<1>3. n \in 0 .. Len(rest) /\ (Len(rest) > PageSize) = (n < Len(rest))
  BY <1>1, DirectoryAssumption
<1>4. SubSeq(rest, 1, n) \in Seq(Person) /\ Len(SubSeq(rest, 1, n)) = n
  BY <1>1, <1>3
<1>5. QED
  BY <1>1, <1>2, <1>3, <1>4 DEF rest

LEMMA NotEmpty ==
  ASSUME NEW s \in Seq(Person), s # <<>>
  PROVE  Len(s) \in 1 .. Len(s)
<1>1. Len(s) \in Nat /\ Len(s) # 0
  OBVIOUS
<1>2. QED
  BY <1>1

LEMMA Beginning ==
  ASSUME NEW s \in Seq(Person), NEW n \in 0 .. Len(s)
  PROVE  IsPrefix(SubSeq(s, 1, n), s) /\ Len(SubSeq(s, 1, n)) = n
<1>1. Len(s) \in Nat /\ n \in Nat /\ n <= Len(s)
  OBVIOUS
<1>2. SubSeq(s, 1, n) \in Seq(Person) /\ Len(SubSeq(s, 1, n)) = n
  BY <1>1
<1>3. \A t \in Seq(Person) : SubSeq(t, 1, Len(t)) = t
  OBVIOUS
<1>4. SubSeq(SubSeq(s, 1, n), 1, n) = SubSeq(s, 1, n)
  BY <1>2, <1>3
<1>5. QED
  BY <1>1, <1>2, <1>4 DEF IsPrefix

LEMMA FirstRows ==
  ASSUME NEW q, q.sort \in Sort
  PROVE  /\ IsPrefix(Rows(q, Start), Found(q))
         /\ MoreRows(q, Start) = (Len(Rows(q, Start)) < Len(Found(q)))
<1> DEFINE F == Found(q)
           n == IF Len(F) < PageSize THEN Len(F) ELSE PageSize
<1>1. Start \in Cursor
  BY DEF Cursor
<1>2. F \in Seq(Person) /\ Behind(q, Start) = F
  BY FoundIs
<1>3. /\ n \in 0 .. Len(F) /\ Rows(q, Start) = SubSeq(F, 1, n)
      /\ MoreRows(q, Start) = (n < Len(F))
  BY <1>1, <1>2, RowsAre
<1>4. IsPrefix(SubSeq(F, 1, n), F) /\ Len(SubSeq(F, 1, n)) = n
  BY <1>2, <1>3, Beginning
<1>5. QED
  BY <1>3, <1>4

LEMMA NextRows ==
  ASSUME NEW q, q.sort \in Sort, NEW l \in Seq(Person), l # <<>>, IsPrefix(l, Found(q))
  PROVE  /\ Last(l) \in Person /\ \A i \in 1 .. Len(l) : l[i] = Last(l) => i = Len(l)
         /\ IsPrefix(l \o Rows(q, Last(l)), Found(q))
         /\ MoreRows(q, Last(l)) = (Len(l \o Rows(q, Last(l))) < Len(Found(q)))
<1> DEFINE F == Found(q)
           k == Len(l)
           rest == Behind(q, Last(l))
           n == IF Len(rest) < PageSize THEN Len(rest) ELSE PageSize
<1>1. /\ F \in Seq(Person) /\ Len(F) \in Nat
      /\ \A i, j \in 1 .. Len(F) : F[i] = F[j] => i = j
  BY FoundIs
<1>2. k \in 1 .. Len(F)
  <2>1. k \in Nat /\ k # 0
    OBVIOUS
  <2>2. k <= Len(F)
    BY DEF IsPrefix
  <2>3. QED
    BY <1>1, <2>1, <2>2
<1>3. l = SubSeq(F, 1, k) /\ \A i \in 1 .. k : l[i] = F[i]
  <2>1. SubSeq(l, 1, k) = l
    OBVIOUS
  <2>2. l = SubSeq(F, 1, k)
    BY <2>1 DEF IsPrefix
  <2>3. \A i \in 1 .. k : SubSeq(F, 1, k)[i] = F[i]
    BY <1>1, <1>2
  <2>4. QED
    BY <2>2, <2>3
<1>4. Last(l) = F[k] /\ Last(l) \in Person
  BY <1>1, <1>2, <1>3 DEF Last
<1>5. ASSUME NEW i \in 1 .. k, l[i] = Last(l) PROVE i = k
  <2>1. i \in 1 .. Len(F) /\ F[i] = F[k]
    BY <1>1, <1>2, <1>3, <1>4, <1>5
  <2>2. QED
    BY <1>1, <1>2, <2>1
<1>6. rest = SubSeq(F, k + 1, Len(F))
  BY <1>2, <1>4, FoundIs
<1>7. /\ Rows(q, Last(l)) = SubSeq(rest, 1, n) /\ n \in 0 .. Len(rest)
      /\ Len(Rows(q, Last(l))) = n /\ MoreRows(q, Last(l)) = (n < Len(rest))
      /\ Rows(q, Last(l)) \in Seq(Person)
  BY <1>4, RowsAre DEF Cursor
<1> HIDE DEF F, rest, n
<1>8. Len(rest) = Len(F) - k /\ \A i \in 1 .. (Len(F) - k) : rest[i] = F[k + i]
  BY <1>1, <1>2, <1>6
<1>9. k + n \in 0 .. Len(F) /\ n \in Nat /\ n <= Len(F) - k
  BY <1>1, <1>2, <1>7, <1>8
<1>10. l \o Rows(q, Last(l)) = SubSeq(F, 1, k + n)
  <2> DEFINE r == Rows(q, Last(l))
  <2>1. r \in Seq(Person) /\ Len(r) = n /\ \A i \in 1 .. n : r[i] = F[k + i]
    <3>1. \A i \in 1 .. n : SubSeq(rest, 1, n)[i] = rest[i]
      BY <1>7, <1>9
    <3>2. \A i \in 1 .. n : i \in 1 .. (Len(F) - k)
      BY <1>1, <1>2, <1>9
    <3>3. QED
      BY <1>7, <1>8, <3>1, <3>2
  <2> HIDE DEF r
  <2>2. /\ l \o r \in Seq(Person) /\ Len(l \o r) = k + n
        /\ \A i \in 1 .. (k + n) : (l \o r)[i] = IF i <= k THEN l[i] ELSE r[i - k]
    <3>1. k \in Nat /\ n \in Nat /\ l \in Seq(Person) /\ Len(l) = k
      BY <1>9
    <3>2. QED
      BY ONLY <2>1, <3>1, Joined
  <2>3. /\ SubSeq(F, 1, k + n) \in Seq(Person) /\ Len(SubSeq(F, 1, k + n)) = k + n
        /\ \A i \in 1 .. (k + n) : SubSeq(F, 1, k + n)[i] = F[i]
    BY <1>1, <1>9
  <2>4. ASSUME NEW i \in 1 .. (k + n) PROVE (l \o r)[i] = F[i]
    <3>1. CASE i <= k
      <4>1. i \in 1 .. k
        BY <1>2, <1>9, <3>1
      <4>2. QED
        BY <1>3, <2>2, <3>1, <4>1
    <3>2. CASE ~(i <= k)
      <4>1. i - k \in 1 .. n /\ k + (i - k) = i
        BY <1>2, <1>9, <3>2
      <4>2. QED
        BY <2>1, <2>2, <3>2, <4>1
    <3>3. QED
      BY <3>1, <3>2
  <2>5. l \o r = SubSeq(F, 1, k + n)
    BY <2>2, <2>3, <2>4
  <2>6. QED
    BY <2>5 DEF r
<1>11. IsPrefix(SubSeq(F, 1, k + n), F) /\ Len(SubSeq(F, 1, k + n)) = k + n
  BY ONLY <1>1, <1>9, Beginning
<1>12. (n < Len(rest)) = (k + n < Len(F))
  BY <1>1, <1>2, <1>8, <1>9
<1>13. QED
  BY <1>4, <1>5, <1>7, <1>10, <1>11, <1>12 DEF F

LEMMA UpToIs ==
  ASSUME PhonebookTypeOK, NEW c
  PROVE  /\ UpTo(c) \in Seq(Person)
         /\ list # <<>> /\ (\A i \in 1 .. Len(list) : list[i] = Last(list) => i = Len(list))
              => UpTo(Last(list)) = list
<1>1. list \in Seq(Person) /\ Len(list) \in Nat /\ DOMAIN list = 1 .. Len(list)
  BY DEF PhonebookTypeOK
<1>2. ASSUME NEW p, p \in Range(list)
      PROVE  \E n \in 1 .. Len(list) : list[n] = p /\ UpTo(p) = SubSeq(list, 1, n)
  <2> DEFINE I == {i \in 1 .. Len(list) : list[i] = p}
  <2>1. I # {} /\ I \in SUBSET Nat
    BY <1>1, <1>2 DEF Range
  <2>2. \E n \in I : \A i \in I : n <= i
    <3>1. PICK n \in I : \A i \in I : ~(i < n)
      BY <2>1, NatOrder
    <3>2. \A i \in I : n <= i
      BY <2>1, <3>1
    <3>3. QED
      BY <3>2
  <2>3. Min(I) \in I
    BY <2>2 DEF Min
  <2>4. UpTo(p) = SubSeq(list, 1, Min(I))
    BY <1>2, <2>1 DEF UpTo, SelectInSeq
  <2>5. QED
    BY <2>3, <2>4
<1>3. UpTo(c) \in Seq(Person)
  <2>1. CASE c \in Range(list)
    <3>1. PICK n \in 1 .. Len(list) : UpTo(c) = SubSeq(list, 1, n)
      BY <1>2, <2>1
    <3>2. QED
      BY <1>1, <3>1
  <2>2. CASE c \notin Range(list)
    BY <1>1, <2>2 DEF UpTo
  <2>3. QED
    BY <2>1, <2>2
<1>4. ASSUME list # <<>>, \A i \in 1 .. Len(list) : list[i] = Last(list) => i = Len(list)
      PROVE  UpTo(Last(list)) = list
  <2>1. Len(list) \in 1 .. Len(list)
    BY <1>1, <1>4, NotEmpty
  <2>2. Last(list) \in Range(list)
    BY <1>1, <2>1 DEF Last, Range
  <2>3. UpTo(Last(list)) = SubSeq(list, 1, Len(list))
    BY <1>2, <1>4, <2>2
  <2>4. QED
    BY <1>1, <2>3
<1>5. QED
  BY <1>3, <1>4

LEMMA CurrentIs ==
  ASSUME PhonebookTypeOK
  PROVE  Current \in Query /\ Current.sort \in Sort
<1>1. (IF Admin THEN flags ELSE flags \ {"notShowing"}) \in SUBSET Flag
  BY DEF PhonebookTypeOK
<1>2. (IF search \in Long THEN search ELSE Empty) \in Long \cup {Empty}
  OBVIOUS
<1>3. sort \in Sort /\ domain \in Offered \cup {NoDomain}
  BY DEF PhonebookTypeOK
<1>4. QED
  BY <1>1, <1>2, <1>3 DEF Current, Query

LEMMA PhonebookStarts == PhonebookInit => PhonebookInv
<1> SUFFICES ASSUME PhonebookInit PROVE PhonebookInv
  OBVIOUS
<1>1. sort \in Sort
  BY DirectoryAssumption DEF PhonebookInit, Sort
<1>2. list \in Seq(Person) /\ more \subseteq [query : Query, after : Cursor]
  BY DEF PhonebookInit
<1>3. PhonebookTypeOK
  BY <1>1, <1>2, TextAssumption DEF PhonebookInit, PhonebookTypeOK
<1>4. QED
  BY <1>3 DEF PhonebookInit, PhonebookInv, SuggestionsFit, ListIsOne, SuggestInv, MoreInv

(* What the page asks for, its list and its suggestions, each apart.        *)
TableInv ==
  /\ querying \in BOOLEAN /\ failed \in BOOLEAN /\ crossed \in BOOLEAN
  /\ list \in Seq(Person) /\ hasNext \in BOOLEAN
  /\ more \subseteq [query : Query, after : Cursor]
  /\ ListIsOne /\ MoreInv

TextInv ==
  /\ text \in Text /\ typed \in BOOLEAN
  /\ asked \in (Text \ Short) \cup {NoText} /\ answered \in (Text \ Short) \cup {NoText}
  /\ suggestions \in (Text \ Short) \cup {NoText}
  /\ SuggestionsFit /\ SuggestInv

LEMMA TableStays ==
  ASSUME TableInv, UNCHANGED <<search, wishVars, tableVars>>
  PROVE  TableInv'
<1>1. Current' = Current
  BY DEF Current, wishVars
<1>2. Found(Current)' = Found(Current)
  BY <1>1
<1>3. QED
  BY <1>1, <1>2 DEF TableInv, ListIsOne, MoreInv, tableVars

LEMMA TextStays ==
  ASSUME TextInv, UNCHANGED <<text, suggestVars>>
  PROVE  TextInv'
BY DEF TextInv, SuggestionsFit, SuggestInv, suggestVars

(* A query that is sent anew forgets what the list was, unless a further    *)
(* page of it is still on its way.                                          *)
LEMMA AskAgainKeeps ==
  ASSUME TableInv, AskAgain
  PROVE  TableInv'
BY DEF TableInv, AskAgain, ListIsOne, MoreInv

LEMMA RequeryKeeps ==
  ASSUME TableInv, Requery
  PROVE  TableInv'
<1>1. CASE Current' = Current
  <2>1. UNCHANGED tableVars
    BY <1>1 DEF Requery
  <2>2. Found(Current)' = Found(Current)
    BY <1>1
  <2>3. QED
    BY <1>1, <2>1, <2>2 DEF TableInv, ListIsOne, MoreInv, tableVars
<1>2. CASE Current' # Current
  BY <1>2, AskAgainKeeps DEF Requery
<1>3. QED
  BY <1>1, <1>2

LEMMA SearchingStep ==
  ASSUME PhonebookInv, Searching
  PROVE  PhonebookInv'
<1>1. PhonebookTypeOK /\ TableInv /\ TextInv
  BY DEF PhonebookInv, PhonebookTypeOK, TableInv, TextInv
<1>2. UNCHANGED <<search, wishVars, dialogVars, tableVars>>
  BY DEF Searching, Type, PickSuggestion, SearchFromProfile, CloseSuggestions, SuggestionsArrive
<1>3. TableInv'
  BY <1>1, <1>2, TableStays
<1>4. TextInv'
  <2>1. ASSUME NEW t \in Text, ActionSearch(t) PROVE TextInv'
    <3>1. /\ text' = t /\ typed' = TRUE /\ answered' = answered
          /\ asked' = IF t \in Short THEN asked ELSE IF t # answered THEN t ELSE NoText
          /\ suggestions' \in {suggestions, answered, NoText}
          /\ asked' = NoText => suggestions' = NoText \/ (suggestions' = answered /\ t \notin Short)
      BY <2>1 DEF ActionSearch, ShowSuggestions
    <3>2. t \notin Short /\ asked' = NoText => t = answered
      BY <3>1, TextAssumption
    <3>3. SuggestionsFit' /\ SuggestInv'
      BY <3>1, <3>2 DEF SuggestionsFit, SuggestInv
    <3>4. QED
      BY <1>1, <3>1, <3>3 DEF TextInv
  <2>2. ASSUME NEW t \in Text, SearchFromProfile(t) PROVE TextInv'
    BY <1>1, <2>2 DEF SearchFromProfile, ShowSuggestions, TextInv, SuggestionsFit, SuggestInv
  <2>3. CASE CloseSuggestions
    BY <1>1, <2>3 DEF CloseSuggestions, TextInv, SuggestionsFit, SuggestInv
  <2>4. CASE SuggestionsArrive
    BY <1>1, <2>4 DEF SuggestionsArrive, ShowSuggestions, TextInv, SuggestionsFit, SuggestInv
  <2>5. QED
    BY <2>1, <2>2, <2>3, <2>4 DEF Searching, Type, PickSuggestion
<1>5. PhonebookTypeOK'
  BY <1>1, <1>2, <1>3, <1>4 DEF PhonebookTypeOK, wishVars, dialogVars, TableInv, TextInv
<1>6. QED
  BY <1>3, <1>4, <1>5 DEF PhonebookInv, TableInv, TextInv

LEMMA SettingsStep ==
  ASSUME PhonebookInv, Settings
  PROVE  PhonebookInv'
<1>1. PhonebookTypeOK /\ TableInv /\ TextInv
  BY DEF PhonebookInv, PhonebookTypeOK, TableInv, TextInv
<1>2. UNCHANGED <<text, search, suggestVars, sort>>
  BY DEF Settings, OpenSettings, DomainsArrive, Accept, Cancel, ResetSettings, Tick, PickDomain,
         HandleFilters, wishVars
<1>3. TextInv'
  BY <1>1, <1>2, TextStays
<1>4. Requery \/ AskAgain \/ UNCHANGED <<wishVars, tableVars>>
  BY DEF Settings, OpenSettings, DomainsArrive, Accept, Cancel, ResetSettings, Tick, PickDomain,
         HandleFilters
<1>5. TableInv'
  BY <1>1, <1>2, <1>4, RequeryKeeps, AskAgainKeeps, TableStays
<1>7. /\ domain' \in Offered \cup {NoDomain} /\ flags' \subseteq Flag
      /\ open' \in BOOLEAN /\ draft' \subseteq Flag
  BY <1>1, DirectoryAssumption
  DEF Settings, OpenSettings, DomainsArrive, Accept, Cancel, ResetSettings, Tick, PickDomain,
      HandleFilters, Closed, PhonebookTypeOK, wishVars, dialogVars
<1>8. PhonebookTypeOK'
  BY <1>1, <1>2, <1>3, <1>5, <1>7 DEF PhonebookTypeOK, TableInv, TextInv
<1>9. QED
  BY <1>3, <1>5, <1>8 DEF PhonebookInv, TableInv, TextInv

LEMMA AnswerKeeps ==
  ASSUME PhonebookTypeOK, TableInv, QueryAnswers
  PROVE  TableInv'
<1>1. Current' = Current /\ Found(Current)' = Found(Current)
  BY DEF QueryAnswers, Current, wishVars
<1>2. IsPrefix(list', Found(Current)) /\ hasNext' = (Len(list') < Len(Found(Current)))
  BY CurrentIs, FirstRows DEF QueryAnswers
<1>3. list' \in Seq(Person) /\ hasNext' \in BOOLEAN
  BY CurrentIs, RowsAre DEF QueryAnswers, Cursor
<1>4. crossed' \/ more' = {}
  BY DEF TableInv, MoreInv, QueryAnswers
<1>5. QED
  BY <1>1, <1>2, <1>3, <1>4 DEF TableInv, ListIsOne, MoreInv, QueryAnswers

LEMMA LoadMoreKeeps ==
  ASSUME PhonebookTypeOK, TableInv, LoadMore
  PROVE  TableInv'
<1>1. Current' = Current /\ Found(Current)' = Found(Current)
  BY DEF LoadMore, Current, wishVars
<1>2. /\ ~querying /\ ~failed /\ list # <<>> /\ \A m \in more : m.query # Current
      /\ more' = more \cup {[query |-> Current, after |-> Last(list)]}
      /\ UNCHANGED <<querying, failed, list, hasNext, crossed>>
  BY DEF LoadMore
<1>3. ~crossed => more = {}
  BY <1>2 DEF TableInv, MoreInv
<1>4. Last(list) \in Person
  <2>1. list \in Seq(Person) /\ Len(list) \in 1 .. Len(list)
    BY <1>2, NotEmpty DEF PhonebookTypeOK
  <2>2. QED
    BY <2>1 DEF Last
<1>5. more' \subseteq [query : Query, after : Cursor]
  BY <1>2, <1>4, CurrentIs DEF PhonebookTypeOK, Cursor
<1>6. QED
  BY <1>1, <1>2, <1>3, <1>5 DEF TableInv, ListIsOne, MoreInv

(* The next page goes on where the list ends.                               *)
LEMMA MoreKeeps ==
  ASSUME PhonebookTypeOK, TableInv, NEW m \in more, MoreArrives(m)
  PROVE  TableInv'
<1>1. Current' = Current /\ Found(Current)' = Found(Current)
  BY DEF MoreArrives, Current, wishVars
<1>2. /\ more' = more \ {m} /\ list' = UpTo(m.after) \o Rows(m.query, m.after)
      /\ hasNext' = MoreRows(m.query, m.after)
      /\ UNCHANGED <<querying, failed, crossed>>
  BY DEF MoreArrives
<1>3. m.query \in Query /\ m.query.sort \in Sort /\ m.after \in Cursor
  BY DEF PhonebookTypeOK, Query
<1>4. list' \in Seq(Person) /\ hasNext' \in BOOLEAN
  <2>1. UpTo(m.after) \in Seq(Person) /\ Rows(m.query, m.after) \in Seq(Person)
    BY <1>3, UpToIs, RowsAre
  <2>2. QED
    BY <1>2, <1>3, <2>1, RowsAre
<1>5. ASSUME ~crossed
      PROVE  /\ ~querying /\ ~failed /\ more' = {}
             /\ IsPrefix(list', Found(Current)) /\ hasNext' = (Len(list') < Len(Found(Current)))
  <2>1. /\ ~querying /\ ~failed /\ list # <<>>
        /\ more = {[query |-> Current, after |-> Last(list)]}
    BY <1>5 DEF TableInv, MoreInv
  <2>2. m.query = Current /\ m.after = Last(list) /\ more' = {}
    BY <1>2, <2>1
  <2>3. list \in Seq(Person) /\ IsPrefix(list, Found(Current)) /\ Current.sort \in Sort
    BY <1>5, <2>1, CurrentIs DEF TableInv, ListIsOne, PhonebookTypeOK
  <2>4. /\ \A i \in 1 .. Len(list) : list[i] = Last(list) => i = Len(list)
        /\ IsPrefix(list \o Rows(Current, Last(list)), Found(Current))
        /\ MoreRows(Current, Last(list)) =
             (Len(list \o Rows(Current, Last(list))) < Len(Found(Current)))
    BY <2>1, <2>3, NextRows
  <2>5. UpTo(Last(list)) = list
    BY <2>1, <2>4, UpToIs
  <2>6. QED
    BY <1>2, <2>1, <2>2, <2>4, <2>5
<1>6. QED
  BY <1>1, <1>2, <1>4, <1>5 DEF TableInv, ListIsOne, MoreInv

LEMMA LoadingStep ==
  ASSUME PhonebookInv, Loading
  PROVE  PhonebookInv'
<1>1. PhonebookTypeOK /\ TableInv /\ TextInv
  BY DEF PhonebookInv, PhonebookTypeOK, TableInv, TextInv
<1>2. UNCHANGED <<text, suggestVars, domain, flags, dialogVars>>
  BY DEF Loading, Debounce, Refetch, QueryAnswers, QueryFails, LoadMore, HandleSort, MoreArrives,
         MoreFails, wishVars
<1>3. TextInv'
  BY <1>1, <1>2, TextStays
<1>4. search' \in Text /\ sort' \in Sort
  BY <1>1 DEF Loading, Debounce, Refetch, QueryAnswers, QueryFails, LoadMore, HandleSort,
              MoreArrives, MoreFails, PhonebookTypeOK, Sort, wishVars
<1>5. TableInv'
  <2>1. CASE Debounce
    BY <1>1, <2>1, RequeryKeeps DEF Debounce
  <2>2. ASSUME NEW column \in Column, HandleSort(column) PROVE TableInv'
    BY <1>1, <2>2, RequeryKeeps DEF HandleSort
  <2>3. CASE Refetch
    BY <1>1, <2>3, AskAgainKeeps DEF Refetch
  <2>4. CASE QueryAnswers
    BY <1>1, <2>4, AnswerKeeps
  <2>5. CASE QueryFails
    BY <1>1, <2>5 DEF QueryFails, TableInv, ListIsOne, MoreInv
  <2>6. CASE LoadMore
    BY <1>1, <2>6, LoadMoreKeeps
  <2>7. ASSUME NEW m \in more, MoreArrives(m) PROVE TableInv'
    BY <1>1, <2>7, MoreKeeps
  <2>8. ASSUME NEW m \in more, MoreFails(m) PROVE TableInv'
    <3>1. Current' = Current /\ Found(Current)' = Found(Current)
      BY <2>8 DEF MoreFails, Current, wishVars
    <3>2. QED
      BY <1>1, <2>8, <3>1 DEF MoreFails, TableInv, ListIsOne, MoreInv
  <2>9. QED
    BY <2>1, <2>2, <2>3, <2>4, <2>5, <2>6, <2>7, <2>8 DEF Loading
<1>6. PhonebookTypeOK'
  BY <1>1, <1>2, <1>3, <1>4, <1>5 DEF PhonebookTypeOK, dialogVars, TableInv, TextInv
<1>7. QED
  BY <1>3, <1>5, <1>6 DEF PhonebookInv, TableInv, TextInv

LEMMA PhonebookStep ==
  ASSUME PhonebookInv, [PhonebookNext]_phonebookVars
  PROVE  PhonebookInv'
<1>1. CASE UNCHANGED phonebookVars
  <2>1. PhonebookTypeOK /\ TableInv /\ TextInv
    BY DEF PhonebookInv, PhonebookTypeOK, TableInv, TextInv
  <2>2. TableInv' /\ TextInv'
    BY <1>1, <2>1, TableStays, TextStays DEF phonebookVars
  <2>3. PhonebookTypeOK'
    BY <1>1, <2>1 DEF PhonebookTypeOK, phonebookVars, suggestVars, wishVars, dialogVars, tableVars
  <2>4. QED
    BY <2>2, <2>3 DEF PhonebookInv, TableInv, TextInv
<1>2. QED
  BY <1>1, SearchingStep, LoadingStep, SettingsStep DEF PhonebookNext

-----------------------------------------------------------------------------
(* All pages.                                                               *)

PagesInv ==
  /\ part \in Part
  /\ PhonebookInv /\ CardInv /\ TasksInv /\ FilesInv /\ FormInv /\ VisitInv

LEMMA PagesStart == PagesInit => PagesInv
BY PhonebookStarts, CardStarts, TasksStart, FilesStart, FormStarts, VisitStarts
DEF PagesInit, PagesInv

LEMMA PagesStep ==
  ASSUME PagesInv, [PagesNext]_pagesVars
  PROVE  PagesInv'
<1>1. part' \in Part
  BY DEF PagesInv, PagesNext, pagesVars
<1>2. [PhonebookNext]_phonebookVars
  BY DEF PagesNext, pagesVars
<1>3. [ProfileCardNext]_profileCardVars
  BY DEF PagesNext, pagesVars
<1>4. [TaskPagesNext]_taskPageVars
  BY DEF PagesNext, pagesVars
<1>5. [TaskFilesNext]_taskFilesVars
  BY DEF PagesNext, pagesVars
<1>6. [ProfileFormNext]_profileFormVars
  BY DEF PagesNext, pagesVars
<1>7. [VisitNext]_visitVars
  BY DEF PagesNext, pagesVars
<1>8. QED
  BY <1>1, <1>2, <1>3, <1>4, <1>5, <1>6, <1>7, PhonebookStep, CardStep, TasksStep, FilesStep,
     FormStep, VisitStep
  DEF PagesInv

LEMMA PagesInvariance == Spec => []PagesInv
<1>1. PagesInv /\ [PagesNext]_pagesVars => PagesInv'
  BY PagesStep
<1>2. QED
  BY PagesStart, <1>1, PTL DEF Spec

(* Every page keeps its variables within their types, for any directory,    *)
(* any systems and any number of rows, requests, files and calls.           *)
THEOREM PagesTypes == Spec => []PageTypes
<1>1. PagesInv => PageTypes
  BY DEF PagesInv, Part, PageTypes, PhonebookInv, CardInv, TasksInv, FilesInv, FormInv, VisitInv
<1>2. QED
  BY <1>1, PagesInvariance, PTL

(* The table of the phonebook is the beginning of the answer to what the    *)
(* page asks for, and knows whether it goes on, for any directory, order,   *)
(* conditions and size of a page, unless the query was sent again while a   *)
(* further page was being fetched.                                          *)
THEOREM PhonebookIsOneList == Spec => []ListIsOne
<1>1. PagesInv => ListIsOne
  BY DEF PagesInv, PhonebookInv
<1>2. QED
  BY <1>1, PagesInvariance, PTL

(* Once fetched, the suggestions are those for the text in the field.       *)
THEOREM SuggestionsFitText == Spec => []SuggestionsFit
<1>1. PagesInv => SuggestionsFit
  BY DEF PagesInv, PhonebookInv
<1>2. QED
  BY <1>1, PagesInvariance, PTL

(* Once answered, a card is of the person asked for last, in any directory: *)
(* neither an older answer nor one from the cache takes its place.          *)
THEOREM CardOfWhomAsked == Spec => []CardIsAsked
<1>1. PagesInv => CardIsAsked
  BY DEF PagesInv, CardInv
<1>2. QED
  BY <1>1, PagesInvariance, PTL

(* However many systems and tasks there are and however they fail: once a   *)
(* request is over, a page of tasks shows what the systems held or has told *)
(* an error, with the exceptions NothingVanishes names.                     *)
THEOREM NoTaskVanishes == Spec => []NothingVanishes
<1>1. PagesInv => NothingVanishes
  BY DEF PagesInv, TasksInv
<1>2. QED
  BY <1>1, PagesInvariance, PTL

(* The file clicked last is saved once its answer is there, and no other    *)
(* file after the click, for any files and any number of requests.          *)
THEOREM LastFileArrives == Spec => []FileArrives
<1>1. PagesInv => FileArrives
  BY DEF PagesInv, FilesInv
<1>2. QED
  BY <1>1, PagesInvariance, PTL

(* An administrator's form shows the answer of the query with the changes   *)
(* that Accept would send, for any fields and values and any number of      *)
(* calls on their way; a form changed while a photo was made smaller is     *)
(* exempted until the next answer.                                          *)
THEOREM FormIsSaved == Spec => []SavedAsShown
<1>1. PagesInv => SavedAsShown
  BY DEF PagesInv, FormInv
<1>2. QED
  BY <1>1, PagesInvariance, PTL

(* A tab shows nobody else than who is signed in, for any number of tabs,   *)
(* visitors and requests, unless one of three things has disturbed it.      *)
THEOREM WhoIsShownIsSignedIn == Spec => []WhoIsShown
<1>1. PagesInv => WhoIsShown
  BY WhoIsShownHolds DEF PagesInv
<1>2. QED
  BY <1>1, PagesInvariance, PTL
=============================================================================
