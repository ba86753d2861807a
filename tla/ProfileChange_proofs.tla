------------------------ MODULE ProfileChange_proofs ------------------------
(***************************************************************************)
(* What ProfileChange promises for any number of people, editors and       *)
(* changes, whatever fails and whatever others do to the directory.        *)
(*                                                                         *)
(* A row that no other session has saved is its person's.  IdentityInv     *)
(* adds that an edit of a session whose row is such a one works with a     *)
(* copy of that person's row, so that saving it as one's own keeps it so.  *)
(***************************************************************************)
EXTENDS ProfileChange, TLAPS

USE DEF At, Goto, Whose

(* An edit that is not idle has all the fields of one.                      *)
LEMMA EditUnderWay ==
  ASSUME TypeOK, NEW e \in Editor, edit[e].pc # "idle"
  PROVE  /\ edit[e] \in Edit
         /\ Whose(e) \in Person /\ edit[e].id \in Person /\ edit[e].field \in Field
         /\ edit[e].created.data \in Data /\ edit[e].created.disabled \in BOOLEAN
<1>1. edit[e] \in Edit
  BY DEF TypeOK, Idle
<1>2. edit[e].created \in Row
  BY <1>1 DEF Edit
<1> QED BY <1>1, <1>2 DEF Edit, Row

(* What an edit sends and the directory keeps are values of the field.      *)
LEMMA SentIsStored ==
  ASSUME TypeOK, NEW e \in Editor, edit[e].pc # "idle"
  PROVE  /\ Sent(edit[e].field, edit[e].choice) \in Value \cup {null}
         /\ Stored(edit[e].field, Sent(edit[e].field, edit[e].choice)) \in Value \cup {Absent}
BY EditUnderWay, FieldAssumption DEF Edit, Sent, Stored

(* An import makes data of data, whatever the entry lacks.                  *)
LEMMA ImportedIsData ==
  ASSUME NEW old \in Data, NEW found \in Entry
  PROVE  Imported(old, found) \in Data
BY DEF Imported, Data, Entry

LEMMA InitTypes == Init => TypeOK
<1> SUFFICES ASSUME Init PROVE TypeOK
  OBVIOUS
<1>1. PICK v \in Value, old \in Value \cup {null}, missing \in SUBSET Field :
        /\ entry = [p \in Person |->
                     [f \in Field |-> IF f \in missing THEN Absent ELSE Stored(f, v)]]
        /\ row = [p \in Person |-> [of |-> p, disabled |-> FALSE,
                     data |-> Imported([f \in Field |-> old], entry[p])]]
  BY DEF Init
<1>2. \A f \in Field : Stored(f, v) \in Value \cup {Absent}
  BY FieldAssumption DEF Stored
<1>3. entry \in [Person -> Entry] /\ entry \in [Person -> Entry \cup {Gone}]
  BY <1>1, <1>2 DEF Entry
<1>4. row \in [Person -> Row]
  <2>1. [f \in Field |-> old] \in Data
    BY DEF Data
  <2>2. \A p \in Person : Imported([f \in Field |-> old], entry[p]) \in Data
    BY <1>3, <2>1, ImportedIsData
  <2>3. \A p \in Person : [of |-> p, disabled |-> FALSE,
                           data |-> Imported([f \in Field |-> old], entry[p])] \in Row
    BY <2>2 DEF Row
  <2> QED BY <1>1, <2>3
<1> QED BY <1>3, <1>4, BoundAssumption DEF Init, TypeOK, Idle

(* An edit begins with the session's row as it was looked up.               *)
LEMMA BeginEdit ==
  ASSUME NEW e \in Editor, Begin(e)
  PROVE  \E id \in Person, f \in Field, v \in Value :
           edit' = [edit EXCEPT ![e] = [pc |-> "search", id |-> id, field |-> f,
                      choice |-> v, created |-> row[Own[e]], found |-> Gone]]
BY PersonAssumption DEF Begin

LEMMA EditKeepsTypes ==
  ASSUME TypeOK, NEW e \in Editor, Begin(e) \/ EditStep(e)
  PROVE  TypeOK'
<1>1. CASE Begin(e)
  <2>1. PICK id \in Person, f \in Field, v \in Value :
          edit' = [edit EXCEPT ![e] = [pc |-> "search", id |-> id, field |-> f,
                     choice |-> v, created |-> row[Own[e]], found |-> Gone]]
    BY <1>1, BeginEdit
  <2>2. row[Own[e]] \in Row
    BY PersonAssumption DEF TypeOK
  <2> DEFINE new == [pc |-> "search", id |-> id, field |-> f,
                     choice |-> v, created |-> row[Own[e]], found |-> Gone]
  <2>3. new \in Edit /\ new.pc = "search"
    BY <2>2 DEF Edit, EditPc
  <2>4. edit' = [edit EXCEPT ![e] = new]
    BY <2>1
  <2> HIDE DEF new
  <2>5. /\ UNCHANGED <<entry, cached, row, importing, foreign>>
        /\ changes' = changes + 1 /\ changes < MaxChanges
    BY <1>1 DEF Begin
  <2> QED BY <2>3, <2>4, <2>5, BoundAssumption DEF TypeOK
<1>2. ASSUME NEW new \in Edit \cup {Idle}, edit' = [edit EXCEPT ![e] = new],
             new.pc = "modify" => new.found \in Entry,
             UNCHANGED <<importing, changes>>, foreign' \subseteq Person,
             entry' \in [Person -> Entry \cup {Gone}],
             cached' \in [Person -> Entry \cup {None}],
             row' \in [Person -> Row]
      PROVE  TypeOK'
  BY <1>2 DEF TypeOK
<1>3. CASE SearchCached(e)
  <2> DEFINE new == [edit[e] EXCEPT !.pc = "modify", !.found = cached[Whose(e)]]
  <2>1. new \in Edit /\ (new.pc = "modify" => new.found \in Entry)
    BY <1>3, EditUnderWay DEF SearchCached, TypeOK, Edit, EditPc
  <2>2. edit' = [edit EXCEPT ![e] = new] /\ UNCHANGED <<importing, changes, entry, cached, row, foreign>>
    BY <1>3 DEF SearchCached
  <2> HIDE DEF new
  <2> QED BY <1>2, <2>1, <2>2 DEF TypeOK
<1>4. CASE SearchDirectory(e)
  <2>1. /\ edit[e] \in Edit /\ Whose(e) \in Person
        /\ UNCHANGED <<importing, changes, entry, row, foreign>>
    BY <1>4, EditUnderWay DEF SearchDirectory
  <2>2. CASE entry[Whose(e)] # Gone
    <3> DEFINE new == [edit[e] EXCEPT !.pc = "modify", !.found = entry[Whose(e)]]
    <3>1. new \in Edit /\ (new.pc = "modify" => new.found \in Entry)
      BY <2>1, <2>2 DEF TypeOK, Edit, EditPc
    <3>2. /\ edit' = [edit EXCEPT ![e] = new]
          /\ cached' = [cached EXCEPT ![Whose(e)] = entry[Whose(e)]]
      BY <1>4, <2>2 DEF SearchDirectory
    <3> HIDE DEF new
    <3>3. cached' \in [Person -> Entry \cup {None}]
      BY <2>1, <2>2, <3>2 DEF TypeOK
    <3> QED BY <1>2, <2>1, <3>1, <3>2, <3>3 DEF TypeOK
  <2>3. CASE entry[Whose(e)] = Gone
    <3> DEFINE new == IF Whose(e) \in Contact THEN [edit[e] EXCEPT !.pc = "save"]
                                              ELSE Idle
    <3>1. new \in Edit \cup {Idle} /\ new.pc # "modify"
      BY <2>1 DEF Edit, EditPc, Idle
    <3>2. edit' = [edit EXCEPT ![e] = new] /\ UNCHANGED cached
      BY <1>4, <2>3 DEF SearchDirectory
    <3> HIDE DEF new
    <3> QED BY <1>2, <2>1, <3>1, <3>2 DEF TypeOK
  <2> QED BY <2>2, <2>3
<1>5. CASE Modify(e)
  <2> DEFINE new == [edit[e] EXCEPT !.pc = "save"]
             v == Stored(edit[e].field, Sent(edit[e].field, edit[e].choice))
  <2>1. /\ edit[e] \in Edit /\ Whose(e) \in Person /\ edit[e].found \in Entry
        /\ edit[e].field \in Field /\ entry[Whose(e)] \in Entry
        /\ UNCHANGED <<importing, changes, row, foreign>>
    BY <1>5, EditUnderWay DEF Modify, TypeOK
  <2>2. new \in Edit /\ new.pc = "save"
    BY <2>1 DEF Edit, EditPc
  <2>3. v \in Value \cup {Absent}
    BY <1>5, SentIsStored DEF Modify
  <2>4. /\ edit' = [edit EXCEPT ![e] = new]
        /\ cached' = [cached EXCEPT ![Whose(e)] = None]
        /\ entry' = [entry EXCEPT ![Whose(e)] =
                       Rewritten(@, edit[e].found, edit[e].field, v)]
    BY <1>5 DEF Modify
  <2> HIDE DEF new, v
  <2>5. Rewritten(entry[Whose(e)], edit[e].found, edit[e].field, v) \in Entry
    BY <2>1, <2>3 DEF Rewritten, Entry
  <2>6. /\ entry' \in [Person -> Entry \cup {Gone}]
        /\ cached' \in [Person -> Entry \cup {None}]
    BY <2>4, <2>5 DEF TypeOK
  <2> QED BY <1>2, <2>1, <2>2, <2>4, <2>6 DEF TypeOK
<1>6. CASE Fails(e)
  BY <1>2, <1>6 DEF Fails, TypeOK, Idle
<1>7. CASE Save(e)
  <2> DEFINE new == [of |-> Whose(e),
                     data |-> [edit[e].created.data EXCEPT
                       ![edit[e].field] = Sent(edit[e].field, edit[e].choice)],
                     disabled |-> edit[e].created.disabled \/ edit[e].found = Gone]
  <2>1. new \in Row
    BY <1>7, EditUnderWay, SentIsStored DEF Save, Row, Data
  <2>2. foreign' \subseteq Person
    BY <1>7, EditUnderWay DEF Save, TypeOK
  <2>3. row' = [row EXCEPT ![edit[e].id] = new] /\ edit' = [edit EXCEPT ![e] = Idle]
        /\ UNCHANGED <<importing, changes, entry, cached>>
    BY <1>7 DEF Save
  <2> HIDE DEF new
  <2> QED BY <1>2, <2>1, <2>2, <2>3 DEF TypeOK, Idle
<1> QED BY <1>1, <1>3, <1>4, <1>5, <1>6, <1>7 DEF EditStep

LEMMA OthersKeepTypes ==
  ASSUME TypeOK, NEW p \in Person,
         ImportRead(p) \/ ImportSave(p) \/ ChangeOutside(p) \/ CacheExpires(p)
  PROVE  TypeOK'
<1>1. CASE ImportRead(p)
  BY <1>1 DEF ImportRead, TypeOK
<1>2. CASE ImportSave(p)
  <2>1. importing[p] \in Entry
    BY <1>2 DEF ImportSave, TypeOK
  <2>2. ASSUME NEW i \in Person
        PROVE  [of |-> p, disabled |-> FALSE,
                data |-> Imported(row[i].data, importing[p])] \in Row
    <3>1. row[i].data \in Data
      BY DEF TypeOK, Row
    <3> QED BY <2>1, <3>1, ImportedIsData DEF Row
  <2> QED BY <1>2, <2>2 DEF ImportSave, TypeOK
<1>3. CASE ChangeOutside(p)
  <2>1. entry' \in [Person -> Entry \cup {Gone}]
    <3>1. CASE entry' = [entry EXCEPT ![p] = Gone]
      BY <3>1 DEF TypeOK
    <3>2. ASSUME NEW f \in Field, NEW x \in Value \cup {Absent},
                 entry' = [entry EXCEPT ![p][f] = x]
          PROVE  entry' \in [Person -> Entry \cup {Gone}]
      <4>1. entry[p] \in Entry
        BY <1>3 DEF ChangeOutside, TypeOK
      <4>2. [entry[p] EXCEPT ![f] = x] \in Entry
        BY <4>1 DEF Entry
      <4> QED BY <3>2, <4>2 DEF TypeOK
    <3>3. \A f \in Field, v \in Value : Stored(f, v) \in Value \cup {Absent}
      BY FieldAssumption DEF Stored
    <3> QED BY <1>3, <3>1, <3>2, <3>3 DEF ChangeOutside
  <2> QED BY <1>3, <2>1, BoundAssumption DEF ChangeOutside, TypeOK
<1>4. CASE CacheExpires(p)
  BY <1>4 DEF CacheExpires, TypeOK
<1> QED BY <1>1, <1>2, <1>3, <1>4

(* The variables keep their types, and no entry is rewritten that was not   *)
(* found.                                                                   *)
THEOREM ProfileTypes == Spec => []TypeOK
<1>1. TypeOK /\ [Next]_vars => TypeOK'
  BY EditKeepsTypes, OthersKeepTypes DEF Next, vars, TypeOK
<1> QED BY <1>1, InitTypes, PTL DEF Spec

-----------------------------------------------------------------------------
(* The action of AttributesKept.                                            *)
LEMMA StepKeepsAttributes ==
  ASSUME TypeOK, Next, NEW p \in Person, NEW f \in Field \ CommentField,
         entry[p] # Gone, entry'[p] # Gone, entry'[p][f] # entry[p][f]
  PROVE  Editing(p, f) \/ ChangeOutside(p)
<1>1. CASE \E q \in Person : ChangeOutside(q)
  BY <1>1 DEF ChangeOutside, TypeOK
<1>2. ASSUME NEW e \in Editor, Modify(e) PROVE Editing(p, f)
  <2> DEFINE v == Stored(edit[e].field, Sent(edit[e].field, edit[e].choice))
  <2>1. entry' = [entry EXCEPT ![Whose(e)] =
                    Rewritten(@, edit[e].found, edit[e].field, v)]
    BY <1>2 DEF Modify
  <2> HIDE DEF v
  <2>2. Whose(e) = p
    BY <2>1 DEF TypeOK
  <2>3. entry'[p][f] = Rewritten(entry[p], edit[e].found, edit[e].field, v)[f]
    BY <2>1, <2>2 DEF TypeOK
  <2>4. edit[e].field = f
    BY <2>3 DEF Rewritten
  <2> QED BY <1>2, <2>2, <2>4 DEF Editing
<1>3. CASE entry' = entry
  BY <1>3
<1>4. \/ entry' = entry
      \/ \E e \in Editor : Modify(e)
      \/ \E q \in Person : ChangeOutside(q)
  BY DEF Next, EditStep, Begin, SearchCached, SearchDirectory, Fails, Save,
         ImportRead, ImportSave, CacheExpires
<1> QED BY <1>1, <1>2, <1>3, <1>4

(* For any number of overlapping edits, failures and changes from outside,  *)
(* an attribute of its own changes in the directory only through an edit of *)
(* that field or from outside.                                              *)
THEOREM ProfileAttributesKept == Spec => AttributesKept
<1>1. TypeOK /\ [Next]_vars =>
        [\A p \in Person, f \in Field \ CommentField :
           entry[p] # Gone /\ entry'[p] # Gone /\ entry'[p][f] # entry[p][f]
           => Editing(p, f) \/ ChangeOutside(p)]_vars
  BY StepKeepsAttributes DEF vars
<1> QED BY <1>1, ProfileTypes, PTL DEF Spec, AttributesKept

-----------------------------------------------------------------------------
(* The edits under way are of the session's own row.                        *)
IdentityInv ==
  /\ TypeOK
  /\ OwnRowsKept
  /\ \A e \in Editor : ~At(e, "idle") /\ Own[e] \notin foreign => Whose(e) = Own[e]

(* An edit that goes on is still of the same row.                           *)
LEMMA GoingOnKeepsIdentity ==
  ASSUME IdentityInv, TypeOK', UNCHANGED <<row, foreign>>,
         NEW e \in Editor, ~At(e, "idle"), NEW new,
         new.created = edit[e].created,
         edit' = [edit EXCEPT ![e] = new]
  PROVE  IdentityInv'
BY DEF IdentityInv, OwnRowsKept, TypeOK

LEMMA StepKeepsIdentity ==
  ASSUME IdentityInv, TypeOK', Next
  PROVE  IdentityInv'
<1> USE DEF IdentityInv
<1>1. ASSUME NEW e \in Editor, Begin(e) PROVE IdentityInv'
  <2>1. PICK id \in Person, f \in Field, v \in Value :
          edit' = [edit EXCEPT ![e] = [pc |-> "search", id |-> id, field |-> f,
                     choice |-> v, created |-> row[Own[e]], found |-> Gone]]
    BY <1>1, BeginEdit
  <2>2. /\ Own[e] \notin foreign => row[Own[e]].of = Own[e]
        /\ UNCHANGED <<row, foreign>>
    BY <1>1, PersonAssumption DEF OwnRowsKept, Begin
  <2> QED BY <2>1, <2>2 DEF OwnRowsKept, TypeOK
<1>2. ASSUME NEW e \in Editor, Save(e) PROVE IdentityInv'
  <2>1. /\ edit' = [edit EXCEPT ![e] = Idle] /\ foreign \subseteq foreign'
        /\ edit[e].id # Own[e] => edit[e].id \in foreign'
    BY <1>2 DEF Save
  <2>2. ASSUME NEW p \in Person \ foreign' PROVE row'[p].of = p
    <3>1. CASE p # edit[e].id
      BY <1>2, <2>1, <2>2, <3>1 DEF Save, OwnRowsKept, TypeOK
    <3>2. CASE p = edit[e].id
      <4>1. p = Own[e] /\ Own[e] \notin foreign
        BY <2>1, <2>2, <3>2
      <4>2. Whose(e) = Own[e]
        BY <1>2, <4>1 DEF Save
      <4>3. row'[p].of = Whose(e)
        BY <1>2, <3>2 DEF Save, TypeOK
      <4> QED BY <4>1, <4>2, <4>3
    <3> QED BY <3>1, <3>2
  <2> QED BY <2>1, <2>2 DEF OwnRowsKept, TypeOK, Idle
<1>3. ASSUME NEW e \in Editor, SearchCached(e) \/ SearchDirectory(e) \/ Modify(e) \/ Fails(e)
      PROVE  IdentityInv'
  <2>1. ~At(e, "idle") /\ UNCHANGED <<row, foreign>>
    BY <1>3 DEF SearchCached, SearchDirectory, Modify, Fails, At
  <2>2. edit[e] \in Edit
    BY <2>1, EditUnderWay DEF TypeOK
  <2>3. CASE SearchCached(e)
    <3> DEFINE new == [edit[e] EXCEPT !.pc = "modify", !.found = cached[Whose(e)]]
    <3>1. new.created = edit[e].created
      BY <2>2 DEF Edit
    <3>2. edit' = [edit EXCEPT ![e] = new]
      BY <2>3 DEF SearchCached
    <3> HIDE DEF new
    <3> QED BY <2>1, <3>1, <3>2, GoingOnKeepsIdentity
  <2>4. CASE SearchDirectory(e) /\ entry[Whose(e)] # Gone
    <3> DEFINE new == [edit[e] EXCEPT !.pc = "modify", !.found = entry[Whose(e)]]
    <3>1. new.created = edit[e].created
      BY <2>2 DEF Edit
    <3>2. edit' = [edit EXCEPT ![e] = new]
      BY <2>4 DEF SearchDirectory
    <3> HIDE DEF new
    <3> QED BY <2>1, <3>1, <3>2, GoingOnKeepsIdentity
  <2>5. CASE SearchDirectory(e) /\ entry[Whose(e)] = Gone /\ Whose(e) \in Contact
    <3> DEFINE new == [edit[e] EXCEPT !.pc = "save"]
    <3>1. new.created = edit[e].created
      BY <2>2 DEF Edit
    <3>2. edit' = [edit EXCEPT ![e] = new]
      BY <2>5 DEF SearchDirectory
    <3> HIDE DEF new
    <3> QED BY <2>1, <3>1, <3>2, GoingOnKeepsIdentity
  <2>6. CASE Modify(e)
    <3> DEFINE new == [edit[e] EXCEPT !.pc = "save"]
    <3>1. new.created = edit[e].created
      BY <2>2 DEF Edit
    <3>2. edit' = [edit EXCEPT ![e] = new]
      BY <2>6 DEF Modify
    <3> HIDE DEF new
    <3> QED BY <2>1, <3>1, <3>2, GoingOnKeepsIdentity
  <2>7. CASE edit' = [edit EXCEPT ![e] = Idle]
    BY <2>1, <2>7 DEF OwnRowsKept, TypeOK, Idle
  <2>8. \/ SearchDirectory(e) /\ entry[Whose(e)] # Gone
        \/ SearchDirectory(e) /\ entry[Whose(e)] = Gone /\ Whose(e) \in Contact
        \/ SearchCached(e) \/ Modify(e)
        \/ edit' = [edit EXCEPT ![e] = Idle]
    BY <1>3 DEF SearchDirectory, Fails
  <2> QED BY <2>3, <2>4, <2>5, <2>6, <2>7, <2>8
<1>4. ASSUME NEW p \in Person,
             ImportRead(p) \/ ImportSave(p) \/ ChangeOutside(p) \/ CacheExpires(p)
      PROVE  IdentityInv'
  <2>1. UNCHANGED <<edit, foreign>>
    BY <1>4 DEF ImportRead, ImportSave, ChangeOutside, CacheExpires
  <2>2. OwnRowsKept'
    BY <1>4 DEF ImportRead, ImportSave, ChangeOutside, CacheExpires, OwnRowsKept, TypeOK
  <2> QED BY <2>1, <2>2
<1> QED BY <1>1, <1>2, <1>3, <1>4 DEF Next, EditStep

LEMMA InitIdentity == Init => IdentityInv
<1> SUFFICES ASSUME Init PROVE OwnRowsKept /\ \A e \in Editor : At(e, "idle")
  BY InitTypes DEF IdentityInv
<1> QED BY DEF Init, OwnRowsKept, Idle

(* A row that no other session has saved always holds its own person's      *)
(* data, whoever edits whom, for any number of editors and whatever fails.  *)
THEOREM ProfileOwnRows == Spec => []OwnRowsKept
<1>1. Init => IdentityInv
  BY InitIdentity
<1>2. IdentityInv /\ TypeOK' /\ [Next]_vars => IdentityInv'
  <2>1. IdentityInv /\ TypeOK' /\ Next => IdentityInv'
    BY StepKeepsIdentity
  <2>2. IdentityInv /\ TypeOK' /\ UNCHANGED vars => IdentityInv'
    BY DEF IdentityInv, OwnRowsKept, vars
  <2> QED BY <2>1, <2>2
<1>3. IdentityInv => OwnRowsKept
  BY DEF IdentityInv
<1> QED BY <1>1, <1>2, <1>3, ProfileTypes, PTL DEF Spec
-----------------------------------------------------------------------------
(* Of people who edit in one place and are not changed from outside, what   *)
(* the portal has read of the entry is what the entry is.                   *)
ReadingInv ==
  /\ IdentityInv
  /\ \A e \in Editor : ~At(e, "idle") => Whose(e) = Own[e]
  /\ \A p \in Alone : cached[p] # None => cached[p] = entry[p]
  /\ \A e \in Editor : At(e, "modify") /\ Whose(e) \in Alone
       => edit[e].found = entry[Whose(e)]

(* This is so as long as nobody's row has been exchanged.                   *)
CommentInv == IdentityInv /\ (foreign = {} => ReadingInv)

(* A step that leaves the directory alone keeps the readings current.       *)
LEMMA EditKeepsReadings ==
  ASSUME foreign' = {}, foreign = {}, ReadingInv, IdentityInv', NEW e \in Editor,
         Begin(e) \/ EditStep(e)
  PROVE  ReadingInv'
<1> USE DEF ReadingInv
<1>1. CASE Begin(e)
  <2>1. PICK id \in Person, f \in Field, v \in Value :
          edit' = [edit EXCEPT ![e] = [pc |-> "search", id |-> id, field |-> f,
                     choice |-> v, created |-> row[Own[e]], found |-> Gone]]
    BY <1>1, BeginEdit
  <2>2. row[Own[e]].of = Own[e] /\ UNCHANGED <<entry, cached>>
    BY <1>1, PersonAssumption DEF IdentityInv, OwnRowsKept, Begin
  <2> QED BY <2>1, <2>2 DEF IdentityInv, TypeOK
<1>2. CASE Fails(e) \/ Save(e)
  <2>1. edit' = [edit EXCEPT ![e] = Idle] /\ UNCHANGED <<entry, cached>>
    BY <1>2 DEF Fails, Save
  <2> QED BY <2>1 DEF IdentityInv, TypeOK, Idle
<1>3. CASE SearchCached(e)
  <2> DEFINE new == [edit[e] EXCEPT !.pc = "modify", !.found = cached[Whose(e)]]
  <2>1. ~At(e, "idle") /\ edit[e] \in Edit /\ UNCHANGED <<entry, cached>>
    BY <1>3, EditUnderWay DEF SearchCached, IdentityInv
  <2>2. new.found = cached[Whose(e)] /\ new.created = edit[e].created
    BY <2>1 DEF Edit
  <2>3. edit' = [edit EXCEPT ![e] = new] /\ cached[Whose(e)] # None
    BY <1>3 DEF SearchCached
  <2> HIDE DEF new
  <2> QED BY <2>1, <2>2, <2>3 DEF IdentityInv, TypeOK
<1>4. CASE SearchDirectory(e) /\ entry[Whose(e)] # Gone
  <2> DEFINE new == [edit[e] EXCEPT !.pc = "modify", !.found = entry[Whose(e)]]
  <2>1. ~At(e, "idle") /\ edit[e] \in Edit /\ UNCHANGED entry
    BY <1>4, EditUnderWay DEF SearchDirectory, IdentityInv
  <2>2. new.found = entry[Whose(e)] /\ new.created = edit[e].created
    BY <2>1 DEF Edit
  <2>3. edit' = [edit EXCEPT ![e] = new]
    BY <1>4 DEF SearchDirectory
  <2>4. cached' = [cached EXCEPT ![Whose(e)] = entry[Whose(e)]]
    BY <1>4 DEF SearchDirectory
  <2> HIDE DEF new
  <2> QED BY <2>1, <2>2, <2>3, <2>4 DEF IdentityInv, TypeOK
<1>5. CASE SearchDirectory(e) /\ entry[Whose(e)] = Gone
  <2> DEFINE new == [edit[e] EXCEPT !.pc = "save"]
  <2>1. ~At(e, "idle") /\ edit[e] \in Edit /\ UNCHANGED <<entry, cached>>
    BY <1>5, EditUnderWay DEF SearchDirectory, IdentityInv
  <2>2. new.pc = "save" /\ new.created = edit[e].created
    BY <2>1 DEF Edit
  <2>3. \/ edit' = [edit EXCEPT ![e] = new]
        \/ edit' = [edit EXCEPT ![e] = Idle]
    BY <1>5 DEF SearchDirectory
  <2> HIDE DEF new
  <2> QED BY <2>1, <2>2, <2>3 DEF IdentityInv, TypeOK, Idle
<1>6. CASE Modify(e)
  <2> DEFINE new == [edit[e] EXCEPT !.pc = "save"]
  <2>1. ~At(e, "idle") /\ edit[e] \in Edit
    BY <1>6, EditUnderWay DEF Modify, IdentityInv
  <2>2. new.pc = "save" /\ new.created = edit[e].created
    BY <2>1 DEF Edit
  <2>3. edit' = [edit EXCEPT ![e] = new] /\ cached' = [cached EXCEPT ![Whose(e)] = None]
    BY <1>6 DEF Modify
  <2>4. \A p \in Person \ {Whose(e)} : entry'[p] = entry[p] /\ cached'[p] = cached[p]
    BY <1>6 DEF Modify, IdentityInv, TypeOK
  <2>5. Whose(e) = Own[e]
    BY <2>1
  <2> HIDE DEF new
  <2>6. \A p \in Alone : cached'[p] # None => cached'[p] = entry'[p]
    BY <2>3, <2>4 DEF Alone, IdentityInv, TypeOK
  <2>7. \A d \in Editor : ~(edit'[d].pc = "idle") => edit'[d].created.of = Own[d]
    BY <2>2, <2>3, <2>5 DEF IdentityInv, TypeOK
  <2>8. ASSUME NEW d \in Editor, edit'[d].pc = "modify", edit'[d].created.of \in Alone
        PROVE  edit'[d].found = entry'[edit'[d].created.of]
    <3>1. d # e
      BY <2>2, <2>3, <2>8 DEF IdentityInv, TypeOK
    <3>2. edit'[d] = edit[d]
      BY <2>3, <3>1 DEF IdentityInv, TypeOK
    <3>3. Own[d] # Own[e]
      BY <2>7, <2>8, <3>1 DEF Alone
    <3>4. Whose(d) = Own[d] /\ Whose(d) \in Person
      BY <2>7, <2>8, <3>2 DEF Alone
    <3> QED BY <2>4, <2>5, <2>8, <3>2, <3>3, <3>4
  <2> QED BY <2>6, <2>7, <2>8
<1> QED BY <1>1, <1>2, <1>3, <1>4, <1>5, <1>6 DEF EditStep

LEMMA OthersKeepReadings ==
  ASSUME ReadingInv, IdentityInv', NEW q \in Person,
         ImportRead(q) \/ ImportSave(q) \/ ChangeOutside(q) \/ CacheExpires(q)
  PROVE  ReadingInv'
<1>1. UNCHANGED edit
  BY DEF ImportRead, ImportSave, ChangeOutside, CacheExpires
<1>2. \A p \in Alone : entry'[p] = entry[p]
  BY DEF ImportRead, ImportSave, ChangeOutside, CacheExpires, Alone,
         ReadingInv, IdentityInv, TypeOK
<1>3. \A p \in Alone : cached'[p] \in {cached[p], None}
  BY DEF ImportRead, ImportSave, ChangeOutside, CacheExpires, Alone,
         ReadingInv, IdentityInv, TypeOK
<1> QED BY <1>1, <1>2, <1>3 DEF ReadingInv

(* The action of CommentsKept.                                              *)
LEMMA StepKeepsComments ==
  ASSUME ReadingInv, Next, NEW p \in Alone, NEW f \in CommentField,
         entry[p] # Gone, entry'[p] # Gone, entry'[p][f] # entry[p][f]
  PROVE  Editing(p, f)
<1> USE DEF ReadingInv, IdentityInv
<1>1. f \in Field /\ p \in Person
  BY FieldAssumption DEF Alone
<1>2. PICK e \in Editor : Modify(e)
  <2>1. \A q \in Person : ~ChangeOutside(q)
    BY <1>1 DEF ChangeOutside, Alone, TypeOK
  <2> QED BY <2>1 DEF Next, EditStep, Begin, SearchCached, SearchDirectory, Fails,
                   Save, ImportRead, ImportSave, CacheExpires
<1> DEFINE v == Stored(edit[e].field, Sent(edit[e].field, edit[e].choice))
<1>3. entry' = [entry EXCEPT ![Whose(e)] =
                  Rewritten(@, edit[e].found, edit[e].field, v)]
  BY <1>2 DEF Modify
<1> HIDE DEF v
<1>4. Whose(e) = p
  BY <1>1, <1>3 DEF TypeOK
<1>5. edit[e].found = entry[p]
  BY <1>2, <1>4 DEF Modify
<1>6. entry'[p][f] = Rewritten(entry[p], entry[p], edit[e].field, v)[f]
  BY <1>1, <1>3, <1>4, <1>5 DEF TypeOK
<1>7. edit[e].field = f
  BY <1>1, <1>6 DEF Rewritten
<1> QED BY <1>2, <1>4, <1>7 DEF Editing

(* As long as nobody's row has been exchanged, the shared comment of        *)
(* somebody who edits in one place is never written from an old reading,    *)
(* whatever fails and however imports and other people's edits fall.        *)
THEOREM ProfileCommentsKept == Spec => CommentsKept
<1>1. Init => CommentInv
  <2>1. Init => IdentityInv
    BY InitIdentity
  <2> SUFFICES ASSUME Init PROVE CommentInv
    OBVIOUS
  <2>2. \A e \in Editor : At(e, "idle")
    BY DEF Init, Idle
  <2>3. \A p \in Alone : cached[p] = None
    BY DEF Init, Alone
  <2> QED BY <2>1, <2>2, <2>3 DEF CommentInv, ReadingInv
<1>2. CommentInv /\ TypeOK' /\ [Next]_vars => CommentInv'
  <2>1. ASSUME CommentInv, TypeOK', Next PROVE CommentInv'
    <3>1. IdentityInv'
      BY <2>1, StepKeepsIdentity DEF CommentInv
    <3>2. foreign \subseteq foreign'
      BY <2>1 DEF Next, EditStep, Begin, SearchCached, SearchDirectory, Modify, Fails,
                  Save, ImportRead, ImportSave, ChangeOutside, CacheExpires
    <3>3. foreign' = {} => ReadingInv'
      BY <2>1, <3>1, <3>2, EditKeepsReadings, OthersKeepReadings DEF Next, CommentInv
    <3> QED BY <3>1, <3>3 DEF CommentInv
  <2>2. CommentInv /\ TypeOK' /\ UNCHANGED vars => CommentInv'
    BY DEF CommentInv, ReadingInv, IdentityInv, OwnRowsKept, vars
  <2> QED BY <2>1, <2>2
<1>3. CommentInv /\ [Next]_vars =>
        [\A p \in Alone, f \in CommentField :
           foreign = {} /\ entry[p] # Gone /\ entry'[p] # Gone /\ entry'[p][f] # entry[p][f]
           => Editing(p, f)]_vars
  BY StepKeepsComments DEF vars, CommentInv
<1> QED BY <1>1, <1>2, <1>3, ProfileTypes, PTL DEF Spec, CommentsKept
=============================================================================
