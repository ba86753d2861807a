----------------------------- MODULE ProfileCard -----------------------------
(***************************************************************************)
(* The card of a person over the phonebook: components/phonebook/profile.  *)
(* The address says whose card is opened; a click on the manager asks for  *)
(* that person and leaves the address as it is.  The card goes on showing  *)
(* the person it has until the next one has been read, and while an error  *)
(* is shown it keeps that person's name and photo, without the fields.     *)
(***************************************************************************)
CONSTANTS
  Colleague,
  Chief,    \* the manager of each, who may be nobody
  Hidden,   \* disabled, or not to be shown
  NoOne

ASSUME CardAssumption ==
  /\ NoOne \notin Colleague /\ Hidden \subseteq Colleague
  /\ Chief \in [Colleague -> Colleague \cup {NoOne}]

VARIABLES
  url,      \* query.id
  about,    \* the variables of the query
  waiting, failure,
  card,     \* `profile`
  read,     \* the people in the cache of the browser
  outrun    \* history: questions on their way that another one has replaced

profileCardVars == <<url, about, waiting, failure, card, read, outrun>>

Anybody == Colleague \cup {NoOne}

ProfileCardTypeOK ==
  /\ url \in Anybody /\ about \in Anybody /\ card \in Anybody
  /\ waiting \in BOOLEAN /\ failure \in BOOLEAN
  /\ read \subseteq Colleague /\ outrun \subseteq Colleague

ProfileCardInit ==
  /\ url = NoOne /\ about = NoOne /\ card = NoOne
  /\ waiting = FALSE /\ failure = FALSE /\ read = {} /\ outrun = {}

-----------------------------------------------------------------------------
(* A bug: a card that shows somebody already is left as it is.              *)
SetProfile_First(shown, p) == card' = IF shown = NoOne THEN p ELSE shown

(* The effect that shows an answer.                                         *)
SetProfile(shown, p) == card' = p

(* The question before is given up; what has been read is in the cache.     *)
GetProfile(p, shown) ==
  /\ about' = p /\ failure' = FALSE
  /\ waiting' = (p \notin read)
  /\ outrun' = IF waiting /\ about # p THEN outrun \cup {about} ELSE outrun
  /\ IF p \in read THEN SetProfile(shown, p) ELSE card' = shown
  /\ UNCHANGED read

OpenCard(p) == url = NoOne /\ url' = p /\ GetProfile(p, NoOne)

(* Back and forward in the browser, with the card open.                     *)
ChangeAddress(p) == url \notin {NoOne, p} /\ url' = p /\ GetProfile(p, card)

FieldsAreShown == url # NoOne /\ card # NoOne /\ ~failure

(* The field of the manager; an empty one cannot be clicked.                *)
ProfileField(p) == FieldsAreShown /\ p = Chief[card] /\ p # NoOne

HandleProfile(p) ==
  /\ ProfileField(p) /\ p \notin Hidden
  /\ GetProfile(p, card) /\ UNCHANGED url

(* The back button, or a field: its text is searched for, which is the      *)
(* subject of Phonebook.                                                    *)
CloseCard ==
  /\ url # NoOne /\ url' = NoOne
  /\ about' = NoOne /\ card' = NoOne /\ waiting' = FALSE /\ failure' = FALSE
  /\ outrun' = IF waiting THEN outrun \cup {about} ELSE outrun
  /\ UNCHANGED read

CardAnswers ==
  /\ waiting /\ waiting' = FALSE
  /\ read' = read \cup {about}
  /\ SetProfile(card, about)
  /\ UNCHANGED <<url, about, failure, outrun>>

CardFails ==
  /\ waiting /\ waiting' = FALSE /\ failure' = TRUE
  /\ UNCHANGED <<url, about, card, read, outrun>>

(* The answer to a question that was given up, if it is not thrown away.    *)
OutrunAnswers(p) ==
  /\ p \in outrun /\ outrun' = outrun \ {p}
  /\ read' \in {read, read \cup {p}}
  /\ UNCHANGED <<url, about, waiting, failure, card>>

ProfileCardNext ==
  \/ \E p \in Colleague : OpenCard(p) \/ ChangeAddress(p) \/ HandleProfile(p) \/ OutrunAnswers(p)
  \/ CloseCard \/ CardAnswers \/ CardFails

(* Once its answer is there, the card shows the person asked for last, from *)
(* the address or from a click on a manager, whichever questions it         *)
(* replaced; the link to the editing page is that person's.                 *)
CardIsAsked ==
  (url # NoOne /\ ~waiting /\ ~failure) => card = about

-----------------------------------------------------------------------------
(* The inductive invariant behind CardIsAsked: a card that is closed waits  *)
(* for nothing, and only people are asked for.                              *)
CardInv ==
  /\ ProfileCardTypeOK /\ CardIsAsked
  /\ url = NoOne => ~waiting
  /\ waiting => about \in Colleague
=============================================================================
