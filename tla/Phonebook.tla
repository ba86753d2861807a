------------------------------ MODULE Phonebook ------------------------------
(***************************************************************************)
(* The phonebook page (pages/phonebook.tsx) above ProfileResolver.profiles *)
(* and searchSuggestions: a search with a delay, suggestions, sorting, a   *)
(* settings dialog, and a table that is loaded page by page while its      *)
(* variables change.                                                       *)
(*                                                                         *)
(* The browser caches the answers of all variables in one place, because   *)
(* relayStylePagination() is given no keyArgs (lib/init-apollo.ts): the    *)
(* table is whatever was written there last.  Apollo writes an answer of   *)
(* the page's query only if it is the one to its last request; a further   *)
(* page, fetched by fetchMore, it writes whenever it comes.                *)
(*                                                                         *)
(* Opening a profile changes nothing here, and what the settings dialog    *)
(* saves with userSettings is the subject of SessionUser.                  *)
(***************************************************************************)
EXTENDS Naturals, FiniteSets, SequencesExt

CONSTANTS
  Empty,
  Short,        \* the texts with fewer than three characters
  Long,         \* those with more than three
  Text,
  Completions,  \* the names the server suggests for a text
  NoText,
  Column,
  Ranking,      \* the people in the ascending order of each column
  Matching,     \* the people each long text finds
  Flag,         \* the settings that show more people: "disabled", "notShowing"
  Flagged,      \* the people who are only shown with a flag
  Admin,        \* who is looking
  Domain,
  DomainOf,
  Offered,      \* the domains that availableAuthenticationProfiles lists
  FirstDomain,  \* the first of them
  NoDomain,
  PageSize,     \* 50 in the code
  Start,        \* the cursor before everybody
  MaxRows, MaxMore  \* bounds: rows after which no more are fetched, pages being fetched

Person == Range(Ranking[CHOOSE c \in Column : TRUE])

ASSUME TextAssumption ==
  /\ Empty \in Short /\ Short \cup Long \subseteq Text /\ Short \cap Long = {}
  /\ NoText \notin Text /\ Completions \in [Text -> SUBSET Text]

ASSUME DirectoryAssumption ==
  /\ Column # {}
  /\ \A c \in Column : /\ Ranking[c] \in Seq(Person) /\ IsInjective(Ranking[c])
                       /\ Range(Ranking[c]) = Person
  /\ Matching \in [Long -> SUBSET Person]
  /\ Flagged \in [Flag -> SUBSET Person] /\ Flag \subseteq {"disabled", "notShowing"}
  /\ DomainOf \in [Person -> Domain] /\ FirstDomain \in Offered /\ Offered \subseteq Domain
  /\ NoDomain \notin Domain /\ Start \notin Person
  /\ PageSize \in Nat \ {0} /\ MaxRows \in Nat /\ MaxMore \in Nat /\ Admin \in BOOLEAN

VARIABLES
  text,         \* in the search field
  typed,        \* it was typed or picked, and not taken from a profile
  search,       \* the text of 300 ms ago
  asked,        \* the text suggestions are being fetched for
  answered,     \* the text the last suggestions were fetched for
  suggestions,  \* the text whose suggestions are shown
  sort, domain, flags,
  open,         \* the settings dialog
  draft,        \* the flags ticked in it
  querying,     \* the answer to the page's query is awaited
  failed,       \* it was an error, and no table is shown
  list,         \* the rows in the cache
  hasNext,
  more,         \* the further pages being fetched
  crossed       \* the query was sent again while one was

suggestVars == <<typed, asked, answered, suggestions>>
wishVars    == <<sort, domain, flags>>
dialogVars  == <<open, draft>>
tableVars   == <<querying, failed, list, hasNext, more, crossed>>
phonebookVars == <<text, search, suggestVars, wishVars, dialogVars, tableVars>>

Sort  == [field : Column, direction : {"ASC", "DESC"}]
Query == [search : Long \cup {Empty}, sort : Sort,
          domain : Offered \cup {NoDomain}, flags : SUBSET Flag]

(* What the page asks for; only an administrator's asks for hidden people.   *)
Current ==
  [search |-> IF search \in Long THEN search ELSE Empty, sort |-> sort, domain |-> domain,
   flags |-> IF Admin THEN flags ELSE flags \ {"notShowing"}]

-----------------------------------------------------------------------------
(* The server.                                                              *)

Ranked(s) == IF s.direction = "ASC" THEN Ranking[s.field]
             ELSE Reverse(Ranking[s.field])

(* The conditions getProfiles puts together.                                *)
Finds(q, p) ==
  /\ \A flag \in Flag : p \in Flagged[flag] => flag \in q.flags
  /\ q.domain # NoDomain => DomainOf[p] = q.domain
  /\ q.search # Empty => p \in Matching[q.search]

(* Who is found behind the first n of the order.                           *)
FoundBehind(q) ==
  LET order == Ranked(q.sort)
      behind[n \in 0 .. Len(order)] ==
        IF n = Len(order) THEN <<>>
        ELSE IF Finds(q, order[n + 1]) THEN <<order[n + 1]>> \o behind[n + 1]
        ELSE behind[n + 1]
  IN  behind

Found(q) == FoundBehind(q)[0]

(* A cursor names a person.  It is not validated: one from another answer   *)
(* stands for its place in the order that is asked for now.                 *)
PlaceOf(q, after) ==
  IF after = Start THEN 0
  ELSE CHOOSE n \in DOMAIN Ranked(q.sort) : Ranked(q.sort)[n] = after

Behind(q, after) == FoundBehind(q)[PlaceOf(q, after)]

Rows(q, after) ==
  LET rest == Behind(q, after)
  IN  SubSeq(rest, 1, IF Len(rest) < PageSize THEN Len(rest) ELSE PageSize)

MoreRows(q, after) == Len(Behind(q, after)) > PageSize

(* searchSuggestions keeps a single name to itself.                         *)
Suggested(t) ==
  IF \E a, b \in Completions[t] : a # b THEN Completions[t] ELSE {}

-----------------------------------------------------------------------------
Cursor == Person \cup {Start}

PhonebookTypeOK ==
  /\ text \in Text /\ search \in Text /\ typed \in BOOLEAN
  /\ asked \in (Text \ Short) \cup {NoText}
  /\ answered \in (Text \ Short) \cup {NoText}
  /\ suggestions \in (Text \ Short) \cup {NoText}
  /\ sort \in Sort /\ domain \in Offered \cup {NoDomain} /\ flags \subseteq Flag
  /\ open \in BOOLEAN /\ draft \subseteq Flag
  /\ querying \in BOOLEAN /\ failed \in BOOLEAN
  /\ list \in Seq(Person) /\ hasNext \in BOOLEAN
  /\ more \subseteq [query : Query, after : Cursor] /\ crossed \in BOOLEAN

PhonebookInit ==
  /\ text = Empty /\ search = Empty /\ typed = TRUE
  /\ asked = NoText /\ answered = NoText /\ suggestions = NoText
  /\ sort = [field |-> CHOOSE c \in Column : TRUE, direction |-> "ASC"]
  /\ domain \in Offered \cup {NoDomain} /\ flags = {}
  /\ open = FALSE /\ draft = {}
  /\ querying = TRUE /\ failed = FALSE
  /\ list = <<>> /\ hasNext = FALSE /\ more = {} /\ crossed = FALSE

-----------------------------------------------------------------------------
(* Searching.                                                               *)

(* A bug: the effect shows what the last answer holds.                      *)
ShowSuggestions_OfAny ==
  suggestions' =
    IF asked' # NoText THEN suggestions
    ELSE IF answered' # NoText /\ Suggested(answered') # {}
         THEN answered' ELSE NoText

(* The effect on the text and the suggestions; it waits while they load.    *)
ShowSuggestions ==
  suggestions' =
    IF asked' # NoText THEN suggestions
    ELSE IF answered' # NoText /\ Suggested(answered') # {} /\ text' \notin Short
         THEN answered' ELSE NoText

(* A bug: suggestions are fetched for any text.                             *)
ActionSearch_Always(t) ==
  /\ text' = t /\ typed' = TRUE
  /\ asked' = IF t # answered THEN t ELSE NoText
  /\ UNCHANGED answered /\ ShowSuggestions

(* actionSearch.  The last answer is not fetched again.                     *)
ActionSearch(t) ==
  /\ text' = t /\ typed' = TRUE
  /\ asked' = IF t \in Short THEN asked ELSE IF t # answered THEN t ELSE NoText
  /\ UNCHANGED answered /\ ShowSuggestions

(* The settings dialog is modal: what is behind it cannot be clicked.        *)
Type(t) ==
  /\ ~open /\ t # text /\ ActionSearch(t)
  /\ UNCHANGED <<search, wishVars, dialogVars, tableVars>>

PickSuggestion(t) ==
  /\ ~open /\ suggestions # NoText /\ t \in Suggested(suggestions)
  /\ ActionSearch(t)
  /\ UNCHANGED <<search, wishVars, dialogVars, tableVars>>

(* A field of an open profile is searched for: the page hands out setSearch *)
(* for it, which fetches no suggestions.                                    *)
SearchFromProfile(t) ==
  /\ ~open /\ t # text
  /\ text' = t /\ typed' = FALSE
  /\ UNCHANGED <<asked, answered>> /\ ShowSuggestions
  /\ UNCHANGED <<search, wishVars, dialogVars, tableVars>>

CloseSuggestions ==
  /\ suggestions # NoText /\ suggestions' = NoText
  /\ UNCHANGED <<text, search, typed, asked, answered, wishVars, dialogVars, tableVars>>

SuggestionsArrive ==
  /\ asked # NoText
  /\ answered' \in {asked, NoText}   \* NoText: an error
  /\ asked' = NoText
  /\ UNCHANGED text /\ ShowSuggestions
  /\ UNCHANGED <<typed, search, wishVars, dialogVars, tableVars>>

-----------------------------------------------------------------------------
(* The table.                                                               *)

AskAgain ==
  /\ querying' = TRUE /\ failed' = FALSE
  /\ crossed' = (crossed \/ more # {})
  /\ UNCHANGED <<list, hasNext, more>>

(* The query is sent again when its variables have changed.                 *)
Requery == IF Current' = Current THEN UNCHANGED tableVars ELSE AskAgain

Debounce ==
  /\ search # text /\ search' = text
  /\ UNCHANGED <<text, suggestVars, wishVars, dialogVars>>
  /\ Requery

HandleSort(column) ==
  /\ ~open
  /\ sort' = [field |-> column, direction |->
                IF sort = [field |-> column, direction |-> "ASC"] THEN "DESC" ELSE "ASC"]
  /\ UNCHANGED <<text, search, suggestVars, domain, flags, dialogVars>>
  /\ Requery

(* The button for it is not disabled while something is loading.            *)
Refetch ==
  /\ ~open
  /\ UNCHANGED <<text, search, suggestVars, wishVars, dialogVars>>
  /\ AskAgain

(* The answer replaces the rows, whatever they were.                        *)
QueryAnswers ==
  /\ querying /\ querying' = FALSE
  /\ list' = Rows(Current, Start) /\ hasNext' = MoreRows(Current, Start)
  /\ crossed' = (crossed /\ more # {})
  /\ UNCHANGED <<text, search, suggestVars, wishVars, dialogVars, failed, more>>

QueryFails ==
  /\ querying /\ querying' = FALSE /\ failed' = TRUE
  /\ UNCHANGED <<text, search, suggestVars, wishVars, dialogVars, list, hasNext, more, crossed>>

(* A bug: the table does not know that the page is loading.                 *)
LoadMore_Loading ==
  /\ ~failed /\ hasNext /\ list # <<>>
  /\ \A m \in more : m.query # Current
  /\ Len(list) < MaxRows /\ Cardinality(more) < MaxMore
  /\ more' = more \cup {[query |-> Current, after |-> Last(list)]}
  /\ UNCHANGED <<text, search, suggestVars, wishVars, dialogVars,
                 querying, failed, list, hasNext, crossed>>

(* The last rows come into view while nothing is loading.                   *)
LoadMore ==
  /\ ~querying /\ ~failed /\ hasNext /\ list # <<>>
  /\ \A m \in more : m.query # Current
  /\ Len(list) < MaxRows /\ Cardinality(more) < MaxMore
  /\ more' = more \cup {[query |-> Current, after |-> Last(list)]}
  /\ UNCHANGED <<text, search, suggestVars, wishVars, dialogVars,
                 querying, failed, list, hasNext, crossed>>

(* relayStylePagination puts the rows behind the cursor, or at the end.     *)
UpTo(cursor) ==
  IF cursor \in Range(list) THEN SubSeq(list, 1, SelectInSeq(list, LAMBDA p : p = cursor))
  ELSE list

MoreArrives(m) ==
  /\ m \in more /\ more' = more \ {m}
  /\ list' = UpTo(m.after) \o Rows(m.query, m.after)
  /\ hasNext' = MoreRows(m.query, m.after)
  /\ UNCHANGED <<text, search, suggestVars, wishVars, dialogVars, querying, failed, crossed>>

MoreFails(m) ==
  /\ m \in more /\ more' = more \ {m}
  /\ UNCHANGED <<text, search, suggestVars, wishVars, dialogVars,
                 querying, failed, list, hasNext, crossed>>

-----------------------------------------------------------------------------
(* The settings dialog.                                                     *)

OpenSettings ==
  /\ ~open /\ open' = TRUE /\ draft' = flags
  /\ UNCHANGED <<text, search, suggestVars, wishVars, tableVars>>

Tick(flag) ==
  /\ open /\ flag = "notShowing" => Admin
  /\ draft' = IF flag \in draft THEN draft \ {flag} ELSE draft \cup {flag}
  /\ UNCHANGED <<text, search, suggestVars, wishVars, open, tableVars>>

(* handleFilters: set, and fetched again, before anything is accepted.      *)
HandleFilters(d) ==
  /\ domain' = d
  /\ UNCHANGED <<text, search, suggestVars, sort, flags, dialogVars>>
  /\ AskAgain

PickDomain(d) == open /\ HandleFilters(d)

(* The dialog's DomainComponent finds no domain chosen and chooses one.     *)
DomainsArrive == open /\ domain = NoDomain /\ HandleFilters(FirstDomain)

(* The dialog's own state goes with it.                                     *)
Closed == open' = FALSE /\ draft' = {}

Accept ==
  /\ open /\ flags' = draft /\ Closed
  /\ UNCHANGED <<text, search, suggestVars, sort, domain>>
  /\ Requery

Cancel ==
  /\ open /\ Closed
  /\ UNCHANGED <<text, search, suggestVars, wishVars, tableVars>>

(* handleSettingsReset; the default columns have no flags.                  *)
ResetSettings ==
  /\ open /\ Closed
  /\ flags' = {} /\ domain' = NoDomain
  /\ UNCHANGED <<text, search, suggestVars, sort>>
  /\ Requery

-----------------------------------------------------------------------------
Searching ==
  \/ \E t \in Text : Type(t) \/ PickSuggestion(t) \/ SearchFromProfile(t)
  \/ CloseSuggestions \/ SuggestionsArrive

Loading ==
  \/ Debounce \/ Refetch \/ QueryAnswers \/ QueryFails \/ LoadMore
  \/ \E column \in Column : HandleSort(column)
  \/ \E m \in more : MoreArrives(m) \/ MoreFails(m)

Settings ==
  \/ OpenSettings \/ DomainsArrive \/ Accept \/ Cancel \/ ResetSettings
  \/ \E flag \in Flag : Tick(flag)
  \/ \E d \in Offered : PickDomain(d)

PhonebookNext == Searching \/ Loading \/ Settings

-----------------------------------------------------------------------------
(* The table shows the beginning of one answer, the answer to what the page *)
(* asks for, and knows whether that goes on, unless the query was changed   *)
(* or refreshed while a further page was being fetched: those rows are then *)
(* put into the new answer.                                                 *)
ListIsOne ==
  (~querying /\ ~failed /\ ~crossed) =>
    /\ IsPrefix(list, Found(Current))
    /\ hasNext = (Len(list) < Len(Found(Current)))

(* Once they have been fetched, the suggestions under the field are those   *)
(* for its text, except for a text that was taken from a profile: that one  *)
(* gets the suggestions for what was typed before.                          *)
SuggestionsFit ==
  (typed /\ asked = NoText) => suggestions \in {NoText, text}

-----------------------------------------------------------------------------
(* The inductive invariant behind SuggestionsFit: what is being fetched is  *)
(* for the text, unless that is too short now or taken from a profile.      *)
SuggestInv ==
  typed /\ asked # NoText /\ text \notin Short => asked = text

(* The inductive invariant behind ListIsOne: a further page that is being   *)
(* fetched is the next one of the list.                                     *)
MoreInv ==
  ~crossed =>
    /\ querying \/ failed => more = {}
    /\ more # {} => list # <<>> /\ more = {[query |-> Current, after |-> Last(list)]}

PhonebookInv == PhonebookTypeOK /\ SuggestionsFit /\ ListIsOne /\ SuggestInv /\ MoreInv
=============================================================================
