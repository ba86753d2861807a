# TLA+ models of the portal

This directory holds TLA+ models of the corporate portal in `src/`: a NestJS
server (`apps/portal/src`) with PostgreSQL behind TypeORM, Redis, LDAP and two
external systems for tickets and documents, a synchronization service
(`apps/sync`), a job that triggers it (`apps/sync-job`), and a Next.js client
(`apps/portal/pages`, `components`, `lib`).  TLC checks the models on small
instances; TLAPS proves the main safety properties for all instances.  The
repository's own tests only check that services can be constructed, so nearly
everything said here about the order of steps is said here for the first time.

Contents: 1 inventory, 2 hard behaviours, 3 modules and how they correspond to
the code, 4 runs and bounds, 5 fairness, 6 proofs, 7 where code and words
differ, 8 what is not modelled, 9 plan, 10 running the tools.

## 1. Inventory

Paths without a prefix are under `src/apps/portal/src`.

| Component | State it keeps | Operations | Interacts with |
|---|---|---|---|
| Directory import (`UserService.fromLdap`, `ProfileService.fromLdap`, `fromLdapDN`) | rows of `user` and `profile`; the LDAP answer an import started from | look up the profile, follow the manager, save the profile, look up the user, save it | LDAP; PostgreSQL master and replica; logins and synchronizations importing the same objects |
| Synchronization (`apps/sync`, `SyncService`) | how far a run is, what each domain answered, the updates it started | groups phase, listing of all domains, imports, blocking and granting | the directory import; PostgreSQL; the Redis RPC of the portal and the job |
| Answers from the cache (`tickets.service.ts`, `docflow.service.ts`, six functions) | Redis entries; refreshes nobody awaits; polling timers | query, refresh, publish, store, poll | 1C over SOAP, osTicket over HTTP, GraphQL subscriptions, pages |
| Profile editing (`ProfileService.changeProfile`, `modification`) | directory entry, row, cached LDAP searches | search, modify, save | LDAP, PostgreSQL, imports of the same person, other tabs |
| Sessions and settings (`AuthResolver`, `UserResolver`, `CookieSerializer`) | a copy of the user row per browser in Redis; the row | login, logout, userSettings | the directory import, the synchronization, the pages |
| Ticket commands (`ticketsTaskNew`, `ticketsTaskEdit`, `ticketsTaskFile`, `ticketsComment`) | none; tickets live in 1C and osTicket; the page keeps a form and the state of its last mutation | upload, connect, call, translate the answer; fill in, send, leave | 1C, osTicket, the ticket pages, the routes answered from the cache |
| Groups (`GroupService`, `syncGroup`, the groups of `UserService.fromLdap`) | rows of `group`, the memberships and `isAdmin` of a user | find or create the groups of a person or of a listing, delete a group, attach a person | LDAP; PostgreSQL; logins, the synchronization, saved settings |
| New users (`ldapCheckUsername`, `ldapNewUser`) | directory objects | check a name, add an object, import it | LDAP, the import |
| Starting a synchronization (`sync-job`, `syncLdap`, `AppController`) | a pending RPC | ask, answer | Redis, the synchronization |
| Conversions (`tickets.util.ts`, `docflow/utils`) | none | record to GraphQL type and back | tickets and documents |
| Phonebook page (`pages/phonebook.tsx`, `components/phonebook`) above `profiles`, `searchSuggestions`, `profile` | search text, suggestions, order, columns, the list in the Apollo cache, the open card | type, pick, sort, scroll, refresh, set up, open a card | PostgreSQL, the settings of the session |
| Task pages (`pages/tasks`, `pages/docflow`) and their files | what was answered, what is shown, the file asked for | show a list or a task, refresh, download, send a step | 1C, osTicket, the document system, the cached answers |
| Profile form (`pages/profile/edit.tsx`, `new.tsx`) | the form shown, the changes to be sent, a photo | fill in, drop a photo, send, refetch | `changeProfile`, `fieldSelection` |
| A visit (`lib/init-apollo.ts`, `pages/_app.tsx`, `components/auth`, the guards) | the session cookie of a browser; `me`, the page and the address of each tab | load, go, sign in, sign out, ask | the session, every other page |
| Websocket connections (`app.module.ts`) | the user a connection was opened for | publish | the cached answers |
| E-mail login (`AuthService.loginEmail`) | none | pass credentials on | the web mail |
| Files, News, Reports | NextCloud folders and temporary files; rows of `news`; nothing | list, get, put; create, read, update, delete; nothing | all three modules are commented out of `app.module.ts` (469, 473, 478) |
| Controllers, server start, libraries | none | render, configure, log, resize, connect | everything |

What makes each of them correct:

* *Import*: access comes from the directory and from nothing else; a user has a
  profile; an object has one profile; an import ends.
* *Synchronization*: only accounts that are really missing, or could not be
  imported, are blocked; after it nobody has access whom the directory does not
  list as enabled; it ends, and its updates are carried out although nobody
  waits for them.
* *Answers from the cache*: what is kept was read by one call, all of it since
  its question and none of it an error; users see their
  own answers; a caller hears of what the stale answer missed; a page that keeps
  asking becomes current; polling stops.
* *Profile editing*: an edit changes what was edited and nothing else, in the
  entry and in the row; the two stores agree in the end.
* *Sessions and settings*: what a person chose stays chosen; a blocked account
  stays blocked although old copies of its row are written back.
* *Ticket commands*: a reported success was executed, once and with all its
  files; what is reported as refused never is executed; whatever happens after
  the call is reported as neither; the page shows the answer to what was sent
  last.
* *Groups*: rights come from the directory and from nothing else; who has been
  in a group all the time is never thrown out of it, whichever domain is silent;
  a run that nothing disturbs sets everybody's rights, and only an old session
  undoes that.
* *New users*: who is told "created" finds the object in both tables.
* *Starting a synchronization*: an asker whose request was received is answered.
* *Phonebook*: the table is the beginning of one answer, to what is asked for
  now; suggestions belong to the text; the card is of the person asked for last.
* *Task pages*: no task vanishes without a word, but those of a system that
  disguises its error; the file clicked last is the one
  that is saved.
* *Profile form*: what is shown is what will be saved.
* *Visit*: a page does not show one person while the server answers another.

## 2. Hard behaviours

Everything is asynchronous and nothing is locked: there is no transaction around
a lookup and a save, no version column, no order between two refreshes or two
requests of one session, and several fire-and-forget promises.  Reads go to a
PostgreSQL replica in the synchronization service, so they may be old.  Five
stores hold copies of the same facts (directory, user row, profile row, session,
caches) and are written one after the other, with no undo.  `PROJECT.json` lists
the hazards one by one, with the line where each one bites and the property that
watches over it.  Two have none: that `defaultsDeep` keeps the tail of a
shortened list (`user.resolver.ts:98`) is simply what the code does (section 7),
and a session store that fails in `request.logIn` (`auth.resolver.ts:85`) is
assumed not to.

In the browser the same happens on a small scale.  Several tabs share one
session and each believes its own cache; answers come in any order and some of
them are believed whenever they come (`fetchMore`, a refetch of `me`); effects
run after the state they were written for has moved on.

## 3. Modules

`X.tla` is a model, `MCX.tla` holds the values TLC needs for it and
`X_proofs.tla` the theorems.  How they are put together:

* `DirectorySync` EXTENDS `LdapImport`: its runs start the imports of that
  module, next to the imports that logins start.  `SyncRpc` EXTENDS
  `DirectorySync` and decides when a run may start.  `NewUser` EXTENDS
  `LdapImport`: its requests start imports as well.
* `SteadyAccess` EXTENDS `DirectorySync` with history variables, states what a run
  promises when it answers, and implements `Access`.
* `TicketForm` EXTENDS `TicketCommand`, which implements `AtMostOnce`.
* `Pages` puts the six modules of the client into one specification.  They share
  no variable, and one behaviour is one of them: see there.
* `GroupSync`, `RefreshCache`, `ProfileChange` and `SessionUser` stand alone;
  what they take from other components is reduced to what reaches them.

### LdapImport

One import per actor and account, a record with a program counter (`task`).
The program counter names the await the import stands at:

| Action | Code |
|---|---|
| `Login`, `Answer` | `AuthService.login`: the directory answers, the import starts; its end is awaited |
| `FollowManager`, `LeaveManagerOut` | `fromLdapDN` before the own profile: one frame is pushed per manager, at most `MaxManagers` (10 in the code); an error leaves the manager out |
| `FindProfile`, `SaveProfile`, `SaveProfileFails` | `byLoginGUID` on the replica, then `save`; an unfound row is inserted, also when another import has inserted one since |
| `FindUser`, `SaveUser`, `SaveUserFails` | the same for the user; the unique index makes the second insert fail |
| `ChangeDirectory`, `Replicate` | environment: administration of the directory, the replica catching up |

A search of the portal may be answered by the cache of its LDAP module
(`app.module.ts:404-452`), a search of the synchronization by the directory only:
`Answers(p, a)` is what actor `p` may be told, `recent` what the cache may still
hold of an account, that is anything the directory has said before, and `Portal`
are the actors it answers.  When its entries expire is left open.

A row is reduced to `none`, `enabled` or `disabled`, the only part of it that
decides over access.  A profile is a set of numbered rows because the indexes of
that table are not unique.  `everEnabled` is a history variable: the accounts
some source has ever shown as enabled.  `doubted` of `NewUser` is another one: the
profiles two imports were about to insert at the same time, or which a lookup did
not find although they are stored, because it failed or the replica is behind.

### DirectorySync

`run[r]` follows one call of `synchronization`: `SyncGroups`, `ListDomain` (once
per domain, each at its own moment, each may fail), `StartImports` or
`NoUsersFound`, `BlockProfiles`, `BlockUsers`.  The updates the last two start
are sets of pending statements (`profileUpdates`, `userUpdates`), executed in
any order by `UpdateProfile` and `UpdateUser`, also after the caller has its
answer: `Promise.allSettled([profilesPromises, usersPromises])` (line 314) gets
two arrays, not promises, and does not wait.  `Crash` ends every unfinished run
with its imports and pending updates.

### Access and SteadyAccess

`Access` is the abstract specification of who may log in: it knows the accounts
that have access, those ever shown as enabled, and those for which there is an
excuse to take it away; access is given to the former and taken from the latter
only.  `SteadyAccess` is `DirectorySync` with two memories.  `steady` is who was stored
from the start and has been shown as enabled ever since.  `disturbed[r]` are the
accounts whose rows somebody else wrote while run `r` was under way, and those
whose user row the run read from a replica that was behind; of all others it
keeps what it promises (`FailsClosed`, `ListedHaveAccess`).  It implements `Access`
(the property `AccessIsJust`) with everybody excused who is not steady, and
everybody once a call has failed or the service has stopped.  A person has
access by the user row, a contact by any row of the profile.

### RefreshCache

One model for six functions that differ in four switches (`OwnKey`, `Collects`,
`Polls`, `Options`; see the head of the module).  A query (`Ask`) is answered
from the entry and leaves a refresh behind, or fetches.  A fetch reads its
sources one by one (`Read`, `ReadFails`), then ends in `RefreshFindsChange`
(publish and store), `RefreshFindsSame` (perhaps set a timer) or `FetchEnds`.
`Deliver` shows a publication on a page, `Expire` is the TTL, `Change` the
outside world.  `since` is a history variable: what each source contained after
a question was asked.

| Function | OwnKey | Collects | Polls |
|---|---|---|---|
| `ticketsRoutesCache` | no | yes | no |
| `ticketsTasksCache` | yes | yes | yes |
| `ticketsTaskCache` | no | no | yes |
| `docFlowTasksCache` | yes | no | no |
| `docFlowTaskCache`, `docFlowInternalDocumentCache` | no | no | no |

### ProfileChange

`Begin` (the edit page sends an input), `SearchCached` or `SearchDirectory` (the
LDAP search with its cache), `Modify`, `Fails`, `Save`; `ImportRead` and
`ImportSave` are the synchronization's import of the same person.  A directory
entry is a function from fields to values, or to `Absent`: an import leaves the
row's value of such a field as it is (`Imported`: undefined, which TypeORM does not
save), but for those it gives a value of its own (`Defaulted`: the middle name,
birthday, gender and country).  A middle name is read from the display name when that has
exactly three words (`Stored`).  `CommentField` are the seven fields
that `modification` packs into the JSON attribute `comment`.  `Rewritten` is
what `modification` makes of the change, the old entry and the present one: the
fields of the comment all come from the entry that was found.  `foreign` is a
history variable: the people whose row somebody else's session has saved.

### SessionUser

`Login`, `Synchronize` and their three steps `FindUser`, `ImportUser`,
`ImportFails` write the row from the directory, with the settings that the
lookup has found on the replica.  A synchronization then looks for the rows that
are enabled (`FindEnabled`) and grants or blocks them (`UpdateUser`).
`Replicate` is the replica catching up.  `ChooseLanguage`,
`ChooseFavorites` with `SaveSettings` or `SettingsFail`, and `Logout`, work on
the copy of the row in the session; `Answer` is the moment express-session
stores that copy, at the end of the request.  `Filled` is what lodash's
`defaultsDeep` does to arrays.  `chosen` and `crossed` are history variables:
what each person has asked for, and the people of whom nothing is claimed
because two of their requests or sessions have overlapped, a save failed, or an
import has looked their settings up on a replica that was behind.  At the start a
row may differ from the directory, and a person whose row was enabled may be
signed in already.

### AtMostOnce, TicketCommand and TicketForm

`AtMostOnce` is the abstract specification of a command: what a caller may
conclude from "done", "refused" and "unsure".  `TicketCommand` implements it
(the property `Promise`, an INSTANCE of `AtMostOnce` with `told` mapped).  One
order is one call of one of the four handlers, which share their phases and
differ in their order:

| Handler | Phases |
|---|---|
| `ticketsTaskNew` | upload, look at the system, connect (1C only), call |
| `ticketsTaskEdit` | 1C only: connect, upload, call |
| `ticketsTaskFile`, `ticketsComment` | look at the system, connect (1C only), call |

| Action | Code |
|---|---|
| `UploadRead`, `UploadFails`, `Uploaded` | `constructUploads`: streams side by side, one error rejects all |
| `Connect`, `ConnectFails` | `SoapService.connect`, whose failure becomes Forbidden |
| `Serve` | external: the system executes the request or not, and answers or not |
| `Reply` | the `then` of the call: a result, an empty one (an exception for a new ticket, a normal return for the others), an error |
| `CallBreaks`, `TimesOut` | the `catch` of the call; only SOAP calls get `TIMEOUT` |
| `Restart`, `Hear`, `Cut` | the portal ends, the answer arrives, the caller's connection breaks |

The exceptions are reduced to what a caller may conclude from them: `refused`
(an upload error, Forbidden, NotImplemented: thrown before the call) and
`unsure` (Unprocessable, GatewayTimeout, NotFound, a network error: thrown
after it).  `hollow` is a normal return without content.

`TicketForm` EXTENDS `TicketCommand` and puts the page `pages/tickets.tsx` above
it: `Follow`, `PickService`, `Write`, `Attach` fill the form in, `Leave` and
`Reset` are `handleResetTicket`, `RoutesArrive` is the pair of effects on the
routes, `Submit` is `handleSubmit`, and `Hears` the end of a mutation together
with the effects on its data and error.  `latest` and `failed` are the state of
`useMutation`, which only knows the last call.

### GroupSync

What `DirectorySync` leaves out: the groups phase in full, and the part of a
user's import that attaches a person to groups.  The indexes of the group table
are not unique, so a group is a set of numbered rows, and a lookup finds any of
them.

| Action | Code |
|---|---|
| `FindGroup`, `SaveGroup`, `SaveGroupFails` | `GroupService.fromLdap`: lookup, then save; the groups of one job are written side by side |
| `ListGroups`, `LeaveGroups`, `FindDoomed`, `DeleteGroup`, `WriteGroups`, `GroupsWritten` | `SyncService.syncGroup`: search each domain; leave everything as it is when one fails; otherwise delete what none has listed, then write what they have listed |
| `ListPeople`, `PeopleImported` | the imports of `syncUser`, reduced to their groups |
| `SaveUser`, `SaveUserFails` | the end of `UserService.fromLdap`: the groups that could be saved become the person's, and `ADMIN_GROUP` among them makes `isAdmin` |
| `LogIn`, `LogOut`, `SaveSettings` | a login imports too and copies the row into the session, from where `userSettings` saves it back |
| `ChangeMember`, `ChangeGroup` | environment: administration of the directory |

A membership names a row.  Deleting a group deletes its memberships, and one in
a row that is gone cannot be saved (`Storable`).  History variables:
`everMember`, what the directory has ever shown, `steady`, what it has shown
all the time, `older`, whose session was opened before all this (a session lives
in Redis as long as it is used), and `undone`, whose row was last written from
such a session.

### SyncRpc

`Ask`, `AskFails`, `Hear` and `AskerLeaves` are the job or the page, which send
`LDAP_SYNC` over Redis and wait; `ServedStep` lets a run of `DirectorySync` start
only with a delivered request; `ServiceStops` and `ServiceStarts` are the process
of `apps/sync`.  Redis keeps nothing, so a request is lost when nobody listens.

### NewUser

`CheckUsername` and, for `ldapNewUser`, `AskNew`, `PhotoRead` or `PhotoFails`,
`Add`, `AddedUnseen` or `AddFails`, then the import of `LdapImport` and
`ReplyNew`; `ShowReply` is the page.  Nothing takes an added object back.

### Phonebook and ProfileCard

`Phonebook` is the page with its resolver.  The text goes three ways: at once
into the field (`Type`, `PickSuggestion`, `SearchFromProfile`), after 300 ms into
the query (`Debounce`), and to the suggestions (`SuggestionsArrive`, and
`ShowSuggestions`, the effect).  The table is what Apollo has in its one cache
entry: `QueryAnswers` replaces it, `MoreArrives` puts rows behind their cursor,
whichever query they were fetched for.  The rest is the settings dialog: it sends
the query again with other columns, and no property is about the columns.  `Rows`
and `MoreRows` are `getProfiles` with its cursor: `FoundBehind` says who is found
behind each place of the order, `PlaceOf` which place a cursor stands for.
`crossed` marks a query sent again while a further page was on its way.  `ProfileCard` is the card over it,
with the address, the question and the person that are not always the same.

### TaskPages and TaskFiles

`TaskPages` has the three lists and task pages, chosen by `view`.  Systems reply
one by one (`SystemReplies`: records, nothing, an error, a timeout, or an error
disguised as a normal answer), the server
puts the answer together (`Converted`, `Complains`, `Answer`, `AnswerFails`) and
the page shows it (`ShowData`, `ShowError`), in its own way for each kind of
page.  `mute` is a history variable: the systems whose disguised error a list
took for an answer.  A record is what its conversion makes of it: fine, nothing, unfit for its
GraphQL type, or an exception.  `TaskFiles` is the download of a file in the two
ways the two task pages do it.

### ProfileForm

`given` is the answer of the query, `current` the form that is shown, `updated`
what Accept will send; `With` is JavaScript's spread of one form over another.
`BeginForm` is the effect that starts both anew, only when
the answer differs from the last one.  `OnDrop` and `Resized` are a photo, whose
callback puts the form of the drop back.  `ReadProfile` may bring old values, as
the replica and the query cache do.

### Visit

`session` is the one of the browser, `me`, `at` and `back` are per tab.  `Load`
is a page from the server, which brings `me` along; `Go` is a link, which checks
nothing.  Requests are sent, served by the guards and answered (`Serve`, `Fails`,
`HearPage`, `HearMe`, `HearLogin`, `HearLogout`, `HearUnauthorized`).
`disturbed` is a history variable: the tabs under which somebody else changed the
session.

### Pages

The six modules above share no variable.  `Pages` chooses one at the start
(`part`) and takes only its steps: it is a way to check six small systems in one
run, and does not claim anything about two of them together.

## 4. Runs

| Run | Instance | Checks | States |
|---|---|---|---|
| `SerialImport` | `NewUser`: two people who are each other's manager, one actor of the portal that logs in or adds people, a cache that may hold an old answer about one of them, lookups on the master, one fault | `OneProfile`, `CreatedIsComplete`, `ImportEnds` | 324 000 |
| `SyncFaults` | `SyncRpc`: one request and its run, two domains of one account each, a service that stops and starts, one fault or crash anywhere, one change | `RunEnds`, `MissingLoseAccess`, `AskersAnswered` | 185 000 |
| `SyncAndLogin` | a run and a login of a clerk whose chief is a contact, a lagging replica, one fault | `AccessComesFromDirectory`, `UserHasProfile`, `BlockingIsJustified`, `FailsClosed`, `ListedHaveAccess`, `AccessIsJust` | 1 881 000 |
| `SharedTask` | two users, one shared entry, two requests or timers | `PageConverges`, `PollingEnds` | 413 000 |
| `PartialAnswers` | two requests for one shared entry, collected from two sources that change and fail one by one | `StoredIsFresh`, `RefreshTells` | 1 550 000 |
| `ProfileEdits` | ann in two tabs and bob in one, who may edit each other; a field of its own and one in the comment, either of them missing; outside changes of ann; failures | `OwnRowsKept`, `AttributesKept`, `CommentsKept`, `Agreement` | 741 000 |
| `EditOther` | ann, an administrator, edits bob | `RowIdentity`: violated | 430 |
| `Sessions` | ann in one browser, the language and a list of one favourite, imports over a lagging replica, failures, two directory changes | `TypeOK`, `LanguageKept`, `BlockedInTheEnd` | 525 000 |
| `TicketCommands` | two orders of any kind, one file, 1C, an osTicket with an address and one without | `WholeOrders`, `Promise`, `SoapAnswers` | 294 000 |
| `TicketForm` | two tickets to two services of one route, one file, routes that come and go | `TypeOK`, `SuccessIsTrue` | 1 396 000 |
| `Groups` | one person, two groups in two domains, one run and one login, one fault, one change | `RightsComeFromDirectory`, `RightsAfterRun`, `SteadyRightsKept` | 3 215 000 |
| `Pages` | the client: see below | `PageTypes`, `ListIsOne`, `SuggestionsFit`, `CardIsAsked`, `NothingVanishes`, `FileArrives`, `SavedAsShown`, `WhoIsShown` | 953 000 |

The parts of `Pages`, and their states:

| Part | Instance | Property | States |
|---|---|---|---|
| phonebook | two people in two domains, one of them disabled; three texts (empty, short of four letters, longer); a page of one row, at most two rows and one further page on its way | `ListIsOne`, `SuggestionsFit` | 246 000 |
| card | three people, each the manager of the next, one of them hidden | `CardIsAsked` | 990 |
| tasks | seven tasks: in 1C one that is fine and one that cannot be read, in osTicket a fine and an empty one, among documents a fine and an unfit one and the target of one | `NothingVanishes` | 223 000 |
| files | two files, three downloads at a time | `FileArrives` | 1 000 |
| form | two fields, one picked from a list and a birthday, two words, two changes or queries at a time | `SavedAsShown` | 262 000 |
| visit | two people, two tabs, two requests at a time | `WhoIsShown` | 220 000 |

Bounds, and why they are enough.  Two accounts give a manager and a subordinate,
hence every shape of the descent (none, one step, a cycle that `MaxManagers`
cuts).  Two rows per profile are one more than there should be.  Imports
overlap in `SyncAndLogin`, where the run and the login import the same person;
the theorems of section 6 hold for any number of them, on a lagging replica and
with any cache.  `SerialImport` looks up on the master because on a replica that is
far behind the same person may be inserted any number of times, more than
`MaxRows`; `SyncAndLogin` starts with an empty cache (with an old answer about
the clerk it has more than five million states).  The directory does not
change in `SyncAndLogin`, but starts in any state, so that some are steady and others
excused; that somebody becomes excused is left to the theorem (`AccessJust`).  The publication flags
of the schema are only covered by the theorems.  One fault and one change, at any
moment, are enough to separate each step from the next; two directory changes in
`Sessions` make an account disabled and enabled again.  A list of one favourite is
enough there: without its entry it is shorter than the old one, which is
what the merge of arrays gets wrong.  Two requests per
instance of `RefreshCache` are a refresh and a query, two refreshes, or a
refresh and a timer; two contents per source make "changed" and "changed back".
`MaxInbox` bounds undelivered publications: a refresh waits for room, which
orders publications but loses none.  In `ProfileEdits`
two values suffice to tell a kept field from an undone one, and one field in the
comment to tell it from the others; a middle name of several words is only in
the theorems, and so are keys and publications per user (`OwnAnswers`) and
people signed in twice (`crossed` in `LanguageKept`).  Two orders are one that is on its way and
one that is sent after it; one file is read or not, and with the order's set of
files empty or full that is every shape of `WholeOrders`.  Restarts and lost
connections are not bounded.  In `Groups` two rows per group are one more than
there should be, two groups in two domains are one that is listed and one whose
domain is silent, and one run beside one login is every overlap of two writers;
lookups read the master there, and may lag behind in the theorems.
In `Pages` one further page overtaken by a new query, two tabs, two requests and
two changes at a time are the smallest that can get in each other's way, and
two words tell a kept value from an overwritten one.  Symmetry (of people, tabs,
calls) is used only in runs that check no liveness.

`CHECK_DEADLOCK FALSE` is set throughout because every one of these systems may
rest: nobody has to log in, ask or edit.

## 5. Fairness

Weak fairness says that a promise settles: a started import, a fetch (cut off by
a timeout in the code), an update, a request on its way to its answer, a timer,
a delivered message, an expiring entry.  Logins, questions, edits, changes from
outside, crashes and failures never have to happen.  `Agreement` and
`BlockedInTheEnd` also assume that the synchronization comes back (the job runs
every hour), and `BlockedInTheEnd` that it does not fail for one account for
ever (strong fairness of `ImportUser`) and that, from some time on, the replica
has the row of an import when `allUsers` reads it (`ReplicaKeepsUp`): section 7
says what happens without that.  `NewFairness` (`SerialImport`) lets a
request and its import go on; `RpcFairness` (`SyncFaults`) the steps of a run that
was asked for, its updates and imports, and the delivery of its answer: nobody has
to ask, and the service has neither to stop nor to start.  `Groups` and `Pages`
state no fairness: they check safety only.  `SoapAnswers` starts at the call: it
assumes the timeout of a SOAP call, which the code sets, and the delivery of a
finished answer; the fetch of the WSDL and the posts to osTicket have no timeout
(`tickets.module.ts:13` takes `HttpModule` without options), so that nothing is
claimed of a caller who waits for those.  `PageConverges` assumes a user who goes
on asking, `PollingEnds` users who stop, `MissingLoseAccess` nothing but that
the service is not stopped.

## 6. Proofs

| Theorem | Says | Rests on |
|---|---|---|
| `ImportTypes`, `ImportAccess`, `ImportProfileFirst` | `TypeOK`, `AccessComesFromDirectory`, `UserHasProfile` of `LdapImport` | `ImportInv` |
| `SyncTypes`, `SyncBlocksJustly`, `SyncAccess`, `SyncProfileFirst` | `SyncTypeOK`, `BlockingIsJustified`, and the two above, in the composed system | `SyncInv` |
| `CacheTypes`, `CacheStoresFresh`, `CacheOwnAnswers`, `CacheTells` | `TypeOK`, the action property `StoredIsFresh`, `OwnAnswers` (in no run), the action property `RefreshTells` | `CacheIInv` |
| `ProfileTypes`, `ProfileAttributesKept`, `ProfileOwnRows`, `ProfileCommentsKept` | `TypeOK`, `AttributesKept`, `OwnRowsKept`, `CommentsKept` | `IdentityInv`, `CommentInv` |
| `SessionTypes`, `SessionLanguageKept` | `TypeOK`, `LanguageKept` | `SettingsInv` |
| `TicketPromise`, `TicketWholeOrders` | `TicketCommand` implements `AtMostOnce`; `WholeOrders` | `CommandInv` |
| `FormTypes`, `FormSuccess`, `FormPromise` | `TypeOK`, `SuccessIsTrue`; the page implements `AtMostOnce` as well | `PageInv` |
| `NewIsComplete`, `NewUserAccess` | `CreatedIsComplete`, `AccessComesFromDirectory`, `UserHasProfile` of `NewUser` | `NewInv` |
| `NewOneProfile` | `OneProfile` of `NewUser` | `ImportInv`, `RowFoundInv`, `InsertInv` |
| `RpcAccess` | `BlockingIsJustified`, `AccessComesFromDirectory`, `UserHasProfile` of `SyncRpc` | `SyncInv` |
| `AccessJust` | `SteadyAccess` implements `Access` (`AccessIsJust`) | `SyncInv`, `SteadyInv` |
| `RunFailsClosed`, `RunLocksNobodyOut` | `FailsClosed`, `ListedHaveAccess` of `SteadyAccess` | `SyncInv`, `PhaseInv`, `RunInv`, `ListedInv` |
| `GroupTypes`, `GroupRights`, `SteadyRights`, `RunSetsRights` | `TypeOK`, `RightsComeFromDirectory`, the action property `SteadyRightsKept`, `RightsAfterRun` | `TypesInv`, `RightsInv`, `KeptInv`, `AfterRunInv` |
| `PagesTypes`, `PhonebookIsOneList`, `SuggestionsFitText`, `CardOfWhomAsked`, `NoTaskVanishes`, `LastFileArrives`, `FormIsSaved`, `WhoIsShownIsSignedIn` | `PageTypes` and the seven properties of the client | `PagesInv` |

All of them hold for any sets of accounts, actors, users, requests, sources,
fields, people, groups, domains, sessions, tabs, orders and files and any bounds,
under the named assumptions of the modules, which TLC evaluates on every run.
None has a hypothesis besides.  Where the code does not keep a promise (section
7), the property leaves out the single accounts it breaks it for, by a history
variable that says what went wrong: `doubted`, `disturbed`, `crossed`, `foreign`,
`undone`.

*Why the invariants have to be strengthened.*

* `ImportInv`: an import writes a flag it read long ago, so that "access comes
  from the directory" must be claimed of every place the flag passes through:
  the frames on the stack and the replica (`OriginInv`).  That a user has a
  profile needs that whoever is about to write the user has written the profile
  (`ProfileFirstInv`), and this that the last frame of a stack is the account
  itself (`StackInv`).
* `SyncInv`: `JudgeInv` says that what a run judges by (the listings, the
  outcome of its imports) no longer changes once it starts updates; `GrantInv`
  and `UserRowInv` carry the history to the pending updates.
* `SteadyInv`: that nobody loses access without an excuse needs that an import of
  a steady account does not fail while no call does (`SteadyImports`).  It could
  only fail on the unique index, when its lookup has found no row, and a steady
  person has one, in the replica too (`SteadyRows`).  Every answer about a steady
  account says "enabled", in the listings (`SteadyShown`) and on the stacks
  (`SteadyFrames`), and by `JudgeInv` an update comes after the import has ended;
  so every row that is written for it grants access.  A step of the database is
  then `Give` or `Take` of `Access` or a stutter, everything else is `Learn`.
* `CacheIInv`: a refresh remembers the answer that was given, which must be free
  of errors and about the right data (`RequestInv`); what a fetch has read was in
  the source after the question (`SinceInv`).
* `IdentityInv`: an edit of a session whose row is its own person's works with a copy of that
  row, so that saving it under the person's own id keeps it so.
* `ReadingInv`: of somebody who edits alone, a cached reading and a found entry
  are the present entry.  This is what makes rewriting the whole comment
  harmless, and it is lost with a second tab, a change from outside, or once a row
  has been exchanged (`CommentInv`): its owner then edits somebody else's entry.
* `SettingsInv`: `Kept(u)` says of somebody whose requests and sessions have not
  crossed that there is one task about them at most and no second session, and
  that the chosen language is in the row, in the task's copy, and in the session
  unless the task is about to store it there.  A lookup that finds other settings
  than those of the row crosses them out.

* `CommandInv`: that a refused order never is executed needs that nothing is on
  the wire while the portal is still before the call (`WireInv`) and that a
  system executes only what is on the wire (`ExecutionInv`); that the files are
  complete needs it of orders whose uploads come first already while they
  connect (`FilesInv`).  The refinement then maps each step to one of
  `AtMostOnce` or to a stutter: the execution by `Serve` is its `Execute`, and
  `Hear` is `Confirm`, `Refuse` or `GiveUp`.
* `PageInv` (`TicketForm`): the ticket the page knows of is the one of the latest order, and
  only if the caller of that order was told "done" (`LatestInv`).
* `NewInv`: "created" is answered after an import of the person's own, which
  must not be mixed up with another one of the same actor (`RequestInv`), and
  rows that were saved must stay (`SavedInv`).
* `InsertInv`: of an account without doubt, one import at most is about to insert
  the profile, and then there is none.  A lookup asks after the managers have been
  saved, so that an import does not even disturb itself in a circle of managers.
  That a row that was found is still there is `RowFoundInv`.
* `RunInv`: an imported user nobody else has written is as it was listed, and
  whoever still has access once the run has answered was listed as enabled or is
  about to be updated; that imports only go on while the run waits for them is
  `PhaseInv`, and that what is imported is what was listed is a fact about the last
  frame of the stack, whatever the managers above it were.  `ListedInv` adds that
  without failure and change every frame of an import is what the directory
  shows, a manager's as well.
* `RightsInv` follows a membership from the directory's answer through the jobs
  of an import and the copy in a session to the row.  `KeptInv` needs more: a group
  with a steady member is in every answer of its domain, hence never doomed, hence
  keeps its rows, hence a membership in it can be saved at any time
  (`GroupKeptInv`).  `SetInv` says that without failure or change each of these
  places has exactly the groups of the directory; a session that is older than
  that is exempt, and so is the row it was last saved to.
* `PagesInv` joins the invariants of the six parts.  `MoreInv`: a further page on
  its way is the one behind the last row of the table, unless the query was sent
  again.  That `Rows` behind the last row continue the list is a fact about the
  order (`FoundIs`, `LeftBehind`): what is found behind a person that was found is
  the rest of what was found before.  `SeenInv`: while a request is on its way,
  what was there when the systems replied is what they gave, and the mute ones
  gave nothing.  `FilesInv` and
  `FormInv` say what is not there yet: nothing saved before the last click was
  heard of, nothing to be changed before the form was answered.  `TabInv`: who is
  shown, and who is about to be, is who is signed in, unless the tab has changed
  the session itself and not heard of it (`Unheard`).

The facts about the phonebook's order need induction along a sequence.  The
library's theorems for it take an operator as a parameter; `Climb` is induction
for a set of numbers instead, from `WFMin` by way of `NatOrder` (a set of
numbers has a least one), and shows that the recursive function in `FoundBehind`
exists and what it returns.

Only model-checked: the liveness properties (`ImportEnds`, `RunEnds`,
`MissingLoseAccess`, `AskersAnswered`, `PageConverges`, `PollingEnds`, `Agreement`,
`BlockedInTheEnd`, `SoapAnswers`), which are outside TLAPS.  Every other property
of a run that passes is stated by one of these theorems.  `ImportTypes`,
`SyncTypes`, `CacheTypes`, `ProfileTypes` and `GroupTypes` prove the type invariants of modules
whose runs do not check theirs again.

## 7. Where code and words differ

One run ends in a counterexample (`PROJECT.json`, "findings"):

* `EditOther`: `changeProfile` merges the input, `id` included, into the row of
  the session user (`profile.service.ts:1062`).

Met while modelling, and not among the runs.

*Imports and synchronization*

* `allUsers` reads the replica, may still show as enabled a row that this run's
  import has just saved as disabled, and the update of `app.service.ts:288-302`
  then grants access again.  An import may miss the row for the same reason, and
  fail on the unique index.  This is the exception (`Misread`) in `FailsClosed` and
  `ListedHaveAccess`; the other one are the rows a login writes beside the run.
* The portal may import an answer its LDAP cache has kept
  (`app.module.ts:404-452`): a login writes back a flag the directory no longer
  has, until the next run.  Nothing is claimed of it but that the flag was shown
  once (`AccessComesFromDirectory`).
* Two imports of a person without a user row, or one whose lookup misses the row
  because the replica does not have it yet, both insert; one fails on the unique
  index (`user.entity.ts:31`).  If that is the synchronization's, it takes the
  person for missing and blocks the row the other has written
  (`app.service.ts:286-302`): who logs in for the first time during a
  synchronization may be locked out until the next one.  `AccessIsJust` fails as
  soon as `steady` does not ask for a stored row.
* `profile.service.ts:432` says "Create or update by user DN"; two overlapping
  imports with a common manager both insert (537, 597).  One import alone does it as
  well when the replica is behind, or when its lookup fails: `byLoginGUID` catches
  the error and returns nothing (291), which is taken for "no such row".  These are
  the exceptions (`Overlap`, `Missed`) in `OneProfile`.
* An import looks the user up on the replica and saves the settings it has found
  with everything else (`user.service.ts:320`, `334-351`), so that a language
  chosen a moment before an hourly run or the next login may be lost although
  nothing overlaps: `LanguageKept` fails as soon as `FindUser` does not note it in
  `crossed`.
* `userSettings` saves the whole copy of the row that the session holds, groups
  and `isAdmin` included (`user.resolver.ts:98-103`), and a session lives as long
  as it is used (`shared/session.ts:28`): who was thrown out of a group keeps the
  old rights in the session and, with the next change of a setting, writes them
  back into a row that a synchronization has set right.  They stay until the
  next import.  This is the exception (`undone`) in `RightsAfterRun` and
  `SteadyRightsKept`.
* `apps/sync/src/app.service.ts:318` logs the end of a successful
  synchronization while its updates are still on their way.
* The page for new profiles sends two documents that do not validate:
  `LDAP_NEW_USER` requires `$domain` (`profiles-queries.ts:55`),
  `LDAP_CHECK_USERNAME` passes `value` where the server has `username`
  (`common-queries.ts:130`).  `NewUser` follows callers of the interface.
  `ldapCheckUsername` answers "free" whenever the search throws.

*Profiles*

* A value that is removed in the directory stays in the row for ever: an import
  reads it as undefined, and saving leaves the column alone
  (`profile.service.ts:556-597`).  `Agreement` therefore says of the values an
  entry has that the row has them, and of the others only what an import gives
  them.  A middle name of two words, written by an edit, makes a display name of
  four, of which an import reads no middle name (530-531) and empties it.
* The edit page turns an unknown gender into `null` and `modification` writes it
  as "W" (`profile.service.ts:852`).
* `setCurrent` after `await resizeImage` puts back the form of the drop
  (`edit.tsx:62`, `new.tsx:80`); the changes stay in what will be sent.  This is
  the exception in `SavedAsShown`.  Accept is enabled while a change is on its way
  (`edit.tsx:127`) and sends it twice; a photo is never cleared and goes along
  with every later change.
* `changeProfile` clears no cache (1073 is commented out), so the page may be
  given the old values by the refetch it waits for.
* A list field whose text is typed and not picked is shown and not passed on.

*Tickets and documents*

* `docflow/graphql/GraphQLInputQueryType.ts:13` documents `websocket` with a
  default of true; a query that misses the cache publishes only when it is
  really true (`docflow.service.ts:342`, `583`, `849`).
* `public/locales/en/tickets.json:29` (`error.body2`, shown by
  `components/tickets/error.tsx:60`) tells the person whose ticket failed that it will be registered later; nothing in the code sends it
  again, and after a timeout it may already be registered.
* A routes refresh while a ticket is being written chooses the service of the
  address again, and resets the form when the system of its route did not
  answer (`pages/tickets.tsx:171-187`).
* `ticketsTask` caches an answer that consists of an error.
* A list of tickets takes an error that comes as a normal answer for one without
  tasks: an osTicket that answers `{error: ...}` or a page of HTML with status
  200 (`tickets.service.ts:545-551`; a single ticket looks for the former, 1056),
  and 1C with an error object (457-462; `ticketsRoutes` looks for it, 170-188).
  The tasks of that system vanish without a word.  This is the exception (`mute`)
  in `NothingVanishes`.
* The pages subscribe to `ticketsTasksSubscription` and its like, and look in
  what arrives for `ticketsTasks` (`pages/tasks/tasks.tsx:43`, `task.tsx:64`,
  `docflow/tasks.tsx:41`, `docflow/task.tsx:55`, `tickets.tsx:62`): a publication
  only reaches what Apollo merges by id.
* `docFlowInternalDocument` answers with a list (`docflow.service.ts:743`) where
  one document is expected: `/docflow/target` always fails, and its page goes on
  saying that it is loading (`components/docflow/target.tsx:82-88`).
* The step of a document's process is commented out at the server
  (`docflow.service.ts:990-1128`); the page still offers it and shows no error.
* The page of a document saves its file again at every rendering
  (`docflow/task.tsx:105-110`).

*The browser*

* `defaultsDeep` brings a removed favourite back (`user/user.resolver.ts:98`),
  where the page offers to remove it (`public/locales/en/tickets.json:34`).
* Saving settings fails: the person is told so, and the session keeps the change.
* Who is signed in and opens `/auth/login` without `?redirect=` is sent to
  "undefined" (`pages/_app.tsx:56`).
* An "Unauthorized" that comes late throws a person who has just signed in back
  to the login page; a wrong password comes as the same error in production
  (`auth.service.ts:103-105`) and forgets the page to return to.
* A `me` asked for after a logout may be answered after the next login, and is
  believed; lists of the person before stay in the cache when a session expires
  and somebody else signs in.  The exceptions in `WhoIsShown`.
* `relayStylePagination()` has no `keyArgs`: a further page of the phonebook is
  put into the list of another query (`phonebook.tsx:154`).  The exception in
  `ListIsOne`.
* After a click on the manager the address still names the first person; after
  an error the card keeps the name, photo and link of the person before.

## 8. What is not modelled

Not at all: e-mail login, files, news, reports, controllers, libraries (no state
of their own, or not loaded at this commit); the websocket connections, which keep
the user they were opened for (`app.module.ts:340`).

Inside modelled components: thumbnails at the server; the formats of single fields (telephone
lists, dates, names put together from parts); the renaming of fields by the
conversions, and those towards the document system, which only a mutation that
is commented out would reach; the 600 ms query cache of the
portal's database connection, except for what the profile form sees of it; `cacheReset`, whose result is always false; a
session store that fails in `request.logIn`; the text of messages and logs; the
form that edits a ticket, which is commented out; layout, drawer, font size and
the help of the phonebook.

`GroupSync` and `DirectorySync` each leave out what the other has: one the
accounts that are blocked, the other the groups and `isAdmin`, which the same
statements write.  The pages are not composed with each other, nor with the
services they call: `ProfileForm` takes a change as made or failed, `TaskPages`
a system as answering or not.

## 9. Plan

Built: `LdapImport`, `DirectorySync`, `RefreshCache`, `ProfileChange`,
`SessionUser`, `TicketCommand` with `TicketForm`, in this order because access
to the portal comes first, then what users see, then what they change; then
`GroupSync`, `SyncRpc`, `NewUser`, and the client; then the theorems about every
safety and action property, and `Access`.

Left, in order:

1. `ProfileForm` above `ProfileChange`, and `TicketCommand` with `RefreshCache`:
   the entry that an edit leaves stale, and the page that goes on showing it.
2. The conversions as a round trip (`modification` against `fromLdap`).

## 10. Running the tools

    tlc -workers 2 -config Sessions.cfg MCSessionUser.tla
    tlapm SessionUser_proofs.tla

`PROJECT.json` names the module of each configuration, and for each property a
mutant: a plausible bug in one definition that the run must find.
