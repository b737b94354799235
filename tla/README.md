# Puggies in TLA+

Specifications, model-checking configurations and machine-checked proofs for
[Puggies](../src/README.md), a self-hosted server that parses CS:GO demos it
finds in a folder, keeps statistics of the matches in PostgreSQL, and serves
them to a web client. Paths below are relative to `src/`; `be/` stands for
`backend/src/` and `fe/` for `frontend/src/`.

## 1. Inventory

### Parts, their state, and what makes them hard

| Part | State | Operations | Talks to | Hard behaviour | Correct when |
|---|---|---|---|---|---|
| Match library (`be/parse_all.go`, `server.go`, `routes_auth.go`, `storage_pg.go`) | demos folder, tables `matches` and `usermeta`, one job per goroutine | rescan, ingest, restore, delete, full delete, rename, edit of metadata | watcher (channels), handlers, scheduler, database | read–parse–write with no lock over seconds; first error ends a rescan; row, file and audit entry change one after the other; crashes | deletions last, nothing is lost, every demo is recorded |
| Folder watcher (`be/watch.go`) | map of timers, one goroutine per demo, previous event, two bounded channels | take an event, start/reset a timer, report | kernel, `watchFileChanges` | timer races, full channels, rename pairing | each burst reported once, when it is over; nothing stuck |
| Login sessions (`be/jwt.go`, `middleware.go`, `routes_auth.go`, `routes_api.go`) | client tokens, table `invalid_tokens`, clock | login, logout, check, hourly cleaning | every handler | two checks at two times, the cleaning between them | no access after logout, table does not grow for ever |
| Accounts and audit log (`be/routes_api.go`, `routes_auth.go`, `storage_pg.go`; `fe/pages/Admin/*`, `components/EditUserModal.tsx`, `EditUserForm.tsx`, `DeleteUserModal.tsx`) | tables `users`, `auditlog`, two modals | register, edit, delete, read | sessions | check-then-insert for the first administrator; names that change and are taken again; entries whose insert fails; answers that come to another modal | first account an administrator, the log names who acted, no form blocked |
| Demo parser: rounds (`be/parse.go`, `per_round_data.go`, `filter_rounds.go`) | some twenty arrays with one entry per round, flags of the live phase | an event handler per game event, crop, totals | the library | warm-up, restarts, knife rounds, rounds without an end | arrays aligned, only real rounds kept |
| Demo parser: teams and score (`be/util.go`) | map player → side, leavers | side switch, disconnect, score, names | rounds | leavers, bots, overtime | two teams, scores add up |
| Match page (`fe/pages/Match/*`) | none beyond the record it fetched | the kill feed, the list of rounds, the grids of results and of kills | the record of the match | the sides of a round worked out four times over, forwards from the start, in halves and overtimes | all four agree with the game |
| Web client: session (`fe/api/index.ts`, `stores/login.ts`, `App.tsx`, `pages/Login.tsx`, `Register.tsx`) | local storage shared by tabs, a cached token per tab, what the header greets | load, login, register, sign out, redirects | sessions | a login is two requests; a token kept while others are written to the storage; forms unmounted while they wait | a tab acts as the user it greets, as long as the token is good |
| Web client: home page (`fe/pages/Home.tsx`, `stores/matches.ts`, `components/PaginationBar.tsx`, `DeleteMatchModal.tsx`) | the store's page of matches and their number, page number, spinner, modal | fetch, turn the page, refresh, delete | matches API | two requests per fetch, answers in any order, pages turned meanwhile, a number that counts deleted matches | the list is the page the bar names, no spinner without a cause |
| Web client: metadata form (`fe/components/UpdateMetaModal.tsx`) | link, date, spinners | open, fill, edit, submit, close | `usermeta` API | answers that come when another match's form is open; no date sent as 0 and received as 1970 | a match keeps its own metadata, a save changes what was edited |
| Statistics (`be/compute.go`, `per_round_data.go`) | none | pure functions of the round arrays | rounds | zero rounds, zero deaths, short matches | agree with their definitions |

`PROJECT.json` lists the hazards of the code at their lines, with the properties
that would notice them going wrong, and why the rest have none.

### How the parts interact

```
 folder --kernel events--> watcher --fileCreated/fileRenamed--> watchFileChanges --+
 scheduler, POST /rescan ------------------------------------> doRescan -----------+-> parseIdempotent
 tabs --HTTP, token--> middleware --> handlers: restore ---------------------------+    | HasMatch
   |                      |             delete, full delete, edit --+             parseDemo
   | local storage     Sessions         users, audit log            v                | UpsertMatches
   |                                                         matches, usermeta <-----+
   +-- header, login and register form    (Client)                  |
   +-- home page, delete modal            (Home)     <-- GET /matches, /nummatches
   +-- metadata form                      (MetaForm) <-- GET, PUT /usermeta
   +-- match page                         (MatchView) <- GET /matches/:id
   +-- users page                         (Accounts)
```

The parts of the client are modules of their own because they share nothing but
the server: the home page and the form work on rows that `Library` owns, and each
of the two modules has, for the server, only the rows and columns it reads and
an action `Elsewhere` for what others do to them.

## 2. Modules

| Module | What it is |
|---|---|
| `Library`, `MCLibrary`, `LibraryProofs` | the match library: folder, tables, threads |
| `Catalog` | what the library promises: a match is absent, listed or deleted |
| `Watch`, `MCWatch`, `WatchProofs` | the folder watcher |
| `WatchQuiet` | `Watch` with a history of the time since the last event |
| `Sessions`, `MCSessions`, `SessionsProofs` | tokens, logout, the list of invalid tokens and the middleware's checks |
| `Accounts`, `MCAccounts`, `AccountsProofs` | users, their administrators' page, the audit log |
| `Rounds`, `MCRounds`, `DemoProofs` | the parser's arrays of rounds, the live phases and the crop |
| `Scores` | the score and the sides, derived from the rounds |
| `MatchView`, `MCScores`, `DemoProofs` | what the match page makes of `Scores`; instance and theorems of both |
| `Client`, `MCClient`, `ClientProofs` | the session as the tabs of a browser keep it |
| `Home`, `MCHome`, `HomeProofs` | the home page and the store of matches |
| `MetaForm`, `MCMetaForm`, `MetaFormProofs` | the form for the metadata of a match |

A module `MCx` holds the instance of `x` for TLC, and `xProofs` its theorems.
`DemoProofs` holds those of `Rounds`, `Scores` and `MatchView` together, what is made of a
demo: the variables and the formulas of `Rounds` have names of their own for that
(`allRounds` for `rounds`, `ParseSpec`, `ParseTypeOK`), as `Scores` has a list of rounds too.

The definitions marked *Deviation* in a module are plausible mistakes in the
definition they stand before. They are used by nothing; putting one in the place
of its original makes TLC find a property of that module violated, which is how
one knows that the property watches that piece of code.

### Library

*State.* `disk` is the demos folder, `rows` table `matches` (a partial function
on the primary key; columns `version`, `deleted`, and the content the statistics
were computed from), `meta` the keys of `usermeta`, `audit` the entry the last
step inserted in `auditlog`, and `proc[t]` the program counter and local
variables of thread `t`. Threads are rescans (`doRescan`, started by the
scheduler or by POST `/rescan`, any number at once), the one consumer of the
watcher's channels (`watchFileChanges`), and HTTP handlers.

*Steps.* A step is what the code does between two points where another thread
can come in. Each SQL statement is one (every one runs in a transaction of its
own, `transactionExec`), so `parseIdempotent` is three steps: `CheckMatch`
(`HasMatch` and the choice of the action), `ParseDemo` (the file is read), and
`UpsertMatch` with its audit entry. A full delete is two: `FullDeleteMatch`
(the row, and the metadata by cascade) and `RemoveFile`. A rescan holds the list
of demos `Glob` returned and goes through it in order; an error anywhere
empties it (`Fail`). A panic in the parser takes all threads down unless it is in
a handler, where gin recovers it (`ParsePanics`). `PutDemo` and `MoveDemo` are
the owner of the folder. `StorageFails` and `Crash` are the faults.

*Data.* A demo's content is one of four kinds: it is stored, the parser refuses
it, its match cannot be stored, or the parser panics on it. `FileCreated` and
`FileRenamed` may name any id: reports are old when they are taken from the
channel, and the watcher pairs events that do not belong together (`Watch`
models how). `MigratedAssumption` says that the rows an older build left are
coherent; the exception in the code (matches deleted before migration 7, whose
rows get version 1) is among the hazards.

*Refinement.* `Catalog` has no threads and no files: work for a match is begun
(never an ingest of a deleted match), may be abandoned, and publishes the match
when it is done. `ImplementsCatalog` maps a match to `absent`, `listed` or
`deleted`, and the threads that are past their check to the work pending. That an
ingest begun before a deletion may still publish is part of what is promised, for
that is what the code does (see the findings).

### Watch

*State.* The loop's `prev` and `timers`, the goroutine of each demo (`waiter`),
both channels with their capacity, the kernel's queue of events, and as history
the demos with an event that no report has followed. A timer is `armed`
until it goes off and then holds a `tick`; the goroutine receives it, sends the
report and deletes the entry in three steps. `Reset` arms the timer again and
leaves a tick where it is, as in the Go version `backend/go.mod` names.
`prev` keeps only whether the event taken last was a rename, and of which demo.

### Sessions

*State.* The clock in seconds, the accounts, the tokens clients hold, table
`invalid_tokens`, what each request is doing, and as history the tokens whose
logout was carried out. A request passes the middleware in three steps (`Verify`:
signature and expiry; `Clear` or `Refuse`: the list; `Admit`: the user), and then
its handler (`Handle` or `Logout`). A login in the second of the one before
gives the same token, because the claims are the same. In the second of a row's
expiry `IsTokenValid` may answer either way: it compares a second with a finer
clock.

### Accounts

*State.* `users` by name, the entries of `auditlog` that are followed, what each
request is doing, and the administrator's page with its one open modal. An
account has, as history, a number that stays with it when its name changes and
tells it from one that takes its name later.

*Steps.* The handlers are split where the code has separate transactions: a
registration counts the users (`Count`), inserts (`Insert`) and writes its entry
(`WriteEntry`); edits and deletions are admitted by the middleware under the name
the account has then (`Admit`, `Ask`), change the table (`Update`, `Delete`), and
write their entry under that name. The foreign key of `auditlog` acts with the
change (`Renamed`: ON UPDATE CASCADE, ON DELETE SET NULL). `WriteEntry` may leave no
entry: two of one millisecond share a key, and an unknown name breaks the foreign
key; the error is ignored. `Disconnect` is a request that breaks off for the page
and goes on in the server.

*Data.* Of an account the name and the role `admin` are kept. The token of the
page's administrator is made out to a name, `Me`, as in the code, so an
administrator who renames or deletes the own account is refused from then on.

### Client

*State.* The server's accounts and tokens (who owns a token, which are dead); the
local storage of the browser, one for all tabs; of each tab the page, the token
its `DataAPI` object has cached, the login store (`loggedIn`, `user`) and the request
the mounted form waits for; and the requests under way with what they carry.

*Steps.* One action per handler, effect or continuation of a promise. A login is
`Submit`, the server's answer, `ReceiveToken` (the token is stored, and `userinfo`
asked with whatever token the tab caches), the server's second answer, and
`ReceiveWelcome`, which counts as a login whatever `userinfo` says. The redirects of
`Home` and `Login` are effects that run when page or store change, so they are part of
every action that changes those (`Settled`, `Moved`). A form that is left is unmounted also
when the page it was left for leads straight back to it. `Load` is a reload, which drops
the cache and abandons the requests; what these may still change on the server they
do. `Fail` is a lost request, a lost answer, or a 500.

### Home

*State.* On the server the matches that are listed, those marked deleted, and their
dates; the store (a page of matches, the number of all), which outlives the page; the
mounted page (`home`); refreshes, with the number and the list as two requests of their
own; the requests of the modal's button, which is not blocked and may be pressed again.
History: `newest`, the request for the list made last, until it is over; `clean`,
whether nothing has put the list out of step since that request was made; `failed`,
whether a request has failed since the spinner was started.

*Steps.* A fetch sends both requests at once, whatever others are under way, and their
answers come in any order (`ReceiveNum`, `ReceiveList`); the one that comes second stops
the spinner (`Promise.all`). Whatever answer comes is put into the store, also when
the page that asked is left or turned. A deletion fetches the list alone, of the page
that was shown when the button was pressed. `Elsewhere` is any change a rescan or
another client makes, to the dates too.

*Data.* A date is a number and may be that of several matches: one that comes from a
demo's name is a whole day (`be/util.go:225`), and `getMatches` sorts by the date alone
(`be/storage_pg.go:214`). `PagesOf` is therefore a set: every page the query may return
when matches of one date come in any order, another one each time.

*What is claimed.* `ListIsThePage`: with the newest request for the list answered and no
deletion waiting for its answer, the store holds a page the server might return for the
one the bar names. The causes that put it out of step are named at `Fetch`: a change on
the server after the list was looked up, the answer lost, a sign-out, the answer of an
earlier request that comes in after the newest, and a deletion that fetches the page
of the moment it was asked for. An earlier answer that comes before the newest does no harm,
and each of these is made good by the next fetch.

### MetaForm

*State.* Table `usermeta`; the form with its link, its date (not there, some of its
parts, 1970, a whole date) and its two spinners; requests to load and to save. A link or a
date is the match it was entered for, so "another match's link" can be told. History:
which fields the user edited, what answer filled the form, and `crossed`: an answer
was put into a form that had not asked for it.

*Steps.* `Open` is the modal's effect with its resets and its request, `ReceiveLoad` the
continuation (nothing ties it to the opening that asked), `Submit` sends both fields,
`ServeSave` writes both columns or removes the row, `ReceiveSave` closes whatever form is open.

*What is claimed.* The form does mix up matches, when an answer is late and another
match's form is open by then; `MetaIsTheMatchs` and `EditKeepsTheRest` say that this is
the only way: until the first such answer, however often forms are opened, saved and
closed over each other's requests, nothing goes to the wrong match or is lost.

### Rounds

*State.* Of the twenty arrays of `PerRoundData` four are kept: `kills` (for all
that count something), `rounds` (here `allRounds`), `winners`, `isLive`; with the variables of
`parseDemo` that outlive an event (`live`, `starts`, `planter`). Each entry
carries the number of the round it was made for, which the code does not have:
it is what alignment is stated with. `heard` is history, the MatchStart events by
the end of each round. An action is one event handler; the parser library calls
them one at a time and the model in any order, so every demo is among the
behaviours, and so are orders no game produces. `EndOfDemo` is the crop, or one of
the two panics on the way to it.

*Properties.* `KeptRoundsAreReal` compares the flags with the MatchStart events heard
(every one in Valve's demos, every fourth in ESEA's), and says that each is kept once, in
order, and was played to its end; `NoPlayedRoundLost` says what the
search for three quiet rounds may drop.

### Scores

A match of two teams is played by rules that are external to the repository
(sides change at half-time and in overtimes); the demo only tells the side that won
each round. `getScore`, the guess whether a match is short, `computeStartSides`
and the scores of `computeRoundByRound` are operators over these sides, and the
properties compare them with what was played. The guess is known to be wrong for
one kind of finished match, a short one in which one side wins every round but the
sixteenth (`LooksShutOut`), and for long matches given up early, which are not
among the behaviours.

### MatchView

The match page derives the sides of a round four times: `playerColor` in the kill feed
(`PlayerSide`, forwards from the side a player started on), the list of rounds (from
`roundByRound`), the grid of results (`ResultSections`) and the grid of a player's kills
(`KillSections`). They are operators over the record `Scores` derives, and the properties
compare all four with the game. The grids' rows and scores are modelled by the set of
rounds of each section; their drawing is not.

## 3. Runs

| Run | Bounds | What it shows |
|---|---|---|
| `library` | 2 ids, 1 content, a rescan, the consumer, a handler, 1 fault | the invariants, the action properties and the refinement |
| `library_live` | 2 ids, 3 kinds of demo, a rescan, the consumer, 1 fault | jobs end; a folder of good demos gets recorded |
| `library_revive` | a rescan and a handler, no fault | *violated*: a deleted match comes back without a restore |
| `sessions` | 2 users, 2 requests, 2 tokens, 5 seconds, sessions of 1, grace of 2 | no access after logout; rows are removed in the end, and none while its token could be let in |
| `accounts` | 2 names, 3 accounts, 2 requests, 1 entry followed | the log names who acted, the first account is an administrator, no form stays blocked |
| `watch` | 2 demos, delay 2, channels of 1, 2 events pending | nobody waits for ever, reports have their event, all gets reported |
| `watch_quiet` | the same | *violated*: a report while the demo is being written |
| `rounds` | 3 rounds in demos with live phases, 5 in others, 5 MatchStart events, kills 0 or 1 | alignment and the crop |
| `scores` | halves of 3 and 2 rounds, 16 rounds | score, feed, list and grids of every course of a match |
| `client` | 2 users, 2 tokens, 2 tabs, 2 requests, private matches | tabs act as the user they greet; sessions end with their token |
| `home` | 2 matches, 2 dates, 1 on a page, 2 refreshes, 2 deletions, 1 change elsewhere | the list is the page the bar names, over requests that overlap; the spinner has a cause |
| `meta_form` | 2 matches, 2 loads, 2 saves | metadata stays with its match, saves keep what was not edited |

*Why the bounds are enough.*

- `library`: two ids are what a rename, the order of a rescan and a demo after a
  failing one need; every race is between one thread that is past its check and one
  that changes the row, and the three threads are of the three kinds there are.
- `sessions`: the grace is one second more than the latency, the smallest difference
  there is, and the clock passes the expiry of the row and the cleaning of it.
- `accounts`: two names are a rename, a name taken again, and a conflict; three
  accounts let one be replaced twice; two requests are one that is past its admission
  and one that changes the account under it. No entry depends on another,
  except that one may be lost to it, which is allowed of any, so one is followed.
- `watch`: a channel of one is full after one message, and two pending events are a rename.
- `rounds`: five MatchStart events are a whole cycle of ESEA's four and the begin of the
  next, and five rounds hold two different triples of quiet rounds with a round after them.
- `scores`: the halves keep the two relations of the real ones, 15 and 8, that the code
  depends on: a long match is won with as many rounds as a short one has (16), and a
  long half is a multiple of three. 16 rounds are the match, one whole overtime, and the shortest end of a second.
- `client`: with two tabs one can log in, log out, or lose its account while the other
  waits; two requests are two tabs waiting at once; the second token is that of the
  login after a logout, or of the other user. `Private` is TRUE because it adds
  the redirect away from the home page; the proofs cover both.
- `home`: a page of one and two matches are two pages; two refreshes are an old
  answer and a new one, of the same page or of two, in either order; one change elsewhere
  is each kind of it. The constraint `Dated` leaves out dates that differ only in name, and
  lets the two become equal by a change. Two deletions are the button pressed again, or two
  matches. The constraint `Overlaps` keeps out of the run what overlaps all at once: two
  refreshes and a deletion, or a refresh and two deletions, come with no change elsewhere.
  The proofs have no such bounds.
- `meta_form`: two matches, and two requests of each kind, are a form opened over
  another's requests. The constraint `NotCrossed` cuts the states after the first
  crossed answer: both properties are about the time before it.

`MaxFaults`, `MaxTime`, `MaxTokens`, `MaxEvents`, `MaxRoundStarts`, `MaxRounds`, `MaxStarts`, `MaxIds`,
`MaxEntries`, `Changes`, and the sets of requests, refreshes, deletions and tokens bound what the code does not
bound; `MaxLatency` is an assumption (a lookup in the list of invalid tokens is answered
within the grace of 5 seconds).

*Fairness.* `Library`: every thread goes on (the Go runtime), a rescan is started
again and again (the scheduler runs it at start and at each interval). Nothing is
assumed of users, watcher and faults. `Sessions`: the cleaning job runs. `Watch`:
time passes, and the loop, each goroutine and the consumer go on when they can.
Of the client, and of `Accounts`, only safety is claimed: a request may never be
answered, and the browser has no time-out of its own.

### Findings

1. *A deletion can be undone by an ingest that was already under way*
   (`be/parse_all.go:30–56`): the row is checked before the demo is parsed
   and overwritten after it (`library_revive`). `DeletedStaysDeleted` states, and
   proves, what is left: once such ingests are over, the deletion lasts.
2. *A demo may be reported while it is still being written* (`be/watch.go:75`),
   when the timer is reset after it has gone off (`watch_quiet`).

The models also have these behaviours, which no run singles out. The properties
are stated so that they hold in spite of them.

- Deleting a match keeps its metadata, although the dialogue says otherwise
  (`fe/components/DeleteMatchModal.tsx:58`).
- One demo that cannot be stored keeps rescans from all those sorted after it
  (`be/parse_all.go:86`); a recording that stops in a live round makes the parser
  panic (`be/filter_rounds.go:69`).
- Two first registrations that overlap both make an administrator; administrators who
  rename or delete the own account lose their access; an entry written after its account
  lost its name may be taken for another's.
- A login while the tab caches a spent token shows nobody, and its Login link leads
  back home, until the page is loaded again (`fe/stores/login.ts:42`).
- The metadata form fills itself with the answer of another match and saves it
  (`fe/components/UpdateMetaModal.tsx:115`). A save before the answer erases what is
  stored; a failed load leaves the field of the link disabled, and an error that is no
  404 reads as "nothing stored". Part of a date is dropped and the save reported as a
  success. The success of an older save closes a newer form.
- Whatever answer for the list comes in last is kept, under the page the bar names by
  then: after a page is turned, a late answer of the one before stays on the screen
  (`fe/stores/matches.ts:36`, `fe/pages/Home.tsx:234`). A deletion that is answered after the
  page is turned fetches the page of before (`fe/pages/Home.tsx`, the modal's `offset`).
  A second press of the button sends a second request.
- Pages need not part the list: matches of one day have one date, nothing else
  orders them (`be/storage_pg.go:214`), and two pages may both have a match and miss another.
- The number of matches counts those marked deleted and the list does not
  (`be/storage_pg.go:532`), so the bar leads to pages beyond the last match. Such a page says "No
  matches" (`fe/pages/Home.tsx:286`) and has no bar that leads back.
- A failed refresh leaves the spinner on and the button disabled (`fe/pages/Home.tsx:236`).
  The success of a deletion closes whatever modal is open by then. Signing out on the
  home page leaves it empty.
- A round of a live mode that nobody won is kept, without the panic, when a player
  left whom no teammate gives a team: its team is "", as is the winner, and the list of winners
  is not nil (`be/parse.go:294–305`, `:334–341`, `be/util.go:325`).
- The length of a match is guessed wrong for a short one in which one side wins every
  round but the last (`LooksShutOut`).
- Claims are whole seconds: a login in the second of the one before gets the same token,
  and one logout ends both (`be/jwt.go:40`).

## 4. Proofs

The assumptions are those named in the modules. Each state invariant is proved from an
inductive one, `IInv`, in the module of the proofs.

| Module | Proved, for every value of the constants | What `IInv` adds, and why |
|---|---|---|
| `LibraryProofs` | `TypeOK`, `RowsCoherent`, `DeletedStaysDeleted`, `GoneStaysGone`, `NothingLost`, `ImplementsCatalog`; that metadata never outlives its match, and that only a thread asked to restore does; and of jobs `JobsAdvance`, `NeverStuck` and `CrossedOffIsRecorded` | `StoreHasDemo`: a thread that is about to store has parsed a demo, or an empty match could be put in the table; for the jobs `JobsFormed`: a thread has a list just while it is busy, and stores only what can be stored or refused |
| `SessionsProofs` | `TypeOK`, `NoAccessAfterLogout`, `ListCoversLoggedOut` | the expiry of each row, the age of a verified request, and that a logged-out token is listed as long as a request that brought it could still be looking it up |
| `AccountsProofs` | `TypeOK`, `LogNamesActors`, `FirstIsAdmin`, `LoadingHasCause` | numbers given out so far (`Numbered`), what a request has been told (`RequestFormed`), each entry by itself (`EntryRight`), and the requests that counted no users (`Early`) |
| `WatchProofs` | `TypeOK`, `NoWaiterLeft`, `ReportsAreDue`; `EventsLeadToReports`: every event of a demo is followed by a report, but one that resets an entry which is about to be deleted | nothing: the three are inductive together |
| `ClientProofs` | `TypeOK`, `ShownUserIsTokens`, `StuckOnlyWhenSpent`, `SessionEnds`, `FormsWaitForSomething` | what holds of a request (`RequestCoherent`): while its page lives it carries the token the page caches, and an answer tells what the server knows of that token. For the forms, that one that waits is still mounted (`WaitersMounted`) |
| `HomeProofs` | `TypeOK`, `ListIsThePage`, `SpinnerHasCause` | `Settled`: of the requests for the list only the newest counts; while the store is clean it asks for the page the bar names, its answer is that page, and with it over the store has the page, whatever earlier requests are still on their way; `WholeRefresh`: the spinner's cause has lost neither of its requests |
| `MetaFormProofs` | `TypeOK`, `MetaIsTheMatchs`, `EditKeepsTheRest` | until an answer crosses, form, loads and saves belong to their matches (`Coherent`), and one load at most is of the present opening |
| `DemoProofs`, of `Rounds` | `ParseTypeOK`, `Aligned`, `BombInItsRound`, `KeptRoundsAreReal`, `NoPlayedRoundLost` | `ParseSound`: while the demo is parsed the arrays are of one length and `planter` names the present round or none (`Building`), and in a live mode the flags, `live` and `starts` are what the MatchStart events come to (`LiveAsHeard`), which the crop then goes by |
| `DemoProofs`, of `Scores`, `MatchView` | `TypeOK`, `FinalScoreRight`, `FeedRight`, `GridsRight`; `getScore` swaps sides just where the game does; `playerColor` and the grid of kills give every player the side he was on | `Sound`: the sides on record are those of the winners (`RecordedRight`), a short match has no overtime (`AllPlayable`), and both teams together won as many rounds as there were, neither more than its target and, in overtime, neither less than the level the sets start at (`Balanced`), or the guess of the length and the end of a set could not be told from the score |

*Layout.* The preservation of an invariant is proved action by action; what only
changes one part of the state is cut off first by a lemma (in `LibraryProofs` threads, rows and
tables; in `WatchProofs` waiting and queues; in `AccountsProofs` tables, page and
requests), so that a leaf sees few definitions. `SessionEnds`, `EditKeepsTheRest` and the
action properties of `Library` follow from the invariant and the definitions of the steps.

*Induction.* The provers cannot instantiate an induction theorem over operators, so what
needs induction is proved without one. `NatLeast` and `Counting` state it over sets of
numbers: for a property P, over the set of the numbers that have it. They rest on the
least element of a well-founded relation (`WFMin`) over the subsets of an interval. A
recursive function gets a closed form that satisfies its equations and a lemma that two
functions that satisfy them are equal (`LoopUnique`, `SumUnique`, `FiltersUnique`): the
CHOOSE that stands for the recursive function is then the closed form. In this way
`getScore`'s loop is shown to count the rounds won (`LoopRuns`, `ScoreIsWins`), the
sections' sum to be the score (`SumIsCount`, `RowsRight`), and the fold of
`FilterByLiveRounds` to return just the entries of live rounds in their order, with the
i-th of a finite set of numbers (`Nth`) as its closed form (`FilterSelects`).

*Refinement.* `LibraryImplementsCatalog` shows that every step of `Library` maps to a step of
`Catalog`. The threads are followed by what they may begin and end (`NoneBegun`,
`NoneEnds`): a thread that passes its check is `Begin`, one that stores is `Publish`, all else a
thread does is `Abandon`; the rows change as `Delete`, `Drop` and `Move` say. That an ingest is
never begun for a deleted match rests on `RowsCoherent`: the check goes by the version.

*Jobs.* What `EveryJobEnds` and `GoodFolderRecorded` say is liveness, but what they rest on is
proved. Every step of a job leaves it less to do and nothing ever leaves it more
(`JobsComeNearer`), for its list of demos gets shorter, or stays and its first demo comes a
step further; a job under way has a next step, whatever became of row and file
(`JobsAreNeverStuck`); and a rescan passes on from a demo only when it is recorded
(`RescansLeaveNothing`). Of a finite folder, what is left to the runs is the step from there
to "in the end", which takes fairness. These three are stated in `LibraryProofs`, of any number of
matches and threads.

*Model-checked only.*

- Liveness (`GoodFolderRecorded`, `EveryJobEnds`, `RowsAreRemoved`,
  `EverythingReported`), which the prover does not reach. Of `RowsAreRemoved` the safe
  counterpart, that no row goes while its token could still be let in (`ListCoversLoggedOut`),
  is proved, and of `EverythingReported` what no
  fairness gives, that a report once due stays due until it is sent (`EventsAreReported`).
- That `OnlyRestoreUndeletes` and `SentWhenQuiet` are violated: two runs show it.

Every other property of the runs is a theorem. The theorems of `Scores` and `MatchView`
need what its assumption says of the halves, a long one divisible by three and one less
than twice a short one, and no bound on the number of rounds.

*To be proved.* What holds between components: that the tokens `Client` sends are
those `Sessions` admits, and that what `Watch` reports is what `Library` may be told.

## 5. Not modelled

- What the parser counts within a round (opening kills, trades, head-to-head) and the
  statistics made of it, mostly floating-point formulas without state; the tables of
  the match page, which sort and show these numbers.
- The roster: players who leave, come back or change sides, the names of teams, and
  the prefixes stripped from names, which work on strings character by character.
  `Scores` takes the sides as the game has them.
- The page of deleted matches: a list that is fetched and two requests that change a match,
  which are in `Library`. The one fetch of the match page; the links and the clipboard of
  a row.
- Heatmaps (`be/heatmap.go`, called by nothing), configuration, logging and command
  line (read once), password hashing (a library call), static routes, the migration tool
  (the constraints of the schema are in the modules), and the rendering of components.
- `Watch` and `Library` are not composed: `FileCreated` and `FileRenamed` of `Library`
  name any id, which is more than the watcher can report. The unsynchronised map of timers
  is taken to be accessed atomically.
