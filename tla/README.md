# A verification of the Learning Garden server

The Learning Garden server is a Go HTTP API for a learning community: accounts
and sessions, items of content that their owners publish or hide, relations
between items, and public pages put together from both. This directory holds
TLA+ models of it, the TLC configurations that check them, and theorems about
them that TLAPS proves. Paths below are relative to
`src/services/api/internal/` unless they say otherwise.

## 1. The system

### Components, their state and their operations

| Component | Code | State | Operations |
| --- | --- | --- | --- |
| content rules | `content/service.go`, `content/types.go` | none | `canView`, `validateItem`, `normalizeSlug`, what a body makes of an item |
| content stores | `contentrepo/postgres_content.go`, `content/store_memory.go`, `db/migrations/0002_content.sql` | items, soft-deletion marks, relations | `Create`, `Replace`, `Delete`, `FindByID`, `List`, `AddRelation`, `Backlinks`, `GraphFromItems` |
| content service, writes | `content/service.go`, `httpapi/content_handlers.go` | one goroutine per request, holding the row it read | `Create`, `Update`, `Delete`, `AddRelation` |
| content service, reads | the same files | one goroutine per request, holding half a page | get, list, feed, graph, backlinks, profile, portfolio |
| auth service | `auth/service.go`, `auth/token.go`, `httpapi/router.go` | one goroutine per request | register, login, refresh, logout, me |
| auth stores | `authrepo/*.go`, `auth/store_memory.go`, `db/migrations/0001_users.sql` | accounts (Postgres), refresh sessions with a time to live (Redis) | `CreateUser`, `FindByEmail`, `FindByHandle`, `FindByID`; `Save`, `Find`, `Revoke` |
| error mapping | `httpapi/app_error.go` | none | which status a store's error becomes |
| router and middleware | `httpapi/router.go`, `httpapi/observability.go`, `httpapi/metrics.go` | the deadline of a request, the recorded status, counters, the gauge of requests in flight | deadline, recovery, access log, metrics |
| server lifecycle | `../cmd/server/main.go` | the pools of Postgres and Redis, the HTTP server, the channel `serverErr` | start, signal, listen, `Shutdown`, `Close` |
| migration runner | `../cmd/migrate/main.go` | `schema_migrations` | apply each missing file in a transaction |

Goroutines share nothing but the stores. A write handler makes up to three store
calls (`FindByID` of the source, `FindByID` of the target, the write), a page up
to three (`List` for statistics, `List` for the items, `GraphFromItems`), a
refresh one to Redis and one to Postgres. There is no transaction around them:
**what was read before a call may be stale after it.** Each call runs under the
request's context, whose deadline `requestTimeoutMiddleware` sets; it can fail
without effect, and it can fail after it took effect.

### What is hard here, and what correctness means

* **Writes.** The owner is compared in one statement and the row written in
  another that names only the id. No handler looks for a slug before it writes.
  Deletes are soft in Postgres and hard in memory. Correct means: keys stay
  unique; nothing is shared with a visibility that its owner never named for it, and
  nothing lost or related without somebody entitled asking for it; a deleted item
  never comes back; an answer tells the truth.
* **Pages.** Nodes and edges, statistics and items come from different
  snapshots. Correct means: whatever is shown was visible, exactly so, at one
  instant of the request, and the parts of a page fit together.
* **Sessions.** A refresh reads Redis, the clock and Postgres at three instants;
  revocation is read-modify-write; Redis forgets keys in its own time. Correct
  means: accounts are unique, a credential that was no good on arrival is never
  honoured, a session ends once and for ever, and an access token outlives it, be
  it expired or revoked, by a bounded time only.
* **Lists.** `updated_at` is read from a clock before the statement that stores
  it, two layers correct the limit, and the feed sorts a page again by another
  key. Correct means: recent items come first as far as a deadline lets one tell,
  feed and list agree, and who asks for more never gets less.
* **Requests.** Clients, Postgres and Redis may fall silent; handlers may panic;
  the pool has an end. Correct means: every request ends, gives its connection
  back, and is counted once under the status its client was sent.
* **The process.** A signal, a failing listener, running requests and a deadline
  meet in `main`. Correct means: a signal ends it cleanly and in bounded time, and
  no handler loses its stores.
* **Migrations.** Anybody may start the command, twice at once, and it may die at
  any statement. Correct means: `schema_migrations` never lies.

The list of hazards, each at its line and with the properties that would catch
it, is in `PROJECT.json`.

## 2. The modules

| Module | Models | Extends |
| --- | --- | --- |
| `ContentRules` | items, bodies, validation, visibility: pure operators | |
| `ContentStore` | both implementations of `content.Store`, one operator per call | `ContentRules` |
| `ContentService` | the write handlers as processes over a store | `ContentStore` |
| `ContentReads` | the read handlers beside the write handlers | `ContentService` |
| `ContentLedger` | abstract: a garden of live items and links, four atomic operations | `ContentRules` |
| `ContentListing` | times, order and limits of lists: racing writers, late statements | |
| `TextRules` | `normalizeSlug`, `normalizeRelationType` on every short text | |
| `AuthSessions` | auth handlers over Postgres and Redis, or over the memory stores; clock, operator | |
| `AccessPolicy` | abstract: leases that begin and end once, access tokens given on a decision | |
| `RequestLifecycle` | what surrounds a handler: net/http's timeouts, middleware, pool, deadline | |
| `ServerLifecycle` | `main` of the server around those requests | `RequestLifecycle` |
| `Migrate` | the migration runner, racing and crashing | |
| `SchemaHistory` | abstract: migrations take effect one by one in order | |
| `ContentServiceProofs`, `ContentLedgerProofs`, `ContentReadsProofs`, `ListingProofs`, `TextProofs`, `AuthProofs`, `ServerProofs`, `MigrateProofs` | theorems | the module each is about, `TLAPS` |
| `MCContent`, `MCReads`, `MCAuth`, `MCListing`, `MCServer`, `MCMigrate` | small instances for TLC | |

### Content

`items`, `deleted` and `relations` are the tables. Postgres keeps a deleted row
and marks it; `MemoryStore` drops it, and `deleted` stays empty. `Backend` says
which store the service was built with, and `StoreCreate`, `StoreReplace` and so
on choose between the `Pg...` and `Mem...` operators. A store operator is an
action on the tables and tells in its parameter `err` what it reports. One SQL
statement, or one critical section of the mutex, is one step.

In `ContentService` each process is a handler goroutine: `pc` is the store call
it is about to make, `call` its request, `draft` the item `Update` carries from
its read to its write, `resp` its answer. The steps of the code between two
store calls belong to the step of the call before them:

| Code | Actions |
| --- | --- |
| `Service.Create` | `Begin`, `Create` |
| `Service.Update` | `Begin`, `Rejected` or `FindForUpdate`, `Replace` |
| `Service.Delete` | `Begin`, `Rejected` or `FindForDelete`, `Delete` |
| `Service.AddRelation` | `Begin`, `Rejected` or `FindForRelate`, `FindTarget`, `AddRelation` |
| a failing store call | `StoreFault` (without effect), `Seen` (after the effect) |

Two ghost variables serve the properties and are read by no guard but the one
that picks unused ids: `asked` notes what owners of items asked for (to share
with a certain visibility, or to delete), `hist` how each item was ever stored
live. `Ids` bounds the items of one behaviour: `newID` is an unused member, and
no more creates begin than ids are left.

`ContentReads` adds readers with `rpc`, `query`, the `reply` as far as it is put
together, and a ghost `window` of everything that was live at some instant of
the query. A list without its `ORDER BY` is any choice of as many matching items
as the limit allows (`Pages`).

### Sessions

In `AuthSessions`, `users` is the table, `sessions` the keys of Redis, `clock`
what `now()` reads. A session is `Expired` once Redis has dropped its key, which
it may do at any time after the expiry: `Refresh` has a check of its own for the
time between. `newSession` reads the clock twice before its session is saved, and
other requests, the operator and the clock may come between: `Sign` (the expiry of
the access token), `Date` (that of the session, service.go:191) and `Save` are three
steps. A session may therefore be nearly over, or over, when Redis sets it; `Save`
and `Revoke` of `RedisRefreshStore` give up when no time is left as they look
(`TooLate`), which is again some time before Redis does. `Tick` lets time pass only as
far as every running request's deadline. `Suspend` and `Remove` are the operator's writes to `status` and
`deleted_at`, which no code of this repository makes. The ghost `granted` holds
the access tokens clients were given with the expiry of the session behind each,
`barred` the requests whose credential was refusable when they arrived. The ghosts
`ends` and `last` keep for each session when it ends, which a revocation brings
forward, and when the latest access token that was given under it runs out.

`Backend` chooses between Postgres with Redis and the memory stores. The latter
cannot fail, forget nothing (`Evict` needs a durable backend), and revoke in one
step (`MemRevoke`, one critical section of `MemoryRefreshStore.Revoke`) where
Redis takes a `GET` and a `SET` (`FindForLogout`, `Revoke`).

`AccessPolicy` says the same without stores, keys and calls. A refresh token is
`Nothing`, a running lease or `Expired`, in this order and never back; a process
takes a decision (an errand: to open a lease for an account, or to renew under a
lease) in a state that justifies it, and may act on it, once, up to a deadline. To
open a lease takes three acts: the access token is dated (`Sign`), then the lease
(`Date`), each at the instant of its act, and then the lease begins (`Open`), or is
over already. The
mapping reads all of it off the state of `AuthSessions`, no ghost but `granted`
involved: a lease runs while its session is `Usable`, an errand stands while a
handler is in `newSession` or before the second call of a refresh, and every other
step of the code - a failure, an eviction, a revocation that comes second, the two
halves of a logout - is one of `Forget`, `Revoke`, or none at all.

### Lists and texts

`ContentListing` keeps of a row only its stamp. `Prepare` reads the clock, `Write`
executes the statement, at any time up to the deadline; `GiveUp` is a handler that
answers without knowing what became of its statement, which joins `orphans` and is
executed later or never (`Orphaned`). The ghosts `committed` and `prompt` say when
a row was last written, and whether its writer was then still waiting. The second
half of the module is pure: `List`, `limitQuery`, `feedLimit` and
`feedRowsForItems` yield the set of pages that ties and their order allow.

`TextRules` is a generator of texts and the two functions, character by
character, a character standing for its class. `ContentRules` takes the outcome of
`normalizeSlug` as a constant function `SlugOf`; `TextRules` checks what is assumed
of it: the outcome is a slug, is blank, or is white space (`White`). `SlugIsStable`
says exactly which slugs stay when a client sends them back: those without white
space at their ends, which those of all texts without a tab are.

### Requests, the server

In `RequestLifecycle` each `h` is the goroutine of a client connection. `Route`
lists for each route the calls that wait for something (`"body"`, a statement of
Postgres, a command of Redis), `todo` those still to make. `age` and `lag` measure
what net/http and `requestTimeoutMiddleware` measure: the time since the request
began to be read, and how much of it the header took. `Acquire`, `Result`,
`Interrupt` and `Destroyed` are pgxpool and pgx as the repositories use them: a
statement whose context ends takes its connection with it. `status` is
`statusRecorder.status`, `sent` what the client got, `sample` what was counted.
Time passes (`Tick`) only when nothing is `Due`. Computing takes no time: next to
the seconds of the timeouts a handler is always waiting for something.

`ServerLifecycle` adds `main`: `main` walks through the function, `listener` and
`serverErr` are the other goroutine and its channel, `signalled` the context of
`signal.NotifyContext`, `drain` the time since `Shutdown` was called. The deferred
calls are `CloseRedis`, `CloseDb` and `Exit`, in the reverse order of the `defer`
statements; `log.Fatalf` skips them. `Listens` is the instant from which connections
are taken; `ListenFails` may come before it or after, and also just after `Shutdown`
was called, which `ListenAndServe` may not have seen yet. Whatever still runs when the process ends
ends with it. `Server.Shutdown` and `Pool.Close` are modelled by what their
documentation promises; that net/http may close an idle connection whose request
has just arrived is left out.

### Migrations

In `Migrate` each runner is a process, each statement a step, but for `CREATE TABLE
IF NOT EXISTS`: it looks for the table (`LookForTable`) before it creates it
(`CreateTable`), and fails if another runner has created it in between. `txn` is the
runner's transaction as the server sees it: it stays open when the runner dies,
until `Abandon`. An `INSERT` of a version waits for another open transaction that
has inserted it (`RowIsOpen`), which is what a unique index does. What a file does
is abstracted to the ghost `applied`, the number of times it took effect, and the
SQL is allowed to succeed a second time, as `IF NOT EXISTS` does. That a second runner
of one file may already wait in its SQL, on the catalog locks of the first, is not
modelled: such a wait only takes interleavings away, and the one that is waited for
goes on, fails or is abandoned exactly as the one whose row `RowIsOpen` waits for.

## 3. What the runs check

| Run | Shows | Instance |
| --- | --- | --- |
| `edits` | `UniqueKeys`, `NeverSharedUnasked`, `NothingLostUnasked`, `DeletedIsFinal`, `OwnerOnly`, `AnswersAreTruthful` on Postgres | 2 users, 2 ids, 2 handlers, 18 requests |
| `links` | `LinksJustified`, the inductive invariant `IInv`, `ImplementsLedger` on Postgres | 2 users, 2 ids, 2 handlers, 15 requests |
| `memory` | `ImplementsLedger` on `MemoryStore` | the same |
| `answers` | `Answered`: every request ends | 1 user, 2 ids, 2 handlers |
| `reads` | `ShownWasVisible`, `EdgesAreAnchored`, `StatsMatchPage` | 1 writer, 1 reader, 2 ids, 10 queries |
| `auth` | `UniqueAccounts`, `AccessBounded`, `BarredNeverServed`, `ImplementsPolicy` | 2 handlers, 2 accounts, 1 session, clock 0 to 2 |
| `auth_memory` | `LogoutRevokes` on the memory stores | 2 handlers, 2 accounts, 2 sessions, clock 0 to 3 |
| `logout` | a violation: `LogoutRevokes` on Redis | 2 handlers, 2 accounts, 1 session, clock 0 to 3 |
| `listing` | `NewerFirst`, `FeedFollowsList`, `MoreIsNeverLess` | 2 writers, 2 items, clock 0 to 3, 1 late statement, limits from -1 to 3 and a malformed one |
| `texts` | `SlugsHaveLetters`, `SlugIsStable`, `RelationTypeIsStable` | every text of up to 6 of 7 characters |
| `server` | `OneConnEach`, `GaugeIsTrue`, `CountedAsSent`, `AnsweredInTime`, `StoresOutliveHandlers`, `SignalEndsCleanly`, `RequestsEnd`, `SignalStops` | 2 handlers, 1 connection, 5 routes |
| `migrate` | `TableTellsTruth`, `DoneMeansAll`, `WaitsCanEnd`, `RaceLeavesOne`, `ImplementsHistory`, `RunsEnd`, `RaceCompletes` | 3 runners, 3 files, 3 faults |

**Bounds.** Two handlers are what a race needs: each property relates one
process's reads to somebody else's writes, and a process that is done may begin
again, so that two processes serve any number of requests one after another. Two
ids are a key collision, a relation and a second item to delete; the ids are not
reused, so two also bound the items that a behaviour creates. The requests are
chosen so that they meet: several spellings of one slug, a title of separators
only, an unknown visibility, an id that is no uuid, edits that hide, publish and
rename, and another user's attempts. In `auth` an access
token, a session and a request last 1 tick each, and time ends at 2: a session
expires, a delayed refresh straddles that instant, and a session that is saved late
is over by then. In `auth_memory` and `logout` a session lasts 2 ticks and time ends
at 3.

In `listing` the deadline is 1 and time ends at 3: room for two writes more than a
deadline apart, with a third one late. The real limits, 20 by default and 100 at
most, are 1 and 2, and two items are as many as the largest limit; the limits that
clients ask for lie below, at and above both. `RecentLimit` (8 in the code) is 1.
In `server` the timeouts keep their order and not their size: header 1 (2 s), read 2
(5 s), request 1 (3 s), write 3 (10 s), shutdown 3, just more
than a handler can take before it writes (10 s). The one connection of the pool (40) is what makes two handlers
wait for each other; the five routes have no call, Redis alone, Redis and a
statement, statements alone, and a body between statements. `Horizon` bounds `age`
and is reached only by a request that some timeout fails to end. In `migrate`
`MaxFaults` bounds the failing statements, lost answers and crashes of a behaviour;
starts are not bounded. Time, `MaxTime`, and late statements, `MaxOrphans`, are
bounded in `ContentListing` and `AuthSessions` as their modules say. `server`
switches the deadlock check off because the process ends. `answers` keeps `resp` and all processes
apart (no symmetry, no view); the other runs view states without `resp`, which no
guard reads (`auth_memory`, whose property is about neither, leaves out `last` and
`ends` as well). Answers are checked by an action property, that is on every step.
The type invariants are conjuncts of the invariants that are proved; of them only
`TypeOK` is in a run, as a part of `IInv`.

**Fairness.** `FairSpec` asks for weak fairness of each process's `Advance`: a
goroutine that serves a request keeps being scheduled, and a store call returns,
at the latest when the deadline of the request's context ends it, which is what
`StoreFault` stands for. No fairness is asked of clients, who need not send
anything, nor of any particular outcome of a call.

`FairServerSpec` asks for weak fairness of the process alone: `main` goes on, the
listening goroutine returns once it was told to, time passes, and what is due
happens (`Deadline`, the timers of net/http and of contexts), as does the
destruction of closed connections. Clients and stores need never answer: that
requests end and signals stop the process rests on timeouts only.
`FairMigrateSpec` asks that a runner which can go on does, and that Postgres
notices a lost connection (`Abandon`), without which a dead runner's row would
block the others; nobody has to start a runner.

**Findings.** README.md:218 says that `POST /auth/logout` "Revokes refresh
token". The handler (`httpapi/router.go:133`) drops the error of the revocation
and answers 204 all the same; the run `logout` shows one failed Redis call after
which the session is usable although the logout was answered with success.

Things the models make visible and no document rules out, so that no property
forbids them: a concurrent `PATCH` of another field writes back the visibility it
read before, and can so publish again what its owner has just hidden
(`NeverSharedUnasked` says only that the owner named that visibility once); a
soft-deleted item keeps its slug in Postgres and frees it in memory; a malformed
id is an internal error in Postgres and "not found" in memory; a suspended
account can still refresh; a registration whose session cannot be saved leaves
the account behind; two updates within one deadline of each other may be listed in
the wrong order, and a statement that its handler gave up may overwrite a later
one; a text of hyphens and tabs alone (say, "-", tab, "/", tab, "-") has the slug
tab-hyphen-tab, which `validateItem` accepts, and a slug with a tab at an end (that of
"-", tab, "a") changes when it is sent back (to "a"), which `SlugIsStable` states; of
two racing migration runners one
ends with an error, and has to be started again, although nothing is wrong.

## 4. What is proved

### Content

For any sets of users, ids, texts, processes and requests, and for both stores,
under the assumptions `RulesAssumption` (the special values are no ids, texts,
slugs or items, and `normalizeSlug` yields a normal slug or blank),
`BackendAssumption` and `ServiceAssumption` (requests are well-formed):

| Theorem | States |
| --- | --- |
| `Invariance` | `Spec => []IInv` |
| `TypeCorrect`, `KeysStayUnique`, `SharingIsAsked`, `LossIsAsked`, `LinksStayJustified` | the state invariants of `edits` and `links` |
| `DeletionIsFinal`, `OnlyOwnersWrite`, `AnswersStayTruthful` | the action properties of `edits` |
| `ServiceImplementsLedger` | `Spec => Ledger!LedgerSpec` |

**Why the invariants are not inductive.** Nothing in `NeverSharedUnasked` says
what a half-done `Update` is about to write, nor anything in `LinksJustified`
what a half-done `AddRelation` has checked. `IInv` adds `Carried(p)`: what a
process takes from one store call to the next is still right when it arrives.
The item it names was stored and, while it is stored, belongs to the actor; a
draft keeps the row's owner and kind, and shows nothing that was not asked for;
a target was once open to the actor. It is still right because of three facts
about every step of the others, `Evolves`: a stored row keeps owner and kind, an
id that was used and is empty is never filled again, and ghosts only grow.
`Remembered` ties `hist` to the tables and makes unused ids new.

**The argument.** `CreateEffect`, `ReplaceEffect`, `DeleteEffect` and
`AddRelationEffect` reduce both stores to four effects. `TablesWritten`,
`TablesDeleted`, `TablesRelated` and `TablesUntouched` show that an effect keeps
the invariants of the tables and `Evolves`. `CarriedByOthers` shows that then no
other process is disturbed, and one lemma per action (`CreateStep`, ...) that
the process itself carries what it must. `NextStep` joins them. The action
properties follow from `StepBounded`: a step touches no row, one row that its
process's actor owns, or one relation from it, and answers accordingly. For the
refinement, `TableStep` forgets who acts, and each table operation is mapped to
an operation of the ledger; a relation with a soft-deleted end is a stutter.

### Pages

`ContentReadsProofs` builds on the invariant of the writers: `ReadsInv` says what
a reader has put together (`Fits`) at each point of its query, relative to a window
of everything that was live meanwhile, and that the window holds whatever is live
now. Windows only grow, so that other steps disturb nothing (`FitsLonger`).
Theorems: `ReadsTypes`, `NothingHiddenIsShown`, `EdgesHaveNodes`,
`PortfoliosAreCounted`. The assumption is that `Ids` is finite, which counting a
page needs.

### Sessions

`AuthProofs`, for any handlers, accounts, tokens, lifetimes and both backends:
`AuthTypes`, `AccountsStayUnique`, `AccessStaysBounded`, `BarredStayRefused`, the
refinement `AuthImplementsPolicy`, and `MemoryLogoutRevokes` under the hypothesis
that the stores are the memory stores: the run `logout` shows that it fails on
Redis. `AuthInv` adds what each process has in its hands (`Serving`), that it is not
past its deadline (`Timely`), and that the reason for which a request was refusable
is still one at the place where the handler will look next (`StillBarred`). `Ages`
is what makes the last stable: accounts never come back, sessions are never usable
again, time does not go back.

`AccessBounded` bounds what a stolen cookie is worth once its session is gone: with
the code's 15 minutes and 3 seconds, no access token of a session is good for
longer than that after the session expired **or was revoked**. Its proof ties the
ghosts to the keys (`SessionsEnd`: an unmarked session ends at its expiry, a marked
or dropped one has ended) and says of a refresh between its two reads that it began
no later than its session ended; a revocation in that window moves the end to now,
which is no earlier than the beginning of any running request.

For the refinement, `RespondMoves` and `ProceedMoves` show that a step changes the
errand of its own process only, `MembersAre`, `LeasesAre` and `ErrandsAre` that the
mapping yields the policy's records, and one lemma per action names the step of the
policy (`SaveOpens`, `FindSessionInspects`, ...). Four of them rest on the invariant
and not on the step: `SignSigns`, `DateDates`, `SaveOpens` and
`FindUserForRefreshRenews` need that a handler acts before its deadline.

### Lists

`ListingProofs`, for any writers, items, titles, deadline and limits:
`ListingTypes`, `RecentComesFirst`, `FeedShowsTheList` and `FeedsGrow`. The
invariant is `StampsFit`, that a stamp is no later than its write, and no more than
a deadline earlier if the write was in time; `Drafted` carries it from `Prepare` to
`Write`. The second half reasons about sequences: a sorted sequence holds each item
once (`EachOnce`), a page is its beginning (`CutProperties`). That the feed shows
what the list shows is that sorting a sorted page again, stably and by a coarser
key, changes nothing (`SortedAgain`), that there is only one such order of the same
rows (`OneOrder`), and that a page of a page is a page (`CutAgain`); `LimitInRange`
says what the two layers make of any limit.

### Texts

`TextProofs`, for texts of any length over the seven classes of characters:
`TextTypes`, `LettersMakeSlugs`, `SlugsStay` and `RelationTypesStay`. The run checks
every text of up to six characters; the theorems say the same of all of them. There
is no induction in them: `Trim` is a choice of the longest middle part, and
`TrimSplits` finds it by the least and the greatest position of a character that
stays. From there `TrimFixed` (a text whose ends stay is left alone), `EachFixed`
and `SlugOfSlug` show that a function changes nothing of its own outcome where the
properties say so; for slugs that is exactly where no white space is at an end
(`SlugsStay`).

### Requests and the server

`ServerProofs` first shows of `RequestLifecycle` (`RequestTypes`,
`ConnectionsComeBack`, `GaugeStaysTrue`, `CountsAreTrue`, `ResponsesAreBounded`),
for any handlers, connections, requests and timeouts, one invariant per handler: its
response is recorded exactly from its end on (`WrittenOnce`), it holds a connection
exactly while a statement runs (`OneConn`), and it is no older than the header, the
body, the deadline and the write timeout allow where it is (`Young`). The gauge is a
cardinality, which `GaugeFollows` moves by one. `ResponsesAreBounded` is what can be
proved of "every request ends" without liveness: with the code's constants, a
request is over max(5, 2 + 3, 2 + 10) = 12 s after it began, as long as time passes.

The second half carries that invariant through `main`
(`ServerKeepsConnections`, `ServerKeepsGauge`, `ServerKeepsCounts`,
`ServerKeepsTime`: starting and stopping break none of it) and adds that a request
which still has calls to make is at least as old as the wait of `Shutdown`
(`WaitedFor`); with `Young` and `ServerAssumption`, that the shutdown timeout
exceeds both bounds, as 10 s exceed 5 s and 2 + 3 s, `StoresAreClosedLast` follows.
`SignalsAreNotFatal` needs `ListenerFits` only.

### Migrations

`MigrateProofs`, for any runners, files and faults: `MigrateTypes`,
`SchemaTableTruthful`, `DoneIsComplete`, `LocksOpen`, `RacesAreWon` and
`MigrateImplements`. `MigrateInv` adds that versions are recorded in order
(`Ordered`, `EarlierRecorded`), how far the statements sent so far have taken a
transaction (`Fits`), and that a row which waits for its commit is in no table and
in no other transaction (`RowIsNew`): it is the unique key, not the check before,
that keeps a file from being applied twice.

`LocksOpen` and `RacesAreWon` are the safety that the liveness properties `RunsEnd`
and `RaceCompletes` rest on. The first says that the lock of the unique index closes
no circle. For the second, `RaceInv` follows one runner through the race: as long as
nothing has failed but inserts and creations of the table, either everything is
recorded or, once the table is there, somebody who is running has the next file before
him (`Ahead`). Before it is there, everybody who runs is at the look for it or at its
creation (`TableFirst`), and the one whose `CREATE TABLE` knocks the others out goes on
with the first file (`CreatorLeads`); so does with the next one whoever's commit knocks
others out (`CommitLeads`), and nobody else's step takes the lead away from him
(`LeaderStays`).

**Only model-checked:** the liveness properties `Answered`, `RequestsEnd`,
`SignalStops`, `RunsEnd` and `RaceCompletes`: liveness under fairness is out of the
prover's reach, as `ENABLED` is. Every invariant and every action property that a
passing run checks, and the three refinements (`ImplementsLedger`, `ImplementsPolicy`,
`ImplementsHistory`), are stated by a theorem. The run `logout` disproves
`LogoutRevokes` on Redis, so that it is a theorem of the memory stores alone.

## 5. What is left out

* Bodies, summaries, status and metadata of items, and the topics that pages
  count from them. No rule that is modelled reads them.
* Order and time in `ContentService` and `ContentReads`: their lists are sets of as
  many items as the limit allows; `ContentListing` has the order. A statement that
  Postgres still executes after its handler answered is in `ContentListing` only:
  in `ContentService` the effect comes at the latest with the answer.
* Deletes and conflicts in `ContentListing`: they shorten lists and write nothing.
* Isolation below the single statement: each is taken as atomic, and a later one
  sees it. This is what one Postgres primary at its default level gives.
* Tokens, signatures, password hashes: a token is the record that was signed, a
  password its own hash.
* `ListVisible` and `Store.Graph`, which nothing calls; request ids, log lines,
  durations and the gauges that repeat the numbers of the pool; CORS and JSON;
  build and deployment files.
* The inside of net/http, pgxpool and go-redis: they are modelled by what the code
  relies on and are marked external in the map.

## 6. Plan

Everything that was planned is on disk. What could follow, by value: the effect of
late statements in `ContentService` itself, with the properties that survive them;
topics, as a fold over a page; theorems about `AccessPolicy` and `ContentLedger` on
their own (that no lease comes back, that no key is ever shared), which would then
hold of every implementation.
