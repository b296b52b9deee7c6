# TLA+ specifications of LLMatch v2

Formal models of LLMatch v2 (a Go backend over PostgreSQL/PostGIS, Redis and an object storage, and a React client),
the TLC configurations that check them and the TLAPS proofs about them. Source paths below are relative to the
repository; `B/` stands for `backend/internal/`.

Every definition is translated from the code. Where a comment or a document promises something the code does not keep,
a run shows the counterexample ("What the code does not keep").

## 1. The system

| Part | State | Operations | What it talks to |
|---|---|---|---|
| Matching (`B/application/matching`, `matching_repository.go`, `swipe_limiter.go`) | tables `swipes`, `matches`, `blocks`, `reports`; one Redis counter per user and UTC day; advisory lock per pair | Swipe, Block, Unmatch, Report, Discover, ListMatches | Postgres transactions, Lua scripts |
| Sessions (`B/application/auth`, `session_repository.go`, `token_denylist.go`, middleware) | table `refresh_tokens` (families, rotation), Redis active set and deny list | Login, Refresh, Logout, LogoutAll, the check of every request | Postgres and Redis, in that order or the other |
| Accounts and limiters (`auth/service.go`, `rate_limiter.go`) | table `users`; counters, lockouts and violations in Redis | Register, the gates of Login | |
| Profile, preferences, consent (`B/application/profile`, `B/application/account`) | tables `profiles`, `user_preferences`, `privacy_consents` | UpdateProfile, UpdatePreferences, Grant, Withdraw | |
| Photos (`profile/service.go`, `profile_repository.go`, storage) | table `photos`, blobs | upload, delete, set primary, reorder | Postgres, storage, one goroutine per delete |
| Messaging (`B/application/messaging`, `messaging_repository.go`, Redis bus, tickets, limiter) | table `messages`, Redis channel, tickets, counter | SendText, History, MarkRead, Conversations, tickets | Postgres, then Redis Pub/Sub |
| WebSocket hub (`B/adapters/websocket`) | registered clients, a bounded queue and two goroutines per connection | Deliver, Enqueue, closeSlow, pumps | the bus, browsers |
| Client (`frontend/src`) | access token in memory, query cache, pending messages, one socket | apiFetch with silent refresh, optimistic send, reconnection | all endpoints |

Everything stateful is outside the processes (Postgres, Redis, storage) except the hub and the browser. Any number of
replicas serve requests, so two requests interleave at every round trip, and a process may die at any of them. There is
no retry and no outbox: what is lost between two stores stays lost.

What is hard here:

* Each service reads, decides and writes in separate calls; only `RecordSwipe`, `Block`, `Rotate`, `SetPrimaryPhoto`,
  `ReorderPhotos` and `Withdraw` are transactions, all READ COMMITTED.
* An operation that spans Postgres and Redis (a swipe, a refresh, a login, a message) can fail between the two.
* The hub chooses connections under its lock and serves them without it.
* The browser's cache has three writers, and the socket and the history request race.

`PROJECT.json` lists the components with what is left out of each, and forty hazards, each at its line, with the properties
that cover it. Three have none yet, and say why: the position of a photo after a deletion, the silent refresh of two tabs,
and a bus goroutine that never subscribed.

## 2. The modules

### Matching, MatchingPromise

`MatchingPromise` is the abstract specification: swipe, block and unmatch of two people as single steps on the three
tables. `Matching` is the code: a swipe goes through `FindSwipe` and the clock (`SwipeStart`), `CountSwipesSince`
(`Count`), the Lua reservation (`Reserve`), the transaction of `RecordSwipe` (`RecordLock`, `TxRefuse`, `TxInsert`,
`TxMutual`, `Commit`) and, when that fails, `Release` with the count read at the start as floor. A block takes the lock
of the pair too (`BlockLock`, `BlockCommit`). The writes of a transaction are private until `Commit`; every statement
before it reads what is committed then. `req` holds the local variables of a request, and a slot whose request has
returned is used again.

The next-state relation has layers, so that each property is stated under the failures it survives:

| Specification | adds |
|---|---|
| `Spec` | errors the program handles |
| `CrashSpec` | a process that dies, a reservation or release whose effect or error nobody sees |
| (`RestartNext`) | Redis comes back without its last second of writes (`docker-compose.yml`, `appendfsync everysec`) |
| `LossySpec` | a commit that took effect and was reported as an error |

`DailyLimit` does not survive `RedisRestart`: a request that read its count before others committed rebuilds the lost
counter from that stale count. The runs and the proof about the limit are therefore under `CrashSpec`, everything about
matches and blocks under `LossySpec`.

### SessionPromise, Sessions

`SessionPromise` is the abstract specification: a family of refresh tokens is a baton with one holder; a refresh passes it to
a token never used before, a logout or a reuse ends it. `Sessions` is the code, for the tokens of one user. A login or a
refresh issues a refresh token and an access token, so one name stands for the pair, and the first pair names its family.
An `UPDATE` of many rows under READ COMMITTED picks its rows from a snapshot and then waits for row locks: `Snapshot` and
`Revoke` are these two moments, which is how a rotation that commits in between escapes a revocation. The refinement
(`SessionsKept`) maps the holder of a family to its row that is neither rotated nor revoked.

The row-by-row locking of `Revoke` is one step; two logout-alls that lock the same rows in different orders, which Postgres
would resolve by aborting one, are not modelled. `NoCircularWait` says that no circle of requests waits for each other's
rows. `Tokens` bounds the pairs that are issued, and a request that finds none left ends with an error
(`NoneLeft`). Expired refresh tokens and inactive users are refused by a read, like any failure.

### Profile, Discovery, Sorting

`Profile` has the rows a user writes about themselves. `PUT /profile` counts the photos (`CountPhotos`) and upserts (`UpsertProfile`,
with the three ways a location is given in `NewPlace`); `PUT /preferences` upserts ages and distance, looks the
consent up and stores the genders, three statements (`UpsertPreferences`, `LookUpConsent`, `UpdateGenders`); the
withdrawal of a consent is a transaction of two (`MarkWithdrawn`, `CommitWithdrawal`). Photos are reduced to "none", "plain"
or "primary". `late` remembers who has genders stored by a request that a withdrawal overtook.

`Discovery` extends it with the pages of `GET /discovery`. `CheckReady`, `ListCandidates` and `TouchActivity` are the three round
trips; an answer may be lost and the page asked for again. `EnsureDiscoveryReady`, `Eligible`, `CanSwipeTarget`, `PhotoVisible`,
`ActiveMatches` and `Conversations` translate six SQL statements that decide about the same pair and are written separately
in the code; `Score`, `Before`, `Behind` and `CursorOf` are the ranking and its cursor. Everything the
statements read changes between two pages: profiles, consents, photos, swipes (one step here; their races
are in `Matching`), blocks, activity and ages. A score is compared as integers of a coarser scale, places
are points on a line, and interests and questionnaire are one set of tastes.

`Sorting` says what `ORDER BY` and `LIMIT` answer, for the pages of `Discovery` and of `Chat`: the row in place *i* is the one
that *i - 1* rows precede. It says so without recursion and without a `CHOOSE` over sequences, which is what lets a page be reasoned about.

### Chat, Gates, MCServices

`Chat` is one match seen from the API: the check of the match, the counter of the rate limit and the insert of a send are three
round trips (`Admit`, `Allow`, `InsertStarts` and `InsertCommits`), a page of the history and a read receipt two each, and the match may end
between any of them (`MatchEnds`). A message is stamped when its `INSERT` starts and visible when it commits. The receipt
carries the time of the API's clock, which may be behind that of Postgres by at most `MaxLag`. The clock counts thirds of a second,
for what the rounding of `TTL` does to the last half second of a window.

`Gates` is the way in: the limiter before the password check of a login and before a registration, with its three keys per
scope, their expiry, the doubling of the lockout (`Minutes`), and the unique index behind `Create`, whose answer may be lost.
`Login` and `Register` start a request; each call of Redis or Postgres after that is one step, and any may fail (`CallFails`; the
look-up of the account by a login counts as a wrong password then, `Verify`).

The two share no state with each other. `MCServices` checks them in one run: `half` says which of them a behaviour explores.

### Photos

The table `photos` of one user and the blobs. `Upload` is count, put, insert and compensation, with the position being the count;
`Delete` is read, soft delete, list, promotion (a transaction of two statements) and a goroutine that removes the blob;
the CHECK and the two partial unique indexes are guards of the statements. `FailNext` adds failing calls, a process that dies,
and answers of the storage and of Postgres that are lost. Two history variables say what such a failure left behind:
`orphans`, blobs nothing refers to, and `unsure`, photos listed although their upload reported an error.

After a photo before the last was deleted, the count is the position of a photo that is there, and the unique index refuses
every upload until the user reorders or deletes again. The model does so too (`Fits`, `InsertRefused`); no document says
otherwise, so no property does.

### Hub

One replica's hub. `Connect` to `ReadEnds` are `ServeHTTP` and the read pump, `Write` to `WriterStops` the write pump,
`DeliverStart` chooses the registered connections of an event under the lock, and `Enqueue`'s steps serve them one by one without it.
The goroutine of the bus delivers messages, the read pumps of others deliver typing hints: `Senders`. An overflow goes
through `CloseCheck`, `CloseOnce` and `Disconnect`, the select, the close and the socket of `closeSlow`. `PingFails` ends the write
pump and nothing else: the socket stays open, since the WebSocket library's `Ping` with an expired context leaves it so, and the read pump does
not know. What the peer does is its own choice: it leaves (`PeerLeaves`), or from some moment on sends no more frames (`PeerQuiet`, the socket
is then "quiet"). `ReadTimeout` is possible on any open connection. A panic of a pump is recovered by `net/http`; one of the bus
goroutine ends the process (`BusPanics`, `Restart`). A slot of a connection is used again once nothing refers to it.

A select with two ready cases takes either, in the model as in Go; `TestEnqueueOnAClosedClientIsANoOp` (`hub_test.go`) expects only one
of the two outcomes, the queue left empty.

### Messaging

One match, from the window that sends to the window that shows. The attempts of a text share its nonce; the table takes
one row per (sender, nonce); only the attempt that inserted publishes. A window is the query cache: the history answer
replaces it, socket events and the answers of its own POSTs are put in front. Publication reaches the sockets in one
step, since what the hub does with it is in `Hub` and what is on a wire is delayed as long as it takes. A read of the
history returns one page that holds everything (paging is in `Chat`). The window's 15 s stale time makes opening it ask or not: `Ask` may
happen at any time and need not. Not modelled: the list of conversations, the pending entries that vanish when their
window is closed.

## 3. The runs

`tlc -config MCX_y.cfg MCX` in this directory. Deadlock is checked except in `photos`, where the ids of the instance can
run out since orphans keep theirs, and in `services`, where the bound on requests ends a behaviour.

| Run | Instance | Shows |
|---|---|---|
| `limit` | 3 requests of one user on 3 targets, limit 2, 2 days, `CrashSpec` | `DailyLimit`, why it holds (`ReservationsCovered`), and that only an unrepairable failure costs a swipe (`OnlyFailuresLoseSwipes`) |
| `pairs` | 2 users, 3 requests, 3 actions, `LossySpec` | `MatchIffMutual`, `BlockedNotMatched`, and the refinement `PromiseKept` |
| `sessions` | 3 pairs, 2 requests | the refinement `SessionsKept`, `OneLivePerFamily`, `GivenIsTracked`, `OnlyRotationEscapes`, `NoCircularWait` |
| `photos` | 3 photos, limit 2, 2 requests, `FailSpec` | `PhotoLimit`, `OnePrimary`, `LiveHasContent`, `BlobsAccounted` |
| `hub` | 2 connections, 2 senders, queues of 1, `FairSpec` | `LostOnlyWithTheConnection`, `DeliveryEnds`, `SlowIsDropped`, `MessageLeaves` |
| `messaging` | 2 users with a text each, 3 attempts, one window, `FailSpec` | `ShownIsStored`, `SentOnce`, `NoDoubles`, `LiveViewComplete` |
| `discovery` | 3 users, pages of 1, 2 requests, 2 edits, ticks 83 to 85 with years of 4, the viewer with a match or none | `OneRanking`, `NothingSkipped`, `CardsAreWhole` and, of `Profile`, `OnlyLateWritesEscape` |
| `services` | `Chat`: 3 messages, pages of 1, 1 message in a window of 1 s, clock up to 2, a replica up to 1 tick behind; `Gates`: 2 requests at a time and 4 in all, 1 address, 2 emails, 3 passwords of which 1 is refused, lockout after 2 failures | `OneHistory`, `MarkedIsRead`, `LateMessagesWereAdmitted`, `OverLimitOnlyAtTheEnd`; `LockoutBoundsGuesses`, `CreatedIsKept` |

Every passing run also checks the module's `TypeOK`, except `pairs`, whose types the proof covers.

Why these bounds. *limit*: the races of the counter are between one request that reserved, one that releases with an old
floor and one that sees the boundary, which is three; a second day lets a request cross midnight. The other users are targets only, and blocks do
not touch the quota (`OneActorNoBlocks`). *pairs*: two likes and a block, or a repeated swipe, and with only two users
every request is about the pair. *sessions*: three pairs are a family that rotates twice, or two families. *photos*: a limit of 2 has its boundary
reached by two parallel uploads, with a third id to delete and replace. *hub*: one event fills a queue, so the two
senders overflow it at once; the second connection is the one that must not suffer. *messaging*: two attempts of one
text overtake each other, the third is the other user's; the windows of two users do not act on each other, so one is
watched (`OneWindow`). *discovery*: two candidates are enough for an order, a tie and a skipped one, with a page between them; two
edits change a candidate before and after its page, or the viewer and a candidate, and a look at the consent, a withdrawal and the late
write fit in them; within the three ticks one candidate has a birthday, the activity score falls and the gap passes.
*services*: three messages are a page shown, a page to come and one that commits late; the clock reaches the half
second in which the limiter is off. Two requests that both passed the check are the ones a lockout cannot
stop, and the four tries are two failures, one past the check and one after the lockout. Symmetry is used in safety runs only.

Fairness. *Hub*: weak fairness of goroutines that can run. The read deadline is
fair only for a peer that has gone quiet, whatever the write pump does: `readPump` starts it again with every frame (`handler.go:95-100`), so a
peer that goes on sending may never meet it. Nothing says that a connected peer reads, answers pings, leaves or goes quiet. `MessageLeaves`
therefore excepts a connection whose pump gave up and whose peer goes on sending (`Abandoned`). `DeliveryEnds` is about the end of a delivery, not its
length: `Disconnect` stands for a `conn.Close` that the delivering goroutine calls itself and that waits seconds for the peer, and for so long
the clients after it wait too.
*Messaging*: the server's steps, the browser's event handling and its reconnection are weakly fair; the user's acts (send, retry, open) and the failures are not.

What `LiveViewComplete` says deserves a word. A window misses no message, apart from those on their way, *as long as* its
history was read while its socket was open and nothing it relied on has failed since: no connection, no publication, and no event
that overtook the history it belonged to. Each of these conditions is there because the code needs it; the finding below is what
happens without.

### What the code does not keep

| Run | Property | Counterexample |
|---|---|---|
| `sessions_logoutall` | `LogoutAllIsFinal` (comment of `token_denylist.go`) | A refresh commits its rotation, a logout-all denies what Redis lists, the refresh registers and hands out its access token: it works until it expires. The row that the rotation inserted can escape the same way, and with it the rest of a family that reuse detection meant to end |
| `photos_primary` | `PrimaryKept` (README: a remaining photo is promoted) | An upload counts one photo, the primary one; that photo is deleted and there is nothing to promote; the upload inserts its photo as not primary: the one photo left is not primary |
| `hub_slow` | `SlowHurtsNobodyElse` (README: a slow consumer never degrades the others) | Two goroutines find the queue full, both pass the select of `closeSlow`, the second close panics; on the bus goroutine the process dies |
| `messaging_missed` | `StoredIsShown` (service, PLAN and README: the client recovers what live delivery lost) | A message whose publication or socket was lost is not asked for by a window that stays open: `ready` is ignored and nothing is invalidated on reconnection |

Met while modelling, and part of the models without a run of their own:

* `ReorderPhotos` parks photos at negative positions (`profile_repository.go:173`, comment at 159), which `photos_position_check`
  (`000003_profiles.up.sql:61`) refuses: no reorder ever succeeds, and so `Photos` has none that changes anything.
* README.md:78 says gender preferences are never stored without an active consent. A withdrawal between the look and the
  write (`profile/service.go:147-157`) leaves them stored; discovery still asks for the consent and does not use them
  (`OnlyLateWritesEscape` says that nothing else does it, and `CommitWithdrawal` or a later save repairs it).
* README.md:101 says Redis keeps only the hash of a socket ticket; `ws_tickets.go` uses the ticket itself in the key.
* `ListActiveMatches` joins the primary photo and leaves a match out when there is none; `ListConversations` does not.
* A registration whose `Reset` fails is answered with 503 although the account exists (`Create`, `CallFails`), and a wrong password
  whose `RecordFailure` fails is not counted: `LockoutBoundsGuesses` counts what Redis was told.
* In the last half second of its window the message limiter counts and lets everything through (`UnderLimit`).
* `messages.sql.go:251` says concurrent inserts leave no gaps while paging. A message stamped before the first page and
  committed after the pages have passed its place is on none of them; `OneHistory` promises only what was visible.
* A choice of the primary photo whose photo is deleted between the ownership check and the transaction leaves none primary either:
  `SetPrimaryPhoto` clears the others and sets the flag of a deleted row. It breaks the same promise as `photos_primary`.
* A write pump that missed a pong returns and tells nobody (`client.go:87-93`). While the peer keeps sending frames the connection stays open and
  registered, with nobody writing to it, until its queue of 64 overflows (`Abandoned`). No document says how long such a connection may live.
* A login whose `FindByEmail` fails is answered like a wrong password, 401 with a failure counted for both scopes, and not with 500 or 503 (`Verify`).
* A discovery cursor does not expire: the ages are those of its `as_of`, so a card may be refused when it is swiped after
  a birthday (`CardsAreWhole` has that condition). What else changes between the listing and the swipe, a block or a preference, may refuse it too;
  `CardsAreWhole` compares the statements at the moment of the listing.

## 4. The proofs

Eight modules hold them (`tlapm Matching_proofs.tla` and so on). Each proves for every value of the constants what a run shows on
one instance. Every safety invariant and action property that a passing run checks, and both refinements, are theorems.

`Matching_proofs`, for any users and requests, any limit and number of days:

* `TypeCorrect`: `LossySpec => [](TypeOK /\ ReqOK)`, where `ReqOK` says that a request under way is about two different users.
* `MatchesCorrect`, `BlocksHold`: `LossySpec => []MatchIffMutual`, `LossySpec => []BlockedNotMatched`.
* `MatchingImplementsPromise`: `LossySpec => PromiseKept`. The mapping is the identity on the three tables: a `Commit`
  with writes is the abstract `Swipe`, a `BlockCommit` the `Block`, all else stutters.
* `LimitKept`, `CounterCovers`: `CrashSpec => []DailyLimit`, `CrashSpec => []ReservationsCovered`.
* `SwipesLostByFailuresOnly`: `CrashSpec => OnlyFailuresLoseSwipes`.

`Sessions_proofs`, for any number of tokens and of requests:

* `SessionsTyped`, `RefreshOnce`, `GivenTracked`: `Spec => []TypeOK`, `[]OneLivePerFamily`, `[]GivenIsTracked`.
* `RevocationsReach`: `Spec => OnlyRotationEscapes`; `WaitsFormNoCircle`: `Spec => []NoCircularWait`.
* `SessionsImplementPromise`: `Spec => SessionsKept`. The holder of a family is its live token: `LoginPersist` is the abstract
  `Open`, `RotateCommit` the `Pass`, `Revoke` the `End`, all else stutters.

`Discovery_proofs`, for any users, requests and inputs, page size, edits and years, over `Spec` of `Discovery`, whatever fails:

* `ConsentKept`: `[]OnlyLateWritesEscape`; `DiscoveryTyped`: `[]TypeOK`; `PagesAreOneRanking`: `[]OneRanking`;
  `SteadyAreShown`: `[]NothingSkipped`; `QueriesAgree`: `[]CardsAreWhole`.

`Sorting_proofs` has the lemmas about `InOrder` and `Limit` that the pages of `Discovery` and of `Chat` rest on, for any finite set of
rows and any strict order on it.

`Services_proofs`, about `ChatSpec` for any messages, replicas' clocks, limit, window and page size, and about `GatesSpec` for any
requests, addresses, emails and passwords:

* `MarkIsEnough`: `MarkedIsRead`; `EndIsFinal`: `LateMessagesWereAdmitted`; `LimitHolds`: `OverLimitOnlyAtTheEnd`;
  `HistoryIsOneList`: `OneHistory`.
* `GuessesAreBounded`: `LockoutBoundsGuesses`; `AccountsAreKept`: `CreatedIsKept`.
* `ServicesTyped`: `MCSpec => []TypeOK`, the types of both.

`Photos_proofs`, for any photos, requests and limit, over `FailSpec`, so whatever call of Postgres or the storage fails:

* `PhotosTyped`: `TypeOK`; `LimitOfPhotos`: `PhotoLimit`; `OnePrimaryPhoto`: `OnePrimary`; `ContentKept`: `LiveHasContent`;
  `BlobsAreAccounted`: `BlobsAccounted`.

`Hub_proofs`, for any clients, messages and bounds:

* `HubTyped`: `Spec => []TypeOK`; `LostWithTheConnection`: `Spec => []LostOnlyWithTheConnection`.

`Messaging_proofs`, for any texts and attempts, over `FailSpec`:

* `MessagingTyped`: `TypeOK`; `NothingIsInvented`: `ShownIsStored`; `NonceSendsOnce`: `SentOnce`; `ShownOnce`: `NoDoubles`;
  `LiveDeliveryIsComplete`: `LiveViewComplete`.

Assumptions: the ASSUMEs of the modules the theorems are about, and no others. Users and requests of `Matching` are finitely many, the
null values are none of them, the limit is positive and the actions are among the three of the code; the two null values of `Sessions`
are neither tokens nor requests; inputs and stored rows of `Profile`, `Discovery` and `Chat` have their types, `MaxLag` bounds how far the
clock of a replica is behind, and the requests of `Gates` are finitely many and "no account" is nobody's password. What can be listed is finite:
the users of `Discovery`, the tastes of a user, the messages of a chat. A stored distance is positive, as the handler and
`user_preferences_distance_check` (`000003_profiles.up.sql:26`) have it, since the score divides by it. The photos are finitely many and their limit
is positive; the queues of the hub hold at least one event, its bus is one of the senders, and the null values of `Photos`, `Hub` and
`Messaging` are none of their photos, clients and texts.

The argument about pairs. `MatchIffMutual` is not inductive: a transaction that has looked for the mutual swipe commits
a match that is right only if nothing about the pair changed since. `PairInv` adds `LockOK` (a request inside its
transaction holds the lock of its pair) and `TxOK` (`TxOf`: what a transaction has seen so far about its pair still holds, and the
swipe it will write is not there). Two requests in transactions on one pair would be one and the same (`OneTxPerPair`), so a commit of
another request disturbs neither. `PairStep` goes through the actions, `QuietStep` deals at once with those that change nothing
`PairInv` reads.

The argument about the limit. `DailyLimit` follows from `QuotaInv`: recorded swipes plus reservations in flight never exceed the
counter (`ReservationsCovered`), and the counter never exceeds the limit. That is kept by a release with a stale
floor because the release gives back one reservation of its own, and by a raise because it only raises; `CountedOK` bounds
the count a request carries. The lemmas `FlightTaken`, `FlightEnded` and `SwipeAdded` say what each step does to the
two cardinalities.

The argument about lost swipes. `CalendarInv`: no row, request or key is of a day to come, and what a request of today has counted is at
most today's swipes. So (`StaleCount`) a reservation or a release that raises the counter to that count raises it by nothing as long
as the counter covers the swipes (`QuotaInv`), and each step that ends a reservation either records its row or takes the counter down by
one. At midnight nothing of the new day is there yet. A step of another day does not touch today's numbers.

The argument about the consent. A request that has looked the consent up carries an answer that a withdrawal may make stale. `Covered`
says of each request about to store genders that the user still has a consent or that the request has been overtaken, and
`Typed` that the row it will write is that of a user with a body that has genders. With both, `UpdateGenders` keeps
`OnlyLateWritesEscape`; `CommitWithdrawal` keeps `Covered` because it marks every request that is past its look in the
step that takes the consent away, and keeps `OnlyLateWritesEscape` because it clears the row in the same transaction.

The argument about sessions. `SInv` adds to the three invariants what requests under way rely on. `RequestOK`: a request that has
checked a row under its lock still has the lock, and the row is still live, because a rotation and a revocation both need the lock of
what they change; the pair of a login is registered before it has a row. `RevokeOK`: a live token of the scope of a revocation that
its snapshot missed comes with a rotated token of the same family that the snapshot has, which a rotation creates and nothing takes
away. `FamiliesOK` (a family is named by a token that was issued) keeps a new login out of every older family. For the
refinement, `SameHolder` says that two tables with the same live tokens in a family agree on its holder; the three steps that change
the table then follow from what each does to the live rows (`PersistRows`, `RotateRows`, `RevokeRows`).

The argument about the locks. `LocksOK`: a row that is locked was issued, and one that a revocation holds no longer worked when it was
locked. A revocation waits only for rows that were live at its snapshot, and a row never works again (`NoRevival`), so whoever holds one
of them took its own snapshot later. `WaitsUpward` says so by numbering the requests in the order of their snapshots: who waits has a smaller number than
whom it waits for. If everybody waited, the one with the largest number among the revocations would wait for a larger one. A rotation waits while it
holds nothing.

The argument about the pages, the same for candidates and messages. `InOrderSorts` says that `InOrder` lists every row once and in order: the
numbers of rows before two different rows differ and lie below the number of rows, so they are all of these numbers. `PageHolds` says
what the first *n* of them are: a row is among them or stands behind the last, and `PagesAscend` that a page behind the last row shown continues the
list. A cursor is the last row on the screen (`CursorIsLast`), and the query asks for rows behind it. `SteadyAhead` says of every steady
candidate that it has been shown or is ahead of the cursor: each listing drops from `steady` who is not eligible or has risen, so the rest
are among its rows or were shown. The history adds `StoredStays`: a message that is visible stays so, with its stamp and its place.

`QueriesAgree` needs no invariant: in every state that the tables can have, a row for which one statement holds satisfies the others, as long as both ages
are the same at the two times that the statements use. That is a fact about the statements, which the code writes apart from
each other.

The arguments about receipts, late messages and the window. A mark covers the messages on the screen because the time it takes is not behind the clock that
stamped them by more than the lag it allows for (`ScreenOK`). A message that outlives its match was admitted before the
end (`EndOK`). The sends that passed before the last half second of a window are among those its counter has counted (`RateOK`).

The argument about the lockout. Scope by scope, `LockOK` follows the counter through its two states: while the scope is not
locked, what is recorded is at most the counted attempts; once it is locked, what is recorded and the requests that were past the look
at it stay within the limit and the number of requests, since no further request gets past. The argument about accounts (`KeptOK`) is
that the unique constraint on the email refuses every insert after the first.

The types of the limiter are an argument of their own: that no scope is violated more often than there were requests. `TriesOK` counts, scope by
scope, the violations and the requests that may still record a failure for it (`Owing`): a request joins them when it arrives, and leaves
them when it records. `LockedOK` and `WeakOK` are inductive with it.

The argument about photos. `PInv` says what the requests under way hold: an upload owns its photo, which nobody else touches, until
it is certain whether its blob is there (`UploadOK`), and a deletion past its `UPDATE` has taken its photo away (`DeleteOK`). Live photos have
different positions below the limit (`PositionsDiffer`, which the unique index keeps), so the positions map them one to one into
`0 .. MaxPhotos - 1`, and their number is at most the limit. `BlobsHeld` names the owner of every blob, with `LeftBehind` for what
a failure abandons.

The argument about the hub. A goroutine in `closeSlow` keeps its client among its targets (`SlowOK`, `OverOK`), so the slot of that
client is not given to a new connection before the goroutine is done; that makes the client it closes the one it found full.
`Kept` follows an event from the delivery to the queue and the connection.

The argument about messages. `RowsOK`: a row was inserted by an attempt that is past its insert, and no two have one text, which the
unique index on sender and nonce keeps. `AttemptOK` says that an attempt that answers has a row for its text, of its own or of the
attempt it repeats. `WindowOK` relates each window to its wire: what is on a wire was published once, so that neither
a publication nor the cache doubles it, and as long as a window is intact its list and its wire together have every row but those
about to be published. `Gaps` is what a lost event does to that. `WaitOK`, kept apart, is what the types need.

Only model-checked: the liveness of the hub (`DeliveryEnds`, `SlowIsDropped`, `MessageLeaves`) and that no run but those named in section 3
can stop, because liveness under fairness and `ENABLED` are out of the prover's reach; and the four counterexamples. Each theorem
states the definition that the run checks, under the specification that the run uses or one that allows more.

## 5. Plan

Next, in this order:

1. `ApiClient` and `RealtimeSocket`: the shared refresh of a tab against `Sessions`, generations and timers of the socket.
2. The cursor of `ListMatches`, the list of conversations as a whole, and a bus that subscribes once and never again.
3. Proofs: what a refinement adds for `Photos`, `Hub` and `Messaging` (an abstract album, an abstract mailbox) over their invariants.

Runs are kept few: one for each question.

Not modelled, and why: password hashing and token signing are library calls, and the rehash at login keeps the password;
middleware and configuration keep no state; image decoding and the S3 client are input and output; a socket ticket is one `SET`
and one `GETDEL` of Redis, whose promise is that of the command; a report appends one row; rendering has no state beyond the
query cache.
