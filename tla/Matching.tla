------------------------------ MODULE Matching ------------------------------
(***************************************************************************)
(* Swipes, matches, blocks and the daily swipe limit.                      *)
(*                                                                         *)
(* A swipe request runs through application/matching/service.go:           *)
(*   FindSwipe -> CountSwipesSince -> limiter.Reserve -> RecordSwipe       *)
(*   [-> limiter.Release when no row was created]                          *)
(* Each arrow is a round trip to Postgres or Redis at which any other      *)
(* request may run.  RecordSwipe is a READ COMMITTED transaction: it takes *)
(* the advisory lock of the pair, and each statement after it sees what    *)
(* was committed when the statement started.                               *)
(*                                                                         *)
(* The next-state relation comes in layers: Next is the program with the   *)
(* failures it handles; CrashNext adds those it cannot undo (a process that*)
(* dies, a Redis call whose effect or error nobody sees); RestartNext adds *)
(* Redis losing its latest writes, LossyNext a commit whose answer is lost.*)
(***************************************************************************)
EXTENDS Naturals, FiniteSets

CONSTANTS
  Users,            \* the accounts
  Requests,         \* slots for requests being served, over all API replicas
  Actions,          \* the swipe actions in use
  DailySwipeLimit,  \* swipes a user may record in a UTC day
  MaxDay,           \* bound of the model: the last UTC day it runs through
  NoUser,           \* the user of a slot that serves nothing
  NoRequest         \* the holder of an advisory lock nobody holds

ASSUME MatchingAssumption ==
  /\ IsFiniteSet(Users)
  /\ IsFiniteSet(Requests)
  /\ Actions \subseteq {"like", "superlike", "dislike"}
  /\ DailySwipeLimit \in Nat \ {0}
  /\ MaxDay \in Nat
  /\ NoUser \notin Users
  /\ NoRequest \notin Requests

VARIABLES
  swipes,    \* Postgres: swipes[a][t] is the action of the row, or "none"
  swipeDay,  \* Postgres: swipeDay[a][t] is the UTC day of its created_at
  matches,   \* Postgres: the state of the pair's row, or "none"
  blocks,    \* Postgres: the set of <<blocker, blocked>>
  lock,      \* Postgres: the request whose transaction holds the pair's lock
  counter,   \* Redis: counter[u][d] is the key matching:swipes:<d>:<u>
  today,     \* the UTC day
  pc,        \* where each request is
  req        \* the local variables of each request

tables == <<swipes, swipeDay, matches, blocks>>
vars   == <<tables, lock, counter, today, pc, req>>

Days  == 0 .. MaxDay
Pairs == {{a, t} : a, t \in Users} \ {{a} : a \in Users}

\* In these states a swipe request holds a reservation of the daily limit...
Reserved == {"record", "locked", "inserted", "commit", "release"}
\* ...and in these a transaction of the request holds the pair's lock.
InTx == {"locked", "inserted", "commit", "blocking"}

States == {"idle", "count", "reserve", "block"} \union Reserved \union InTx

NoReq == [actor |-> NoUser, target |-> NoUser, action |-> "none",
          day |-> 0, persisted |-> 0, mutual |-> FALSE]

Fresh_Tomorrow(a, t, action) ==
  [actor |-> a, target |-> t, action |-> action,
   day |-> today + 1, persisted |-> 0, mutual |-> FALSE]
Fresh(a, t, action) == [actor |-> a, target |-> t, action |-> action,
                        day |-> today, persisted |-> 0, mutual |-> FALSE]

Pair(r) == {req[r].actor, req[r].target}
-----------------------------------------------------------------------------
IsPositive(action) == action \in {"like", "superlike"}

Blocked_OneDirection(a, t) == <<a, t>> \in blocks
InteractionBlocked(a, t) == <<a, t>> \in blocks \/ <<t, a>> \in blocks

\* CountSwipesSince has no upper bound: it counts the swipes of later days too.
CountSwipesSince(a, d) ==
  Cardinality({t \in Users : swipes[a][t] # "none" /\ swipeDay[a][t] >= d})

SwipesOn(a, d) ==
  Cardinality({t \in Users : swipes[a][t] # "none" /\ swipeDay[a][t] = d})

InFlight(a, d) ==
  Cardinality({r \in Requests : pc[r] \in Reserved /\ req[r].actor = a /\ req[r].day = d})

\* The Lua scripts of the limiter, each atomic in Redis.
Full_OffByOne(count) == count > DailySwipeLimit
Full(count) == count >= DailySwipeLimit

RaisedTo(count, persisted) == IF count < persisted THEN persisted ELSE count

Released_ToFloor(count, floor) == floor
Released_Never(count, floor) == count
Released(count, floor) == IF count > floor THEN count - 1 ELSE count

\* What UnmatchPairForBlock leaves in a match row, and InsertMatch in its place.
Closed_Forgotten(status) == status
Closed(status) == IF status = "active" THEN "unmatched" ELSE status

Inserted(status) == IF status = "none" THEN "active" ELSE status

\* pg_advisory_xact_lock waits until the pair is free; commit and rollback free it.
CanLock_Unlocked(r) == TRUE
CanLock(r) == lock[Pair(r)] = NoRequest

Unlocked(r) == [lock EXCEPT ![Pair(r)] = NoRequest]
-----------------------------------------------------------------------------
Init ==
  /\ swipes   = [a \in Users |-> [t \in Users |-> "none"]]
  /\ swipeDay = [a \in Users |-> [t \in Users |-> 0]]
  /\ matches  = [p \in Pairs |-> "none"]
  /\ blocks   = {}
  /\ lock     = [p \in Pairs |-> NoRequest]
  /\ counter  = [u \in Users |-> [d \in Days |-> 0]]
  /\ today    = 0
  /\ pc       = [r \in Requests |-> "idle"]
  /\ req      = [r \in Requests |-> NoReq]

Goto(r, from, to) ==
  /\ pc[r] = from
  /\ pc' = [pc EXCEPT ![r] = to]

\* The handler returns: the slot is free again.
Return(r, from) ==
  /\ Goto(r, from, "idle")
  /\ req' = [req EXCEPT ![r] = NoReq]

(***************************************************************************)
(* POST /swipes.  A swipe on oneself, a blocked pair and an action already *)
(* taken are answered from reads alone and leave the state as it is; the   *)
(* request goes on when FindSwipe found nothing, and then takes its clock. *)
(***************************************************************************)
SwipeStart(r, a, t, action) ==
  /\ a # t
  /\ ~InteractionBlocked(a, t)
  /\ swipes[a][t] = "none"
  /\ Goto(r, "idle", "count")
  /\ req' = [req EXCEPT ![r] = Fresh(a, t, action)]
  /\ UNCHANGED <<tables, lock, counter, today>>

\* persistedCount, read outside any transaction and used until the request ends.
Count(r) ==
  LET persisted == CountSwipesSince(req[r].actor, req[r].day) IN
  /\ Goto(r, "count", "reserve")
  /\ ~Full(persisted)
  /\ req' = [req EXCEPT ![r].persisted = persisted]
  /\ UNCHANGED <<tables, lock, counter, today>>

\* DailyLimitError before Redis is asked.
CountLimit(r) ==
  /\ Return(r, "count")
  /\ Full(CountSwipesSince(req[r].actor, req[r].day))
  /\ UNCHANGED <<tables, lock, counter, today>>

\* The effect of reserveSwipeScript on the key, when it grants a reservation.
Granted(r) ==
  LET current == RaisedTo(counter[req[r].actor][req[r].day], req[r].persisted) IN
  /\ ~Full(current)
  /\ counter' = [counter EXCEPT ![req[r].actor][req[r].day] = current + 1]

Reserve(r) ==
  /\ Goto(r, "reserve", "record")
  /\ Granted(r)
  /\ UNCHANGED <<tables, lock, today, req>>

\* DailyLimitError: the script raised the key to the persisted count at most.
ReserveLimit(r) ==
  LET current == RaisedTo(counter[req[r].actor][req[r].day], req[r].persisted) IN
  /\ Return(r, "reserve")
  /\ Full(current)
  /\ counter' = [counter EXCEPT ![req[r].actor][req[r].day] = current]
  /\ UNCHANGED <<tables, lock, today>>

\* Redis is down: 503, and the swipe is not recorded.
ReserveUnavailable(r) ==
  /\ Return(r, "reserve")
  /\ UNCHANGED <<tables, lock, counter, today>>
-----------------------------------------------------------------------------
(***************************************************************************)
(* RecordSwipe, from the advisory lock to the commit.                      *)
(***************************************************************************)
RecordLock(r) ==
  /\ Goto(r, "record", "locked")
  /\ CanLock(r)
  /\ lock' = [lock EXCEPT ![Pair(r)] = r]
  /\ UNCHANGED <<tables, counter, today, req>>

\* The pair was blocked, or the same swipe recorded, after FindSwipe looked;
\* or CanSwipeTarget refuses.  Its other conditions (accounts, consents,
\* preferences, distance, photo) are not modelled: it may refuse at any time.
TxRefuse(r) ==
  /\ Goto(r, "locked", "release")
  /\ lock' = Unlocked(r)
  /\ UNCHANGED <<tables, counter, today, req>>

\* InsertSwipe: the row is the transaction's own until it commits.
TxInsert(r) ==
  LET a == req[r].actor
      t == req[r].target
  IN
  /\ Goto(r, "locked", "inserted")
  /\ ~InteractionBlocked(a, t)
  /\ swipes[a][t] = "none"
  /\ matches[{a, t}] = "none"
  /\ UNCHANGED <<tables, lock, counter, today, req>>

\* HasPositiveReverseSwipe, asked only by a positive swipe; InsertMatch follows.
TxMutual(r) ==
  /\ Goto(r, "inserted", "commit")
  /\ req' = [req EXCEPT ![r].mutual =
               /\ IsPositive(req[r].action)
               /\ IsPositive(swipes[req[r].target][req[r].actor])]
  /\ UNCHANGED <<tables, lock, counter, today>>

\* The rows of the transaction become visible and its lock is free.
Written(r) ==
  LET a == req[r].actor
      t == req[r].target
  IN
  /\ swipes'   = [swipes EXCEPT ![a][t] = req[r].action]
  /\ swipeDay' = [swipeDay EXCEPT ![a][t] = req[r].day]
  /\ matches'  = IF req[r].mutual
                   THEN [matches EXCEPT ![{a, t}] = Inserted(@)]
                   ELSE matches
  /\ lock' = Unlocked(r)
  /\ UNCHANGED blocks

Commit(r) ==
  /\ Return(r, "commit")
  /\ Written(r)
  /\ UNCHANGED <<counter, today>>

\* A statement or the commit fails: the transaction is rolled back.
RecordFails(r) ==
  /\ \/ Goto(r, "record", "release") /\ UNCHANGED lock
     \/ \E s \in {"locked", "inserted", "commit"} :
          Goto(r, s, "release") /\ lock' = Unlocked(r)
  /\ UNCHANGED <<tables, counter, today, req>>

\* releaseSwipeScript with the persisted count of the request as its floor.
Release(r) ==
  LET a == req[r].actor
      d == req[r].day
  IN
  /\ Return(r, "release")
  /\ counter' = [counter EXCEPT ![a][d] = Released(@, req[r].persisted)]
  /\ UNCHANGED <<tables, lock, today>>
-----------------------------------------------------------------------------
(***************************************************************************)
(* POST /blocks.  One transaction, under the same lock as RecordSwipe, adds*)
(* the block and closes the match.                                         *)
(***************************************************************************)
BlockStart(r, a, t) ==
  /\ a # t
  /\ Goto(r, "idle", "block")
  /\ req' = [req EXCEPT ![r] = Fresh(a, t, "none")]
  /\ UNCHANGED <<tables, lock, counter, today>>

BlockLock(r) ==
  /\ Goto(r, "block", "blocking")
  /\ CanLock(r)
  /\ lock' = [lock EXCEPT ![Pair(r)] = r]
  /\ UNCHANGED <<tables, counter, today, req>>

BlockCommit(r) ==
  /\ Return(r, "blocking")
  /\ blocks'  = blocks \union {<<req[r].actor, req[r].target>>}
  /\ matches' = [matches EXCEPT ![Pair(r)] = Closed(@)]
  /\ lock'    = Unlocked(r)
  /\ UNCHANGED <<swipes, swipeDay, counter, today>>

BlockFails(r) ==
  /\ \/ Return(r, "block") /\ UNCHANGED lock
     \/ Return(r, "blocking") /\ lock' = Unlocked(r)
  /\ UNCHANGED <<tables, counter, today>>

(***************************************************************************)
(* DELETE /matches/{id}: one UPDATE, without the pair's lock.  Repeating it*)
(* changes nothing and is answered like the first.                         *)
(***************************************************************************)
Unmatch(p) ==
  /\ matches[p] = "active"
  /\ matches' = [matches EXCEPT ![p] = "unmatched"]
  /\ UNCHANGED <<swipes, swipeDay, blocks, lock, counter, today, pc, req>>

NextDay ==
  /\ today < MaxDay
  /\ today' = today + 1
  /\ UNCHANGED <<tables, lock, counter, pc, req>>
-----------------------------------------------------------------------------
(***************************************************************************)
(* Failures the program cannot undo.                                       *)
(***************************************************************************)
\* The process dies while it serves the request: Postgres rolls the transaction
\* back, and a reservation stays in Redis.
Crash(r) ==
  /\ pc[r] # "idle"
  /\ Return(r, pc[r])
  /\ lock' = IF pc[r] \in InTx THEN Unlocked(r) ELSE lock
  /\ UNCHANGED <<tables, counter, today>>

\* Reserve took effect and its answer was lost: 503, nothing releases it.
ReserveAnswerLost(r) ==
  /\ Return(r, "reserve")
  /\ Granted(r)
  /\ UNCHANGED <<tables, lock, today>>

\* Release fails; the request ends in an error and is not released again.
ReleaseUnavailable(r) ==
  /\ Return(r, "release")
  /\ UNCHANGED <<tables, lock, counter, today>>

\* The commit took effect and its answer was lost: RecordSwipe returns an error.
CommitAnswerLost(r) ==
  /\ Goto(r, "commit", "release")
  /\ Written(r)
  /\ UNCHANGED <<counter, today, req>>

\* Redis restarts without its latest writes (its log is synced once a second).
RedisRestart ==
  /\ \E u \in Users, d \in Days : \E n \in 0 .. counter[u][d] :
       /\ n < counter[u][d]
       /\ counter' = [counter EXCEPT ![u][d] = n]
  /\ UNCHANGED <<tables, lock, today, pc, req>>
-----------------------------------------------------------------------------
\* What a request that has started does next, when nothing fails.
Step(r) ==
  \/ Count(r) \/ CountLimit(r)
  \/ Reserve(r) \/ ReserveLimit(r)
  \/ RecordLock(r) \/ TxRefuse(r) \/ TxInsert(r) \/ TxMutual(r) \/ Commit(r)
  \/ Release(r)
  \/ BlockLock(r) \/ BlockCommit(r)

Next ==
  \/ \E r \in Requests : Step(r)
  \/ \E r \in Requests, a, t \in Users : \E action \in Actions : SwipeStart(r, a, t, action)
  \/ \E r \in Requests, a, t \in Users : BlockStart(r, a, t)
  \/ \E r \in Requests : ReserveUnavailable(r)
  \/ \E r \in Requests : RecordFails(r)
  \/ \E r \in Requests : BlockFails(r)
  \/ \E p \in Pairs : Unmatch(p)
  \/ NextDay

CrashNext ==
  \/ Next
  \/ \E r \in Requests : Crash(r)
  \/ \E r \in Requests : ReserveAnswerLost(r)
  \/ \E r \in Requests : ReleaseUnavailable(r)

RestartNext == CrashNext \/ RedisRestart

LossyNext ==
  \/ RestartNext
  \/ \E r \in Requests : CommitAnswerLost(r)

Spec        == Init /\ [][Next]_vars
CrashSpec   == Init /\ [][CrashNext]_vars
LossySpec   == Init /\ [][LossyNext]_vars
-----------------------------------------------------------------------------
TypeOK ==
  /\ swipes   \in [Users -> [Users -> Actions \union {"none"}]]
  /\ swipeDay \in [Users -> [Users -> Days]]
  /\ matches  \in [Pairs -> {"none", "active", "unmatched"}]
  /\ blocks   \subseteq Users \X Users
  /\ lock     \in [Pairs -> Requests \union {NoRequest}]
  /\ counter  \in [Users -> [Days -> Nat]]
  /\ today    \in Days
  /\ pc       \in [Requests -> States]
  /\ req      \in [Requests -> [actor : Users \union {NoUser}, target : Users \union {NoUser},
                                action : Actions \union {"none"}, day : Days,
                                persisted : Nat, mutual : BOOLEAN]]

(***************************************************************************)
(* The daily limit (README: "una caida de Redis devuelve 503 y nunca       *)
(* desactiva el limite"): nobody has more swipes of one UTC day than the   *)
(* limit, however many requests count, reserve and record at once, and     *)
(* wherever one dies.                                                      *)
(***************************************************************************)
DailyLimit == \A u \in Users, d \in Days : SwipesOn(u, d) <= DailySwipeLimit

(***************************************************************************)
(* Why the limit holds: the counter in Redis never falls below the swipes  *)
(* recorded in Postgres plus the requests that may still record one, so a  *)
(* release with a stale floor or a raise to a stale count does no harm.    *)
(***************************************************************************)
ReservationsCovered ==
  \A u \in Users, d \in Days : SwipesOn(u, d) + InFlight(u, d) <= counter[u][d]

(***************************************************************************)
(* Nobody loses a swipe of today to a request that recorded none: a step   *)
(* that is none of the failures the program cannot undo leaves no          *)
(* reservation behind, whatever count the request had read before.  Each   *)
(* reservation ends as a row or is released.                               *)
(***************************************************************************)
LostToday(u) == counter[u][today] - (SwipesOn(u, today) + InFlight(u, today))

OnlyFailuresLoseSwipes == [][Next => \A u \in Users : LostToday(u)' <= LostToday(u)]_vars

(***************************************************************************)
(* Two people have a match row exactly when each has swiped positively on  *)
(* the other (PLAN: one match in the transaction of the second swipe, also *)
(* in a race of two likes): neither a missed match nor one too many.       *)
(***************************************************************************)
MatchIffMutual ==
  \A a, t \in Users : a # t =>
    ((matches[{a, t}] # "none") <=> (IsPositive(swipes[a][t]) /\ IsPositive(swipes[t][a])))

(***************************************************************************)
(* A block undoes the match (PLAN: "deshace cualquier match activo"), and  *)
(* no swipe that was under way when the block came brings one up again.    *)
(***************************************************************************)
BlockedNotMatched ==
  \A a, t \in Users : a # t /\ InteractionBlocked(a, t) => matches[{a, t}] # "active"

(***************************************************************************)
(* The pipeline behaves as if swipe, block and unmatch were single steps:  *)
(* a row appears only for a pair that is unblocked, unswiped and answered  *)
(* in the very step that commits it, whatever was read before.             *)
(***************************************************************************)
Promise == INSTANCE MatchingPromise WITH
  swipes <- swipes, matches <- matches, blocks <- blocks
PromiseKept == Promise!Spec
=============================================================================
