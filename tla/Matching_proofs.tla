-------------------------- MODULE Matching_proofs --------------------------
(***************************************************************************)
(* Proofs about Matching, for any finite sets of users and requests, any   *)
(* limit and any number of days.                                           *)
(***************************************************************************)
EXTENDS Matching, FiniteSetTheorems, TLAPS

(***************************************************************************)
(* The users of a request are two different accounts, and a swipe has an   *)
(* action: service.go refuses anything else before it looks at the tables. *)
(***************************************************************************)
ReqOK ==
  \A r \in Requests : pc[r] # "idle" =>
    /\ req[r].actor \in Users
    /\ req[r].target \in Users
    /\ req[r].actor # req[r].target
    /\ pc[r] \notin {"block", "blocking"} => req[r].action \in Actions

\* A pair of different users is a pair.
LEMMA PairIsPair == \A a, t \in Users : a # t => {a, t} \in Pairs
BY DEF Pairs

ReqType == req \in [Requests -> [actor : Users \union {NoUser}, target : Users \union {NoUser},
                                 action : Actions \union {"none"}, day : Days,
                                 persisted : Nat, mutual : BOOLEAN]]

\* A request moves and keeps its variables.
LEMMA GotoOK ==
  ASSUME pc \in [Requests -> States], ReqOK, NEW r \in Requests, NEW from, NEW to \in States,
         Goto(r, from, to), from # "idle", UNCHANGED req,
         to \in {"block", "blocking"} => from \in {"block", "blocking"},
         from \in {"block", "blocking"} => to \in {"block", "blocking"}
  PROVE  /\ pc' \in [Requests -> States]
         /\ pc[r] = from /\ pc'[r] = to
         /\ \A q \in Requests \ {r} : pc'[q] = pc[q]
         /\ ReqOK'
BY DEF Goto, ReqOK

\* A request ends and its slot is cleared.
LEMMA ReturnOK ==
  ASSUME pc \in [Requests -> States], ReqType, ReqOK, NEW r \in Requests, NEW from, Return(r, from)
  PROVE  /\ pc' \in [Requests -> States]
         /\ pc[r] = from /\ pc'[r] = "idle"
         /\ \A q \in Requests \ {r} : pc'[q] = pc[q] /\ req'[q] = req[q]
         /\ req'[r] = NoReq
         /\ ReqType'
         /\ ReqOK'
<1>1. /\ pc' \in [Requests -> States]
      /\ pc[r] = from /\ pc'[r] = "idle"
      /\ \A q \in Requests \ {r} : pc'[q] = pc[q]
  BY DEF Return, Goto, States
<1>2. NoReq \in [actor : Users \union {NoUser}, target : Users \union {NoUser},
                 action : Actions \union {"none"}, day : Days,
                 persisted : Nat, mutual : BOOLEAN]
  BY MatchingAssumption DEF NoReq, Days
<1>3. ReqType' /\ req'[r] = NoReq /\ \A q \in Requests \ {r} : req'[q] = req[q]
  BY <1>2 DEF Return, ReqType
<1>4. ReqOK'
  BY <1>1, <1>3 DEF ReqOK
<1> QED BY <1>1, <1>3, <1>4

\* The lock, when a transaction ends or begins.
LEMMA LockType ==
  ASSUME lock \in [Pairs -> Requests \union {NoRequest}], NEW r \in Requests
  PROVE  /\ Unlocked(r) \in [Pairs -> Requests \union {NoRequest}]
         /\ [lock EXCEPT ![Pair(r)] = r] \in [Pairs -> Requests \union {NoRequest}]
BY DEF Unlocked

(***************************************************************************)
(* The rows, keys and request variables keep their types, and every        *)
(* request is about two different people, in every step of LossyNext.      *)
(***************************************************************************)
LEMMA TypeStep ==
  ASSUME TypeOK, ReqOK, [LossyNext]_vars
  PROVE  TypeOK' /\ ReqOK'
<1> ReqType BY DEF TypeOK, ReqType
<1> USE MatchingAssumption
<1>1. ASSUME NEW r \in Requests, NEW a \in Users, NEW t \in Users, NEW action \in Actions,
             SwipeStart(r, a, t, action)
      PROVE  TypeOK' /\ ReqOK'
  BY <1>1 DEF SwipeStart, Goto, TypeOK, ReqOK, Fresh, tables, States
<1>2. ASSUME NEW r \in Requests, Count(r)
      PROVE  TypeOK' /\ ReqOK'
  <2>1. CountSwipesSince(req[r].actor, req[r].day) \in Nat
    BY FS_Subset, FS_CardinalityType DEF CountSwipesSince
  <2>2. ReqType'
    BY <1>2, <2>1 DEF Count, ReqType
  <2>3. pc' \in [Requests -> States] /\ ReqOK'
    BY <1>2 DEF Count, Goto, ReqOK, ReqType, TypeOK, States
  <2> QED BY <1>2, <2>2, <2>3 DEF Count, TypeOK, ReqType, tables
<1>3. ASSUME NEW r \in Requests, CountLimit(r)
      PROVE  TypeOK' /\ ReqOK'
  BY <1>3, ReturnOK DEF CountLimit, TypeOK, ReqType, tables
<1>4. ASSUME NEW r \in Requests, Granted(r), pc[r] = "reserve"
      PROVE  counter' \in [Users -> [Days -> Nat]]
  BY <1>4 DEF Granted, RaisedTo, TypeOK, ReqOK
<1>5. ASSUME NEW r \in Requests, Reserve(r)
      PROVE  TypeOK' /\ ReqOK'
  BY <1>5, <1>4, GotoOK DEF Reserve, Goto, TypeOK, States, Reserved, tables
<1>6. ASSUME NEW r \in Requests, ReserveLimit(r)
      PROVE  TypeOK' /\ ReqOK'
  <2>1. counter' \in [Users -> [Days -> Nat]]
    BY <1>6, ReturnOK DEF ReserveLimit, RaisedTo, TypeOK, ReqOK, ReqType
  <2> QED BY <1>6, <2>1, ReturnOK DEF ReserveLimit, TypeOK, ReqType, tables
<1>7. ASSUME NEW r \in Requests, ReserveUnavailable(r)
      PROVE  TypeOK' /\ ReqOK'
  BY <1>7, ReturnOK DEF ReserveUnavailable, TypeOK, ReqType, tables
<1>8. ASSUME NEW r \in Requests, RecordLock(r)
      PROVE  TypeOK' /\ ReqOK'
  BY <1>8, GotoOK, LockType DEF RecordLock, TypeOK, States, Reserved, tables
<1>9. ASSUME NEW r \in Requests, TxRefuse(r)
      PROVE  TypeOK' /\ ReqOK'
  BY <1>9, GotoOK, LockType DEF TxRefuse, TypeOK, States, Reserved, tables
<1>10. ASSUME NEW r \in Requests, TxInsert(r)
       PROVE  TypeOK' /\ ReqOK'
  BY <1>10, GotoOK DEF TxInsert, TypeOK, States, Reserved, tables
<1>11. ASSUME NEW r \in Requests, TxMutual(r)
       PROVE  TypeOK' /\ ReqOK'
  <2> DEFINE m == /\ IsPositive(req[r].action)
                  /\ IsPositive(swipes[req[r].target][req[r].actor])
  <2>a. m \in BOOLEAN
    BY DEF IsPositive
  <2>b. req' = [req EXCEPT ![r].mutual = m]
    BY <1>11 DEF TxMutual
  <2> HIDE DEF m
  <2>1. ReqType'
    BY <2>a, <2>b DEF ReqType
  <2>2. pc' \in [Requests -> States] /\ ReqOK'
    BY <1>11 DEF TxMutual, Goto, ReqOK, ReqType, TypeOK, States, Reserved
  <2> QED BY <1>11, <2>1, <2>2 DEF TxMutual, TypeOK, ReqType, tables
<1>12. ASSUME NEW r \in Requests, Written(r), pc[r] = "commit"
       PROVE  /\ swipes' \in [Users -> [Users -> Actions \union {"none"}]]
              /\ swipeDay' \in [Users -> [Users -> Days]]
              /\ matches' \in [Pairs -> {"none", "active", "unmatched"}]
              /\ blocks' = blocks
              /\ lock' \in [Pairs -> Requests \union {NoRequest}]
  <2>1. /\ req[r].actor \in Users /\ req[r].target \in Users
        /\ req[r].action \in Actions /\ req[r].day \in Days
        /\ {req[r].actor, req[r].target} \in Pairs
    BY <1>12, PairIsPair DEF ReqOK, ReqType
  <2>2. matches' \in [Pairs -> {"none", "active", "unmatched"}]
    BY <1>12, <2>1 DEF Written, TypeOK, Inserted
  <2> QED BY <1>12, <2>1, <2>2, LockType DEF Written, TypeOK
<1>13. ASSUME NEW r \in Requests, Commit(r)
       PROVE  TypeOK' /\ ReqOK'
  <2>1. pc[r] = "commit"
    BY <1>13, ReturnOK DEF Commit, TypeOK
  <2> QED BY <1>13, <2>1, <1>12, ReturnOK DEF Commit, TypeOK, ReqType
<1>14. ASSUME NEW r \in Requests, CommitAnswerLost(r)
       PROVE  TypeOK' /\ ReqOK'
  <2>1. pc[r] = "commit"
    BY <1>14 DEF CommitAnswerLost, Goto
  <2> QED BY <1>14, <2>1, <1>12, GotoOK DEF CommitAnswerLost, TypeOK, States, Reserved
<1>15. ASSUME NEW r \in Requests, RecordFails(r)
       PROVE  TypeOK' /\ ReqOK'
  <2>1. lock' \in [Pairs -> Requests \union {NoRequest}]
    BY <1>15, LockType DEF RecordFails, TypeOK
  <2>2. PICK s \in {"record", "locked", "inserted", "commit"} : Goto(r, s, "release")
    BY <1>15 DEF RecordFails
  <2> QED BY <1>15, <2>1, <2>2, GotoOK DEF RecordFails, TypeOK, States, Reserved, tables
<1>16. ASSUME NEW r \in Requests, Release(r)
       PROVE  TypeOK' /\ ReqOK'
  <2>1. counter' \in [Users -> [Days -> Nat]]
    BY <1>16, ReturnOK DEF Release, Released, TypeOK, ReqOK, ReqType
  <2> QED BY <1>16, <2>1, ReturnOK DEF Release, TypeOK, ReqType, tables
<1>17. ASSUME NEW r \in Requests, NEW a \in Users, NEW t \in Users, BlockStart(r, a, t)
       PROVE  TypeOK' /\ ReqOK'
  <2>1. ReqType' /\ req'[r].actor = a /\ req'[r].target = t
    BY <1>17 DEF BlockStart, Fresh, ReqType, TypeOK
  <2>2. /\ pc' \in [Requests -> States] /\ pc'[r] = "block"
        /\ \A q \in Requests \ {r} : pc'[q] = pc[q] /\ req'[q] = req[q]
    BY <1>17 DEF BlockStart, Goto, TypeOK, States
  <2>3. ReqOK'
    BY <1>17, <2>1, <2>2 DEF ReqOK, BlockStart
  <2> QED BY <1>17, <2>1, <2>2, <2>3 DEF BlockStart, TypeOK, ReqType, tables
<1>18. ASSUME NEW r \in Requests, BlockLock(r)
       PROVE  TypeOK' /\ ReqOK'
  BY <1>18, GotoOK, LockType DEF BlockLock, TypeOK, States, InTx, tables
<1>19. ASSUME NEW r \in Requests, BlockCommit(r)
       PROVE  TypeOK' /\ ReqOK'
  <2>1. pc[r] = "blocking"
    BY <1>19, ReturnOK DEF BlockCommit, TypeOK
  <2>2. blocks' \subseteq Users \X Users
    BY <1>19, <2>1 DEF BlockCommit, TypeOK, ReqOK
  <2>3. matches' \in [Pairs -> {"none", "active", "unmatched"}]
    BY <1>19 DEF BlockCommit, TypeOK, Closed
  <2> QED BY <1>19, <2>2, <2>3, ReturnOK, LockType DEF BlockCommit, TypeOK, ReqType
<1>20. ASSUME NEW r \in Requests, BlockFails(r)
       PROVE  TypeOK' /\ ReqOK'
  <2>1. lock' \in [Pairs -> Requests \union {NoRequest}]
    BY <1>20, LockType DEF BlockFails, TypeOK
  <2> QED BY <1>20, <2>1, ReturnOK DEF BlockFails, TypeOK, ReqType, tables
<1>21. ASSUME NEW p \in Pairs, Unmatch(p)
       PROVE  TypeOK' /\ ReqOK'
  BY <1>21 DEF Unmatch, TypeOK, ReqOK
<1>22. CASE NextDay
  <2>1. today' = today + 1 /\ today' \in Days /\ UNCHANGED <<tables, lock, counter, pc, req>>
    BY <1>22 DEF NextDay, TypeOK, Days
  <2> QED BY <1>22, <2>1 DEF NextDay, TypeOK, ReqOK, tables
<1>23. ASSUME NEW r \in Requests, Crash(r)
       PROVE  TypeOK' /\ ReqOK'
  <2>1. lock' \in [Pairs -> Requests \union {NoRequest}]
    BY <1>23, LockType DEF Crash, TypeOK
  <2> QED BY <1>23, <2>1, ReturnOK DEF Crash, TypeOK, ReqType, tables
<1>24. ASSUME NEW r \in Requests, ReserveAnswerLost(r)
       PROVE  TypeOK' /\ ReqOK'
  <2>1. pc[r] = "reserve"
    BY <1>24, ReturnOK DEF ReserveAnswerLost, TypeOK
  <2> QED BY <1>24, <2>1, <1>4, ReturnOK DEF ReserveAnswerLost, TypeOK, ReqType, tables
<1>25. ASSUME NEW r \in Requests, ReleaseUnavailable(r)
       PROVE  TypeOK' /\ ReqOK'
  BY <1>25, ReturnOK DEF ReleaseUnavailable, TypeOK, ReqType, tables
<1>26. CASE RedisRestart
  BY <1>26 DEF RedisRestart, TypeOK, ReqOK, tables
<1>27. CASE UNCHANGED vars
  BY <1>27 DEF vars, tables, TypeOK, ReqOK
<1> QED
  BY <1>1, <1>2, <1>3, <1>5, <1>6, <1>7, <1>8, <1>9, <1>10, <1>11, <1>13, <1>14, <1>15, <1>16,
     <1>17, <1>18, <1>19, <1>20, <1>21, <1>22, <1>23, <1>24, <1>25, <1>26, <1>27
  DEF LossyNext, RestartNext, CrashNext, Next, Step

(***************************************************************************)
(* The model's state stays within its types under every failure of the     *)
(* model.                                                                  *)
(***************************************************************************)
THEOREM TypeCorrect == LossySpec => [](TypeOK /\ ReqOK)
<1>1. Init => TypeOK /\ ReqOK
  BY MatchingAssumption DEF Init, TypeOK, ReqOK, NoReq, States, Days
<1> QED BY <1>1, TypeStep, PTL DEF LossySpec
-----------------------------------------------------------------------------
(***************************************************************************)
(* The pairs.  The lock of a pair belongs to the one transaction on it; so *)
(* what that transaction read still stands when it commits, and the rows   *)
(* it writes keep the two pair invariants.                                 *)
(***************************************************************************)
LockOK == \A r \in Requests : pc[r] \in InTx => lock[Pair(r)] = r

TxOf(r) ==
  /\ pc[r] \in {"inserted", "commit"} =>
       /\ ~InteractionBlocked(req[r].actor, req[r].target)
       /\ swipes[req[r].actor][req[r].target] = "none"
  /\ pc[r] = "commit" =>
       (req[r].mutual <=> /\ IsPositive(req[r].action)
                          /\ IsPositive(swipes[req[r].target][req[r].actor]))

TxOK == \A r \in Requests : TxOf(r)

PairInv == LockOK /\ TxOK /\ MatchIffMutual /\ BlockedNotMatched

\* Two transactions that run at once are on different pairs.
LEMMA OneTxPerPair ==
  ASSUME LockOK, NEW r \in Requests, NEW q \in Requests, q # r, pc[r] \in InTx, pc[q] \in InTx
  PROVE  Pair(r) # Pair(q)
BY DEF LockOK

\* A step of one request, outside its transaction or out of it, that leaves
\* the rows alone.
LEMMA QuietStep ==
  ASSUME TypeOK, ReqOK, PairInv, NEW r \in Requests,
         UNCHANGED <<swipes, matches, blocks>>,
         \A q \in Requests \ {r} : pc'[q] = pc[q] /\ req'[q] = req[q],
         pc'[r] \notin InTx,
         lock' = lock \/ (pc[r] \in InTx /\ lock' = Unlocked(r))
  PROVE  PairInv'
<1>1. LockOK'
  <2> SUFFICES ASSUME NEW q \in Requests, pc'[q] \in InTx
               PROVE  lock'[Pair(q)'] = q
    BY DEF LockOK
  <2>1. q # r /\ pc[q] \in InTx /\ Pair(q)' = Pair(q) /\ lock[Pair(q)] = q
    BY DEF Pair, PairInv, LockOK
  <2>2. Pair(q) \in Pairs
    BY <2>1, PairIsPair DEF ReqOK, Pair, InTx
  <2>3. CASE lock' = lock
    BY <2>1, <2>3
  <2>4. CASE pc[r] \in InTx /\ lock' = Unlocked(r)
    <3>1. Pair(r) # Pair(q)
      BY <2>1, <2>4, OneTxPerPair DEF PairInv
    <3> QED BY <2>1, <2>2, <2>4, <3>1 DEF Unlocked, TypeOK
  <2> QED BY <2>3, <2>4
<1>2. TxOK'
  BY DEF PairInv, TxOK, TxOf, InTx, InteractionBlocked
<1>3. MatchIffMutual' /\ BlockedNotMatched'
  BY DEF PairInv, MatchIffMutual, BlockedNotMatched, InteractionBlocked
<1> QED BY <1>1, <1>2, <1>3 DEF PairInv

\* A transaction takes the lock of its pair.
LEMMA LockStep ==
  ASSUME TypeOK, ReqOK, PairInv, NEW r \in Requests, pc[r] # "idle",
         UNCHANGED <<swipes, matches, blocks, req>>,
         \A q \in Requests \ {r} : pc'[q] = pc[q],
         pc'[r] \in {"locked", "blocking"}, pc[r] \notin InTx,
         CanLock(r), lock' = [lock EXCEPT ![Pair(r)] = r]
  PROVE  PairInv'
<1> USE MatchingAssumption
<1>1. LockOK'
  <2> SUFFICES ASSUME NEW q \in Requests, pc'[q] \in InTx
               PROVE  lock'[Pair(q)'] = q
    BY DEF LockOK
  <2>1. Pair(q)' = Pair(q)
    BY DEF Pair
  <2>2. CASE q = r
    BY <2>1, <2>2, PairIsPair DEF TypeOK, ReqOK, Pair
  <2>3. CASE q # r
    BY <2>1, <2>3 DEF TypeOK, PairInv, LockOK, CanLock
  <2> QED BY <2>2, <2>3
<1>2. TxOK'
  BY DEF PairInv, TxOK, TxOf, InteractionBlocked
<1>3. MatchIffMutual' /\ BlockedNotMatched'
  BY DEF PairInv, MatchIffMutual, BlockedNotMatched, InteractionBlocked
<1> QED BY <1>1, <1>2, <1>3 DEF PairInv

\* A transaction whose step inside leaves the tables and the lock alone.
LEMMA InnerStep ==
  ASSUME TypeOK, ReqOK, PairInv, NEW r \in Requests, TxInsert(r) \/ TxMutual(r)
  PROVE  PairInv'
<1>1. /\ UNCHANGED <<swipes, matches, blocks, lock>>
      /\ pc[r] \in InTx /\ pc'[r] \in InTx
      /\ Pair(r)' = Pair(r)
      /\ req'[r].actor = req[r].actor /\ req'[r].target = req[r].target
      /\ req'[r].action = req[r].action
      /\ \A q \in Requests \ {r} : pc'[q] = pc[q] /\ req'[q] = req[q] /\ Pair(q)' = Pair(q)
  BY DEF TxInsert, TxMutual, Goto, TypeOK, InTx, Pair, tables
<1>2. LockOK'
  <2> SUFFICES ASSUME NEW q \in Requests, pc'[q] \in InTx
               PROVE  lock'[Pair(q)'] = q
    BY DEF LockOK
  <2>1. pc[q] \in InTx /\ Pair(q)' = Pair(q)
    BY <1>1
  <2> QED BY <1>1, <2>1 DEF PairInv, LockOK
<1>3. MatchIffMutual' /\ BlockedNotMatched'
  BY <1>1 DEF PairInv, MatchIffMutual, BlockedNotMatched, InteractionBlocked
<1>4. CASE TxInsert(r)
  <2>1. ASSUME NEW q \in Requests PROVE TxOf(q)'
    <3>1. TxOf(q)
      BY DEF PairInv, TxOK
    <3>2. CASE q = r
      BY <1>1, <1>4, <3>1, <3>2 DEF TxOf, TxInsert, Goto, TypeOK, InteractionBlocked
    <3>3. CASE q # r
      BY <1>1, <3>1, <3>3 DEF TxOf, InteractionBlocked
    <3> QED BY <3>2, <3>3
  <2> QED BY <1>2, <1>3, <2>1 DEF PairInv, TxOK
<1>5. CASE TxMutual(r)
  <2> DEFINE m == /\ IsPositive(req[r].action)
                  /\ IsPositive(swipes[req[r].target][req[r].actor])
  <2>1. m \in BOOLEAN
    BY DEF IsPositive
  <2>2. req'[r].mutual = m /\ pc[r] = "inserted" /\ pc'[r] = "commit"
    BY <1>5, <2>1 DEF TxMutual, Goto, TypeOK
  <2>3. TxOf(r)'
    BY <1>1, <2>2 DEF PairInv, TxOK, TxOf, InteractionBlocked
  <2>4. ASSUME NEW q \in Requests, q # r PROVE TxOf(q)'
    BY <1>1, <2>4 DEF PairInv, TxOK, TxOf, InteractionBlocked
  <2> QED BY <1>2, <1>3, <2>3, <2>4 DEF PairInv, TxOK
<1> QED BY <1>4, <1>5

\* A transaction commits its swipe, and the match the swipe completes.
LEMMA WrittenStep ==
  ASSUME TypeOK, ReqOK, PairInv, NEW r \in Requests, pc[r] = "commit", Written(r),
         pc'[r] \notin InTx,
         \A q \in Requests \ {r} : pc'[q] = pc[q] /\ req'[q] = req[q]
  PROVE  PairInv'
<1> DEFINE a == req[r].actor
           t == req[r].target
<1>1. /\ a \in Users /\ t \in Users /\ a # t /\ {a, t} \in Pairs
      /\ req[r].action \in Actions
      /\ ~InteractionBlocked(a, t) /\ swipes[a][t] = "none"
      /\ req[r].mutual <=> IsPositive(req[r].action) /\ IsPositive(swipes[t][a])
  BY PairIsPair DEF ReqOK, PairInv, TxOK, TxOf
<1>2. /\ swipes'[a][t] = req[r].action
      /\ \A b, u \in Users : <<b, u>> # <<a, t>> => swipes'[b][u] = swipes[b][u]
  BY <1>1 DEF Written, TypeOK
<1>3. /\ matches'[{a, t}] = IF req[r].mutual THEN Inserted(matches[{a, t}]) ELSE matches[{a, t}]
      /\ \A p \in Pairs : p # {a, t} => matches'[p] = matches[p]
      /\ blocks' = blocks /\ lock' = Unlocked(r)
  BY <1>1 DEF Written, TypeOK
<1>4. matches[{a, t}] = "none"
  BY <1>1 DEF PairInv, MatchIffMutual, IsPositive
<1> HIDE DEF a, t
<1>5. LockOK'
  <2> SUFFICES ASSUME NEW q \in Requests, pc'[q] \in InTx
               PROVE  lock'[Pair(q)'] = q
    BY DEF LockOK
  <2>1. q # r /\ pc[q] \in InTx /\ Pair(q)' = Pair(q) /\ lock[Pair(q)] = q
    BY DEF Pair, PairInv, LockOK
  <2>2. Pair(q) \in Pairs
    BY <2>1, PairIsPair DEF ReqOK, Pair, InTx
  <2>3. Pair(r) # Pair(q)
    BY <2>1, OneTxPerPair DEF PairInv, InTx
  <2> QED BY <1>3, <2>1, <2>2, <2>3 DEF Unlocked, TypeOK
<1>6. TxOK'
  <2> SUFFICES ASSUME NEW q \in Requests, pc'[q] \in {"inserted", "commit"}
               PROVE  TxOf(q)'
    BY DEF TxOK, TxOf
  <2>1. q # r /\ pc[q] \in InTx /\ pc'[q] = pc[q] /\ req'[q] = req[q]
    BY DEF InTx
  <2>2. req[q].actor \in Users /\ req[q].target \in Users
    BY <2>1 DEF ReqOK, InTx
  <2>3. {req[q].actor, req[q].target} # {a, t}
    BY <2>1, OneTxPerPair DEF PairInv, InTx, Pair, a, t
  <2>4. /\ <<req[q].actor, req[q].target>> # <<a, t>>
        /\ <<req[q].target, req[q].actor>> # <<a, t>>
    BY <2>3
  <2> QED BY <1>2, <1>3, <2>1, <2>2, <2>4 DEF PairInv, TxOK, TxOf, InteractionBlocked
<1>7. MatchIffMutual'
  <2> SUFFICES ASSUME NEW b \in Users, NEW u \in Users, b # u
               PROVE  (matches'[{b, u}] # "none") <=>
                        (IsPositive(swipes'[b][u]) /\ IsPositive(swipes'[u][b]))
    BY DEF MatchIffMutual, IsPositive
  <2>1. CASE {b, u} = {a, t}
    <3>1. (b = a /\ u = t) \/ (b = t /\ u = a)
      BY <2>1
    <3>2. swipes'[a][t] = req[r].action /\ swipes'[t][a] = swipes[t][a]
      BY <1>1, <1>2
    <3> QED BY <1>1, <1>3, <1>4, <2>1, <3>1, <3>2 DEF Inserted
  <2>2. CASE {b, u} # {a, t}
    <3>1. <<b, u>> # <<a, t>> /\ <<u, b>> # <<a, t>> /\ {b, u} \in Pairs
      BY <2>2, PairIsPair
    <3> QED BY <1>2, <1>3, <2>2, <3>1 DEF PairInv, MatchIffMutual
  <2> QED BY <2>1, <2>2
<1>8. BlockedNotMatched'
  <2> SUFFICES ASSUME NEW b \in Users, NEW u \in Users, b # u, InteractionBlocked(b, u)
               PROVE  matches'[{b, u}] # "active"
    BY <1>3 DEF BlockedNotMatched, InteractionBlocked
  <2>1. {b, u} # {a, t}
    BY <1>1 DEF InteractionBlocked
  <2> QED BY <1>3, <2>1, PairIsPair DEF PairInv, BlockedNotMatched
<1> QED BY <1>5, <1>6, <1>7, <1>8 DEF PairInv

\* A block commits: the pair's match, if any, is closed with it.
LEMMA BlockStep ==
  ASSUME TypeOK, ReqOK, PairInv, NEW r \in Requests, BlockCommit(r)
  PROVE  PairInv'
<1> DEFINE a == req[r].actor
           t == req[r].target
<1>1. /\ pc[r] = "blocking" /\ pc'[r] = "idle"
      /\ \A q \in Requests \ {r} : pc'[q] = pc[q] /\ req'[q] = req[q]
  BY DEF BlockCommit, Return, Goto, TypeOK, States
<1>2. a \in Users /\ t \in Users /\ a # t /\ {a, t} \in Pairs
  BY <1>1, PairIsPair DEF ReqOK
<1>3. /\ swipes' = swipes /\ blocks' = blocks \union {<<a, t>>} /\ lock' = Unlocked(r)
      /\ matches'[{a, t}] = Closed(matches[{a, t}])
      /\ \A p \in Pairs : p # {a, t} => matches'[p] = matches[p]
  BY <1>2 DEF BlockCommit, Pair, TypeOK
<1> HIDE DEF a, t
<1>4. LockOK'
  <2> SUFFICES ASSUME NEW q \in Requests, pc'[q] \in InTx
               PROVE  lock'[Pair(q)'] = q
    BY DEF LockOK
  <2>1. q # r /\ pc[q] \in InTx /\ Pair(q)' = Pair(q) /\ lock[Pair(q)] = q
    BY <1>1 DEF Pair, PairInv, LockOK, InTx
  <2>2. Pair(q) \in Pairs
    BY <2>1, PairIsPair DEF ReqOK, Pair, InTx
  <2>3. Pair(r) # Pair(q)
    BY <1>1, <2>1, OneTxPerPair DEF PairInv, InTx
  <2> QED BY <1>3, <2>1, <2>2, <2>3 DEF Unlocked, TypeOK
<1>5. TxOK'
  <2> SUFFICES ASSUME NEW q \in Requests, pc'[q] \in {"inserted", "commit"}
               PROVE  TxOf(q)'
    BY DEF TxOK, TxOf
  <2>1. q # r /\ pc[q] \in InTx /\ pc'[q] = pc[q] /\ req'[q] = req[q]
    BY <1>1 DEF InTx
  <2>2. {req[q].actor, req[q].target} # {a, t}
    BY <1>1, <2>1, OneTxPerPair DEF PairInv, InTx, Pair, a, t
  <2>3. /\ <<req[q].actor, req[q].target>> # <<a, t>>
        /\ <<req[q].target, req[q].actor>> # <<a, t>>
    BY <2>2
  <2> QED BY <1>3, <2>1, <2>3 DEF PairInv, TxOK, TxOf, InteractionBlocked
<1>6. MatchIffMutual'
  <2> SUFFICES ASSUME NEW b \in Users, NEW u \in Users, b # u
               PROVE  (matches'[{b, u}] # "none") <=>
                        (IsPositive(swipes[b][u]) /\ IsPositive(swipes[u][b]))
    BY <1>3 DEF MatchIffMutual, IsPositive
  <2>1. matches'[{b, u}] = "none" <=> matches[{b, u}] = "none"
    BY <1>3, PairIsPair DEF Closed
  <2> QED BY <2>1 DEF PairInv, MatchIffMutual
<1>7. BlockedNotMatched'
  <2> SUFFICES ASSUME NEW b \in Users, NEW u \in Users, b # u, InteractionBlocked(b, u)'
               PROVE  matches'[{b, u}] # "active"
    BY DEF BlockedNotMatched
  <2>1. CASE {b, u} = {a, t}
    BY <1>3, <2>1 DEF Closed
  <2>2. CASE {b, u} # {a, t}
    <3>1. InteractionBlocked(b, u)
      BY <1>3, <2>2 DEF InteractionBlocked
    <3> QED BY <1>3, <2>2, <3>1, PairIsPair DEF PairInv, BlockedNotMatched
  <2> QED BY <2>1, <2>2
<1> QED BY <1>4, <1>5, <1>6, <1>7 DEF PairInv

\* Every step of one request that is neither inside a transaction nor a commit.
QuietAction(r) ==
  \/ \E a, t \in Users : \E action \in Actions : SwipeStart(r, a, t, action)
  \/ \E a, t \in Users : BlockStart(r, a, t)
  \/ Count(r) \/ CountLimit(r)
  \/ Reserve(r) \/ ReserveLimit(r) \/ ReserveUnavailable(r) \/ ReserveAnswerLost(r)
  \/ TxRefuse(r) \/ RecordFails(r) \/ BlockFails(r)
  \/ Release(r) \/ ReleaseUnavailable(r)
  \/ Crash(r)

\* Each of those actions is one of the quiet steps above.
LEMMA QuietActionStep ==
  ASSUME TypeOK, ReqOK, PairInv, NEW r \in Requests, QuietAction(r)
  PROVE  PairInv'
<1>1. /\ UNCHANGED <<swipes, matches, blocks>>
      /\ \A q \in Requests \ {r} : pc'[q] = pc[q] /\ req'[q] = req[q]
      /\ pc'[r] \notin InTx
      /\ lock' = lock \/ (pc[r] \in InTx /\ lock' = Unlocked(r))
  <2> USE DEF Goto, Return, TypeOK, InTx, tables
  <2>1. CASE \/ \E a, t \in Users : \E action \in Actions : SwipeStart(r, a, t, action)
             \/ \E a, t \in Users : BlockStart(r, a, t)
    BY <2>1 DEF SwipeStart, BlockStart
  <2>2. CASE Count(r) \/ CountLimit(r)
    BY <2>2 DEF Count, CountLimit
  <2>3. CASE Reserve(r) \/ ReserveLimit(r) \/ ReserveUnavailable(r) \/ ReserveAnswerLost(r)
    BY <2>3 DEF Reserve, ReserveLimit, ReserveUnavailable, ReserveAnswerLost
  <2>4. CASE TxRefuse(r) \/ RecordFails(r) \/ BlockFails(r)
    BY <2>4 DEF TxRefuse, RecordFails, BlockFails
  <2>5. CASE Release(r) \/ ReleaseUnavailable(r)
    BY <2>5 DEF Release, ReleaseUnavailable
  <2>6. CASE Crash(r)
    BY <2>6 DEF Crash
  <2> QED BY <2>1, <2>2, <2>3, <2>4, <2>5, <2>6 DEF QuietAction
<1> QED BY <1>1, QuietStep

\* The steps of LossyNext, by what they do to a pair.
LEMMA StepCases ==
  ASSUME [LossyNext]_vars
  PROVE  \/ \E r \in Requests : QuietAction(r)
         \/ \E r \in Requests : RecordLock(r) \/ BlockLock(r)
         \/ \E r \in Requests : TxInsert(r) \/ TxMutual(r)
         \/ \E r \in Requests : Commit(r) \/ CommitAnswerLost(r)
         \/ \E r \in Requests : BlockCommit(r)
         \/ \E p \in Pairs : Unmatch(p)
         \/ UNCHANGED <<tables, lock, pc, req>>
BY DEF LossyNext, RestartNext, CrashNext, Next, Step, QuietAction, vars, NextDay, RedisRestart

\* Every step, also one that fails, keeps the invariant of the pairs.
LEMMA PairStep ==
  ASSUME TypeOK, ReqOK, PairInv, [LossyNext]_vars
  PROVE  PairInv'
<1>1. ASSUME NEW r \in Requests, RecordLock(r) \/ BlockLock(r)
      PROVE  PairInv'
  BY <1>1, LockStep DEF RecordLock, BlockLock, Goto, TypeOK, States, Reserved, InTx, tables
<1>2. ASSUME NEW r \in Requests, Commit(r) \/ CommitAnswerLost(r)
      PROVE  PairInv'
  BY <1>2, WrittenStep DEF Commit, CommitAnswerLost, Return, Goto, TypeOK, InTx
<1>3. ASSUME NEW p \in Pairs, Unmatch(p)
      PROVE  PairInv'
  BY <1>3, PairIsPair
  DEF Unmatch, TypeOK, PairInv, LockOK, Pair, TxOK, TxOf, MatchIffMutual, BlockedNotMatched, InteractionBlocked
<1>4. CASE UNCHANGED <<tables, lock, pc, req>>
  BY <1>4
  DEF tables, PairInv, LockOK, Pair, TxOK, TxOf, MatchIffMutual, BlockedNotMatched, InteractionBlocked
<1> QED BY <1>1, <1>2, <1>3, <1>4, StepCases, QuietActionStep, InnerStep, BlockStep

\* Before any request, no pair has a row or a lock.
LEMMA PairInit == Init => PairInv
BY PairIsPair
DEF Init, PairInv, LockOK, TxOK, TxOf, InTx, MatchIffMutual, BlockedNotMatched, InteractionBlocked, IsPositive

\* The pair invariant holds in every state, whatever fails.
LEMMA PairInvariant == LossySpec => [](TypeOK /\ ReqOK /\ PairInv)
<1>1. Init => PairInv
  BY PairInit
<1>2. TypeOK /\ ReqOK /\ PairInv /\ [LossyNext]_vars => PairInv'
  BY PairStep
<1> QED BY <1>1, <1>2, TypeCorrect, PTL DEF LossySpec

(***************************************************************************)
(* Whatever fails, two people have a match row exactly when both swiped    *)
(* positively (RecordSwipe): no race of two likes misses one.              *)
(***************************************************************************)
THEOREM MatchesCorrect == LossySpec => []MatchIffMutual
BY PairInvariant, PTL DEF PairInv

(***************************************************************************)
(* There is never an active match across a block (BlockUser), also when    *)
(* the block commits between the steps of a swipe under way.               *)
(***************************************************************************)
THEOREM BlocksHold == LossySpec => []BlockedNotMatched
BY PairInvariant, PTL DEF PairInv
-----------------------------------------------------------------------------
\* The empty tables are the initial state of the promise.
LEMMA PromiseInit == Init => Promise!Init
BY DEF Init, Promise!Init, Pairs, Promise!Pairs

\* Every step of the pipeline is a step of the promise or leaves its tables alone.
LEMMA PromiseStep ==
  ASSUME TypeOK, ReqOK, PairInv, [LossyNext]_vars
  PROVE  [Promise!Next]_Promise!promiseVars
<1> USE DEF Promise!promiseVars
<1>1. ASSUME NEW r \in Requests, Commit(r) \/ CommitAnswerLost(r)
      PROVE  Promise!Next
  <2> DEFINE a == req[r].actor
             t == req[r].target
  <2>1. pc[r] = "commit" /\ Written(r)
    BY <1>1 DEF Commit, CommitAnswerLost, Return, Goto
  <2>2. /\ a \in Users /\ t \in Users /\ a # t /\ {a, t} \in Pairs
        /\ req[r].action \in Actions
        /\ ~InteractionBlocked(a, t) /\ swipes[a][t] = "none"
        /\ req[r].mutual <=> IsPositive(req[r].action) /\ IsPositive(swipes[t][a])
    BY <2>1, PairIsPair DEF ReqOK, PairInv, TxOK, TxOf
  <2>3. matches[{a, t}] = "none"
    BY <2>2 DEF PairInv, MatchIffMutual, IsPositive
  <2>4. matches' = IF IsPositive(req[r].action) /\ IsPositive(swipes[t][a])
                     THEN [matches EXCEPT ![{a, t}] = "active"]
                     ELSE matches
    BY <2>1, <2>2, <2>3 DEF Written, Inserted
  <2>5. Promise!Swipe(a, t, req[r].action)
    BY <2>1, <2>2, <2>4
    DEF Promise!Swipe, Written, InteractionBlocked, Promise!AreBlocked,
        IsPositive, Promise!IsPositiveAction
  <2> QED BY <2>2, <2>5 DEF Promise!Next
<1>2. ASSUME NEW r \in Requests, BlockCommit(r)
      PROVE  Promise!Next
  <2> DEFINE a == req[r].actor
             t == req[r].target
  <2>1. a \in Users /\ t \in Users /\ a # t
    BY <1>2 DEF BlockCommit, Return, Goto, ReqOK
  <2>2. Promise!Block(a, t)
    BY <1>2, <2>1 DEF BlockCommit, Promise!Block, Pair, Closed
  <2> QED BY <2>1, <2>2 DEF Promise!Next
<1>3. ASSUME NEW p \in Pairs, Unmatch(p)
      PROVE  Promise!Next
  <2>1. Promise!Unmatch(p)
    BY <1>3 DEF Unmatch, Promise!Unmatch
  <2>2. p \in Promise!Pairs
    BY DEF Pairs, Promise!Pairs
  <2> QED BY <2>1, <2>2 DEF Promise!Next
<1>4. ASSUME NEW r \in Requests, \/ QuietAction(r) \/ RecordLock(r) \/ BlockLock(r)
                                 \/ TxInsert(r) \/ TxMutual(r)
      PROVE  UNCHANGED <<swipes, matches, blocks>>
  BY <1>4
  DEF tables, QuietAction, RecordLock, BlockLock, TxInsert, TxMutual, SwipeStart, BlockStart,
      Count, CountLimit, Reserve, ReserveLimit, ReserveUnavailable, ReserveAnswerLost,
      TxRefuse, RecordFails, BlockFails, Release, ReleaseUnavailable, Crash
<1> QED BY <1>1, <1>2, <1>3, <1>4, StepCases DEF tables

(***************************************************************************)
(* The pipeline of requests implements the promise: every committed swipe, *)
(* block and unmatch is one step of the abstract tables, and everything    *)
(* else leaves them alone, whatever fails.                                 *)
(***************************************************************************)
THEOREM MatchingImplementsPromise == LossySpec => PromiseKept
BY PromiseInit, PromiseStep, PairInvariant, PTL DEF LossySpec, PromiseKept, Promise!Spec
-----------------------------------------------------------------------------
(***************************************************************************)
(* The daily limit, under CrashNext.  The counter covers the rows and the  *)
(* reservations of its user and day, and never passes the limit.           *)
(***************************************************************************)
QuotaInv ==
  \A u \in Users, d \in Days :
    /\ SwipesOn(u, d) + InFlight(u, d) <= counter[u][d]
    /\ counter[u][d] <= DailySwipeLimit

\* What the limit rests on in each request: a count it went on with is below it.
CountedOK == \A r \in Requests : req[r].persisted <= DailySwipeLimit

SwipeSet(u, d)  == {t \in Users : swipes[u][t] # "none" /\ swipeDay[u][t] = d}
FlightSet(u, d) == {r \in Requests : pc[r] \in Reserved /\ req[r].actor = u /\ req[r].day = d}

\* The numbers the quota speaks of are natural numbers.
LEMMA SetsFinite ==
  ASSUME NEW u, NEW d
  PROVE  /\ IsFiniteSet(SwipeSet(u, d)) /\ SwipesOn(u, d) = Cardinality(SwipeSet(u, d))
         /\ SwipesOn(u, d) \in Nat
         /\ IsFiniteSet(FlightSet(u, d)) /\ InFlight(u, d) = Cardinality(FlightSet(u, d))
         /\ InFlight(u, d) \in Nat
<1>1. SwipeSet(u, d) \subseteq Users /\ FlightSet(u, d) \subseteq Requests
  BY DEF SwipeSet, FlightSet
<1>2. IsFiniteSet(SwipeSet(u, d)) /\ IsFiniteSet(FlightSet(u, d))
  BY <1>1, MatchingAssumption, FS_Subset
<1>3. SwipesOn(u, d) = Cardinality(SwipeSet(u, d)) /\ InFlight(u, d) = Cardinality(FlightSet(u, d))
  BY DEF SwipesOn, SwipeSet, InFlight, FlightSet
<1> QED BY <1>2, <1>3, FS_CardinalityType

\* So is the number of reservations held after a step.
LEMMA FlightNat == \A u, d : InFlight(u, d)' \in Nat
<1> SUFFICES ASSUME NEW u, NEW d PROVE InFlight(u, d)' \in Nat
  OBVIOUS
<1>1. {r \in Requests : pc'[r] \in Reserved /\ req'[r].actor = u /\ req'[r].day = d} \subseteq Requests
  OBVIOUS
<1> QED BY <1>1, MatchingAssumption, FS_Subset, FS_CardinalityType DEF InFlight

\* A request that holds no reservation before or after a step, or the same one.
LEMMA FlightKept ==
  ASSUME NEW r \in Requests,
         \A q \in Requests \ {r} : pc'[q] = pc[q] /\ req'[q] = req[q],
         \/ pc[r] \notin Reserved /\ pc'[r] \notin Reserved
         \/ /\ pc[r] \in Reserved /\ pc'[r] \in Reserved
            /\ req'[r].actor = req[r].actor /\ req'[r].day = req[r].day,
         NEW u, NEW d
  PROVE  InFlight(u, d)' = InFlight(u, d)
<1>1. FlightSet(u, d)' = FlightSet(u, d)
  BY DEF FlightSet
<1> QED BY <1>1 DEF FlightSet, InFlight

\* A request takes a reservation.
LEMMA FlightTaken ==
  ASSUME NEW r \in Requests,
         \A q \in Requests \ {r} : pc'[q] = pc[q] /\ req'[q] = req[q],
         pc[r] \notin Reserved, pc'[r] \in Reserved, req'[r] = req[r],
         NEW u, NEW d
  PROVE  InFlight(u, d)' = IF u = req[r].actor /\ d = req[r].day
                             THEN InFlight(u, d) + 1 ELSE InFlight(u, d)
<1>1. CASE u = req[r].actor /\ d = req[r].day
  <2>1. FlightSet(u, d)' = FlightSet(u, d) \union {r} /\ r \notin FlightSet(u, d)
    BY <1>1 DEF FlightSet
  <2>2. Cardinality(FlightSet(u, d)') = Cardinality(FlightSet(u, d)) + 1
    BY <2>1, SetsFinite, FS_AddElement
  <2> QED BY <1>1, <2>2 DEF InFlight, FlightSet
<1>2. CASE ~(u = req[r].actor /\ d = req[r].day)
  <2>1. FlightSet(u, d)' = FlightSet(u, d)
    BY <1>2 DEF FlightSet
  <2> QED BY <1>2, <2>1 DEF InFlight, FlightSet
<1> QED BY <1>1, <1>2

\* A request gives its reservation up, or turns it into a row.
LEMMA FlightEnded ==
  ASSUME NEW r \in Requests,
         \A q \in Requests \ {r} : pc'[q] = pc[q] /\ req'[q] = req[q],
         pc[r] \in Reserved, pc'[r] \notin Reserved,
         NEW u, NEW d
  PROVE  InFlight(u, d) = IF u = req[r].actor /\ d = req[r].day
                            THEN InFlight(u, d)' + 1 ELSE InFlight(u, d)'
<1>1. CASE u = req[r].actor /\ d = req[r].day
  <2>1. FlightSet(u, d)' = FlightSet(u, d) \ {r} /\ r \in FlightSet(u, d)
    BY <1>1 DEF FlightSet
  <2>2. /\ Cardinality(FlightSet(u, d)') = Cardinality(FlightSet(u, d)) - 1
        /\ Cardinality(FlightSet(u, d)) \in Nat
    BY <2>1, SetsFinite, FS_RemoveElement, FS_CardinalityType
  <2> QED BY <1>1, <2>2 DEF InFlight, FlightSet
<1>2. CASE ~(u = req[r].actor /\ d = req[r].day)
  <2>1. FlightSet(u, d)' = FlightSet(u, d)
    BY <1>2 DEF FlightSet
  <2> QED BY <1>2, <2>1 DEF InFlight, FlightSet
<1> QED BY <1>1, <1>2

\* A committed swipe adds one to the swipes of its actor and day.
LEMMA SwipeAdded ==
  ASSUME TypeOK, ReqOK, PairInv, NEW r \in Requests, pc[r] = "commit", Written(r),
         NEW u \in Users, NEW d \in Days
  PROVE  SwipesOn(u, d)' = IF u = req[r].actor /\ d = req[r].day
                             THEN SwipesOn(u, d) + 1 ELSE SwipesOn(u, d)
<1> DEFINE a == req[r].actor
           t == req[r].target
<1>1. /\ a \in Users /\ t \in Users /\ req[r].action # "none" /\ swipes[a][t] = "none"
  BY MatchingAssumption DEF ReqOK, PairInv, TxOK, TxOf
<1>2. /\ swipes'[a][t] = req[r].action /\ swipeDay'[a][t] = req[r].day
      /\ \A b, v \in Users : <<b, v>> # <<a, t>> =>
           swipes'[b][v] = swipes[b][v] /\ swipeDay'[b][v] = swipeDay[b][v]
  BY <1>1 DEF Written, TypeOK
<1> HIDE DEF a, t
<1>3. CASE u = a /\ d = req[r].day
  <2>1. SwipeSet(u, d)' = SwipeSet(u, d) \union {t} /\ t \notin SwipeSet(u, d)
    BY <1>1, <1>2, <1>3 DEF SwipeSet
  <2>2. Cardinality(SwipeSet(u, d)') = Cardinality(SwipeSet(u, d)) + 1
    <3>1. IsFiniteSet(SwipeSet(u, d))
      BY SetsFinite
    <3> QED BY <2>1, <3>1, FS_AddElement
  <2> QED BY <1>3, <2>2 DEF SwipesOn, SwipeSet, a
<1>4. CASE ~(u = a /\ d = req[r].day)
  <2>1. SwipeSet(u, d)' = SwipeSet(u, d)
    BY <1>1, <1>2, <1>4 DEF SwipeSet
  <2> QED BY <1>4, <2>1 DEF SwipesOn, SwipeSet, a
<1> QED BY <1>3, <1>4

\* A step that leaves the rows of swipes alone leaves their number alone.
LEMMA SwipesKept ==
  ASSUME UNCHANGED <<swipes, swipeDay>>, NEW u, NEW d
  PROVE  SwipesOn(u, d)' = SwipesOn(u, d)
BY DEF SwipesOn

\* The steps that touch neither the rows, the counter nor a reservation.
LEMMA QuotaKept ==
  ASSUME QuotaInv, UNCHANGED <<swipes, swipeDay, counter>>,
         \A u \in Users, d \in Days : InFlight(u, d)' = InFlight(u, d)
  PROVE  QuotaInv'
BY SwipesKept DEF QuotaInv

\* Every step keeps the counter above the swipes and the reservations.
LEMMA QuotaStep ==
  ASSUME TypeOK, ReqOK, PairInv, QuotaInv, CountedOK, [CrashNext]_vars
  PROVE  QuotaInv' /\ CountedOK'
<1> USE MatchingAssumption
<1> ReqType BY DEF TypeOK, ReqType
<1> NoReq.persisted = 0
  BY DEF NoReq
<1>1. ASSUME NEW r \in Requests,
             \/ \E a, t \in Users : \E action \in Actions : SwipeStart(r, a, t, action)
             \/ \E a, t \in Users : BlockStart(r, a, t)
             \/ RecordLock(r) \/ TxRefuse(r) \/ TxInsert(r) \/ TxMutual(r) \/ RecordFails(r)
             \/ BlockLock(r)
      PROVE  QuotaInv' /\ CountedOK'
  <2>1. /\ UNCHANGED <<swipes, swipeDay, counter>>
        /\ \A q \in Requests \ {r} : pc'[q] = pc[q] /\ req'[q] = req[q]
        /\ \/ pc[r] \notin Reserved /\ pc'[r] \notin Reserved
           \/ /\ pc[r] \in Reserved /\ pc'[r] \in Reserved
              /\ req'[r].actor = req[r].actor /\ req'[r].day = req[r].day
        /\ req'[r].persisted \in {0, req[r].persisted}
    BY <1>1
    DEF SwipeStart, BlockStart, RecordLock, TxRefuse, TxInsert, TxMutual, RecordFails, BlockLock,
        Goto, Reserved, tables, TypeOK, Fresh
  <2>2. \A u \in Users, d \in Days : InFlight(u, d)' = InFlight(u, d)
    BY <2>1, FlightKept
  <2> QED BY <2>1, <2>2, QuotaKept DEF CountedOK
<1>2. ASSUME NEW r \in Requests,
             CountLimit(r) \/ ReserveUnavailable(r) \/ BlockCommit(r) \/ BlockFails(r)
      PROVE  QuotaInv' /\ CountedOK'
  <2>1. /\ UNCHANGED <<swipes, swipeDay, counter>>
        /\ \E from \in {"count", "reserve", "blocking", "block"} : Return(r, from)
    BY <1>2 DEF CountLimit, ReserveUnavailable, BlockCommit, BlockFails, tables
  <2>2. /\ \A q \in Requests \ {r} : pc'[q] = pc[q] /\ req'[q] = req[q]
        /\ pc[r] \notin Reserved /\ pc'[r] \notin Reserved
        /\ req'[r] = NoReq
    BY <2>1, ReturnOK DEF TypeOK, Reserved
  <2>3. \A u \in Users, d \in Days : InFlight(u, d)' = InFlight(u, d)
    BY <2>2, FlightKept
  <2> QED BY <2>1, <2>2, <2>3, QuotaKept DEF CountedOK
<1>3. ASSUME NEW r \in Requests, Count(r)
      PROVE  QuotaInv' /\ CountedOK'
  <2>1. CountSwipesSince(req[r].actor, req[r].day) \in Nat
    BY FS_Subset, FS_CardinalityType DEF CountSwipesSince
  <2>2. /\ UNCHANGED <<swipes, swipeDay, counter>>
        /\ \A q \in Requests \ {r} : pc'[q] = pc[q] /\ req'[q] = req[q]
        /\ pc[r] \notin Reserved /\ pc'[r] \notin Reserved
        /\ req'[r].persisted = CountSwipesSince(req[r].actor, req[r].day)
        /\ ~Full(CountSwipesSince(req[r].actor, req[r].day))
    BY <1>3 DEF Count, Goto, Reserved, tables, TypeOK
  <2>3. \A u \in Users, d \in Days : InFlight(u, d)' = InFlight(u, d)
    BY <2>2, FlightKept
  <2>4. req'[r].persisted <= DailySwipeLimit
    BY <2>1, <2>2 DEF Full
  <2> QED BY <2>2, <2>3, <2>4, QuotaKept DEF CountedOK
<1>4. ASSUME NEW r \in Requests, Reserve(r) \/ ReserveAnswerLost(r)
      PROVE  QuotaInv' /\ CountedOK'
  <2> DEFINE a == req[r].actor
             e == req[r].day
             current == RaisedTo(counter[a][e], req[r].persisted)
  <2>1. pc[r] = "reserve" /\ a \in Users /\ e \in Days
    BY <1>4 DEF Reserve, ReserveAnswerLost, Return, Goto, ReqOK, ReqType
  <2>2. /\ UNCHANGED <<swipes, swipeDay>>
        /\ ~Full(current)
        /\ counter' = [counter EXCEPT ![a][e] = current + 1]
    BY <1>4 DEF Reserve, ReserveAnswerLost, Granted, tables
  <2>3. /\ counter[a][e] \in Nat /\ current \in Nat
        /\ counter[a][e] <= current /\ current + 1 <= DailySwipeLimit
    BY <2>1, <2>2 DEF RaisedTo, Full, TypeOK, ReqType
  <2>4. /\ counter'[a][e] = current + 1
        /\ \A u \in Users, d \in Days : ~(u = a /\ d = e) => counter'[u][d] = counter[u][d]
    BY <2>1, <2>2 DEF TypeOK
  <2>5. \A u \in Users, d \in Days :
          InFlight(u, d)' <= IF u = a /\ d = e THEN InFlight(u, d) + 1 ELSE InFlight(u, d)
    <3>1. CASE Reserve(r)
      <4>1. /\ \A q \in Requests \ {r} : pc'[q] = pc[q] /\ req'[q] = req[q]
            /\ pc[r] \notin Reserved /\ pc'[r] \in Reserved /\ req'[r] = req[r]
        BY <3>1 DEF Reserve, Goto, Reserved, TypeOK
      <4> QED BY <4>1, FlightTaken, SetsFinite
    <3>2. CASE ReserveAnswerLost(r)
      <4>1. /\ \A q \in Requests \ {r} : pc'[q] = pc[q] /\ req'[q] = req[q]
            /\ pc[r] \notin Reserved /\ pc'[r] \notin Reserved
        BY <3>2, ReturnOK DEF ReserveAnswerLost, Reserved, TypeOK
      <4> QED BY <4>1, FlightKept, SetsFinite
    <3> QED BY <1>4, <3>1, <3>2
  <2>6. CountedOK'
    <3>1. CASE Reserve(r)
      BY <3>1 DEF Reserve, CountedOK
    <3>2. CASE ReserveAnswerLost(r)
      <4>1. req'[r] = NoReq /\ \A q \in Requests \ {r} : req'[q] = req[q]
        BY <3>2, ReturnOK DEF ReserveAnswerLost, TypeOK
      <4> QED BY <4>1 DEF CountedOK
    <3> QED BY <1>4, <3>1, <3>2
  <2>7. QuotaInv'
    <3> SUFFICES ASSUME NEW u \in Users, NEW d \in Days
                 PROVE  /\ SwipesOn(u, d)' + InFlight(u, d)' <= counter'[u][d]
                        /\ counter'[u][d] <= DailySwipeLimit
      BY DEF QuotaInv
    <3>1. SwipesOn(u, d)' = SwipesOn(u, d)
      BY <2>2, SwipesKept
    <3>2. SwipesOn(u, d) \in Nat /\ InFlight(u, d) \in Nat /\ InFlight(u, d)' \in Nat
      BY SetsFinite, FlightNat
    <3>3. counter[u][d] \in Nat
      BY DEF TypeOK
    <3> HIDE DEF current, a, e
    <3> QED BY <2>3, <2>4, <2>5, <3>1, <3>2, <3>3 DEF QuotaInv
  <2> QED BY <2>6, <2>7
<1>5. ASSUME NEW r \in Requests, ReserveLimit(r)
      PROVE  QuotaInv' /\ CountedOK'
  <2> DEFINE a == req[r].actor
             e == req[r].day
             current == RaisedTo(counter[a][e], req[r].persisted)
  <2>1. pc[r] = "reserve" /\ a \in Users /\ e \in Days
    BY <1>5 DEF ReserveLimit, Return, Goto, ReqOK, ReqType
  <2>2. /\ UNCHANGED <<swipes, swipeDay>>
        /\ counter' = [counter EXCEPT ![a][e] = current]
        /\ \A q \in Requests \ {r} : pc'[q] = pc[q] /\ req'[q] = req[q]
        /\ pc[r] \notin Reserved /\ pc'[r] \notin Reserved /\ req'[r] = NoReq
    BY <1>5, ReturnOK DEF ReserveLimit, Reserved, tables, TypeOK
  <2>3. counter[a][e] <= current /\ current <= DailySwipeLimit /\ current \in Nat
    BY <2>1 DEF RaisedTo, TypeOK, ReqType, CountedOK, QuotaInv
  <2>4. \A u \in Users, d \in Days : counter[u][d] <= counter'[u][d] /\ counter'[u][d] <= DailySwipeLimit
                                     /\ counter[u][d] \in Nat /\ counter'[u][d] \in Nat
    BY <2>1, <2>2, <2>3 DEF TypeOK, QuotaInv
  <2>5. \A u \in Users, d \in Days : /\ InFlight(u, d)' = InFlight(u, d)
                                     /\ SwipesOn(u, d)' = SwipesOn(u, d)
                                     /\ InFlight(u, d) \in Nat /\ SwipesOn(u, d) \in Nat
    BY <2>2, FlightKept, SwipesKept, SetsFinite
  <2> QED BY <2>2, <2>4, <2>5 DEF QuotaInv, CountedOK
<1>6. ASSUME NEW r \in Requests, Commit(r)
      PROVE  QuotaInv' /\ CountedOK'
  <2>1. /\ pc[r] = "commit" /\ Written(r) /\ counter' = counter
        /\ \A q \in Requests \ {r} : pc'[q] = pc[q] /\ req'[q] = req[q]
        /\ pc[r] \in Reserved /\ pc'[r] \notin Reserved /\ req'[r] = NoReq
    BY <1>6, ReturnOK DEF Commit, Reserved, TypeOK
  <2>2. \A u \in Users, d \in Days : SwipesOn(u, d)' + InFlight(u, d)' = SwipesOn(u, d) + InFlight(u, d)
    <3> SUFFICES ASSUME NEW u \in Users, NEW d \in Days
                 PROVE  SwipesOn(u, d)' + InFlight(u, d)' = SwipesOn(u, d) + InFlight(u, d)
      OBVIOUS
    <3>1. SwipesOn(u, d) \in Nat /\ InFlight(u, d) \in Nat /\ InFlight(u, d)' \in Nat
      BY SetsFinite, FlightNat
    <3> QED BY <2>1, <3>1, SwipeAdded, FlightEnded
  <2> QED BY <2>1, <2>2 DEF QuotaInv, CountedOK
<1>7. ASSUME NEW r \in Requests, Release(r) \/ ReleaseUnavailable(r) \/ Crash(r)
      PROVE  QuotaInv' /\ CountedOK'
  <2>1. \E from \in States : Return(r, from) /\ from # "idle"
    BY <1>7 DEF Release, ReleaseUnavailable, Crash, Return, Goto, States, Reserved, TypeOK
  <2>2. /\ UNCHANGED <<swipes, swipeDay>>
        /\ \A q \in Requests \ {r} : pc'[q] = pc[q] /\ req'[q] = req[q]
        /\ pc[r] # "idle" /\ pc'[r] \notin Reserved /\ req'[r] = NoReq
    BY <1>7, <2>1, ReturnOK DEF Release, ReleaseUnavailable, Crash, tables, TypeOK, Reserved
  <2>3. CountedOK'
    BY <2>2 DEF CountedOK
  <2>4. CASE pc[r] \notin Reserved
    <3>1. counter' = counter
      BY <1>7, <2>4 DEF Release, ReleaseUnavailable, Crash, Return, Goto, Reserved
    <3> QED BY <2>2, <2>3, <2>4, <3>1, FlightKept, QuotaKept
  <2>5. CASE pc[r] \in Reserved
    <3> DEFINE a == req[r].actor
               e == req[r].day
    <3>1. a \in Users /\ e \in Days
      BY <2>2 DEF ReqOK, ReqType
    <3>2. /\ counter'[a][e] \in Nat
          /\ counter[a][e] <= counter'[a][e] + 1 /\ counter'[a][e] <= counter[a][e]
          /\ \A u \in Users, d \in Days : ~(u = a /\ d = e) => counter'[u][d] = counter[u][d]
      BY <1>7, <3>1 DEF Release, ReleaseUnavailable, Crash, Released, TypeOK, ReqType
    <3>3. ASSUME NEW u \in Users, NEW d \in Days
          PROVE  /\ SwipesOn(u, d)' + InFlight(u, d)' <= counter'[u][d]
                 /\ counter'[u][d] <= DailySwipeLimit
      <4>1. SwipesOn(u, d)' = SwipesOn(u, d)
        BY <2>2, SwipesKept
      <4>2. InFlight(u, d) = IF u = a /\ d = e THEN InFlight(u, d)' + 1 ELSE InFlight(u, d)'
        BY <2>2, <2>5, FlightEnded
      <4>3. SwipesOn(u, d) \in Nat /\ InFlight(u, d)' \in Nat /\ counter[u][d] \in Nat
        BY SetsFinite, FlightNat DEF TypeOK
      <4> HIDE DEF a, e
      <4> QED BY <3>2, <4>1, <4>2, <4>3 DEF QuotaInv
    <3> QED BY <2>3, <3>3 DEF QuotaInv
  <2> QED BY <2>4, <2>5
<1>8. CASE (\E p \in Pairs : Unmatch(p)) \/ NextDay \/ UNCHANGED vars
  <2>1. UNCHANGED <<swipes, swipeDay, counter, pc, req>>
    BY <1>8 DEF Unmatch, NextDay, vars, tables
  <2>2. \A u \in Users, d \in Days : InFlight(u, d)' = InFlight(u, d)
    BY <2>1 DEF InFlight
  <2> QED BY <2>1, <2>2, QuotaKept DEF CountedOK
<1> QED
  BY <1>1, <1>2, <1>3, <1>4, <1>5, <1>6, <1>7, <1>8 DEF CrashNext, Next, Step

\* Before any request nothing is counted and nothing reserved.
LEMMA QuotaInit == Init => QuotaInv /\ CountedOK
<1> SUFFICES ASSUME Init PROVE QuotaInv /\ CountedOK
  OBVIOUS
<1>1. ASSUME NEW u \in Users, NEW d \in Days PROVE SwipesOn(u, d) = 0 /\ InFlight(u, d) = 0
  <2>1. SwipeSet(u, d) = {} /\ FlightSet(u, d) = {}
    BY DEF Init, SwipeSet, FlightSet, Reserved
  <2> QED BY <2>1, SetsFinite, FS_EmptySet
<1>2. CountedOK
  BY MatchingAssumption DEF Init, CountedOK, NoReq
<1>3. QuotaInv
  BY <1>1, MatchingAssumption DEF Init, QuotaInv
<1> QED BY <1>2, <1>3

\* The quota holds in every state of CrashSpec.
LEMMA QuotaInvariant == CrashSpec => [](TypeOK /\ ReqOK /\ PairInv /\ QuotaInv /\ CountedOK)
<1>1. CrashSpec => LossySpec
  <2>1. [CrashNext]_vars => [LossyNext]_vars
    BY DEF LossyNext, RestartNext
  <2> QED BY <2>1, PTL DEF CrashSpec, LossySpec
<1>2. TypeOK /\ ReqOK /\ PairInv /\ QuotaInv /\ CountedOK /\ [CrashNext]_vars => QuotaInv' /\ CountedOK'
  BY QuotaStep
<1> QED BY <1>1, <1>2, QuotaInit, PairInvariant, PTL DEF CrashSpec

(***************************************************************************)
(* The counter in Redis covers what is recorded and under way, with any    *)
(* number of concurrent requests and any stale count or floor, and when    *)
(* requests die or calls to Redis fail at any point.                       *)
(***************************************************************************)
THEOREM CounterCovers == CrashSpec => []ReservationsCovered
<1>1. QuotaInv => ReservationsCovered
  BY DEF QuotaInv, ReservationsCovered
<1> QED BY <1>1, QuotaInvariant, PTL

(***************************************************************************)
(* So nobody records more swipes of a UTC day than the limit, whatever runs*)
(* at once and wherever a request dies.                                    *)
(***************************************************************************)
THEOREM LimitKept == CrashSpec => []DailyLimit
<1>1. TypeOK /\ QuotaInv => DailyLimit
  <2> SUFFICES ASSUME TypeOK, QuotaInv, NEW u \in Users, NEW d \in Days
               PROVE  SwipesOn(u, d) <= DailySwipeLimit
    BY DEF DailyLimit
  <2>1. SwipesOn(u, d) \in Nat /\ InFlight(u, d) \in Nat
    BY SetsFinite
  <2>2. /\ SwipesOn(u, d) + InFlight(u, d) <= counter[u][d] /\ counter[u][d] <= DailySwipeLimit
        /\ counter[u][d] \in Nat /\ DailySwipeLimit \in Nat
    BY MatchingAssumption DEF QuotaInv, TypeOK
  <2> QED BY <2>1, <2>2
<1> QED BY <1>1, QuotaInvariant, PTL
-----------------------------------------------------------------------------
(***************************************************************************)
(* The calendar.  No row, no request and no key of Redis is of a day to    *)
(* come, so a count of the swipes since today is one of today's swipes; it *)
(* may be stale when it is used, but only too low.                         *)
(***************************************************************************)
CalendarInv ==
  /\ \A u, t \in Users : swipeDay[u][t] <= today
  /\ \A r \in Requests : req[r].day <= today
  /\ \A u \in Users, d \in Days : d > today => counter[u][d] = 0
  /\ \A r \in Requests : pc[r] # "idle" /\ req[r].day = today
                           => req[r].persisted <= SwipesOn(req[r].actor, today)

\* Only a commit writes rows of swipes, and it adds one of the request's day.
LEMMA RowsStep ==
  ASSUME TypeOK, ReqOK, PairInv, [CrashNext]_vars
  PROVE  /\ UNCHANGED <<swipes, swipeDay>> \/ \E r \in Requests : Commit(r)
         /\ \A u \in Users, d \in Days : SwipesOn(u, d) <= SwipesOn(u, d)'
<1>1. UNCHANGED <<swipes, swipeDay>> \/ \E r \in Requests : Commit(r)
  BY DEF CrashNext, Next, Step, vars, tables, SwipeStart, BlockStart, Count, CountLimit, Reserve,
         ReserveLimit, ReserveUnavailable, RecordLock, TxRefuse, TxInsert, TxMutual, RecordFails,
         Release, BlockLock, BlockCommit, BlockFails, Unmatch, NextDay, Crash, ReserveAnswerLost,
         ReleaseUnavailable
<1>2. ASSUME NEW u \in Users, NEW d \in Days, NEW r \in Requests, Commit(r)
      PROVE  SwipesOn(u, d) <= SwipesOn(u, d)'
  <2>1. pc[r] = "commit" /\ Written(r)
    BY <1>2 DEF Commit, Return, Goto
  <2>2. SwipesOn(u, d)' = IF u = req[r].actor /\ d = req[r].day
                            THEN SwipesOn(u, d) + 1 ELSE SwipesOn(u, d)
    BY <2>1, SwipeAdded
  <2>3. SwipesOn(u, d) \in Nat
    BY SetsFinite
  <2> QED BY <2>2, <2>3
<1>3. ASSUME NEW u \in Users, NEW d \in Days, UNCHANGED <<swipes, swipeDay>>
      PROVE  SwipesOn(u, d) <= SwipesOn(u, d)'
  BY <1>3, SwipesKept, SetsFinite
<1> QED BY <1>1, <1>2, <1>3

\* What a step makes of the variables of a request that it leaves or puts to work.
LEMMA RequestStep ==
  ASSUME TypeOK, ReqOK, [CrashNext]_vars, NEW q \in Requests
  PROVE  \/ req'[q] = NoReq /\ pc'[q] = "idle"
         \/ req'[q].day = today /\ req'[q].persisted = 0 /\ today' = today
         \/ Count(q) /\ req'[q] = [req[q] EXCEPT !.persisted = CountSwipesSince(req[q].actor, req[q].day)]
         \/ /\ pc'[q] # "idle" => pc[q] # "idle"
            /\ req'[q].actor = req[q].actor /\ req'[q].day = req[q].day
            /\ req'[q].persisted = req[q].persisted
<1> ReqType /\ pc \in [Requests -> States]
  BY DEF TypeOK, ReqType
<1>1. ASSUME NEW r \in Requests, NEW from, Return(r, from)
      PROVE  \/ req'[q] = NoReq /\ pc'[q] = "idle"
             \/ req'[q] = req[q] /\ pc'[q] = pc[q]
  BY <1>1 DEF Return, Goto, ReqType
<1>2. ASSUME NEW r \in Requests, NEW from \in States \ {"idle"}, NEW to, Goto(r, from, to), req' = req
      PROVE  /\ pc'[q] # "idle" => pc[q] # "idle"
             /\ req'[q] = req[q]
  BY <1>2 DEF Goto
<1>3. ASSUME NEW r \in Requests,
             \/ \E a, t \in Users : \E action \in Actions : SwipeStart(r, a, t, action)
             \/ \E a, t \in Users : BlockStart(r, a, t)
      PROVE  \/ req'[q].day = today /\ req'[q].persisted = 0 /\ today' = today
             \/ req'[q] = req[q] /\ pc'[q] = pc[q]
  BY <1>3 DEF SwipeStart, BlockStart, Goto, Fresh, ReqType
<1>4. ASSUME NEW r \in Requests, Count(r)
      PROVE  \/ Count(q) /\ req'[q] = [req[q] EXCEPT !.persisted = CountSwipesSince(req[q].actor, req[q].day)]
             \/ req'[q] = req[q] /\ pc'[q] = pc[q]
  BY <1>4 DEF Count, Goto, ReqType
<1>5. ASSUME NEW r \in Requests, TxMutual(r)
      PROVE  /\ pc'[q] # "idle" => pc[q] # "idle"
             /\ req'[q].actor = req[q].actor /\ req'[q].day = req[q].day
             /\ req'[q].persisted = req[q].persisted
  <2>1. PICK m : req' = [req EXCEPT ![r].mutual = m]
    BY <1>5 DEF TxMutual
  <2>2. pc[r] = "inserted" /\ pc' = [pc EXCEPT ![r] = "commit"]
    BY <1>5 DEF TxMutual, Goto
  <2> QED BY <2>1, <2>2 DEF ReqType
<1>6. ASSUME NEW r \in Requests,
             \/ CountLimit(r) \/ ReserveLimit(r) \/ ReserveUnavailable(r) \/ Commit(r) \/ Release(r)
             \/ BlockCommit(r) \/ BlockFails(r) \/ Crash(r) \/ ReserveAnswerLost(r) \/ ReleaseUnavailable(r)
      PROVE  \E from : Return(r, from)
  BY <1>6 DEF CountLimit, ReserveLimit, ReserveUnavailable, Commit, Release, BlockCommit, BlockFails,
              Crash, ReserveAnswerLost, ReleaseUnavailable
<1>7. ASSUME NEW r \in Requests,
             Reserve(r) \/ RecordLock(r) \/ TxRefuse(r) \/ TxInsert(r) \/ RecordFails(r) \/ BlockLock(r)
      PROVE  req' = req /\ \E from \in States \ {"idle"} : \E to : Goto(r, from, to)
  BY <1>7 DEF Reserve, RecordLock, TxRefuse, TxInsert, RecordFails, BlockLock, States, Reserved, InTx
<1>8. CASE (\E p \in Pairs : Unmatch(p)) \/ NextDay \/ UNCHANGED vars
  <2>1. req' = req /\ pc' = pc
    BY <1>8 DEF Unmatch, NextDay, vars
  <2> QED BY <2>1
<1> QED BY <1>1, <1>2, <1>3, <1>4, <1>5, <1>6, <1>7, <1>8 DEF CrashNext, Next, Step

\* Keys change only for the day of a request that is under way.
LEMMA KeysStep ==
  ASSUME TypeOK, ReqOK, [CrashNext]_vars, NEW u \in Users, NEW d \in Days, counter'[u][d] # counter[u][d]
  PROVE  \E r \in Requests : d = req[r].day /\ today' = today
<1> ReqType
  BY DEF TypeOK, ReqType
<1>1. PICK r \in Requests : Reserve(r) \/ ReserveAnswerLost(r) \/ ReserveLimit(r) \/ Release(r)
  BY DEF CrashNext, Next, Step, vars, tables, SwipeStart, BlockStart, Count, CountLimit,
         ReserveUnavailable, RecordLock, TxRefuse, TxInsert, TxMutual, RecordFails, Commit,
         BlockLock, BlockCommit, BlockFails, Unmatch, NextDay, Crash, ReleaseUnavailable
<1>2. today' = today /\ pc[r] # "idle" /\ \E n : counter' = [counter EXCEPT ![req[r].actor][req[r].day] = n]
  BY <1>1 DEF Reserve, ReserveAnswerLost, ReserveLimit, Release, Granted, Return, Goto
<1>3. PICK n : counter' = [counter EXCEPT ![req[r].actor][req[r].day] = n]
  BY <1>2
<1>4. req[r].actor \in Users /\ req[r].day \in Days
  BY <1>2 DEF ReqOK, ReqType
<1> QED BY <1>2, <1>3, <1>4 DEF TypeOK

LEMMA CalendarStep ==
  ASSUME TypeOK, ReqOK, PairInv, CalendarInv, TypeOK', ReqOK', [CrashNext]_vars
  PROVE  CalendarInv'
<1> ReqType /\ today \in Nat /\ today' \in Nat
  BY MatchingAssumption DEF TypeOK, ReqType, Days
<1> NoReq.day = 0 /\ NoReq.persisted = 0
  BY DEF NoReq
<1>1. today' = today \/ (today' = today + 1 /\ UNCHANGED <<tables, counter, pc, req>>)
  BY DEF CrashNext, Next, Step, vars, SwipeStart, BlockStart, Count, CountLimit, Reserve,
         ReserveLimit, ReserveUnavailable, RecordLock, TxRefuse, TxInsert, TxMutual, RecordFails, Commit,
         Release, BlockLock, BlockCommit, BlockFails, Unmatch, NextDay, Crash, ReserveAnswerLost,
         ReleaseUnavailable
<1>2. ASSUME NEW u \in Users, NEW t \in Users
      PROVE  swipeDay'[u][t] <= today'
  <2>1. swipeDay[u][t] \in Nat /\ swipeDay[u][t] <= today
    BY DEF TypeOK, Days, CalendarInv
  <2>2. ASSUME NEW r \in Requests, Commit(r)
        PROVE  swipeDay'[u][t] \in {swipeDay[u][t], req[r].day} /\ today' = today
    BY <2>2 DEF Commit, Written, TypeOK
  <2>3. \A r \in Requests : req[r].day <= today
    BY DEF CalendarInv
  <2>4. CASE swipeDay' = swipeDay
    BY <1>1, <2>1, <2>4
  <2>5. CASE \E r \in Requests : Commit(r)
    BY <2>1, <2>2, <2>3, <2>5
  <2> QED BY <2>4, <2>5, RowsStep
<1>3. ASSUME NEW q \in Requests
      PROVE  req'[q].day <= today'
  <2>1. req[q].day \in Nat /\ req[q].day <= today
    BY DEF CalendarInv, ReqType, Days
  <2>2. req'[q].day \in {req[q].day, today, 0}
    BY RequestStep DEF ReqType
  <2>3. today <= today'
    BY <1>1
  <2> QED BY <2>1, <2>2, <2>3
<1>4. ASSUME NEW u \in Users, NEW d \in Days, d > today'
      PROVE  counter'[u][d] = 0
  <2>1. d \in Nat /\ d > today
    BY <1>1, <1>4 DEF Days
  <2>2. counter[u][d] = 0
    BY <2>1 DEF CalendarInv
  <2>3. CASE counter'[u][d] # counter[u][d]
    <3>1. PICK r \in Requests : d = req[r].day
      BY <2>3, KeysStep
    <3> QED BY <2>1, <3>1 DEF CalendarInv
  <2> QED BY <2>2, <2>3
<1>5. ASSUME NEW q \in Requests, pc'[q] # "idle", req'[q].day = today'
      PROVE  (req[q].persisted <= SwipesOn(req[q].actor, today))'
  <2>1. PICK a \in Users, now \in Days : a = req'[q].actor /\ now = today'
    BY <1>5 DEF ReqOK, TypeOK
  <2>2. SwipesOn(a, now) \in Nat /\ SwipesOn(a, now)' \in Nat /\ SwipesOn(a, now) <= SwipesOn(a, now)'
    <3>1. {t \in Users : swipes'[a][t] # "none" /\ swipeDay'[a][t] = now} \subseteq Users
      OBVIOUS
    <3>2. SwipesOn(a, now)' \in Nat
      BY <3>1, MatchingAssumption, FS_Subset, FS_CardinalityType DEF SwipesOn
    <3> QED BY <3>2, SetsFinite, RowsStep
  <2>3. SwipesOn(req[q].actor, today)' = SwipesOn(a, now)'
    BY <2>1 DEF SwipesOn
  <2>4. req'[q].persisted \in Nat
    BY DEF TypeOK
  <2>5. CASE req'[q].persisted = 0
    BY <2>2, <2>3, <2>5
  <2>6. CASE Count(q) /\ req'[q] = [req[q] EXCEPT !.persisted = CountSwipesSince(req[q].actor, req[q].day)]
    <3>1. a = req[q].actor /\ req[q].day = now /\ now = today
      BY <1>5, <2>1, <2>6 DEF Count, ReqType
    <3>2. {t \in Users : swipes[a][t] # "none" /\ swipeDay[a][t] >= now}
            = {t \in Users : swipes[a][t] # "none" /\ swipeDay[a][t] = now}
      BY <2>1, <3>1 DEF CalendarInv, TypeOK, Days
    <3>3. CountSwipesSince(a, now) = SwipesOn(a, now)
      BY <3>2 DEF CountSwipesSince, SwipesOn
    <3>4. req'[q].persisted = CountSwipesSince(a, now)
      BY <2>6, <3>1 DEF ReqType
    <3> QED BY <2>2, <2>3, <3>3, <3>4
  <2>7. CASE /\ pc[q] # "idle" /\ req'[q].actor = req[q].actor /\ req'[q].day = req[q].day
             /\ req'[q].persisted = req[q].persisted
    <3>1. req[q].day <= today /\ now = req[q].day
      BY <1>5, <2>1, <2>7 DEF CalendarInv
    <3>2. now = today
      BY <1>1, <2>1, <3>1
    <3>3. req[q].persisted <= SwipesOn(a, now)
      BY <2>1, <2>7, <3>1, <3>2 DEF CalendarInv
    <3> QED BY <2>2, <2>3, <2>4, <2>7, <3>3
  <2> QED BY <1>5, <2>5, <2>6, <2>7, RequestStep
<1> QED BY <1>2, <1>3, <1>4, <1>5 DEF CalendarInv

\* Nothing is counted, reserved or recorded of a day to come.
LEMMA TomorrowEmpty ==
  ASSUME TypeOK, CalendarInv, NEW u \in Users, NEW d \in Days, d > today
  PROVE  counter[u][d] = 0 /\ SwipesOn(u, d) = 0 /\ InFlight(u, d) = 0
<1>1. today \in Nat /\ d \in Nat
  BY MatchingAssumption DEF TypeOK, Days
<1>2. SwipeSet(u, d) = {}
  BY <1>1 DEF CalendarInv, SwipeSet
<1>3. FlightSet(u, d) = {}
  BY <1>1 DEF CalendarInv, FlightSet
<1> QED BY <1>2, <1>3, SetsFinite, FS_EmptySet DEF CalendarInv

\* The keys of today are never below a count that a request of today has read.
LEMMA StaleCount ==
  ASSUME TypeOK, ReqOK, QuotaInv, CalendarInv, NEW r \in Requests, pc[r] # "idle", req[r].day = today
  PROVE  /\ req[r].persisted <= counter[req[r].actor][today]
         /\ RaisedTo(counter[req[r].actor][today], req[r].persisted) = counter[req[r].actor][today]
         /\ pc[r] \in Reserved => req[r].persisted < counter[req[r].actor][today]
<1> DEFINE a == req[r].actor
<1>1. a \in Users /\ today \in Days /\ counter[a][today] \in Nat /\ req[r].persisted \in Nat
  BY DEF ReqOK, TypeOK
<1>2. /\ SwipesOn(a, today) \in Nat /\ InFlight(a, today) \in Nat
      /\ IsFiniteSet(FlightSet(a, today)) /\ InFlight(a, today) = Cardinality(FlightSet(a, today))
  BY SetsFinite
<1>3. req[r].persisted <= SwipesOn(a, today) /\ SwipesOn(a, today) + InFlight(a, today) <= counter[a][today]
  BY <1>1 DEF CalendarInv, QuotaInv
<1>4. ASSUME pc[r] \in Reserved
      PROVE  InFlight(a, today) > 0
  <2>1. r \in FlightSet(a, today)
    BY <1>4 DEF FlightSet
  <2>2. FlightSet(a, today) # {}
    BY <2>1
  <2> QED BY <1>2, <2>2, FS_EmptySet
<1> HIDE DEF a
<1>5. req[r].persisted <= counter[a][today] /\ (pc[r] \in Reserved => req[r].persisted < counter[a][today])
  BY <1>1, <1>2, <1>3, <1>4
<1>6. RaisedTo(counter[a][today], req[r].persisted) = counter[a][today]
  BY <1>1, <1>5 DEF RaisedTo
<1> QED BY <1>5, <1>6 DEF a

\* A step that the program takes of itself gives every user of today what it takes.
LEMMA NoSwipeLost ==
  ASSUME TypeOK, ReqOK, PairInv, QuotaInv, CalendarInv, TypeOK', Next, NEW u \in Users
  PROVE  LostToday(u)' <= LostToday(u)
<1> ReqType
  BY DEF TypeOK, ReqType
<1>1. /\ today \in Days /\ counter[u][today] \in Nat /\ SwipesOn(u, today) \in Nat
      /\ InFlight(u, today) \in Nat /\ SwipesOn(u, today) + InFlight(u, today) <= counter[u][today]
  BY SetsFinite DEF TypeOK, QuotaInv
<1>2. CASE NextDay
  <2>1. PICK now \in Days : now = today'
    BY DEF TypeOK
  <2>2. counter' = counter /\ SwipesOn(u, today)' = SwipesOn(u, now) /\ InFlight(u, today)' = InFlight(u, now)
    BY <1>2, <2>1 DEF NextDay, tables, SwipesOn, InFlight
  <2>3. now > today
    BY <1>2, <2>1, MatchingAssumption DEF NextDay, TypeOK, Days
  <2>4. LostToday(u)' = 0
    BY <2>1, <2>2, <2>3, TomorrowEmpty DEF LostToday
  <2> QED BY <1>1, <2>4 DEF LostToday
<1>3. ASSUME today' = today,
             NEW f \in Nat, InFlight(u, today)' = f,
             NEW s \in Nat, SwipesOn(u, today)' = s,
             counter'[u][today] - (s + f) <= counter[u][today] - (SwipesOn(u, today) + InFlight(u, today))
      PROVE  LostToday(u)' <= LostToday(u)
  BY <1>3 DEF LostToday, SwipesOn, InFlight
<1>4. ASSUME NEW r \in Requests, Reserve(r)
      PROVE  LostToday(u)' <= LostToday(u)
  <2> DEFINE a == req[r].actor
             e == req[r].day
             current == RaisedTo(counter[a][e], req[r].persisted)
  <2>1. /\ pc[r] = "reserve" /\ a \in Users /\ e \in Days /\ today' = today /\ pc[r] \notin Reserved
        /\ UNCHANGED <<swipes, swipeDay>> /\ counter' = [counter EXCEPT ![a][e] = current + 1]
        /\ \A q \in Requests \ {r} : pc'[q] = pc[q] /\ req'[q] = req[q]
        /\ pc'[r] \in Reserved /\ req'[r] = req[r]
    BY <1>4 DEF Reserve, Granted, Goto, ReqOK, TypeOK, tables, Reserved
  <2>2. InFlight(u, today)' = IF u = a /\ today = e THEN InFlight(u, today) + 1 ELSE InFlight(u, today)
    <3>1. PICK now \in Days : now = today
      BY <1>1
    <3>2. InFlight(u, now)' = IF u = a /\ now = e THEN InFlight(u, now) + 1 ELSE InFlight(u, now)
      BY <2>1, FlightTaken
    <3>3. InFlight(u, today)' = InFlight(u, now)'
      BY <2>1, <3>1 DEF InFlight
    <3> QED BY <3>1, <3>2, <3>3
  <2>3. SwipesOn(u, today)' = SwipesOn(u, today)
    BY <2>1 DEF SwipesOn
  <2>4. counter'[u][today] = IF u = a /\ today = e THEN counter[u][today] + 1 ELSE counter[u][today]
    <3>1. CASE u = a /\ today = e
      <4>1. current = counter[u][today]
        BY <2>1, <3>1, StaleCount
      <4> HIDE DEF current
      <4> QED BY <1>1, <2>1, <3>1, <4>1 DEF TypeOK
    <3>2. CASE ~(u = a /\ today = e)
      BY <1>1, <2>1, <3>2 DEF TypeOK
    <3> QED BY <3>1, <3>2
  <2> QED BY <1>1, <1>3, <2>1, <2>2, <2>3, <2>4
<1>5. ASSUME NEW r \in Requests, ReserveLimit(r)
      PROVE  LostToday(u)' <= LostToday(u)
  <2> DEFINE a == req[r].actor
             e == req[r].day
             current == RaisedTo(counter[a][e], req[r].persisted)
  <2>1. /\ pc[r] = "reserve" /\ a \in Users /\ e \in Days /\ today' = today
        /\ UNCHANGED <<swipes, swipeDay>> /\ counter' = [counter EXCEPT ![a][e] = current]
        /\ \A q \in Requests \ {r} : pc'[q] = pc[q] /\ req'[q] = req[q]
        /\ pc[r] \notin Reserved /\ pc'[r] \notin Reserved
    BY <1>5, ReturnOK DEF ReserveLimit, Return, Goto, ReqOK, TypeOK, tables, Reserved
  <2>2. InFlight(u, today)' = InFlight(u, today) /\ SwipesOn(u, today)' = SwipesOn(u, today)
    BY <2>1, FlightKept DEF InFlight, SwipesOn
  <2>3. counter'[u][today] = counter[u][today]
    <3>1. today = e => current = counter[a][today]
      BY <2>1, StaleCount
    <3> HIDE DEF current
    <3> QED BY <1>1, <2>1, <3>1 DEF TypeOK
  <2> QED BY <1>1, <1>3, <2>1, <2>2, <2>3
<1>6. ASSUME NEW r \in Requests, Commit(r)
      PROVE  LostToday(u)' <= LostToday(u)
  <2>1. /\ pc[r] = "commit" /\ Written(r) /\ counter' = counter /\ today' = today
        /\ \A q \in Requests \ {r} : pc'[q] = pc[q] /\ req'[q] = req[q]
        /\ pc[r] \in Reserved /\ pc'[r] \notin Reserved
    BY <1>6, ReturnOK DEF Commit, Reserved, TypeOK
  <2>2. PICK now \in Days : now = today
    BY <1>1
  <2>3. /\ InFlight(u, now) = IF u = req[r].actor /\ now = req[r].day
                                THEN InFlight(u, now)' + 1 ELSE InFlight(u, now)'
        /\ SwipesOn(u, now)' = IF u = req[r].actor /\ now = req[r].day
                                 THEN SwipesOn(u, now) + 1 ELSE SwipesOn(u, now)
        /\ InFlight(u, now)' \in Nat
    BY <2>1, FlightEnded, SwipeAdded, FlightNat
  <2>4. InFlight(u, today)' = InFlight(u, now)' /\ SwipesOn(u, today)' = SwipesOn(u, now)'
    BY <2>1, <2>2 DEF InFlight, SwipesOn
  <2> QED BY <1>1, <1>3, <2>1, <2>2, <2>3, <2>4
<1>7. ASSUME NEW r \in Requests, Release(r)
      PROVE  LostToday(u)' <= LostToday(u)
  <2> DEFINE a == req[r].actor
             e == req[r].day
  <2>1. /\ pc[r] = "release" /\ a \in Users /\ e \in Days /\ today' = today
        /\ counter' = [counter EXCEPT ![a][e] = Released(counter[a][e], req[r].persisted)]
        /\ \A q \in Requests \ {r} : pc'[q] = pc[q] /\ req'[q] = req[q]
        /\ pc[r] \in Reserved /\ pc'[r] \notin Reserved /\ UNCHANGED <<swipes, swipeDay>>
    BY <1>7, ReturnOK DEF Release, Return, Goto, Reserved, ReqOK, TypeOK, tables
  <2>2. PICK now \in Days : now = today
    BY <1>1
  <2>3. /\ InFlight(u, now) = IF u = a /\ now = e THEN InFlight(u, now)' + 1 ELSE InFlight(u, now)'
        /\ InFlight(u, now)' \in Nat
    BY <2>1, FlightEnded, FlightNat
  <2>4. InFlight(u, today)' = InFlight(u, now)' /\ SwipesOn(u, today)' = SwipesOn(u, today)
    BY <2>1, <2>2 DEF InFlight, SwipesOn
  <2>5. counter'[u][today] = IF u = a /\ today = e THEN counter[u][today] - 1 ELSE counter[u][today]
    <3>1. CASE u = a /\ today = e
      BY <1>1, <2>1, <3>1, StaleCount DEF TypeOK, Released
    <3>2. CASE ~(u = a /\ today = e)
      BY <1>1, <2>1, <3>2 DEF TypeOK
    <3> QED BY <3>1, <3>2
  <2> QED BY <1>1, <1>3, <2>1, <2>2, <2>3, <2>4, <2>5
<1>8. ASSUME UNCHANGED <<swipes, swipeDay, counter, today>>,
             \A d : InFlight(u, d)' = InFlight(u, d)
      PROVE  LostToday(u)' <= LostToday(u)
  <2>1. InFlight(u, today)' = InFlight(u, today) /\ SwipesOn(u, today)' = SwipesOn(u, today)
    BY <1>8 DEF InFlight, SwipesOn
  <2> QED BY <1>1, <1>3, <1>8, <2>1
<1>9. ASSUME NEW r \in Requests,
             \/ \E a, t \in Users : \E action \in Actions : SwipeStart(r, a, t, action)
             \/ \E a, t \in Users : BlockStart(r, a, t)
             \/ Count(r)
             \/ RecordLock(r) \/ TxRefuse(r) \/ TxInsert(r) \/ TxMutual(r) \/ RecordFails(r)
             \/ BlockLock(r)
      PROVE  LostToday(u)' <= LostToday(u)
  <2>1. /\ UNCHANGED <<swipes, swipeDay, counter, today>>
        /\ \A q \in Requests \ {r} : pc'[q] = pc[q] /\ req'[q] = req[q]
        /\ \/ pc[r] \notin Reserved /\ pc'[r] \notin Reserved
           \/ /\ pc[r] \in Reserved /\ pc'[r] \in Reserved
              /\ req'[r].actor = req[r].actor /\ req'[r].day = req[r].day
    BY <1>9
    DEF SwipeStart, BlockStart, Count, RecordLock, TxRefuse, TxInsert, TxMutual, RecordFails, BlockLock,
        Goto, Reserved, tables, TypeOK
  <2> QED BY <1>8, <2>1, FlightKept
<1>10. ASSUME NEW r \in Requests,
              CountLimit(r) \/ ReserveUnavailable(r) \/ BlockCommit(r) \/ BlockFails(r)
       PROVE  LostToday(u)' <= LostToday(u)
  <2>1. /\ UNCHANGED <<swipes, swipeDay, counter, today>>
        /\ \E from \in {"count", "reserve", "blocking", "block"} : Return(r, from)
    BY <1>10 DEF CountLimit, ReserveUnavailable, BlockCommit, BlockFails, tables
  <2>2. /\ \A q \in Requests \ {r} : pc'[q] = pc[q] /\ req'[q] = req[q]
        /\ pc[r] \notin Reserved /\ pc'[r] \notin Reserved
    BY <2>1, ReturnOK DEF TypeOK, Reserved
  <2> QED BY <1>8, <2>1, <2>2, FlightKept
<1>11. ASSUME NEW p \in Pairs, Unmatch(p)
       PROVE  LostToday(u)' <= LostToday(u)
  BY <1>8, <1>11 DEF Unmatch, InFlight
<1> QED BY <1>2, <1>4, <1>5, <1>6, <1>7, <1>9, <1>10, <1>11 DEF Next, Step

(***************************************************************************)
(* Only a failure that the program cannot undo costs a user a swipe of     *)
(* today: every other step (releaseSwipeScript with whatever floor the     *)
(* request has read, reserveSwipeScript with whatever count, the commit,   *)
(* midnight) leaves at most as many reservations without a row or a request*)
(* as there were.                                                          *)
(***************************************************************************)
THEOREM SwipesLostByFailuresOnly == CrashSpec => OnlyFailuresLoseSwipes
<1> DEFINE Fair == \A u \in Users : LostToday(u)' <= LostToday(u)
<1>1. TypeOK /\ ReqOK /\ PairInv /\ QuotaInv /\ CalendarInv /\ TypeOK' /\ [CrashNext]_vars
        => [Next => Fair]_vars
  BY NoSwipeLost
<1>2. Init => CalendarInv
  BY MatchingAssumption DEF Init, CalendarInv, NoReq
<1>3. /\ TypeOK /\ ReqOK /\ PairInv /\ CalendarInv /\ TypeOK' /\ ReqOK' /\ [CrashNext]_vars
      => CalendarInv'
  BY CalendarStep
<1> QED BY <1>1, <1>2, <1>3, QuotaInvariant, PTL DEF CrashSpec, OnlyFailuresLoseSwipes
=============================================================================
