-------------------------- MODULE Sessions_proofs --------------------------
(***************************************************************************)
(* What rotation, revocation and logout keep, for any number of tokens and *)
(* of requests, and that the sessions implement SessionPromise.            *)
(***************************************************************************)
EXTENDS Sessions, TLAPS, NaturalsInduction, WellFoundedInduction

ReqRow == [kind : {"none", "login", "refresh", "logout", "logoutall"},
           access : Tokens \union {NoToken}, token : Tokens \union {NoToken},
           next : Tokens \union {NoToken}, scope : SUBSET Tokens, todo : SUBSET Tokens]

Issued  == Tokens \ Free
Tracked == active \union denied \union expired

\* A family is named by a token that was issued.
FamiliesOK == \A t \in Issued : family[t] \in Issued

\* What a request that is under way relies on.
RequestOK(r) ==
  /\ req[r].scope \subseteq Issued
  /\ pc[r] = "persist" => req[r].next \in Free /\ req[r].next \in Tracked
  /\ pc[r] = "register" => req[r].next \in Issued
  /\ pc[r] = "rotate" => req[r].token \in Issued
  /\ pc[r] = "insert" => req[r].token \in Live /\ lock[req[r].token] = r
  /\ pc[r] = "deny" => req[r].access \in Tokens

\* What a revocation has not seen was rotated from what it has seen.
RevokeOK(r) ==
  pc[r] = "revoke" =>
    \A t \in Live : family[t] \in req[r].scope /\ t \notin req[r].todo =>
      \E u \in req[r].todo : family[u] = family[t] /\ row[u] = "rotated"

\* The pair of a login is nobody else's.
PairsOK ==
  \A r, q \in Requests : pc[r] = "persist" /\ r # q => req[q].next # req[r].next

SInv ==
  /\ TypeOK /\ FamiliesOK /\ OneLivePerFamily /\ PairsOK
  /\ given \subseteq Issued /\ GivenIsTracked
  /\ \A r \in Requests : RequestOK(r) /\ RevokeOK(r)

LEMMA ReqTyped ==
  ASSUME TypeOK
  PROVE  req \in [Requests -> ReqRow] /\ pc \in [Requests -> States]
BY DEF TypeOK, ReqRow

\* A request moves on, and the others do not.
LEMMA Moved ==
  ASSUME TypeOK, NEW r \in Requests, NEW to \in States, NEW new \in ReqRow,
         pc' = [pc EXCEPT ![r] = to], req' = [req EXCEPT ![r] = new]
  PROVE  /\ pc' \in [Requests -> States] /\ req' \in [Requests -> ReqRow]
         /\ pc'[r] = to /\ req'[r] = new
         /\ \A q \in Requests \ {r} : pc'[q] = pc[q] /\ req'[q] = req[q]
BY ReqTyped

(***************************************************************************)
(* A step of one request that leaves the table alone.  It may take a lock  *)
(* that is free and give its own back, and it loses no access token.       *)
(***************************************************************************)
LEMMA QuietRows ==
  ASSUME SInv, NEW r \in Requests, NEW to \in States, NEW new \in ReqRow,
         pc' = [pc EXCEPT ![r] = to], req' = [req EXCEPT ![r] = new],
         UNCHANGED rows,
         lock' \in [Tokens -> Requests \union {NoRequest}],
         \A t \in Tokens, q \in Requests \ {r} : lock[t] = q => lock'[t] = q,
         active' \subseteq Tokens, denied' \subseteq Tokens, expired' \subseteq Tokens,
         loggedOut' \subseteq Tokens, Tracked \subseteq Tracked',
         given' \subseteq Issued, given' \subseteq Tracked',
         to = "persist" \/ new.next \notin {NoToken, req[r].next}
           => \A q \in Requests : req[q].next # new.next,
         RequestOK(r)', RevokeOK(r)'
  PROVE  SInv'
<1>1. /\ pc' \in [Requests -> States] /\ req' \in [Requests -> ReqRow]
      /\ pc'[r] = to /\ req'[r] = new
      /\ \A q \in Requests \ {r} : pc'[q] = pc[q] /\ req'[q] = req[q]
  BY Moved DEF SInv
<1>2. row' = row /\ family' = family /\ next' = next /\ Issued' = Issued /\ Live' = Live /\ Free' = Free
  BY DEF rows, Issued, Live, Free
<1>3. TypeOK'
  <2>1. given' \subseteq Tokens
    BY DEF Issued
  <2> QED BY <1>1, <1>2, <2>1 DEF SInv, TypeOK, ReqRow
<1>4. ASSUME NEW q \in Requests, q # r
      PROVE  RequestOK(q)' /\ RevokeOK(q)'
  <2>1. RequestOK(q) /\ RevokeOK(q)
    BY DEF SInv
  <2>2. \A t \in Live : lock[t] = q => lock'[t] = q
    BY <1>4 DEF Live
  <2>3. pc'[q] = pc[q] /\ req'[q] = req[q]
    BY <1>1, <1>4
  <2>4. RequestOK(q)'
    BY <1>2, <2>1, <2>2, <2>3 DEF RequestOK
  <2>5. RevokeOK(q)'
    BY <1>2, <2>1, <2>3 DEF RevokeOK
  <2> QED BY <2>4, <2>5
<1>5. PairsOK'
  <2>1. ASSUME NEW q \in Requests, NEW s \in Requests, pc'[q] = "persist", q # s
        PROVE  req'[s].next # req'[q].next
    <3>1. CASE q = r
      BY <1>1, <2>1, <3>1
    <3>2. CASE s = r /\ q # r
      <4>1. pc[q] = "persist" /\ req[q].next \in Tokens /\ req'[q] = req[q] /\ req'[s].next = new.next
        BY <1>1, <2>1, <3>2 DEF SInv, RequestOK, Free
      <4>2. req[r].next # req[q].next /\ req[q].next # NoToken
        BY <3>2, <4>1, SessionsAssumption DEF SInv, PairsOK
      <4> QED BY <3>2, <4>1, <4>2
    <3>3. CASE s # r /\ q # r
      BY <1>1, <2>1, <3>3 DEF SInv, PairsOK
    <3> QED BY <3>1, <3>2, <3>3
  <2> QED BY <2>1 DEF PairsOK
<1>6. FamiliesOK' /\ OneLivePerFamily'
  BY <1>2 DEF SInv, FamiliesOK, OneLivePerFamily
<1>7. given' \subseteq Issued' /\ GivenIsTracked'
  BY <1>2 DEF GivenIsTracked, Tracked
<1> QED BY <1>3, <1>4, <1>5, <1>6, <1>7 DEF SInv

\* The lock of a request is given back, or the locks stay.
LEMMA LocksKept ==
  ASSUME TypeOK, NEW r \in Requests, lock' \in {lock, Unlocked(r)}
  PROVE  /\ lock' \in [Tokens -> Requests \union {NoRequest}]
         /\ \A t \in Tokens, q \in Requests \ {r} : lock[t] = q => lock'[t] = q
BY DEF TypeOK, Unlocked

\* A request ends, or begins, without having changed anything else.
LEMMA Ends ==
  ASSUME SInv, NEW r \in Requests, NEW from, Return(r, from), UNCHANGED rows,
         lock' \in {lock, Unlocked(r)},
         active' \subseteq Tokens, denied' \subseteq Tokens, UNCHANGED <<expired, loggedOut>>,
         Tracked \subseteq Tracked', given' \subseteq Issued, given' \subseteq Tracked'
  PROVE  SInv'
<1>1. /\ pc' = [pc EXCEPT ![r] = "idle"] /\ req' = [req EXCEPT ![r] = NoReq] /\ TypeOK
      /\ expired' \subseteq Tokens /\ loggedOut' \subseteq Tokens /\ "idle" \in States
  BY DEF Return, Goto, SInv, TypeOK, States
<1>2. NoReq \in ReqRow /\ NoReq.next = NoToken /\ NoReq.scope = {}
  BY DEF NoReq, ReqRow
<1>3. pc'[r] = "idle" /\ req'[r] = NoReq
  BY <1>1, <1>2, Moved
<1>4. RequestOK(r)' /\ RevokeOK(r)'
  BY <1>2, <1>3 DEF RequestOK, RevokeOK
<1>5. /\ lock' \in [Tokens -> Requests \union {NoRequest}]
      /\ \A t \in Tokens, q \in Requests \ {r} : lock[t] = q => lock'[t] = q
  BY <1>1, LocksKept
<1> QED BY <1>1, <1>2, <1>4, <1>5, QuietRows

\* A request goes on, or begins, with only its own variables changed.
LEMMA GoesOn ==
  ASSUME SInv, NEW r \in Requests, NEW to \in States \ {"persist"}, NEW new \in ReqRow,
         pc' = [pc EXCEPT ![r] = to], req' = [req EXCEPT ![r] = new],
         UNCHANGED <<rows, redis, client>>, new.next \in {NoToken, req[r].next},
         new.scope \subseteq Issued,
         to = "register" => new.next \in Issued, to = "rotate" => new.token \in Issued,
         to = "insert" => new.token \in Live /\ lock'[new.token] = r,
         to = "deny" => new.access \in Tokens, RevokeOK(r)',
         lock' \in [Tokens -> Requests \union {NoRequest}],
         \A t \in Tokens, q \in Requests \ {r} : lock[t] = q => lock'[t] = q
  PROVE  SInv'
<1>1. UNCHANGED <<row, family, next, active, denied, given, expired, loggedOut>> /\ UNCHANGED rows
  BY DEF rows, redis, client
<1>2. /\ active' \subseteq Tokens /\ denied' \subseteq Tokens /\ expired' \subseteq Tokens
      /\ loggedOut' \subseteq Tokens
  BY <1>1 DEF SInv, TypeOK
<1>3. Tracked \subseteq Tracked' /\ given' \subseteq Issued /\ given' \subseteq Tracked'
  BY <1>1 DEF SInv, Tracked, GivenIsTracked
<1>4. Issued' = Issued /\ Live' = Live
  BY <1>1 DEF Issued, Live, Free
<1>5. pc'[r] = to /\ req'[r] = new
  BY Moved DEF SInv
<1>6. RequestOK(r)'
  BY <1>4, <1>5 DEF RequestOK
<1> QED BY <1>1, <1>2, <1>3, <1>6, QuietRows

LEMMA Begins ==
  ASSUME SInv, NEW r \in Requests,
         \/ LoginStart(r) \/ LogoutAllStart(r)
         \/ \E t \in Tokens : RefreshStart(r, t)
         \/ \E a \in Tokens, t \in Tokens \union {NoToken} : LogoutStart(r, a, t)
  PROVE  SInv'
<1>1. req[r] \in ReqRow /\ req \in [Requests -> ReqRow] /\ RequestOK(r) /\ TypeOK /\ given \subseteq Issued
  BY ReqTyped DEF SInv
<1>2. ASSUME NEW to \in {"issue", "rotate", "deny", "denyall"}, pc' = [pc EXCEPT ![r] = to]
      PROVE  RevokeOK(r)'
  BY <1>1, <1>2 DEF RevokeOK, TypeOK
<1>3. /\ lock \in [Tokens -> Requests \union {NoRequest}]
      /\ \A t \in Tokens, q \in Requests \ {r} : lock[t] = q => lock[t] = q
  BY <1>1 DEF TypeOK
<1>4. ASSUME NEW t \in given \union {NoToken}
      PROVE  FamilyOf(t) \subseteq Issued
  BY <1>1, <1>4 DEF FamilyOf, SInv, FamiliesOK
<1>5. CASE LoginStart(r)
  <2> DEFINE new == [req[r] EXCEPT !.kind = "login"]
  <2>1. /\ new \in ReqRow /\ new.next = req[r].next /\ new.scope = req[r].scope
        /\ new.scope \subseteq Issued
    BY <1>1 DEF ReqRow, RequestOK
  <2>2. pc' = [pc EXCEPT ![r] = "issue"] /\ req' = [req EXCEPT ![r] = new]
        /\ UNCHANGED <<rows, lock, redis, client>>
    BY <1>1, <1>5 DEF LoginStart, Goto
  <2> HIDE DEF new
  <2> QED BY <1>2, <1>3, <2>1, <2>2, GoesOn DEF States
<1>6. CASE LogoutAllStart(r)
  <2> DEFINE new == [NoReq EXCEPT !.kind = "logoutall", !.scope = {family[t] : t \in Tokens \ Free}]
  <2>1. {family[t] : t \in Tokens \ Free} \subseteq Issued
    BY DEF SInv, FamiliesOK, Issued
  <2>2. new \in ReqRow /\ new.next = NoToken /\ new.scope \subseteq Issued
    BY <2>1 DEF ReqRow, NoReq, Issued
  <2>3. pc' = [pc EXCEPT ![r] = "denyall"] /\ req' = [req EXCEPT ![r] = new]
        /\ UNCHANGED <<rows, lock, redis, client>>
    BY <1>1, <1>6 DEF LogoutAllStart, Goto
  <2> HIDE DEF new
  <2> QED BY <1>2, <1>3, <2>2, <2>3, GoesOn DEF States
<1>7. ASSUME NEW t \in Tokens, RefreshStart(r, t)
      PROVE  SInv'
  <2> DEFINE new == [NoReq EXCEPT !.kind = "refresh", !.token = t, !.scope = FamilyOf(t)]
  <2>1. t \in given /\ t \in Issued /\ FamilyOf(t) \subseteq Issued
    BY <1>1, <1>4, <1>7 DEF RefreshStart
  <2>2. new \in ReqRow /\ new.next = NoToken /\ new.scope \subseteq Issued /\ new.token = t
    BY <2>1 DEF ReqRow, NoReq, Issued
  <2>3. pc' = [pc EXCEPT ![r] = "rotate"] /\ req' = [req EXCEPT ![r] = new]
        /\ UNCHANGED <<rows, lock, redis, client>>
    BY <1>1, <1>7 DEF RefreshStart, Goto
  <2> HIDE DEF new
  <2> QED BY <1>2, <1>3, <2>1, <2>2, <2>3, GoesOn DEF States
<1>8. ASSUME NEW a \in Tokens, NEW t \in Tokens \union {NoToken}, LogoutStart(r, a, t)
      PROVE  SInv'
  <2> DEFINE new == [NoReq EXCEPT !.kind = "logout", !.access = a, !.token = t, !.scope = FamilyOf(t)]
  <2>1. FamilyOf(t) \subseteq Issued
    BY <1>4, <1>8 DEF LogoutStart
  <2>2. new \in ReqRow /\ new.next = NoToken /\ new.scope \subseteq Issued /\ new.access = a
    BY <2>1 DEF ReqRow, NoReq, Issued
  <2>3. pc' = [pc EXCEPT ![r] = "deny"] /\ req' = [req EXCEPT ![r] = new]
        /\ UNCHANGED <<rows, lock, redis, client>>
    BY <1>1, <1>8 DEF LogoutStart, Goto
  <2> HIDE DEF new
  <2> QED BY <1>2, <1>3, <2>2, <2>3, GoesOn DEF States
<1> QED BY <1>5, <1>6, <1>7, <1>8

(***************************************************************************)
(* The steps that leave the table alone.                                   *)
(***************************************************************************)
LEMMA LoginRegisterOK ==
  ASSUME SInv, NEW r \in Requests, LoginRegister(r)
  PROVE  SInv'
<1>1. req[r] \in ReqRow /\ req \in [Requests -> ReqRow] /\ RequestOK(r) /\ TypeOK
  BY ReqTyped DEF SInv
<1>2. PICK t \in Tokens : /\ IsFresh(t) /\ req' = [req EXCEPT ![r].next = t]
                          /\ active' = active \union {t}
  BY DEF LoginRegister, Registered
<1> DEFINE new == [req[r] EXCEPT !.next = t]
<1>3. new \in ReqRow /\ new.next = t /\ new.scope = req[r].scope
  BY <1>1 DEF ReqRow
<1>4. pc' = [pc EXCEPT ![r] = "persist"] /\ req' = [req EXCEPT ![r] = new]
      /\ UNCHANGED <<rows, lock, denied, given, expired, loggedOut>>
  BY <1>1, <1>2 DEF LoginRegister, Goto, client
<1> HIDE DEF new
<1>5. pc'[r] = "persist" /\ req'[r] = new
  BY <1>1, <1>3, <1>4, Moved DEF States
<1>6. Tracked \subseteq Tracked' /\ t \in Tracked' /\ given' \subseteq Issued /\ given' \subseteq Tracked'
  BY <1>2, <1>4 DEF SInv, Tracked, GivenIsTracked
<1>7. Issued' = Issued /\ Free' = Free /\ t \in Free
  BY <1>2, <1>4 DEF rows, Issued, Free, IsFresh
<1>8. RequestOK(r)' /\ RevokeOK(r)'
  BY <1>1, <1>3, <1>5, <1>6, <1>7 DEF RequestOK, RevokeOK
<1>9. \A q \in Requests : req[q].next # new.next
  BY <1>2, <1>3 DEF IsFresh
<1>10. /\ active' \subseteq Tokens /\ denied' \subseteq Tokens /\ expired' \subseteq Tokens
       /\ loggedOut' \subseteq Tokens
  BY <1>1, <1>2, <1>4 DEF TypeOK
<1>11. lock' \in [Tokens -> Requests \union {NoRequest}] /\ lock' = lock
  BY <1>1, <1>4 DEF TypeOK
<1> QED BY <1>3, <1>4, <1>6, <1>8, <1>9, <1>10, <1>11, QuietRows DEF States

LEMMA RotateLockOK ==
  ASSUME SInv, NEW r \in Requests, RotateLock(r)
  PROVE  SInv'
<1>1. req[r] \in ReqRow /\ req \in [Requests -> ReqRow] /\ RequestOK(r) /\ TypeOK
  BY ReqTyped DEF SInv
<1>2. PICK t \in Issued : t = req[r].token /\ lock[t] = NoRequest /\ lock' = [lock EXCEPT ![t] = r]
  BY <1>1 DEF RotateLock, RequestOK, CanLock
<1>3. PICK to \in {"insert", "snapshot"} :
        pc' = [pc EXCEPT ![r] = to] /\ (to = "insert" => row[t] = "live")
  BY <1>2 DEF RotateLock, Rotatable
<1>4. t \in Tokens /\ req' = [req EXCEPT ![r] = req[r]] /\ UNCHANGED <<rows, redis, client>>
  BY <1>1, <1>2 DEF RotateLock, Issued
<1>5. /\ lock' \in [Tokens -> Requests \union {NoRequest}]
      /\ \A u \in Tokens, q \in Requests \ {r} : lock[u] = q => lock'[u] = q
  BY <1>1, <1>2, <1>4, SessionsAssumption DEF TypeOK
<1>6. to = "insert" => req[r].token \in Live /\ lock'[req[r].token] = r
  BY <1>1, <1>2, <1>3, <1>4 DEF Live, TypeOK
<1>7. RevokeOK(r)'
  BY <1>1, <1>3 DEF RevokeOK, TypeOK
<1> QED BY <1>1, <1>3, <1>4, <1>5, <1>6, <1>7, GoesOn DEF RequestOK, States

LEMMA RefreshRegisterOK ==
  ASSUME SInv, NEW r \in Requests, RefreshRegister(r)
  PROVE  SInv'
<1>1. PICK n \in Issued : n = req[r].next
  BY DEF RefreshRegister, Return, Goto, SInv, RequestOK
<1>2. /\ active' = active \union {n} /\ given' \in {given, given \union {n}}
      /\ UNCHANGED <<rows, lock, denied, expired, loggedOut>> /\ Return(r, "register")
  BY <1>1 DEF RefreshRegister, Registered, Answered
<1>3. active' \subseteq Tokens /\ denied' \subseteq Tokens
  BY <1>1, <1>2 DEF SInv, TypeOK, Issued
<1>4. Tracked \subseteq Tracked' /\ given' \subseteq Issued /\ given' \subseteq Tracked'
  BY <1>1, <1>2 DEF SInv, Tracked, GivenIsTracked
<1> QED BY <1>2, <1>3, <1>4, Ends

\* The access tokens that a deny list or the clock takes stay accounted for.
LEMMA DenyOK ==
  ASSUME SInv, NEW r \in Requests, LogoutDeny(r) \/ DenylistAllActive(r)
  PROVE  SInv'
<1>1. req[r] \in ReqRow /\ req \in [Requests -> ReqRow] /\ RequestOK(r) /\ TypeOK
  BY ReqTyped DEF SInv
<1>2. /\ active' \subseteq Tokens /\ denied' \subseteq Tokens /\ Tracked \subseteq Tracked'
      /\ UNCHANGED <<rows, lock, given, expired, loggedOut>>
  BY <1>1 DEF LogoutDeny, DenylistAllActive, RequestOK, Tracked, client, TypeOK
<1>3. given' \subseteq Issued /\ given' \subseteq Tracked'
  BY <1>2 DEF SInv, Tracked, GivenIsTracked
<1>4. ASSUME NEW from, Return(r, from)
      PROVE  SInv'
  BY <1>2, <1>3, <1>4, Ends
<1>5. ASSUME NEW from, Goto(r, from, "snapshot"), req' = req
      PROVE  SInv'
  <2>1. pc' = [pc EXCEPT ![r] = "snapshot"] /\ req' = [req EXCEPT ![r] = req[r]]
    BY <1>1, <1>5 DEF Goto
  <2>2. pc'[r] = "snapshot" /\ req'[r] = req[r] /\ Issued' = Issued
    BY <1>1, <1>2, <2>1, Moved DEF States, rows, Issued, Free
  <2>3. RequestOK(r)' /\ RevokeOK(r)'
    BY <1>1, <2>2 DEF RequestOK, RevokeOK
  <2>4. /\ lock' \in [Tokens -> Requests \union {NoRequest}] /\ lock' = lock
        /\ expired' \subseteq Tokens /\ loggedOut' \subseteq Tokens
    BY <1>1, <1>2 DEF TypeOK
  <2> QED BY <1>1, <1>2, <1>3, <2>1, <2>3, <2>4, QuietRows DEF States
<1> QED BY <1>4, <1>5 DEF LogoutDeny, DenylistAllActive

LEMMA SnapshotOK ==
  ASSUME SInv, NEW r \in Requests, Snapshot(r)
  PROVE  SInv'
<1>1. req[r] \in ReqRow /\ req \in [Requests -> ReqRow] /\ RequestOK(r) /\ TypeOK
  BY ReqTyped DEF SInv
<1> DEFINE seen == Selected(r)
           new == [req[r] EXCEPT !.todo = seen]
<1>2. seen \subseteq Tokens /\ \A t \in Live : family[t] \in req[r].scope => t \in seen
  BY DEF Selected, Live
<1>3. pc' = [pc EXCEPT ![r] = "revoke"] /\ req' = [req EXCEPT ![r] = new]
      /\ UNCHANGED <<rows, lock, redis, client>>
  BY <1>1 DEF Snapshot, Goto
<1> HIDE DEF seen
<1>4. new \in ReqRow /\ new.next = req[r].next /\ new.scope = req[r].scope /\ new.todo = seen
  BY <1>1, <1>2 DEF ReqRow
<1> HIDE DEF new
<1>5. pc'[r] = "revoke" /\ req'[r] = new
  BY <1>1, <1>3, <1>4, Moved DEF States
<1>6. RevokeOK(r)'
  BY <1>2, <1>3, <1>4, <1>5 DEF RevokeOK, Live, rows
<1>7. lock' \in [Tokens -> Requests \union {NoRequest}] /\ lock' = lock
  BY <1>1, <1>3 DEF TypeOK
<1> QED BY <1>1, <1>3, <1>4, <1>6, <1>7, GoesOn DEF RequestOK, States

LEMMA FailOK ==
  ASSUME SInv, NEW r \in Requests, Fail(r) \/ NoneLeft(r)
  PROVE  SInv'
<1>1. PICK from : Return(r, from)
  BY DEF Fail, NoneLeft
<1>2. /\ lock' = Unlocked(r)
      /\ UNCHANGED <<rows, active, denied, given, expired, loggedOut>>
  BY DEF Fail, NoneLeft, redis, client
<1>3. active' \subseteq Tokens /\ denied' \subseteq Tokens
  BY <1>2 DEF SInv, TypeOK
<1>4. Tracked \subseteq Tracked' /\ given' \subseteq Issued /\ given' \subseteq Tracked'
  BY <1>2 DEF SInv, Tracked, GivenIsTracked
<1> QED BY <1>1, <1>2, <1>3, <1>4, Ends

LEMMA ExpireOK ==
  ASSUME SInv, NEW t \in Tokens, Expire(t)
  PROVE  SInv'
<1>1. /\ expired' = expired \union {t} /\ denied' = denied \ {t}
      /\ UNCHANGED <<row, family, next, lock, active, given, loggedOut, pc, req>>
  BY DEF Expire, rows
<1>2. Issued' = Issued /\ Live' = Live /\ Free' = Free /\ Tracked \subseteq Tracked'
  BY <1>1 DEF Issued, Live, Free, Tracked
<1>3. TypeOK'
  BY <1>1 DEF SInv, TypeOK
<1>4. ASSUME NEW r \in Requests
      PROVE  RequestOK(r)' /\ RevokeOK(r)'
  <2>1. RequestOK(r) /\ RevokeOK(r)
    BY DEF SInv
  <2> QED BY <1>1, <1>2, <2>1 DEF RequestOK, RevokeOK
<1>5. FamiliesOK' /\ OneLivePerFamily' /\ PairsOK' /\ given' \subseteq Issued'
  BY <1>1, <1>2 DEF SInv, FamiliesOK, OneLivePerFamily, PairsOK
<1>6. GivenIsTracked'
  BY <1>1, <1>2 DEF SInv, GivenIsTracked, Tracked
<1> QED BY <1>3, <1>4, <1>5, <1>6 DEF SInv

(***************************************************************************)
(* The three steps that change the table: what each makes of it, and that  *)
(* it keeps the invariant.                                                 *)
(***************************************************************************)
LEMMA PersistRows ==
  ASSUME SInv, NEW r \in Requests, LoginPersist(r)
  PROVE  \E t \in Free :
           /\ t = req[r].next /\ t \in Tracked /\ t \in Tokens
           /\ Live' = Live \union {t} /\ Free' = Free \ {t} /\ Issued' = Issued \union {t}
           /\ row' = [row EXCEPT ![t] = "live"] /\ family' = [family EXCEPT ![t] = t]
           /\ family' \in [Tokens -> Tokens \union {NoToken}] /\ family'[t] = t
           /\ \A u \in Tokens \ {t} : row'[u] = row[u] /\ family'[u] = family[u]
           /\ row'[t] = "live" /\ next[t] = NoToken
<1>1. PICK t \in Free : t = req[r].next /\ t \in Tracked
  BY DEF SInv, RequestOK, LoginPersist, Return, Goto
<1>2. row' = [row EXCEPT ![t] = "live"] /\ family' = [family EXCEPT ![t] = t] /\ t \in Tokens
  BY <1>1 DEF LoginPersist, Free
<1>3. /\ family' \in [Tokens -> Tokens \union {NoToken}] /\ family'[t] = t /\ row'[t] = "live"
      /\ \A u \in Tokens \ {t} : row'[u] = row[u] /\ family'[u] = family[u]
      /\ row[t] = "none" /\ next[t] = NoToken
  BY <1>1, <1>2 DEF SInv, TypeOK, Free
<1>4. Live' = Live \union {t} /\ Free' = Free \ {t}
  BY <1>1, <1>2, <1>3 DEF Live, Free
<1>5. Issued' = Issued \union {t}
  BY <1>2, <1>4 DEF Issued
<1> QED BY <1>1, <1>2, <1>3, <1>4, <1>5

LEMMA PersistOK ==
  ASSUME SInv, NEW r \in Requests, LoginPersist(r)
  PROVE  SInv'
<1>1. PICK t \in Free :
        /\ t = req[r].next /\ t \in Tracked /\ t \in Tokens
        /\ Live' = Live \union {t} /\ Free' = Free \ {t} /\ Issued' = Issued \union {t}
        /\ row' = [row EXCEPT ![t] = "live"] /\ family' = [family EXCEPT ![t] = t]
        /\ family' \in [Tokens -> Tokens \union {NoToken}] /\ family'[t] = t
        /\ \A u \in Tokens \ {t} : row'[u] = row[u] /\ family'[u] = family[u]
        /\ row'[t] = "live" /\ next[t] = NoToken
  BY PersistRows
<1>2. /\ pc' = [pc EXCEPT ![r] = "idle"] /\ req' = [req EXCEPT ![r] = NoReq] /\ pc[r] = "persist"
      /\ UNCHANGED <<next, lock, active, denied, expired, loggedOut>>
      /\ given' \in {given, given \union {t}}
  BY <1>1 DEF LoginPersist, Return, Goto, Answered, redis
<1>3. NoReq \in ReqRow /\ NoReq.next = NoToken /\ NoReq.scope = {}
  BY DEF NoReq, ReqRow
<1>4. /\ pc' \in [Requests -> States] /\ req' \in [Requests -> ReqRow]
      /\ pc'[r] = "idle" /\ req'[r] = NoReq
      /\ \A q \in Requests \ {r} : pc'[q] = pc[q] /\ req'[q] = req[q]
  BY <1>2, <1>3, Moved DEF SInv, States
<1>5. TypeOK'
  <2>1. \A u \in Tokens : /\ row'[u] = "none"    <=> family'[u] = NoToken
                          /\ row'[u] = "rotated" <=> next'[u] # NoToken
    BY <1>1, <1>2, SessionsAssumption DEF SInv, TypeOK
  <2>2. row' \in [Tokens -> {"none", "live", "rotated", "revoked"}]
    BY <1>1 DEF SInv, TypeOK
  <2> QED BY <1>1, <1>2, <1>4, <2>1, <2>2 DEF SInv, TypeOK, ReqRow
<1>6. FamiliesOK'
  <2>1. ASSUME NEW u \in Issued'
        PROVE  family'[u] \in Issued'
    BY <1>1, <2>1 DEF SInv, FamiliesOK, Issued
  <2> QED BY <2>1 DEF FamiliesOK
<1>7. OneLivePerFamily'
  <2>1. \A u \in Live : u # t /\ u \in Tokens /\ family[u] # t
    BY <1>1 DEF SInv, FamiliesOK, Issued, Live, Free
  <2> QED BY <1>1, <2>1 DEF SInv, OneLivePerFamily
<1>8. PairsOK'
  <2>1. ASSUME NEW q \in Requests, NEW s \in Requests, pc'[q] = "persist", q # s
        PROVE  req'[s].next # req'[q].next
    <3>1. q # r /\ pc[q] = "persist" /\ req'[q] = req[q] /\ req[q].next \in Tokens
      BY <1>4, <2>1 DEF SInv, RequestOK, Free
    <3>2. CASE s = r
      BY <1>3, <1>4, <3>1, <3>2, SessionsAssumption
    <3>3. CASE s # r
      BY <1>4, <2>1, <3>1, <3>3 DEF SInv, PairsOK
    <3> QED BY <3>2, <3>3
  <2> QED BY <2>1 DEF PairsOK
<1>9. given' \subseteq Issued' /\ GivenIsTracked'
  BY <1>1, <1>2 DEF SInv, GivenIsTracked, Tracked
<1>10. ASSUME NEW q \in Requests
       PROVE  RequestOK(q)' /\ RevokeOK(q)'
  <2>1. CASE q = r
    BY <1>3, <1>4, <2>1 DEF RequestOK, RevokeOK
  <2>2. CASE q # r
    <3>1. RequestOK(q) /\ RevokeOK(q) /\ req'[q] = req[q] /\ pc'[q] = pc[q] /\ Tracked' = Tracked
      BY <1>2, <1>4, <2>2 DEF SInv, Tracked
    <3>2. pc[q] = "persist" => req[q].next # t
      BY <1>1, <1>2, <2>2 DEF SInv, PairsOK
    <3>3. RequestOK(q)'
      BY <1>1, <1>2, <3>1, <3>2 DEF RequestOK
    <3>4. ASSUME pc[q] = "revoke", NEW u \in Live', family'[u] \in req[q].scope, u \notin req[q].todo
          PROVE  \E w \in req[q].todo : family'[w] = family'[u] /\ row'[w] = "rotated"
      <4>1. u # t /\ u \in Live /\ family'[u] = family[u]
        BY <1>1, <3>1, <3>4 DEF RequestOK, Issued, Live
      <4>2. PICK w \in req[q].todo : family[w] = family[u] /\ row[w] = "rotated"
        BY <3>1, <3>4, <4>1 DEF RevokeOK
      <4>3. w \in Tokens /\ w # t
        BY <1>1, <4>2, ReqTyped DEF SInv, ReqRow, Free
      <4> QED BY <1>1, <4>1, <4>2, <4>3
    <3> QED BY <3>1, <3>3, <3>4 DEF RevokeOK
  <2> QED BY <2>1, <2>2
<1> QED BY <1>5, <1>6, <1>7, <1>8, <1>9, <1>10 DEF SInv

LEMMA RotateRows ==
  ASSUME SInv, NEW r \in Requests, RotateCommit(r)
  PROVE  \E t \in Live, n \in Free :
           /\ t = req[r].token /\ lock[t] = r /\ IsFresh(n)
           /\ req' = [req EXCEPT ![r].next = n] /\ next' = [next EXCEPT ![t] = n]
           /\ Live' = (Live \ {t}) \union {n} /\ Free' = Free \ {n} /\ Issued' = Issued \union {n}
           /\ row' \in [Tokens -> {"none", "live", "rotated", "revoked"}]
           /\ family' \in [Tokens -> Tokens \union {NoToken}] /\ family'[n] = family[t]
           /\ \A u \in Tokens \ {n} : family'[u] = family[u]
           /\ row'[t] = "rotated" /\ row'[n] = "live"
           /\ \A u \in Tokens \ {t, n} : row'[u] = row[u]
<1>1. req[r].token \in Live /\ lock[req[r].token] = r
  BY DEF SInv, RequestOK, RotateCommit, Goto
<1>2. PICK t \in Live : t = req[r].token
  BY <1>1
<1>3. PICK n \in Tokens :
        /\ IsFresh(n) /\ req' = [req EXCEPT ![r].next = n] /\ next' = [next EXCEPT ![t] = n]
        /\ row' = [row EXCEPT ![t] = "rotated", ![n] = "live"]
        /\ family' = [family EXCEPT ![n] = family[t]]
  BY <1>2 DEF RotateCommit, Replaced
<1>4. t \in Tokens /\ n \in Free /\ row[t] = "live" /\ row[n] = "none" /\ t # n
  BY <1>3 DEF Live, Free, IsFresh
<1>5. /\ row' \in [Tokens -> {"none", "live", "rotated", "revoked"}]
      /\ row'[t] = "rotated" /\ row'[n] = "live"
      /\ \A u \in Tokens \ {t, n} : row'[u] = row[u]
  BY <1>3, <1>4 DEF SInv, TypeOK
<1>6. /\ family' \in [Tokens -> Tokens \union {NoToken}] /\ family'[n] = family[t]
      /\ \A u \in Tokens \ {n} : family'[u] = family[u]
  BY <1>3, <1>4 DEF SInv, TypeOK
<1>7. Live' = (Live \ {t}) \union {n} /\ Free' = Free \ {n}
  BY <1>4, <1>5 DEF Live, Free
<1>8. Issued' = Issued \union {n}
  BY <1>3, <1>7 DEF Issued
<1> QED BY <1>1, <1>2, <1>3, <1>4, <1>5, <1>6, <1>7, <1>8

LEMMA RotateOK ==
  ASSUME SInv, NEW r \in Requests, RotateCommit(r)
  PROVE  SInv'
<1>1. PICK t \in Live, n \in Free :
        /\ t = req[r].token /\ lock[t] = r /\ IsFresh(n)
        /\ req' = [req EXCEPT ![r].next = n] /\ next' = [next EXCEPT ![t] = n]
        /\ Live' = (Live \ {t}) \union {n} /\ Free' = Free \ {n} /\ Issued' = Issued \union {n}
        /\ row' \in [Tokens -> {"none", "live", "rotated", "revoked"}]
        /\ family' \in [Tokens -> Tokens \union {NoToken}] /\ family'[n] = family[t]
        /\ \A u \in Tokens \ {n} : family'[u] = family[u]
        /\ row'[t] = "rotated" /\ row'[n] = "live"
        /\ \A u \in Tokens \ {t, n} : row'[u] = row[u]
  BY RotateRows
<1>2. /\ t \in Tokens /\ n \in Tokens /\ t # n /\ t \in Issued /\ n \notin Issued
      /\ row[n] = "none" /\ row[t] = "live" /\ n # NoToken
  BY SessionsAssumption DEF Live, Free, Issued
<1>3. /\ pc[r] = "insert" /\ pc' = [pc EXCEPT ![r] = "register"] /\ lock' = Unlocked(r)
      /\ UNCHANGED <<active, denied, given, expired, loggedOut>>
  BY DEF RotateCommit, Goto, redis, client
<1> DEFINE new == [req[r] EXCEPT !.next = n]
<1>4. new \in ReqRow /\ new.next = n /\ new.scope = req[r].scope /\ req' = [req EXCEPT ![r] = new]
  BY <1>1, <1>2, ReqTyped DEF SInv, ReqRow
<1> HIDE DEF new
<1>5. /\ pc' \in [Requests -> States] /\ req' \in [Requests -> ReqRow]
      /\ pc'[r] = "register" /\ req'[r] = new
      /\ \A q \in Requests \ {r} : pc'[q] = pc[q] /\ req'[q] = req[q]
  BY <1>3, <1>4, Moved DEF SInv, States
<1>6. /\ lock' \in [Tokens -> Requests \union {NoRequest}]
      /\ \A u \in Tokens, q \in Requests \ {r} : lock[u] = q => lock'[u] = q
  BY <1>3, LocksKept DEF SInv
<1>7. TypeOK'
  <2>1. next' \in [Tokens -> Tokens \union {NoToken}] /\ next'[t] = n
        /\ \A u \in Tokens \ {t} : next'[u] = next[u]
    BY <1>1, <1>2 DEF SInv, TypeOK
  <2>2. family[t] # NoToken /\ next[n] = NoToken
    BY <1>2 DEF SInv, TypeOK
  <2>3. \A u \in Tokens : /\ row'[u] = "none"    <=> family'[u] = NoToken
                          /\ row'[u] = "rotated" <=> next'[u] # NoToken
    BY <1>1, <1>2, <2>1, <2>2 DEF SInv, TypeOK
  <2> QED BY <1>1, <1>3, <1>5, <1>6, <2>1, <2>3 DEF SInv, TypeOK, ReqRow
<1>8. FamiliesOK'
  <2>1. ASSUME NEW u \in Issued'
        PROVE  family'[u] \in Issued'
    BY <1>1, <1>2, <2>1 DEF SInv, FamiliesOK, Issued
  <2> QED BY <2>1 DEF FamiliesOK
<1>9. OneLivePerFamily'
  <2>1. \A u \in Live \ {t} : family[u] # family[t] /\ u \in Tokens \ {n}
    BY <1>2 DEF SInv, OneLivePerFamily, Live
  <2> QED BY <1>1, <2>1 DEF SInv, OneLivePerFamily
<1>10. PairsOK'
  <2>1. ASSUME NEW q \in Requests, NEW s \in Requests, pc'[q] = "persist", q # s
        PROVE  req'[s].next # req'[q].next
    <3>1. q # r /\ pc[q] = "persist" /\ req'[q] = req[q]
      BY <1>5, <2>1
    <3>2. CASE s = r
      BY <1>1, <1>4, <1>5, <3>1, <3>2 DEF IsFresh
    <3>3. CASE s # r
      BY <1>5, <2>1, <3>1, <3>3 DEF SInv, PairsOK
    <3> QED BY <3>2, <3>3
  <2> QED BY <2>1 DEF PairsOK
<1>11. given' \subseteq Issued' /\ GivenIsTracked'
  BY <1>1, <1>3 DEF SInv, GivenIsTracked
<1>12. ASSUME NEW q \in Requests
       PROVE  RequestOK(q)' /\ RevokeOK(q)'
  <2>1. CASE q = r
    <3>1. RequestOK(r)
      BY DEF SInv
    <3> QED BY <1>1, <1>4, <1>5, <2>1, <3>1 DEF RequestOK, RevokeOK
  <2>2. CASE q # r
    <3>1. RequestOK(q) /\ RevokeOK(q) /\ req'[q] = req[q] /\ pc'[q] = pc[q] /\ Tracked' = Tracked
      BY <1>3, <1>5, <2>2 DEF SInv, Tracked
    <3>2. req[q].next # n
      BY <1>1 DEF IsFresh
    <3>3. pc[q] = "insert" => req[q].token # t /\ lock'[req[q].token] = q
      BY <1>1, <1>6, <2>2, <3>1 DEF RequestOK, Live
    <3>4. RequestOK(q)'
      <4>1. req[q].scope \subseteq Issued' /\ (req[q].token \in Issued => req[q].token \in Issued')
        BY <1>1, <3>1 DEF RequestOK
      <4>2. pc[q] = "persist" => req[q].next \in Free' /\ req[q].next \in Tracked'
        BY <1>1, <3>1, <3>2 DEF RequestOK
      <4>3. pc[q] = "register" => req[q].next \in Issued'
        BY <1>1, <3>1 DEF RequestOK
      <4>4. pc[q] = "rotate" => req[q].token \in Issued'
        BY <3>1, <4>1 DEF RequestOK
      <4>5. pc[q] = "insert" => req[q].token \in Live' /\ lock'[req[q].token] = q
        BY <1>1, <3>1, <3>3 DEF RequestOK
      <4>6. pc[q] = "deny" => req[q].access \in Tokens
        BY <3>1 DEF RequestOK
      <4> QED BY <3>1, <4>1, <4>2, <4>3, <4>4, <4>5, <4>6 DEF RequestOK
    <3>5. ASSUME NEW w \in req[q].todo, row[w] = "rotated"
          PROVE  row'[w] = "rotated" /\ family'[w] = family[w]
      <4>1. w \in Tokens \ {t, n}
        BY <1>2, <3>5, ReqTyped DEF SInv, ReqRow
      <4> QED BY <1>1, <3>5, <4>1
    <3>6. ASSUME pc[q] = "revoke", NEW u \in Live', family'[u] \in req[q].scope, u \notin req[q].todo
          PROVE  \E w \in req[q].todo : family'[w] = family'[u] /\ row'[w] = "rotated"
      <4>1. CASE u = n /\ t \in req[q].todo
        BY <1>1, <1>2, <4>1
      <4>2. CASE u = n /\ t \notin req[q].todo
        <5>1. PICK w \in req[q].todo : family[w] = family[t] /\ row[w] = "rotated"
          BY <1>1, <3>1, <3>6, <4>2 DEF RevokeOK
        <5> QED BY <1>1, <3>5, <4>2, <5>1
      <4>3. CASE u # n
        <5>1. u \in Live /\ u \in Tokens /\ family'[u] = family[u]
          BY <1>1, <4>3 DEF Live
        <5>2. PICK w \in req[q].todo : family[w] = family[u] /\ row[w] = "rotated"
          BY <3>1, <3>6, <5>1 DEF RevokeOK
        <5> QED BY <3>5, <5>1, <5>2
      <4> QED BY <4>1, <4>2, <4>3
    <3> QED BY <3>1, <3>4, <3>6 DEF RevokeOK
  <2> QED BY <2>1, <2>2
<1> QED BY <1>7, <1>8, <1>9, <1>10, <1>11, <1>12 DEF SInv

LEMMA RevokeRows ==
  ASSUME SInv, NEW r \in Requests, Revoke(r)
  PROVE  /\ row' \in [Tokens -> {"none", "live", "rotated", "revoked"}]
         /\ \A t \in Tokens : row'[t] = IF t \in req[r].todo /\ row[t] = "live"
                                          THEN "revoked" ELSE row[t]
         /\ Live' = Live \ req[r].todo /\ Free' = Free /\ Issued' = Issued
         /\ UNCHANGED <<family, next>>
<1>1. /\ row' = [t \in Tokens |-> IF t \in req[r].todo /\ row[t] = "live"
                                    THEN "revoked" ELSE row[t]]
      /\ UNCHANGED <<family, next>>
  BY DEF Revoke
<1>2. row' \in [Tokens -> {"none", "live", "rotated", "revoked"}]
  BY <1>1 DEF SInv, TypeOK
<1>3. Live' = Live \ req[r].todo /\ Free' = Free
  BY <1>1 DEF Live, Free
<1> QED BY <1>1, <1>2, <1>3 DEF Issued

LEMMA RevokesOK ==
  ASSUME SInv, NEW r \in Requests, Revoke(r)
  PROVE  SInv'
<1>1. /\ row' \in [Tokens -> {"none", "live", "rotated", "revoked"}]
      /\ \A t \in Tokens : row'[t] = IF t \in req[r].todo /\ row[t] = "live"
                                       THEN "revoked" ELSE row[t]
      /\ Live' = Live \ req[r].todo /\ Free' = Free /\ Issued' = Issued
      /\ UNCHANGED <<family, next>>
  BY RevokeRows
<1>2. /\ lock' = Unlocked(r) /\ \A t \in req[r].todo : lock[t] \in {NoRequest, r}
      /\ UNCHANGED <<active, denied, given, expired>>
  BY DEF Revoke, redis
<1>3. TypeOK /\ RequestOK(r) /\ req[r] \in ReqRow /\ req \in [Requests -> ReqRow]
  BY ReqTyped DEF SInv
<1>4. PICK to \in {"denyall", "idle"}, new \in {req[r], NoReq} :
        /\ pc' = [pc EXCEPT ![r] = to] /\ req' = [req EXCEPT ![r] = new]
  BY <1>3 DEF Revoke, Goto, Return
<1>5. NoReq \in ReqRow /\ NoReq.next = NoToken /\ NoReq.scope = {}
  BY DEF NoReq, ReqRow
<1>6. /\ pc' \in [Requests -> States] /\ req' \in [Requests -> ReqRow]
      /\ pc'[r] = to /\ req'[r] = new
      /\ \A q \in Requests \ {r} : pc'[q] = pc[q] /\ req'[q] = req[q]
  <2>1. new \in ReqRow /\ to \in States
    BY <1>3, <1>4, <1>5 DEF States
  <2> HIDE DEF ReqRow, NoReq
  <2> QED BY <1>3, <1>4, <2>1, Moved
<1>7. /\ lock' \in [Tokens -> Requests \union {NoRequest}]
      /\ \A u \in Tokens, q \in Requests \ {r} : lock[u] = q => lock'[u] = q
  BY <1>2, <1>3, LocksKept
<1>8. loggedOut' \subseteq Tokens
  BY <1>3 DEF Revoke, TypeOK, ReqRow
<1>9. TypeOK'
  <2>1. \A u \in Tokens : /\ row'[u] = "none"    <=> family'[u] = NoToken
                          /\ row'[u] = "rotated" <=> next'[u] # NoToken
    BY <1>1, <1>3 DEF TypeOK
  <2> QED BY <1>1, <1>2, <1>3, <1>6, <1>7, <1>8, <2>1 DEF TypeOK, ReqRow
<1>10. FamiliesOK' /\ OneLivePerFamily' /\ given' \subseteq Issued' /\ GivenIsTracked'
  BY <1>1, <1>2 DEF SInv, FamiliesOK, OneLivePerFamily, GivenIsTracked
<1>11. PairsOK'
  <2>1. ASSUME NEW q \in Requests, NEW s \in Requests, pc'[q] = "persist", q # s
        PROVE  req'[s].next # req'[q].next
    <3>1. q # r /\ pc[q] = "persist" /\ req'[q] = req[q] /\ req[q].next \in Tokens
      BY <1>4, <1>6, <2>1 DEF SInv, RequestOK, Free
    <3>2. req[s].next # req[q].next /\ (s = r => req'[s] = new) /\ (s # r => req'[s] = req[s])
      BY <1>6, <2>1, <3>1 DEF SInv, PairsOK
    <3> QED BY <1>4, <1>5, <3>1, <3>2, SessionsAssumption
  <2> QED BY <2>1 DEF PairsOK
<1>12. ASSUME NEW q \in Requests
       PROVE  RequestOK(q)' /\ RevokeOK(q)'
  <2>1. CASE q = r
    BY <1>1, <1>3, <1>4, <1>5, <1>6, <2>1 DEF RequestOK, RevokeOK
  <2>2. CASE q # r
    <3>1. RequestOK(q) /\ RevokeOK(q) /\ req'[q] = req[q] /\ pc'[q] = pc[q] /\ Tracked' = Tracked
      BY <1>2, <1>6, <2>2 DEF SInv, Tracked
    <3>2. pc[q] = "insert" => req[q].token \in Live' /\ lock'[req[q].token] = q
      BY <1>1, <1>2, <1>7, <2>2, <3>1, SessionsAssumption DEF RequestOK, Live
    <3>3. RequestOK(q)'
      BY <1>1, <3>1, <3>2 DEF RequestOK
    <3>4. ASSUME pc[q] = "revoke", NEW u \in Live', family'[u] \in req[q].scope, u \notin req[q].todo
          PROVE  \E w \in req[q].todo : family'[w] = family'[u] /\ row'[w] = "rotated"
      <4>1. PICK w \in req[q].todo : family[w] = family[u] /\ row[w] = "rotated"
        BY <1>1, <3>1, <3>4 DEF RevokeOK
      <4>2. w \in Tokens
        BY <1>3, ReqTyped DEF ReqRow
      <4> QED BY <1>1, <4>1, <4>2
    <3> QED BY <3>1, <3>3, <3>4 DEF RevokeOK
  <2> QED BY <2>1, <2>2
<1> QED BY <1>9, <1>10, <1>11, <1>12 DEF SInv

(***************************************************************************)
(* The invariant holds in every state.                                     *)
(***************************************************************************)
LEMMA SStart ==
  ASSUME Init
  PROVE  SInv
<1>1. NoReq \in ReqRow /\ NoReq.scope = {}
  BY DEF NoReq, ReqRow
<1>2. Live = {} /\ Free = Tokens /\ Issued = {}
  BY DEF Init, Live, Free, Issued
<1>3. TypeOK
  BY <1>1 DEF Init, TypeOK, ReqRow, States
<1>4. FamiliesOK /\ OneLivePerFamily /\ PairsOK /\ given \subseteq Issued /\ GivenIsTracked
  BY <1>2 DEF Init, FamiliesOK, OneLivePerFamily, PairsOK, GivenIsTracked
<1>5. ASSUME NEW r \in Requests
      PROVE  RequestOK(r) /\ RevokeOK(r)
  BY <1>1 DEF Init, RequestOK, RevokeOK
<1> QED BY <1>3, <1>4, <1>5 DEF SInv

LEMMA SStutter ==
  ASSUME SInv, UNCHANGED vars
  PROVE  SInv'
<1>1. UNCHANGED <<row, family, next, lock, active, denied, given, expired, loggedOut, pc, req>>
  BY DEF vars, rows, redis, client
<1> QED BY <1>1 DEF SInv, TypeOK, FamiliesOK, OneLivePerFamily, PairsOK, GivenIsTracked,
                    RequestOK, RevokeOK, Issued, Tracked, Live, Free

LEMMA SStep ==
  ASSUME SInv, [Next]_vars
  PROVE  SInv'
<1>1. ASSUME NEW r \in Requests, Step(r)
      PROVE  SInv'
  BY <1>1, LoginRegisterOK, PersistOK, RotateLockOK, RotateOK, RefreshRegisterOK, DenyOK,
     SnapshotOK, RevokesOK, FailOK DEF Step
<1>2. ASSUME NEW r \in Requests,
             \/ LoginStart(r) \/ LogoutAllStart(r)
             \/ \E t \in Tokens : RefreshStart(r, t)
             \/ \E a \in Tokens, t \in Tokens \union {NoToken} : LogoutStart(r, a, t)
      PROVE  SInv'
  BY <1>2, Begins
<1>3. ASSUME NEW r \in Requests, Fail(r)
      PROVE  SInv'
  BY <1>3, FailOK
<1>4. ASSUME NEW t \in Tokens, Expire(t)
      PROVE  SInv'
  BY <1>4, ExpireOK
<1>5. CASE UNCHANGED vars
  BY <1>5, SStutter
<1> QED BY <1>1, <1>2, <1>3, <1>4, <1>5 DEF Next

LEMMA SAlways == Spec => []SInv
BY SStart, SStep, PTL DEF Spec

(***************************************************************************)
(* The type of the state: every row is live, rotated or revoked with the   *)
(* columns that go with it, after any interleaving of the requests.        *)
(***************************************************************************)
THEOREM SessionsTyped == Spec => []TypeOK
BY SAlways, PTL DEF SInv

(***************************************************************************)
(* The comment of Rotate, for any number of concurrent requests: a family  *)
(* never has two refresh tokens that work.                                 *)
(***************************************************************************)
THEOREM RefreshOnce == Spec => []OneLivePerFamily
BY SAlways, PTL DEF SInv

(***************************************************************************)
(* RegisterActive and the denylist between them know every access token a  *)
(* client holds and that has not expired, whatever fails in between.       *)
(***************************************************************************)
THEOREM GivenTracked == Spec => []GivenIsTracked
BY SAlways, PTL DEF SInv

(***************************************************************************)
(* A revocation (RevokeFamily, RevokeAllForUser) misses a token only when  *)
(* a rotation that committed after its snapshot made that token.           *)
(***************************************************************************)
THEOREM RevocationsReach == Spec => OnlyRotationEscapes
<1> DEFINE Reach(r) == Revoke(r) =>
             \A t \in Tokens : row'[t] = "live" /\ family'[t] \in req[r].scope =>
               \E u \in req[r].todo : family[u] = family[t] /\ row[u] = "rotated"
<1>1. ASSUME SInv, NEW r \in Requests, Revoke(r), NEW t \in Tokens,
             row'[t] = "live", family'[t] \in req[r].scope
      PROVE  \E u \in req[r].todo : family[u] = family[t] /\ row[u] = "rotated"
  <2>1. family' = family /\ t \notin req[r].todo /\ row[t] = "live"
    BY <1>1, RevokeRows
  <2>2. RevokeOK(r) /\ pc[r] = "revoke" /\ t \in Live
    BY <1>1, <2>1 DEF SInv, Revoke, Live
  <2> QED BY <1>1, <2>1, <2>2 DEF RevokeOK
<1>2. ASSUME SInv, [Next]_vars
      PROVE  [\A r \in Requests : Reach(r)]_vars
  BY <1>1, <1>2
<1>3. SInv /\ [Next]_vars => [\A r \in Requests : Reach(r)]_vars
  BY <1>2
<1> QED BY <1>3, SAlways, PTL DEF Spec, OnlyRotationEscapes

(***************************************************************************)
(* The sessions implement SessionPromise.  The token of a family that works*)
(* is a function of the live rows and of their families.                   *)
(***************************************************************************)
HolderOf(live, fam, f) ==
  IF \E t \in live : fam[t] = f THEN CHOOSE t \in live : fam[t] = f ELSE NoToken

LEMMA HolderIs ==
  ASSUME NEW live, NEW fam, NEW f, \A t, u \in live : fam[t] = fam[u] => t = u
  PROVE  /\ \A t \in live : fam[t] = f => HolderOf(live, fam, f) = t
         /\ (\A t \in live : fam[t] # f) => HolderOf(live, fam, f) = NoToken
<1>1. ASSUME NEW t \in live, fam[t] = f
      PROVE  HolderOf(live, fam, f) = t
  <2>1. (CHOOSE u \in live : fam[u] = f) = t
    BY <1>1
  <2> QED BY <1>1, <2>1 DEF HolderOf
<1> QED BY <1>1 DEF HolderOf

\* The live tokens of a family are the same ones in two tables, and so is its holder.
LEMMA SameHolder ==
  ASSUME NEW live, NEW fam, NEW live2, NEW fam2, NEW f,
         \A t, u \in live : fam[t] = fam[u] => t = u,
         \A t, u \in live2 : fam2[t] = fam2[u] => t = u,
         \A t \in live : fam[t] = f => t \in live2 /\ fam2[t] = f,
         \A t \in live2 : fam2[t] = f => t \in live /\ fam[t] = f
  PROVE  HolderOf(live2, fam2, f) = HolderOf(live, fam, f)
<1>1. CASE \E t \in live : fam[t] = f
  BY <1>1, HolderIs
<1>2. CASE \A t \in live : fam[t] # f
  BY <1>2, HolderIs
<1> QED BY <1>1, <1>2

holders == [f \in Tokens |-> HolderOf(Live, family, f)]

LEMMA PromiseIs ==
  /\ [f \in Tokens |-> WorkingToken(f)] = holders
  /\ Tokens \ Free = Issued
BY DEF holders, Issued, WorkingToken, HolderOf

\* Each step of the promise, over the table.
LEMMA PromiseSteps ==
  /\ \A f \in Tokens :
       f \notin Issued /\ Issued' = Issued \union {f} /\ holders' = [holders EXCEPT ![f] = f]
         => Promise!Next
  /\ \A f, n \in Tokens :
       /\ holders[f] # NoToken /\ n \notin Issued
       /\ Issued' = Issued \union {n} /\ holders' = [holders EXCEPT ![f] = n]
       => Promise!Next
  /\ \A families \in SUBSET Tokens :
       /\ holders' = [f \in Tokens |-> IF f \in families THEN NoToken ELSE holders[f]]
       /\ Issued' = Issued
       => Promise!Next
<1> DEFINE H == [f \in Tokens |-> WorkingToken(f)]
           U == Tokens \ Free
<1>1. H = holders /\ U = Issued /\ H' = holders' /\ U' = Issued'
  BY DEF holders, Issued, WorkingToken, HolderOf
<1>2. ASSUME NEW f \in Tokens, f \notin U, U' = U \union {f}, H' = [H EXCEPT ![f] = f]
      PROVE  Promise!Next
  BY <1>2 DEF Promise!Next, Promise!Open
<1>3. ASSUME NEW f \in Tokens, NEW n \in Tokens, H[f] # NoToken, n \notin U,
             U' = U \union {n}, H' = [H EXCEPT ![f] = n]
      PROVE  Promise!Next
  BY <1>3 DEF Promise!Next, Promise!Pass
<1>4. ASSUME NEW families \in SUBSET Tokens, U' = U,
             H' = [f \in Tokens |-> IF f \in families THEN NoToken ELSE H[f]]
      PROVE  Promise!Next
  BY <1>4 DEF Promise!Next, Promise!End
<1> HIDE DEF H, U
<1> QED BY <1>1, <1>2, <1>3, <1>4

LEMMA PersistPasses ==
  ASSUME SInv, SInv', NEW r \in Requests, LoginPersist(r)
  PROVE  Promise!Next
<1>1. PICK t \in Free :
        /\ t \in Tokens /\ Live' = Live \union {t} /\ Issued' = Issued \union {t}
        /\ family'[t] = t /\ \A u \in Tokens \ {t} : family'[u] = family[u]
  BY PersistRows
<1>2. t \notin Issued /\ t \notin Live /\ Live \subseteq Tokens /\ \A u \in Live : family[u] # t
  BY <1>1 DEF SInv, FamiliesOK, Issued, Live, Free
<1>3. /\ \A u, w \in Live : family[u] = family[w] => u = w
      /\ \A u, w \in Live' : family'[u] = family'[w] => u = w
  BY DEF SInv, OneLivePerFamily
<1>4. ASSUME NEW f \in Tokens
      PROVE  HolderOf(Live', family', f) = IF f = t THEN t ELSE HolderOf(Live, family, f)
  <2>1. CASE f = t
    BY <1>1, <1>3, <2>1, HolderIs
  <2>2. CASE f # t
    <3>1. \A u \in Live : family[u] = f => u \in Live' /\ family'[u] = f
      BY <1>1, <1>2
    <3>2. \A u \in Live' : family'[u] = f => u \in Live /\ family[u] = f
      BY <1>1, <1>2, <2>2
    <3> QED BY <1>3, <2>2, <3>1, <3>2, SameHolder
  <2> QED BY <2>1, <2>2
<1>5. holders' = [holders EXCEPT ![t] = t]
  BY <1>1, <1>4 DEF holders
<1> QED BY <1>1, <1>2, <1>5, PromiseSteps

LEMMA RotatePasses ==
  ASSUME SInv, SInv', NEW r \in Requests, RotateCommit(r)
  PROVE  Promise!Next
<1>1. PICK t \in Live, n \in Free :
        /\ Live' = (Live \ {t}) \union {n} /\ Issued' = Issued \union {n}
        /\ family'[n] = family[t]
        /\ \A u \in Tokens \ {n} : family'[u] = family[u]
  BY RotateRows
<1>2. /\ n \notin Issued /\ n \in Tokens /\ t \in Tokens /\ t # NoToken
      /\ n \notin Live /\ Live \subseteq Tokens
      /\ family[t] \in Tokens
  BY SessionsAssumption DEF SInv, FamiliesOK, Issued, Live, Free
<1>3. /\ \A u, w \in Live : family[u] = family[w] => u = w
      /\ \A u, w \in Live' : family'[u] = family'[w] => u = w
  BY DEF SInv, OneLivePerFamily
<1>4. ASSUME NEW f \in Tokens
      PROVE  HolderOf(Live', family', f) = IF f = family[t] THEN n ELSE HolderOf(Live, family, f)
  <2>1. CASE f = family[t]
    BY <1>1, <1>3, <2>1, HolderIs
  <2>2. CASE f # family[t]
    <3>1. \A u \in Live : family[u] = f => u \in Live' /\ family'[u] = f
      BY <1>1, <1>2, <2>2
    <3>2. \A u \in Live' : family'[u] = f => u \in Live /\ family[u] = f
      BY <1>1, <1>2, <2>2
    <3> QED BY <1>3, <2>2, <3>1, <3>2, SameHolder
  <2> QED BY <2>1, <2>2
<1>5. holders' = [holders EXCEPT ![family[t]] = n]
  BY <1>1, <1>2, <1>4 DEF holders
<1>6. holders[family[t]] = t
  BY <1>2, <1>3, HolderIs DEF holders
<1> QED BY <1>1, <1>2, <1>5, <1>6, PromiseSteps

LEMMA RevokeEnds ==
  ASSUME SInv, SInv', NEW r \in Requests, Revoke(r)
  PROVE  Promise!Next
<1>1. Live' = Live \ req[r].todo /\ Issued' = Issued /\ family' = family
  BY RevokeRows
<1> DEFINE ended == {f \in Tokens : \E u \in Live : u \in req[r].todo /\ family[u] = f}
<1>2. /\ \A u, w \in Live : family[u] = family[w] => u = w
      /\ \A u, w \in Live' : family'[u] = family'[w] => u = w
  BY DEF SInv, OneLivePerFamily
<1>3. ASSUME NEW f \in Tokens
      PROVE  HolderOf(Live', family', f) = IF f \in ended THEN NoToken ELSE HolderOf(Live, family, f)
  <2>1. CASE f \in ended
    <3>1. \A u \in Live' : family'[u] # f
      BY <1>1, <1>2, <2>1
    <3> QED BY <1>2, <2>1, <3>1, HolderIs
  <2>2. CASE f \notin ended
    <3>1. \A u \in Live : family[u] = f => u \in Live' /\ family'[u] = f
      BY <1>1, <2>2
    <3>2. \A u \in Live' : family'[u] = f => u \in Live /\ family[u] = f
      BY <1>1
    <3> QED BY <1>2, <2>2, <3>1, <3>2, SameHolder
  <2> QED BY <2>1, <2>2
<1> HIDE DEF ended
<1>4. holders' = [f \in Tokens |-> IF f \in ended THEN NoToken ELSE holders[f]]
  BY <1>3 DEF holders
<1>5. ended \in SUBSET Tokens
  BY DEF ended
<1> QED BY <1>1, <1>4, <1>5, PromiseSteps

\* Every other step leaves the table alone.
LEMMA QuietSteps ==
  ASSUME [Next]_vars
  PROVE  \/ UNCHANGED rows
         \/ \E r \in Requests : LoginPersist(r) \/ RotateCommit(r) \/ Revoke(r)
BY DEF Next, Step, LoginStart, LoginRegister, RefreshStart, RotateLock, RefreshRegister,
       LogoutStart, LogoutDeny, LogoutAllStart, DenylistAllActive, Snapshot, Fail, Expire,
       NoneLeft, vars

(***************************************************************************)
(* Login, rotation, logout, logout-all and reuse detection, interleaved    *)
(* statement by statement, do nothing to a family that opening it, passing *)
(* it on or ending it in one step would not: a token that was rotated or   *)
(* revoked never works again, and a refresh never forks a family.          *)
(***************************************************************************)
THEOREM SessionsImplementPromise == Spec => SessionsKept
<1>1. ASSUME Init
      PROVE  Promise!Init
  <2>1. Live = {} /\ Free = Tokens
    BY <1>1 DEF Init, Live, Free
  <2> QED BY <2>1 DEF Promise!Init, WorkingToken
<1>2. ASSUME SInv, SInv', [Next]_vars
      PROVE  [Promise!Next]_Promise!sessionVars
  <2>1. CASE UNCHANGED rows
    BY <2>1 DEF Promise!sessionVars, WorkingToken, Live, Free, rows
  <2>2. ASSUME NEW r \in Requests, LoginPersist(r) \/ RotateCommit(r) \/ Revoke(r)
        PROVE  Promise!Next
    BY <1>2, <2>2, PersistPasses, RotatePasses, RevokeEnds
  <2> QED BY <1>2, <2>1, <2>2, QuietSteps
<1>3. Init => Promise!Init
  BY <1>1
<1>4. SInv /\ SInv' /\ [Next]_vars => [Promise!Next]_Promise!sessionVars
  BY <1>2
<1> QED BY <1>3, <1>4, SAlways, PTL DEF Spec, SessionsKept, Promise!Spec

(***************************************************************************)
(* Who waits for whom.  A row that was locked was issued; a revocation that*)
(* holds one holds a row that no longer worked when it was locked.  So the *)
(* rows that a revocation waits for were locked after its snapshot, by     *)
(* revocations whose snapshot is later: the numbers below follow the       *)
(* snapshots, and a circle of revocations would have to count up forever.  *)
(***************************************************************************)
LocksOK ==
  \A t \in Tokens, r \in Requests : lock[t] = r =>
    /\ pc[r] \in InTx /\ t \in Issued
    /\ pc[r] \in {"snapshot", "revoke"} => t \notin Live

\* Revocation p needs a row that revocation q holds.
Behind ==
  {e \in Requests \X Requests :
     /\ pc[e[1]] = "revoke" /\ pc[e[2]] = "revoke" /\ e[1] # e[2]
     /\ \E t \in req[e[1]].todo : t \in Tokens /\ lock[t] = e[2]}

CountsUp(n, number, behind) ==
  /\ n \in Nat /\ number \in [Requests -> 0 .. n]
  /\ \A p, q \in Requests : <<p, q>> \in behind => number[p] < number[q]

WaitsUpward == \E n, number : CountsUp(n, number, Behind)

WInv == SInv /\ LocksOK /\ WaitsUpward

\* A row that was issued and does not work never works again.
LEMMA NoRevival ==
  ASSUME SInv, [Next]_vars
  PROVE  Issued \subseteq Issued' /\ Live' \intersect Issued \subseteq Live
<1>1. CASE UNCHANGED rows
  BY <1>1 DEF Issued, Live, Free, rows
<1>2. ASSUME NEW r \in Requests, LoginPersist(r)
      PROVE  Issued \subseteq Issued' /\ Live' \intersect Issued \subseteq Live
  BY <1>2, PersistRows DEF Issued
<1>3. ASSUME NEW r \in Requests, RotateCommit(r)
      PROVE  Issued \subseteq Issued' /\ Live' \intersect Issued \subseteq Live
  BY <1>3, RotateRows DEF Issued
<1>4. ASSUME NEW r \in Requests, Revoke(r)
      PROVE  Issued \subseteq Issued' /\ Live' \intersect Issued \subseteq Live
  BY <1>4, RevokeRows
<1> QED BY <1>1, <1>2, <1>3, <1>4, QuietSteps

\* A step of r: it takes the row of its rotation, its revocation starts, or it is
\* left without a lock.
Takes(r) ==
  /\ pc[r] = "rotate" /\ req[r].token \in Issued
  /\ lock' = [lock EXCEPT ![req[r].token] = r]
  /\ pc' = [pc EXCEPT ![r] = IF req[r].token \in Live THEN "insert" ELSE "snapshot"]
  /\ UNCHANGED rows

HoldsNothing(r) == pc'[r] # "revoke" /\ \A t \in Tokens : lock'[t] # r

LEMMA Acts ==
  ASSUME SInv, LocksOK, NEW r \in Requests,
         \/ Step(r) \/ Fail(r) \/ LoginStart(r) \/ LogoutAllStart(r)
         \/ \E t \in Tokens : RefreshStart(r, t)
         \/ \E a \in Tokens, t \in Tokens \union {NoToken} : LogoutStart(r, a, t)
  PROVE  /\ \A q \in Requests \ {r} :
              /\ pc'[q] = pc[q] /\ req'[q] = req[q]
              /\ \A t \in Tokens : lock'[t] = q => lock[t] = q
         /\ Takes(r) \/ Snapshot(r) \/ HoldsNothing(r)
<1>1. /\ TypeOK /\ RequestOK(r) /\ req \in [Requests -> ReqRow] /\ pc \in [Requests -> States]
      /\ lock \in [Tokens -> Requests \union {NoRequest}] /\ r # NoRequest
  BY ReqTyped, SessionsAssumption DEF SInv, TypeOK
<1> DEFINE Others == \A q \in Requests \ {r} :
                       /\ pc'[q] = pc[q] /\ req'[q] = req[q]
                       /\ \A t \in Tokens : lock'[t] = q => lock[t] = q
<1>2. ASSUME NEW to, pc' = [pc EXCEPT ![r] = to],
             NEW new, req' = [req EXCEPT ![r] = new] \/ req' = req, lock' \in {lock, Unlocked(r)}
      PROVE  Others
  BY <1>1, <1>2, SessionsAssumption DEF Unlocked
<1>3. ASSUME NEW to, to # "revoke", pc' = [pc EXCEPT ![r] = to],
             \/ lock' = Unlocked(r)
             \/ lock' = lock /\ pc[r] \notin InTx
      PROVE  HoldsNothing(r)
  <2>1. \A t \in Tokens : lock'[t] # r
    BY <1>1, <1>3, SessionsAssumption DEF Unlocked, LocksOK
  <2> QED BY <1>1, <1>3, <2>1 DEF HoldsNothing
<1>4. CASE RotateLock(r)
  <2>1. req[r].token \in Issued /\ pc[r] = "rotate" /\ lock[req[r].token] = NoRequest
    BY <1>1, <1>4 DEF RotateLock, RequestOK, CanLock
  <2>2. /\ pc' = [pc EXCEPT ![r] = IF req[r].token \in Live THEN "insert" ELSE "snapshot"]
        /\ lock' = [lock EXCEPT ![req[r].token] = r] /\ UNCHANGED <<rows, req>>
    BY <1>4, <2>1 DEF RotateLock, Rotatable, Live, Issued
  <2>3. Others
    BY <1>1, <2>2
  <2> QED BY <2>1, <2>2, <2>3 DEF Takes
<1>5. CASE Snapshot(r)
  <2>1. pc' = [pc EXCEPT ![r] = "revoke"] /\ lock' = lock /\ req' = [req EXCEPT ![r].todo = Selected(r)]
    BY <1>5 DEF Snapshot, Goto
  <2>2. req' = [req EXCEPT ![r] = [req[r] EXCEPT !.todo = Selected(r)]]
    BY <1>1, <2>1
  <2> QED BY <1>2, <1>5, <2>1, <2>2
<1>6. ASSUME NEW to \in States \ {"revoke"}, NEW new,
             pc' = [pc EXCEPT ![r] = to], req' = [req EXCEPT ![r] = new] \/ req' = req,
             \/ lock' = Unlocked(r)
             \/ lock' = lock /\ pc[r] \notin InTx
      PROVE  Others /\ HoldsNothing(r)
  BY <1>2, <1>3, <1>6
<1>7. CASE LoginRegister(r)
  <2>1. PICK t \in Tokens : req' = [req EXCEPT ![r].next = t]
    BY <1>7 DEF LoginRegister
  <2>2. /\ req' = [req EXCEPT ![r] = [req[r] EXCEPT !.next = t]]
        /\ pc[r] = "issue" /\ pc' = [pc EXCEPT ![r] = "persist"] /\ lock' = lock
    BY <1>1, <1>7, <2>1 DEF LoginRegister, Goto
  <2> QED BY <1>6, <2>2 DEF InTx, States
<1>8. CASE RotateCommit(r)
  <2>1. PICK t \in Tokens : req' = [req EXCEPT ![r].next = t]
    BY <1>8 DEF RotateCommit
  <2>2. /\ req' = [req EXCEPT ![r] = [req[r] EXCEPT !.next = t]]
        /\ pc' = [pc EXCEPT ![r] = "register"] /\ lock' = Unlocked(r)
    BY <1>1, <1>8, <2>1 DEF RotateCommit, Goto
  <2> QED BY <1>6, <2>2 DEF States
<1>9. CASE LoginPersist(r) \/ RefreshRegister(r)
  <2>1. /\ pc[r] \in {"persist", "register"} /\ pc' = [pc EXCEPT ![r] = "idle"] /\ lock' = lock
        /\ req' = [req EXCEPT ![r] = NoReq]
    BY <1>9 DEF LoginPersist, RefreshRegister, Return, Goto
  <2> QED BY <1>6, <2>1 DEF InTx, States
<1>10. CASE LogoutDeny(r) \/ DenylistAllActive(r)
  <2>1. PICK to \in {"idle", "snapshot"} : pc' = [pc EXCEPT ![r] = to]
    BY <1>10 DEF LogoutDeny, DenylistAllActive, Return, Goto
  <2>2. /\ pc[r] \in {"deny", "denyall"} /\ lock' = lock
        /\ req' = [req EXCEPT ![r] = NoReq] \/ req' = req
    BY <1>10 DEF LogoutDeny, DenylistAllActive, Return, Goto
  <2> QED BY <1>6, <2>1, <2>2 DEF InTx, States
<1>11. CASE Revoke(r)
  <2>1. PICK to \in {"idle", "denyall"} : pc' = [pc EXCEPT ![r] = to]
    BY <1>11 DEF Revoke, Return, Goto
  <2>2. lock' = Unlocked(r) /\ (req' = [req EXCEPT ![r] = NoReq] \/ req' = req)
    BY <1>11 DEF Revoke, Return, Goto
  <2> QED BY <1>6, <2>1, <2>2 DEF States
<1>12. CASE Fail(r) \/ NoneLeft(r)
  <2>1. pc' = [pc EXCEPT ![r] = "idle"] /\ lock' = Unlocked(r) /\ req' = [req EXCEPT ![r] = NoReq]
    BY <1>12 DEF Fail, NoneLeft, Return, Goto
  <2> QED BY <1>6, <2>1 DEF States
<1>13. CASE LoginStart(r)
  <2>1. req' = [req EXCEPT ![r] = [req[r] EXCEPT !.kind = "login"]]
    BY <1>1, <1>13 DEF LoginStart
  <2>2. pc[r] = "idle" /\ pc' = [pc EXCEPT ![r] = "issue"] /\ lock' = lock
    BY <1>13 DEF LoginStart, Goto
  <2> QED BY <1>6, <2>1, <2>2 DEF InTx, States
<1>14. CASE \/ LogoutAllStart(r)
            \/ \E t \in Tokens : RefreshStart(r, t)
            \/ \E a \in Tokens, t \in Tokens \union {NoToken} : LogoutStart(r, a, t)
  <2>1. PICK to \in {"denyall", "rotate", "deny"} : pc' = [pc EXCEPT ![r] = to]
    BY <1>14 DEF LogoutAllStart, RefreshStart, LogoutStart, Goto
  <2>2. pc[r] = "idle" /\ lock' = lock /\ \E new : req' = [req EXCEPT ![r] = new]
    BY <1>14 DEF LogoutAllStart, RefreshStart, LogoutStart, Goto
  <2> QED BY <1>6, <2>1, <2>2 DEF InTx, States
<1> QED BY <1>4, <1>5, <1>7, <1>8, <1>9, <1>10, <1>11, <1>12, <1>13, <1>14 DEF Step

LEMMA LocksStep ==
  ASSUME WInv, [Next]_vars, NEW r \in Requests,
         \A q \in Requests \ {r} :
           /\ pc'[q] = pc[q] /\ req'[q] = req[q]
           /\ \A t \in Tokens : lock'[t] = q => lock[t] = q,
         Takes(r) \/ Snapshot(r) \/ HoldsNothing(r)
  PROVE  LocksOK' /\ WaitsUpward'
<1>1. /\ Issued \subseteq Issued' /\ Live' \intersect Issued \subseteq Live
      /\ TypeOK /\ LocksOK /\ pc \in [Requests -> States] /\ req \in [Requests -> ReqRow]
      /\ lock \in [Tokens -> Requests \union {NoRequest}]
  BY NoRevival, ReqTyped DEF WInv, SInv, TypeOK
<1>2. ASSUME NEW t \in Tokens, NEW q \in Requests, lock'[t] = q, q # r
      PROVE  pc'[q] \in InTx /\ t \in Issued' /\ (pc'[q] \in {"snapshot", "revoke"} => t \notin Live')
  BY <1>1, <1>2 DEF LocksOK
<1>3. ASSUME NEW t \in Tokens, lock'[t] = r
      PROVE  pc'[r] \in InTx /\ t \in Issued' /\ (pc'[r] \in {"snapshot", "revoke"} => t \notin Live')
  <2>1. CASE Takes(r)
    <3>1. req[r].token \in Tokens /\ \A u \in Tokens : lock[u] # r
      BY <1>1, <2>1 DEF Takes, LocksOK, InTx, Issued
    <3>2. t = req[r].token
      BY <1>1, <1>3, <2>1, <3>1 DEF Takes
    <3>3. pc'[r] = IF t \in Live THEN "insert" ELSE "snapshot"
      BY <1>1, <2>1, <3>2 DEF Takes
    <3> QED BY <1>1, <2>1, <3>2, <3>3 DEF Takes, InTx
  <2>2. CASE Snapshot(r)
    <3>1. lock[t] = r /\ pc[r] = "snapshot" /\ pc'[r] = "revoke"
      BY <1>1, <1>3, <2>2 DEF Snapshot, Goto
    <3> QED BY <1>1, <3>1 DEF LocksOK, InTx
  <2>3. CASE HoldsNothing(r)
    BY <1>3, <2>3 DEF HoldsNothing
  <2> QED BY <2>1, <2>2, <2>3
<1>4. LocksOK'
  BY <1>2, <1>3 DEF LocksOK
<1>5. PICK n, number : CountsUp(n, number, Behind)
  BY DEF WInv, WaitsUpward
<1>6. CASE pc'[r] # "revoke"
  <2>1. ASSUME NEW p \in Requests, NEW q \in Requests, <<p, q>> \in Behind'
        PROVE  number[p] < number[q]
    <3>1. pc'[p] = "revoke" /\ pc'[q] = "revoke" /\ p # r /\ q # r
      BY <1>6, <2>1 DEF Behind
    <3>2. <<p, q>> \in Behind
      BY <2>1, <3>1 DEF Behind
    <3> QED BY <1>5, <3>2 DEF CountsUp
  <2>2. n \in Nat /\ number \in [Requests -> 0 .. n]
    BY <1>5 DEF CountsUp
  <2>3. CountsUp(n, number, Behind')
    BY <2>1, <2>2 DEF CountsUp
  <2> QED BY <1>4, <2>3 DEF WaitsUpward
<1>7. CASE Snapshot(r)
  <2> DEFINE later == [number EXCEPT ![r] = n + 1]
  <2>1. n \in Nat /\ number \in [Requests -> 0 .. n]
    BY <1>5 DEF CountsUp
  <2>2. n + 1 \in Nat /\ later \in [Requests -> 0 .. n + 1] /\ later[r] = n + 1
        /\ \A q \in Requests \ {r} : later[q] = number[q] /\ later[q] < n + 1
    BY <2>1
  <2> HIDE DEF later
  <2>3. lock' = lock /\ req'[r].todo \subseteq Live
    <3>1. Selected(r) \subseteq Live
      BY DEF Selected
    <3> QED BY <1>1, <1>7, <3>1 DEF Snapshot, ReqRow
  <2>4. ASSUME NEW p \in Requests, NEW q \in Requests, <<p, q>> \in Behind'
        PROVE  later[p] < later[q]
    <3>1. pc'[p] = "revoke" /\ pc'[q] = "revoke" /\ p # q
      BY <2>4 DEF Behind
    <3>2. PICK t \in Tokens : t \in req'[p].todo /\ lock'[t] = q
      BY <2>4 DEF Behind
    <3>3. CASE p = r
      BY <1>1, <2>3, <3>1, <3>2, <3>3 DEF LocksOK
    <3>4. CASE p # r /\ q = r
      BY <2>2, <3>4
    <3>5. CASE p # r /\ q # r
      <4>1. <<p, q>> \in Behind
        BY <3>1, <3>2, <3>5 DEF Behind
      <4>2. number[p] < number[q]
        BY <1>5, <4>1 DEF CountsUp
      <4> QED BY <2>2, <3>5, <4>2
    <3> QED BY <3>3, <3>4, <3>5
  <2>5. CountsUp(n + 1, later, Behind')
    BY <2>2, <2>4 DEF CountsUp
  <2> QED BY <1>4, <2>5 DEF WaitsUpward
<1>8. Takes(r) \/ HoldsNothing(r) => pc'[r] # "revoke"
  BY <1>1 DEF Takes, HoldsNothing
<1> QED BY <1>4, <1>6, <1>7, <1>8

LEMMA WStep ==
  ASSUME WInv, [Next]_vars
  PROVE  WInv'
<1>1. SInv'
  BY SStep DEF WInv
<1>2. ASSUME NEW r \in Requests,
             \/ Step(r) \/ Fail(r) \/ LoginStart(r) \/ LogoutAllStart(r)
             \/ \E t \in Tokens : RefreshStart(r, t)
             \/ \E a \in Tokens, t \in Tokens \union {NoToken} : LogoutStart(r, a, t)
      PROVE  LocksOK' /\ WaitsUpward'
  BY <1>2, Acts, LocksStep DEF WInv
<1>3. ASSUME UNCHANGED <<row, lock, pc, req>>
      PROVE  LocksOK' /\ WaitsUpward'
  <2>1. LocksOK'
    BY <1>3 DEF WInv, LocksOK, Issued, Live, Free
  <2>2. Behind' = Behind
    BY <1>3 DEF Behind
  <2> QED BY <2>1, <2>2 DEF WInv, WaitsUpward
<1>4. ASSUME \E t \in Tokens : Expire(t)
      PROVE  UNCHANGED <<row, lock, pc, req>>
  BY <1>4 DEF Expire, rows
<1>5. ASSUME UNCHANGED vars
      PROVE  UNCHANGED <<row, lock, pc, req>>
  BY <1>5 DEF vars, rows
<1> QED BY <1>1, <1>2, <1>3, <1>4, <1>5 DEF Next, WInv

LEMMA WStart ==
  ASSUME Init
  PROVE  WInv
<1>1. LocksOK
  BY SessionsAssumption DEF Init, LocksOK
<1>2. CountsUp(0, [r \in Requests |-> 0], Behind)
  BY DEF Init, CountsUp, Behind
<1> QED BY <1>1, <1>2, SStart DEF WInv, WaitsUpward

\* Of some revocations, one has the largest number.
LEMMA LastOf ==
  ASSUME NEW n \in Nat, NEW number \in [Requests -> 0 .. n], NEW some \in SUBSET Requests, some # {}
  PROVE  \E r \in some : \A q \in some : ~(number[r] < number[q])
<1> DEFINE room == {n - number[r] : r \in some}
<1>1. room \subseteq Nat /\ room # {}
  OBVIOUS
<1> DEFINE before == OpToRel(<, Nat)
<1>2. IsWellFoundedOn(before, Nat)
  BY NatLessThanWellFounded
<1> HIDE DEF before
<1>3. PICK least \in room : \A k \in room : ~(<<k, least>> \in before)
  BY <1>1, <1>2, WFMin
<1>4. \A k \in room : ~(k < least)
  BY <1>1, <1>3 DEF before, OpToRel
<1>5. PICK r \in some : least = n - number[r]
  BY <1>3
<1>6. ASSUME NEW q \in some
      PROVE  ~(number[r] < number[q])
  <2>1. n - number[q] \in room /\ number[q] \in Nat /\ number[r] \in Nat
    OBVIOUS
  <2> QED BY <1>4, <1>5, <2>1
<1> QED BY <1>6

LEMMA SomeoneGoesOn ==
  ASSUME WInv, NEW r0 \in Requests, pc[r0] # "idle",
         \A r \in Requests : pc[r] # "idle" => WaitsFor(r) # {}
  PROVE  FALSE
<1>1. /\ TypeOK /\ LocksOK /\ lock \in [Tokens -> Requests \union {NoRequest}]
      /\ req \in [Requests -> ReqRow]
  BY ReqTyped DEF WInv, SInv, TypeOK
<1>2. \A r \in Requests : pc[r] \in {"idle", "rotate", "revoke"}
  BY DEF WaitsFor
<1>3. ASSUME NEW r \in Requests, pc[r] # "idle"
      PROVE  \E t \in Tokens, q \in Requests \ {r} :
               lock[t] = q /\ (pc[r] = "revoke" => t \in req[r].todo) /\ pc[q] = "revoke"
  <2>1. CASE pc[r] = "rotate"
    <3>1. req[r].token \in Tokens
      BY <2>1 DEF WInv, SInv, RequestOK, Issued
    <3>2. lock[req[r].token] \notin {r, NoRequest}
      BY <1>3, <2>1 DEF WaitsFor
    <3> QED BY <1>1, <1>2, <2>1, <3>1, <3>2 DEF LocksOK, InTx
  <2>2. CASE pc[r] = "revoke"
    <3>1. PICK t \in req[r].todo : lock[t] \notin {r, NoRequest}
      BY <1>3, <2>2 DEF WaitsFor
    <3>2. t \in Tokens
      BY <1>1 DEF ReqRow
    <3> QED BY <1>1, <1>2, <2>2, <3>1, <3>2 DEF LocksOK, InTx
  <2> QED BY <1>2, <1>3, <2>1, <2>2
<1> DEFINE some == {r \in Requests : pc[r] = "revoke"}
<1>4. some # {}
  BY <1>3
<1>5. PICK n, number : CountsUp(n, number, Behind)
  BY DEF WInv, WaitsUpward
<1>6. n \in Nat /\ number \in [Requests -> 0 .. n] /\ some \in SUBSET Requests
  BY <1>5 DEF CountsUp
<1> HIDE DEF some
<1>7. PICK r \in some : \A q \in some : ~(number[r] < number[q])
  BY <1>4, <1>6, LastOf
<1>8. r \in Requests /\ pc[r] = "revoke"
  BY <1>7 DEF some
<1>9. PICK t \in Tokens, q \in Requests \ {r} : lock[t] = q /\ t \in req[r].todo /\ pc[q] = "revoke"
  BY <1>3, <1>8
<1>10. number[r] < number[q]
  <2>1. <<r, q>> \in Behind
    BY <1>8, <1>9 DEF Behind
  <2> QED BY <1>5, <1>8, <2>1 DEF CountsUp
<1> QED BY <1>7, <1>9, <1>10 DEF some

(***************************************************************************)
(* However many requests hold and wait for rows, they never wait in a      *)
(* circle: one of them goes on.                                            *)
(***************************************************************************)
THEOREM WaitsFormNoCircle == Spec => []NoCircularWait
<1>1. ASSUME WInv
      PROVE  NoCircularWait
  BY <1>1, SomeoneGoesOn DEF NoCircularWait, WInv, LocksOK
<1>2. WInv => NoCircularWait
  BY <1>1
<1>3. Init => WInv
  BY WStart
<1>4. WInv /\ [Next]_vars => WInv'
  BY WStep
<1> QED BY <1>2, <1>3, <1>4, PTL DEF Spec
=============================================================================
