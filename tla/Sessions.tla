------------------------------ MODULE Sessions ------------------------------
(***************************************************************************)
(* The sessions of one user: login, refresh with rotation, logout and      *)
(* logout-all of application/auth/service.go over the table refresh_tokens *)
(* in Postgres and the sets of access tokens in Redis.  Users share no row *)
(* and no key, so one user is enough.                                      *)
(*                                                                         *)
(* A login or a refresh issues an access token and a refresh token; both go*)
(* by one name here, and the first refresh token of a family names it.     *)
(*                                                                         *)
(* Postgres runs READ COMMITTED.  An UPDATE of many rows picks them from   *)
(* what was committed when it started, then waits for the row locks of     *)
(* other transactions and skips the rows that no longer qualify: a row     *)
(* inserted in between is not seen.  Snapshot and Revoke are these steps.  *)
(***************************************************************************)
EXTENDS Naturals

CONSTANTS
  Tokens,       \* pairs of an access token and a refresh token
  Requests,     \* slots for requests being served, over all API replicas
  NoToken,
  NoRequest

ASSUME SessionsAssumption ==
  /\ NoToken \notin Tokens
  /\ NoRequest \notin Requests

VARIABLES
  row,       \* Postgres: the state of the refresh token's row
  family,    \* Postgres: family_id
  next,      \* Postgres: replaced_by
  lock,      \* Postgres: the request whose transaction holds the row's lock
  active,    \* Redis: the sorted set auth:active:<user>
  denied,    \* Redis: the keys auth:denylist:<jti>
  given,     \* the pairs that reached the client
  expired,   \* the access tokens past their expiry
  loggedOut, \* history: the families that a logout-all has ended
  pc,        \* where each request is
  req        \* the local variables of each request

rows   == <<row, family, next>>
redis  == <<active, denied>>
client == <<given, expired, loggedOut>>
vars   == <<rows, lock, redis, client, pc, req>>

States == {"idle", "issue", "persist", "rotate", "insert", "register",
           "deny", "snapshot", "revoke", "denyall"}

NoReq == [kind |-> "none", access |-> NoToken, token |-> NoToken,
          next |-> NoToken, scope |-> {}, todo |-> {}]

Live   == {t \in Tokens : row[t] = "live"}
Free   == {t \in Tokens : row[t] = "none"}
Usable == (given \ denied) \ expired
-----------------------------------------------------------------------------
\* Rotate accepts a token that is neither revoked nor replaced.
Rotatable_NotReplaced(t) == next[t] = NoToken
Rotatable(t) == row[t] = "live"

\* In these states a refresh is inside the transaction of Rotate.
InTx == {"insert", "snapshot", "revoke"}

\* SELECT ... FOR UPDATE waits for the row's lock; commit and rollback free it.
CanLock_NoRowLock(t) == TRUE
CanLock(t) == lock[t] = NoRequest

Unlocked_Kept(r) == lock
Unlocked(r) == [t \in Tokens |-> IF lock[t] = r THEN NoRequest ELSE lock[t]]

\* ReplaceRefreshToken links the old row to the new one.
Replaced_NoLink(t, n) == next
Replaced(t, n) == [next EXCEPT ![t] = n]

\* RegisterActive makes an access token known to a later logout-all.
Registered_Never(t) == active
Registered(t) == active \union {t}

\* The families a logout of the session with refresh token t is about.
FamilyOf(t) == IF t = NoToken THEN {} ELSE {family[t]}

\* The rows the UPDATE of a revocation sees when it starts.
Selected_TokenOnly(r) == {t \in Live : t = req[r].token}
Selected(r) ==
  IF req[r].kind = "logoutall" THEN Live
  ELSE {t \in Live : family[t] \in req[r].scope}

\* The requests whose row locks the next statement of r waits for.
WaitsFor(r) ==
  LET wanted == CASE pc[r] = "rotate" -> {req[r].token}
                  [] pc[r] = "revoke" -> req[r].todo
                  [] OTHER -> {}
  IN {lock[t] : t \in wanted} \ {r, NoRequest}
-----------------------------------------------------------------------------
Init ==
  /\ row       = [t \in Tokens |-> "none"]
  /\ family    = [t \in Tokens |-> NoToken]
  /\ next      = [t \in Tokens |-> NoToken]
  /\ lock      = [t \in Tokens |-> NoRequest]
  /\ active    = {}
  /\ denied    = {}
  /\ given     = {}
  /\ expired   = {}
  /\ loggedOut = {}
  /\ pc        = [r \in Requests |-> "idle"]
  /\ req       = [r \in Requests |-> NoReq]

Goto(r, from, to) ==
  /\ pc[r] = from
  /\ pc' = [pc EXCEPT ![r] = to]

Return(r, from) ==
  /\ Goto(r, from, "idle")
  /\ req' = [req EXCEPT ![r] = NoReq]

\* The answer with the pair t reaches the client, or is lost on the way.
Answered(t) ==
  /\ given' \in {given, given \union {t}}
  /\ UNCHANGED <<expired, loggedOut>>

(***************************************************************************)
(* POST /auth/login, from issueSession on: the rate limit and the password *)
(* were checked.  The access token is registered before the row is written.*)
(***************************************************************************)
LoginStart(r) ==
  /\ Goto(r, "idle", "issue")
  /\ req' = [req EXCEPT ![r].kind = "login"]
  /\ UNCHANGED <<rows, lock, redis, client>>

\* A pair that no request uses, and that was never issued.
IsFresh(t) == t \in Free \ active /\ \A r \in Requests : req[r].next # t

LoginRegister(r) ==
  /\ Goto(r, "issue", "persist")
  /\ \E t \in Tokens :
       /\ IsFresh(t)
       /\ req' = [req EXCEPT ![r].next = t]
       /\ active' = Registered(t)
  /\ UNCHANGED <<rows, lock, denied, client>>

LoginPersist(r) ==
  LET t == req[r].next IN
  /\ Return(r, "persist")
  /\ row'    = [row EXCEPT ![t] = "live"]
  /\ family' = [family EXCEPT ![t] = t]
  /\ Answered(t)
  /\ UNCHANGED <<next, lock, redis>>

(***************************************************************************)
(* POST /auth/refresh with a token some client was given: its latest one,  *)
(* or an older one that a second tab or a retry still has.  Rows are never *)
(* deleted, so FindByHash finds it; an expired token is answered from reads*)
(* alone.                                                                  *)
(***************************************************************************)
RefreshStart(r, t) ==
  /\ t \in given
  /\ Goto(r, "idle", "rotate")
  /\ req' = [req EXCEPT ![r] = [NoReq EXCEPT !.kind = "refresh", !.token = t,
                                             !.scope = FamilyOf(t)]]
  /\ UNCHANGED <<rows, lock, redis, client>>

\* Rotate: the row is locked, and checked under the lock.
RotateLock(r) ==
  LET t == req[r].token IN
  /\ pc[r] = "rotate"
  /\ CanLock(t)
  /\ lock' = [lock EXCEPT ![t] = r]
  /\ pc' = [pc EXCEPT ![r] = IF Rotatable(t) THEN "insert" ELSE "snapshot"]
  /\ UNCHANGED <<rows, redis, client, req>>

\* The new row is inserted, the old one replaced, and the transaction commits.
RotateCommit(r) ==
  LET t == req[r].token IN
  /\ Goto(r, "insert", "register")
  /\ \E n \in Tokens :
       /\ IsFresh(n)
       /\ req'    = [req EXCEPT ![r].next = n]
       /\ row'    = [row EXCEPT ![t] = "rotated", ![n] = "live"]
       /\ family' = [family EXCEPT ![n] = family[t]]
       /\ next'   = Replaced(t, n)
  /\ lock' = Unlocked(r)
  /\ UNCHANGED <<redis, client>>

\* The access token is issued and registered after the rotation.
RefreshRegister(r) ==
  LET n == req[r].next IN
  /\ Return(r, "register")
  /\ active' = Registered(n)
  /\ Answered(n)
  /\ UNCHANGED <<rows, lock, denied>>
-----------------------------------------------------------------------------
(***************************************************************************)
(* POST /auth/logout and /auth/logout-all.  The middleware has let the     *)
(* access token a pass; t is the refresh cookie, if there is one.          *)
(***************************************************************************)
LogoutStart(r, a, t) ==
  /\ a \in Usable
  /\ t \in given \union {NoToken}
  /\ Goto(r, "idle", "deny")
  /\ req' = [req EXCEPT ![r] = [NoReq EXCEPT !.kind = "logout", !.access = a,
                                             !.token = t, !.scope = FamilyOf(t)]]
  /\ UNCHANGED <<rows, lock, redis, client>>

\* The denylist comes first; without a cookie that is all.  An access token that
\* has expired needs no key.
LogoutDeny(r) ==
  /\ pc[r] = "deny"
  /\ IF req[r].token = NoToken
       THEN Return(r, "deny")
       ELSE Goto(r, "deny", "snapshot") /\ UNCHANGED req
  /\ denied' = denied \union ({req[r].access} \ expired)
  /\ UNCHANGED <<rows, lock, active, client>>

LogoutAllStart(r) ==
  /\ Usable # {}
  /\ Goto(r, "idle", "denyall")
  /\ req' = [req EXCEPT ![r] = [NoReq EXCEPT !.kind = "logoutall",
                                             !.scope = {family[t] : t \in Tokens \ Free}]]
  /\ UNCHANGED <<rows, lock, redis, client>>

\* denylistAllActiveScript: one step in Redis.  It ends a refresh that met a
\* reused token, and begins a logout-all.
DenylistAllActive(r) ==
  /\ pc[r] = "denyall"
  /\ IF req[r].kind = "refresh"
       THEN Return(r, "denyall")
       ELSE Goto(r, "denyall", "snapshot") /\ UNCHANGED req
  /\ denied' = denied \union (active \ expired)
  /\ active' = {}
  /\ UNCHANGED <<rows, lock, client>>

\* RevokeRefreshTokenFamily or RevokeAllRefreshTokensForUser starts...
Snapshot(r) ==
  /\ Goto(r, "snapshot", "revoke")
  /\ req' = [req EXCEPT ![r].todo = Selected(r)]
  /\ UNCHANGED <<rows, lock, redis, client>>

\* ...and ends, when no other transaction holds one of its rows.
Revoke(r) ==
  /\ pc[r] = "revoke"
  /\ \A t \in req[r].todo : lock[t] \in {NoRequest, r}
  /\ row' = [t \in Tokens |-> IF t \in req[r].todo /\ row[t] = "live"
                                THEN "revoked" ELSE row[t]]
  /\ lock' = Unlocked(r)
  /\ IF req[r].kind = "refresh"
       THEN Goto(r, "revoke", "denyall") /\ UNCHANGED req
       ELSE Return(r, "revoke")
  /\ loggedOut' = IF req[r].kind = "logoutall" THEN loggedOut \union req[r].scope
                                               ELSE loggedOut
  /\ UNCHANGED <<family, next, redis, given, expired>>
-----------------------------------------------------------------------------
\* A call fails or times out, or the process dies: an open transaction is rolled
\* back, what was done before stays, and the client gets no pair.
Fail(r) ==
  /\ pc[r] # "idle"
  /\ Return(r, pc[r])
  /\ lock' = Unlocked(r)
  /\ UNCHANGED <<rows, redis, client>>

\* An access token expires, and with it its key in the denylist.
Expire(t) ==
  /\ t \in given \ expired
  /\ expired' = expired \union {t}
  /\ denied' = denied \ {t}
  /\ UNCHANGED <<rows, lock, active, given, loggedOut, pc, req>>

\* Bound of the model: no pair is left to issue, and the request ends in an error.
NoneLeft(r) ==
  /\ pc[r] \in {"issue", "insert"}
  /\ \A t \in Tokens : ~IsFresh(t)
  /\ Return(r, pc[r])
  /\ lock' = Unlocked(r)
  /\ UNCHANGED <<rows, redis, client>>

Step(r) ==
  \/ LoginRegister(r) \/ LoginPersist(r)
  \/ RotateLock(r) \/ RotateCommit(r) \/ RefreshRegister(r)
  \/ LogoutDeny(r) \/ DenylistAllActive(r) \/ Snapshot(r) \/ Revoke(r)
  \/ NoneLeft(r)

Next ==
  \/ \E r \in Requests : Step(r)
  \/ \E r \in Requests : LoginStart(r)
  \/ \E r \in Requests, t \in Tokens : RefreshStart(r, t)
  \/ \E r \in Requests, a \in Tokens, t \in Tokens \union {NoToken} : LogoutStart(r, a, t)
  \/ \E r \in Requests : LogoutAllStart(r)
  \/ \E r \in Requests : Fail(r)
  \/ \E t \in Tokens : Expire(t)

Spec == Init /\ [][Next]_vars
-----------------------------------------------------------------------------
(***************************************************************************)
(* The type of the state, and what the columns of one row say together:    *)
(* a row that was rotated, and only such a row, names its replacement.     *)
(***************************************************************************)
TypeOK ==
  /\ row    \in [Tokens -> {"none", "live", "rotated", "revoked"}]
  /\ family \in [Tokens -> Tokens \union {NoToken}]
  /\ next   \in [Tokens -> Tokens \union {NoToken}]
  /\ lock   \in [Tokens -> Requests \union {NoRequest}]
  /\ active \subseteq Tokens /\ denied \subseteq Tokens /\ given \subseteq Tokens
  /\ expired \subseteq Tokens /\ loggedOut \subseteq Tokens
  /\ pc \in [Requests -> States]
  /\ req \in [Requests -> [kind : {"none", "login", "refresh", "logout", "logoutall"},
                           access : Tokens \union {NoToken}, token : Tokens \union {NoToken},
                           next : Tokens \union {NoToken}, scope : SUBSET Tokens,
                           todo : SUBSET Tokens]]
  /\ \A t \in Tokens : /\ row[t] = "none"    <=> family[t] = NoToken
                       /\ row[t] = "rotated" <=> next[t] # NoToken

(***************************************************************************)
(* Concurrent refreshes of a token cannot both succeed (the comment of     *)
(* Rotate): a family never has two refresh tokens that work, so two tabs   *)
(* that refresh at once cannot both go on.                                 *)
(***************************************************************************)
OneLivePerFamily ==
  \A t, u \in Live : family[t] = family[u] => t = u

(***************************************************************************)
(* Seen through its working token, a family is a baton (SessionPromise):   *)
(* a refresh passes it on, from the token that holds it and never from one *)
(* that was rotated or revoked, however stale the read that found it, and  *)
(* a family that was ended never works again.                              *)
(***************************************************************************)
WorkingToken(f) ==
  IF \E t \in Live : family[t] = f THEN CHOOSE t \in Live : family[t] = f ELSE NoToken

Promise == INSTANCE SessionPromise WITH
  holder <- [f \in Tokens |-> WorkingToken(f)],
  used   <- Tokens \ Free
SessionsKept == Promise!Spec

(***************************************************************************)
(* logout-all and reuse detection reach every access token a client holds: *)
(* it is in the active set or already denied, or it has expired.  A token  *)
(* is registered before it is given away, and taken out only to be denied. *)
(***************************************************************************)
GivenIsTracked == given \subseteq active \union denied \union expired

(***************************************************************************)
(* A revocation leaves a family of its scope alive only when that family   *)
(* was rotated while it ran; nothing else escapes a logout, a logout-all or*)
(* the detection of a reuse.                                               *)
(***************************************************************************)
OnlyRotationEscapes ==
  [][\A r \in Requests :
       Revoke(r) =>
         \A t \in Tokens : row'[t] = "live" /\ family'[t] \in req[r].scope =>
           \E u \in req[r].todo : family[u] = family[t] /\ row[u] = "rotated"]_vars

(***************************************************************************)
(* Refreshes wait for the row lock of another, revocations for the rows of *)
(* a family while they hold one themselves (reuse detection).  They never  *)
(* wait in a circle: as long as some request is served one of them waits   *)
(* for nobody, and a lock belongs to a request that is in a transaction,   *)
(* so every request that goes on frees what others wait for.               *)
(***************************************************************************)
NoCircularWait ==
  /\ (\E r \in Requests : pc[r] # "idle") =>
       \E r \in Requests : pc[r] # "idle" /\ WaitsFor(r) = {}
  /\ \A t \in Tokens, r \in Requests : lock[t] = r => pc[r] \in InTx

(***************************************************************************)
(* token_denylist.go: the script is atomic "so logout-all cannot race with *)
(* a token being issued or checked concurrently": after it, no access token*)
(* of a session that it ended works.                                       *)
(***************************************************************************)
LogoutAllIsFinal == \A t \in Usable : family[t] \notin loggedOut
=============================================================================
