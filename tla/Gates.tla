------------------------------- MODULE Gates -------------------------------
(***************************************************************************)
(* The way in: registration and the password check of a login behind the   *)
(* limiter of failed attempts (application/auth/service.go, adapters/redis/*)
(* rate_limiter.go, repositories/user_repository.go).  What a login does   *)
(* after the check, issueSession, is in Sessions.                          *)
(*                                                                         *)
(* A scope is what failures are counted for: the address or the email of a *)
(* login, the address of a registration.  Every call of Redis or Postgres  *)
(* is a step and may fail; keys of Redis expire at any time, a lockout in  *)
(* two steps, because TTL rounds to seconds and Allowed admits at 0.       *)
(***************************************************************************)
EXTENDS Integers, Sequences, FiniteSets

CONSTANTS
  Requests,     \* slots for requests being served, over all API replicas
  Addresses,    \* client addresses
  Emails,       \* emails, normalised
  Passwords,    \* passwords...
  Weak,         \* ...and those that a registration refuses, with an age under 18
  MaxAttempts,  \* failures before a lockout
  BaseLockout,  \* minutes of the first lockout
  MaxLockout,   \* minutes of the longest
  MaxTries      \* bound of the model: requests

ASSUME GatesAssumption ==
  /\ Weak \subseteq Passwords
  /\ {MaxAttempts, BaseLockout} \subseteq Nat \ {0} /\ MaxLockout >= BaseLockout
  /\ MaxTries \in Nat
  /\ IsFiniteSet(Requests) /\ "no account" \notin Passwords

Scopes == ({"login:ip", "register:ip"} \X Addresses) \union ({"login:email"} \X Emails)

VARIABLES
  password,    \* Postgres: the password of each account, or NoAccount
  attempts,    \* Redis: ratelimit:<scope>:attempts
  lockout,     \* Redis: ratelimit:<scope>:lockout, and the minutes it was set for
  violations,  \* Redis: ratelimit:<scope>:violations
  call,        \* each request: the step it is at, its input, the scopes still to do
  tries,       \* how many requests there were
  recorded,    \* history: failures recorded since the scope was last let go
  created      \* history: the accounts that a client was told it has

limits == <<attempts, lockout, violations>>
gateVars == <<password, limits, call, tries, recorded, created>>

NoAccount == "no account"
Unlocked  == [on |-> "no", minutes |-> 0]
Idle      == [at |-> "idle", scopes |-> <<>>, todo |-> <<>>, email |-> "", pw |-> "", then |-> ""]

GatesInit ==
  /\ password   = [e \in Emails |-> NoAccount]
  /\ attempts   = [s \in Scopes |-> 0]
  /\ lockout    = [s \in Scopes |-> Unlocked]
  /\ violations = [s \in Scopes |-> 0]
  /\ call       = [r \in Requests |-> Idle]
  /\ tries      = 0
  /\ recorded   = [s \in Scopes |-> 0]
  /\ created    = {}

\* The request goes on with its scopes from the first, or answers when there is none.
Continue(r, at) == [call EXCEPT ![r].at = at, ![r].todo = call[r].scopes]
Answer(r) == [call EXCEPT ![r] = Idle]
NextScope(r, last) ==
  IF Len(call[r].todo) > 1 THEN [call EXCEPT ![r].todo = Tail(@)] ELSE last
-----------------------------------------------------------------------------
Arrives(r, scopes, email, pw, then) ==
  /\ call[r].at = "idle"
  /\ tries < MaxTries
  /\ tries' = tries + 1
  /\ call' = [call EXCEPT ![r] = [at |-> "check", scopes |-> scopes, todo |-> scopes,
                                  email |-> email, pw |-> pw, then |-> then]]
  /\ UNCHANGED <<password, limits, recorded, created>>

Login(r, ip, email, pw) ==
  Arrives(r, <<<<"login:ip", ip>>, <<"login:email", email>>>>, email, pw, "verify")

Register(r, ip, email, pw) ==
  Arrives(r, <<<<"register:ip", ip>>>>, email, pw, "validate")

\* checkRateLimit, one scope: RateLimiter.Allowed reads the TTL of the lockout.
Allowed_Always(s) == TRUE
Allowed(s) == lockout[s].on # "yes"

CheckRateLimit(r) ==
  /\ call[r].at = "check"
  /\ call' = IF Allowed(Head(call[r].todo)) THEN NextScope(r, Continue(r, call[r].then))
                                           ELSE Answer(r)
  /\ UNCHANGED <<password, limits, tries, recorded, created>>

\* The password of a login.  No account, or no answer from FindByEmail, fails like a
\* wrong one: 401, and a failure recorded for both scopes.
Verify(r) ==
  /\ call[r].at = "verify"
  /\ \/ password[call[r].email] = call[r].pw /\ call' = Continue(r, "reset")
     \/ call' = Continue(r, "record")
  /\ UNCHANGED <<password, limits, tries, recorded, created>>

Validate(r) ==
  /\ call[r].at = "validate"
  /\ call' = Continue(r, IF call[r].pw \in Weak THEN "record" ELSE "create")
  /\ UNCHANGED <<password, limits, tries, recorded, created>>

\* UserRepository.Create; the unique index answers ErrEmailTaken.
EmailTaken_Never(email) == FALSE
EmailTaken(email) == password[email] # NoAccount

Create(r) ==
  /\ call[r].at = "create"
  /\ IF EmailTaken(call[r].email)
       THEN call' = Continue(r, "record") /\ UNCHANGED password
       ELSE /\ password' = [password EXCEPT ![call[r].email] = call[r].pw]
            \* the answer of Postgres may be lost
            /\ call' \in {[call EXCEPT ![r].at = "reset", ![r].todo = call[r].scopes,
                                       ![r].then = "created"], Answer(r)}
  /\ UNCHANGED <<limits, tries, recorded, created>>
-----------------------------------------------------------------------------
\* The script: lockouts double with every violation up to the longest.
Minutes(n) ==
  LET doubled == BaseLockout * 2^(n - 1) IN IF doubled > MaxLockout THEN MaxLockout ELSE doubled

Locks_Late(count) == count > MaxAttempts
Locks(count) == count >= MaxAttempts

\* recordFailure, one scope.
RecordFailure(r) ==
  LET s == Head(call[r].todo) IN
  /\ call[r].at = "record"
  /\ IF Locks(attempts[s] + 1)
       THEN /\ violations' = [violations EXCEPT ![s] = @ + 1]
            /\ lockout' = [lockout EXCEPT ![s] = [on |-> "yes", minutes |-> Minutes(violations[s] + 1)]]
            /\ attempts' = [attempts EXCEPT ![s] = 0]
       ELSE /\ attempts' = [attempts EXCEPT ![s] = @ + 1]
            /\ UNCHANGED <<violations, lockout>>
  /\ recorded' = [recorded EXCEPT ![s] = @ + 1]
  /\ call' = NextScope(r, Answer(r))
  /\ UNCHANGED <<password, tries, created>>

\* A success lets its scopes go; what they violated is kept.
Reset(r) ==
  LET s == Head(call[r].todo) IN
  /\ call[r].at = "reset"
  /\ attempts' = [attempts EXCEPT ![s] = 0]
  /\ lockout' = [lockout EXCEPT ![s] = Unlocked]
  /\ recorded' = [recorded EXCEPT ![s] = 0]
  /\ created' = IF call[r].then = "created" THEN created \union {<<call[r].email, call[r].pw>>}
                                           ELSE created
  /\ call' = NextScope(r, Answer(r))
  /\ UNCHANGED <<password, violations, tries>>

\* The call of a step fails, other than the look-up of Verify: 503, or 500, whatever was
\* done before.  Or the process dies, at any of them.
CallFails(r) ==
  /\ call[r].at # "idle"
  /\ call' = Answer(r)
  /\ UNCHANGED <<password, limits, tries, recorded, created>>
-----------------------------------------------------------------------------
\* 15 minutes after the first failure.
AttemptsExpire(s) ==
  /\ attempts[s] > 0
  /\ attempts' = [attempts EXCEPT ![s] = 0]
  /\ recorded' = IF Allowed(s) THEN [recorded EXCEPT ![s] = 0] ELSE recorded
  /\ UNCHANGED <<password, lockout, violations, call, tries, created>>

\* The last half second of a lockout, of which Allowed is not aware, and its end.
LockoutEnds(s) ==
  /\ \/ /\ lockout[s].on = "yes"
        /\ lockout' = [lockout EXCEPT ![s].on = "ending"]
        /\ recorded' = [recorded EXCEPT ![s] = 0]
     \/ /\ lockout[s].on = "ending"
        /\ lockout' = [lockout EXCEPT ![s] = Unlocked]
        /\ UNCHANGED recorded
  /\ UNCHANGED <<password, attempts, violations, call, tries, created>>

\* A day after the last violation, long after its lockout and its window.
ViolationsExpire(s) ==
  /\ violations[s] > 0 /\ lockout[s].on = "no" /\ attempts[s] = 0
  /\ violations' = [violations EXCEPT ![s] = 0]
  /\ UNCHANGED <<password, attempts, lockout, call, tries, recorded, created>>

GatesNext ==
  \/ \E r \in Requests :
       \/ \E ip \in Addresses, email \in Emails, pw \in Passwords :
            Login(r, ip, email, pw) \/ Register(r, ip, email, pw)
       \/ CheckRateLimit(r) \/ Verify(r) \/ Validate(r) \/ Create(r)
       \/ RecordFailure(r) \/ Reset(r) \/ CallFails(r)
  \/ \E s \in Scopes : AttemptsExpire(s) \/ LockoutEnds(s) \/ ViolationsExpire(s)

GatesSpec == GatesInit /\ [][GatesNext]_gateVars
-----------------------------------------------------------------------------
\* The type of the state; a lockout lasts as long as its violations say.
GatesTypeOK ==
  /\ \A e \in Emails : password[e] \in (Passwords \ Weak) \union {NoAccount}
  /\ \A s \in Scopes :
       /\ attempts[s] \in 0 .. MaxAttempts - 1 /\ violations[s] \in 0 .. MaxTries /\ recorded[s] \in Nat
       /\ lockout[s].on # "no" => violations[s] > 0 /\ lockout[s].minutes = Minutes(violations[s])
  /\ \A r \in Requests :
       /\ call[r].at \in {"idle", "check", "verify", "validate", "create", "record", "reset"}
       /\ call[r].at # "idle" => Len(call[r].todo) \in 1 .. Len(call[r].scopes)

(***************************************************************************)
(* The limiter bounds what can be tried against one scope before it is let *)
(* go (its window or its lockout ends, or a success resets it): no more    *)
(* failures than it takes to lock, and one for every other request that    *)
(* was past the check when the lockout came, whichever replica serves it.  *)
(***************************************************************************)
LockoutBoundsGuesses ==
  \A s \in Scopes : recorded[s] <= MaxAttempts + Cardinality(Requests) - 1

(***************************************************************************)
(* An account belongs to whoever was told 201: no registration, repeated or*)
(* concurrent, with an answer or without, changes the password of another. *)
(***************************************************************************)
CreatedIsKept ==
  \A account \in created : password[account[1]] = account[2]
=============================================================================
