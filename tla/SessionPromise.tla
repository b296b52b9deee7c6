--------------------------- MODULE SessionPromise ---------------------------
(***************************************************************************)
(* What the sessions promise, as if each operation were one step: a family *)
(* is a baton.  It has one holder, the refresh token that works; a refresh *)
(* passes it on to a token never used before, and a logout or a reuse ends *)
(* it for good.  Sessions.tla, where rotations and revocations are many    *)
(* statements under row locks, is shown to implement this.                 *)
(***************************************************************************)
CONSTANTS
  Tokens,    \* the refresh tokens; the first one of a family names it
  NoToken

VARIABLES
  holder,    \* holder[f]: the token of the family f that works, or NoToken
  used       \* the tokens that were ever issued

sessionVars == <<holder, used>>

Init == holder = [f \in Tokens |-> NoToken] /\ used = {}

Open(f) ==
  /\ f \notin used
  /\ used' = used \union {f}
  /\ holder' = [holder EXCEPT ![f] = f]

Pass(f, n) ==
  /\ holder[f] # NoToken
  /\ n \notin used
  /\ used' = used \union {n}
  /\ holder' = [holder EXCEPT ![f] = n]

End(families) ==
  /\ holder' = [f \in Tokens |-> IF f \in families THEN NoToken ELSE holder[f]]
  /\ UNCHANGED used

Next ==
  \/ \E f \in Tokens : Open(f)
  \/ \E f, n \in Tokens : Pass(f, n)
  \/ \E families \in SUBSET Tokens : End(families)

Spec == Init /\ [][Next]_sessionVars
=============================================================================
