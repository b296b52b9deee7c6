---------------------------- MODULE MCMessaging ----------------------------
(* Instances of Messaging for TLC. *)
EXTENDS Messaging

Symmetry == Permutations(Attempts)

\* The windows of two users do not act on each other: one of them is watched,
\* for messages of its own and of the other.
CONSTANT Watched
OneWindow == \A u \in Users \ {Watched} : u \notin connected /\ fetch[u] = NoFetch
=============================================================================
