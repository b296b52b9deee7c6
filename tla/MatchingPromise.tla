-------------------------- MODULE MatchingPromise --------------------------
(***************************************************************************)
(* What the matching service promises about two people, as if every        *)
(* operation were one indivisible step on the tables swipes, matches and   *)
(* blocks.  Matching.tla, where a swipe is a pipeline of Postgres and Redis*)
(* calls that interleaves with others, is shown to implement it.           *)
(***************************************************************************)
EXTENDS Naturals

CONSTANTS
  Users,      \* the accounts
  Actions     \* the swipe actions in use, among like, superlike and dislike

VARIABLES
  swipes,     \* swipes[a][t]: the action a took on t, "none" while there is no row
  matches,    \* matches[p]: the row of the pair p: "none", "active" or "unmatched"
  blocks      \* the pairs <<blocker, blocked>>

promiseVars == <<swipes, matches, blocks>>

\* The unordered pairs: a match row holds the lower and the higher of two ids.
Pairs == {{a, t} : a, t \in Users} \ {{a} : a \in Users}

IsPositiveAction(action) == action \in {"like", "superlike"}

AreBlocked(a, t) == <<a, t>> \in blocks \/ <<t, a>> \in blocks

Init ==
  /\ swipes  = [a \in Users |-> [t \in Users |-> "none"]]
  /\ matches = [p \in Pairs |-> "none"]
  /\ blocks  = {}

(***************************************************************************)
(* A swipe is taken once, never across a block, and answers an earlier     *)
(* positive swipe with a match in the same step.                           *)
(***************************************************************************)
Swipe(a, t, action) ==
  /\ a # t
  /\ swipes[a][t] = "none"
  /\ ~AreBlocked(a, t)
  /\ swipes' = [swipes EXCEPT ![a][t] = action]
  /\ matches' = IF IsPositiveAction(action) /\ IsPositiveAction(swipes[t][a])
                  THEN [matches EXCEPT ![{a, t}] = "active"]
                  ELSE matches
  /\ UNCHANGED blocks

\* A block stands for good and closes the pair's match in the same step.
Block(a, t) ==
  /\ a # t
  /\ blocks' = blocks \union {<<a, t>>}
  /\ matches' = [matches EXCEPT ![{a, t}] = IF @ = "active" THEN "unmatched" ELSE @]
  /\ UNCHANGED swipes

Unmatch(p) ==
  /\ matches[p] = "active"
  /\ matches' = [matches EXCEPT ![p] = "unmatched"]
  /\ UNCHANGED <<swipes, blocks>>

Next ==
  \/ \E a, t \in Users : \E action \in Actions : Swipe(a, t, action)
  \/ \E a, t \in Users : Block(a, t)
  \/ \E p \in Pairs : Unmatch(p)

Spec == Init /\ [][Next]_promiseVars
=============================================================================
