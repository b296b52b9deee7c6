----------------------------- MODULE MCMatching -----------------------------
(* Instances of Matching for TLC. *)
EXTENDS Matching, TLC

Symmetry == Permutations(Users) \union Permutations(Requests)

\* A model of one user's quota: the others are swiped on and do nothing.
CONSTANT TheActor
TargetSymmetry == Permutations(Users \ {TheActor}) \union Permutations(Requests)
OneActor == \A r \in Requests : pc[r] # "idle" => req[r].actor = TheActor

\* The quota does not depend on blocks; the run of the pairs has them.
NoBlocks == \A r \in Requests : pc[r] # "block"
OneActorNoBlocks == OneActor /\ NoBlocks
=============================================================================
