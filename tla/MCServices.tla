----------------------------- MODULE MCServices -----------------------------
(***************************************************************************)
(* Chat and Gates for TLC, in one run.  They share no state, so a behaviour*)
(* of both is a behaviour of each: half says which of them is explored.    *)
(***************************************************************************)
EXTENDS Chat, Gates

VARIABLE half

MCSkews == {-1, 0}

MCInit == ChatInit /\ GatesInit /\ half \in {"chat", "gates"}
MCNext ==
  \/ half = "chat" /\ ChatNext /\ UNCHANGED <<gateVars, half>>
  \/ half = "gates" /\ GatesNext /\ UNCHANGED <<chatVars, half>>
MCSpec == MCInit /\ [][MCNext]_<<chatVars, gateVars, half>>

\* The type invariants of both modules.
TypeOK == ChatTypeOK /\ GatesTypeOK
=============================================================================
