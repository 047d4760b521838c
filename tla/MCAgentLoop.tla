---------------------------- MODULE MCAgentLoop ----------------------------
(***************************************************************************)
(* Instances of AgentLoop for TLC.                                         *)
(***************************************************************************)
EXTENDS AgentLoop, TLC

CONSTANTS h1, h2

Symmetry == Permutations(Handler)
=============================================================================
