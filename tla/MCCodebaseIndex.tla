-------------------------- MODULE MCCodebaseIndex --------------------------
(***************************************************************************)
(* Instances of CodebaseIndex for TLC.                                     *)
(***************************************************************************)
EXTENDS CodebaseIndex, TLC

CONSTANTS r1, r2, h1, h2

Symmetry == Permutations(Run) \cup Permutations(Handler)
=============================================================================
