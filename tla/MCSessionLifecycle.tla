------------------------- MODULE MCSessionLifecycle -------------------------
(***************************************************************************)
(* Instances of SessionLifecycle for TLC.                                  *)
(***************************************************************************)
EXTENDS SessionLifecycle, TLC

CONSTANTS c1, c2, d1, d2, alias, s1, s2, h1, h2, h3, t1, t2, t3, t4, g1, g2, g3

\* One directory, or two with one session each.
CwdOneDir == [s \in Sid |-> d1]
CwdTwoDirs == s1 :> d1 @@ s2 :> d2

\* Requests spell directories as path.Clean does, or also otherwise.
CleanOnly == [d \in Dir |-> d]
CleanAlias == [p \in Path |-> IF p = alias THEN d1 ELSE p]

Symmetry ==
  Permutations(Conn) \cup Permutations(Handler) \cup Permutations(Timer) \cup Permutations(Handle)
=============================================================================
