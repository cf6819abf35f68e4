------------------------------ MODULE MCLifecycle ------------------------------
(***************************************************************************)
(* Three services over three places for their contexts: one can fail, one  *)
(* live and one be created after the factories were cleaned.               *)
(***************************************************************************)
EXTENDS Lifecycle, TLC

CONSTANTS s1, s2, s3, c1, c2, c3

Symmetry == Permutations({s1, s2, s3}) \cup Permutations({c1, c2, c3})
================================================================================
