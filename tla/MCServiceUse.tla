------------------------------ MODULE MCServiceUse -----------------------------
(***************************************************************************)
(* Three services over two places for their contexts, so that a service    *)
(* made after an early clean gets the memory of an orphan's context or     *)
(* other memory.                                                           *)
(***************************************************************************)
EXTENDS ServiceUse, TLC

CONSTANTS s1, s2, s3, c1, c2

Symmetry == Permutations({s1, s2, s3}) \cup Permutations({c1, c2})
================================================================================
