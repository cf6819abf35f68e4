------------------------------- MODULE MCBomTree -------------------------------
(***************************************************************************)
(* Both kinds of service; a layer is loaded up to three times, so that a   *)
(* load can fail, be retried and be followed by another.                   *)
(***************************************************************************)
EXTENDS BomTree
================================================================================
