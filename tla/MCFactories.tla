------------------------------- MODULE MCFactories -----------------------------
(***************************************************************************)
(* The factory class of the program and one of the Bom layer, three places *)
(* for their objects, so that addresses are reused or not, and three for   *)
(* what they create.                                                       *)
(***************************************************************************)
EXTENDS Factories, TLC

CONSTANTS FacBom, FacSimcrsServiceContext, a1, a2, a3, o1, o2, o3
================================================================================
