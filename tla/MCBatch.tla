-------------------------------- MODULE MCBatch --------------------------------
(***************************************************************************)
(* One generic option and two input files stand for three and six.  The    *)
(* search can find nothing, one-leg solutions or a two-leg one.  The way   *)
(* out has a fare on a class with three seats, enough for the party, and   *)
(* one on a class with two; the way back alone has none; out and back has  *)
(* a fare that fits and one that names a class not on sale.                *)
(***************************************************************************)
EXTENDS Batch, TLC

CONSTANTS request, out, back, Y, M

MCCabin == out :> {Y, M} @@ back :> {Y}
MCCapacity == <<out, Y>> :> 3 @@ <<out, M>> :> 2 @@ <<back, Y>> :> 3
MCParty == request :> 3
MCPaths == {<<out>>, <<back>>, <<out, back>>}
MCSearchLists == {<<>>, << <<out>> >>, << <<back>>, <<out>> >>, << <<out, back>>, <<out>> >>}
MCTariff ==
  <<out>> :> {<< <<Y>> >>, << <<M>> >>} @@ <<back>> :> {}
    @@ <<out, back>> :> {<< <<Y>>, <<Y>> >>, << <<Y>>, <<M>> >>}
================================================================================
