-------------------------------- MODULE MCSimCRS -------------------------------
(***************************************************************************)
(* One class with one seat left.  Either one caller meets the service from *)
(* its construction on, through two loads of each layer and their failures *)
(* and two working trees, or two callers, who both want that seat, meet    *)
(* one whose data are loaded and shop before, between and after two        *)
(* clones, whole or failed.                                                *)
(***************************************************************************)
EXTENDS SimCRS, TLC

CONSTANTS t1, t2, out, Y

MCCabin == out :> {Y}
MCCapacity == <<out, Y>> :> 1
MCParty == [t \in Trips |-> 1]
MCPaths == {<<out>>}
MCSearchLists == {<<>>, << <<out>> >>}
FoundLists == {<< <<out>> >>}
Symmetry == Permutations({t1, t2})
MCTariff == <<out>> :> {<< <<Y>> >>}

\* The state a service that owns its StdAir is in after its first parseAndLoad.
Loaded == [EmptyTree EXCEPT !.loads = [k \in Layers |-> IF k = "stdair" THEN 0 ELSE 1]]

LoadedInit ==
  /\ Init
  /\ own = TRUE /\ persistent = Loaded
  /\ working = [tree |-> Loaded, whole |-> TRUE, links |-> Components]
  /\ load = NoLoad /\ outcome = "parseAndLoad"
  /\ trees = 1 /\ misused = FALSE
  /\ idTree = [t \in Trips |-> <<>>]
  /\ saleTree = [t \in Trips |-> 0]
  /\ toldIn = [t \in Trips |-> 0]

LoadedSpec == LoadedInit /\ [][ServiceNext]_serviceVars
================================================================================
