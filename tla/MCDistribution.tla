---------------------------- MODULE MCDistribution -----------------------------
(***************************************************************************)
(* Instances of Distribution for TLC.  The segments out and back make a    *)
(* two-leg itinerary or two one-leg ones; class Y is on sale on both, M on *)
(* the outbound only.  Capacity is two seats: less than the two parties    *)
(* together ask for, so that a sale fails for want of seats as well.       *)
(***************************************************************************)
EXTENDS Distribution, TLC

CONSTANTS t1, t2, out, back, Y, M

MCCabin == (out :> {Y, M} \cap Classes) @@ (back :> {Y})
MCCapacity == [b \in BookingClasses |-> 2]
MCParty == [t \in Trips |-> IF t = t1 THEN 1 ELSE 2]

\* One-leg itineraries: one solution, or one for each segment.
OneLegPaths == {<<out>>, <<back>>}
OneLegLists == {<<>>, << <<out>> >>, << <<out>>, <<back>> >>}
OneLegTariff ==
  [p \in OneLegPaths |-> IF p = <<out>> THEN {<< <<Y>> >>, << <<M, Y>> >>} ELSE {<< <<Y>> >>}]

\* Two-leg itineraries next to a one-leg one.
TwoLegPaths == {<<out, back>>, <<out>>}
TwoLegLists == {<< <<out, back>> >>, << <<out>>, <<out, back>> >>}
TwoLegTariff ==
  [p \in TwoLegPaths |-> IF p = <<out>> THEN {<< <<Y>> >>} ELSE {<< <<Y>>, <<Y>> >>}]

\* Next to a fare that fits, fares that do not: a class that is not on sale on its
\* leg, a class path shorter than the itinerary, an empty class list.
MisfitTariff ==
  [p \in TwoLegPaths |->
     IF p = <<out>> THEN {<< <<Y>> >>}
     ELSE {<< <<M>>, <<Y>> >>, << <<M>>, <<M>> >>, << <<Y>> >>, << <<>>, <<Y>> >>}]

\* Two alike callers who retry: a list of both, and next to the fare that fits one too
\* short.
RetryLists == {<< <<out>>, <<out, back>> >>}
RetryTariff ==
  [p \in TwoLegPaths |->
     IF p = <<out>> THEN {<< <<Y>> >>} ELSE {<< <<Y>>, <<Y>> >>, << <<Y>> >>}]
RetryParty == [t \in Trips |-> 1]
Symmetry == Permutations(Trips)
================================================================================
