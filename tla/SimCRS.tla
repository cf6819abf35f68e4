--------------------------------- MODULE SimCRS --------------------------------
(***************************************************************************)
(* A whole SIMCRS_Service: the sales of Distribution served from the       *)
(* working tree that the loads and clones of BomTree make.  Both run on    *)
(* the program's one thread, so a load and a sale never overlap, but they  *)
(* follow each other in any order.                                         *)
(*                                                                         *)
(* The booking counts live in the working tree, and so do the booking      *)
(* classes the object ids of a travel solution point to.  A fresh copy     *)
(* starts with no booking, and an id of an earlier tree points at whatever *)
(* is there now: what AirInv does with one is left wide open.  The callers *)
(* are careful ones, so each solution's ids are all of one tree.           *)
(***************************************************************************)
EXTENDS Distribution, BomTree

CONSTANT MaxTrees  \* bound on the working trees made

ASSUME MaxTreesAssumption == MaxTrees \in Nat
ASSUME CarefulAssumption == Careful

VARIABLES
  trees,    \* number of the present working tree
  idTree,   \* the tree the ids of each solution a caller holds are of, 0 without ids
  saleTree, \* the tree the ids of the caller's chosen solution are of
  toldIn,   \* the tree in which each caller was told what it believes
  misused   \* an id of an earlier tree has been used in the present one

idVars == <<idTree, saleTree, toldIn>>
serviceVars == <<vars, dataVars, idVars, trees, misused>>

ServiceInit ==
  /\ Init /\ DataInit
  /\ trees = 0 /\ misused = FALSE
  /\ idTree = [t \in Trips |-> <<>>]
  /\ saleTree = [t \in Trips |-> 0]
  /\ toldIn = [t \in Trips |-> 0]

--------------------------------------------------------------------------------
(* Sales, when no load is under way *)

\* The working tree has at least a part of that layer.
Has(layer) == working.tree.loads[layer] > 0 \/ layer \in working.tree.torn

SalesOnly == load = NoLoad /\ UNCHANGED <<dataVars, trees, misused>>

\* Mutant of Search: the ids of the list the caller had before are kept.
SearchKeepsIds(t) ==
  /\ SalesOnly /\ CalculateSegmentPathList(t)
  /\ solutions'[t] # <<>> => Has("airtsp")
  /\ UNCHANGED idVars

\* Without a schedule in the tree AirTSP finds nothing.
Search(t) ==
  /\ SalesOnly /\ CalculateSegmentPathList(t)
  /\ solutions'[t] # <<>> => Has("airtsp")
  /\ idTree' = [idTree EXCEPT ![t] = [i \in DOMAIN solutions'[t] |-> 0]]
  /\ UNCHANGED <<saleTree, toldIn>>

Quote(t) == SalesOnly /\ FareQuote(t) /\ UNCHANGED idVars

QuoteThrow(t) == SalesOnly /\ FareQuoteThrow(t) /\ UNCHANGED idVars

\* The ids handed out are those of the present tree; without flight-dates in it the
\* request can only throw.
Availability ==
  /\ SalesOnly /\ AvailabilitySolution /\ Has("airinv")
  /\ idTree' = [idTree EXCEPT ![call.trip][call.leg] = trees]
  /\ UNCHANGED <<saleTree, toldIn>>

AvailabilityEnds == SalesOnly /\ AvailabilityReturn /\ UNCHANGED idVars

\* The list is dropped, and its ids with it.
AvailabilityFails ==
  /\ SalesOnly /\ AvailabilityThrow
  /\ idTree' = [idTree EXCEPT ![call.trip] = <<>>]
  /\ UNCHANGED <<saleTree, toldIn>>

\* The chosen solution brings its ids along.
Choose(t) ==
  /\ SalesOnly /\ (ChooseFare(t) \/ ChooseSegment(t))
  /\ \/ choice'[t].held = <<>> /\ saleTree' = [saleTree EXCEPT ![t] = 0]
     \/ \E i \in DOMAIN solutions[t] :
          /\ choice'[t].held # <<>>
          /\ solutions[t][i] = [choice'[t] EXCEPT !.classPath = solutions[t][i].classPath]
          /\ saleTree' = [saleTree EXCEPT ![t] = idTree[t][i]]
  /\ UNCHANGED <<idTree, toldIn>>

CallBegin(t) ==
  /\ SalesOnly /\ (AvailabilityBegin(t) \/ SellBegin(t) \/ CancelBegin(t))
  /\ UNCHANGED idVars

\* The call goes by ids which are not those of the present tree.
Stale(t) == ByIds(choice[t]) /\ saleTree[t] # trees

\* Callers told something new are told it of the present tree.
Told ==
  /\ toldIn' = [t \in Trips |-> IF belief'[t] # belief[t] THEN trees ELSE toldIn[t]]
  /\ UNCHANGED <<idTree, saleTree>>

\* A sale or a cancellation takes its next step in the present tree; one without
\* flight-dates has no seat to move.
SaleStep ==
  /\ SalesOnly
  /\ \/ SellReturn \/ CancelReturn \/ SellAbort
     \/ (SellLegById \/ SellLegByKey \/ CancelLeg) /\ ~Stale(call.trip)
     \/ \E t \in Trips : SellSegment(t)
  /\ booked' # booked => Has("airinv")
  /\ Told

\* AirInv follows an id of an earlier tree: whatever it answers, throws or dies of,
\* any one booking count may have changed.
StaleLeg ==
  /\ load = NoLoad
  /\ \/ InSellLoop
     \/ call.op = "cancel" /\ call.leg <= Len(ClassIdList(Choice))
  /\ Stale(call.trip)
  /\ misused' = TRUE
  /\ \E b \in BookingClasses : \E n \in 0 .. Capacity[b] :
        booked' = [booked EXCEPT ![b] = n]
  /\ \/ \E yes \in BOOLEAN : NextLeg(yes, {})
     \/ Thrown
     \/ call' = [call EXCEPT !.op = "abort"] /\ UNCHANGED belief
  /\ Told
  /\ UNCHANGED <<solutions, choice, dataVars, trees>>

--------------------------------------------------------------------------------
(* Loads and clones, when no sale is under way *)

LoadBegin ==
  /\ call = Idle /\ trees < MaxTrees
  /\ (ParseAndLoad \/ BuildSampleBom \/ ClonePersistentBom)
  /\ UNCHANGED <<vars, idVars, trees, misused>>

\* The tree bookings are made in is not touched.
LoadStep ==
  /\ \/ LoadLayer \/ LinkComponent \/ Return
     \/ TaskThrows /\ working' = working
  /\ UNCHANGED <<vars, idVars, trees, misused>>

\* The bookings of the new tree, those of the persistent one, in which nobody books.
NewTree ==
  /\ trees' = trees + 1 /\ misused' = FALSE
  /\ booked' = [b \in BookingClasses |-> 0]
  /\ UNCHANGED <<solutions, choice, belief, call, idVars>>

\* Mutant of TreeStep: the copy keeps the bookings of the tree before.
TreeStepKeepsBookings ==
  /\ \/ CopyTree
     \/ TaskThrows /\ Task.do = "copy" /\ ~working'.whole
     \/ call = Idle /\ trees < MaxTrees /\ CallerClones
  /\ trees' = trees + 1 /\ misused' = FALSE
  /\ UNCHANGED <<vars, idVars>>

\* The working tree is replaced, by a whole copy or by one that threw half-way.
TreeStep ==
  /\ \/ CopyTree
     \/ TaskThrows /\ Task.do = "copy" /\ ~working'.whole
     \/ call = Idle /\ trees < MaxTrees /\ CallerClones
  /\ NewTree

ServiceNext ==
  \/ Availability \/ AvailabilityEnds \/ AvailabilityFails \/ SaleStep \/ StaleLeg
  \/ \E t \in Trips : Search(t) \/ Quote(t) \/ QuoteThrow(t) \/ Choose(t) \/ CallBegin(t)
  \/ LoadBegin \/ LoadStep \/ TreeStep

ServiceSpec == ServiceInit /\ [][ServiceNext]_serviceVars

--------------------------------------------------------------------------------
(* Properties *)

\* Types of the state; each solution a caller holds has its ids dated.
ServiceTypeOK ==
  /\ trees \in 0 .. MaxTrees /\ misused \in BOOLEAN
  /\ \A b \in BookingClasses : booked[b] \in 0 .. Capacity[b]
  /\ \A t \in Trips :
       /\ idTree[t] \in [DOMAIN solutions[t] -> 0 .. trees]
       /\ \A i \in DOMAIN solutions[t] : idTree[t][i] = 0 => ~ByIds(solutions[t][i])
       /\ saleTree[t] \in 0 .. trees /\ toldIn[t] \in 0 .. trees

\* What the callers were told of the present tree.
ToldOfThisTree == [t \in Trips |-> IF toldIn[t] = trees THEN belief[t] ELSE "open"]

Present == INSTANCE Reservation WITH
  seats <- SeatsAtReturn, status <- ToldOfThisTree,
  legs <- LegsOfTrips, last <- LastLegOfTrips

\* In whatever order callers shop, sell and cancel and the data are loaded, loaded
\* again and cloned: as long as no id of an earlier tree is used in the present one,
\* its bookings are those of the callers told so since it was made, give or take
\* callers whose call threw, and those of nobody before.
PresentReconciled == ~misused => Present!Reconciled

\* A seat that was booked is given up for three reasons only.  A cancellation gives its
\* own party back, on a segment of its own itinerary; the working tree is replaced, and
\* in a load not before all three components have loaded their layers in this very call,
\* so a load that fails earlier costs nobody a booking; or an id of an earlier tree was
\* used in the present one.
NoSeatVanishes ==
  [][ \A b \in BookingClasses : booked'[b] < booked[b] =>
        \/ /\ call.op = "cancel" /\ booked'[b] = booked[b] - Party[call.trip]
           /\ \E i \in DOMAIN Choice.path : b[1] = Choice.path[i]
        \/ /\ trees' # trees
           /\ load.op \in {"parseAndLoad", "buildSampleBom"} => Components \subseteq load.loaded
        \/ misused' ]_serviceVars
================================================================================
