------------------------------ MODULE SimCRSProofs -----------------------------
(***************************************************************************)
(* Proofs about a whole service, for every schedule, tariff and number of  *)
(* callers, however often its data are loaded and cloned: the types of its *)
(* state and, on itineraries of one leg, the agreement of the present      *)
(* tree's bookings with what the callers were told of it.                  *)
(***************************************************************************)
EXTENDS SimCRS, DistributionProofs, BomTreeProofs

USE MaxTreesAssumption, CarefulAssumption

--------------------------------------------------------------------------------
(* The invariant *)

\* A sale waits for no load.
OneAtATime == load # NoLoad => call = Idle

\* A call that has yet to copy the tree will find room for another.
RoomForCopy == own /\ load.op # "idle" /\ Left >= 4 => trees < MaxTrees

\* There is nothing to sell from before the first copy.
EmptyAtFirst == trees = 0 => working.tree = EmptyTree

\* The dates of the ids, one per trip.
Dated ==
  /\ idTree = [t \in Trips |-> idTree[t]]
  /\ saleTree \in [Trips -> Nat] /\ toldIn \in [Trips -> Nat]

TripDated(t) ==
  /\ idTree[t] \in [DOMAIN solutions[t] -> 0 .. trees]
  /\ \A i \in DOMAIN solutions[t] : idTree[t][i] = 0 => ~ByIds(solutions[t][i])
  /\ saleTree[t] \in 0 .. trees /\ toldIn[t] \in 0 .. trees

\* An id of an earlier tree can end the process in the middle of a cancellation.
SalesGrounds ==
  TypeOK /\ OnPaths /\ MapsKept /\ AskedOnce /\ (call.op = "abort" \/ CallerWaits)

ServiceInv ==
  /\ trees \in 0 .. MaxTrees /\ misused \in BOOLEAN
  /\ DataInv /\ OneAtATime /\ RoomForCopy /\ EmptyAtFirst
  /\ SalesGrounds
  /\ Dated /\ \A t \in Trips : TripDated(t)

--------------------------------------------------------------------------------
(* What the steps of the service are in Distribution and BomTree *)

\* Shopping, selling and cancelling are steps of Distribution, with no load under way.
LEMMA SalesAreSteps ==
  /\ Availability \/ AvailabilityEnds \/ AvailabilityFails \/ SaleStep => Next /\ SalesOnly
  /\ \A t \in Trips : Search(t) \/ Quote(t) \/ QuoteThrow(t) \/ Choose(t) \/ CallBegin(t)
                       => Next /\ SalesOnly
BY DEF Availability, AvailabilityEnds, AvailabilityFails, SaleStep, Search, Quote, QuoteThrow, Choose,
   CallBegin, Next, CallStep, CallerStep

\* A process that has ended sells no more.
LEMMA AbortIsTheEnd == call.op = "abort" => ~Next
BY IdleFacts DEF Next, CallStep, CallerStep, AvailabilitySolution, AvailabilityThrow,
   AvailabilityReturn, SellLegById, SellLegByKey, SellAbort, SellReturn, CancelLeg, CancelReturn,
   InSellLoop, CalculateSegmentPathList, FareQuote, FareQuoteThrow, PriceOnly, AvailabilityBegin,
   ChooseFare, ChooseSegment, SellBegin, SellSegment, CancelBegin, Begin

\* Loads and clones are steps of BomTree, and nothing else touches its state.
LEMMA DataKept ==
  ASSUME DataInv, [ServiceNext]_serviceVars
  PROVE  DataInv'
<1>1. LoadBegin \/ LoadStep \/ TreeStep => DataNext
  BY DEF LoadBegin, LoadStep, TreeStep, DataNext, DataStep
<1>2. ~(LoadBegin \/ LoadStep \/ TreeStep) => UNCHANGED dataVars
  BY SalesAreSteps DEF ServiceNext, SalesOnly, StaleLeg, serviceVars
<1> QED
  BY <1>1, <1>2, NextInv

\* A new working tree is made between two calls of the callers, and there is room for it.
LEMMA TreeFacts ==
  ASSUME ServiceInv, TreeStep
  PROVE  /\ call = Idle /\ trees < MaxTrees
         /\ ~own' \/ load'.op = "idle" \/ Left' = 3
<1>1. CASE CopyTree \/ (TaskThrows /\ Task.do = "copy")
  <2>1. load.op # "idle" /\ load.todo # <<>> /\ Task.do = "copy"
    BY <1>1 DEF CopyTree, Doing, TaskThrows
  <2>2. own /\ Left = 4 /\ load # NoLoad
    BY <2>1, TaskByNumber DEF ServiceInv, NoLoad
  <2>3. call = Idle /\ trees < MaxTrees
    BY <2>1, <2>2 DEF ServiceInv, OneAtATime, RoomForCopy
  <2>4. CopyTree => Left' = 3
    BY <2>1, <2>2, TaskDone DEF CopyTree, ServiceInv
  <2>5. TaskThrows => load'.op = "idle"
    BY DEF TaskThrows, NoLoad
  <2> QED
    BY <1>1, <2>3, <2>4, <2>5
<1>2. CASE call = Idle /\ trees < MaxTrees /\ CallerClones
  <2>1. ~own'
    BY <1>2 DEF CallerClones
  <2> QED
    BY <1>2, <2>1
<1> QED
  BY <1>1, <1>2 DEF TreeStep

--------------------------------------------------------------------------------
(* Types *)

\* What AirInv does with an id of an earlier tree stays within the types.
LEMMA StaleGrounds ==
  ASSUME SalesGrounds, StaleLeg
  PROVE  SalesGrounds'
<1>1. call.op \in {"sell", "cancel"} /\ CallerWaits /\ TypeOK
  BY DEF StaleLeg, InSellLoop, SalesGrounds
<1>2. /\ call.trip \in Trips /\ call \in Call /\ belief \in [Trips -> Beliefs]
      /\ belief[call.trip] # "looking"
  BY <1>1, CallHasTrip DEF TypeOK, CallerWaits
<1>3. UNCHANGED <<solutions, choice>>
  BY DEF StaleLeg
<1>4. /\ booked' \in [BookingClasses -> Nat]
      /\ \A b \in BookingClasses : booked'[b] <= Capacity[b]
  <2>1. PICK b \in BookingClasses : \E n \in 0 .. Capacity[b] : booked' = [booked EXCEPT ![b] = n]
    BY DEF StaleLeg
  <2>2. PICK n \in 0 .. Capacity[b] : booked' = [booked EXCEPT ![b] = n]
    BY <2>1
  <2>3. Capacity[b] \in Nat
    BY CapacityAssumption
  <2> QED
    BY <1>1, <2>2, <2>3 DEF TypeOK
<1>5. \/ \E yes \in BOOLEAN : NextLeg(yes, {})
      \/ Thrown
      \/ call' = [call EXCEPT !.op = "abort"] /\ UNCHANGED belief
  BY DEF StaleLeg
<1>6. /\ call' \in Call /\ belief' \in [Trips -> Beliefs]
      /\ call'.op = "abort" \/ CallerWaits'
      /\ call'.op # "avail"
  <2>1. ASSUME NEW yes \in BOOLEAN, NextLeg(yes, {})
        PROVE  call' \in Call /\ UNCHANGED belief /\ CallerWaits' /\ call'.op # "avail"
    <3>1. call' \in Call /\ UNCHANGED belief /\ call'.op = call.op /\ call'.trip = call.trip
      BY <1>2, <2>1 DEF NextLeg, Call
    <3> QED
      BY <1>1, <1>2, <1>3, <3>1 DEF CallerWaits
  <2>2. ASSUME Thrown
        PROVE  /\ call' \in Call /\ belief' \in [Trips -> Beliefs] /\ CallerWaits'
               /\ call'.op # "avail"
    <3>1. call' = Idle /\ belief' = [belief EXCEPT ![call.trip] = "unknown"]
      BY <2>2 DEF Thrown
    <3>2. \A t \in Trips : belief'[t] = IF t = call.trip THEN "unknown" ELSE belief[t]
      BY <1>2, <3>1
    <3>3. \A t \in Trips : IF belief'[t] = "looking" THEN choice'[t] = Unpriced(<<>>)
                                                    ELSE choice'[t].path \in Paths
      BY <1>1, <1>2, <1>3, <3>2 DEF CallerWaits
    <3>4. belief' \in [Trips -> Beliefs]
      BY <1>2, <3>1 DEF Beliefs
    <3> QED
      BY <3>1, <3>3, <3>4, IdleFacts DEF CallerWaits, Unpriced
  <2>3. CASE call' = [call EXCEPT !.op = "abort"] /\ UNCHANGED belief
    BY <1>2, <2>3 DEF Call, Ops
  <2> QED
    BY <1>2, <1>5, <2>1, <2>2, <2>3
<1>7. OnPaths' /\ MapsKept' /\ AskedOnce'
  BY <1>3, <1>6 DEF SalesGrounds, OnPaths, MapsKept, Mapped, Aligned, OnItinerary, AskedOnce
<1> QED
  BY <1>1, <1>3, <1>4, <1>6, <1>7 DEF SalesGrounds, TypeOK

\* A new tree has no booking, and leaves callers and solutions as they were.
LEMMA NewTreeGrounds ==
  ASSUME SalesGrounds, call = Idle, NewTree
  PROVE  Grounds /\ Grounds'
<1>1. UNCHANGED <<solutions, choice, belief, call>> /\ booked' = [b \in BookingClasses |-> 0]
  BY DEF NewTree
<1>2. Grounds
  BY IdleFacts DEF SalesGrounds, Grounds
<1>3. TypeOK'
  BY <1>1, <1>2, CapacityAssumption DEF Grounds, TypeOK
<1>4. OnPaths' /\ MapsKept' /\ AskedOnce'
  BY <1>1, <1>2 DEF Grounds, OnPaths, MapsKept, Mapped, Aligned, OnItinerary, AskedOnce
<1>5. CallerWaits'
  BY <1>1, <1>2 DEF Grounds, CallerWaits, Unpriced
<1> QED
  BY <1>2, <1>3, <1>4, <1>5 DEF Grounds

\* Every step of the service keeps what holds of the callers.
LEMMA SalesGroundsStep ==
  ASSUME ServiceInv, [ServiceNext]_serviceVars
  PROVE  SalesGrounds'
<1>1. CASE Next
  <2>1. Grounds
    BY <1>1, AbortIsTheEnd DEF ServiceInv, SalesGrounds, Grounds
  <2> QED
    BY <1>1, <2>1, GroundsStep DEF Grounds, SalesGrounds
<1>2. CASE StaleLeg
  BY <1>2, StaleGrounds DEF ServiceInv
<1>3. CASE TreeStep
  BY <1>3, TreeFacts, NewTreeGrounds DEF TreeStep, ServiceInv, Grounds, SalesGrounds
<1>4. CASE UNCHANGED vars
  BY <1>4 DEF vars, ServiceInv, SalesGrounds, TypeOK, OnPaths, MapsKept, Mapped, Aligned,
     OnItinerary, AskedOnce, CallerWaits, Unpriced
<1> QED
  BY <1>1, <1>2, <1>3, <1>4, SalesAreSteps
  DEF ServiceNext, LoadBegin, LoadStep, serviceVars

--------------------------------------------------------------------------------
(* The dates of the ids *)

\* A step that leaves lists and dates alone leaves them matched; later trees only add dates.
LEMMA DatesStay ==
  ASSUME ServiceInv, UNCHANGED <<solutions, idVars>>, trees' \in Nat, trees' >= trees
  PROVE  Dated' /\ \A t \in Trips : TripDated(t)'
<1>1. /\ UNCHANGED <<solutions, idTree, saleTree, toldIn>>
      /\ trees \in Nat /\ Dated /\ \A t \in Trips : TripDated(t)
  BY DEF idVars, ServiceInv
<1>2. \A n \in 0 .. trees : n \in 0 .. trees'
  BY <1>1
<1>3. ASSUME NEW t \in Trips
      PROVE  TripDated(t)'
  BY <1>1, <1>2 DEF TripDated, ByIds
<1> QED
  BY <1>1, <1>3 DEF Dated

\* Callers told something new are told it of the present tree.
LEMMA DatesTold ==
  ASSUME ServiceInv, UNCHANGED <<solutions, trees>>, Told
  PROVE  Dated' /\ \A t \in Trips : TripDated(t)'
<1>1. /\ UNCHANGED <<idTree, saleTree>>
      /\ toldIn' = [t \in Trips |-> IF belief'[t] # belief[t] THEN trees ELSE toldIn[t]]
  BY DEF Told
<1>2. trees \in Nat /\ Dated /\ \A t \in Trips : TripDated(t)
  BY DEF ServiceInv
<1>3. toldIn' \in [Trips -> Nat] /\ \A t \in Trips : toldIn'[t] \in 0 .. trees
  BY <1>1, <1>2 DEF TripDated, Dated
<1>4. ASSUME NEW t \in Trips
      PROVE  TripDated(t)'
  BY <1>1, <1>2, <1>3 DEF TripDated, ByIds
<1> QED
  BY <1>1, <1>2, <1>3, <1>4 DEF Dated

\* A search brings a list without ids.
LEMMA DatesSearched ==
  ASSUME ServiceInv, NEW u \in Trips, Search(u)
  PROVE  Dated' /\ \A t \in Trips : TripDated(t)'
<1>1. trees \in Nat /\ Dated /\ (\A t \in Trips : TripDated(t)) /\ solutions \in [Trips -> Seq(TravelSolution)]
  BY DEF ServiceInv, SalesGrounds, TypeOK
<1>2. /\ idTree' = [idTree EXCEPT ![u] = [i \in DOMAIN solutions'[u] |-> 0]]
      /\ UNCHANGED <<saleTree, toldIn, trees>>
  BY DEF Search, SalesOnly
<1>3. PICK l \in SearchLists :
        solutions' = [solutions EXCEPT ![u] = [i \in DOMAIN l |-> Unpriced(l[i])]]
  BY DEF Search, CalculateSegmentPathList
<1>4. \A i \in DOMAIN solutions'[u] : ~ByIds(solutions'[u][i])
  BY <1>1, <1>3 DEF Unpriced, ByIds
<1>5. Dated' /\ \A t \in Trips : idTree'[t] = IF t = u THEN [i \in DOMAIN solutions'[u] |-> 0] ELSE idTree[t]
  BY <1>1, <1>2 DEF Dated
<1>6. ASSUME NEW t \in Trips
      PROVE  TripDated(t)'
  <2>1. CASE t = u
    BY <1>1, <1>2, <1>4, <1>5, <2>1 DEF TripDated, ByIds
  <2>2. CASE t # u
    BY <1>1, <1>2, <1>3, <1>5, <2>2 DEF TripDated, ByIds
  <2> QED
    BY <2>1, <2>2
<1> QED
  BY <1>5, <1>6

\* A quote keeps the ids of every solution, and so does one that throws.
LEMMA DatesQuoted ==
  ASSUME ServiceInv, NEW u \in Trips, Quote(u) \/ QuoteThrow(u)
  PROVE  Dated' /\ \A t \in Trips : TripDated(t)'
<1>1. trees \in Nat /\ Dated /\ (\A t \in Trips : TripDated(t)) /\ solutions \in [Trips -> Seq(TravelSolution)]
  BY DEF ServiceInv, SalesGrounds, TypeOK
<1>2. UNCHANGED <<idTree, saleTree, toldIn, trees>>
  BY DEF Quote, QuoteThrow, SalesOnly, idVars
<1>3. PICK S : solutions' = [solutions EXCEPT ![u] =
                 [i \in DOMAIN @ |-> IF i \in S THEN Priced(solutions[u][i]) ELSE solutions[u][i]]]
  BY DEF Quote, QuoteThrow, FareQuote, FareQuoteThrow, PriceOnly
<1>4. ASSUME NEW i \in DOMAIN solutions[u]
      PROVE  Priced(solutions[u][i]).held = solutions[u][i].held
  <2>1. solutions[u][i] \in TravelSolution
    BY <1>1, LenProperties, ElementOfSeq
  <2> QED
    BY <2>1 DEF Priced, TravelSolution
<1>5. /\ DOMAIN solutions'[u] = DOMAIN solutions[u]
      /\ \A i \in DOMAIN solutions[u] : ByIds(solutions'[u][i]) <=> ByIds(solutions[u][i])
  BY <1>1, <1>3, <1>4 DEF ByIds
<1>6. ASSUME NEW t \in Trips
      PROVE  TripDated(t)'
  <2>1. CASE t = u
    BY <1>1, <1>2, <1>5, <2>1 DEF TripDated, ByIds
  <2>2. CASE t # u
    BY <1>1, <1>2, <1>3, <2>2 DEF TripDated, ByIds
  <2> QED
    BY <2>1, <2>2
<1> QED
  BY <1>1, <1>2, <1>6 DEF Dated

\* An availability request dates its ids with a tree that has been made.
LEMMA DatesAvailable ==
  ASSUME ServiceInv, Availability
  PROVE  Dated' /\ \A t \in Trips : TripDated(t)'
<1> DEFINE u == call.trip
           k == call.leg
<1>1. trees \in Nat /\ Dated /\ (\A t \in Trips : TripDated(t)) /\ solutions \in [Trips -> Seq(TravelSolution)]
  BY DEF ServiceInv, SalesGrounds, TypeOK
<1>2. /\ idTree' = [idTree EXCEPT ![u][k] = trees]
      /\ UNCHANGED <<saleTree, toldIn, trees>>
      /\ call.op = "avail" /\ k <= Len(solutions[u])
      /\ \E maps : solutions' = [solutions EXCEPT ![u][k].held = maps]
  BY DEF Availability, AvailabilitySolution, SalesOnly
<1>3. trees \in 1 .. trees
  <2>1. working.tree # EmptyTree
    BY DEF Availability, Has, EmptyTree, Layers, Components
  <2> QED
    BY <1>1, <2>1 DEF ServiceInv, EmptyAtFirst
<1>4. u \in Trips /\ k \in DOMAIN solutions[u]
  <2>1. u \in Trips /\ k \in Nat \ {0}
    BY <1>2, CallHasTrip DEF ServiceInv, SalesGrounds, TypeOK, Call
  <2> QED
    BY <1>1, <1>2, <2>1, LenProperties
<1> HIDE DEF u, k
<1>5. /\ \A t \in Trips \ {u} : solutions'[t] = solutions[t] /\ idTree'[t] = idTree[t]
      /\ DOMAIN solutions'[u] = DOMAIN solutions[u]
      /\ \A i \in DOMAIN solutions[u] \ {k} : solutions'[u][i] = solutions[u][i]
  BY <1>1, <1>2, <1>4 DEF Dated
<1>6. idTree' = [t \in Trips |-> idTree'[t]] /\ idTree'[u] = [idTree[u] EXCEPT ![k] = trees]
  BY <1>1, <1>2, <1>4 DEF Dated
<1>7. ASSUME NEW t \in Trips
      PROVE  TripDated(t)'
  <2>1. CASE t = u
    <3>1. /\ idTree'[u] \in [DOMAIN solutions[u] -> 0 .. trees] /\ idTree'[u][k] = trees
          /\ \A i \in DOMAIN solutions[u] \ {k} : idTree'[u][i] = idTree[u][i]
      BY <1>1, <1>3, <1>4, <1>6 DEF TripDated
    <3>2. ASSUME NEW i \in DOMAIN solutions'[u], idTree'[u][i] = 0
          PROVE  ~ByIds(solutions'[u][i])
      <4>1. i # k /\ i \in DOMAIN solutions[u]
        BY <1>3, <1>5, <3>1, <3>2
      <4>2. idTree[u][i] = 0 /\ solutions'[u][i] = solutions[u][i]
        BY <1>5, <3>1, <3>2, <4>1
      <4> QED
        BY <1>1, <1>4, <4>1, <4>2 DEF TripDated, ByIds
    <3> QED
      BY <1>1, <1>2, <1>5, <2>1, <3>1, <3>2 DEF TripDated, ByIds
  <2>2. CASE t # u
    BY <1>1, <1>2, <1>5, <2>2 DEF TripDated, ByIds
  <2> QED
    BY <2>1, <2>2
<1> QED
  BY <1>1, <1>2, <1>6, <1>7 DEF Dated

\* The list whose request threw goes with its dates.
LEMMA DatesDropped ==
  ASSUME ServiceInv, AvailabilityFails
  PROVE  Dated' /\ \A t \in Trips : TripDated(t)'
<1> DEFINE u == call.trip
<1>1. trees \in Nat /\ Dated /\ (\A t \in Trips : TripDated(t)) /\ solutions \in [Trips -> Seq(TravelSolution)]
  BY DEF ServiceInv, SalesGrounds, TypeOK
<1>2. /\ idTree' = [idTree EXCEPT ![u] = <<>>] /\ solutions' = [solutions EXCEPT ![u] = <<>>]
      /\ UNCHANGED <<saleTree, toldIn, trees>>
  BY DEF AvailabilityFails, AvailabilityThrow, SalesOnly
<1>3. u \in Trips
  BY CallHasTrip DEF AvailabilityFails, AvailabilityThrow, ServiceInv, SalesGrounds
<1> HIDE DEF u
<1>4. /\ Dated' /\ idTree'[u] = <<>> /\ solutions'[u] = <<>>
      /\ \A t \in Trips \ {u} : solutions'[t] = solutions[t] /\ idTree'[t] = idTree[t]
  BY <1>1, <1>2, <1>3 DEF Dated
<1>5. DOMAIN <<>> = {} /\ <<>> \in [{} -> 0 .. trees]
  BY EmptySeq
<1>6. ASSUME NEW t \in Trips
      PROVE  TripDated(t)'
  <2>1. CASE t = u
    BY <1>1, <1>2, <1>4, <1>5, <2>1 DEF TripDated
  <2>2. CASE t # u
    BY <1>1, <1>2, <1>4, <2>2 DEF TripDated, ByIds
  <2> QED
    BY <2>1, <2>2
<1> QED
  BY <1>4, <1>6

\* The chosen solution brings the dates of its ids along.
LEMMA DatesChosen ==
  ASSUME ServiceInv, NEW u \in Trips, Choose(u)
  PROVE  Dated' /\ \A t \in Trips : TripDated(t)'
<1>1. trees \in Nat /\ Dated /\ \A t \in Trips : TripDated(t)
  BY DEF ServiceInv
<1>2. UNCHANGED <<solutions, idTree, toldIn, trees>>
  BY DEF Choose, SalesOnly, ChooseFare, ChooseSegment
<1>3. PICK n \in 0 .. trees : saleTree' = [saleTree EXCEPT ![u] = n]
  <2>1. \/ saleTree' = [saleTree EXCEPT ![u] = 0]
        \/ \E i \in DOMAIN solutions[u] : saleTree' = [saleTree EXCEPT ![u] = idTree[u][i]]
    BY DEF Choose
  <2>2. \A i \in DOMAIN solutions[u] : idTree[u][i] \in 0 .. trees
    BY <1>1 DEF TripDated
  <2> QED
    BY <1>1, <2>1, <2>2
<1>4. /\ saleTree' \in [Trips -> Nat]
      /\ \A t \in Trips : saleTree'[t] = IF t = u THEN n ELSE saleTree[t]
  BY <1>1, <1>3 DEF Dated
<1>5. ASSUME NEW t \in Trips
      PROVE  TripDated(t)'
  BY <1>1, <1>2, <1>4 DEF TripDated, ByIds
<1> QED
  BY <1>1, <1>2, <1>4, <1>5 DEF Dated

--------------------------------------------------------------------------------
(* Every step *)

\* The dates stay those of trees that have been made.
LEMMA DatesStep ==
  ASSUME ServiceInv, [ServiceNext]_serviceVars
  PROVE  Dated' /\ \A t \in Trips : TripDated(t)'
<1>1. trees \in Nat
  BY DEF ServiceInv
<1>2. CASE SaleStep \/ StaleLeg
  <2>1. UNCHANGED <<solutions, trees>> /\ Told
    BY <1>2 DEF SaleStep, StaleLeg, SalesOnly, SellReturn, CancelReturn, SellAbort, SellLegById,
       SellLegByKey, CancelLeg, SellSegment
  <2> QED
    BY <2>1, DatesTold
<1>3. ASSUME UNCHANGED <<solutions, idVars>>, trees' = trees \/ trees' = trees + 1
      PROVE  Dated' /\ \A t \in Trips : TripDated(t)'
  BY <1>1, <1>3, DatesStay
<1>4. CASE AvailabilityEnds
  BY <1>3, <1>4 DEF AvailabilityEnds, SalesOnly, AvailabilityReturn
<1>5. ASSUME NEW t \in Trips, CallBegin(t)
      PROVE  UNCHANGED <<solutions, idVars>> /\ trees' = trees
  BY <1>5 DEF CallBegin, SalesOnly, AvailabilityBegin, SellBegin, CancelBegin
<1>6. CASE LoadBegin \/ LoadStep \/ TreeStep \/ UNCHANGED serviceVars
  BY <1>3, <1>6 DEF LoadBegin, LoadStep, TreeStep, NewTree, serviceVars, vars
<1> QED
  BY <1>2, <1>3, <1>4, <1>5, <1>6, DatesAvailable, DatesDropped, DatesSearched, DatesQuoted,
     DatesChosen
  DEF ServiceNext

\* A load leaves room for the copy it may make, and begins between two sales.
LEMMA RoomStep ==
  ASSUME ServiceInv, [ServiceNext]_serviceVars
  PROVE  /\ trees' \in 0 .. MaxTrees /\ misused' \in BOOLEAN
         /\ OneAtATime' /\ RoomForCopy' /\ EmptyAtFirst'
<1>1. /\ trees \in 0 .. MaxTrees /\ misused \in BOOLEAN /\ MaxTrees \in Nat
      /\ OneAtATime /\ RoomForCopy /\ EmptyAtFirst /\ DataInv
  BY DEF ServiceInv
<1>2. CASE SalesOnly \/ StaleLeg
  <2>1. load' = NoLoad /\ UNCHANGED <<trees, working>>
    BY <1>2 DEF SalesOnly, StaleLeg, dataVars
  <2>2. misused' \in BOOLEAN
    BY <1>1, <1>2 DEF SalesOnly, StaleLeg
  <2> QED
    BY <1>1, <2>1, <2>2 DEF OneAtATime, RoomForCopy, EmptyAtFirst, NoLoad
<1>3. CASE LoadBegin
  <2>1. /\ call = Idle /\ trees < MaxTrees /\ UNCHANGED <<call, trees, misused, working>>
    BY <1>3 DEF LoadBegin, vars, ParseAndLoad, BuildSampleBom, ClonePersistentBom, BeginLoad
  <2> QED
    BY <1>1, <2>1 DEF OneAtATime, RoomForCopy, EmptyAtFirst
<1>4. CASE LoadStep
  <2>1. /\ UNCHANGED <<call, trees, misused, own>> /\ working'.tree = working.tree
        /\ load # NoLoad /\ load.op # "idle"
    BY <1>1, <1>4 DEF LoadStep, vars, LoadLayer, LinkComponent, Return, TaskThrows, Doing, NoLoad,
       DataInv, DataTypeOK, Working
  <2>2. load'.op # "idle" => load'.op = load.op /\ Left' = Left - 1
    <3>1. CASE LoadLayer \/ LinkComponent
      BY <1>1, <2>1, <3>1, TaskDone DEF LoadLayer, LinkComponent, Doing
    <3>2. CASE Return \/ TaskThrows
      BY <3>2 DEF Return, TaskThrows, NoLoad
    <3> QED
      BY <1>4, <3>1, <3>2 DEF LoadStep
  <2>3. Left \in Nat
    BY <1>1, <2>1, CallHasTask
  <2> QED
    BY <1>1, <2>1, <2>2, <2>3 DEF OneAtATime, RoomForCopy, EmptyAtFirst
<1>5. CASE TreeStep
  <2>1. call' = Idle /\ trees' = trees + 1 /\ trees < MaxTrees
    BY <1>5, TreeFacts DEF TreeStep, NewTree
  <2>2. misused' \in BOOLEAN
    BY <1>5 DEF TreeStep, NewTree
  <2>3. trees' \in 0 .. MaxTrees /\ trees' # 0
    BY <1>1, <2>1
  <2>4. RoomForCopy'
    BY <1>5, TreeFacts DEF RoomForCopy
  <2> QED
    BY <2>1, <2>2, <2>3, <2>4 DEF OneAtATime, EmptyAtFirst
<1>6. CASE UNCHANGED serviceVars
  BY <1>1, <1>6 DEF serviceVars, vars, dataVars, OneAtATime, RoomForCopy, EmptyAtFirst, Left
<1> QED
  BY <1>2, <1>3, <1>4, <1>5, <1>6, SalesAreSteps DEF ServiceNext

\* A service just constructed satisfies the invariant.
LEMMA ServiceInitInv == ServiceInit => ServiceInv
<1> SUFFICES ASSUME ServiceInit PROVE ServiceInv
  OBVIOUS
<1>1. Grounds
  BY InitGrounds DEF ServiceInit
<1>2. DataInv
  BY InitInv DEF ServiceInit
<1>3. /\ trees = 0 /\ misused = FALSE /\ load = NoLoad /\ working.tree = EmptyTree
      /\ \A t \in Trips : solutions[t] = <<>>
  BY DEF ServiceInit, Init, DataInit
<1>4. /\ idTree = [t \in Trips |-> <<>>]
      /\ saleTree = [t \in Trips |-> 0] /\ toldIn = [t \in Trips |-> 0]
  BY DEF ServiceInit
<1>5. Dated
  BY <1>4 DEF Dated
<1>6. \A t \in Trips : TripDated(t)
  BY <1>3, <1>4, EmptySeq DEF TripDated
<1>7. OneAtATime /\ RoomForCopy /\ EmptyAtFirst
  BY <1>3 DEF OneAtATime, RoomForCopy, EmptyAtFirst, NoLoad
<1>8. trees \in 0 .. MaxTrees /\ misused \in BOOLEAN
  <2>1. trees \in 0 .. MaxTrees
    BY <1>3
  <2> QED
    BY <1>3, <2>1
<1> QED
  BY <1>1, <1>2, <1>5, <1>6, <1>7, <1>8 DEF ServiceInv, SalesGrounds, Grounds

\* Every step of the service keeps it.
LEMMA ServiceInvStep ==
  ASSUME ServiceInv, [ServiceNext]_serviceVars
  PROVE  ServiceInv'
BY DataKept, SalesGroundsStep, DatesStep, RoomStep DEF ServiceInv

\* Every reachable state of the service satisfies the invariant.
THEOREM ServiceInductive == ServiceSpec => []ServiceInv
<1>1. ServiceInv /\ [ServiceNext]_serviceVars => ServiceInv'
  BY ServiceInvStep
<1> QED
  BY <1>1, ServiceInitInv, PTL DEF ServiceSpec

\* The state of the service keeps its types, whatever ids of earlier trees are used: in
\* particular every id is dated by a tree that has been made.
THEOREM ServiceTypesHold == ServiceSpec => []ServiceTypeOK
<1>1. ServiceInv => ServiceTypeOK
  <2> SUFFICES ASSUME ServiceInv PROVE ServiceTypeOK
    OBVIOUS
  <2>1. \A b \in BookingClasses : booked[b] \in 0 .. Capacity[b]
    BY CapacityAssumption DEF ServiceInv, SalesGrounds, TypeOK
  <2> QED
    BY <2>1 DEF ServiceInv, TripDated, ServiceTypeOK
<1> QED
  BY <1>1, ServiceInductive, PTL

\* A tree made by a load is made once the layers are all loaded.
LEMMA TreesAfterLoads ==
  ASSUME ServiceInv, TreeStep, Loading
  PROVE  Components \subseteq load.loaded
<1>1. load.op # "idle" /\ load.todo # <<>> /\ Task.do = "copy"
  BY DEF TreeStep, CopyTree, Doing, TaskThrows, CallerClones, Loading, NoLoad
<1>2. own /\ Left = 4
  BY <1>1, TaskByNumber DEF ServiceInv
<1>3. LoadsLeft = 0
  BY <1>2 DEF LoadsLeft
<1> QED
  BY <1>3 DEF ServiceInv, DataInv, LoadsOnTime, Components

\* Of the callers' calls only a cancellation gives a seat up.
LEMMA OnlyCancelsRelease ==
  ASSUME Grounds, Next, NEW b \in BookingClasses, booked'[b] < booked[b]
  PROVE  /\ call.op = "cancel" /\ booked'[b] = booked[b] - Party[call.trip]
         /\ \E i \in DOMAIN Choice.path : b[1] = Choice.path[i]
<1>1. booked \in [BookingClasses -> Nat] /\ booked[b] \in Nat /\ call \in Call
  BY DEF Grounds, TypeOK
<1>2. ASSUME NEW t \in Trips, NEW x, Take(t, x)
      PROVE  ~(booked'[b] < booked[b])
  <2>1. booked' = [booked EXCEPT ![x] = @ + Party[t]] /\ Party[t] \in Nat
    BY <1>2, PartyAssumption DEF Take
  <2> QED
    BY <1>1, <2>1
<1>3. call.op = "cancel"
  <2>1. CASE SellLegById \/ SellLegByKey
    <3>1. call.trip \in Trips
      BY <2>1, CallHasTrip DEF SellLegById, SellLegByKey, InSellLoop, Grounds
    <3>2. (\E x : Take(call.trip, x)) \/ UNCHANGED booked
      BY <2>1 DEF SellLegById, SellLegByKey, AirInvSell, Refused
    <3>3. ~(booked'[b] < booked[b])
      BY <1>1, <1>2, <3>1, <3>2
    <3> QED
      BY <3>3
  <2>2. ASSUME NEW t \in Trips, SellSegment(t)
        PROVE  FALSE
    <3>1. (\E x : Take(t, x)) \/ UNCHANGED booked
      BY <2>2 DEF SellSegment
    <3>2. ~(booked'[b] < booked[b])
      BY <1>1, <1>2, <3>1
    <3> QED
      BY <3>2
  <2>3. CASE CancelLeg
    BY <2>3 DEF CancelLeg
  <2>4. \/ SellLegById \/ SellLegByKey \/ CancelLeg \/ UNCHANGED booked
        \/ \E t \in Trips : SellSegment(t)
    BY DEF Next, CallStep, CallerStep, AvailabilitySolution, AvailabilityThrow,
       AvailabilityReturn, SellAbort, SellReturn, CancelReturn, CalculateSegmentPathList,
       FareQuote, FareQuoteThrow, PriceOnly, AvailabilityBegin, ChooseFare, ChooseSegment,
       SellBegin, CancelBegin
  <2> QED
    BY <1>1, <2>1, <2>2, <2>3, <2>4
<1>4. PICK t \in Trips :
        /\ call # Idle => t = call.trip
        /\ \E i \in DOMAIN choice[t].path : b[1] = choice[t].path[i]
        /\ \/ booked'[b] = booked[b] + Party[t]
           \/ booked'[b] = booked[b] - Party[t]
  <2>1. booked'[b] # booked[b]
    BY <1>1
  <2> QED
    BY <2>1, SeatsMoved
<1>5. t = call.trip /\ Party[t] \in Nat
  BY <1>3, <1>4, IdleFacts, PartyAssumption
<1> QED
  BY <1>1, <1>3, <1>4, <1>5 DEF Choice

\* A booked seat is given up by its own cancellation, or with the whole working tree, which
\* no load replaces that fails before every component has loaded its layer; an id of an
\* earlier tree apart.
THEOREM SeatsAreKept == ServiceSpec => NoSeatVanishes
<1> DEFINE Kept == \A b \in BookingClasses : booked'[b] < booked[b] =>
              \/ /\ call.op = "cancel" /\ booked'[b] = booked[b] - Party[call.trip]
                 /\ \E i \in DOMAIN Choice.path : b[1] = Choice.path[i]
              \/ /\ trees' # trees
                 /\ load.op \in {"parseAndLoad", "buildSampleBom"} => Components \subseteq load.loaded
              \/ misused'
<1>1. ASSUME ServiceInv, ServiceNext
      PROVE  Kept
  <2>1. CASE Next
    <3>1. Grounds
      BY <1>1, <2>1, AbortIsTheEnd DEF ServiceInv, SalesGrounds, Grounds
    <3> QED
      BY <2>1, <3>1, OnlyCancelsRelease
  <2>2. CASE StaleLeg
    BY <2>2 DEF StaleLeg
  <2>3. CASE TreeStep
    <3>1. trees' # trees
      BY <1>1, <2>3 DEF TreeStep, NewTree, ServiceInv
    <3> QED
      BY <1>1, <2>3, <3>1, TreesAfterLoads DEF Loading
  <2>4. CASE UNCHANGED booked
    <3>1. \A b \in BookingClasses : booked[b] \in Nat
      BY <1>1 DEF ServiceInv, SalesGrounds, TypeOK
    <3> QED
      BY <2>4, <3>1
  <2> QED
    BY <1>1, <2>1, <2>2, <2>3, <2>4, SalesAreSteps DEF ServiceNext, LoadBegin, LoadStep, vars
<1>2. ServiceInv /\ [ServiceNext]_serviceVars => [Kept]_serviceVars
  BY <1>1
<1>3. ServiceSpec => [][Kept]_serviceVars
  BY <1>2, ServiceInductive, PTL DEF ServiceSpec
<1> QED
  BY <1>3 DEF NoSeatVanishes

--------------------------------------------------------------------------------
(* What BomTree promises of a load holds in the whole service *)

\* Loads and clones of the service are steps of BomTree, and no sale touches its state.
LEMMA DataSteps ==
  ASSUME [ServiceNext]_serviceVars
  PROVE  [DataNext]_dataVars
<1>1. LoadBegin \/ LoadStep \/ TreeStep => DataNext
  BY DEF LoadBegin, LoadStep, TreeStep, DataNext, DataStep
<1> QED
  BY <1>1, SalesAreSteps DEF ServiceNext, SalesOnly, StaleLeg, serviceVars

\* The composed service implements its loading part, whatever sales come in between.
THEOREM ServiceLoads == ServiceSpec => DataInit /\ [][DataNext]_dataVars
<1>1. ServiceInit => DataInit
  BY DEF ServiceInit
<1>2. [ServiceNext]_serviceVars => [DataNext]_dataVars
  BY DataSteps
<1> QED
  BY <1>1, <1>2, PTL DEF ServiceSpec

\* So sales are served from a complete and linked tree after a load that returned, a load
\* does not touch the tree they are served from before its last layer is in, and a tree that
\* is shared is never replaced by the service.
THEOREM SalesAreServed ==
  ServiceSpec => []ReturnedMeansServed /\ []LayersInOrder /\ ServesUntilLoaded /\ SharedTreeIsNotOurs
<1> DEFINE Serves == working' # working /\ load.op \in {"parseAndLoad", "buildSampleBom"}
                       => Components \subseteq load.loaded
           Shared == ~own /\ load.op # "idle" =>
                       working'.tree = working.tree /\ working'.whole = working.whole
<1>1. ServiceInv => ReturnedMeansServed /\ LayersInOrder
  BY DEF ServiceInv, DataInv
<1>2. ASSUME ServiceInv, [ServiceNext]_serviceVars
      PROVE  Serves /\ Shared
  <2>1. DataInv /\ [DataNext]_dataVars
    BY <1>2, DataSteps DEF ServiceInv
  <2>2. Serves
    BY <2>1, ChangesAfterLoads DEF Loading
  <2>3. Shared
    <3> SUFFICES ASSUME ~own, load.op # "idle", working' # working
                 PROVE  working'.tree = working.tree /\ working'.whole = working.whole
      OBVIOUS
    <3> QED
      BY <2>1, CopyOrLink
  <2> QED
    BY <2>2, <2>3
<1>3. ServiceSpec => /\ []ReturnedMeansServed /\ []LayersInOrder
                     /\ [][Serves]_dataVars /\ [][Shared]_dataVars
  BY <1>1, <1>2, ServiceInductive, PTL DEF ServiceSpec
<1> QED
  BY <1>3 DEF ServesUntilLoaded, SharedTreeIsNotOurs

--------------------------------------------------------------------------------
(* Seats and answers of the present tree *)

\* A caller is told of its booking no earlier than the ids of the booking were made.
SoldLater ==
  \A t \in Trips : belief[t] \in {"booked", "unknown"} => saleTree[t] <= toldIn[t]

\* A cancellation by ids of an earlier tree has not got past its first leg.
StaleCancelWaits == call.op = "cancel" /\ Stale(call.trip) => call.leg = 1

PresentReconciling ==
  /\ IsFiniteSet(Settled(Trips, ToldOfThisTree))
  /\ Agrees(Trips, BookingClasses, Party, SeatsAtReturn, ToldOfThisTree, LegsOfTrips)

\* With one leg per itinerary: what holds always, and what holds until an id of an
\* earlier tree is used in the present one.
PresentInv ==
  /\ FaresQuoted /\ ClassesNamed /\ SoldLater
  /\ ~misused => IInv /\ StaleCancelWaits /\ PresentReconciling

\* Fares and class paths are the callers' own: neither an id of an earlier tree nor a new
\* tree touches them.
LEMMA PresentFares ==
  ASSUME OneLegged, ServiceInv, FaresQuoted, ClassesNamed, [ServiceNext]_serviceVars
  PROVE  FaresQuoted' /\ ClassesNamed'
<1>1. CASE Next
  <2>1. OneLegGrounds
    BY <1>1, AbortIsTheEnd DEF ServiceInv, SalesGrounds, Grounds, OneLegGrounds
  <2> QED
    BY <1>1, <2>1, FaresStep, NamedStep DEF OneLegGrounds
<1>2. CASE StaleLeg
  <2>1. UNCHANGED <<solutions, choice>>
    BY <1>2 DEF StaleLeg
  <2>2. call.op \in {"sell", "cancel"} /\ TypeOK /\ CallerWaits
    BY <1>2 DEF StaleLeg, InSellLoop, ServiceInv, SalesGrounds
  <2>3. call.trip \in Trips /\ belief[call.trip] # "looking" /\ belief \in [Trips -> Beliefs]
    BY <2>2, CallHasTrip DEF CallerWaits, TypeOK
  <2>4. UNCHANGED belief \/ belief' = [belief EXCEPT ![call.trip] = "unknown"]
    BY <1>2 DEF StaleLeg, NextLeg, Thrown
  <2> QED
    BY <2>1, <2>3, <2>4 DEF FaresQuoted, ClassesNamed
<1>3. CASE UNCHANGED <<solutions, choice, belief>>
  BY <1>3 DEF FaresQuoted, ClassesNamed
<1> QED
  BY <1>1, <1>2, <1>3, SalesAreSteps
  DEF ServiceNext, LoadBegin, LoadStep, TreeStep, NewTree, serviceVars, vars

\* A booking is told in the tree whose ids it was sold by, or in a later one.
LEMMA SoldLaterStep ==
  ASSUME ServiceInv, SoldLater, [ServiceNext]_serviceVars
  PROVE  SoldLater'
<1>1. /\ belief \in [Trips -> Beliefs] /\ trees \in Nat
      /\ \A t \in Trips : saleTree[t] \in 0 .. trees /\ toldIn[t] \in 0 .. trees
      /\ saleTree \in [Trips -> Nat] /\ toldIn \in [Trips -> Nat]
  BY DEF ServiceInv, SalesGrounds, TypeOK, TripDated, Dated
<1>2. CASE Told
  <2>1. /\ UNCHANGED saleTree
        /\ \A t \in Trips : toldIn'[t] = IF belief'[t] # belief[t] THEN trees ELSE toldIn[t]
    BY <1>2 DEF Told
  <2> QED
    BY <1>1, <2>1 DEF SoldLater
<1>3. ASSUME NEW t \in Trips, Choose(t)
      PROVE  SoldLater'
  <2>1. belief' = [belief EXCEPT ![t] = "open"] /\ UNCHANGED toldIn
    BY <1>3 DEF Choose, ChooseFare, ChooseSegment
  <2>2. \E n : saleTree' = [saleTree EXCEPT ![t] = n]
    BY <1>3 DEF Choose
  <2>3. \A u \in Trips \ {t} : belief'[u] = belief[u] /\ saleTree'[u] = saleTree[u]
    BY <1>1, <2>1, <2>2
  <2> QED
    BY <1>1, <2>1, <2>3 DEF SoldLater
<1>4. CASE UNCHANGED <<belief, saleTree, toldIn>>
  BY <1>4 DEF SoldLater
<1>5. \/ Told \/ (\E t \in Trips : Choose(t)) \/ UNCHANGED <<belief, saleTree, toldIn>>
  <2>1. SaleStep \/ StaleLeg => Told
    BY DEF SaleStep, StaleLeg
  <2>2. Availability \/ AvailabilityEnds \/ AvailabilityFails => UNCHANGED <<belief, saleTree, toldIn>>
    BY DEF Availability, AvailabilityEnds, AvailabilityFails, idVars, AvailabilitySolution, AvailabilityThrow,
       AvailabilityReturn
  <2>3. ASSUME NEW t \in Trips, Search(t) \/ Quote(t) \/ QuoteThrow(t) \/ CallBegin(t)
        PROVE  UNCHANGED <<belief, saleTree, toldIn>>
    BY <2>3 DEF Search, Quote, QuoteThrow, CallBegin, idVars, CalculateSegmentPathList, FareQuote,
       FareQuoteThrow, PriceOnly, AvailabilityBegin, SellBegin, CancelBegin
  <2>4. LoadBegin \/ LoadStep \/ TreeStep \/ UNCHANGED serviceVars
          => UNCHANGED <<belief, saleTree, toldIn>>
    BY DEF LoadBegin, LoadStep, TreeStep, NewTree, serviceVars, vars, idVars
  <2> QED
    BY <2>1, <2>2, <2>3, <2>4 DEF ServiceNext
<1> QED
  BY <1>2, <1>3, <1>4, <1>5

\* The list of ids of a cancellation has one for every leg, or none.
LEMMA IdListLength ==
  ASSUME OneLegged, Grounds, NEW t \in Trips, choice[t].path \in Paths
  PROVE  Len(ClassIdList(choice[t])) = IF ByIds(choice[t]) THEN 1 ELSE 0
<1> DEFINE sol == choice[t]
<1>0. sol \in TravelSolution /\ Aligned(sol)
  BY DEF Grounds, TypeOK, MapsKept, Mapped
<1> HIDE DEF sol
<1>1. CASE ByIds(sol)
  <2>1. sol.held = sol.path /\ sol.path \in Seq(Segments) /\ Len(sol.path) = 1
    BY <1>0, <1>1, AlignedLegs, PathFacts DEF OneLegged, sol
  <2>2. ClassIdList(sol) = [i \in DOMAIN sol.path |-> <<sol.path[i], sol.classPath[i][1]>>]
    BY <1>1, <2>1 DEF ClassIdList
  <2>3. ClassIdList(sol) \in [DOMAIN sol.path -> {ClassIdList(sol)[i] : i \in DOMAIN sol.path}]
    BY <2>2
  <2> HIDE DEF ClassIdList
  <2> QED
    BY <1>1, <2>1, <2>3, FunIsSeq DEF sol
<1>2. CASE ~ByIds(sol)
  BY <1>2, EmptySeq DEF ClassIdList, sol
<1> QED
  BY <1>1, <1>2

\* Only its cancellation makes a caller stop believing in its booking.
LEMMA OnlyCancelUnbooks ==
  ASSUME Grounds, Next, NEW t \in Trips, belief[t] = "booked", belief'[t] # "booked"
  PROVE  /\ call.op = "cancel" /\ call.trip = t
         /\ CancelLeg \/ (CancelReturn /\ call.answer)
<1>1. belief \in [Trips -> Beliefs] /\ TypeOK /\ CallerWaits
  BY DEF Grounds, TypeOK
<1>2. CASE SellLegById \/ SellLegByKey \/ SellReturn
  <2>1. call.op = "sell" /\ call.trip \in Trips /\ belief[call.trip] = "open"
    BY <1>1, <1>2, CallHasTrip DEF SellLegById, SellLegByKey, InSellLoop, SellReturn, CallerWaits
  <2>2. belief'[t] = belief[t]
    BY <1>1, <1>2, <2>1 DEF SellLegById, SellLegByKey, AirInvSell, Refused, NextLeg, Thrown, SellReturn
  <2> QED
    BY <2>2
<1>3. CASE CancelLeg
  <2>1. UNCHANGED belief \/ belief' = [belief EXCEPT ![call.trip] = "unknown"]
    BY <1>3 DEF CancelLeg, AirInvCancel, Refused, NextLeg, Thrown
  <2> QED
    BY <1>1, <1>3, <2>1 DEF CancelLeg
<1>4. CASE CancelReturn
  <2>1. belief' = [belief EXCEPT ![call.trip] = IF call.answer THEN "open" ELSE @]
    BY <1>4 DEF CancelReturn
  <2> QED
    BY <1>1, <1>4, <2>1 DEF CancelReturn
<1>5. ASSUME NEW u \in Trips, ChooseFare(u) \/ ChooseSegment(u) \/ SellSegment(u)
      PROVE  belief'[t] = belief[t]
  <2>1. belief[u] \in {"looking", "open"} /\ t # u
    BY <1>5 DEF ChooseFare, ChooseSegment, SellSegment, MaySell
  <2>2. UNCHANGED belief \/ \E told : belief' = [belief EXCEPT ![u] = told]
    BY <1>5 DEF ChooseFare, ChooseSegment, SellSegment
  <2> QED
    BY <1>1, <2>1, <2>2
<1> QED
  BY <1>2, <1>3, <1>4, <1>5
  DEF Next, CallStep, CallerStep, AvailabilitySolution, AvailabilityThrow, AvailabilityReturn,
      SellAbort, CalculateSegmentPathList, FareQuote, FareQuoteThrow, PriceOnly, AvailabilityBegin,
      SellBegin, CancelBegin

\* A cancellation asks for a leg by id only if the id is of the present tree.
LEMMA FreshCancel ==
  ASSUME OneLegged, ServiceInv, Grounds, ServiceNext, ~StaleLeg, CancelLeg
  PROVE  ~Stale(call.trip) /\ UNCHANGED <<saleTree, trees>>
<1>1. call.op = "cancel" /\ call # Idle /\ load = NoLoad
  BY IdleFacts DEF CancelLeg, ServiceInv, OneAtATime
<1>2. Choice.path \in Paths /\ call.leg \in Nat /\ call.trip \in Trips
  BY <1>1, CallHasTrip DEF Grounds, CallerWaits, Choice, TypeOK, Call
<1>3. \A u \in Trips : /\ ~SellSegment(u) /\ ~Search(u) /\ ~Quote(u) /\ ~QuoteThrow(u)
                       /\ ~Choose(u) /\ ~CallBegin(u)
  BY <1>1 DEF SellSegment, Search, CalculateSegmentPathList, Quote, QuoteThrow, FareQuote,
     FareQuoteThrow, PriceOnly, Choose, ChooseFare, ChooseSegment, CallBegin, AvailabilityBegin,
     SellBegin, CancelBegin, Begin
<1>4. ~Availability /\ ~AvailabilityEnds /\ ~AvailabilityFails /\ ~SellReturn /\ ~SellAbort
  BY <1>1 DEF Availability, AvailabilityEnds, AvailabilityFails, AvailabilitySolution, AvailabilityThrow,
     AvailabilityReturn, SellReturn, SellAbort, InSellLoop
<1>5. ~LoadBegin /\ ~LoadStep /\ ~TreeStep
  BY <1>1 DEF LoadBegin, LoadStep, TreeStep, LoadLayer, LinkComponent, Return, TaskThrows,
     CopyTree, Doing, NoLoad
<1>6. ~CancelReturn
  <2>1. Len(ClassIdList(Choice)) \in Nat
    BY <1>2, IdListLength DEF Choice
  <2> QED
    BY <1>2, <2>1 DEF CancelLeg, CancelReturn
<1> QED
  BY <1>3, <1>4, <1>5, <1>6 DEF ServiceNext, SaleStep, Told, SalesOnly

\* A booking of an earlier tree is not given up in the present one without using its ids.
LEMMA OldBookingStays ==
  ASSUME OneLegged, ServiceInv, PresentInv, ~misused, ServiceNext, Next,
         NEW t \in Trips, belief[t] = "booked", toldIn[t] # trees, ~StaleLeg
  PROVE  belief'[t] = "booked"
<1> SUFFICES ASSUME belief'[t] # "booked" PROVE FALSE
  OBVIOUS
<1>1. IInv /\ Grounds /\ StaleCancelWaits /\ saleTree[t] <= toldIn[t]
  BY GroundsHold DEF PresentInv, SoldLater
<1>2. /\ call.op = "cancel" /\ call.trip = t
      /\ CancelLeg \/ (CancelReturn /\ call.answer)
  BY <1>1, OnlyCancelUnbooks
<1>3. saleTree[t] # trees
  BY <1>1 DEF ServiceInv, TripDated
<1>4. choice[t].path \in Paths /\ Choice = choice[t] /\ call.leg \in Nat \ {0}
  BY <1>1, <1>2 DEF Grounds, CallerWaits, Choice, TypeOK, Call
<1>5. CASE ~ByIds(choice[t])
  <2>1. Len(ClassIdList(Choice)) = 0
    BY <1>1, <1>4, <1>5, IdListLength
  <2>2. ~call.answer
    BY <1>1, <1>2, <1>4, <1>5 DEF IInv, CancelNamesLegs
  <2> QED
    BY <1>2, <1>4, <2>1, <2>2 DEF CancelLeg
<1>6. CASE ByIds(choice[t])
  <2>1. Stale(call.trip) /\ call.leg = 1 /\ Len(ClassIdList(Choice)) = 1
    BY <1>1, <1>2, <1>3, <1>4, <1>6, IdListLength DEF Stale, StaleCancelWaits
  <2>2. ~CancelReturn
    BY <2>1 DEF CancelReturn
  <2>3. ~CancelLeg
    BY <1>1, <2>1, FreshCancel
  <2> QED
    BY <1>2, <2>2, <2>3
<1> QED
  BY <1>5, <1>6

\* What callers were told of the present tree follows what they believe, except for
\* bookings of an earlier tree, which stay where they are.
LEMMA PresentEchoes ==
  ASSUME OneLegged, ServiceInv, PresentInv, ~misused, ServiceNext, Next, SalesOnly, ~StaleLeg
  PROVE  Echoes(ToldOfThisTree, ToldOfThisTree')
<1>1. Grounds /\ belief \in [Trips -> Beliefs] /\ trees' = trees
  BY GroundsHold DEF PresentInv, Grounds, TypeOK, SalesOnly
<1>2. ASSUME NEW t \in Trips
      PROVE  /\ belief'[t] = belief[t] => toldIn'[t] = toldIn[t]
             /\ \/ belief'[t] = belief[t]
                \/ belief[t] = "looking" /\ belief'[t] = "open"
                \/ toldIn'[t] = trees
  <2>1. CASE SaleStep
    BY <2>1 DEF SaleStep, Told
  <2>2. ASSUME NEW u \in Trips, Choose(u)
        PROVE  /\ toldIn' = toldIn
               /\ belief'[t] = belief[t] \/ (belief[t] = "looking" /\ belief'[t] = "open")
    BY <1>1, <2>2 DEF Choose, ChooseFare, ChooseSegment
  <2>3. CASE Availability \/ AvailabilityEnds \/ AvailabilityFails
    BY <2>3 DEF Availability, AvailabilityEnds, AvailabilityFails, idVars, AvailabilitySolution, AvailabilityThrow,
       AvailabilityReturn
  <2>4. ASSUME NEW u \in Trips, Search(u) \/ Quote(u) \/ QuoteThrow(u) \/ CallBegin(u)
        PROVE  UNCHANGED <<belief, toldIn>>
    BY <2>4 DEF Search, Quote, QuoteThrow, CallBegin, idVars, CalculateSegmentPathList, FareQuote,
       FareQuoteThrow, PriceOnly, AvailabilityBegin, SellBegin, CancelBegin
  <2>5. CASE LoadBegin \/ LoadStep \/ TreeStep
    BY <2>5 DEF LoadBegin, LoadStep, TreeStep, NewTree, vars, idVars
  <2> QED
    BY <2>1, <2>2, <2>3, <2>4, <2>5 DEF ServiceNext
<1>3. \A t \in Trips : belief[t] = "booked" /\ toldIn[t] # trees => belief'[t] = "booked"
  BY OldBookingStays
<1>4. \A t \in Trips :
        /\ ToldOfThisTree[t] = IF toldIn[t] = trees THEN belief[t] ELSE "open"
        /\ ToldOfThisTree'[t] = IF toldIn'[t] = trees THEN belief'[t] ELSE "open"
  BY <1>1 DEF ToldOfThisTree
<1>5. \A t \in Trips : belief[t] = "looking" => belief'[t] \notin {"booked", "unknown"}
  <2>1. OneLegInv
    BY DEF PresentInv, OneLegInv
  <2>2. CASE Promise!AtomicNext
    BY <1>1, <2>2 DEF Promise!AtomicNext, Promise!Plan, Promise!Settle, Promise!Sell, Promise!SellLost,
       Promise!Cancel, Promise!CancelLost
  <2>3. CASE UNCHANGED Promise!vars
    BY <2>3 DEF Promise!vars
  <2> QED
    BY <2>1, <2>2, <2>3, OneLegStep
<1> HIDE DEF ToldOfThisTree
<1>6. ASSUME NEW t \in Trips
      PROVE  LET s1 == ToldOfThisTree[t]
                 s2 == ToldOfThisTree'[t]
             IN  /\ belief'[t] = belief[t] => s2 = s1
                 /\ belief[t] = "looking" => {s1, s2} \cap {"booked", "unknown"} = {}
                 /\ belief[t] = "open" => s1 = "open" /\ s2 = belief'[t]
                 /\ belief[t] = "booked" =>
                      \/ s1 = "booked" /\ s2 = belief'[t]
                      \/ belief'[t] = "booked" /\ s1 = "open" /\ s2 = "open"
  BY <1>2, <1>3, <1>4, <1>5
<1> QED
  BY <1>6 DEF Echoes

\* As long as no id of an earlier tree is used, a step of the callers keeps seats and
\* answers of the present tree agreed.
LEMMA PresentSale ==
  ASSUME OneLegged, ServiceInv, PresentInv, ~misused, ServiceNext, Next, SalesOnly, ~StaleLeg
  PROVE  IInv' /\ StaleCancelWaits' /\ PresentReconciling'
<1>1. OneLegInv /\ IInv /\ PresentReconciling /\ StaleCancelWaits
  BY DEF PresentInv, OneLegInv
<1>2. IInv'
  BY <1>1, InvStep
<1>3. PresentReconciling'
  <2>1. /\ IsFiniteSet(Settled(Trips, ToldOfThisTree'))
        /\ Agrees(Trips, BookingClasses, Party, SeatsAtReturn', ToldOfThisTree', LegsOfTrips')
    BY <1>1, PresentEchoes, AgreeingStep DEF PresentReconciling
  <2> QED
    BY <2>1 DEF PresentReconciling, Settled, Agrees, Count, HoldersOf, PartiesOf
<1>4. StaleCancelWaits'
  <2> SUFFICES ASSUME call'.op = "cancel", Stale(call.trip)'
               PROVE  call'.leg = 1
    BY DEF StaleCancelWaits
  <2>1. ASSUME NEW t \in Trips, CancelBegin(t)
        PROVE  call'.leg = 1
    BY <2>1, BeginFacts DEF CancelBegin, Ops
  <2>2. CASE CancelLeg
    <3>1. call.op = "cancel" /\ call # Idle /\ UNCHANGED choice
      BY <2>2, IdleFacts DEF CancelLeg
    <3>2. call'.trip = call.trip
      BY <2>2, IdleFacts DEF CancelLeg, AirInvCancel, Refused, NextLeg, Thrown
    <3>3. ~Stale(call.trip) /\ UNCHANGED <<saleTree, trees>>
      BY <1>1, <2>2, GroundsHold, FreshCancel
    <3> QED
      BY <3>1, <3>2, <3>3 DEF Stale, ByIds
  <2>3. ~CancelLeg /\ (\A t \in Trips : ~CancelBegin(t)) => call'.op # "cancel"
    <3>1. call \in Call
      BY <1>1 DEF IInv, TypeOK
    <3>2. CASE SellLegById \/ SellLegByKey
      <4>1. call.op = "sell" /\ \E b : AirInvSell(b)
        BY <3>2 DEF SellLegById, SellLegByKey, InSellLoop
      <4>2. Thrown \/ \E yes, changed : NextLeg(yes, changed)
        BY <4>1 DEF AirInvSell, Refused
      <4>3. call' = Idle \/ call'.op = call.op
        BY <4>2 DEF Thrown, NextLeg
      <4> QED
        BY <4>1, <4>3, IdleFacts
    <3>3. CASE AvailabilitySolution \/ SellAbort
      BY <3>1, <3>3 DEF AvailabilitySolution, SellAbort, Call
    <3>4. CASE AvailabilityThrow \/ AvailabilityReturn \/ SellReturn \/ CancelReturn
      BY <3>4, IdleFacts DEF AvailabilityThrow, AvailabilityReturn, SellReturn, CancelReturn
    <3>5. ASSUME NEW t \in Trips, AvailabilityBegin(t) \/ SellBegin(t)
          PROVE  call'.op # "cancel"
      BY <3>5, BeginFacts DEF AvailabilityBegin, SellBegin, Ops
    <3>6. ASSUME NEW t \in Trips, \/ CalculateSegmentPathList(t) \/ FareQuote(t) \/ FareQuoteThrow(t)
                                  \/ ChooseFare(t) \/ ChooseSegment(t) \/ SellSegment(t)
          PROVE  call'.op # "cancel"
      BY <3>6, IdleFacts DEF CalculateSegmentPathList, FareQuote, FareQuoteThrow, PriceOnly, ChooseFare,
         ChooseSegment, SellSegment
    <3> QED
      BY <3>2, <3>3, <3>4, <3>5, <3>6 DEF Next, CallStep, CallerStep
  <2> QED
    BY <2>1, <2>2, <2>3
<1> QED
  BY <1>2, <1>3, <1>4

\* A new tree has no booking, and nobody has been told anything of it.
LEMMA PresentNewTree ==
  ASSUME ServiceInv, TreeStep
  PROVE  IInv' /\ StaleCancelWaits' /\ PresentReconciling'
<1>1. /\ call = Idle /\ call' = Idle /\ booked' = [b \in BookingClasses |-> 0]
      /\ UNCHANGED toldIn /\ trees' = trees + 1
  BY TreeFacts DEF TreeStep, NewTree, idVars
<1>2. Grounds'
  BY <1>1, NewTreeGrounds DEF ServiceInv, TreeStep
<1>3. IInv'
  BY <1>1, <1>2, IdleFacts
  DEF Grounds, IInv, AnswerIsLastLeg, DoneCounted, CancelNamesLegs, AbortNeedsMisfit
<1>4. StaleCancelWaits'
  BY <1>1, IdleFacts DEF StaleCancelWaits
<1>5. \A b \in BookingClasses : SeatsAtReturn'[b] = 0
  BY <1>1, IdleFacts DEF SeatsAtReturn
<1>6. \A t \in Trips : ToldOfThisTree'[t] = "open"
  <2>1. \A t \in Trips : toldIn[t] # trees + 1
    BY DEF ServiceInv, TripDated
  <2> QED
    BY <1>1, <2>1 DEF ToldOfThisTree
<1>7. /\ IsFiniteSet(Settled(Trips, ToldOfThisTree'))
      /\ Agrees(Trips, BookingClasses, Party, SeatsAtReturn', ToldOfThisTree', LegsOfTrips')
  BY <1>5, <1>6, EmptyAgrees
<1>8. PresentReconciling'
  BY <1>7 DEF PresentReconciling, Settled, Agrees, Count, HoldersOf, PartiesOf
<1> QED
  BY <1>3, <1>4, <1>8

\* What happens to the loads alone changes nothing between callers and bookings.
LEMMA PresentStays ==
  ASSUME PresentInv, ~misused, UNCHANGED <<vars, idVars, trees>>
  PROVE  IInv' /\ StaleCancelWaits' /\ PresentReconciling'
<1>1. IInv /\ StaleCancelWaits /\ PresentReconciling
  BY DEF PresentInv
<1>2. IInv'
  BY <1>1, InvStep
<1>3. UNCHANGED <<booked, choice, belief, call, saleTree, toldIn, trees>>
  BY DEF vars, idVars
<1>4. StaleCancelWaits'
  BY <1>1, <1>3 DEF StaleCancelWaits, Stale, ByIds
<1>5. UNCHANGED <<SeatsAtReturn, LegsOfTrips, ToldOfThisTree>>
  BY <1>3, ItinerariesStay DEF SeatsAtReturn, ToldOfThisTree
<1>6. PresentReconciling'
  BY <1>1, <1>5 DEF PresentReconciling, Settled, Agrees, Count, HoldersOf, PartiesOf
<1> QED
  BY <1>2, <1>4, <1>6

\* Every step of the service keeps the agreement, or has used an id of an earlier tree.
LEMMA PresentStep ==
  ASSUME OneLegged, ServiceInv, PresentInv, [ServiceNext]_serviceVars
  PROVE  PresentInv'
<1>1. FaresQuoted' /\ ClassesNamed' /\ SoldLater'
  BY PresentFares, SoldLaterStep DEF PresentInv
<1>2. ASSUME ~misused'
      PROVE  IInv' /\ StaleCancelWaits' /\ PresentReconciling'
  <2>1. CASE StaleLeg
    BY <1>2, <2>1 DEF StaleLeg
  <2>2. CASE TreeStep
    BY <2>2, PresentNewTree
  <2>3. CASE LoadBegin \/ LoadStep \/ UNCHANGED serviceVars
    BY <1>2, <2>3, PresentStays DEF LoadBegin, LoadStep, serviceVars
  <2>4. CASE ~StaleLeg /\ Next /\ SalesOnly /\ ServiceNext
    BY <1>2, <2>4, PresentSale DEF SalesOnly
  <2> QED
    BY <2>1, <2>2, <2>3, <2>4, SalesAreSteps DEF ServiceNext
<1> QED
  BY <1>1, <1>2 DEF PresentInv

\* On itineraries of one leg, in whatever order callers shop, sell and cancel and the data
\* are loaded, loaded again and cloned: as long as no id of an earlier tree is used in the
\* present one, its bookings are those of the callers told so since it was made.
THEOREM PresentReconciles ==
  ASSUME OneLegged
  PROVE  ServiceSpec => []PresentReconciled
<1>1. ServiceInit => PresentInv
  <2> SUFFICES ASSUME ServiceInit PROVE PresentInv
    OBVIOUS
  <2>1. /\ IInv /\ call = Idle /\ \A b \in BookingClasses : booked[b] = 0
        /\ \A t \in Trips : belief[t] = "looking" /\ solutions[t] = <<>>
    BY InitIInv DEF ServiceInit, Init
  <2>2. FaresQuoted /\ ClassesNamed /\ SoldLater /\ StaleCancelWaits
    BY <2>1, EmptySeq, IdleFacts DEF FaresQuoted, ClassesNamed, SoldLater, StaleCancelWaits
  <2>3. \A b \in BookingClasses : SeatsAtReturn[b] = 0
    BY <2>1, IdleFacts DEF SeatsAtReturn
  <2>4. \A t \in Trips : ToldOfThisTree[t] \notin {"booked", "unknown"}
    BY <2>1 DEF ToldOfThisTree
  <2>5. PresentReconciling
    BY <2>3, <2>4, EmptyAgrees DEF PresentReconciling
  <2> QED
    BY <2>1, <2>2, <2>5 DEF PresentInv
<1>2. ServiceInv /\ PresentInv /\ [ServiceNext]_serviceVars => PresentInv'
  BY PresentStep
<1>3. PresentInv => PresentReconciled
  <2>1. \A S : Present!Cardinality(S) = Cardinality(S)
    BY DEF Present!Cardinality, Cardinality, Present!IsFiniteSet, IsFiniteSet
  <2> QED
    BY <2>1 DEF PresentInv, PresentReconciling, PresentReconciled, Present!Reconciled, Present!Owned,
       Present!SeatsOf, Present!Holders, Agrees, Count, PartiesOf, HoldersOf
<1> QED
  BY <1>1, <1>2, <1>3, ServiceInductive, PTL DEF ServiceSpec
================================================================================
