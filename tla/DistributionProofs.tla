-------------------------- MODULE DistributionProofs ---------------------------
(***************************************************************************)
(* Proofs about Distribution for every set of trips, schedule, tariff and  *)
(* capacity.  Grounds holds whatever the callers do, and with it the types *)
(* and what is said of seats, aborts and ends of calls.  IInv holds of     *)
(* careful callers; from it follow the answers of the calls, the           *)
(* refinement of the leg-by-leg contract and, on itineraries of one leg,   *)
(* that of the all-or-nothing contract and the agreement of seats and      *)
(* answers.                                                                *)
(***************************************************************************)
EXTENDS Distribution, SeatCounts, SequenceTheorems, TLAPS

--------------------------------------------------------------------------------
(* The inductive invariants *)

\* Only paths of the schedule are priced and sold.
OnPaths ==
  \A t \in Trips : \A i \in DOMAIN solutions[t] : solutions[t][i].path \in Paths

\* The maps of a solution are of segments of its own path; those of a careful caller's
\* are of all its legs, in their order, or there are none.
OnItinerary(sol) ==
  \A i \in DOMAIN sol.held : \E j \in DOMAIN sol.path : sol.held[i] = sol.path[j]

Mapped(sol) == OnItinerary(sol) /\ (Careful => Aligned(sol))

MapsKept ==
  \A t \in Trips :
    /\ Mapped(choice[t])
    /\ \A i \in DOMAIN solutions[t] : Mapped(solutions[t][i])

\* What a careful caller's request has not come to yet has no maps.
AskedOnce ==
  Careful /\ call.op = "avail" =>
    \A i \in DOMAIN solutions[call.trip] :
      i >= call.leg => solutions[call.trip][i].held = <<>>

\* Only a trip with an itinerary is sold or cancelled; a careful caller believes what it
\* believed when it called.
CallerWaits ==
  /\ call.op = "idle" <=> call.trip = NoTrip
  /\ call.op = "idle" => call = Idle
  /\ call.op \in {"sell", "cancel", "abort"} => belief[call.trip] # "looking"
  /\ Careful /\ call.op \in {"sell", "abort"} => belief[call.trip] = "open"
  /\ Careful /\ call.op = "cancel" => belief[call.trip] = "booked"
  /\ \A t \in Trips :
        IF belief[t] = "looking" THEN choice[t] = Unpriced(<<>>) ELSE choice[t].path \in Paths

\* What holds of the callers and their travel solutions whatever was booked.
Grounds == TypeOK /\ OnPaths /\ MapsKept /\ AskedOnce /\ CallerWaits

\* The seats a call has moved can be moved back; only sales and cancellations move any.
DoneCounted ==
  /\ call.op \in {"idle", "avail"} => call.done = {}
  /\ \A b \in call.done :
        IF call.op = "cancel" THEN booked[b] + Party[call.trip] <= Capacity[b]
                              ELSE booked[b] >= Party[call.trip]

\* A cancellation by ids names a class on every leg, throughout the call; one of a
\* booking made by keys has no ids, releases nothing and answers no.
CancelNamesLegs ==
  call.op = "cancel" =>
    IF ByIds(Choice) THEN \A i \in DOMAIN Choice.path : Named(Choice, i)
                     ELSE call.done = {} /\ ~call.answer

\* The invariant of careful callers.
IInv ==
  /\ Careful
  /\ TypeOK /\ OnPaths /\ MapsKept /\ AskedOnce /\ CallerWaits
  /\ AnswerIsLastLeg /\ DoneCounted /\ CancelNamesLegs /\ AbortNeedsMisfit

\* The grounds are a part of it.
LEMMA GroundsHold == IInv => Grounds
BY DEF IInv, Grounds

--------------------------------------------------------------------------------
(* Lists and travel solutions *)

\* A function on the positions of a list is a list of the same length.
LEMMA FunIsSeq ==
  ASSUME NEW S, NEW T, NEW s \in Seq(S), NEW f \in [DOMAIN s -> T]
  PROVE  f \in Seq(T) /\ DOMAIN f = DOMAIN s /\ Len(f) = Len(s)
<1>1. Len(s) \in Nat /\ DOMAIN s = 1 .. Len(s)
  BY LenProperties
<1>2. f \in [1 .. Len(s) -> T]
  BY <1>1
<1>3. f \in Seq(T)
  BY <1>1, <1>2, SeqDef
<1>4. DOMAIN f = 1 .. Len(f) /\ Len(f) \in Nat
  BY <1>3, LenProperties
<1> QED
  BY <1>1, <1>2, <1>3, <1>4

\* A path of the schedule is a non-empty list of distinct segments.
LEMMA PathFacts ==
  ASSUME NEW p \in Paths
  PROVE  /\ p \in Seq(Segments) /\ Len(p) \in Nat \ {0} /\ DOMAIN p = 1 .. Len(p)
         /\ \A i \in 1 .. Len(p) : p[i] \in Segments
         /\ \A i, j \in 1 .. Len(p) : p[i] = p[j] => i = j
<1>1. p \in Seq(Segments) /\ p # <<>> /\ \A i, j \in DOMAIN p : p[i] = p[j] => i = j
  BY PathsAssumption
<1>2. Len(p) \in Nat /\ DOMAIN p = 1 .. Len(p)
  BY <1>1, LenProperties
<1>3. Len(p) \in Nat \ {0}
  BY <1>1, EmptySeq
<1>4. \A i \in 1 .. Len(p) : p[i] \in Segments
  BY <1>1, ElementOfSeq
<1> QED
  BY <1>1, <1>2, <1>3, <1>4

\* The travel solution made from a path carries no maps, no fares and no chosen fare.
LEMMA UnpricedFacts ==
  ASSUME NEW p \in Seq(Segments)
  PROVE  /\ Unpriced(p) \in TravelSolution
         /\ Unpriced(p).path = p /\ Unpriced(p).held = <<>> /\ Mapped(Unpriced(p))
<1>1. \A S : <<>> \in Seq(S)
  BY EmptySeq
<1> QED
  BY <1>1 DEF Unpriced, TravelSolution, Mapped, Aligned, OnItinerary

\* The maps AirInv writes are of segments of the path, and of all its legs in their order
\* when the holder was empty and nothing was thrown.
LEMMA MapsFacts ==
  ASSUME NEW sol \in TravelSolution, sol.path \in Paths, OnItinerary(sol),
         NEW n \in 0 .. Len(sol.path), NEW maps \in MapsAfter(sol, n)
  PROVE  /\ maps \in Seq(Segments)
         /\ \A i \in DOMAIN maps : \E j \in DOMAIN sol.path : maps[i] = sol.path[j]
         /\ sol.held = <<>> /\ n = Len(sol.path) => maps = sol.path
<1> DEFINE part == SubSeq(sol.path, 1, n)
<1>1. /\ sol.path \in Seq(Segments) /\ sol.held \in Seq(Segments) /\ <<>> \in Seq(Segments)
      /\ Len(sol.path) \in Nat /\ DOMAIN sol.path = 1 .. Len(sol.path) /\ n \in Nat
  BY PathFacts, EmptySeq DEF TravelSolution
<1>2. /\ part \in Seq(Segments) /\ Len(part) = n
      /\ \A i \in 1 .. n : part[i] = sol.path[i]
  <2>1. \A i \in 1 .. n : sol.path[i] \in Segments
    BY <1>1, ElementOfSeq
  <2>2. \A i \in 1 .. n - 1 + 1 : part[i] = sol.path[1 + i - 1]
    BY <1>1, <2>1, SubSeqProperties
  <2> QED
    BY <1>1, <2>1, <2>2, SubSeqProperties
<1>3. PICK before \in {<<>>, sol.held} : maps = before \o part
  BY DEF MapsAfter
<1>4. /\ before \in Seq(Segments) /\ Len(before) \in Nat /\ DOMAIN before = 1 .. Len(before)
      /\ \A i \in DOMAIN before : \E j \in DOMAIN sol.path : before[i] = sol.path[j]
  <2>1. before \in Seq(Segments)
    BY <1>1, <1>3
  <2>2. CASE before = <<>>
    BY <2>1, <2>2, EmptySeq, LenProperties
  <2>3. CASE before = sol.held
    BY <2>1, <2>3, LenProperties DEF OnItinerary
  <2> QED
    BY <1>3, <2>2, <2>3
<1> HIDE DEF part
<1>5. /\ maps \in Seq(Segments) /\ Len(maps) = Len(before) + n /\ DOMAIN maps = 1 .. Len(maps)
      /\ \A i \in 1 .. Len(before) + n :
            maps[i] = IF i <= Len(before) THEN before[i] ELSE part[i - Len(before)]
  BY <1>2, <1>3, <1>4, ConcatProperties, LenProperties
<1>6. ASSUME NEW i \in DOMAIN maps
      PROVE  \E j \in DOMAIN sol.path : maps[i] = sol.path[j]
  <2>1. CASE i <= Len(before)
    BY <1>4, <1>5, <2>1
  <2>2. CASE i > Len(before)
    <3>1. i \in Nat /\ i <= Len(before) + n /\ i \in 1 .. Len(before) + n
      BY <1>1, <1>4, <1>5
    <3>2. i - Len(before) \in 1 .. n
      BY <1>1, <1>4, <2>2, <3>1
    <3>3. maps[i] = part[i - Len(before)]
      BY <1>4, <1>5, <2>2, <3>1
    <3> QED
      BY <1>1, <1>2, <3>2, <3>3
  <2> QED
    BY <1>1, <1>4, <1>5, <2>1, <2>2
<1>7. ASSUME sol.held = <<>>, n = Len(sol.path)
      PROVE  maps = sol.path
  <2>1. before = <<>> /\ part = sol.path
    BY <1>1, <1>3, <1>7, SubSeqFull DEF part
  <2> QED
    BY <1>1, <1>3, <2>1, ConcatEmptySeq
<1> QED
  BY <1>5, <1>6, <1>7

\* A call under way belongs to a trip.
LEMMA CallHasTrip ==
  ASSUME TypeOK, CallerWaits, call.op # "idle"
  PROVE  call.trip \in Trips /\ Choice \in TravelSolution
BY DEF TypeOK, CallerWaits, Choice, Call

\* Idle is a call record, and beginning a call gives a call record of its trip.
LEMMA IdleFacts ==
  /\ Idle \in Call
  /\ Idle.op = "idle" /\ Idle.trip = NoTrip /\ Idle.done = {}
BY DEF Idle, Entered, Call, Ops

\* Beginning a call gives the call record of its trip, at its first leg.
LEMMA BeginFacts ==
  ASSUME NEW o \in Ops, NEW t \in Trips, Begin(o, t)
  PROVE  /\ call = Idle
         /\ call' \in Call
         /\ call'.op = o /\ call'.trip = t /\ call'.leg = 1
         /\ call'.answer = FALSE /\ call'.done = {}
BY DEF Begin, Entered, Call, Ops

--------------------------------------------------------------------------------
(* Types *)

\* Taking or giving back a party keeps bookings between zero and capacity.
LEMMA SeatsStayBounded ==
  ASSUME TypeOK, NEW t \in Trips, NEW b, Take(t, b) \/ GiveBack(t, b)
  PROVE  /\ booked' \in [BookingClasses -> Nat]
         /\ \A x \in BookingClasses : booked'[x] <= Capacity[x]
<1>1. /\ Party[t] \in Nat \ {0}
      /\ \A x \in BookingClasses : Capacity[x] \in Nat /\ booked[x] \in Nat /\ booked[x] <= Capacity[x]
  BY PartyAssumption, CapacityAssumption DEF TypeOK
<1>2. booked \in [BookingClasses -> Nat]
  BY DEF TypeOK
<1>3. CASE Take(t, b)
  BY <1>1, <1>2, <1>3 DEF Take
<1>4. CASE GiveBack(t, b)
  BY <1>1, <1>2, <1>4 DEF GiveBack
<1> QED
  BY <1>3, <1>4

\* The answer of a leg keeps the call record and the beliefs well-formed.
LEMMA LegKeepsTypes ==
  ASSUME TypeOK, CallerWaits, call.op \in {"sell", "cancel"}, NEW b,
         AirInvSell(b) \/ AirInvCancel(b)
  PROVE  /\ booked' \in [BookingClasses -> Nat]
         /\ \A x \in BookingClasses : booked'[x] <= Capacity[x]
         /\ belief' \in [Trips -> Beliefs]
         /\ call' \in Call
<1>1. call.trip \in Trips /\ call \in Call /\ belief \in [Trips -> Beliefs]
  BY CallHasTrip DEF TypeOK
<1>2. Thrown => belief' \in [Trips -> Beliefs] /\ call' \in Call
  BY <1>1, IdleFacts DEF Thrown, Beliefs
<1>3. ASSUME NEW yes \in BOOLEAN, NEW changed \in SUBSET BookingClasses, NextLeg(yes, changed)
      PROVE  belief' \in [Trips -> Beliefs] /\ call' \in Call
  BY <1>1, <1>3 DEF NextLeg, Call
<1>4. CASE /\ Take(call.trip, b) \/ GiveBack(call.trip, b)
           /\ NextLeg(TRUE, {b}) \/ Thrown
  <2>1. b \in BookingClasses
    BY <1>4 DEF Take, GiveBack
  <2> QED
    BY <1>1, <1>2, <1>3, <1>4, <2>1, SeatsStayBounded
<1>5. CASE Refused
  BY <1>3, <1>5 DEF TypeOK, Refused
<1>6. CASE Thrown /\ UNCHANGED booked
  BY <1>2, <1>6 DEF TypeOK
<1> QED
  BY <1>4, <1>5, <1>6 DEF AirInvSell, AirInvCancel

\* The lists of travel solutions a call of the shopping part leaves behind.
LEMMA SearchedList ==
  ASSUME NEW l \in SearchLists
  PROVE  LET s == [i \in DOMAIN l |-> Unpriced(l[i])] IN
           /\ s \in Seq(TravelSolution) /\ DOMAIN s = DOMAIN l
           /\ \A i \in DOMAIN s : s[i].path \in Paths /\ Mapped(s[i])
<1> DEFINE s == [i \in DOMAIN l |-> Unpriced(l[i])]
<1>1. l \in Seq(Paths)
  BY SearchAssumption
<1>2. \A i \in DOMAIN l : l[i] \in Paths /\ l[i] \in Seq(Segments)
  BY <1>1, LenProperties, ElementOfSeq, PathsAssumption
<1>3. \A i \in DOMAIN l : /\ Unpriced(l[i]) \in TravelSolution
                          /\ Unpriced(l[i]).path = l[i] /\ Mapped(Unpriced(l[i]))
  BY <1>2, UnpricedFacts
<1>4. s \in [DOMAIN l -> TravelSolution]
  BY <1>3
<1>5. s \in Seq(TravelSolution) /\ DOMAIN s = DOMAIN l
  BY <1>1, <1>4, FunIsSeq
<1> QED
  BY <1>2, <1>3, <1>5

\* Pricing a list, or a part of it, changes neither its paths nor its maps.
LEMMA PricedList ==
  ASSUME NEW q \in Seq(TravelSolution), NEW S,
         \A i \in DOMAIN q : q[i].path \in Paths /\ Mapped(q[i])
  PROVE  LET s == [i \in DOMAIN q |-> IF i \in S THEN Priced(q[i]) ELSE q[i]] IN
           /\ s \in Seq(TravelSolution) /\ DOMAIN s = DOMAIN q
           /\ \A i \in DOMAIN s : s[i].path \in Paths /\ Mapped(s[i])
<1> DEFINE s == [i \in DOMAIN q |-> IF i \in S THEN Priced(q[i]) ELSE q[i]]
<1>1. \A i \in DOMAIN q : q[i] \in TravelSolution
  BY LenProperties, ElementOfSeq
<1>2. ASSUME NEW i \in DOMAIN q
      PROVE  /\ Priced(q[i]) \in TravelSolution
             /\ Priced(q[i]).path \in Paths /\ Mapped(Priced(q[i]))
  <2>1. Tariff[q[i].path] \in SUBSET Seq(Seq(Classes))
    BY TariffAssumption
  <2>2. q[i] \in TravelSolution
    BY <1>1
  <2>3. Priced(q[i]) \in TravelSolution
    BY <2>1, <2>2 DEF Priced, TravelSolution
  <2>4. Priced(q[i]).path = q[i].path /\ Priced(q[i]).held = q[i].held
    BY <2>2 DEF Priced, TravelSolution
  <2> QED
    BY <2>3, <2>4 DEF Mapped, Aligned, OnItinerary
<1>3. s \in [DOMAIN q -> TravelSolution]
  BY <1>1, <1>2
<1>4. s \in Seq(TravelSolution) /\ DOMAIN s = DOMAIN q
  BY <1>3, FunIsSeq
<1> QED
  BY <1>2, <1>4

\* An availability request, whole or interrupted, gives one solution of a list maps of
\* its path.
LEMMA RefreshedList ==
  ASSUME NEW q \in Seq(TravelSolution), NEW k \in DOMAIN q,
         \A i \in DOMAIN q : q[i].path \in Paths /\ Mapped(q[i]),
         NEW n \in 0 .. Len(q[k].path), NEW maps \in MapsAfter(q[k], n),
         Careful => q[k].held = <<>> /\ n = Len(q[k].path)
  PROVE  LET s == [q EXCEPT ![k].held = maps] IN
           /\ s \in Seq(TravelSolution) /\ DOMAIN s = DOMAIN q
           /\ \A i \in DOMAIN s : s[i].path \in Paths /\ Mapped(s[i])
<1> DEFINE s == [q EXCEPT ![k].held = maps]
           r == [q[k] EXCEPT !.held = maps]
<1>1. q[k] \in TravelSolution /\ q[k].path \in Paths /\ OnItinerary(q[k])
  BY LenProperties, ElementOfSeq DEF Mapped
<1>2. /\ maps \in Seq(Segments)
      /\ \A i \in DOMAIN maps : \E j \in DOMAIN q[k].path : maps[i] = q[k].path[j]
      /\ Careful => maps = q[k].path
  BY <1>1, MapsFacts
<1>3. r \in TravelSolution /\ r.path = q[k].path /\ r.held = maps
  BY <1>1, <1>2 DEF TravelSolution
<1>4. q \in [DOMAIN q -> TravelSolution] /\ s = [q EXCEPT ![k] = r]
  BY LenProperties
<1>5. s \in [DOMAIN q -> TravelSolution] /\ \A i \in DOMAIN q : s[i] = IF i = k THEN r ELSE q[i]
  BY <1>3, <1>4
<1>6. s \in Seq(TravelSolution) /\ DOMAIN s = DOMAIN q
  BY <1>5, FunIsSeq
<1>7. Mapped(r)
  BY <1>2, <1>3 DEF Mapped, Aligned, OnItinerary
<1> QED
  BY <1>1, <1>3, <1>5, <1>6, <1>7

\* What a trip's list is known to be.
GoodList(q) ==
  /\ q \in Seq(TravelSolution)
  /\ \A i \in DOMAIN q : q[i].path \in Paths /\ Mapped(q[i])

\* The solution an availability request has come to.
LEMMA RequestAt ==
  ASSUME Grounds, call.op = "avail", call.leg <= Len(solutions[call.trip])
  PROVE  /\ call.trip \in Trips /\ GoodList(solutions[call.trip])
         /\ call.leg \in DOMAIN solutions[call.trip]
         /\ Careful => solutions[call.trip][call.leg].held = <<>>
         /\ Len(solutions[call.trip][call.leg].path) \in Nat
<1>1. call.trip \in Trips /\ call.leg \in Nat \ {0}
  BY CallHasTrip DEF Grounds, TypeOK, Call
<1>2. GoodList(solutions[call.trip])
  BY <1>1 DEF Grounds, TypeOK, OnPaths, MapsKept, GoodList
<1>3. call.leg \in DOMAIN solutions[call.trip]
  BY <1>1, <1>2, LenProperties DEF GoodList
<1>4. Careful => solutions[call.trip][call.leg].held = <<>>
  BY <1>1, <1>3 DEF Grounds, AskedOnce
<1>5. Len(solutions[call.trip][call.leg].path) \in Nat
  BY <1>2, <1>3, PathFacts DEF GoodList
<1> QED
  BY <1>1, <1>2, <1>3, <1>4, <1>5

\* The lists stay well-formed, on the schedule and mapped, through every step.
LEMMA ListsStep ==
  ASSUME Grounds, [Next]_vars
  PROVE  solutions' \in [Trips -> Seq(TravelSolution)] /\ \A t \in Trips : GoodList(solutions'[t])
<1>1. /\ solutions \in [Trips -> Seq(TravelSolution)]
      /\ \A t \in Trips : GoodList(solutions[t])
  BY DEF Grounds, TypeOK, OnPaths, MapsKept, GoodList
<1>2. CASE UNCHANGED solutions
  BY <1>1, <1>2
<1>3. ASSUME NEW t \in Trips, NEW q, GoodList(q), solutions' = [solutions EXCEPT ![t] = q]
      PROVE  /\ solutions' \in [Trips -> Seq(TravelSolution)]
             /\ \A u \in Trips : GoodList(solutions'[u])
  <2>1. q \in Seq(TravelSolution)
    BY <1>3 DEF GoodList
  <2>2. \A u \in Trips : solutions'[u] = IF u = t THEN q ELSE solutions[u]
    BY <1>1, <1>3
  <2> QED
    BY <1>1, <1>3, <2>1, <2>2
<1>4. ASSUME NEW t \in Trips, CalculateSegmentPathList(t)
      PROVE  \E q : GoodList(q) /\ solutions' = [solutions EXCEPT ![t] = q]
  <2>1. PICK l \in SearchLists : solutions' = [solutions EXCEPT ![t] = [i \in DOMAIN l |-> Unpriced(l[i])]]
    BY <1>4 DEF CalculateSegmentPathList
  <2> QED
    BY <2>1, SearchedList DEF GoodList
<1>5. ASSUME NEW t \in Trips, FareQuote(t) \/ FareQuoteThrow(t)
      PROVE  \E q : GoodList(q) /\ solutions' = [solutions EXCEPT ![t] = q]
  <2>1. PICK S : PriceOnly(t, S)
    BY <1>5 DEF FareQuote, FareQuoteThrow
  <2> DEFINE q == [i \in DOMAIN solutions[t] |->
                     IF i \in S THEN Priced(solutions[t][i]) ELSE solutions[t][i]]
  <2>2. solutions' = [solutions EXCEPT ![t] = q]
    BY <1>1, <2>1 DEF PriceOnly
  <2>3. GoodList(q)
    BY <1>1, PricedList DEF GoodList
  <2> QED
    BY <2>2, <2>3
<1>6. ASSUME AvailabilitySolution \/ AvailabilityThrow
      PROVE  \E t \in Trips : \E q : GoodList(q) /\ solutions' = [solutions EXCEPT ![t] = q]
  <2> DEFINE t == call.trip
             sol == solutions[t][call.leg]
  <2>1. call.op = "avail" /\ call.leg <= Len(solutions[t])
    BY <1>6 DEF AvailabilitySolution, AvailabilityThrow
  <2>2. /\ t \in Trips /\ GoodList(solutions[t]) /\ call.leg \in DOMAIN solutions[t]
        /\ Careful => sol.held = <<>>
        /\ Len(sol.path) \in Nat
    BY <2>1, RequestAt
  <2>3. CASE AvailabilityThrow /\ Careful
    <3>1. solutions' = [solutions EXCEPT ![t] = <<>>] /\ GoodList(<<>>)
      BY <2>3, EmptySeq, LenProperties DEF AvailabilityThrow, GoodList
    <3> QED
      BY <2>2, <3>1
  <2>4. CASE AvailabilitySolution \/ ~Careful
    <3>0. PICK n \in 0 .. Len(sol.path) :
             /\ Careful => n = Len(sol.path)
             /\ \E maps \in MapsAfter(sol, n) :
                   solutions' = [solutions EXCEPT ![t][call.leg].held = maps]
      <4>1. CASE AvailabilitySolution
        <5>1. \E maps \in MapsAfter(sol, Len(sol.path)) :
                 solutions' = [solutions EXCEPT ![t][call.leg].held = maps]
          BY <4>1 DEF AvailabilitySolution
        <5>2. Len(sol.path) \in 0 .. Len(sol.path)
          BY <2>2
        <5> QED
          BY <5>1, <5>2
      <4>2. CASE AvailabilityThrow /\ ~Careful
        BY <4>2 DEF AvailabilityThrow
      <4> QED
        BY <1>6, <2>4, <4>1, <4>2
    <3>1. PICK maps \in MapsAfter(sol, n) :
             solutions' = [solutions EXCEPT ![t][call.leg].held = maps]
      BY <3>0
    <3> DEFINE q == [solutions[t] EXCEPT ![call.leg].held = maps]
    <3>2. GoodList(q)
      BY <2>2, <3>0, RefreshedList DEF GoodList
    <3>3. solutions' = [solutions EXCEPT ![t] = q]
      BY <3>1
    <3> QED
      BY <2>2, <3>2, <3>3
  <2> QED
    BY <1>6, <2>3, <2>4
<1>7. CASE \/ AvailabilityReturn
           \/ SellLegById \/ SellLegByKey \/ SellAbort \/ SellReturn
           \/ CancelLeg \/ CancelReturn
           \/ \E t \in Trips : \/ AvailabilityBegin(t) \/ ChooseFare(t) \/ ChooseSegment(t)
                              \/ SellBegin(t) \/ SellSegment(t) \/ CancelBegin(t)
           \/ UNCHANGED vars
  BY <1>2, <1>7
  DEF AvailabilityReturn, SellLegById, SellLegByKey, SellAbort,
      SellReturn, CancelLeg, CancelReturn, AvailabilityBegin, ChooseFare, ChooseSegment,
      SellBegin, SellSegment, CancelBegin, vars
<1> QED
  BY <1>3, <1>4, <1>5, <1>6, <1>7 DEF Next, CallStep, CallerStep

\* What the caller settles on is a travel solution of the schedule, with its maps aligned.
LEMMA ChosenSolution ==
  ASSUME Grounds, NEW t \in Trips, ChooseFare(t) \/ ChooseSegment(t)
  PROVE  /\ call = Idle /\ UNCHANGED <<booked, solutions, call>>
         /\ belief[t] = "looking" /\ belief' = [belief EXCEPT ![t] = "open"]
         /\ \E sol \in TravelSolution :
              /\ sol.path \in Paths /\ Mapped(sol)
              /\ choice' = [choice EXCEPT ![t] = sol]
<1>1. CASE ChooseFare(t)
  <2>1. PICK i \in DOMAIN solutions[t] : \E cp \in solutions[t][i].fares :
           choice' = [choice EXCEPT ![t] = [solutions[t][i] EXCEPT !.classPath = cp]]
    BY <1>1 DEF ChooseFare
  <2>2. PICK cp \in solutions[t][i].fares :
           choice' = [choice EXCEPT ![t] = [solutions[t][i] EXCEPT !.classPath = cp]]
    BY <2>1
  <2> DEFINE sol == [solutions[t][i] EXCEPT !.classPath = cp]
  <2>3. /\ solutions[t][i] \in TravelSolution /\ solutions[t][i].path \in Paths
        /\ Mapped(solutions[t][i])
    BY LenProperties, ElementOfSeq DEF Grounds, TypeOK, OnPaths, MapsKept
  <2>4. /\ sol \in TravelSolution
        /\ sol.held = solutions[t][i].held /\ sol.path = solutions[t][i].path
    BY <2>3 DEF TravelSolution
  <2>5. Mapped(sol)
    BY <2>3, <2>4 DEF Mapped, Aligned, OnItinerary
  <2> QED
    BY <1>1, <2>2, <2>3, <2>4, <2>5 DEF ChooseFare
<1>2. CASE ChooseSegment(t)
  <2>1. PICK p \in Paths, c \in Classes :
           choice' = [choice EXCEPT ![t] = [Unpriced(p) EXCEPT !.classPath = << <<c>> >>]]
    BY <1>2 DEF ChooseSegment
  <2> DEFINE sol == [Unpriced(p) EXCEPT !.classPath = << <<c>> >>]
  <2>2. Unpriced(p) \in TravelSolution
    BY PathFacts, UnpricedFacts
  <2>3. << <<c>> >> \in Seq(Seq(Classes))
    OBVIOUS
  <2>4. sol \in TravelSolution
    BY <2>2, <2>3 DEF TravelSolution
  <2>5. sol.path = p /\ sol.held = <<>>
    BY DEF Unpriced
  <2>6. Mapped(sol)
    BY <2>5, EmptySeq, LenProperties DEF Mapped, Aligned, OnItinerary
  <2> QED
    BY <1>2, <2>1, <2>4, <2>5, <2>6 DEF ChooseSegment
<1> QED
  BY <1>1, <1>2

\* Every step keeps the types.
LEMMA TypesStep ==
  ASSUME Grounds, [Next]_vars
  PROVE  TypeOK'
<1> USE DEF Grounds
<1>1. solutions' \in [Trips -> Seq(TravelSolution)]
  BY ListsStep
<1>2. TypeOK
  OBVIOUS
<1>3. ASSUME NEW t \in Trips,
             CalculateSegmentPathList(t) \/ FareQuote(t) \/ FareQuoteThrow(t)
      PROVE  TypeOK'
  BY <1>1, <1>2, <1>3
  DEF TypeOK, CalculateSegmentPathList, FareQuote, FareQuoteThrow, PriceOnly
<1>4. ASSUME NEW t \in Trips, NEW o \in Ops, Begin(o, t), UNCHANGED <<booked, choice, belief>>
      PROVE  TypeOK'
  BY <1>1, <1>2, <1>4, BeginFacts DEF TypeOK
<1>5. ASSUME NEW t \in Trips, AvailabilityBegin(t) \/ SellBegin(t) \/ CancelBegin(t)
      PROVE  TypeOK'
  BY <1>4, <1>5 DEF AvailabilityBegin, SellBegin, CancelBegin, Ops
<1>6. CASE AvailabilitySolution
  <2>1. call \in Call /\ call' = [call EXCEPT !.leg = call.leg + 1]
    BY <1>2, <1>6 DEF AvailabilitySolution, TypeOK
  <2>2. call.leg + 1 \in Nat \ {0}
    BY <2>1 DEF Call
  <2>3. call' \in Call
    BY <2>1, <2>2 DEF Call
  <2> QED
    BY <1>1, <1>2, <1>6, <2>3 DEF AvailabilitySolution, TypeOK
<1>7. CASE AvailabilityThrow \/ AvailabilityReturn
  BY <1>1, <1>2, <1>7, IdleFacts DEF AvailabilityThrow, AvailabilityReturn, TypeOK
<1>8. ASSUME NEW t \in Trips, ChooseFare(t) \/ ChooseSegment(t)
      PROVE  TypeOK'
  BY <1>1, <1>2, <1>8, ChosenSolution DEF TypeOK, Beliefs
<1>9. CASE SellLegById \/ SellLegByKey \/ CancelLeg
  <2>1. /\ call.op \in {"sell", "cancel"} /\ UNCHANGED choice
        /\ \E b : AirInvSell(b) \/ AirInvCancel(b)
    BY <1>9 DEF SellLegById, SellLegByKey, CancelLeg, InSellLoop
  <2> QED
    BY <1>1, <1>2, <2>1, LegKeepsTypes DEF TypeOK
<1>10. CASE SellAbort
  <2>1. call' \in Call
    BY <1>2, <1>10 DEF SellAbort, TypeOK, Call, Ops
  <2> QED
    BY <1>1, <1>2, <1>10, <2>1 DEF SellAbort, TypeOK
<1>11. CASE SellReturn \/ CancelReturn
  BY <1>1, <1>2, <1>11, IdleFacts DEF SellReturn, CancelReturn, TypeOK, Beliefs
<1>12. ASSUME NEW t \in Trips, SellSegment(t)
       PROVE  TypeOK'
  <2>1. belief' \in [Trips -> Beliefs] /\ UNCHANGED <<choice, call>>
    BY <1>2, <1>12 DEF SellSegment, TypeOK, Beliefs
  <2>2. UNCHANGED booked \/ \E b : Take(t, b)
    BY <1>12 DEF SellSegment
  <2> QED
    BY <1>1, <1>2, <2>1, <2>2, SeatsStayBounded DEF TypeOK
<1>13. CASE UNCHANGED vars
  BY <1>2, <1>13 DEF vars, TypeOK
<1> QED
  BY <1>3, <1>5, <1>6, <1>7, <1>8, <1>9, <1>10, <1>11, <1>12, <1>13
  DEF Next, CallStep, CallerStep

--------------------------------------------------------------------------------
(* The parts of the inductive invariant *)

\* No step brings a path into a list that is not of the schedule.
LEMMA ScheduleStep ==
  ASSUME Grounds, [Next]_vars
  PROVE  OnPaths'
BY ListsStep DEF OnPaths, GoodList

\* The maps written are of the solution's own path, and a caller's choice is one of the
\* solutions of its list.
LEMMA MapsStep ==
  ASSUME Grounds, [Next]_vars
  PROVE  MapsKept'
<1>1. \A t \in Trips : \A i \in DOMAIN solutions'[t] : Mapped(solutions'[t][i])
  BY ListsStep DEF GoodList
<1>2. /\ \A t \in Trips : Mapped(choice[t])
      /\ choice \in [Trips -> TravelSolution]
  BY DEF Grounds, MapsKept, TypeOK
<1>3. CASE UNCHANGED choice
  BY <1>1, <1>2, <1>3 DEF MapsKept, Mapped, Aligned, OnItinerary
<1>4. ASSUME NEW t \in Trips, ChooseFare(t) \/ ChooseSegment(t)
      PROVE  MapsKept'
  <2>1. PICK sol \in TravelSolution : Mapped(sol) /\ choice' = [choice EXCEPT ![t] = sol]
    BY <1>4, ChosenSolution
  <2>2. \A u \in Trips : choice'[u] = IF u = t THEN sol ELSE choice[u]
    BY <1>2, <2>1
  <2> QED
    BY <1>1, <1>2, <2>1, <2>2 DEF MapsKept, Mapped, Aligned, OnItinerary
<1>5. UNCHANGED choice \/ \E t \in Trips : ChooseFare(t) \/ ChooseSegment(t)
  BY DEF Next, CallStep, CallerStep, AvailabilityThrow, AvailabilityReturn, SellLegById,
         SellLegByKey, SellAbort, SellReturn, CancelLeg, CancelReturn, AvailabilityBegin,
         SellBegin, SellSegment, CancelBegin, CalculateSegmentPathList, FareQuote,
         FareQuoteThrow, PriceOnly, AvailabilitySolution, vars
<1> QED
  BY <1>3, <1>4, <1>5

\* A careful caller asks availability of a list without maps, and the request fills it
\* from the first solution on.
LEMMA AskedStep ==
  ASSUME Grounds, [Next]_vars
  PROVE  AskedOnce'
<1>1. /\ AskedOnce /\ call \in Call /\ solutions \in [Trips -> Seq(TravelSolution)]
      /\ call.op # "idle" => call.trip \in Trips
  BY CallHasTrip DEF Grounds, TypeOK
<1>2. CASE call'.op # "avail" \/ ~Careful
  BY <1>2 DEF AskedOnce
<1>3. ASSUME Careful, NEW t \in Trips, AvailabilityBegin(t)
      PROVE  AskedOnce'
  <2>1. call'.trip = t /\ solutions' = solutions
    BY <1>3, BeginFacts DEF AvailabilityBegin, Ops
  <2>2. ASSUME NEW i \in DOMAIN solutions[t]
        PROVE  solutions[t][i].held = <<>>
    <3>1. solutions[t][i] \in TravelSolution
      BY <1>1, LenProperties, ElementOfSeq
    <3>2. Len(solutions[t][i].held) <= 0
      BY <1>3 DEF AvailabilityBegin, MayAskAvailability
    <3> QED
      BY <3>1, <3>2, LenProperties, EmptySeq DEF TravelSolution
  <2> QED
    BY <2>1, <2>2 DEF AskedOnce
<1>4. ASSUME Careful, AvailabilitySolution
      PROVE  AskedOnce'
  <2> DEFINE t == call.trip
  <2>1. call.op = "avail" /\ t \in Trips /\ call.leg \in Nat
    BY <1>1, <1>4 DEF AvailabilitySolution, Call
  <2>2. call'.trip = t /\ call'.leg = call.leg + 1
    BY <1>1, <1>4 DEF AvailabilitySolution, Call
  <2>3. PICK maps : solutions' = [solutions EXCEPT ![t][call.leg].held = maps]
    BY <1>4 DEF AvailabilitySolution
  <2>4. /\ DOMAIN solutions'[t] = DOMAIN solutions[t]
        /\ \A i \in DOMAIN solutions[t] : i # call.leg => solutions'[t][i] = solutions[t][i]
    BY <1>1, <2>1, <2>3
  <2>5. \A i \in DOMAIN solutions[t] : i \in Nat
    BY <1>1, <2>1, LenProperties
  <2>6. \A i \in DOMAIN solutions[t] : i >= call.leg + 1 => solutions'[t][i].held = <<>>
    BY <1>1, <1>4, <2>1, <2>4, <2>5 DEF AskedOnce
  <2> HIDE DEF t
  <2> QED
    BY <2>2, <2>4, <2>6 DEF AskedOnce
<1>5. CASE UNCHANGED vars
  BY <1>1, <1>5 DEF vars, AskedOnce
<1>6. \/ call'.op # "avail" \/ AvailabilitySolution \/ UNCHANGED vars
      \/ \E t \in Trips : AvailabilityBegin(t)
  <2>1. CASE CallStep
    <3>1. ASSUME NEW yes, NEW changed, NextLeg(yes, changed)
          PROVE  call'.op = call.op
      BY <3>1 DEF NextLeg
    <3>2. SellAbort => call'.op = "abort"
      BY <1>1 DEF SellAbort, Call
    <3> QED
      BY <2>1, <3>1, <3>2, IdleFacts
      DEF CallStep, AvailabilityThrow, AvailabilityReturn, SellLegById, SellLegByKey,
          SellReturn, CancelLeg, CancelReturn, InSellLoop, AirInvSell, AirInvCancel,
          Refused, Thrown
  <2>2. ASSUME NEW t \in Trips, CallerStep(t), ~AvailabilityBegin(t)
        PROVE  call'.op # "avail"
    BY <2>2, IdleFacts, BeginFacts
    DEF CallerStep, CalculateSegmentPathList, FareQuote, FareQuoteThrow, PriceOnly,
        ChooseFare, ChooseSegment, SellBegin, SellSegment, CancelBegin, Ops
  <2> QED
    BY <2>1, <2>2 DEF Next
<1> QED
  BY <1>2, <1>3, <1>4, <1>5, <1>6

\* A trip whose call is under way is the one its caller believed it to be.
LEMMA CallersStep ==
  ASSUME Grounds, [Next]_vars
  PROVE  CallerWaits'
<1>1. CallerWaits /\ TypeOK /\ OnPaths
  BY DEF Grounds
<1>2. call \in Call /\ belief \in [Trips -> Beliefs] /\ choice \in [Trips -> TravelSolution]
  BY <1>1 DEF TypeOK
<1>3. ASSUME NEW t \in Trips, NEW o \in {"avail", "sell", "cancel"}, Begin(o, t),
             o # "avail" => belief[t] # "looking",
             Careful /\ o = "sell" => belief[t] = "open",
             Careful /\ o = "cancel" => belief[t] = "booked",
             UNCHANGED <<choice, belief>>
      PROVE  CallerWaits'
  BY <1>1, <1>3, BeginFacts, TripsAssumption DEF CallerWaits, Ops
<1>4. ASSUME NEW t \in Trips, AvailabilityBegin(t) \/ SellBegin(t) \/ CancelBegin(t)
      PROVE  CallerWaits'
  BY <1>3, <1>4 DEF AvailabilityBegin, SellBegin, CancelBegin, MaySell, MayCancel
<1>5. ASSUME call' = Idle, UNCHANGED choice,
             \A t \in Trips : belief'[t] = "looking" <=> belief[t] = "looking"
      PROVE  CallerWaits'
  BY <1>1, <1>5, IdleFacts DEF CallerWaits
<1>6. CASE AvailabilitySolution
  <2>1. call'.op = call.op /\ call'.trip = call.trip /\ call.op = "avail"
    BY <1>2, <1>6 DEF AvailabilitySolution, Call
  <2> QED
    BY <1>1, <1>6, <2>1 DEF AvailabilitySolution, CallerWaits
<1>7. CASE AvailabilityThrow \/ AvailabilityReturn
  BY <1>5, <1>7 DEF AvailabilityThrow, AvailabilityReturn
<1>8. CASE SellLegById \/ SellLegByKey \/ CancelLeg
  <2>1. /\ call.op \in {"sell", "cancel"} /\ UNCHANGED choice
        /\ \E b : AirInvSell(b) \/ AirInvCancel(b)
    BY <1>8 DEF SellLegById, SellLegByKey, CancelLeg, InSellLoop
  <2>2. call.trip \in Trips /\ belief[call.trip] # "looking"
    BY <1>1, <2>1, CallHasTrip DEF CallerWaits
  <2>3. ASSUME NEW yes, NEW changed, NextLeg(yes, changed)
        PROVE  CallerWaits'
    <3>1. call'.op = call.op /\ call'.trip = call.trip /\ belief' = belief
      BY <2>3 DEF NextLeg
    <3> QED
      BY <1>1, <2>1, <3>1 DEF CallerWaits
  <2>4. CASE Thrown
    <3>1. \A t \in Trips : belief'[t] = "looking" <=> belief[t] = "looking"
      BY <1>2, <2>2, <2>4 DEF Thrown
    <3> QED
      BY <1>5, <2>1, <2>4, <3>1 DEF Thrown
  <2> QED
    BY <2>1, <2>3, <2>4 DEF AirInvSell, AirInvCancel, Refused
<1>9. CASE SellAbort
  <2>1. call'.op = "abort" /\ call'.trip = call.trip /\ call.op = "sell"
    BY <1>2, <1>9 DEF SellAbort, InSellLoop, Call
  <2> QED
    BY <1>1, <1>9, <2>1 DEF SellAbort, CallerWaits
<1>10. CASE SellReturn \/ CancelReturn
  <2>1. call.op \in {"sell", "cancel"}
    BY <1>10 DEF SellReturn, CancelReturn
  <2>2. call.trip \in Trips /\ belief[call.trip] # "looking"
    BY <1>1, <2>1, CallHasTrip DEF CallerWaits
  <2>3. \A t \in Trips : belief'[t] = "looking" <=> belief[t] = "looking"
    BY <1>2, <1>10, <2>2 DEF SellReturn, CancelReturn
  <2> QED
    BY <1>5, <1>10, <2>3 DEF SellReturn, CancelReturn
<1>11. ASSUME NEW t \in Trips,
              CalculateSegmentPathList(t) \/ FareQuote(t) \/ FareQuoteThrow(t)
       PROVE  CallerWaits'
  BY <1>1, <1>11
  DEF CalculateSegmentPathList, FareQuote, FareQuoteThrow, PriceOnly, CallerWaits
<1>12. ASSUME NEW t \in Trips, ChooseFare(t) \/ ChooseSegment(t)
       PROVE  CallerWaits'
  BY <1>1, <1>2, <1>12, ChosenSolution, IdleFacts DEF CallerWaits
<1>13. ASSUME NEW t \in Trips, SellSegment(t)
       PROVE  CallerWaits'
  <2>1. /\ call = Idle /\ call' = Idle /\ UNCHANGED choice /\ belief[t] # "looking"
        /\ \/ UNCHANGED belief
           \/ \E told \in {"booked", "unknown"} : belief' = [belief EXCEPT ![t] = told]
    BY <1>13 DEF SellSegment, MaySell
  <2>2. \A u \in Trips : belief'[u] = "looking" <=> belief[u] = "looking"
    BY <1>2, <2>1
  <2> QED
    BY <1>5, <2>1, <2>2
<1>14. CASE UNCHANGED vars
  BY <1>1, <1>14 DEF vars, CallerWaits
<1> QED
  BY <1>4, <1>6, <1>7, <1>8, <1>9, <1>10, <1>11, <1>12, <1>13, <1>14
  DEF Next, CallStep, CallerStep

\* Every step keeps the grounds, whatever the bookings were.
LEMMA GroundsStep ==
  ASSUME Grounds, [Next]_vars
  PROVE  Grounds'
<1>1. TypeOK'
  BY TypesStep
<1>2. OnPaths' /\ MapsKept' /\ AskedOnce'
  BY ScheduleStep, MapsStep, AskedStep
<1>3. CallerWaits'
  BY CallersStep
<1> QED
  BY <1>1, <1>2, <1>3 DEF Grounds

\* With its maps aligned, either loop of a sale runs over the legs of the itinerary.
LEMMA AlignedLegs ==
  ASSUME NEW sol \in TravelSolution, sol.path \in Paths, Aligned(sol)
  PROVE  /\ Legs(sol) = sol.path /\ LoopLength(sol) = Len(sol.path)
         /\ ByIds(sol) => sol.held = sol.path
BY DEF Aligned, Legs, LoopLength, ByIds

LEMMA LoopIsPath ==
  ASSUME IInv, NEW t \in Trips, belief[t] # "looking"
  PROVE  /\ choice[t].path \in Paths
         /\ Legs(choice[t]) = choice[t].path
         /\ LoopLength(choice[t]) = Len(choice[t].path)
         /\ ByIds(choice[t]) => choice[t].held = choice[t].path
<1>1. choice[t].path \in Paths /\ Aligned(choice[t]) /\ choice[t] \in TravelSolution
  BY DEF IInv, CallerWaits, MapsKept, Mapped, TypeOK
<1> QED
  BY <1>1, AlignedLegs

\* One turn of a sale or cancellation loop asks AirInv about one class of the leg it
\* has reached, a leg of the itinerary.
LegTurn(b) ==
  /\ call.op \in {"sell", "cancel"} /\ call.trip \in Trips
  /\ UNCHANGED <<solutions, choice>>
  /\ Choice.path \in Paths /\ call.leg \in 1 .. Len(Choice.path)
  /\ Legs(Choice) = Choice.path
  /\ b \in BookingClasses => b \in LegBookings(Choice, call.leg)
  /\ IF call.op = "sell" THEN AirInvSell(b) ELSE ByIds(Choice) /\ AirInvCancel(b)

\* Each of the three loops asks AirInv for the class of the leg it has reached.
LEMMA LegTurns ==
  ASSUME IInv, SellLegById \/ SellLegByKey \/ CancelLeg
  PROVE  \E b : LegTurn(b)
<1>1. /\ call.op \in {"sell", "cancel"} /\ UNCHANGED <<solutions, choice>>
      /\ call.leg \in Nat \ {0}
  BY DEF SellLegById, SellLegByKey, InSellLoop, CancelLeg, IInv, TypeOK, Call
<1>2. call.trip \in Trips /\ belief[call.trip] # "looking"
  BY <1>1, CallHasTrip DEF IInv, CallerWaits
<1>3. /\ Choice.path \in Paths /\ LoopLength(Choice) = Len(Choice.path)
      /\ Len(Choice.path) \in Nat /\ Legs(Choice) = Choice.path
      /\ ByIds(Choice) => Choice.held = Choice.path
  BY <1>2, LoopIsPath, PathFacts DEF Choice
<1>4. CASE SellLegById \/ SellLegByKey
  <2>1. PICK c \in LegClass(Choice, call.leg) : AirInvSell(<<Choice.path[call.leg], c>>)
    BY <1>3, <1>4 DEF SellLegById, SellLegByKey
  <2>2. call.op = "sell" /\ call.leg \in 1 .. Len(Choice.path)
    BY <1>1, <1>3, <1>4 DEF SellLegById, SellLegByKey, InSellLoop
  <2> QED
    BY <1>1, <1>2, <1>3, <2>1, <2>2 DEF LegTurn, LegBookings
<1>5. CASE CancelLeg
  <2>1. ByIds(Choice) /\ call.op = "cancel"
    BY <1>1, <1>5, EmptySeq DEF CancelLeg, ClassIdList
  <2>2. /\ ClassIdList(Choice) = [i \in DOMAIN Choice.path |-> <<Choice.path[i], Choice.classPath[i][1]>>]
        /\ DOMAIN Choice.path = 1 .. Len(Choice.path)
        /\ Choice.path \in Seq(Segments)
    BY <1>3, <2>1, PathFacts DEF ClassIdList
  <2>3. ClassIdList(Choice) \in [DOMAIN Choice.path -> {ClassIdList(Choice)[i] : i \in DOMAIN Choice.path}]
    BY <2>2
  <2>4. Len(ClassIdList(Choice)) = Len(Choice.path)
    BY <2>2, <2>3, FunIsSeq
  <2>5. call.leg \in 1 .. Len(Choice.path)
    BY <1>1, <1>3, <1>5, <2>4 DEF CancelLeg
  <2> DEFINE b == <<Choice.path[call.leg], Choice.classPath[call.leg][1]>>
  <2>6. AirInvCancel(b)
    BY <1>5, <2>2, <2>5 DEF CancelLeg
  <2>7. Named(Choice, call.leg)
    BY <2>1, <2>2, <2>5 DEF IInv, CancelNamesLegs
  <2>8. b \in BookingClasses => b[2] \in Classes
    BY DEF BookingClasses
  <2>9. b \in BookingClasses => b \in LegBookings(Choice, call.leg)
    BY <1>3, <2>7, <2>8 DEF LegBookings, LegClass, Named
  <2> QED
    BY <1>1, <1>2, <1>3, <2>1, <2>5, <2>6, <2>9 DEF LegTurn
<1> QED
  BY <1>4, <1>5

\* An itinerary flies each segment once, so the class of the leg a call has reached is
\* not among those it has already changed.
LEMMA LegIsFresh ==
  ASSUME IInv, NEW b, LegTurn(b)
  PROVE  \A x \in call.done : x[1] # Choice.path[call.leg]
<1>1. /\ call.leg \in 1 .. Len(Choice.path) /\ Choice.path \in Paths
      /\ Legs(Choice) = Choice.path
  BY DEF LegTurn
<1>2. ASSUME NEW x \in call.done
      PROVE  x[1] # Choice.path[call.leg]
  <2>1. PICK i \in 1 .. call.leg - 1 : x \in LegBookings(Choice, i)
    BY DEF IInv, AnswerIsLastLeg, LegTurn
  <2>2. x[1] = Choice.path[i] /\ i \in 1 .. Len(Choice.path) /\ i # call.leg
    BY <1>1, <2>1, PathFacts DEF LegBookings
  <2> QED
    BY <1>1, <2>2, PathFacts
<1> QED
  BY <1>2

\* What a step can do to the call under way.
LEMMA CallMoves ==
  ASSUME IInv, [Next]_vars
  PROVE  \/ call'.op = "idle" /\ call'.done = {}
         \/ \E t \in Trips : Begin("avail", t)
         \/ \E t \in Trips : SellBegin(t) \/ CancelBegin(t)
         \/ AvailabilitySolution
         \/ \E b : LegTurn(b)
         \/ SellAbort
         \/ UNCHANGED vars
<1>1. CASE CallStep
  BY <1>1, IdleFacts, LegTurns
  DEF CallStep, AvailabilityThrow, AvailabilityReturn, SellReturn, CancelReturn
<1>2. ASSUME NEW t \in Trips, CallerStep(t)
      PROVE  \/ call' = Idle
             \/ Begin("avail", t) \/ SellBegin(t) \/ CancelBegin(t)
  BY <1>2
  DEF CallerStep, CalculateSegmentPathList, FareQuote, FareQuoteThrow, PriceOnly,
      AvailabilityBegin, ChooseFare, ChooseSegment, SellSegment
<1> QED
  BY <1>1, <1>2, IdleFacts DEF Next

\* One turn of the loop moves to the next leg, or gives up with no call left.
LEMMA TurnOutcomes ==
  ASSUME IInv, NEW b, LegTurn(b)
  PROVE  \/ call' = Idle /\ belief' = [belief EXCEPT ![call.trip] = "unknown"]
         \/ NextLeg(FALSE, {}) /\ UNCHANGED booked
         \/ /\ b \in BookingClasses /\ NextLeg(TRUE, {b})
            /\ IF call.op = "sell" THEN Take(call.trip, b) ELSE GiveBack(call.trip, b)
BY DEF LegTurn, AirInvSell, AirInvCancel, Thrown, Refused, Take, GiveBack

\* The answer of a call stays that of the last leg visited.
LEMMA AnswerStep ==
  ASSUME IInv, [Next]_vars
  PROVE  AnswerIsLastLeg'
<1>1. AnswerIsLastLeg /\ call \in Call
  BY DEF IInv, TypeOK
<1>2. CASE call'.op \in {"idle", "avail"}
  BY <1>2 DEF AnswerIsLastLeg
<1>3. ASSUME NEW t \in Trips, SellBegin(t) \/ CancelBegin(t)
      PROVE  AnswerIsLastLeg'
  <2>1. call'.leg = 1 /\ call'.answer = FALSE /\ call'.done = {} /\ call'.trip = t
        /\ choice' = choice
    BY <1>3, BeginFacts DEF SellBegin, CancelBegin, Ops
  <2>2. belief[t] # "looking"
    BY <1>3 DEF SellBegin, CancelBegin, MaySell, MayCancel
  <2>3. Len(choice[t].path) \in Nat
    BY <2>2, LoopIsPath, PathFacts
  <2> QED
    BY <2>1, <2>3 DEF AnswerIsLastLeg, Choice
<1>4. ASSUME NEW b, LegTurn(b), NEW yes \in BOOLEAN, NEW changed,
             NextLeg(yes, changed), changed = IF yes THEN {b} ELSE {},
             yes => b \in BookingClasses
      PROVE  AnswerIsLastLeg'
  <2>1. /\ call'.op = call.op /\ call'.trip = call.trip /\ call'.leg = call.leg + 1
        /\ call'.answer = yes /\ call'.done = call.done \cup changed
        /\ choice' = choice /\ Choice' = Choice
    BY <1>4 DEF NextLeg, LegTurn, Choice
  <2>2. /\ call.leg \in Nat \ {0} /\ call.leg <= Len(Choice.path) /\ Len(Choice.path) \in Nat
        /\ call.op \in {"sell", "cancel"}
    BY <1>1, <1>4, PathFacts DEF LegTurn, Call
  <2>3. call'.leg - 1 = call.leg
    BY <2>1, <2>2
  <2>4. yes => b \in LegBookings(Choice, call.leg) /\ b[1] = Choice.path[call.leg]
    BY <1>4 DEF LegTurn, LegBookings
  <2>5. ASSUME NEW x \in call'.done
        PROVE  \E i \in 1 .. call.leg : x \in LegBookings(Choice, i)
    <3>1. CASE x \in call.done
      <4>1. PICK i \in 1 .. call.leg - 1 : x \in LegBookings(Choice, i)
        BY <1>1, <2>2, <3>1 DEF AnswerIsLastLeg
      <4> QED
        BY <2>2, <4>1
    <3>2. CASE x \notin call.done
      BY <1>4, <2>1, <2>2, <2>4, <3>2
    <3> QED
      BY <3>1, <3>2
  <2>6. yes <=> \E x \in call'.done : x[1] = Choice.path[call.leg]
    BY <1>4, <2>1, <2>4, LegIsFresh
  <2>7. call'.leg > 1
    BY <2>1, <2>2
  <2>8. \A x, i : x \in LegBookings(Choice, i)' <=> x \in LegBookings(Choice, i)
    BY <2>1 DEF LegBookings
  <2> QED
    BY <2>1, <2>2, <2>3, <2>5, <2>6, <2>7, <2>8 DEF AnswerIsLastLeg
<1>5. ASSUME NEW b, LegTurn(b)
      PROVE  AnswerIsLastLeg'
  <2>1. CASE call' = Idle
    BY <1>2, <2>1, IdleFacts
  <2> QED
    BY <1>4, <1>5, <2>1, TurnOutcomes
<1>6. CASE SellAbort
  <2>1. /\ call'.leg = call.leg /\ call'.answer = call.answer /\ call'.done = call.done
        /\ call'.trip = call.trip /\ choice' = choice /\ call.op = "sell"
    BY <1>1, <1>6 DEF SellAbort, InSellLoop, Call
  <2> QED
    BY <1>1, <2>1 DEF AnswerIsLastLeg, Choice, LegBookings
<1>7. CASE AvailabilitySolution
  BY <1>1, <1>2, <1>7 DEF AvailabilitySolution, Call
<1>8. CASE UNCHANGED vars
  BY <1>1, <1>8 DEF vars, AnswerIsLastLeg, Choice, LegBookings
<1> QED
  BY <1>2, <1>3, <1>5, <1>6, <1>7, <1>8, CallMoves, BeginFacts DEF Ops

\* The seats a call has moved stay where the call put them until it ends.
LEMMA CountedStep ==
  ASSUME IInv, [Next]_vars
  PROVE  DoneCounted'
<1>1. DoneCounted /\ TypeOK /\ call \in Call
  BY DEF IInv, TypeOK
<1>2. CASE call'.done = {}
  BY <1>2 DEF DoneCounted
<1>3. ASSUME NEW b, LegTurn(b), b \in BookingClasses, NextLeg(TRUE, {b}),
             IF call.op = "sell" THEN Take(call.trip, b) ELSE GiveBack(call.trip, b)
      PROVE  DoneCounted'
  <2>1. /\ call'.op = call.op /\ call'.trip = call.trip /\ call'.done = call.done \cup {b}
        /\ call.op \in {"sell", "cancel"} /\ call.trip \in Trips
        /\ call.done \subseteq BookingClasses
    BY <1>1, <1>3 DEF NextLeg, LegTurn, Call
  <2>2. b \notin call.done
    BY <1>3, LegIsFresh DEF LegTurn, LegBookings
  <2>3. /\ Party[call.trip] \in Nat
        /\ \A x \in BookingClasses : booked[x] \in Nat /\ Capacity[x] \in Nat /\ booked[x] <= Capacity[x]
        /\ booked \in [BookingClasses -> Nat]
    BY <1>1, <2>1, PartyAssumption, CapacityAssumption DEF TypeOK
  <2>4. \A x \in call.done : booked'[x] = booked[x]
    BY <1>3, <2>1, <2>2, <2>3 DEF Take, GiveBack
  <2>5. CASE call.op = "sell"
    BY <1>1, <1>3, <2>1, <2>3, <2>4, <2>5 DEF DoneCounted, Take
  <2>6. CASE call.op = "cancel"
    BY <1>1, <1>3, <2>1, <2>3, <2>4, <2>6 DEF DoneCounted, GiveBack
  <2> QED
    BY <2>1, <2>5, <2>6
<1>4. ASSUME NEW b, LegTurn(b)
      PROVE  DoneCounted'
  <2>1. CASE call' = Idle
    BY <1>2, <2>1, IdleFacts
  <2>2. CASE NextLeg(FALSE, {}) /\ UNCHANGED booked
    BY <1>1, <2>2 DEF NextLeg, DoneCounted
  <2> QED
    BY <1>3, <1>4, <2>1, <2>2, TurnOutcomes
<1>5. CASE SellAbort
  <2>1. /\ call'.done = call.done /\ call'.trip = call.trip /\ booked' = booked
        /\ call.op = "sell" /\ call'.op = "abort"
    BY <1>1, <1>5 DEF SellAbort, InSellLoop, Call
  <2> QED
    BY <1>1, <2>1 DEF DoneCounted
<1>6. CASE AvailabilitySolution
  <2>1. /\ call'.done = call.done /\ call'.trip = call.trip /\ booked' = booked
        /\ call'.op = call.op
    BY <1>1, <1>6 DEF AvailabilitySolution, Call
  <2> QED
    BY <1>1, <2>1 DEF DoneCounted
<1>7. CASE UNCHANGED vars
  BY <1>1, <1>7 DEF vars, DoneCounted
<1>8. ASSUME NEW t \in Trips, Begin("avail", t) \/ SellBegin(t) \/ CancelBegin(t)
      PROVE  call'.done = {}
  BY <1>8, BeginFacts DEF SellBegin, CancelBegin, Ops
<1> QED
  BY <1>2, <1>4, <1>5, <1>6, <1>7, <1>8, CallMoves

\* A cancellation keeps the ids it was given.
LEMMA CancelStep ==
  ASSUME IInv, [Next]_vars
  PROVE  CancelNamesLegs'
<1>1. CancelNamesLegs /\ call \in Call
  BY DEF IInv, TypeOK
<1>2. CASE call'.op # "cancel"
  BY <1>2 DEF CancelNamesLegs
<1>3. ASSUME NEW t \in Trips, CancelBegin(t)
      PROVE  CancelNamesLegs'
  <2>1. call'.trip = t /\ choice' = choice /\ call'.done = {} /\ call'.answer = FALSE
    BY <1>3, BeginFacts DEF CancelBegin, Ops
  <2>2. ByIds(choice[t]) => choice[t].held = choice[t].path
    BY <1>3, LoopIsPath DEF CancelBegin, MayCancel, IInv
  <2> QED
    BY <1>3, <2>1, <2>2 DEF CancelBegin, CancelNamesLegs, Choice, Named, ByIds
<1>4. ASSUME NEW b, LegTurn(b)
      PROVE  CancelNamesLegs'
  <2>1. CASE call' = Idle
    BY <1>2, <2>1, IdleFacts
  <2>2. ASSUME NEW yes, NEW changed, NextLeg(yes, changed)
        PROVE  CancelNamesLegs'
    <3>1. /\ call'.op = call.op /\ call'.trip = call.trip /\ choice' = choice
          /\ call.op = "cancel" => ByIds(Choice)
      BY <1>4, <2>2 DEF NextLeg, LegTurn
    <3> QED
      BY <1>1, <3>1 DEF CancelNamesLegs, Choice, Named, ByIds
  <2> QED
    BY <1>4, <2>1, <2>2, TurnOutcomes
<1>5. CASE AvailabilitySolution \/ SellAbort
  BY <1>1, <1>2, <1>5 DEF AvailabilitySolution, SellAbort, Call
<1>6. CASE UNCHANGED vars
  BY <1>1, <1>6 DEF vars, CancelNamesLegs, Choice, Named, ByIds
<1>7. ASSUME NEW t \in Trips, Begin("avail", t) \/ SellBegin(t)
      PROVE  call'.op # "cancel"
  BY <1>7, BeginFacts DEF SellBegin, Ops
<1> QED
  BY <1>2, <1>3, <1>4, <1>5, <1>6, <1>7, CallMoves

\* Only a fare that does not fit its itinerary, or maps that are not of its legs, can
\* end the process.
LEMMA AbortStep ==
  ASSUME Grounds, AbortNeedsMisfit, [Next]_vars
  PROVE  AbortNeedsMisfit'
<1>1. call \in Call
  BY DEF Grounds, TypeOK
<1>2. CASE call'.op # "abort"
  BY <1>2 DEF AbortNeedsMisfit
<1>3. CASE SellAbort
  <2>1. /\ call'.trip = call.trip /\ choice' = choice /\ call.op = "sell"
        /\ call.leg \in Nat \ {0} /\ call.leg <= LoopLength(Choice)
    BY <1>1, <1>3 DEF SellAbort, InSellLoop, Call
  <2>2. call.trip \in Trips /\ Choice \in TravelSolution /\ Choice.path \in Paths
    BY <2>1, CallHasTrip DEF Grounds, CallerWaits, Choice
  <2>3. Careful => Aligned(Choice)
    BY <2>2 DEF Grounds, MapsKept, Mapped, Choice
  <2>4. ASSUME Aligned(Choice)
        PROVE  ~FareFits(Choice)
    <3>1. /\ call.leg \in DOMAIN Choice.path
          /\ ByIds(Choice) => Choice.held[call.leg] = Choice.path[call.leg]
      BY <2>1, <2>2, <2>4, AlignedLegs, PathFacts
    <3> QED
      BY <1>3, <3>1 DEF SellAbort, FareFits, Named, LegClass
  <2>5. ~FareFits(Choice) \/ (~Careful /\ ~Aligned(Choice))
    BY <2>3, <2>4
  <2>6. Choice' = Choice
    BY <2>1 DEF Choice
  <2> QED
    BY <2>5, <2>6 DEF AbortNeedsMisfit, FareFits, Named, Aligned
<1>4. CASE UNCHANGED vars
  BY <1>4 DEF vars, AbortNeedsMisfit, Choice, FareFits, Named, Aligned
<1>5. call'.op # "abort" \/ SellAbort \/ UNCHANGED vars
  <2>1. CASE CallStep
    <3>1. ASSUME NEW yes, NEW changed, NextLeg(yes, changed)
          PROVE  call'.op = call.op
      BY <3>1 DEF NextLeg
    <3>2. AvailabilitySolution => call'.op = "avail"
      BY <1>1 DEF AvailabilitySolution, Call
    <3> QED
      BY <2>1, <3>1, <3>2, IdleFacts
      DEF CallStep, AvailabilityThrow, AvailabilityReturn, SellLegById, SellLegByKey,
          SellReturn, CancelLeg, CancelReturn, InSellLoop, AirInvSell, AirInvCancel,
          Refused, Thrown
  <2>2. ASSUME NEW t \in Trips, CallerStep(t)
        PROVE  call'.op # "abort"
    BY <2>2, IdleFacts, BeginFacts
    DEF CallerStep, CalculateSegmentPathList, FareQuote, FareQuoteThrow, PriceOnly,
        AvailabilityBegin, ChooseFare, ChooseSegment, SellBegin, SellSegment, CancelBegin, Ops
  <2> QED
    BY <2>1, <2>2 DEF Next
<1> QED
  BY <1>2, <1>3, <1>4, <1>5

--------------------------------------------------------------------------------
(* Whoever calls *)

\* The grounds are there before any call.
LEMMA InitGrounds ==
  ASSUME Init
  PROVE  Grounds
<1>1. /\ <<>> \in Seq(Segments) /\ <<>> \in Seq(TravelSolution) /\ DOMAIN <<>> = {}
  BY EmptySeq
<1>2. Unpriced(<<>>) \in TravelSolution /\ Mapped(Unpriced(<<>>))
  BY <1>1, UnpricedFacts
<1>3. TypeOK
  BY <1>1, <1>2, IdleFacts, CapacityAssumption DEF Init, TypeOK, Beliefs
<1>4. OnPaths /\ MapsKept
  BY <1>1, <1>2 DEF Init, OnPaths, MapsKept
<1>5. CallerWaits /\ AskedOnce
  BY IdleFacts DEF Init, CallerWaits, AskedOnce
<1> QED
  BY <1>3, <1>4, <1>5 DEF Grounds

\* They stay, and no sale of theirs is ended by an assert when fare and maps fit.
THEOREM GroundsInductive == Spec => []Grounds /\ []AbortNeedsMisfit
<1>1. Init => Grounds /\ AbortNeedsMisfit
  BY InitGrounds, IdleFacts DEF Init, AbortNeedsMisfit
<1>2. Grounds /\ AbortNeedsMisfit /\ [Next]_vars => (Grounds /\ AbortNeedsMisfit)'
  BY GroundsStep, AbortStep
<1> QED
  BY <1>1, <1>2, PTL DEF Spec

\* Bookings never leave the range between zero and what AirInv lets be sold, and the
\* rest of the state keeps its types.
THEOREM TypesHold == Spec => []TypeOK
BY GroundsInductive, PTL DEF Grounds

\* The process is never ended by an assert of the sale loop when fares fit, whatever was
\* asked, thrown and asked again, unless a careless caller's maps are not of its legs.
THEOREM FittingFaresNeverAbort == Spec => []AbortNeedsMisfit
BY GroundsInductive, PTL

\* The only seats a step moves are those of one class, for a whole party, on a segment
\* of that party's itinerary.
LEMMA SeatsMoved ==
  ASSUME Grounds, [Next]_vars, NEW b \in BookingClasses, booked'[b] # booked[b]
  PROVE  \E t \in Trips :
           /\ call # Idle => t = call.trip
           /\ \E i \in DOMAIN choice[t].path : b[1] = choice[t].path[i]
           /\ \/ booked'[b] = booked[b] + Party[t]
              \/ booked'[b] = booked[b] - Party[t]
<1>1. booked \in [BookingClasses -> Nat] /\ call \in Call
  BY DEF Grounds, TypeOK
<1>2. ASSUME NEW t \in Trips, NEW x, Take(t, x) \/ GiveBack(t, x)
      PROVE  /\ b = x
             /\ booked'[b] = booked[b] + Party[t] \/ booked'[b] = booked[b] - Party[t]
  BY <1>1, <1>2 DEF Take, GiveBack
<1>3. ASSUME NEW t \in Trips, SellSegment(t)
      PROVE  /\ call = Idle
             /\ \E i \in DOMAIN choice[t].path : b[1] = choice[t].path[i]
             /\ booked'[b] = booked[b] + Party[t] \/ booked'[b] = booked[b] - Party[t]
  <2>1. PICK c : call = Idle /\ Len(choice[t].path) = 1 /\ Take(t, <<choice[t].path[1], c>>)
    BY <1>3 DEF SellSegment
  <2>2. 1 \in DOMAIN choice[t].path
    <3>1. choice[t].path \in Seq(Segments)
      BY DEF Grounds, TypeOK, TravelSolution
    <3> QED
      BY <2>1, <3>1, LenProperties
  <2> QED
    BY <1>2, <2>1, <2>2
<1>4. ASSUME SellLegById \/ SellLegByKey \/ CancelLeg
      PROVE  /\ call.trip \in Trips
             /\ \E i \in DOMAIN Choice.path : b[1] = Choice.path[i]
             /\ \/ booked'[b] = booked[b] + Party[call.trip]
                \/ booked'[b] = booked[b] - Party[call.trip]
  <2>1. call.op \in {"sell", "cancel"} /\ call.leg \in Nat \ {0}
    BY <1>1, <1>4 DEF SellLegById, SellLegByKey, CancelLeg, InSellLoop, Call
  <2>2. call.trip \in Trips /\ Choice \in TravelSolution /\ OnItinerary(Choice)
    BY <2>1, CallHasTrip DEF Grounds, MapsKept, Mapped, Choice
  <2>3. /\ Choice.path \in Seq(Segments) /\ Choice.held \in Seq(Segments)
        /\ DOMAIN Choice.path = 1 .. Len(Choice.path)
        /\ DOMAIN Choice.held = 1 .. Len(Choice.held)
        /\ Len(Choice.path) \in Nat /\ Len(Choice.held) \in Nat
    BY <2>2, LenProperties DEF TravelSolution
  <2>4. \E x : /\ AirInvSell(x) \/ AirInvCancel(x)
               /\ \E i \in DOMAIN Choice.path : x[1] = Choice.path[i]
    <3>1. CASE SellLegById
      <4>1. PICK c : AirInvSell(<<Choice.held[call.leg], c>>)
        BY <3>1 DEF SellLegById
      <4>2. call.leg \in DOMAIN Choice.held
        BY <2>1, <2>3, <3>1 DEF SellLegById, InSellLoop, LoopLength, Legs
      <4> QED
        BY <2>2, <4>1, <4>2 DEF OnItinerary
    <3>2. CASE SellLegByKey
      <4>1. PICK c : AirInvSell(<<Choice.path[call.leg], c>>)
        BY <3>2 DEF SellLegByKey
      <4>2. call.leg \in DOMAIN Choice.path
        BY <2>1, <2>3, <3>2 DEF SellLegByKey, InSellLoop, LoopLength, Legs
      <4> QED
        BY <4>1, <4>2
    <3>3. CASE CancelLeg
      <4>1. ByIds(Choice)
        BY <2>1, <3>3, EmptySeq DEF CancelLeg, ClassIdList
      <4> DEFINE ids == [i \in DOMAIN Choice.held |-> <<Choice.held[i], Choice.classPath[i][1]>>]
      <4>2. ClassIdList(Choice) = ids
        BY <4>1 DEF ClassIdList
      <4>3. ids \in [DOMAIN Choice.held -> {ids[i] : i \in DOMAIN Choice.held}]
        OBVIOUS
      <4>4. Len(ids) = Len(Choice.held)
        BY <2>3, <4>3, FunIsSeq
      <4>5. call.leg \in DOMAIN Choice.held
        BY <2>1, <2>3, <3>3, <4>2, <4>4 DEF CancelLeg
      <4>6. AirInvCancel(<<Choice.held[call.leg], Choice.classPath[call.leg][1]>>)
        BY <3>3, <4>2, <4>5 DEF CancelLeg
      <4> QED
        BY <2>2, <4>5, <4>6 DEF OnItinerary
    <3> QED
      BY <1>4, <3>1, <3>2, <3>3
  <2>5. PICK x : /\ AirInvSell(x) \/ AirInvCancel(x)
                 /\ \E i \in DOMAIN Choice.path : x[1] = Choice.path[i]
    BY <2>4
  <2>6. Take(call.trip, x) \/ GiveBack(call.trip, x)
    BY <2>5 DEF AirInvSell, AirInvCancel, Refused
  <2> QED
    BY <1>2, <2>2, <2>5, <2>6
<1>5. \/ SellLegById \/ SellLegByKey \/ CancelLeg
      \/ \E t \in Trips : SellSegment(t)
  BY DEF Next, CallStep, CallerStep, vars, AvailabilitySolution, AvailabilityThrow,
     AvailabilityReturn, SellAbort, SellReturn, CancelReturn, CalculateSegmentPathList,
     FareQuote, FareQuoteThrow, PriceOnly, AvailabilityBegin, ChooseFare, ChooseSegment,
     SellBegin, CancelBegin
<1> QED
  BY <1>3, <1>4, <1>5 DEF Choice

\* No list that a caller keeps after an exception, no second availability request and no
\* repeated sale or cancellation moves a seat off its itinerary.
THEOREM SeatsStayOnItineraries == Spec => OnlyOwnSegments
<1> DEFINE Own == \A b \in BookingClasses : booked'[b] # booked[b] =>
                    \E t \in Trips :
                      /\ call # Idle => t = call.trip
                      /\ \E i \in DOMAIN choice[t].path : b[1] = choice[t].path[i]
                      /\ \/ booked'[b] = booked[b] + Party[t]
                         \/ booked'[b] = booked[b] - Party[t]
<1>1. Grounds /\ [Next]_vars => [Own]_vars
  BY SeatsMoved
<1>2. Spec => [][Own]_vars
  BY <1>1, GroundsInductive, PTL DEF Spec
<1> QED
  BY <1>2 DEF OnlyOwnSegments

--------------------------------------------------------------------------------
(* Careful callers *)

\* The invariant holds before any call.
LEMMA InitIInv ==
  ASSUME Careful, Init
  PROVE  IInv
<1>1. Grounds
  BY InitGrounds
<1>2. AnswerIsLastLeg /\ DoneCounted /\ CancelNamesLegs /\ AbortNeedsMisfit
  BY IdleFacts DEF Init, AnswerIsLastLeg, DoneCounted, CancelNamesLegs, AbortNeedsMisfit
<1> QED
  BY <1>1, <1>2 DEF Grounds, IInv

\* Every step keeps it.
LEMMA InvStep ==
  ASSUME IInv, [Next]_vars
  PROVE  IInv'
<1>1. Grounds'
  BY GroundsHold, GroundsStep
<1>2. AbortNeedsMisfit'
  BY GroundsHold, AbortStep DEF IInv
<1>3. AnswerIsLastLeg' /\ DoneCounted' /\ CancelNamesLegs'
  BY AnswerStep, CountedStep, CancelStep
<1> QED
  BY <1>1, <1>2, <1>3 DEF Grounds, IInv

\* With careful callers every reachable state satisfies the inductive invariant, however
\* AirInv answers, throws and writes its maps.
THEOREM Inductive ==
  ASSUME Careful
  PROVE  Spec => []IInv
<1>1. Init => IInv
  BY InitIInv
<1>2. IInv /\ [Next]_vars => IInv'
  BY InvStep
<1> QED
  BY <1>1, <1>2, PTL DEF Spec

\* The answer a call of a careful caller is about to give is that of its last leg.
THEOREM AnswersComeFromLastLeg ==
  ASSUME Careful
  PROVE  Spec => []AnswerIsLastLeg
BY Inductive, PTL DEF IInv

\* A sale of a careful caller never answers before every leg of the itinerary was asked
\* for.
THEOREM SalesCoverItinerary ==
  ASSUME Careful
  PROVE  Spec => []SaleCoversItinerary
<1>1. ASSUME IInv, call.op = "sell", call.leg > LoopLength(Choice)
      PROVE  call.leg = Len(Choice.path) + 1
  <2>1. call.trip \in Trips /\ belief[call.trip] # "looking" /\ call.leg \in Nat
    BY <1>1, CallHasTrip DEF IInv, CallerWaits, TypeOK, Call
  <2>2. LoopLength(Choice) = Len(Choice.path) /\ Len(Choice.path) \in Nat
    BY <1>1, <2>1, LoopIsPath, PathFacts DEF Choice
  <2>3. call.leg - 1 <= Len(Choice.path)
    BY <1>1 DEF IInv, AnswerIsLastLeg
  <2> QED
    BY <1>1, <2>1, <2>2, <2>3
<1>2. IInv => SaleCoversItinerary
  BY <1>1 DEF SaleCoversItinerary
<1> QED
  BY <1>2, Inductive, PTL

--------------------------------------------------------------------------------
(* Refinement of the leg-by-leg contract *)

\* The classes of an itinerary are booking classes, those of the last leg among them.
LEMMA ItineraryBookings ==
  ASSUME NEW sol
  PROVE  TripBookings(sol) \subseteq BookingClasses /\ LastBookings(sol) \subseteq TripBookings(sol)
BY DEF TripBookings, LastBookings, LegBookings

\* Seats as they stood before the call: between zero and capacity, and one party away
\* from the present bookings on the classes the call has changed.
LEMMA SeatsBefore ==
  ASSUME IInv
  PROVE  /\ SeatsAtReturn \in [BookingClasses -> Nat]
         /\ \A b \in BookingClasses \ call.done : SeatsAtReturn[b] = booked[b]
         /\ \A b \in call.done :
              /\ b \in BookingClasses
              /\ IF call.op = "cancel"
                   THEN /\ SeatsAtReturn[b] >= Party[call.trip]
                        /\ booked[b] = SeatsAtReturn[b] - Party[call.trip]
                   ELSE /\ SeatsAtReturn[b] + Party[call.trip] <= Capacity[b]
                        /\ booked[b] = SeatsAtReturn[b] + Party[call.trip]
<1>1. /\ call.done \subseteq BookingClasses
      /\ \A b \in BookingClasses : booked[b] \in Nat /\ booked[b] <= Capacity[b] /\ Capacity[b] \in Nat
  BY CapacityAssumption DEF IInv, TypeOK, Call
<1>2. call.done # {} => Party[call.trip] \in Nat
  BY CallHasTrip, IdleFacts, PartyAssumption DEF IInv, CallerWaits
<1>3. ASSUME NEW b \in BookingClasses
      PROVE  /\ SeatsAtReturn[b] \in Nat
             /\ b \notin call.done => SeatsAtReturn[b] = booked[b]
             /\ b \in call.done =>
                  IF call.op = "cancel"
                   THEN /\ SeatsAtReturn[b] >= Party[call.trip]
                        /\ booked[b] = SeatsAtReturn[b] - Party[call.trip]
                   ELSE /\ SeatsAtReturn[b] + Party[call.trip] <= Capacity[b]
                        /\ booked[b] = SeatsAtReturn[b] + Party[call.trip]
  <2>1. CASE b \notin call.done
    BY <1>1, <2>1 DEF SeatsAtReturn
  <2>2. CASE b \in call.done
    <3>1. Party[call.trip] \in Nat /\ booked[b] \in Nat /\ Capacity[b] \in Nat /\ booked[b] <= Capacity[b]
      BY <1>1, <1>2, <2>2
    <3>2. IF call.op = "cancel" THEN booked[b] + Party[call.trip] <= Capacity[b]
                                ELSE booked[b] >= Party[call.trip]
      BY <2>2 DEF IInv, DoneCounted
    <3>3. SeatsAtReturn[b] = IF call.op = "cancel" THEN booked[b] + Party[call.trip]
                                                   ELSE booked[b] - Party[call.trip]
      BY <2>2 DEF SeatsAtReturn
    <3> QED
      BY <2>2, <3>1, <3>2, <3>3
  <2> QED
    BY <2>1, <2>2
<1>4. SeatsAtReturn \in [BookingClasses -> Nat]
  BY <1>3 DEF SeatsAtReturn
<1> QED
  BY <1>1, <1>3, <1>4

\* What a trip's itinerary can touch depends on the caller's choice only.
LEMMA ItinerariesStay ==
  ASSUME UNCHANGED choice
  PROVE  UNCHANGED <<LegsOfTrips, LastLegOfTrips>>
BY DEF LegsOfTrips, LastLegOfTrips, TripBookings, LastBookings, LegBookings, Legs, LoopLength, ByIds

\* Steps that touch nothing a caller can see.
LEMMA Stutters ==
  ASSUME UNCHANGED <<choice, belief>>, SeatsAtReturn' = SeatsAtReturn
  PROVE  UNCHANGED Promise!vars
<1>1. UNCHANGED <<LegsOfTrips, LastLegOfTrips>>
  BY ItinerariesStay
<1> QED
  BY <1>1 DEF Promise!vars

\* Before its first leg is changed, a call has not moved a seat.
LEMMA NothingDone ==
  /\ call.done = {} /\ IInv => SeatsAtReturn = booked
  /\ call'.done = {} /\ booked' \in [BookingClasses -> Nat] => SeatsAtReturn' = booked'
BY DEF SeatsAtReturn, IInv, TypeOK

\* Ending a call with the classes S changed settles exactly S with its trip.
LEMMA EndSettles ==
  ASSUME IInv, [Next]_vars, call.op \in {"sell", "cancel"}, call' = Idle, UNCHANGED choice,
         NEW S \in SUBSET TripBookings(Choice),
         \A b \in S : IF call.op = "sell"
                        THEN /\ SeatsAtReturn[b] + Party[call.trip] <= Capacity[b]
                             /\ booked'[b] = SeatsAtReturn[b] + Party[call.trip]
                        ELSE /\ SeatsAtReturn[b] >= Party[call.trip]
                             /\ booked'[b] = SeatsAtReturn[b] - Party[call.trip],
         \A b \in BookingClasses \ S : booked'[b] = SeatsAtReturn[b],
         NEW told, belief' = [belief EXCEPT ![call.trip] = told],
         \/ told = "unknown"
         \/ told = IF (S \cap LastBookings(Choice) # {}) <=> call.op = "sell"
                    THEN "booked" ELSE "open"
  PROVE  Promise!LegwiseNext
<1> DEFINE t == call.trip
<1>1. t \in Trips /\ (call.op = "sell" => belief[t] = "open") /\ (call.op = "cancel" => belief[t] = "booked")
  BY CallHasTrip DEF IInv, CallerWaits
<1>2. booked' \in [BookingClasses -> Nat] /\ SeatsAtReturn' = booked'
  BY GroundsHold, TypesStep, IdleFacts, NothingDone DEF TypeOK
<1>3. UNCHANGED <<LegsOfTrips, LastLegOfTrips>>
  BY ItinerariesStay
<1>4. S \in SUBSET LegsOfTrips[t] /\ LastLegOfTrips[t] = LastBookings(Choice)
  BY <1>1 DEF Choice, LegsOfTrips, LastLegOfTrips
<1>5. told # "unknown" =>
        IF S \cap LastLegOfTrips[t] # {}
          THEN told = IF call.op = "sell" THEN "booked" ELSE "open"
          ELSE told = IF call.op = "sell" THEN "open" ELSE "booked"
  BY <1>4
<1>6. ASSUME call.op = "sell"
      PROVE  Promise!Settle(t, S)
  <2>1. Promise!Take(t, S)
    <3>1. booked' = [b \in BookingClasses |-> IF b \in S THEN SeatsAtReturn[b] + Party[t] ELSE SeatsAtReturn[b]]
      BY <1>2, <1>6
    <3> QED
      BY <1>2, <1>6, <3>1 DEF Promise!Take
  <2>2. CASE told = "unknown"
    BY <1>1, <1>3, <1>6, <2>1, <2>2 DEF Promise!SellLost, Promise!Settle
  <2>3. CASE told # "unknown"
    <3>1. told = IF S \cap LastLegOfTrips[t] # {} THEN "booked" ELSE "open"
      BY <1>5, <1>6, <2>3
    <3> QED
      BY <1>1, <1>3, <1>6, <2>1, <3>1 DEF Promise!Sell, Promise!Settle
  <2> QED
    BY <2>2, <2>3
<1>7. ASSUME call.op = "cancel"
      PROVE  Promise!Settle(t, S)
  <2>1. Promise!GiveBack(t, S)
    <3>1. booked' = [b \in BookingClasses |-> IF b \in S THEN SeatsAtReturn[b] - Party[t] ELSE SeatsAtReturn[b]]
      BY <1>2, <1>7
    <3> QED
      BY <1>2, <1>7, <3>1 DEF Promise!GiveBack
  <2>2. CASE told = "unknown"
    BY <1>1, <1>3, <1>7, <2>1, <2>2 DEF Promise!CancelLost, Promise!Settle
  <2>3. CASE told # "unknown"
    <3>1. told = IF S \cap LastLegOfTrips[t] # {} THEN "open" ELSE "booked"
      BY <1>5, <1>7, <2>3
    <3> QED
      BY <1>1, <1>3, <1>7, <2>1, <3>1 DEF Promise!Cancel, Promise!Settle
  <2> QED
    BY <2>2, <2>3
<1> QED
  BY <1>1, <1>4, <1>6, <1>7 DEF Promise!LegwiseNext

\* The last leg of an itinerary, and which of the classes a finished loop has changed
\* lie on it.
LEMMA LastLegAnswers ==
  ASSUME IInv, call.op \in {"sell", "cancel"}, call.leg = Len(Choice.path) + 1,
         Choice.path \in Paths, Legs(Choice) = Choice.path
  PROVE  call.answer <=> call.done \cap LastBookings(Choice) # {}
<1>1. Len(Choice.path) \in Nat \ {0} /\ DOMAIN Choice.path = 1 .. Len(Choice.path)
  BY PathFacts
<1>2. call.leg - 1 = Len(Choice.path) /\ call.leg > 1
  BY <1>1
<1>3. call.answer <=> \E b \in call.done : b[1] = Choice.path[Len(Choice.path)]
  BY <1>2 DEF IInv, AnswerIsLastLeg
<1>4. call.done \subseteq TripBookings(Choice)
  BY <1>1, <1>2 DEF IInv, AnswerIsLastLeg, TripBookings
<1> QED
  BY <1>3, <1>4 DEF LastBookings, LoopLength

\* The classes a call has changed are of its own itinerary, and the seats of the others
\* are as they were before the call.
LEMMA DoneOnTrip ==
  ASSUME IInv, call.op \in {"sell", "cancel"}
  PROVE  /\ call.done \in SUBSET TripBookings(Choice)
         /\ \A b \in BookingClasses \ call.done : SeatsAtReturn[b] = booked[b]
<1>1. call.trip \in Trips /\ belief[call.trip] # "looking" /\ call.leg \in Nat \ {0}
  BY CallHasTrip DEF IInv, CallerWaits, TypeOK, Call
<1>2. Choice.path \in Paths /\ Legs(Choice) = Choice.path
  BY <1>1, LoopIsPath DEF Choice
<1>3. Len(Choice.path) \in Nat /\ DOMAIN Choice.path = 1 .. Len(Choice.path)
  BY <1>2, PathFacts
<1>4. ASSUME NEW b \in call.done
      PROVE  b \in TripBookings(Choice)
  <2>1. PICK i \in 1 .. call.leg - 1 : b \in LegBookings(Choice, i)
    BY DEF IInv, AnswerIsLastLeg
  <2>2. i \in DOMAIN Choice.path
    BY <1>1, <1>3 DEF IInv, AnswerIsLastLeg
  <2> QED
    BY <1>2, <2>1, <2>2 DEF TripBookings
<1> QED
  BY <1>4, SeatsBefore

\* Returning, a sale or a cancellation settles the classes it has changed.
LEMMA ReturnSettles ==
  ASSUME IInv, [Next]_vars, SellReturn \/ CancelReturn
  PROVE  Promise!LegwiseNext
<1> DEFINE t == call.trip
           told == IF call.answer <=> call.op = "sell" THEN "booked" ELSE "open"
<1>1. /\ call.op \in {"sell", "cancel"} /\ call' = Idle /\ UNCHANGED <<choice, booked>>
      /\ call.answer \in BOOLEAN /\ call.leg \in Nat \ {0}
  BY DEF SellReturn, CancelReturn, IInv, TypeOK, Call
<1>2. t \in Trips /\ belief[t] # "looking"
  BY <1>1, CallHasTrip DEF IInv, CallerWaits
<1>3. /\ Choice.path \in Paths /\ LoopLength(Choice) = Len(Choice.path) /\ Len(Choice.path) \in Nat
      /\ Legs(Choice) = Choice.path
      /\ ByIds(Choice) => Choice.held = Choice.path
  BY <1>2, LoopIsPath, PathFacts DEF Choice
<1>4. belief' = [belief EXCEPT ![t] = told]
  <2>0. belief[t] = IF call.op = "sell" THEN "open" ELSE "booked"
    BY <1>1 DEF IInv, CallerWaits
  <2>1. CASE SellReturn
    BY <2>0, <2>1 DEF SellReturn
  <2>2. CASE CancelReturn
    BY <2>0, <2>2 DEF CancelReturn
  <2> QED
    BY <2>1, <2>2
<1>5. call.answer <=> call.done \cap LastBookings(Choice) # {}
  <2>1. CASE call.op = "cancel" /\ ~ByIds(Choice)
    BY <2>1 DEF IInv, CancelNamesLegs
  <2>2. CASE ~(call.op = "cancel" /\ ~ByIds(Choice))
    <3>1. call.leg > Len(Choice.path)
      <4>1. CASE SellReturn
        BY <1>3, <4>1 DEF SellReturn
      <4>2. CASE CancelReturn
        <5>1. ByIds(Choice)
          BY <2>2, <4>2 DEF CancelReturn
        <5>2. ClassIdList(Choice) = [i \in DOMAIN Choice.path |-> <<Choice.path[i], Choice.classPath[i][1]>>]
          BY <1>3, <5>1 DEF ClassIdList
        <5>3. ClassIdList(Choice) \in [DOMAIN Choice.path -> {ClassIdList(Choice)[i] : i \in DOMAIN Choice.path}]
          BY <5>2
        <5>4. Len(ClassIdList(Choice)) = Len(Choice.path)
          BY <1>3, <5>3, FunIsSeq, PathFacts
        <5> QED
          BY <4>2, <5>4 DEF CancelReturn
      <4> QED
        BY <4>1, <4>2
    <3>2. call.leg - 1 <= Len(Choice.path)
      BY <1>1 DEF IInv, AnswerIsLastLeg
    <3>3. call.leg = Len(Choice.path) + 1
      BY <1>1, <1>3, <3>1, <3>2
    <3> QED
      BY <1>1, <1>3, <3>3, LastLegAnswers
  <2> QED
    BY <2>1, <2>2
<1>6. \A b \in call.done : IF call.op = "sell"
                             THEN /\ SeatsAtReturn[b] + Party[t] <= Capacity[b]
                                  /\ booked'[b] = SeatsAtReturn[b] + Party[t]
                             ELSE /\ SeatsAtReturn[b] >= Party[t]
                                  /\ booked'[b] = SeatsAtReturn[b] - Party[t]
  BY <1>1, SeatsBefore
<1>7. told = IF (call.done \cap LastBookings(Choice) # {}) <=> call.op = "sell"
             THEN "booked" ELSE "open"
  BY <1>5
<1>8. call.done \in SUBSET TripBookings(Choice) /\ \A b \in BookingClasses \ call.done : booked'[b] = SeatsAtReturn[b]
  BY <1>1, DoneOnTrip
<1> HIDE DEF told
<1> QED
  BY <1>1, <1>4, <1>6, <1>7, <1>8, EndSettles

\* Throwing, it settles those and perhaps the class AirInv was working on.
LEMMA ThrowSettles ==
  ASSUME IInv, [Next]_vars, NEW b, LegTurn(b), call' = Idle
  PROVE  Promise!LegwiseNext
<1>1. /\ call.op \in {"sell", "cancel"} /\ UNCHANGED choice /\ call.trip \in Trips
      /\ Choice.path \in Paths /\ call.leg \in DOMAIN Choice.path
      /\ Legs(Choice) = Choice.path
  BY PathFacts DEF LegTurn
<1>2. belief' = [belief EXCEPT ![call.trip] = "unknown"]
  BY TurnOutcomes, IdleFacts DEF NextLeg, LegTurn
<1>3. \/ UNCHANGED booked
      \/ call.op = "sell" /\ Take(call.trip, b)
      \/ call.op = "cancel" /\ GiveBack(call.trip, b)
  BY DEF LegTurn, AirInvSell, AirInvCancel, Refused
<1>4. call.done \in SUBSET TripBookings(Choice) /\ \A x \in BookingClasses \ call.done : SeatsAtReturn[x] = booked[x]
  BY <1>1, DoneOnTrip
<1>5. CASE UNCHANGED booked
  BY <1>1, <1>2, <1>4, <1>5, SeatsBefore, EndSettles
<1>6. CASE \/ call.op = "sell" /\ Take(call.trip, b)
           \/ call.op = "cancel" /\ GiveBack(call.trip, b)
  <2>1. b \in BookingClasses
    BY <1>6 DEF Take, GiveBack
  <2>2. b \in TripBookings(Choice) /\ b \notin call.done
    BY <1>1, <2>1, LegIsFresh DEF LegTurn, TripBookings, LegBookings
  <2>3. /\ \A x \in BookingClasses : x # b => booked'[x] = booked[x]
        /\ booked'[b] = IF call.op = "sell" THEN booked[b] + Party[call.trip] ELSE booked[b] - Party[call.trip]
        /\ IF call.op = "sell" THEN booked[b] + Party[call.trip] <= Capacity[b] ELSE booked[b] >= Party[call.trip]
    BY <1>6, <2>1 DEF Take, GiveBack, IInv, TypeOK
  <2>4. SeatsAtReturn[b] = booked[b]
    BY <1>4, <2>1, <2>2
  <2> DEFINE S == call.done \cup {b}
  <2>5. \A x \in S : IF call.op = "sell"
                       THEN /\ SeatsAtReturn[x] + Party[call.trip] <= Capacity[x]
                            /\ booked'[x] = SeatsAtReturn[x] + Party[call.trip]
                       ELSE /\ SeatsAtReturn[x] >= Party[call.trip]
                            /\ booked'[x] = SeatsAtReturn[x] - Party[call.trip]
    <3>1. \A x \in call.done : x \in BookingClasses /\ booked'[x] = booked[x]
      BY <2>2, <2>3, SeatsBefore
    <3> QED
      BY <1>1, <2>3, <2>4, <3>1, SeatsBefore
  <2>6. S \in SUBSET TripBookings(Choice)
    BY <1>4, <2>2
  <2>7. \A x \in BookingClasses \ S : booked'[x] = SeatsAtReturn[x]
    BY <1>4, <2>3
  <2> HIDE DEF S
  <2> QED
    BY <1>1, <1>2, <2>5, <2>6, <2>7, EndSettles
<1> QED
  BY <1>3, <1>5, <1>6

\* A turn of the loop that goes on moves a seat and remembers that it did.
LEMMA TurnStutters ==
  ASSUME IInv, [Next]_vars, NEW b, LegTurn(b), call' # Idle
  PROVE  UNCHANGED Promise!vars
<1>1. UNCHANGED choice /\ call.trip \in Trips
  BY DEF LegTurn
<1>2. CASE NextLeg(FALSE, {}) /\ UNCHANGED booked
  <2>1. /\ call'.done = call.done /\ call'.op = call.op /\ call'.trip = call.trip
        /\ UNCHANGED <<booked, belief>>
    BY <1>2 DEF NextLeg
  <2>2. SeatsAtReturn' = SeatsAtReturn
    BY <2>1 DEF SeatsAtReturn
  <2> QED
    BY <1>1, <2>1, <2>2, Stutters
<1>3. CASE /\ b \in BookingClasses /\ NextLeg(TRUE, {b})
           /\ IF call.op = "sell" THEN Take(call.trip, b) ELSE GiveBack(call.trip, b)
  <2>1. /\ call'.done = call.done \cup {b} /\ call'.op = call.op /\ call'.trip = call.trip
        /\ UNCHANGED belief /\ call.op \in {"sell", "cancel"}
    BY <1>3 DEF NextLeg, LegTurn
  <2>2. b \notin call.done
    BY <1>3, LegIsFresh DEF LegTurn, LegBookings
  <2>3. Party[call.trip] \in Nat /\ booked \in [BookingClasses -> Nat] /\ booked[b] \in Nat
    BY <1>1, <1>3, PartyAssumption DEF IInv, TypeOK
  <2>4. \A x \in BookingClasses : booked'[x] =
           IF x # b THEN booked[x]
           ELSE IF call.op = "sell" THEN booked[x] + Party[call.trip] ELSE booked[x] - Party[call.trip]
    BY <1>3, <2>1, <2>3 DEF Take, GiveBack
  <2>5. CASE call.op = "sell"
    <3>1. \A x \in BookingClasses :
             (IF x \notin call'.done THEN booked'[x] ELSE booked'[x] - Party[call.trip])
              = IF x \notin call.done THEN booked[x] ELSE booked[x] - Party[call.trip]
      BY <2>1, <2>2, <2>3, <2>4, <2>5
    <3>2. SeatsAtReturn' = SeatsAtReturn
      BY <2>1, <2>5, <3>1 DEF SeatsAtReturn
    <3> QED
      BY <1>1, <2>1, <3>2, Stutters
  <2>6. CASE call.op = "cancel"
    <3>0. booked[b] >= Party[call.trip]
      BY <1>3, <2>6 DEF GiveBack
    <3>1. \A x \in BookingClasses :
             (IF x \notin call'.done THEN booked'[x] ELSE booked'[x] + Party[call.trip])
              = IF x \notin call.done THEN booked[x] ELSE booked[x] + Party[call.trip]
      BY <2>1, <2>2, <2>3, <2>4, <2>6, <3>0
    <3>2. SeatsAtReturn' = SeatsAtReturn
      BY <2>1, <2>6, <3>1 DEF SeatsAtReturn
    <3> QED
      BY <1>1, <2>1, <3>2, Stutters
  <2> QED
    BY <2>1, <2>5, <2>6
<1> QED
  BY <1>2, <1>3, TurnOutcomes

\* The overload for one segment is a sale of a one-leg itinerary.
LEMMA SegmentSaleSettles ==
  ASSUME IInv, [Next]_vars, NEW t \in Trips, SellSegment(t)
  PROVE  Promise!LegwiseNext \/ UNCHANGED Promise!vars
<1>1. /\ call = Idle /\ call' = Idle /\ UNCHANGED choice /\ belief[t] = "open"
      /\ Len(choice[t].path) = 1
  BY DEF SellSegment, MaySell, IInv
<1>2. SeatsAtReturn = booked /\ SeatsAtReturn' = booked' /\ booked \in [BookingClasses -> Nat]
  BY <1>1, GroundsHold, TypesStep, IdleFacts, NothingDone DEF IInv, TypeOK
<1>3. UNCHANGED <<LegsOfTrips, LastLegOfTrips>>
  BY <1>1, ItinerariesStay
<1>4. CASE UNCHANGED <<booked, belief>>
  BY <1>1, <1>2, <1>4, Stutters
<1>5. CASE belief' = [belief EXCEPT ![t] = "unknown"] /\ UNCHANGED booked
  <2>1. Promise!Take(t, {})
    BY <1>2, <1>5 DEF Promise!Take
  <2>2. Promise!SellLost(t, {})
    BY <1>1, <1>3, <1>5, <2>1 DEF Promise!SellLost
  <2> QED
    BY <2>2 DEF Promise!LegwiseNext, Promise!Settle
<1>6. ASSUME NEW c \in LegClass(choice[t], 1), Take(t, <<choice[t].path[1], c>>),
             NEW told \in {"booked", "unknown"}, belief' = [belief EXCEPT ![t] = told]
      PROVE  Promise!LegwiseNext
  <2> DEFINE b == <<choice[t].path[1], c>>
  <2>1. b \in BookingClasses
    BY <1>6 DEF Take
  <2>2. /\ choice[t].path \in Paths /\ Legs(choice[t]) = choice[t].path
        /\ LoopLength(choice[t]) = 1
    BY <1>1, LoopIsPath
  <2>3. b \in LegBookings(choice[t], 1) /\ 1 \in DOMAIN choice[t].path
    BY <1>1, <2>1, <2>2, PathFacts DEF LegBookings
  <2>4. b \in TripBookings(choice[t]) /\ b \in LastBookings(choice[t])
    BY <1>1, <2>2, <2>3 DEF TripBookings, LastBookings
  <2>5. {b} \in SUBSET LegsOfTrips[t] /\ {b} \cap LastLegOfTrips[t] # {}
    BY <2>4 DEF LegsOfTrips, LastLegOfTrips
  <2>6. booked' = [x \in BookingClasses |-> IF x \in {b} THEN booked[x] + Party[t] ELSE booked[x]]
    BY <1>2, <1>6, <2>1 DEF Take
  <2>7. Promise!Take(t, {b})
    BY <1>2, <1>6, <2>6 DEF Promise!Take, Take
  <2> HIDE DEF b
  <2>8. CASE told = "booked"
    <3>1. Promise!Sell(t, {b})
      BY <1>1, <1>3, <1>6, <2>5, <2>7, <2>8 DEF Promise!Sell
    <3> QED
      BY <2>5, <3>1 DEF Promise!LegwiseNext, Promise!Settle
  <2>9. CASE told = "unknown"
    <3>1. Promise!SellLost(t, {b})
      BY <1>1, <1>3, <1>6, <2>7, <2>9 DEF Promise!SellLost
    <3> QED
      BY <2>5, <3>1 DEF Promise!LegwiseNext, Promise!Settle
  <2> QED
    BY <1>6, <2>8, <2>9
<1> QED
  BY <1>4, <1>5, <1>6 DEF SellSegment

\* Settling on an itinerary is the contract's planning step.
LEMMA ChoicePlans ==
  ASSUME IInv, [Next]_vars, NEW t \in Trips, ChooseFare(t) \/ ChooseSegment(t)
  PROVE  Promise!LegwiseNext
<1>1. PICK sol \in TravelSolution : choice' = [choice EXCEPT ![t] = sol]
  BY GroundsHold, ChosenSolution
<1>2. /\ belief[t] = "looking" /\ belief' = [belief EXCEPT ![t] = "open"]
      /\ UNCHANGED <<booked, call>>
  BY GroundsHold, ChosenSolution
<1>3. UNCHANGED SeatsAtReturn
  BY <1>2 DEF SeatsAtReturn
<1>4. choice \in [Trips -> TravelSolution]
  BY DEF IInv, TypeOK
<1>5. \A u \in Trips : choice'[u] = IF u = t THEN sol ELSE choice[u]
  BY <1>1, <1>4
<1>6. /\ LegsOfTrips' = [LegsOfTrips EXCEPT ![t] = TripBookings(sol)]
      /\ LastLegOfTrips' = [LastLegOfTrips EXCEPT ![t] = LastBookings(sol)]
  <2>1. LegsOfTrips' = [u \in Trips |-> TripBookings(choice'[u])]
    BY DEF LegsOfTrips, TripBookings, LegBookings, Legs, ByIds
  <2>2. LastLegOfTrips' = [u \in Trips |-> LastBookings(choice'[u])]
    BY DEF LastLegOfTrips, LastBookings, TripBookings, LegBookings, Legs, LoopLength, ByIds
  <2> QED
    BY <1>5, <2>1, <2>2 DEF LegsOfTrips, LastLegOfTrips
<1>7. TripBookings(sol) \in SUBSET BookingClasses /\ LastBookings(sol) \in SUBSET TripBookings(sol)
  BY ItineraryBookings
<1>8. Promise!Plan(t)
  BY <1>2, <1>3, <1>6, <1>7 DEF Promise!Plan
<1> QED
  BY <1>8 DEF Promise!LegwiseNext

\* A step that moves no seat and tells the caller nothing.
LEMMA QuietStutters ==
  ASSUME UNCHANGED <<booked, choice, belief>>,
         \/ call.done = {} /\ call'.done = {}
         \/ /\ call'.done = call.done /\ call'.trip = call.trip
            /\ call'.op # "cancel" /\ call.op # "cancel"
  PROVE  UNCHANGED Promise!vars
<1>1. SeatsAtReturn' = SeatsAtReturn
  BY DEF SeatsAtReturn
<1> QED
  BY <1>1, Stutters

\* Every step of the code is a step of the contract or none.
LEMMA StepRefines ==
  ASSUME IInv, [Next]_vars
  PROVE  Promise!LegwiseNext \/ UNCHANGED Promise!vars
<1>1. call \in Call /\ DoneCounted
  BY DEF IInv, TypeOK
<1>2. ASSUME NEW t \in Trips,
             CalculateSegmentPathList(t) \/ FareQuote(t) \/ FareQuoteThrow(t)
      PROVE  UNCHANGED Promise!vars
  <2>1. UNCHANGED <<booked, choice, belief>> /\ call = Idle /\ call' = Idle
    BY <1>2 DEF CalculateSegmentPathList, FareQuote, FareQuoteThrow, PriceOnly
  <2> QED
    BY <2>1, IdleFacts, QuietStutters
<1>3. ASSUME NEW t \in Trips, AvailabilityBegin(t) \/ SellBegin(t) \/ CancelBegin(t)
      PROVE  UNCHANGED Promise!vars
  <2>1. UNCHANGED <<booked, choice, belief>> /\ call.done = {} /\ call'.done = {}
    BY <1>3, BeginFacts, IdleFacts DEF AvailabilityBegin, SellBegin, CancelBegin, Ops
  <2> QED
    BY <2>1, QuietStutters
<1>4. CASE AvailabilitySolution \/ AvailabilityThrow \/ AvailabilityReturn
  <2>1. UNCHANGED <<booked, choice, belief>> /\ call.done = {} /\ call'.done = {}
    BY <1>1, <1>4, IdleFacts
    DEF AvailabilitySolution, AvailabilityThrow, AvailabilityReturn, DoneCounted, Call
  <2> QED
    BY <2>1, QuietStutters
<1>5. CASE SellAbort
  <2>1. /\ UNCHANGED <<booked, choice, belief>> /\ call'.done = call.done
        /\ call'.trip = call.trip /\ call'.op # "cancel" /\ call.op # "cancel"
    BY <1>1, <1>5 DEF SellAbort, InSellLoop, Call
  <2> QED
    BY <2>1, QuietStutters
<1>6. CASE SellLegById \/ SellLegByKey \/ CancelLeg
  BY <1>6, LegTurns, ThrowSettles, TurnStutters
<1>7. CASE UNCHANGED vars
  <2>1. UNCHANGED <<choice, belief>> /\ SeatsAtReturn' = SeatsAtReturn
    BY <1>7 DEF vars, SeatsAtReturn
  <2> QED
    BY <2>1, Stutters
<1> QED
  BY <1>2, <1>3, <1>4, <1>5, <1>6, <1>7, ReturnSettles, SegmentSaleSettles, ChoicePlans
  DEF Next, CallStep, CallerStep

\* Every behaviour of the distribution core, calls interrupted by exceptions and aborts
\* included, is one of the leg-by-leg contract: a call changes booking classes of its own
\* itinerary by its own party, and answers for the last leg.
THEOREM KeepsLegwiseContract ==
  ASSUME Careful
  PROVE  Spec => ImplementsLegwise
<1>1. Init => Promise!Init
  <2> SUFFICES ASSUME Init PROVE Promise!Init
    OBVIOUS
  <2>1. SeatsAtReturn = [b \in BookingClasses |-> 0]
    BY IdleFacts DEF Init, SeatsAtReturn
  <2>2. TripBookings(Unpriced(<<>>)) = {}
    BY EmptySeq DEF TripBookings, Legs, Unpriced
  <2>3. LastBookings(Unpriced(<<>>)) = {}
    BY <2>2, ItineraryBookings
  <2>4. LegsOfTrips = [t \in Trips |-> {}] /\ LastLegOfTrips = [t \in Trips |-> {}]
    BY <2>2, <2>3 DEF Init, LegsOfTrips, LastLegOfTrips
  <2> QED
    BY <2>1, <2>4 DEF Init, Promise!Init
<1>2. IInv /\ [Next]_vars => [Promise!LegwiseNext]_Promise!vars
  BY StepRefines
<1> QED
  BY <1>1, <1>2, Inductive, PTL DEF Spec, ImplementsLegwise, Promise!LegwiseSpec
--------------------------------------------------------------------------------
(* Itineraries of one leg *)

\* The schedule and the tariff of a caller who sells one leg at a time.
OneLegged ==
  \A p \in Paths : Len(p) = 1 /\ \A cp \in Tariff[p] : cp # <<>>

\* Fares are those SimFQT quotes for their path.
FaresQuoted ==
  \A t \in Trips : \A i \in DOMAIN solutions[t] :
    solutions[t][i].fares \subseteq Tariff[solutions[t][i].path]

\* A caller who has chosen has a class path with something in it.
ClassesNamed ==
  \A t \in Trips : belief[t] # "looking" => choice[t].classPath # <<>>

OneLegGrounds == Careful /\ Grounds /\ FaresQuoted /\ ClassesNamed

OneLegInv == IInv /\ FaresQuoted /\ ClassesNamed

--------------------------------------------------------------------------------

\* A search forgets the fares, a quote brings those of the tariff, and an availability
\* request leaves them alone.
LEMMA FaresStep ==
  ASSUME Grounds, FaresQuoted, [Next]_vars
  PROVE  FaresQuoted'
<1>1. solutions \in [Trips -> Seq(TravelSolution)] /\ call \in Call
  BY DEF Grounds, TypeOK
<1>2. CASE UNCHANGED solutions
  BY <1>2 DEF FaresQuoted
<1>3. ASSUME NEW t \in Trips, NEW q, solutions' = [solutions EXCEPT ![t] = q],
             \A i \in DOMAIN q : q[i].fares \subseteq Tariff[q[i].path]
      PROVE  FaresQuoted'
  BY <1>1, <1>3 DEF FaresQuoted
<1>4. ASSUME NEW t \in Trips, CalculateSegmentPathList(t)
      PROVE  FaresQuoted'
  <2>1. PICK l \in SearchLists :
          solutions' = [solutions EXCEPT ![t] = [i \in DOMAIN l |-> Unpriced(l[i])]]
    BY <1>4 DEF CalculateSegmentPathList
  <2> DEFINE q == [i \in DOMAIN l |-> Unpriced(l[i])]
  <2>2. \A i \in DOMAIN q : q[i].fares = {}
    BY DEF Unpriced
  <2> HIDE DEF q
  <2>3. \A i \in DOMAIN q : q[i].fares \subseteq Tariff[q[i].path]
    BY <2>2
  <2>4. solutions' = [solutions EXCEPT ![t] = q]
    BY <2>1 DEF q
  <2> QED
    BY <1>3, <2>3, <2>4
<1>5. ASSUME NEW t \in Trips, NEW S, PriceOnly(t, S)
      PROVE  FaresQuoted'
  <2> DEFINE q == [i \in DOMAIN solutions[t] |->
                     IF i \in S THEN Priced(solutions[t][i]) ELSE solutions[t][i]]
  <2>1. solutions' = [solutions EXCEPT ![t] = q]
    BY <1>1, <1>5 DEF PriceOnly
  <2>2. \A i \in DOMAIN solutions[t] : solutions[t][i] \in TravelSolution
    BY <1>1, LenProperties, ElementOfSeq
  <2>3. ASSUME NEW i \in DOMAIN q
        PROVE  q[i].fares \subseteq Tariff[q[i].path]
    <3>1. CASE i \in S
      <4>1. q[i] = [solutions[t][i] EXCEPT !.fares = Tariff[solutions[t][i].path]]
        BY <3>1 DEF Priced
      <4>2. q[i].fares = Tariff[solutions[t][i].path] /\ q[i].path = solutions[t][i].path
        BY <2>2, <4>1 DEF TravelSolution
      <4> QED
        BY <4>2
    <3>2. CASE i \notin S
      BY <3>2 DEF FaresQuoted
    <3> QED
      BY <3>1, <3>2
  <2> HIDE DEF q
  <2> QED
    BY <1>3, <2>1, <2>3
<1>6. CASE AvailabilitySolution \/ AvailabilityThrow
  <2> DEFINE t == call.trip
             k == call.leg
  <2>1. /\ t \in Trips /\ k \in DOMAIN solutions[t]
        /\ solutions[t][k] \in TravelSolution
    BY <1>1, <1>6, RequestAt, LenProperties, ElementOfSeq
    DEF AvailabilitySolution, AvailabilityThrow
  <2>2. \/ solutions' = [solutions EXCEPT ![t] = <<>>]
        \/ \E maps : solutions' = [solutions EXCEPT ![t][k].held = maps]
    BY <1>6 DEF AvailabilitySolution, AvailabilityThrow
  <2>3. ASSUME NEW maps, solutions' = [solutions EXCEPT ![t][k].held = maps]
        PROVE  FaresQuoted'
    <3> DEFINE r == [solutions[t][k] EXCEPT !.held = maps]
               q == [solutions[t] EXCEPT ![k] = r]
    <3>1. r.fares = solutions[t][k].fares /\ r.path = solutions[t][k].path
      BY <2>1 DEF TravelSolution
    <3>2. solutions' = [solutions EXCEPT ![t] = q]
      BY <2>3
    <3> HIDE DEF r
    <3>3. \A i \in DOMAIN q : q[i].fares \subseteq Tariff[q[i].path]
      <4>1. \A i \in DOMAIN q : i \in DOMAIN solutions[t] /\ q[i] = IF i = k THEN r ELSE solutions[t][i]
        BY <2>1
      <4> QED
        BY <2>1, <3>1, <4>1 DEF FaresQuoted
    <3> HIDE DEF q, t
    <3> QED
      BY <1>3, <2>1, <3>2, <3>3
  <2>4. DOMAIN <<>> = {}
    BY EmptySeq
  <2> HIDE DEF t, k
  <2> QED
    BY <1>3, <2>1, <2>2, <2>3, <2>4
<1>7. \/ UNCHANGED solutions \/ AvailabilitySolution \/ AvailabilityThrow
      \/ \E t \in Trips : CalculateSegmentPathList(t) \/ \E S : PriceOnly(t, S)
  BY DEF Next, CallStep, CallerStep, vars, AvailabilityReturn, FareQuote, FareQuoteThrow,
     SellLegById, SellLegByKey, SellAbort, SellReturn, CancelLeg, CancelReturn,
     AvailabilityBegin, ChooseFare, ChooseSegment, SellBegin, SellSegment, CancelBegin
<1> QED
  BY <1>2, <1>4, <1>5, <1>6, <1>7

\* A caller chooses a fare of the tariff, or names the class itself.
LEMMA NamedStep ==
  ASSUME OneLegged, OneLegGrounds, [Next]_vars
  PROVE  ClassesNamed'
<1>1. /\ choice \in [Trips -> TravelSolution] /\ belief \in [Trips -> Beliefs]
      /\ solutions \in [Trips -> Seq(TravelSolution)]
  BY DEF OneLegGrounds, Grounds, TypeOK
<1>2. ASSUME UNCHANGED choice, \A t \in Trips : belief'[t] # "looking" => belief[t] # "looking"
      PROVE  ClassesNamed'
  BY <1>2 DEF OneLegGrounds, ClassesNamed
<1>3. ASSUME NEW t \in Trips, ChooseFare(t) \/ ChooseSegment(t)
      PROVE  ClassesNamed'
  <2>1. belief' = [belief EXCEPT ![t] = "open"]
    BY <1>3, ChosenSolution DEF OneLegGrounds
  <2>2. choice'[t].classPath # <<>> /\ \A u \in Trips \ {t} : choice'[u] = choice[u]
    <3>1. CASE ChooseFare(t)
      <4>0. PICK i \in DOMAIN solutions[t] : \E cp \in solutions[t][i].fares :
              choice' = [choice EXCEPT ![t] = [solutions[t][i] EXCEPT !.classPath = cp]]
        BY <3>1 DEF ChooseFare
      <4>1. PICK cp \in solutions[t][i].fares :
              choice' = [choice EXCEPT ![t] = [solutions[t][i] EXCEPT !.classPath = cp]]
        BY <4>0
      <4>2. solutions[t][i] \in TravelSolution
        BY <1>1, LenProperties, ElementOfSeq
      <4>3. cp # <<>>
        BY DEF OneLegGrounds, FaresQuoted, Grounds, OnPaths, OneLegged
      <4>4. [solutions[t][i] EXCEPT !.classPath = cp].classPath = cp
        BY <4>2 DEF TravelSolution
      <4> QED
        BY <1>1, <4>1, <4>3, <4>4
    <3>2. CASE ChooseSegment(t)
      <4>1. PICK p \in Paths, c \in Classes :
              choice' = [choice EXCEPT ![t] = [Unpriced(p) EXCEPT !.classPath = << <<c>> >>]]
        BY <3>2 DEF ChooseSegment
      <4>2. [Unpriced(p) EXCEPT !.classPath = << <<c>> >>].classPath = << <<c>> >>
        BY DEF Unpriced
      <4>3. << <<c>> >> # <<>>
        OBVIOUS
      <4> QED
        BY <1>1, <4>1, <4>2, <4>3
    <3> QED
      BY <1>3, <3>1, <3>2
  <2> QED
    BY <1>1, <2>1, <2>2 DEF OneLegGrounds, ClassesNamed
<1>4. CASE SellLegById \/ SellLegByKey \/ CancelLeg
  <2>1. /\ call.op \in {"sell", "cancel"} /\ UNCHANGED choice
        /\ \E b : AirInvSell(b) \/ AirInvCancel(b)
    BY <1>4 DEF SellLegById, SellLegByKey, CancelLeg, InSellLoop
  <2>2. belief[call.trip] # "looking" /\ call.trip \in Trips
    BY <2>1, CallHasTrip DEF OneLegGrounds, Grounds, CallerWaits
  <2>3. belief' = belief \/ belief' = [belief EXCEPT ![call.trip] = "unknown"]
    BY <2>1 DEF AirInvSell, AirInvCancel, Refused, NextLeg, Thrown
  <2> QED
    BY <1>1, <1>2, <2>1, <2>2, <2>3
<1>5. CASE SellReturn \/ CancelReturn
  <2>1. call.op \in {"sell", "cancel"} /\ UNCHANGED choice
    BY <1>5 DEF SellReturn, CancelReturn
  <2>2. belief[call.trip] # "looking" /\ call.trip \in Trips
    BY <2>1, CallHasTrip DEF OneLegGrounds, Grounds, CallerWaits
  <2>3. \E told : belief' = [belief EXCEPT ![call.trip] = told]
    BY <1>5 DEF SellReturn, CancelReturn
  <2> QED
    BY <1>1, <1>2, <2>1, <2>2, <2>3
<1>6. ASSUME NEW t \in Trips, SellSegment(t)
      PROVE  ClassesNamed'
  <2>1. belief[t] # "looking" /\ UNCHANGED choice
    BY <1>6 DEF SellSegment, MaySell
  <2>2. belief' = belief \/ \E told : belief' = [belief EXCEPT ![t] = told]
    BY <1>6 DEF SellSegment
  <2> QED
    BY <1>1, <1>2, <2>1, <2>2
<1>8. CASE UNCHANGED <<choice, belief>>
  BY <1>2, <1>8
<1>9. \/ UNCHANGED <<choice, belief>>
      \/ SellLegById \/ SellLegByKey \/ CancelLeg \/ SellReturn \/ CancelReturn
      \/ \E t \in Trips : ChooseFare(t) \/ ChooseSegment(t) \/ SellSegment(t)
  BY DEF Next, CallStep, CallerStep, vars, AvailabilitySolution, AvailabilityThrow,
     AvailabilityReturn, SellAbort, CalculateSegmentPathList, FareQuote, FareQuoteThrow,
     PriceOnly, AvailabilityBegin, SellBegin, CancelBegin
<1> QED
  BY <1>3, <1>4, <1>5, <1>6, <1>8, <1>9

--------------------------------------------------------------------------------

\* An itinerary of one leg touches at most one booking class, on its last leg.
LEMMA OneClass ==
  ASSUME OneLegged, OneLegGrounds, NEW t \in Trips
  PROVE  /\ LastBookings(choice[t]) = TripBookings(choice[t])
         /\ \A a, b \in TripBookings(choice[t]) : a = b
<1>1. CASE belief[t] = "looking"
  <2>1. Legs(choice[t]) = <<>>
    BY <1>1 DEF OneLegGrounds, Grounds, CallerWaits, Unpriced, Legs
  <2>2. TripBookings(choice[t]) = {}
    BY <2>1, EmptySeq DEF TripBookings
  <2> QED
    BY <2>2 DEF LastBookings
<1>2. CASE belief[t] # "looking"
  <2> DEFINE sol == choice[t]
  <2>1. /\ sol.path \in Paths /\ sol.classPath # <<>> /\ sol.classPath \in Seq(Seq(Classes))
        /\ sol \in TravelSolution
    BY <1>2 DEF OneLegGrounds, Grounds, CallerWaits, ClassesNamed, TypeOK, TravelSolution
  <2>2. /\ Len(sol.path) = 1 /\ DOMAIN sol.path = {1}
        /\ Legs(sol) = sol.path /\ LoopLength(sol) = 1
    <3>1. Aligned(sol)
      BY DEF OneLegGrounds, Grounds, MapsKept, Mapped
    <3> QED
      BY <2>1, <3>1, AlignedLegs, PathFacts DEF OneLegged
  <2>3. 1 \in DOMAIN sol.classPath
    <3>1. Len(sol.classPath) \in Nat \ {0} /\ DOMAIN sol.classPath = 1 .. Len(sol.classPath)
      BY <2>1, LenProperties, EmptySeq
    <3> QED
      BY <3>1
  <2> HIDE DEF sol
  <2>4. TripBookings(sol) = LegBookings(sol, 1)
    BY <2>2 DEF TripBookings
  <2>5. \A b \in LegBookings(sol, 1) :
          b = <<b[1], b[2]>> /\ b[1] = sol.path[1] /\ b[2] = sol.classPath[1][1]
    BY <2>2, <2>3 DEF LegBookings, LegClass, BookingClasses
  <2>6. \A a, b \in TripBookings(sol) : a = b
    BY <2>4, <2>5
  <2>7. LastBookings(sol) = TripBookings(sol)
    BY <2>2, <2>4, <2>5 DEF LastBookings
  <2> QED
    BY <2>6, <2>7 DEF sol
<1> QED
  BY <1>1, <1>2

\* Any part of such an itinerary is nothing or the whole.
LEMMA PartsAreWhole ==
  ASSUME OneLegged, OneLegGrounds, NEW t \in Trips, NEW S \in SUBSET LegsOfTrips[t]
  PROVE  S \in Promise!Whole(t)
<1>1. LegsOfTrips[t] = TripBookings(choice[t]) /\ LastLegOfTrips[t] = LegsOfTrips[t]
  BY OneClass DEF LegsOfTrips, LastLegOfTrips
<1>2. S = {} \/ S = LegsOfTrips[t]
  BY <1>1, OneClass
<1> QED
  BY <1>1, <1>2 DEF Promise!Whole

--------------------------------------------------------------------------------

\* The grounds of one-leg itineraries are part of their invariant.
LEMMA OneLegGroundsHold == OneLegInv => OneLegGrounds
BY GroundsHold DEF OneLegInv, OneLegGrounds, IInv

\* Every step keeps the invariant of one-leg itineraries.
LEMMA OneLegInvStep ==
  ASSUME OneLegged, OneLegInv, [Next]_vars
  PROVE  OneLegInv'
<1>1. IInv /\ OneLegGrounds /\ Grounds /\ FaresQuoted
  BY OneLegGroundsHold DEF OneLegInv, OneLegGrounds
<1> QED
  BY <1>1, InvStep, FaresStep, NamedStep DEF OneLegInv

\* Every step of the code is a step of the all-or-nothing contract or none.
LEMMA OneLegStep ==
  ASSUME OneLegged, OneLegInv, [Next]_vars
  PROVE  Promise!AtomicNext \/ UNCHANGED Promise!vars
<1>1. Promise!LegwiseNext \/ UNCHANGED Promise!vars
  BY StepRefines DEF OneLegInv
<1>2. CASE Promise!LegwiseNext
  BY <1>2, OneLegGroundsHold, PartsAreWhole DEF Promise!LegwiseNext, Promise!AtomicNext
<1> QED
  BY <1>1, <1>2

\* What is known of one-leg itineraries holds at every step.
LEMMA OneLegInductive ==
  ASSUME OneLegged, Careful
  PROVE  Spec => []OneLegInv
<1>1. Init => OneLegInv
  BY InitIInv DEF Init, OneLegInv, FaresQuoted, ClassesNamed
<1>2. OneLegInv /\ [Next]_vars => OneLegInv'
  BY OneLegInvStep
<1> QED
  BY <1>1, <1>2, PTL DEF Spec

\* On itineraries of one leg every call of the code books or releases the whole
\* itinerary or nothing, whatever throws and whoever competes for the seats.
THEOREM OneLegIsAtomic ==
  ASSUME OneLegged, Careful
  PROVE  Spec => ImplementsAtomic
<1>1. ASSUME OneLegInv, [Next]_vars
      PROVE  [Promise!AtomicNext]_Promise!vars
  BY <1>1, OneLegStep
<1>2. Spec => Promise!Init
  BY KeepsLegwiseContract, PTL DEF ImplementsLegwise, Promise!LegwiseSpec
<1> QED
  BY <1>1, <1>2, OneLegInductive, PTL DEF Spec, ImplementsAtomic, Promise!AtomicSpec

--------------------------------------------------------------------------------
(* Seats and answers *)

\* st and st2 say what the callers believe, before and after a step, except that a
\* booking may be left out as long as its caller goes on believing in it.
Echoes(st, st2) ==
  \A t \in Trips :
    /\ belief'[t] = belief[t] => st2[t] = st[t]
    /\ belief[t] = "looking" => {st[t], st2[t]} \cap {"booked", "unknown"} = {}
    /\ belief[t] = "open" => st[t] = "open" /\ st2[t] = belief'[t]
    /\ belief[t] = "booked" =>
         \/ st[t] = "booked" /\ st2[t] = belief'[t]
         \/ belief'[t] = "booked" /\ st[t] = "open" /\ st2[t] = "open"

\* A call that settles under the contract settles in the words of the counting lemmas;
\* a booking left out can only be refused.
LEMMA SettleCounts ==
  ASSUME belief \in [Trips -> Beliefs],
         NEW t \in Trips, NEW S \in Promise!Whole(t), Promise!Settle(t, S),
         LastLegOfTrips[t] \subseteq LegsOfTrips[t],
         NEW st, NEW st2, Echoes(st, st2)
  PROVE  /\ UNCHANGED LegsOfTrips
         /\ Settling(Trips, BookingClasses, Party, LegsOfTrips,
                     SeatsAtReturn, SeatsAtReturn', st, st2, t, S)
<1>1. S = {} \/ (S = LegsOfTrips[t] /\ S \cap LastLegOfTrips[t] # {})
  BY DEF Promise!Whole
<1>2. UNCHANGED LegsOfTrips /\ \A u \in Trips \ {t} : belief'[u] = belief[u]
  BY DEF Promise!Settle, Promise!Sell, Promise!SellLost, Promise!Cancel, Promise!CancelLost
<1>3. \A u \in Trips \ {t} : st2[u] = st[u]
  BY <1>2 DEF Echoes
<1>4. CASE Promise!Sell(t, S) \/ Promise!SellLost(t, S)
  <2>1. belief[t] = "open" /\ Promise!Take(t, S)
    BY <1>4 DEF Promise!Sell, Promise!SellLost
  <2>2. belief'[t] \in {"unknown", IF S \cap LastLegOfTrips[t] # {} THEN "booked" ELSE "open"}
    BY <1>4 DEF Promise!Sell, Promise!SellLost
  <2>3. st[t] = "open" /\ st2[t] = belief'[t]
    BY <2>1 DEF Echoes
  <2>4. \A b \in BookingClasses :
          SeatsAtReturn'[b] = IF b \in S THEN SeatsAtReturn[b] + Party[t] ELSE SeatsAtReturn[b]
    BY <2>1 DEF Promise!Take
  <2> QED
    BY <1>1, <1>2, <1>3, <2>2, <2>3, <2>4 DEF Settling, Gains
<1>5. CASE Promise!Cancel(t, S) \/ Promise!CancelLost(t, S)
  <2>1. belief[t] = "booked" /\ Promise!GiveBack(t, S)
    BY <1>5 DEF Promise!Cancel, Promise!CancelLost
  <2>2. belief'[t] \in {"unknown", IF S \cap LastLegOfTrips[t] # {} THEN "open" ELSE "booked"}
    BY <1>5 DEF Promise!Cancel, Promise!CancelLost
  <2>3. \A b \in BookingClasses :
          /\ b \in S => SeatsAtReturn[b] >= Party[t]
          /\ SeatsAtReturn'[b] = IF b \in S THEN SeatsAtReturn[b] - Party[t] ELSE SeatsAtReturn[b]
    BY <2>1 DEF Promise!GiveBack
  <2>4. CASE st[t] = "booked" /\ st2[t] = belief'[t]
    BY <1>1, <1>2, <1>3, <2>2, <2>3, <2>4 DEF Settling, Loses
  <2>5. CASE belief'[t] = "booked" /\ st[t] = "open" /\ st2[t] = "open"
    <3>1. S = {}
      BY <1>1, <2>2, <2>5
    <3>2. \A b \in BookingClasses : SeatsAtReturn'[b] = SeatsAtReturn[b]
      BY <2>3, <3>1
    <3> QED
      BY <1>2, <1>3, <2>5, <3>1, <3>2 DEF Settling, Gains
  <2> QED
    BY <2>1, <2>4, <2>5 DEF Echoes
<1> QED
  BY <1>2, <1>4, <1>5 DEF Promise!Settle

\* Settling moves whole parties and never below zero.
LEMMA SettledSeats ==
  ASSUME SeatsAtReturn \in [BookingClasses -> Nat],
         NEW t \in Trips, NEW S, Promise!Settle(t, S)
  PROVE  SeatsAtReturn' \in [BookingClasses -> Nat]
<1>1. Party[t] \in Nat /\ \A b \in BookingClasses : SeatsAtReturn[b] \in Nat
  BY PartyAssumption
<1>2. CASE Promise!Take(t, S)
  BY <1>1, <1>2 DEF Promise!Take
<1>3. CASE Promise!GiveBack(t, S)
  BY <1>1, <1>3 DEF Promise!GiveBack
<1> QED
  BY <1>2, <1>3
  DEF Promise!Settle, Promise!Sell, Promise!SellLost, Promise!Cancel, Promise!CancelLost

\* On itineraries of one leg a step keeps seats and answers agreed, whichever bookings
\* are left out.
LEMMA AgreeingStep ==
  ASSUME OneLegged, OneLegInv, [Next]_vars, NEW st, NEW st2, Echoes(st, st2),
         IsFiniteSet(Settled(Trips, st)),
         Agrees(Trips, BookingClasses, Party, SeatsAtReturn, st, LegsOfTrips)
  PROVE  /\ IsFiniteSet(Settled(Trips, st2))
         /\ Agrees(Trips, BookingClasses, Party, SeatsAtReturn', st2, LegsOfTrips')
<1>1. /\ belief \in [Trips -> Beliefs] /\ Party \in [Trips -> Nat]
      /\ SeatsAtReturn \in [BookingClasses -> Nat]
  BY PartyAssumption, SeatsBefore DEF OneLegInv, IInv, TypeOK
<1>2. CASE UNCHANGED Promise!vars
  <2>1. UNCHANGED <<SeatsAtReturn, LegsOfTrips, belief>>
    BY <1>2 DEF Promise!vars
  <2>2. \A t \in Trips : st2[t] = st[t]
    BY <2>1 DEF Echoes
  <2> QED
    BY <2>1, <2>2, QuietAgrees
<1>3. ASSUME NEW t \in Trips, Promise!Plan(t)
      PROVE  /\ IsFiniteSet(Settled(Trips, st2))
             /\ Agrees(Trips, BookingClasses, Party, SeatsAtReturn', st2, LegsOfTrips')
  <2>1. /\ belief[t] = "looking" /\ belief' = [belief EXCEPT ![t] = "open"]
        /\ UNCHANGED SeatsAtReturn
        /\ \E L : LegsOfTrips' = [LegsOfTrips EXCEPT ![t] = L]
    BY <1>3 DEF Promise!Plan
  <2>2. \A u \in Trips \ {t} : belief'[u] = belief[u] /\ LegsOfTrips'[u] = LegsOfTrips[u]
    BY <1>1, <2>1 DEF LegsOfTrips
  <2>3. \A u \in Trips : \/ st2[u] = st[u] /\ LegsOfTrips'[u] = LegsOfTrips[u]
                         \/ {st[u], st2[u]} \cap {"booked", "unknown"} = {}
    BY <2>1, <2>2 DEF Echoes
  <2> QED
    BY <2>1, <2>3, QuietAgrees
<1>4. ASSUME NEW t \in Trips, NEW S \in Promise!Whole(t), Promise!Settle(t, S)
      PROVE  /\ IsFiniteSet(Settled(Trips, st2))
             /\ Agrees(Trips, BookingClasses, Party, SeatsAtReturn', st2, LegsOfTrips')
  <2>1. LastLegOfTrips[t] \subseteq LegsOfTrips[t]
    BY ItineraryBookings DEF LastLegOfTrips, LegsOfTrips
  <2>2. /\ UNCHANGED LegsOfTrips
        /\ Settling(Trips, BookingClasses, Party, LegsOfTrips,
                    SeatsAtReturn, SeatsAtReturn', st, st2, t, S)
    BY <1>1, <1>4, <2>1, SettleCounts
  <2>3. SeatsAtReturn' \in [BookingClasses -> Nat]
    BY <1>1, <1>4, SettledSeats
  <2> QED
    BY <1>1, <2>2, <2>3, SettlingAgrees
<1> QED
  BY <1>2, <1>3, <1>4, OneLegStep DEF Promise!AtomicNext

\* Seats and answers agree, and finitely many trips have been settled.
Reconciling ==
  /\ IsFiniteSet(Settled(Trips, belief))
  /\ Agrees(Trips, BookingClasses, Party, SeatsAtReturn, belief, LegsOfTrips)

\* On itineraries of one leg what callers were told agrees with what AirInv has booked:
\* no order of competing sales, cancellations and exceptions loses or invents a seat.
THEOREM OneLegReconciles ==
  ASSUME OneLegged, Careful
  PROVE  Spec => []Reconciled
<1>1. Init => Reconciling
  <2> SUFFICES ASSUME Init PROVE Reconciling
    OBVIOUS
  <2>1. \A b \in BookingClasses : SeatsAtReturn[b] = 0
    BY IdleFacts DEF Init, SeatsAtReturn
  <2>2. \A t \in Trips : belief[t] \notin {"booked", "unknown"}
    BY DEF Init
  <2> QED
    BY <2>1, <2>2, EmptyAgrees DEF Reconciling
<1>2. OneLegInv /\ Reconciling /\ [Next]_vars => Reconciling'
  <2> SUFFICES ASSUME OneLegInv, Reconciling, [Next]_vars PROVE Reconciling'
    OBVIOUS
  <2>1. Echoes(belief, belief')
    <3>1. \A t \in Trips : belief[t] = "looking" => belief'[t] \notin {"booked", "unknown"}
      <4>1. CASE Promise!AtomicNext
        BY <4>1 DEF Promise!AtomicNext, Promise!Plan, Promise!Settle, Promise!Sell, Promise!SellLost,
           Promise!Cancel, Promise!CancelLost, OneLegInv, IInv, TypeOK
      <4>2. CASE UNCHANGED Promise!vars
        BY <4>2 DEF Promise!vars
      <4> QED
        BY <4>1, <4>2, OneLegStep
    <3> QED
      BY <3>1 DEF Echoes
  <2>2. /\ IsFiniteSet(Settled(Trips, belief'))
        /\ Agrees(Trips, BookingClasses, Party, SeatsAtReturn', belief', LegsOfTrips')
    BY <2>1, AgreeingStep DEF Reconciling
  <2> QED
    BY <2>2 DEF Reconciling, Settled, Agrees, Count, HoldersOf, PartiesOf
<1>3. Reconciling => Reconciled
  <2>1. \A S : Promise!Cardinality(S) = Cardinality(S)
    BY DEF Promise!Cardinality, Cardinality, Promise!IsFiniteSet, IsFiniteSet
  <2> QED
    BY <2>1 DEF Reconciling, Reconciled, Promise!Reconciled, Promise!Owned, Promise!SeatsOf,
       Promise!Holders, Agrees, Count, PartiesOf, HoldersOf
<1> QED
  BY <1>1, <1>2, <1>3, OneLegInductive, PTL DEF Spec

--------------------------------------------------------------------------------
(* Calls come to an end *)

InLoop == call.op \in {"avail", "sell", "cancel"}

\* The number of turns of the loop under way.
Turns == IF call.op = "avail" THEN Len(solutions[call.trip])
         ELSE IF call.op = "sell" THEN LoopLength(Choice)
         ELSE Len(ClassIdList(Choice))

\* The next turn of the same loop.
Turn ==
  /\ call'.op = call.op /\ call'.trip = call.trip
  /\ call.leg <= Turns /\ call'.leg = call.leg + 1 /\ Turns' = Turns

\* A call under way ends, or takes the next turn of a loop that has not grown.
CallsShorten == [][ InLoop => call'.op \in {"idle", "abort"} \/ Turn ]_vars

LEMMA CallEndsOrTurns ==
  ASSUME Grounds, Next, InLoop
  PROVE  call'.op \in {"idle", "abort"} \/ Turn
<1>1. /\ call \in Call /\ call.trip \in Trips /\ call.op # "idle" /\ call.leg \in Nat
      /\ solutions \in [Trips -> Seq(TravelSolution)]
  BY CallHasTrip DEF InLoop, Grounds, TypeOK, Call
<1>2. CASE AvailabilitySolution
  <2> DEFINE q == solutions[call.trip]
  <2>0. PICK maps : solutions' = [solutions EXCEPT ![call.trip][call.leg].held = maps]
    BY <1>2 DEF AvailabilitySolution
  <2> DEFINE s == [q EXCEPT ![call.leg].held = maps]
  <2>1. /\ call.op = "avail" /\ call.leg <= Len(q) /\ call' = [call EXCEPT !.leg = @ + 1]
        /\ solutions' = [solutions EXCEPT ![call.trip] = s]
    BY <1>2, <2>0 DEF AvailabilitySolution
  <2>2. call'.op = "avail" /\ call'.trip = call.trip /\ call'.leg = call.leg + 1
    BY <1>1, <2>1 DEF Call
  <2>3. solutions'[call.trip] = s /\ q \in Seq(TravelSolution)
    BY <1>1, <2>1
  <2>4. Len(s) = Len(q)
    BY <2>3, LenProperties
  <2> QED
    BY <2>1, <2>2, <2>3, <2>4 DEF Turn, Turns
<1>3. CASE AvailabilityThrow \/ AvailabilityReturn \/ SellReturn \/ CancelReturn
  BY <1>3, IdleFacts DEF AvailabilityThrow, AvailabilityReturn, SellReturn, CancelReturn
<1>4. CASE SellAbort
  BY <1>1, <1>4 DEF SellAbort, Call
<1>5. CASE SellLegById \/ SellLegByKey \/ CancelLeg
  <2>1. /\ call.op \in {"sell", "cancel"} /\ call.leg <= Turns /\ UNCHANGED choice
        /\ \E b : AirInvSell(b) \/ AirInvCancel(b)
    BY <1>5 DEF SellLegById, SellLegByKey, CancelLeg, InSellLoop, Turns
  <2>2. \/ call' = Idle
        \/ call'.op = call.op /\ call'.trip = call.trip /\ call'.leg = call.leg + 1
    BY <2>1 DEF AirInvSell, AirInvCancel, Refused, NextLeg, Thrown
  <2>3. call'.op = call.op /\ call'.trip = call.trip => Turns' = Turns
    BY <2>1 DEF Turns, Choice, LoopLength, Legs, ByIds, ClassIdList
  <2> QED
    BY <2>1, <2>2, <2>3, IdleFacts DEF Turn
<1> QED
  BY <1>1, <1>2, <1>3, <1>4, <1>5, IdleFacts
  DEF Next, CallStep, CallerStep, CalculateSegmentPathList, FareQuote, FareQuoteThrow,
      PriceOnly, AvailabilityBegin, ChooseFare, ChooseSegment, SellBegin, SellSegment, CancelBegin, Begin

\* The part of CallsEnd that does not rest on fairness: whatever AirInv answers, each loop
\* turns once per solution, leg or id of a list nobody changes meanwhile, whoever calls.
THEOREM CallsRunOut == Spec => CallsShorten
<1> DEFINE Shortens == InLoop => call'.op \in {"idle", "abort"} \/ Turn
<1>1. Grounds /\ [Next]_vars => [Shortens]_vars
  BY CallEndsOrTurns
<1>2. Spec => [][Shortens]_vars
  BY <1>1, GroundsInductive, PTL DEF Spec
<1> QED
  BY <1>2 DEF CallsShorten
================================================================================
