----------------------------- MODULE Distribution ------------------------------
(***************************************************************************)
(* The distribution core of SimCRS: the entry points of SIMCRS_Service a   *)
(* caller uses to sell travel (calculateSegmentPathList, fareQuote,        *)
(* calculateAvailability, the two sell overloads, playCancellation) and    *)
(* the DistributionManager loops under them, one AirInv call per step.     *)
(*                                                                         *)
(* The program has one thread: at most one call is under way, and callers  *)
(* interleave between calls.  AirInv, AirTSP and SimFQT are other          *)
(* libraries, modelled by what this code asks of them and can get back:    *)
(* AirInv may take, refuse or throw at every leg of every call.            *)
(*                                                                         *)
(* The code checks nothing of what its callers do.  Careful says whether   *)
(* they keep to what it relies on: ask availability once for a list, drop  *)
(* a list whose request threw, sell only a trip they hold no booking of    *)
(* and cancel only one they were told is booked.                           *)
(***************************************************************************)
EXTENDS Naturals, Sequences, FiniteSets

CONSTANTS
  Trips,        \* booking requests, each with its own caller
  NoTrip,       \* no call under way
  Segments,     \* segment-date keys
  Classes,      \* class codes
  Cabin,        \* Segments -> the classes AirInv has on sale in each segment
  Capacity,     \* BookingClasses -> seats AirInv lets be sold
  Party,        \* Trips -> party size
  Paths,        \* segment paths the schedule can produce
  SearchLists,  \* travel solution lists AirTSP can answer, as lists of paths
  Tariff,       \* Paths -> class paths of the fares SimFQT quotes
  Careful,      \* the callers keep to what the code relies on
  MaxMaps       \* bound on the id maps a solution has when availability is asked again

BookingClasses == {b \in Segments \X Classes : b[2] \in Cabin[b[1]]}

ASSUME TripsAssumption == NoTrip \notin Trips
ASSUME CabinAssumption == Cabin \in [Segments -> SUBSET Classes]
ASSUME CapacityAssumption == Capacity \in [BookingClasses -> Nat]
ASSUME PartyAssumption == Party \in [Trips -> Nat \ {0}]
\* A path has a segment, and flies no segment-date twice.
ASSUME PathsAssumption ==
  \A p \in Paths :
    /\ p \in Seq(Segments) /\ p # <<>>
    /\ \A i, j \in DOMAIN p : p[i] = p[j] => i = j
ASSUME SearchAssumption == \A l \in SearchLists : l \in Seq(Paths)
\* Nothing ties the length of a class path to that of the segment path: the code
\* does not check it either.
ASSUME TariffAssumption ==
  \A p \in Paths : Tariff[p] \subseteq Seq(Seq(Classes))
ASSUME CallersAssumption == Careful \in BOOLEAN /\ MaxMaps \in Nat

VARIABLES
  booked,     \* AirInv's bookings, per booking class
  solutions,  \* the TravelSolutionList each caller holds
  choice,     \* the travel solution each caller will sell
  belief,     \* what each caller was last told of its trip
  call        \* the call under way

vars == <<booked, solutions, choice, belief, call>>

TravelSolution ==
  [path : Seq(Segments),              \* segment path
   held : Seq(Segments),              \* the segments of its class to object-id maps
   fares : SUBSET Seq(Seq(Classes)),  \* fare options, by class path
   classPath : Seq(Seq(Classes))]     \* class path of the chosen fare option

Unpriced(p) == [path |-> p, held |-> <<>>, fares |-> {}, classPath |-> <<>>]

Ops == {"idle", "avail", "sell", "cancel", "abort"}

Beliefs == {"looking", "open", "booked", "unknown"}

\* The call under way: its loop variable, the answer so far, and the booking classes
\* it has changed.
Call == [op : Ops, trip : Trips \cup {NoTrip}, leg : Nat \ {0},
         answer : BOOLEAN, done : SUBSET BookingClasses]

\* A call enters its loop at the first element, its answer initialised to false.
Entered(o, t) == [op |-> o, trip |-> t, leg |-> 1, answer |-> FALSE, done |-> {}]

Idle == Entered("idle", NoTrip)

\* Mutant of Begin: the loop starts one before its first element.
BeginTooEarly(o, t) == call = Idle /\ call' = [Entered(o, t) EXCEPT !.leg = 0]

Begin(o, t) == call = Idle /\ call' = Entered(o, t)

Init ==
  /\ booked = [b \in BookingClasses |-> 0]
  /\ solutions = [t \in Trips |-> <<>>]
  /\ choice = [t \in Trips |-> Unpriced(<<>>)]
  /\ belief = [t \in Trips |-> "looking"]
  /\ call = Idle

--------------------------------------------------------------------------------
(* Shopping *)

CalculateSegmentPathList(t) ==
  /\ call = Idle /\ belief[t] = "looking"
  /\ \E l \in SearchLists :
        solutions' = [solutions EXCEPT ![t] = [i \in DOMAIN l |-> Unpriced(l[i])]]
  /\ UNCHANGED <<booked, choice, belief, call>>

Priced(sol) == [sol EXCEPT !.fares = Tariff[sol.path]]

\* The solutions of the list at the positions S are priced.
PriceOnly(t, S) ==
  /\ call = Idle /\ belief[t] = "looking"
  /\ solutions' = [solutions EXCEPT ![t] =
                     [i \in DOMAIN @ |-> IF i \in S THEN Priced(solutions[t][i])
                                                   ELSE solutions[t][i]]]
  /\ UNCHANGED <<booked, choice, belief, call>>

FareQuote(t) == PriceOnly(t, DOMAIN solutions[t])

\* An exception of SimFQT leaves part of the list priced.
FareQuoteThrow(t) == \E S \in SUBSET DOMAIN solutions[t] : PriceOnly(t, S)

\* Nothing empties the map holder of a solution between two requests.
MayAskAvailability(t) ==
  \A i \in DOMAIN solutions[t] :
    Len(solutions[t][i].held) <= IF Careful THEN 0 ELSE MaxMaps

AvailabilityBegin(t) ==
  /\ belief[t] = "looking" /\ MayAskAvailability(t)
  /\ Begin("avail", t)
  /\ UNCHANGED <<booked, solutions, choice, belief>>

\* What a solution's holder may be once AirInv has written the maps of the first n
\* legs, one after the other: in place of those it had, or after them.
MapsAfter(sol, n) == {maps \o SubSeq(sol.path, 1, n) : maps \in {<<>>, sol.held}}

\* Mutant of AvailabilitySolution: every solution's maps go to the first one.
AvailabilityFirst ==
  /\ call.op = "avail" /\ call.leg <= Len(solutions[call.trip])
  /\ LET sol == solutions[call.trip][call.leg] IN
     \E maps \in MapsAfter(sol, Len(sol.path)) :
        solutions' = [solutions EXCEPT ![call.trip][1].held = maps]
  /\ call' = [call EXCEPT !.leg = @ + 1]
  /\ UNCHANGED <<booked, choice, belief>>

AvailabilitySolution ==
  /\ call.op = "avail" /\ call.leg <= Len(solutions[call.trip])
  /\ LET sol == solutions[call.trip][call.leg] IN
     \E maps \in MapsAfter(sol, Len(sol.path)) :
        solutions' = [solutions EXCEPT ![call.trip][call.leg].held = maps]
  /\ call' = [call EXCEPT !.leg = @ + 1]
  /\ UNCHANGED <<booked, choice, belief>>

\* Mutant of AvailabilityThrow: the exception is caught and the solution skipped.
AvailabilitySkips ==
  /\ call.op = "avail" /\ call.leg <= Len(solutions[call.trip])
  /\ LET sol == solutions[call.trip][call.leg] IN
     \E n \in 0 .. Len(sol.path) : \E maps \in MapsAfter(sol, n) :
        solutions' = [solutions EXCEPT ![call.trip][call.leg].held = maps]
  /\ call' = [call EXCEPT !.leg = @ + 1]
  /\ UNCHANGED <<booked, choice, belief>>

\* An exception leaves the solutions before this one with their maps and this one with
\* those of some of its legs; a careful caller lets go of the list.
AvailabilityThrow ==
  /\ call.op = "avail" /\ call.leg <= Len(solutions[call.trip])
  /\ IF Careful
       THEN solutions' = [solutions EXCEPT ![call.trip] = <<>>]
       ELSE LET sol == solutions[call.trip][call.leg] IN
            \E n \in 0 .. Len(sol.path) : \E maps \in MapsAfter(sol, n) :
               solutions' = [solutions EXCEPT ![call.trip][call.leg].held = maps]
  /\ call' = Idle
  /\ UNCHANGED <<booked, choice, belief>>

AvailabilityReturn ==
  /\ call.op = "avail" /\ call.leg > Len(solutions[call.trip])
  /\ call' = Idle
  /\ UNCHANGED <<booked, solutions, choice, belief>>

\* The caller settles on a solution of the list and on one of its fares
\* (setChosenFareOption); without a fare option it gives up instead.
ChooseFare(t) ==
  /\ call = Idle /\ belief[t] = "looking"
  /\ \E i \in DOMAIN solutions[t] : \E cp \in solutions[t][i].fares :
        choice' = [choice EXCEPT ![t] = [solutions[t][i] EXCEPT !.classPath = cp]]
  /\ belief' = [belief EXCEPT ![t] = "open"]
  /\ UNCHANGED <<booked, solutions, call>>

\* The caller names a segment and a class itself, for the segment-key sale.
ChooseSegment(t) ==
  /\ call = Idle /\ belief[t] = "looking"
  /\ \E p \in Paths : \E c \in Classes :
        /\ Len(p) = 1
        /\ choice' = [choice EXCEPT ![t] =
                        [Unpriced(p) EXCEPT !.classPath = << <<c>> >>]]
  /\ belief' = [belief EXCEPT ![t] = "open"]
  /\ UNCHANGED <<booked, solutions, call>>

--------------------------------------------------------------------------------
(* Selling *)

ByIds(sol) == sol.held # <<>>

\* The sale loops over the id maps when there is one, over the segment path otherwise.
Legs(sol) == IF ByIds(sol) THEN sol.held ELSE sol.path

\* Mutant of LoopLength: the loop by keys stops one segment short.
LoopLengthShort(sol) == IF ByIds(sol) THEN Len(Legs(sol)) ELSE Len(Legs(sol)) - 1

LoopLength(sol) == Len(Legs(sol))

\* The fare names a class for leg i.
Named(sol, i) == i \in DOMAIN sol.classPath /\ sol.classPath[i] # <<>>

\* Mutant of LegClass: the class-path iterator is not advanced.
LegClassFirst(sol, i) ==
  {c \in Classes : sol.classPath # <<>> /\ sol.classPath[1] # <<>> /\ c = sol.classPath[1][1]}

\* The class codes the class-path iterator can yield at leg i: the first of the
\* leg's class list.  The iterator is never compared with end(), so past the class
\* path it yields garbage.
LegClass(sol, i) ==
  {c \in Classes : IF i \in DOMAIN sol.classPath
                     THEN sol.classPath[i] # <<>> /\ c = sol.classPath[i][1]
                     ELSE TRUE}

LegBookings(sol, i) ==
  {b \in BookingClasses : b[1] = Legs(sol)[i] /\ b[2] \in LegClass(sol, i)}

Choice == choice[call.trip]

\* The party t is added to the bookings of class b.
Take(t, b) ==
  /\ b \in BookingClasses /\ booked[b] + Party[t] <= Capacity[b]
  /\ booked' = [booked EXCEPT ![b] = @ + Party[t]]

\* Mutant of NextLeg: one leg sold is enough for a yes.
NextLegSticky(yes, changed) ==
  /\ call' = [op |-> call.op, trip |-> call.trip, leg |-> call.leg + 1,
              answer |-> call.answer \/ yes, done |-> call.done \cup changed]
  /\ UNCHANGED belief

\* The leg's answer replaces that of the legs before it.
NextLeg(yes, changed) ==
  /\ call' = [op |-> call.op, trip |-> call.trip, leg |-> call.leg + 1,
              answer |-> yes, done |-> call.done \cup changed]
  /\ UNCHANGED belief

Refused == NextLeg(FALSE, {}) /\ UNCHANGED booked

\* Mutant of Thrown: the exception is caught and reported as a refusal.
ThrownAsRefusal ==
  /\ call' = Idle
  /\ UNCHANGED belief

\* An exception unwinds the loop: the caller learns nothing of the legs already done.
Thrown ==
  /\ call' = Idle
  /\ belief' = [belief EXCEPT ![call.trip] = "unknown"]

\* AirInv::sell takes the party, refuses it, or throws, before or after taking it.
AirInvSell(b) ==
  \/ Take(call.trip, b) /\ (NextLeg(TRUE, {b}) \/ Thrown)
  \/ Refused
  \/ Thrown /\ UNCHANGED booked

MaySell(t) == belief[t] \in IF Careful THEN {"open"} ELSE Beliefs \ {"looking"}

SellBegin(t) ==
  /\ MaySell(t)
  /\ Begin("sell", t)
  /\ UNCHANGED <<booked, solutions, choice, belief>>

InSellLoop == call.op = "sell" /\ call.leg <= LoopLength(Choice)

\* One leg of the sale by object id: the class must be a key of that leg's map.
SellLegById ==
  /\ InSellLoop /\ ByIds(Choice)
  /\ \E c \in LegClass(Choice, call.leg) \cap Cabin[Choice.held[call.leg]] :
        AirInvSell(<<Choice.held[call.leg], c>>)
  /\ UNCHANGED <<solutions, choice>>

SellLegByKey ==
  /\ InSellLoop /\ ~ByIds(Choice)
  /\ \E c \in LegClass(Choice, call.leg) :
        AirInvSell(<<Choice.path[call.leg], c>>)
  /\ UNCHANGED <<solutions, choice>>


\* The asserts of the loop, or garbage that cannot be read at all: the process ends.
SellAbort ==
  /\ InSellLoop
  /\ \/ ~Named(Choice, call.leg)
     \/ ByIds(Choice) /\ ~(LegClass(Choice, call.leg) \subseteq Cabin[Choice.held[call.leg]])
  /\ call' = [call EXCEPT !.op = "abort"]
  /\ UNCHANGED <<booked, solutions, choice, belief>>

SellReturn ==
  /\ call.op = "sell" /\ call.leg > LoopLength(Choice)
  /\ belief' = [belief EXCEPT ![call.trip] = IF call.answer THEN "booked" ELSE @]
  /\ call' = Idle
  /\ UNCHANGED <<booked, solutions, choice>>

\* Mutant of SellSegment: the answer of AirInv is not returned.
SellSegmentSilent(t) ==
  /\ call = Idle /\ MaySell(t)
  /\ Len(choice[t].path) = 1 /\ choice[t].classPath # <<>>
  /\ \E c \in LegClass(choice[t], 1) :
       Take(t, <<choice[t].path[1], c>>) \/ UNCHANGED booked
  /\ UNCHANGED <<solutions, choice, belief, call>>

\* The overload that forwards a segment key and a class code straight to AirInv.
SellSegment(t) ==
  /\ call = Idle /\ MaySell(t)
  /\ Len(choice[t].path) = 1 /\ choice[t].classPath # <<>>
  /\ \E c \in LegClass(choice[t], 1) :
       \/ /\ Take(t, <<choice[t].path[1], c>>)
          /\ \E told \in {"booked", "unknown"} : belief' = [belief EXCEPT ![t] = told]
       \/ UNCHANGED <<booked, belief>>
       \/ belief' = [belief EXCEPT ![t] = "unknown"] /\ UNCHANGED booked
  /\ UNCHANGED <<solutions, choice, call>>

--------------------------------------------------------------------------------
(* Cancelling *)

\* The id list of the CancellationStruct a caller makes for a trip: the ids under
\* which it was sold, and none when it was sold by keys.
ClassIdList(sol) ==
  IF ByIds(sol)
    THEN [i \in DOMAIN sol.held |-> <<sol.held[i], sol.classPath[i][1]>>]
    ELSE <<>>

GiveBack(t, b) ==
  /\ b \in BookingClasses /\ booked[b] >= Party[t]
  /\ booked' = [booked EXCEPT ![b] = @ - Party[t]]

\* AirInv::cancel gives the party's seats back, refuses, or throws.
AirInvCancel(b) ==
  \/ GiveBack(call.trip, b) /\ (NextLeg(TRUE, {b}) \/ Thrown)
  \/ Refused
  \/ Thrown /\ UNCHANGED booked

MayCancel(t) == belief[t] \in IF Careful THEN {"booked"} ELSE Beliefs \ {"looking"}

\* A caller can list the ids of a trip only if its fare names a class for each.
CancelBegin(t) ==
  /\ MayCancel(t)
  /\ \A i \in DOMAIN choice[t].held : Named(choice[t], i)
  /\ Begin("cancel", t)
  /\ UNCHANGED <<booked, solutions, choice, belief>>

CancelLeg ==
  /\ call.op = "cancel" /\ call.leg <= Len(ClassIdList(Choice))
  /\ AirInvCancel(ClassIdList(Choice)[call.leg])
  /\ UNCHANGED <<solutions, choice>>

\* Mutants of CancelReturn: a cancellation that released nothing is reported as
\* made; one with no id to go through never returns.
CancelReturnYes ==
  /\ call.op = "cancel" /\ call.leg > Len(ClassIdList(Choice))
  /\ belief' = [belief EXCEPT ![call.trip] = "open"]
  /\ call' = Idle
  /\ UNCHANGED <<booked, solutions, choice>>

CancelReturnAfterLeg ==
  /\ call.op = "cancel" /\ call.leg > Len(ClassIdList(Choice)) /\ call.leg > 1
  /\ belief' = [belief EXCEPT ![call.trip] = IF call.answer THEN "open" ELSE @]
  /\ call' = Idle
  /\ UNCHANGED <<booked, solutions, choice>>

CancelReturn ==
  /\ call.op = "cancel" /\ call.leg > Len(ClassIdList(Choice))
  /\ belief' = [belief EXCEPT ![call.trip] = IF call.answer THEN "open" ELSE @]
  /\ call' = Idle
  /\ UNCHANGED <<booked, solutions, choice>>

--------------------------------------------------------------------------------
\* The next step of the call under way.
CallStep ==
  \/ AvailabilitySolution \/ AvailabilityThrow \/ AvailabilityReturn
  \/ SellLegById \/ SellLegByKey \/ SellAbort \/ SellReturn
  \/ CancelLeg \/ CancelReturn

CallerStep(t) ==
  \/ CalculateSegmentPathList(t) \/ FareQuote(t) \/ FareQuoteThrow(t)
  \/ AvailabilityBegin(t)
  \/ ChooseFare(t) \/ ChooseSegment(t)
  \/ SellBegin(t) \/ SellSegment(t) \/ CancelBegin(t)

Next == CallStep \/ \E t \in Trips : CallerStep(t)

\* A call is straight-line code on the program's only thread, and each AirInv call
\* comes back: a call under way keeps stepping.  Callers owe nothing.
Spec == Init /\ [][Next]_vars /\ WF_vars(CallStep)

--------------------------------------------------------------------------------
(* Invariants *)

\* Types of the state.
TypeOK ==
  /\ booked \in [BookingClasses -> Nat]
  /\ \A b \in BookingClasses : booked[b] <= Capacity[b]
  /\ solutions \in [Trips -> Seq(TravelSolution)]
  /\ choice \in [Trips -> TravelSolution]
  /\ belief \in [Trips -> Beliefs]
  /\ call \in Call

\* The classes a call has changed lie on legs already visited, and the answer it
\* carries is that of the last visited leg.
AnswerIsLastLeg ==
  call.op \in {"sell", "cancel", "abort"} =>
    /\ call.leg - 1 <= Len(Choice.path)
    /\ \A b \in call.done :
          \E i \in 1 .. call.leg - 1 : b \in LegBookings(Choice, i)
    /\ call.answer <=> \E b \in call.done : call.leg > 1 /\ b[1] = Choice.path[call.leg - 1]

\* A sale that is about to answer has asked AirInv for every leg of the itinerary,
\* whichever of the two loops it ran.
SaleCoversItinerary ==
  call.op = "sell" /\ call.leg > LoopLength(Choice) => call.leg = Len(Choice.path) + 1

\* The fare names a class on sale for each leg.
FareFits(sol) ==
  \A i \in DOMAIN sol.path : Named(sol, i) /\ sol.classPath[i][1] \in Cabin[sol.path[i]]

\* The maps of a travel solution are those of its legs, in their order, or none.
Aligned(sol) == sol.held = <<>> \/ sol.held = sol.path

\* The process only dies inside sell when the fare does not fit the itinerary.  No order
\* of availability requests brings it there, the repeated and the failed ones of careless
\* callers apart, whose maps need no longer be those of the legs.
AbortNeedsMisfit ==
  call.op = "abort" => ~FareFits(Choice) \/ (~Careful /\ ~Aligned(Choice))

--------------------------------------------------------------------------------
(* What the callers see *)

TripBookings(sol) == UNION {LegBookings(sol, i) : i \in DOMAIN Legs(sol)}

LastBookings(sol) == {b \in TripBookings(sol) : b[1] = Legs(sol)[LoopLength(sol)]}

\* Seats as they stood before the call under way.
SeatsAtReturn ==
  [b \in BookingClasses |->
     IF b \notin call.done THEN booked[b]
     ELSE IF call.op = "cancel" THEN booked[b] + Party[call.trip]
     ELSE booked[b] - Party[call.trip]]

LegsOfTrips == [t \in Trips |-> TripBookings(choice[t])]
LastLegOfTrips == [t \in Trips |-> LastBookings(choice[t])]

Promise == INSTANCE Reservation WITH
  seats <- SeatsAtReturn, status <- belief, legs <- LegsOfTrips, last <- LastLegOfTrips

\* Every call is one step of the leg-by-leg contract: it changes only classes of its
\* own itinerary, by its own party, and its answer is that of the last leg.
ImplementsLegwise == Promise!LegwiseSpec

\* Every call books or releases the whole itinerary or nothing.  This holds as long
\* as itineraries have one leg, which is all the test-suite sells.
ImplementsAtomic == Promise!AtomicSpec

\* What callers were told agrees with what AirInv has booked: the seats of a class
\* are those of the trips told they hold them, give or take trips whose call threw.
Reconciled == Promise!Reconciled

\* The answer of a sale is whether or not it was successful: a yes means that every
\* leg of the itinerary was sold, a no that none was.
SaleAnswerIsTrue ==
  call.op = "sell" /\ call.leg > LoopLength(Choice) =>
    IF call.answer
      THEN \A i \in DOMAIN Choice.path : call.done \cap LegBookings(Choice, i) # {}
      ELSE call.done = {}

\* Whatever callers do to their lists, and however often they sell or cancel: seats are
\* moved by the whole party of one of them, on a segment of that caller's own itinerary,
\* and, while a call is under way, by the caller it is made for.
OnlyOwnSegments ==
  [][ \A b \in BookingClasses : booked'[b] # booked[b] =>
        \E t \in Trips :
          /\ call # Idle => t = call.trip
          /\ \E i \in DOMAIN choice[t].path : b[1] = choice[t].path[i]
          /\ \/ booked'[b] = booked[b] + Party[t]
             \/ booked'[b] = booked[b] - Party[t] ]_vars

\* Every call comes to an end: it answers, it throws or the process dies.
CallsEnd == [](call.op # "idle" => <>(call.op \in {"idle", "abort"}))
================================================================================
