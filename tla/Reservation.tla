------------------------------ MODULE Reservation ------------------------------
(***************************************************************************)
(* What the distribution layer promises its callers, with no legs visited  *)
(* one after the other: each call of SIMCRS_Service::sell or               *)
(* playCancellation is one step that changes the seat count of some of the *)
(* trip's booking classes and answers yes or no.                           *)
(*                                                                         *)
(* Two contracts are stated over the same state.  AtomicSpec is the one a  *)
(* caller would like: a call books or releases the whole itinerary or      *)
(* nothing.  LegwiseSpec is the one the code keeps: any part of the        *)
(* itinerary may change, and the answer speaks for its last leg only.      *)
(***************************************************************************)
EXTENDS Naturals, FiniteSets

CONSTANTS
  Trips,           \* the callers' bookings
  BookingClasses,  \* the seat inventories AirInv keeps, one per segment and class
  Capacity,        \* BookingClasses -> seats AirInv lets be sold
  Party            \* Trips -> seats a trip asks for

VARIABLES
  seats,   \* seats booked in each booking class
  status,  \* what the owner of each trip was last told
  legs,    \* the booking classes a trip's itinerary can touch
  last     \* those of its last leg

vars == <<seats, status, legs, last>>

Statuses == {"looking", "open", "booked", "unknown"}

Init ==
  /\ seats = [b \in BookingClasses |-> 0]
  /\ status = [t \in Trips |-> "looking"]
  /\ legs = [t \in Trips |-> {}]
  /\ last = [t \in Trips |-> {}]

\* The caller settles on an itinerary, by fare or by a single segment.
Plan(t) ==
  /\ status[t] = "looking"
  /\ status' = [status EXCEPT ![t] = "open"]
  /\ \E L \in SUBSET BookingClasses : \E F \in SUBSET L :
        /\ legs' = [legs EXCEPT ![t] = L]
        /\ last' = [last EXCEPT ![t] = F]
  /\ UNCHANGED seats

Take(t, S) ==
  /\ \A b \in S : seats[b] + Party[t] <= Capacity[b]
  /\ seats' = [b \in BookingClasses |->
                 IF b \in S THEN seats[b] + Party[t] ELSE seats[b]]

GiveBack(t, S) ==
  /\ \A b \in S : seats[b] >= Party[t]
  /\ seats' = [b \in BookingClasses |->
                 IF b \in S THEN seats[b] - Party[t] ELSE seats[b]]

\* A sale that took the classes S and returned to its caller.
Sell(t, S) ==
  /\ status[t] = "open"
  /\ Take(t, S)
  /\ status' = [status EXCEPT ![t] = IF S \cap last[t] # {} THEN "booked" ELSE "open"]
  /\ UNCHANGED <<legs, last>>

\* A sale that took the classes S and then threw.
SellLost(t, S) ==
  /\ status[t] = "open"
  /\ Take(t, S)
  /\ status' = [status EXCEPT ![t] = "unknown"]
  /\ UNCHANGED <<legs, last>>

Cancel(t, S) ==
  /\ status[t] = "booked"
  /\ GiveBack(t, S)
  /\ status' = [status EXCEPT ![t] = IF S \cap last[t] # {} THEN "open" ELSE "booked"]
  /\ UNCHANGED <<legs, last>>

CancelLost(t, S) ==
  /\ status[t] = "booked"
  /\ GiveBack(t, S)
  /\ status' = [status EXCEPT ![t] = "unknown"]
  /\ UNCHANGED <<legs, last>>

Settle(t, S) ==
  Sell(t, S) \/ SellLost(t, S) \/ Cancel(t, S) \/ CancelLost(t, S)

\* Any part of the itinerary may change hands.
LegwiseNext ==
  \E t \in Trips : Plan(t) \/ \E S \in SUBSET legs[t] : Settle(t, S)

LegwiseSpec == Init /\ [][LegwiseNext]_vars

\* The whole itinerary or nothing; an itinerary whose last leg is not on sale
\* can only be nothing.
Whole(t) == IF last[t] = {} THEN {{}} ELSE {{}, legs[t]}

AtomicNext ==
  \E t \in Trips : Plan(t) \/ \E S \in Whole(t) : Settle(t, S)

AtomicSpec == Init /\ [][AtomicNext]_vars

--------------------------------------------------------------------------------
\* The trips in one of the states sts whose itinerary touches class b.
Holders(b, sts) == {t \in Trips : status[t] \in sts /\ b \in legs[t]}

\* The seats the parties of the trips H ask for, told apart by trip and number.
SeatsOf(H) == UNION {{t} \X (1 .. Party[t]) : t \in H}

Owned(b, sts) == Cardinality(SeatsOf(Holders(b, sts)))

\* The seats of a class are those of the trips told they are booked on it, give or
\* take the trips whose last call threw.
Reconciled ==
  \A b \in BookingClasses :
    /\ Owned(b, {"booked"}) <= seats[b]
    /\ seats[b] <= Owned(b, {"booked", "unknown"})
================================================================================
