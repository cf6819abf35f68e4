--------------------------- MODULE ReservationProofs ---------------------------
(***************************************************************************)
(* Under the all-or-nothing contract seats and answers agree, for any      *)
(* number of trips, parties of any size and classes of any capacity.       *)
(***************************************************************************)
EXTENDS Reservation, SeatCounts

\* Every trip is for somebody.
PartySizes == Party \in [Trips -> Nat \ {0}]

\* Types of the state; the last leg is part of the itinerary.
TypeOK ==
  /\ seats \in [BookingClasses -> Nat]
  /\ status \in [Trips -> Statuses]
  /\ legs \in [Trips -> SUBSET BookingClasses]
  /\ last \in [Trips -> SUBSET BookingClasses]
  /\ \A t \in Trips : last[t] \subseteq legs[t]

\* However many trips there are, finitely many have been settled so far: without it
\* the seats they hold could not be counted.
FewSettled == IsFiniteSet(Settled(Trips, status))

IInv == TypeOK /\ FewSettled /\ Reconciled

--------------------------------------------------------------------------------

\* The agreement in the words of the counting lemmas.
LEMMA InCounts ==
  /\ Reconciled <=> Agrees(Trips, BookingClasses, Party, seats, status, legs)
  /\ Reconciled' <=> Agrees(Trips, BookingClasses, Party, seats', status', legs')
BY DEF Reconciled, Owned, SeatsOf, Holders, Agrees, Count, PartiesOf, HoldersOf

\* A call settles with its caller within the types.
LEMMA SettleTypes ==
  ASSUME PartySizes, TypeOK, NEW t \in Trips, NEW S \in SUBSET legs[t], Settle(t, S)
  PROVE  TypeOK'
<1>1. Party[t] \in Nat /\ UNCHANGED <<legs, last>>
  BY DEF PartySizes, Settle, Sell, SellLost, Cancel, CancelLost
<1>2. \A b \in BookingClasses : seats[b] \in Nat
  BY DEF TypeOK
<1>3. seats' \in [BookingClasses -> Nat]
  <2>1. CASE Take(t, S)
    BY <1>1, <1>2, <2>1 DEF Take
  <2>2. CASE GiveBack(t, S)
    BY <1>1, <1>2, <2>2 DEF GiveBack, TypeOK
  <2> QED
    BY <2>1, <2>2 DEF Settle, Sell, SellLost, Cancel, CancelLost
<1>4. status' \in [Trips -> Statuses]
  BY DEF Settle, Sell, SellLost, Cancel, CancelLost, TypeOK, Statuses
<1> QED
  BY <1>1, <1>3, <1>4 DEF TypeOK

\* A call that books or releases everything or nothing keeps the agreement.
LEMMA SettleInv ==
  ASSUME PartySizes, IInv, NEW t \in Trips, NEW S \in Whole(t), Settle(t, S)
  PROVE  IInv'
<1>1. /\ S = {} \/ S = legs[t]
      /\ S # {} => S \cap last[t] # {}
      /\ S \in SUBSET legs[t]
  BY DEF Whole, IInv, TypeOK
<1>2. TypeOK'
  BY <1>1, SettleTypes DEF IInv
<1>3. /\ status \in [Trips -> Statuses] /\ seats \in [BookingClasses -> Nat]
      /\ seats' \in [BookingClasses -> Nat] /\ Party \in [Trips -> Nat] /\ Party[t] \in Nat \ {0}
  BY <1>2 DEF PartySizes, IInv, TypeOK
<1>4. /\ IsFiniteSet(Settled(Trips, status))
      /\ Agrees(Trips, BookingClasses, Party, seats, status, legs)
  BY InCounts DEF IInv, FewSettled
<1>5. UNCHANGED legs /\ \A u \in Trips \ {t} : status'[u] = status[u]
  BY <1>3 DEF Settle, Sell, SellLost, Cancel, CancelLost
<1>6. CASE Sell(t, S) \/ SellLost(t, S)
  <2>1. status[t] = "open" /\ Take(t, S)
    BY <1>6 DEF Sell, SellLost
  <2>2. \/ status'[t] = "unknown"
        \/ status'[t] = IF S \cap last[t] # {} THEN "booked" ELSE "open"
    BY <1>3, <1>6 DEF Sell, SellLost
  <2>3. \/ status'[t] = "unknown"
        \/ status'[t] = "booked" /\ S = legs[t]
        \/ status'[t] = "open" /\ S = {}
    BY <1>1, <2>2
  <2>4. \A b \in BookingClasses : seats'[b] = IF b \in S THEN seats[b] + Party[t] ELSE seats[b]
    BY <2>1 DEF Take
  <2>5. Settling(Trips, BookingClasses, Party, legs, seats, seats', status, status', t, S)
    BY <1>1, <1>5, <2>1, <2>3, <2>4 DEF Settling, Gains
  <2>6. /\ IsFiniteSet(Settled(Trips, status'))
        /\ Agrees(Trips, BookingClasses, Party, seats', status', legs)
    BY <1>3, <1>4, <2>5, SettlingAgrees
  <2> QED
    BY <1>2, <1>5, <2>6, InCounts DEF IInv, FewSettled, Settled
<1>7. CASE Cancel(t, S) \/ CancelLost(t, S)
  <2>1. status[t] = "booked" /\ GiveBack(t, S)
    BY <1>7 DEF Cancel, CancelLost
  <2>2. \/ status'[t] = "unknown"
        \/ status'[t] = IF S \cap last[t] # {} THEN "open" ELSE "booked"
    BY <1>3, <1>7 DEF Cancel, CancelLost
  <2>3. \/ status'[t] = "unknown"
        \/ status'[t] = "booked" /\ S = {}
        \/ status'[t] = "open" /\ S = legs[t]
    BY <1>1, <2>2
  <2>4. \A b \in BookingClasses : /\ b \in S => seats[b] >= Party[t]
                                  /\ seats'[b] = IF b \in S THEN seats[b] - Party[t] ELSE seats[b]
    BY <2>1 DEF GiveBack
  <2>5. Settling(Trips, BookingClasses, Party, legs, seats, seats', status, status', t, S)
    BY <1>1, <1>5, <2>1, <2>3, <2>4 DEF Settling, Loses
  <2>6. /\ IsFiniteSet(Settled(Trips, status'))
        /\ Agrees(Trips, BookingClasses, Party, seats', status', legs)
    BY <1>3, <1>4, <2>5, SettlingAgrees
  <2> QED
    BY <1>2, <1>5, <2>6, InCounts DEF IInv, FewSettled, Settled
<1> QED
  BY <1>6, <1>7 DEF Settle

\* A caller who settles on an itinerary holds no seat yet.
LEMMA PlanInv ==
  ASSUME IInv, NEW t \in Trips, Plan(t)
  PROVE  IInv'
<1>1. PICK L \in SUBSET BookingClasses : \E F \in SUBSET L :
         legs' = [legs EXCEPT ![t] = L] /\ last' = [last EXCEPT ![t] = F]
  BY DEF Plan
<1>2. PICK F \in SUBSET L : legs' = [legs EXCEPT ![t] = L] /\ last' = [last EXCEPT ![t] = F]
  BY <1>1
<1>3. /\ status[t] = "looking" /\ status' = [status EXCEPT ![t] = "open"] /\ seats' = seats
      /\ TypeOK
  BY DEF Plan, IInv
<1>4. TypeOK'
  BY <1>2, <1>3 DEF TypeOK, Statuses
<1>5. \A u \in Trips : \/ status'[u] = status[u] /\ legs'[u] = legs[u]
                       \/ {status[u], status'[u]} \cap {"booked", "unknown"} = {}
  BY <1>2, <1>3 DEF TypeOK
<1>6. /\ IsFiniteSet(Settled(Trips, status'))
      /\ Agrees(Trips, BookingClasses, Party, seats, status', legs')
  BY <1>5, InCounts, QuietAgrees DEF IInv, FewSettled
<1> QED
  BY <1>3, <1>4, <1>6, InCounts DEF IInv, FewSettled, Settled

\* Every reachable state of the all-or-nothing contract satisfies the invariant.
THEOREM AtomicInductive ==
  ASSUME PartySizes PROVE AtomicSpec => []IInv
<1>1. Init => IInv
  <2> SUFFICES ASSUME Init PROVE IInv
    OBVIOUS
  <2>1. TypeOK
    BY DEF Init, TypeOK, Statuses
  <2>2. /\ \A b \in BookingClasses : seats[b] = 0
        /\ \A u \in Trips : status[u] \notin {"booked", "unknown"}
    BY DEF Init
  <2>3. /\ IsFiniteSet(Settled(Trips, status))
        /\ Agrees(Trips, BookingClasses, Party, seats, status, legs)
    BY <2>2, EmptyAgrees
  <2> QED
    BY <2>1, <2>3, InCounts DEF IInv, FewSettled
<1>2. IInv /\ [AtomicNext]_vars => IInv'
  <2> SUFFICES ASSUME IInv, [AtomicNext]_vars PROVE IInv'
    OBVIOUS
  <2>1. CASE AtomicNext
    BY <2>1, PlanInv, SettleInv DEF AtomicNext
  <2>2. CASE UNCHANGED vars
    BY <2>2 DEF vars, IInv, TypeOK, FewSettled, Settled, Reconciled, Owned, SeatsOf, Holders
  <2> QED
    BY <2>1, <2>2
<1> QED
  BY <1>1, <1>2, PTL DEF AtomicSpec

\* When calls book or release the whole itinerary or nothing, the seats of a class are
\* those of the trips told they hold it, give or take trips whose call threw.
THEOREM AtomicReconciles ==
  ASSUME PartySizes PROVE AtomicSpec => []Reconciled
BY AtomicInductive, PTL DEF IInv
================================================================================
