------------------------------- MODULE SeatCounts ------------------------------
(***************************************************************************)
(* Counting the seats of parties.  The seats a set of trips asks for are   *)
(* the pairs of a trip and a number up to the size of its party, and the   *)
(* number of such pairs is the sum of the parties: a trip more or less is  *)
(* a party more or less.  What a booking class has is compared with the    *)
(* seats of the trips told they hold it.                                   *)
(***************************************************************************)
EXTENDS FiniteSetTheorems, TLAPS

\* The seats of the parties of the trips H.
PartiesOf(H, party) == UNION {{t} \X (1 .. party[t]) : t \in H}

\* Trips that may hold seats: told so, or told nothing by a call that threw.
Settled(T, status) == {t \in T : status[t] \in {"booked", "unknown"}}

HoldersOf(T, status, legs, b, sts) == {t \in T : status[t] \in sts /\ b \in legs[t]}

Count(T, party, status, legs, b, sts) ==
  Cardinality(PartiesOf(HoldersOf(T, status, legs, b, sts), party))

\* The same without trip t.
Rest(T, party, status, legs, b, sts, t) ==
  Cardinality(PartiesOf(HoldersOf(T, status, legs, b, sts) \ {t}, party))

\* The seats of each class of B agree with what the owners of the trips T were told.
Agrees(T, B, party, seats, status, legs) ==
  \A b \in B :
    /\ Count(T, party, status, legs, b, {"booked"}) <= seats[b]
    /\ seats[b] <= Count(T, party, status, legs, b, {"booked", "unknown"})

\* Trip t, open, takes its party on the classes S.
Gains(B, party, legs, seats, seats2, status, status2, t, S) ==
  /\ status[t] = "open"
  /\ \A b \in B : seats2[b] = IF b \in S THEN seats[b] + party[t] ELSE seats[b]
  /\ \/ status2[t] = "unknown"
     \/ status2[t] = "booked" /\ S = legs[t]
     \/ status2[t] = "open" /\ S = {}

\* Trip t, booked, gives its party back on the classes S.
Loses(B, party, legs, seats, seats2, status, status2, t, S) ==
  /\ status[t] = "booked"
  /\ \A b \in B : /\ b \in S => seats[b] >= party[t]
                 /\ seats2[b] = IF b \in S THEN seats[b] - party[t] ELSE seats[b]
  /\ \/ status2[t] = "unknown"
     \/ status2[t] = "booked" /\ S = {}
     \/ status2[t] = "open" /\ S = legs[t]

\* A call of trip t that moves its whole itinerary, or nothing, and tells its caller so.
Settling(T, B, party, legs, seats, seats2, status, status2, t, S) ==
  /\ \A u \in T \ {t} : status2[u] = status[u]
  /\ S = {} \/ S = legs[t]
  /\ \/ Gains(B, party, legs, seats, seats2, status, status2, t, S)
     \/ Loses(B, party, legs, seats, seats2, status, status2, t, S)

--------------------------------------------------------------------------------
(* Sums as cardinalities *)

\* Finitely many parties have finitely many seats.
LEMMA PartiesFinite ==
  ASSUME NEW H, IsFiniteSet(H), NEW party, \A t \in H : party[t] \in Nat
  PROVE  IsFiniteSet(PartiesOf(H, party)) /\ Cardinality(PartiesOf(H, party)) \in Nat
<1> DEFINE P(t) == {t} \X (1 .. party[t])
           all == {P(t) : t \in H}
<1>1. \A t \in H : IsFiniteSet(P(t))
  <2> SUFFICES ASSUME NEW t \in H PROVE IsFiniteSet(P(t))
    OBVIOUS
  <2>1. IsFiniteSet({t})
    BY FS_Singleton
  <2>2. 1 \in Int /\ party[t] \in Int
    OBVIOUS
  <2>3. IsFiniteSet(1 .. party[t])
    BY <2>2, FS_Interval
  <2> QED
    BY <2>1, <2>3, FS_Product
<1>2. IsFiniteSet(all)
  <2> DEFINE f == [t \in H |-> P(t)]
  <2>1. f \in Surjection(H, all)
    BY DEF Surjection
  <2> QED
    BY <2>1, FS_Surjection
<1>3. \A p \in all : IsFiniteSet(p)
  BY <1>1
<1> HIDE DEF all
<1>4. IsFiniteSet(UNION all)
  BY <1>2, <1>3, FS_UNION
<1> QED
  BY <1>4, FS_CardinalityType DEF PartiesOf, all

\* A trip more is a party more.
LEMMA OneTripMore ==
  ASSUME NEW H, IsFiniteSet(H), NEW party, NEW t, t \notin H,
         \A u \in H \cup {t} : party[u] \in Nat
  PROVE  Cardinality(PartiesOf(H \cup {t}, party)) = Cardinality(PartiesOf(H, party)) + party[t]
<1> DEFINE P == {t} \X (1 .. party[t])
<1>1. IsFiniteSet({t}) /\ Cardinality({t}) = 1
  BY FS_Singleton
<1>2. IsFiniteSet(1 .. party[t]) /\ Cardinality(1 .. party[t]) = party[t]
  BY FS_Interval
<1>3. IsFiniteSet(P) /\ Cardinality(P) = party[t]
  BY <1>1, <1>2, FS_Product
<1>4. PartiesOf(H \cup {t}, party) = PartiesOf(H, party) \cup P
  BY DEF PartiesOf
<1>5. PartiesOf(H, party) \cap P = {}
  BY DEF PartiesOf
<1>6. IsFiniteSet(PartiesOf(H, party)) /\ Cardinality(PartiesOf(H, party)) \in Nat
  BY PartiesFinite
<1> HIDE DEF P
<1>7. Cardinality(PartiesOf(H, party) \cup P)
        = Cardinality(PartiesOf(H, party)) + Cardinality(P) - Cardinality(PartiesOf(H, party) \cap P)
  BY <1>3, <1>6, FS_Union
<1>8. Cardinality(PartiesOf(H, party) \cap P) = 0
  BY <1>5, FS_EmptySet
<1>9. Cardinality(PartiesOf(H \cup {t}, party)) = Cardinality(PartiesOf(H, party) \cup P)
  BY <1>4
<1> DEFINE sum == Cardinality(PartiesOf(H \cup {t}, party))
           before == Cardinality(PartiesOf(H, party))
           one == party[t]
<1>10. sum = before + one - 0 /\ before \in Nat /\ one \in Nat
  BY <1>3, <1>6, <1>7, <1>8, <1>9
<1> HIDE DEF sum, before, one
<1>11. sum = before + one
  BY <1>10
<1> QED
  BY <1>11 DEF sum, before, one

\* The seats of a set of trips, with those of one trip told apart.
LEMMA PartyApart ==
  ASSUME NEW H, IsFiniteSet(H), NEW party, \A u \in H : party[u] \in Nat, NEW t
  PROVE  /\ Cardinality(PartiesOf(H \ {t}, party)) \in Nat
         /\ Cardinality(PartiesOf(H, party)) =
              Cardinality(PartiesOf(H \ {t}, party)) + (IF t \in H THEN party[t] ELSE 0)
<1>1. IsFiniteSet(H \ {t})
  BY FS_RemoveElement
<1>2. Cardinality(PartiesOf(H \ {t}, party)) \in Nat
  BY <1>1, PartiesFinite
<1>3. CASE t \in H
  <2>1. H = (H \ {t}) \cup {t}
    BY <1>3
  <2>2. Cardinality(PartiesOf((H \ {t}) \cup {t}, party))
          = Cardinality(PartiesOf(H \ {t}, party)) + party[t]
    BY <1>1, <1>3, OneTripMore
  <2> QED
    BY <1>2, <1>3, <2>1, <2>2
<1>4. CASE t \notin H
  <2>1. H \ {t} = H
    BY <1>4
  <2>2. Cardinality(PartiesOf(H, party)) = Cardinality(PartiesOf(H \ {t}, party))
    BY <2>1
  <2> QED
    BY <1>2, <1>4, <2>2
<1> QED
  BY <1>2, <1>3, <1>4

\* Nobody holds no seat.
LEMMA NoParties ==
  ASSUME NEW party
  PROVE  Cardinality(PartiesOf({}, party)) = 0
<1>1. PartiesOf({}, party) = {}
  BY DEF PartiesOf
<1> QED
  BY <1>1, FS_EmptySet

--------------------------------------------------------------------------------
(* What a call does to the agreement *)

\* The holders of a class are finitely many, and more states have more holders.
LEMMA HoldersFinite ==
  ASSUME NEW T, NEW party \in [T -> Nat], NEW status, NEW legs, NEW b,
         IsFiniteSet(Settled(T, status)), NEW sts \in SUBSET {"booked", "unknown"}
  PROVE  /\ IsFiniteSet(HoldersOf(T, status, legs, b, sts))
         /\ \A u \in HoldersOf(T, status, legs, b, sts) : party[u] \in Nat
         /\ Count(T, party, status, legs, b, sts) \in Nat
<1>1. HoldersOf(T, status, legs, b, sts) \subseteq Settled(T, status)
  BY DEF HoldersOf, Settled
<1>2. IsFiniteSet(HoldersOf(T, status, legs, b, sts))
  BY <1>1, FS_Subset
<1>3. \A u \in HoldersOf(T, status, legs, b, sts) : party[u] \in Nat
  BY DEF HoldersOf
<1> QED
  BY <1>2, <1>3, PartiesFinite DEF Count

\* The count of a class, with one trip told apart.
LEMMA TripApart ==
  ASSUME NEW T, NEW party \in [T -> Nat], NEW status, NEW legs, NEW b,
         IsFiniteSet(Settled(T, status)), NEW sts \in SUBSET {"booked", "unknown"},
         NEW t \in T
  PROVE  /\ Rest(T, party, status, legs, b, sts, t) \in Nat
         /\ Count(T, party, status, legs, b, sts) =
              Rest(T, party, status, legs, b, sts, t)
                + (IF status[t] \in sts /\ b \in legs[t] THEN party[t] ELSE 0)
<1> DEFINE H == HoldersOf(T, status, legs, b, sts)
<1>1. IsFiniteSet(H) /\ \A u \in H : party[u] \in Nat
  BY HoldersFinite
<1>2. t \in H <=> status[t] \in sts /\ b \in legs[t]
  BY DEF HoldersOf
<1> HIDE DEF H
<1>3. /\ Cardinality(PartiesOf(H \ {t}, party)) \in Nat
      /\ Cardinality(PartiesOf(H, party)) =
           Cardinality(PartiesOf(H \ {t}, party)) + (IF t \in H THEN party[t] ELSE 0)
  BY <1>1, PartyApart
<1> QED
  BY <1>2, <1>3 DEF Count, Rest, H

\* One trip more or less settled leaves finitely many.
LEMMA SettledFinite ==
  ASSUME NEW T, NEW status, NEW status2, IsFiniteSet(Settled(T, status)), NEW t,
         \A u \in T \ {t} : u \in Settled(T, status2) => u \in Settled(T, status)
  PROVE  IsFiniteSet(Settled(T, status2))
<1>1. IsFiniteSet(Settled(T, status) \cup {t})
  BY FS_AddElement
<1>2. Settled(T, status2) \subseteq Settled(T, status) \cup {t}
  BY DEF Settled
<1> QED
  BY <1>1, <1>2, FS_Subset

\* A call of trip t that books or releases its whole itinerary, or nothing, and whose
\* caller is told so or told nothing, keeps the agreement.
LEMMA SettlingAgrees ==
  ASSUME NEW T, NEW B, NEW party \in [T -> Nat], NEW legs,
         NEW seats, NEW seats2, NEW status, NEW status2,
         seats \in [B -> Nat], seats2 \in [B -> Nat],
         IsFiniteSet(Settled(T, status)), Agrees(T, B, party, seats, status, legs),
         NEW t \in T, NEW S,
         Settling(T, B, party, legs, seats, seats2, status, status2, t, S)
  PROVE  /\ IsFiniteSet(Settled(T, status2))
         /\ Agrees(T, B, party, seats2, status2, legs)
<1>0. /\ \A u \in T \ {t} : status2[u] = status[u]
      /\ S = {} \/ S = legs[t]
      /\ \/ Gains(B, party, legs, seats, seats2, status, status2, t, S)
         \/ Loses(B, party, legs, seats, seats2, status, status2, t, S)
  BY DEF Settling
<1>1. IsFiniteSet(Settled(T, status2))
  <2>1. \A u \in T \ {t} : u \in Settled(T, status2) => u \in Settled(T, status)
    BY <1>0 DEF Settled
  <2> QED
    BY <2>1, SettledFinite
<1>2. ASSUME NEW b \in B
      PROVE  /\ Count(T, party, status2, legs, b, {"booked"}) <= seats2[b]
             /\ seats2[b] <= Count(T, party, status2, legs, b, {"booked", "unknown"})
  <2> DEFINE low(st) == Rest(T, party, st, legs, b, {"booked"}, t)
             high(st) == Rest(T, party, st, legs, b, {"booked", "unknown"}, t)
             on == b \in legs[t]
             n == party[t]
  <2>1. /\ HoldersOf(T, status2, legs, b, {"booked"}) \ {t} = HoldersOf(T, status, legs, b, {"booked"}) \ {t}
        /\ HoldersOf(T, status2, legs, b, {"booked", "unknown"}) \ {t}
             = HoldersOf(T, status, legs, b, {"booked", "unknown"}) \ {t}
    BY <1>0 DEF HoldersOf
  <2>2. low(status2) = low(status) /\ high(status2) = high(status)
    BY <2>1 DEF Rest
  <2>0. /\ {"booked"} \in SUBSET {"booked", "unknown"}
        /\ {"booked", "unknown"} \in SUBSET {"booked", "unknown"}
    OBVIOUS
  <2>3. /\ low(status) \in Nat
        /\ Count(T, party, status, legs, b, {"booked"})
             = low(status) + (IF status[t] \in {"booked"} /\ on THEN n ELSE 0)
    BY <2>0, TripApart
  <2>4. /\ high(status) \in Nat
        /\ Count(T, party, status, legs, b, {"booked", "unknown"})
             = high(status) + (IF status[t] \in {"booked", "unknown"} /\ on THEN n ELSE 0)
    BY <2>0, TripApart
  <2>5. /\ Count(T, party, status2, legs, b, {"booked"})
             = low(status2) + (IF status2[t] \in {"booked"} /\ on THEN n ELSE 0)
        /\ Count(T, party, status2, legs, b, {"booked", "unknown"})
             = high(status2) + (IF status2[t] \in {"booked", "unknown"} /\ on THEN n ELSE 0)
    BY <1>1, <2>0, TripApart
  <2>6. /\ Count(T, party, status, legs, b, {"booked"}) <= seats[b]
        /\ seats[b] <= Count(T, party, status, legs, b, {"booked", "unknown"})
    BY DEF Agrees
  <2>7. n \in Nat /\ seats[b] \in Nat /\ seats2[b] \in Nat
    OBVIOUS
  <2> DEFINE l == low(status)
             h == high(status)
             L2 == Count(T, party, status2, legs, b, {"booked"})
             H2 == Count(T, party, status2, legs, b, {"booked", "unknown"})
  <2>8. /\ l + (IF status[t] = "booked" /\ on THEN n ELSE 0) <= seats[b]
        /\ seats[b] <= h + (IF status[t] \in {"booked", "unknown"} /\ on THEN n ELSE 0)
    BY <2>3, <2>4, <2>6
  <2>9. /\ L2 = l + (IF status2[t] = "booked" /\ on THEN n ELSE 0)
        /\ H2 = h + (IF status2[t] \in {"booked", "unknown"} /\ on THEN n ELSE 0)
    BY <2>2, <2>5
  <2>10. l \in Nat /\ h \in Nat
    BY <2>3, <2>4
  <2> HIDE DEF l, h, L2, H2, on, n
  <2>11. CASE b \in S
    <3>1. on
      BY <1>0, <2>11 DEF on
    <3>2. \/ status[t] = "open" /\ seats2[b] = seats[b] + n /\ status2[t] \in {"unknown", "booked"}
          \/ status[t] = "booked" /\ seats2[b] = seats[b] - n /\ status2[t] \in {"unknown", "open"}
      BY <1>0, <2>11 DEF n, Gains, Loses
    <3> QED
      BY <2>7, <2>8, <2>9, <2>10, <3>1, <3>2 DEF L2, H2
  <2>12. CASE b \notin S
    <3>1. seats2[b] = seats[b]
      BY <1>0, <2>12 DEF Gains, Loses
    <3>2. \/ ~on
          \/ status[t] = "open" /\ status2[t] \in {"unknown", "open"}
          \/ status[t] = "booked" /\ status2[t] \in {"unknown", "booked"}
      BY <1>0, <2>12 DEF on, Gains, Loses
    <3> QED
      BY <2>7, <2>8, <2>9, <2>10, <3>1, <3>2 DEF L2, H2
  <2> QED
    BY <2>11, <2>12
<1> QED
  BY <1>1, <1>2 DEF Agrees

\* A step that changes no seat, and nothing of the trips that are or become settled,
\* keeps it.
LEMMA QuietAgrees ==
  ASSUME NEW T, NEW B, NEW party, NEW seats, NEW status, NEW status2, NEW legs, NEW legs2,
         IsFiniteSet(Settled(T, status)), Agrees(T, B, party, seats, status, legs),
         \A u \in T : \/ status2[u] = status[u] /\ legs2[u] = legs[u]
                     \/ {status[u], status2[u]} \cap {"booked", "unknown"} = {}
  PROVE  /\ IsFiniteSet(Settled(T, status2))
         /\ Agrees(T, B, party, seats, status2, legs2)
<1>1. Settled(T, status2) = Settled(T, status)
  BY DEF Settled
<1>2. \A b : \A sts \in SUBSET {"booked", "unknown"} :
        HoldersOf(T, status2, legs2, b, sts) = HoldersOf(T, status, legs, b, sts)
  BY DEF HoldersOf
<1>3. \A b : \A sts \in SUBSET {"booked", "unknown"} :
        Count(T, party, status2, legs2, b, sts) = Count(T, party, status, legs, b, sts)
  BY <1>2 DEF Count
<1>4. {"booked"} \in SUBSET {"booked", "unknown"} /\ {"booked", "unknown"} \in SUBSET {"booked", "unknown"}
  OBVIOUS
<1> QED
  BY <1>1, <1>3, <1>4 DEF Agrees

\* With nothing booked and nobody told a thing, they agree.
LEMMA EmptyAgrees ==
  ASSUME NEW T, NEW B, NEW party, NEW seats, NEW status, NEW legs,
         \A b \in B : seats[b] = 0,
         \A u \in T : status[u] \notin {"booked", "unknown"}
  PROVE  /\ IsFiniteSet(Settled(T, status))
         /\ Agrees(T, B, party, seats, status, legs)
<1>1. Settled(T, status) = {}
  BY DEF Settled
<1>2. \A b : \A sts \in SUBSET {"booked", "unknown"} : HoldersOf(T, status, legs, b, sts) = {}
  BY DEF HoldersOf
<1>3. \A b : \A sts \in SUBSET {"booked", "unknown"} : Count(T, party, status, legs, b, sts) = 0
  BY <1>2, NoParties DEF Count
<1>4. {"booked"} \in SUBSET {"booked", "unknown"} /\ {"booked", "unknown"} \in SUBSET {"booked", "unknown"}
  OBVIOUS
<1> QED
  BY <1>1, <1>3, <1>4, FS_EmptySet DEF Agrees
================================================================================
