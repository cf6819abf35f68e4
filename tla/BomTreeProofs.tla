----------------------------- MODULE BomTreeProofs -----------------------------
(***************************************************************************)
(* Proofs about BomTree, however often each layer is loaded: what a load   *)
(* or a clone has done by the time it gets to each of its tasks.           *)
(***************************************************************************)
EXTENDS BomTree, TLAPS, SequenceTheorems

USE MaxLoadsAssumption

(***************************************************************************)
(* A call is told by how many tasks it has left: the sequence of all the   *)
(* tasks it may do, from the last to the first, says which is next.        *)
(***************************************************************************)
LoadOf(k) == [do |-> "load", layer |-> k]
LinkOf(k) == [do |-> "link", layer |-> k]
Copy == [do |-> "copy", layer |-> "stdair"]

\* A call that clones, and the load of a service that does not.
WithClone == [n \in 1..8 |-> CASE n = 1 -> LinkOf("simfqt") [] n = 2 -> LinkOf("airinv")
                               [] n = 3 -> LinkOf("airtsp") [] n = 4 -> Copy
                               [] n = 5 -> LoadOf("simfqt") [] n = 6 -> LoadOf("airinv")
                               [] n = 7 -> LoadOf("airtsp") [] n = 8 -> LoadOf("stdair")]
WithoutClone == [n \in 1..4 |-> WithClone[n + 4]]

\* todo is what is left of row with at most longest tasks to go.
Row(todo, row, longest) ==
  /\ todo \in Seq(Tasks) /\ Len(todo) <= longest
  /\ \A i \in 1..Len(todo) : todo[i] = row[Len(todo) - i + 1]

\* The tasks, and calls of one task.
LEMMA Pieces ==
  /\ LoadOf("stdair") \in Tasks /\ LoadOf("airtsp") \in Tasks
  /\ LoadOf("airinv") \in Tasks /\ LoadOf("simfqt") \in Tasks
  /\ LinkOf("airtsp") \in Tasks /\ LinkOf("airinv") \in Tasks /\ LinkOf("simfqt") \in Tasks
  /\ Copy \in Tasks
BY DEF LoadOf, LinkOf, Copy, Tasks, Layers, Components

\* Concatenation is associative.
LEMMA Concat4 ==
  ASSUME NEW S, NEW a \in Seq(S), NEW b \in Seq(S), NEW c \in Seq(S), NEW d \in Seq(S)
  PROVE  a \o b \o c \o d = a \o (b \o (c \o d)) /\ a \o b \o c = a \o (b \o c)
<1>1. a \o b \in Seq(S) /\ c \o d \in Seq(S)
  BY ConcatProperties
<1>2. ((a \o b) \o c) \o d = (a \o b) \o (c \o d)
  BY <1>1, ConcatAssociative
<1>3. (a \o b) \o (c \o d) = a \o (b \o (c \o d))
  BY <1>1, ConcatAssociative
<1> QED
  BY <1>2, <1>3, ConcatAssociative

\* A task put before a row makes a longer row, if it is the one due there.
LEMMA RowPrepend ==
  ASSUME NEW todo, NEW row, NEW n \in Nat, NEW m \in Nat, m = n + 1,
         Row(todo, row, n), Len(todo) = n, NEW task \in Tasks, task = row[m]
  PROVE  Row(<<task>> \o todo, row, m) /\ Len(<<task>> \o todo) = m
<1> DEFINE L == <<task>> \o todo
<1>1. /\ L \in Seq(Tasks) /\ Len(L) = n + 1 /\ L[1] = task
      /\ \A i \in 2..n + 1 : L[i] = todo[i - 1]
  BY ConcatProperties, <<task>> \in Seq(Tasks), Len(<<task>>) = 1, <<task>>[1] = task DEF Row
<1> HIDE DEF L
<1>2. ASSUME NEW i \in 2..n + 1  PROVE L[i] = row[Len(L) - i + 1]
  <2>1. i - 1 \in 1..Len(todo) /\ Len(todo) - (i - 1) + 1 = Len(L) - i + 1
    BY <1>1
  <2> QED
    BY <1>1, <2>1 DEF Row
<1>3. \A i \in 1..Len(L) : L[i] = row[Len(L) - i + 1]
  BY <1>1, <1>2
<1> QED
  BY <1>1, <1>3 DEF Row, L

\* A row of three: the loads of the components, or their links.
LEMMA RowOfThree ==
  ASSUME NEW row, NEW n \in Nat, NEW rest, Row(rest, row, n), Len(rest) = n,
         NEW a \in Tasks, NEW b \in Tasks, NEW c \in Tasks,
         a = row[n + 3], b = row[n + 2], c = row[n + 1]
  PROVE  /\ Row(<<a>> \o <<b>> \o <<c>> \o rest, row, n + 3)
         /\ Len(<<a>> \o <<b>> \o <<c>> \o rest) = n + 3
<1> DEFINE r == <<c>> \o rest
           q == <<b>> \o r
<1>1. Row(r, row, n + 1) /\ Len(r) = n + 1
  BY RowPrepend
<1>2. n + 1 \in Nat /\ n + 2 \in Nat /\ n + 3 \in Nat /\ n + 2 = (n + 1) + 1 /\ n + 3 = (n + 2) + 1
  OBVIOUS
<1> HIDE DEF r
<1>3. Row(q, row, n + 2) /\ Len(q) = n + 2
  BY <1>1, <1>2, RowPrepend
<1> HIDE DEF q
<1>4. Row(<<a>> \o q, row, n + 3) /\ Len(<<a>> \o q) = n + 3
  BY <1>2, <1>3, RowPrepend
<1>5. <<a>> \o <<b>> \o <<c>> \o rest = <<a>> \o q
  BY Concat4, <<a>> \in Seq(Tasks), <<b>> \in Seq(Tasks), <<c>> \in Seq(Tasks) DEF Row, q, r
<1> QED
  BY <1>4, <1>5

\* The tasks of a clone.
LEMMA CloneRow ==
  LET n == IF own THEN 4 ELSE 3
  IN  Row(CloneTasks, WithClone, n) /\ Len(CloneTasks) = n
<1> DEFINE A == <<LinkOf("airtsp")>>
           B == <<LinkOf("airinv")>>
           C == <<LinkOf("simfqt")>>
           links == A \o B \o C
           empty == <<>>
           none == 0
<1>1. /\ none \in Nat /\ Row(empty, WithClone, none) /\ Len(empty) = none /\ none + 3 = 3
      /\ WithClone[none + 1] = LinkOf("simfqt") /\ WithClone[none + 2] = LinkOf("airinv")
      /\ WithClone[none + 3] = LinkOf("airtsp") /\ WithClone[4] = Copy
  BY DEF Row, WithClone
<1>2. /\ A \in Seq(Tasks) /\ B \in Seq(Tasks) /\ C \in Seq(Tasks)
      /\ empty \in Seq(Tasks) /\ <<Copy>> \in Seq(Tasks)
  BY Pieces
<1> HIDE DEF none, empty
<1>3. Row(links \o empty, WithClone, none + 3) /\ Len(links \o empty) = none + 3
  BY <1>1, Pieces, RowOfThree
<1> HIDE DEF A, B, C
<1>4. /\ links \in Seq(Tasks) /\ links \o empty = links
      /\ empty \o A \o B \o C = links
      /\ <<Copy>> \o A \o B \o C = <<Copy>> \o links
  BY <1>2, Concat4, ConcatProperties, ConcatEmptySeq DEF empty
<1>5. CloneTasks = IF own THEN <<Copy>> \o A \o B \o C ELSE empty \o A \o B \o C
  BY DEF CloneTasks, IfOwn, Copy, Link, LinkOf, A, B, C, empty
<1> HIDE DEF links
<1>6. Row(links, WithClone, 3) /\ Len(links) = 3
  BY <1>1, <1>3, <1>4
<1>7. Row(<<Copy>> \o links, WithClone, 4) /\ Len(<<Copy>> \o links) = 4
  <2> DEFINE n == 3
             m == 4
  <2>1. /\ n \in Nat /\ m \in Nat /\ m = n + 1
        /\ Row(links, WithClone, n) /\ Len(links) = n
        /\ Copy \in Tasks /\ Copy = WithClone[m]
    BY <1>1, <1>6, Pieces
  <2> HIDE DEF n, m
  <2>2. Row(<<Copy>> \o links, WithClone, m) /\ Len(<<Copy>> \o links) = m
    BY <2>1, RowPrepend
  <2> QED
    BY <2>2 DEF m
<1> QED
  BY <1>4, <1>5, <1>6, <1>7

\* The tasks of a load, with those of the clone at the end of it.
LEMMA LoadRow ==
  LET n == IF own THEN 7 ELSE 3
  IN  Row(LoadTasks, IF own THEN WithClone ELSE WithoutClone, n) /\ Len(LoadTasks) = n
<1> DEFINE A == <<LoadOf("airtsp")>>
           B == <<LoadOf("airinv")>>
           C == <<LoadOf("simfqt")>>
           D == IfOwn(CloneTasks)
           row == IF own THEN WithClone ELSE WithoutClone
           n == IF own THEN 4 ELSE 0
<1>1. Row(D, row, n) /\ Len(D) = n /\ n \in Nat
  <2>1. CASE own
    BY <2>1, CloneRow DEF IfOwn
  <2>2. CASE ~own
    BY <2>2 DEF IfOwn, Row
  <2> QED
    BY <2>1, <2>2
<1>2. /\ row[n + 1] = LoadOf("simfqt") /\ row[n + 2] = LoadOf("airinv")
      /\ row[n + 3] = LoadOf("airtsp")
  BY DEF WithClone, WithoutClone
<1>3. LoadTasks = A \o B \o C \o D
  BY DEF LoadTasks, Load, LoadOf
<1>4. n + 3 = IF own THEN 7 ELSE 3
  OBVIOUS
<1> HIDE DEF D, row, n
<1>5. Row(A \o B \o C \o D, row, n + 3) /\ Len(A \o B \o C \o D) = n + 3
  BY <1>1, <1>2, Pieces, RowOfThree
<1> QED
  BY <1>3, <1>4, <1>5 DEF row

\* buildSampleBom begins with the sample of StdAir, when that is owned.
LEMMA SampleRow ==
  LET n == IF own THEN 8 ELSE 3
      todo == IfOwn(Load("stdair")) \o LoadTasks
  IN  Row(todo, IF own THEN WithClone ELSE WithoutClone, n) /\ Len(todo) = n
<1>1. CASE own
  <2>1. LoadOf("stdair") = WithClone[8]
    BY DEF WithClone
  <2>2. IfOwn(Load("stdair")) = <<LoadOf("stdair")>>
    BY <1>1 DEF IfOwn, Load, LoadOf
  <2>3. Row(LoadTasks, WithClone, 7) /\ Len(LoadTasks) = 7
    BY <1>1, LoadRow
  <2>4. /\ Row(<<LoadOf("stdair")>> \o LoadTasks, WithClone, 8)
        /\ Len(<<LoadOf("stdair")>> \o LoadTasks) = 8
    <3> DEFINE n == 7
               m == 8
    <3>1. /\ n \in Nat /\ m \in Nat /\ m = n + 1
          /\ Row(LoadTasks, WithClone, n) /\ Len(LoadTasks) = n
          /\ LoadOf("stdair") \in Tasks /\ LoadOf("stdair") = WithClone[m]
      BY <2>1, <2>3, Pieces
    <3> HIDE DEF n, m
    <3>2. /\ Row(<<LoadOf("stdair")>> \o LoadTasks, WithClone, m)
          /\ Len(<<LoadOf("stdair")>> \o LoadTasks) = m
      BY <3>1, RowPrepend
    <3> QED
      BY <3>2 DEF m
  <2> QED
    BY <1>1, <2>2, <2>4
<1>2. CASE ~own
  <2>1. Row(LoadTasks, WithoutClone, 3) /\ LoadTasks \in Seq(Tasks) /\ Len(LoadTasks) = 3
    BY <1>2, LoadRow DEF Row
  <2>2. IfOwn(Load("stdair")) \o LoadTasks = LoadTasks
    BY <1>2, <2>1, ConcatEmptySeq DEF IfOwn
  <2> QED
    BY <1>2, <2>1, <2>2
<1> QED
  BY <1>1, <1>2

\* A task done, the rest is a row again.
LEMMA RowTail ==
  ASSUME NEW todo, NEW row, NEW longest \in Nat, Row(todo, row, longest), todo # <<>>
  PROVE  /\ Row(Tail(todo), row, longest)
         /\ Len(Tail(todo)) = Len(todo) - 1 /\ Len(todo) \in 1..longest
         /\ Head(todo) = row[Len(todo)] /\ Head(todo) \in Tasks
<1>1. /\ Tail(todo) \in Seq(Tasks) /\ Len(Tail(todo)) = Len(todo) - 1
      /\ \A i \in 1..Len(Tail(todo)) : Tail(todo)[i] = todo[i + 1]
      /\ Head(todo) \in Tasks /\ Head(todo) = todo[1]
  BY HeadTailProperties DEF Row
<1>2. Len(todo) \in 1..longest
  BY EmptySeq DEF Row
<1> QED
  BY <1>1, <1>2 DEF Row

--------------------------------------------------------------------------------
(* The inductive invariant *)

Loading == load.op \in {"parseAndLoad", "buildSampleBom"}
Cloning == load.op = "clonePersistentBom"
Left == Len(load.todo)
LoadsLeft == IF Loading THEN IF own THEN Left - 4 ELSE Left ELSE 0

RowOfCall == IF own \/ Cloning THEN WithClone ELSE WithoutClone
Longest == IF Cloning THEN IF own THEN 4 ELSE 3 ELSE IF own THEN 8 ELSE 3

LoadCall == [op : LoadOps, todo : Seq(Tasks), loaded : SUBSET Layers]

\* The layers still to be loaded may be, and those done are in loaded.
LoadsOnTime ==
  /\ LoadsLeft >= 4 => persistent.loads["stdair"] < MaxLoads
  /\ LoadsLeft >= 3 => persistent.loads["airtsp"] < MaxLoads
  /\ LoadsLeft >= 2 => persistent.loads["airinv"] < MaxLoads
  /\ LoadsLeft >= 1 => persistent.loads["simfqt"] < MaxLoads
  /\ Loading /\ LoadsLeft <= 2 => "airtsp" \in load.loaded
  /\ Loading /\ LoadsLeft <= 1 => "airinv" \in load.loaded
  /\ Loading /\ LoadsLeft <= 0 => "simfqt" \in load.loaded

\* Between two layers of a load the later is one load behind.
OneBehind ==
  /\ LoadsLeft = 2 => persistent.loads["airinv"] < persistent.loads["airtsp"]
  /\ LoadsLeft = 1 => persistent.loads["simfqt"] < persistent.loads["airinv"]

\* A call that clones has copied the tree before it links, and links in order.
ClonesOnTime ==
  /\ own /\ load.op # "idle" /\ Left <= 3 => working.whole /\ working.tree = persistent
  /\ load.op # "idle" /\ (own \/ Cloning) =>
       /\ Left <= 2 => "airtsp" \in working.links
       /\ Left <= 1 => "airinv" \in working.links
       /\ Left <= 0 => "simfqt" \in working.links

DataInv ==
  /\ DataTypeOK /\ load \in LoadCall
  /\ load.op # "idle" => Row(load.todo, RowOfCall, Longest)
  /\ LoadsOnTime /\ OneBehind /\ ClonesOnTime
  /\ LayersInOrder /\ ReturnedMeansServed

--------------------------------------------------------------------------------
(* What the next task of a call is, and what is left once it is done *)

\* A call under way is a load or a clone, and has so many tasks left.
LEMMA CallHasTask ==
  ASSUME DataInv, load.op # "idle"
  PROVE  /\ Longest \in {3, 4, 8} /\ Left \in 0..Longest /\ LoadsLeft \in Int
         /\ Loading \/ Cloning
         /\ load.todo = <<>> <=> Left = 0
<1>1. load.op \in LoadOps /\ load.todo \in Seq(Tasks) /\ Left \in Nat
  BY DEF DataInv, LoadCall, Left
<1>2. load.todo = <<>> <=> Left = 0
  BY <1>1, EmptySeq DEF Left
<1>3. Loading \/ Cloning
  BY <1>1 DEF Loading, Cloning, LoadOps
<1> QED
  BY <1>1, <1>2, <1>3 DEF DataInv, Row, Left, Longest, LoadsLeft

\* The next task is the one due, and what follows it is a row again.
LEMMA NextTask ==
  ASSUME DataInv, load.op # "idle", load.todo # <<>>
  PROVE  /\ Left \in 1..Longest
         /\ Row(Tail(load.todo), RowOfCall, Longest) /\ Len(Tail(load.todo)) = Left - 1
         /\ Task \in Tasks /\ Task = RowOfCall[Left]
<1>1. Row(load.todo, RowOfCall, Longest) /\ Longest \in Nat
  BY CallHasTask DEF DataInv
<1> QED
  BY <1>1, RowTail DEF Task, Left

\* The number of tasks left tells what the next one does, and to which layer.
LEMMA TaskByNumber ==
  ASSUME DataInv, load.op # "idle", load.todo # <<>>
  PROVE  /\ Task.do \in {"load", "copy", "link"}
         /\ Task.do = "load" =>
              /\ Loading /\ LoadsLeft \in 1..4
              /\ LoadsLeft = 4 => Task.layer = "stdair"
              /\ LoadsLeft = 3 => Task.layer = "airtsp"
              /\ LoadsLeft = 2 => Task.layer = "airinv"
              /\ LoadsLeft = 1 => Task.layer = "simfqt"
         /\ Task.do = "copy" => own /\ Left = 4
         /\ Task.do = "link" =>
              /\ own \/ Cloning
              /\ Left \in 1..3
              /\ Left = 3 => Task.layer = "airtsp"
              /\ Left = 2 => Task.layer = "airinv"
              /\ Left = 1 => Task.layer = "simfqt"
<1>1. Left \in 1..Longest /\ Task = RowOfCall[Left]
  BY NextTask
<1>2. Loading \/ Cloning
  BY CallHasTask
<1>3. ~(Loading /\ Cloning)
  BY DEF Loading, Cloning
<1>4. CASE own \/ Cloning
  <2>1. Task = WithClone[Left] /\ Left \in 1..8 /\ Left <= Longest
    BY <1>1, <1>4 DEF RowOfCall, Longest
  <2>2. /\ Left > 4 => Loading /\ own /\ LoadsLeft = Left - 4
        /\ Left = 4 => own
    BY <1>2, <1>3, <1>4, <2>1 DEF Longest, LoadsLeft
  <2> QED
    BY <1>4, <2>1, <2>2 DEF WithClone, LoadOf, LinkOf, Copy
<1>5. CASE ~own /\ ~Cloning
  <2>1. Task = WithoutClone[Left] /\ Left \in 1..3 /\ Loading /\ LoadsLeft = Left
    BY <1>1, <1>2, <1>5 DEF RowOfCall, Longest, LoadsLeft
  <2> QED
    BY <2>1 DEF WithoutClone, WithClone, LoadOf
<1> QED
  BY <1>4, <1>5

\* Doing a task leaves one fewer, and records a layer loaded.
LEMMA TaskDone ==
  ASSUME DataInv, load.op # "idle", load.todo # <<>>, Done, UNCHANGED own
  PROVE  /\ load' \in LoadCall /\ load'.op = load.op /\ Row(load.todo, RowOfCall, Longest)'
         /\ Left' = Left - 1 /\ (Loading' <=> Loading) /\ (Cloning' <=> Cloning)
         /\ LoadsLeft' = IF Loading THEN LoadsLeft - 1 ELSE 0
         /\ load'.loaded = IF Task.do = "load" THEN load.loaded \cup {Task.layer} ELSE load.loaded
<1>1. /\ Row(Tail(load.todo), RowOfCall, Longest) /\ Len(Tail(load.todo)) = Left - 1
      /\ Task \in Tasks
  BY NextTask
<1>2. /\ Task.layer \in Layers /\ load \in LoadCall /\ Left \in Nat
  BY <1>1, CallHasTask DEF Tasks, Layers, DataInv, LoadCall
<1>3. /\ load'.op = load.op /\ load'.todo = Tail(load.todo) /\ load' \in LoadCall
      /\ load'.loaded = IF Task.do = "load" THEN load.loaded \cup {Task.layer} ELSE load.loaded
  BY <1>1, <1>2 DEF Done, LoadCall, Row
<1>4. /\ Left' = Left - 1 /\ (Loading' <=> Loading) /\ (Cloning' <=> Cloning)
      /\ LoadsLeft' = IF Loading THEN LoadsLeft - 1 ELSE 0
  BY <1>1, <1>2, <1>3 DEF Left, Loading, Cloning, LoadsLeft
<1>5. RowOfCall' = RowOfCall /\ Longest' = Longest
  BY <1>3 DEF RowOfCall, Longest, Cloning
<1>6. Row(load.todo, RowOfCall, Longest)'
  BY <1>1, <1>3, <1>5 DEF Row
<1> QED
  BY <1>3, <1>4, <1>6

--------------------------------------------------------------------------------
(* Every step keeps the invariant *)

\* A service begins without a call.
LEMMA InitInv == DataInit => DataInv
<1> SUFFICES ASSUME DataInit  PROVE DataInv
  OBVIOUS
<1>1. DataTypeOK /\ load \in LoadCall
  BY DEF DataInit, DataTypeOK, LoadCall, NoLoad, EmptyTree, Tree, Working, LoadOps
<1>2. load.op = "idle" /\ ~Loading /\ LoadsLeft = 0
  BY DEF DataInit, NoLoad, Loading, LoadsLeft
<1>3. LayersInOrder
  BY DEF DataInit, LayersInOrder, EmptyTree, Layers, Components
<1>4. ReturnedMeansServed
  BY DEF DataInit, ReturnedMeansServed
<1> QED
  BY <1>1, <1>2, <1>3, <1>4 DEF DataInv, LoadsOnTime, OneBehind, ClonesOnTime

\* A call begins with the row of all its tasks.
LEMMA BeginInv ==
  ASSUME DataInv, NEW op \in LoadOps \ {"idle"}, NEW todo, BeginLoad(op, todo),
         Row(todo, IF own \/ op = "clonePersistentBom" THEN WithClone ELSE WithoutClone,
             IF op = "clonePersistentBom" THEN IF own THEN 4 ELSE 3 ELSE IF own THEN 8 ELSE 3),
         op # "clonePersistentBom" => Loadable /\ Len(todo) >= IF own THEN 7 ELSE 3,
         op = "clonePersistentBom" => Len(todo) >= IF own THEN 4 ELSE 3
  PROVE  DataInv'
<1>1. /\ load'.op = op /\ load'.todo = todo /\ load'.loaded = {} /\ load' \in LoadCall
  BY DEF BeginLoad, LoadCall, Row
<1>2. UNCHANGED <<own, persistent, working, outcome>>
  BY DEF BeginLoad
<1>3. Row(load.todo, RowOfCall, Longest)'
  BY <1>1, <1>2 DEF RowOfCall, Longest, Cloning, Row
<1>4. DataTypeOK'
  BY <1>1, <1>2 DEF DataInv, DataTypeOK, LoadCall
<1>5. Left' = Len(todo) /\ Len(todo) \in Nat /\ own \in BOOLEAN
  BY <1>1 DEF Left, Row, DataInv, DataTypeOK
<1>6. LoadsOnTime' /\ OneBehind' /\ ClonesOnTime'
  <2>1. CASE op = "clonePersistentBom"
    <3>1. LoadsLeft' = 0 /\ ~Loading'
      BY <1>1, <2>1 DEF LoadsLeft, Loading
    <3>2. Left' >= 3 /\ (own => Left' >= 4)
      BY <1>5, <2>1
    <3> QED
      BY <1>2, <1>5, <3>1, <3>2 DEF LoadsOnTime, OneBehind, ClonesOnTime
  <2>2. CASE op # "clonePersistentBom"
    <3>1. Loading' /\ ~Cloning' /\ Loadable
      BY <1>1, <2>2 DEF Loading, Cloning, LoadOps
    <3>2. /\ Left' >= 3 /\ (own => Left' >= 7)
          /\ LoadsLeft' \in Int /\ LoadsLeft' >= 3
      BY <1>2, <1>5, <2>2, <3>1 DEF LoadsLeft
    <3>3. \A k \in Layers : persistent'.loads[k] < MaxLoads
      BY <1>2, <3>1 DEF Loadable
    <3> QED
      BY <1>2, <1>5, <3>1, <3>2, <3>3 DEF LoadsOnTime, OneBehind, ClonesOnTime, Layers, Components
  <2> QED
    BY <2>1, <2>2
<1>7. LayersInOrder' /\ ReturnedMeansServed'
  BY <1>1, <1>2 DEF DataInv, LayersInOrder, ReturnedMeansServed, NoLoad
<1> QED
  BY <1>1, <1>3, <1>4, <1>6, <1>7 DEF DataInv

\* A layer is loaded when its turn comes, and is then no longer behind.
LEMMA LoadInv == ASSUME DataInv, LoadLayer  PROVE DataInv'
<1> DEFINE k == Task.layer
           n == LoadsLeft
<1>1. /\ load.op # "idle" /\ load.todo # <<>> /\ Task.do = "load" /\ Done
      /\ persistent' = [persistent EXCEPT !.loads[k] = @ + 1]
      /\ UNCHANGED <<own, working, outcome>>
  BY DEF LoadLayer, Doing
<1>2. /\ Loading /\ n \in 1..4 /\ k \in Layers
      /\ n = 4 => k = "stdair"
      /\ n = 3 => k = "airtsp"
      /\ n = 2 => k = "airinv"
      /\ n = 1 => k = "simfqt"
  BY <1>1, TaskByNumber DEF Layers, Components
<1>3. /\ load' \in LoadCall /\ load'.op = load.op /\ Row(load.todo, RowOfCall, Longest)'
      /\ Left' = Left - 1 /\ Loading' /\ LoadsLeft' = n - 1
      /\ load'.loaded = load.loaded \cup {k}
  BY <1>1, <1>2, TaskDone
<1>4. persistent \in Tree /\ \A j \in Layers : persistent.loads[j] \in Nat
  BY DEF DataInv, DataTypeOK, Tree
<1>5. /\ persistent' \in Tree
      /\ \A j \in Layers : persistent'.loads[j] =
                             IF j = k THEN persistent.loads[j] + 1 ELSE persistent.loads[j]
  <2> DEFINE l == [persistent.loads EXCEPT ![k] = @ + 1]
  <2>1. /\ l \in [Layers -> Nat]
        /\ \A j \in Layers : l[j] = IF j = k THEN persistent.loads[j] + 1 ELSE persistent.loads[j]
    BY <1>2, <1>4 DEF Tree
  <2>2. persistent' = [persistent EXCEPT !.loads = l]
    BY <1>1
  <2> HIDE DEF l
  <2>3. persistent' \in Tree /\ persistent'.loads = l
    BY <1>4, <2>1, <2>2 DEF Tree
  <2> QED
    BY <2>1, <2>3
<1> HIDE DEF k, n
<1>6. persistent.loads[k] < MaxLoads
  BY <1>2 DEF DataInv, LoadsOnTime, n
<1>7. DataTypeOK'
  BY <1>1, <1>3, <1>4, <1>5, <1>6 DEF DataInv, DataTypeOK, LoadCall
<1>8. LoadsOnTime'
  <2>1. /\ n - 1 >= 3 => persistent.loads["airtsp"] < MaxLoads /\ k # "airtsp"
        /\ n - 1 >= 2 => persistent.loads["airinv"] < MaxLoads /\ k # "airinv"
        /\ n - 1 >= 1 => persistent.loads["simfqt"] < MaxLoads /\ k # "simfqt"
    BY <1>2 DEF DataInv, LoadsOnTime, n
  <2>2. /\ n - 1 <= 2 => "airtsp" \in load'.loaded
        /\ n - 1 <= 1 => "airinv" \in load'.loaded
        /\ n - 1 <= 0 => "simfqt" \in load'.loaded
    BY <1>2, <1>3 DEF DataInv, LoadsOnTime, n
  <2>3. \A j \in Layers : j # k => persistent'.loads[j] = persistent.loads[j]
    BY <1>5
  <2>4. /\ n - 1 >= 3 => persistent'.loads["airtsp"] < MaxLoads
        /\ n - 1 >= 2 => persistent'.loads["airinv"] < MaxLoads
        /\ n - 1 >= 1 => persistent'.loads["simfqt"] < MaxLoads
    BY <2>1, <2>3 DEF Layers, Components
  <2> QED
    BY <1>2, <1>3, <2>2, <2>4 DEF LoadsOnTime
<1>9. OneBehind' /\ LayersInOrder'
  <2>1. /\ persistent.loads["simfqt"] <= persistent.loads["airinv"]
        /\ persistent.loads["airinv"] <= persistent.loads["airtsp"]
        /\ working.tree.loads["simfqt"] <= working.tree.loads["airinv"]
        /\ working.tree.loads["airinv"] <= working.tree.loads["airtsp"]
    BY DEF DataInv, LayersInOrder
  <2>2. /\ n = 2 => persistent.loads["airinv"] < persistent.loads["airtsp"]
        /\ n = 1 => persistent.loads["simfqt"] < persistent.loads["airinv"]
    BY DEF DataInv, OneBehind, n
  <2>3. /\ persistent'.loads["simfqt"] <= persistent'.loads["airinv"]
        /\ persistent'.loads["airinv"] <= persistent'.loads["airtsp"]
    BY <1>2, <1>4, <1>5, <2>1, <2>2 DEF Layers, Components
  <2>4. OneBehind'
    BY <1>2, <1>3, <1>4, <1>5, <2>1 DEF OneBehind, Layers, Components
  <2> QED
    BY <1>1, <2>1, <2>3, <2>4 DEF LayersInOrder
<1>10. ClonesOnTime'
  BY <1>1, <1>2, <1>3 DEF ClonesOnTime, LoadsLeft, Loading, Cloning, n
<1>11. ReturnedMeansServed'
  BY <1>1, <1>3 DEF ReturnedMeansServed, NoLoad
<1> QED
  BY <1>3, <1>7, <1>8, <1>9, <1>10, <1>11 DEF DataInv

\* The copy is of the persistent tree as it is.
LEMMA CopyInv == ASSUME DataInv, CopyTree  PROVE DataInv'
<1>1. /\ load.op # "idle" /\ load.todo # <<>> /\ Task.do = "copy" /\ Done
      /\ working' = [tree |-> persistent, whole |-> TRUE, links |-> {}]
      /\ UNCHANGED <<own, persistent, outcome>>
  BY DEF CopyTree, Doing
<1>2. own /\ Left = 4
  BY <1>1, TaskByNumber
<1>3. /\ load' \in LoadCall /\ load'.op = load.op /\ Row(load.todo, RowOfCall, Longest)'
      /\ Left' = 3 /\ (Loading' <=> Loading) /\ load'.loaded = load.loaded
      /\ LoadsLeft' = IF Loading THEN LoadsLeft - 1 ELSE 0
  BY <1>1, <1>2, TaskDone
<1>4. LoadsLeft = 0 /\ LoadsLeft' <= 0 /\ LoadsLeft' \in Int
  BY <1>2, <1>3 DEF LoadsLeft
<1>5. DataTypeOK'
  BY <1>1, <1>3 DEF DataInv, DataTypeOK, LoadCall, Working
<1>6. LoadsOnTime' /\ OneBehind' /\ ClonesOnTime'
  BY <1>1, <1>3, <1>4 DEF DataInv, LoadsOnTime, OneBehind, ClonesOnTime
<1>7. LayersInOrder' /\ ReturnedMeansServed'
  BY <1>1, <1>3 DEF DataInv, LayersInOrder, ReturnedMeansServed, NoLoad
<1> QED
  BY <1>3, <1>5, <1>6, <1>7 DEF DataInv

\* Each link follows the copy and the links before it.
LEMMA LinkInv == ASSUME DataInv, LinkComponent  PROVE DataInv'
<1>1. /\ load.op # "idle" /\ load.todo # <<>> /\ Task.do = "link" /\ Done
      /\ working' = [working EXCEPT !.links = @ \cup {Task.layer}]
      /\ UNCHANGED <<own, persistent, outcome>>
  BY DEF LinkComponent, Doing
<1>2. /\ own \/ Cloning
      /\ Left \in 1..3 /\ Task.layer \in Components
      /\ Left = 3 => Task.layer = "airtsp"
      /\ Left = 2 => Task.layer = "airinv"
      /\ Left = 1 => Task.layer = "simfqt"
  BY <1>1, TaskByNumber DEF Components
<1>3. /\ load' \in LoadCall /\ load'.op = load.op /\ Row(load.todo, RowOfCall, Longest)'
      /\ Left' = Left - 1 /\ (Loading' <=> Loading) /\ load'.loaded = load.loaded
      /\ LoadsLeft' = IF Loading THEN LoadsLeft - 1 ELSE 0
  BY <1>1, <1>2, TaskDone
<1>4. LoadsLeft <= 0 /\ LoadsLeft' <= 0 /\ LoadsLeft \in Int /\ LoadsLeft' \in Int
  BY <1>2, <1>3 DEF LoadsLeft, Loading, Cloning
<1>5. /\ working \in Working /\ working' \in Working
      /\ working'.tree = working.tree /\ working'.whole = working.whole
      /\ working'.links = working.links \cup {Task.layer}
  BY <1>1, <1>2 DEF DataInv, DataTypeOK, Working
<1>6. DataTypeOK'
  BY <1>1, <1>3, <1>5 DEF DataInv, DataTypeOK, LoadCall
<1>7. LoadsOnTime' /\ OneBehind'
  BY <1>1, <1>3, <1>4 DEF DataInv, LoadsOnTime, OneBehind
<1>8. ClonesOnTime'
  BY <1>1, <1>2, <1>3, <1>5 DEF DataInv, ClonesOnTime
<1>9. LayersInOrder' /\ ReturnedMeansServed'
  BY <1>1, <1>3, <1>5 DEF DataInv, LayersInOrder, ReturnedMeansServed, NoLoad
<1> QED
  BY <1>3, <1>6, <1>7, <1>8, <1>9 DEF DataInv

\* A task that throws ends the call, and may leave a tree in pieces.
LEMMA ThrowInv == ASSUME DataInv, TaskThrows  PROVE DataInv'
<1>1. /\ load.op # "idle" /\ load.todo # <<>>
      /\ load' = NoLoad /\ outcome' = "threw" /\ own' = own
  BY DEF TaskThrows
<1>2. Task \in Tasks
  BY <1>1, NextTask
<1>3. persistent' \in Tree /\ persistent'.loads = persistent.loads
  <2>1. CASE Task.do = "load"
    <3>1. Task.layer \in Layers
      BY <1>2, <2>1 DEF Tasks, Layers
    <3>2. persistent' = persistent
            \/ persistent' = [persistent EXCEPT !.torn = @ \cup {Task.layer}]
      BY <2>1 DEF TaskThrows
    <3> QED
      BY <3>1, <3>2 DEF DataInv, DataTypeOK, Tree
  <2>2. CASE Task.do # "load"
    BY <2>2 DEF TaskThrows, DataInv, DataTypeOK
  <2> QED
    BY <2>1, <2>2
<1>4. /\ working' \in Working
      /\ working'.tree \in {working.tree, persistent}
  <2>1. \/ working' = working
        \/ working' = [tree |-> persistent, whole |-> FALSE, links |-> {}]
    <3>1. CASE Task.do = "copy"
      BY <3>1 DEF TaskThrows
    <3>2. CASE Task.do # "copy"
      BY <3>2 DEF TaskThrows
    <3> QED
      BY <3>1, <3>2
  <2>2. working \in Working /\ persistent \in Tree
    BY DEF DataInv, DataTypeOK
  <2>3. CASE working' = working
    BY <2>2, <2>3
  <2>4. CASE working' = [tree |-> persistent, whole |-> FALSE, links |-> {}]
    <3>1. working'.tree = persistent /\ working'.whole = FALSE /\ working'.links = {}
      BY <2>4
    <3> QED
      BY <2>2, <2>4, <3>1 DEF Working
  <2> QED
    BY <2>1, <2>3, <2>4
<1>5. DataTypeOK' /\ load' \in LoadCall
  BY <1>1, <1>3, <1>4 DEF DataInv, DataTypeOK, LoadCall, NoLoad, LoadOps
<1>6. load'.op = "idle" /\ ~Loading' /\ LoadsLeft' = 0
  BY <1>1 DEF NoLoad, Loading, LoadsLeft
<1>7. LayersInOrder' /\ ReturnedMeansServed'
  BY <1>1, <1>3, <1>4 DEF DataInv, LayersInOrder, ReturnedMeansServed
<1> QED
  BY <1>5, <1>6, <1>7 DEF DataInv, LoadsOnTime, OneBehind, ClonesOnTime

\* A call returns when it has no task left.
LEMMA ReturnInv == ASSUME DataInv, Return  PROVE DataInv'
<1>1. /\ load.op # "idle" /\ load.todo = <<>> /\ outcome' = load.op /\ load' = NoLoad
      /\ UNCHANGED <<own, persistent, working>>
  BY DEF Return
<1>2. DataTypeOK' /\ load' \in LoadCall
  BY <1>1 DEF DataInv, DataTypeOK, LoadCall, NoLoad, LoadOps
<1>3. load'.op = "idle" /\ ~Loading' /\ LoadsLeft' = 0
  BY <1>1 DEF NoLoad, Loading, LoadsLeft
<1>4. LayersInOrder'
  BY <1>1 DEF DataInv, LayersInOrder
<1>5. ReturnedMeansServed'
  <2>1. Left = 0
    BY <1>1, CallHasTask
  <2>2. own \/ Cloning => working.links = Components
    BY <1>1, <2>1 DEF DataInv, ClonesOnTime, DataTypeOK, Working, Components
  <2>3. own => working.whole /\ working.tree = persistent
    BY <1>1, <2>1 DEF DataInv, ClonesOnTime
  <2> QED
    BY <1>1, <2>2, <2>3 DEF ReturnedMeansServed, Cloning
<1> QED
  BY <1>2, <1>3, <1>4, <1>5 DEF DataInv, LoadsOnTime, OneBehind, ClonesOnTime

\* The embedding program clones between calls.
LEMMA CallerInv == ASSUME DataInv, CallerClones  PROVE DataInv'
<1>1. /\ ~own /\ load = NoLoad /\ outcome' = "none"
      /\ \E all \in BOOLEAN : working' = [tree |-> persistent, whole |-> all, links |-> {}]
      /\ UNCHANGED <<own, persistent, load>>
  BY DEF CallerClones
<1>2. load.op = "idle" /\ ~Loading' /\ LoadsLeft' = 0
  BY <1>1 DEF NoLoad, Loading, LoadsLeft
<1>3. DataTypeOK'
  BY <1>1 DEF DataInv, DataTypeOK, Working
<1>4. LayersInOrder' /\ ReturnedMeansServed'
  BY <1>1 DEF DataInv, LayersInOrder, ReturnedMeansServed
<1> QED
  BY <1>1, <1>2, <1>3, <1>4 DEF DataInv, LoadsOnTime, OneBehind, ClonesOnTime

\* Every step keeps the invariant.
LEMMA NextInv == DataInv /\ [DataNext]_dataVars => DataInv'
<1> SUFFICES ASSUME DataInv, [DataNext]_dataVars  PROVE DataInv'
  OBVIOUS
<1>1. CASE ParseAndLoad
  <2> DEFINE op == "parseAndLoad"
  <2>1. op \in LoadOps \ {"idle"} /\ op # "clonePersistentBom"
    BY DEF LoadOps
  <2>2. Loadable /\ BeginLoad(op, LoadTasks)
    BY <1>1 DEF ParseAndLoad
  <2> HIDE DEF op
  <2>3. /\ Row(LoadTasks, IF own THEN WithClone ELSE WithoutClone, IF own THEN 8 ELSE 3)
        /\ Len(LoadTasks) >= IF own THEN 7 ELSE 3
    BY LoadRow DEF Row
  <2> QED
    BY <2>1, <2>2, <2>3, BeginInv
<1>2. CASE BuildSampleBom
  <2> DEFINE op == "buildSampleBom"
             todo == IfOwn(Load("stdair")) \o LoadTasks
  <2>1. op \in LoadOps \ {"idle"} /\ op # "clonePersistentBom"
    BY DEF LoadOps
  <2>2. Loadable /\ BeginLoad(op, todo)
    BY <1>2 DEF BuildSampleBom
  <2>3. /\ Row(todo, IF own THEN WithClone ELSE WithoutClone, IF own THEN 8 ELSE 3)
        /\ Len(todo) >= IF own THEN 7 ELSE 3
    BY SampleRow
  <2> HIDE DEF op, todo
  <2> QED
    BY <2>1, <2>2, <2>3, BeginInv
<1>3. CASE ClonePersistentBom
  BY <1>3, CloneRow, BeginInv DEF ClonePersistentBom, LoadOps
<1>4. CASE LoadLayer
  BY <1>4, LoadInv
<1>5. CASE CopyTree
  BY <1>5, CopyInv
<1>6. CASE LinkComponent
  BY <1>6, LinkInv
<1>7. CASE TaskThrows
  BY <1>7, ThrowInv
<1>8. CASE Return
  BY <1>8, ReturnInv
<1>9. CASE CallerClones
  BY <1>9, CallerInv
<1>10. CASE UNCHANGED dataVars
  BY <1>10 DEF dataVars, DataInv, DataTypeOK, LayersInOrder, ReturnedMeansServed, LoadsOnTime, OneBehind,
              ClonesOnTime, LoadsLeft, Left, Loading, Cloning, RowOfCall, Longest
<1> QED
  BY <1>1, <1>2, <1>3, <1>4, <1>5, <1>6, <1>7, <1>8, <1>9, <1>10 DEF DataNext, DataStep

--------------------------------------------------------------------------------
(* The theorems *)

\* The invariant holds of every service, however its loads fail and are retried.
THEOREM DataInductive == DataSpec => []DataInv
<1>1. DataInit => DataInv
  BY InitInv
<1>2. DataInv /\ [DataNext]_dataVars => DataInv'
  BY NextInv
<1> QED
  BY <1>1, <1>2, PTL DEF DataSpec

\* The state keeps its types, and no layer is loaded more often than the bound.
THEOREM DataTypesHold == DataSpec => []DataTypeOK
<1>1. DataInv => DataTypeOK
  BY DEF DataInv
<1> QED
  BY <1>1, DataInductive, PTL

\* A load or a clone that returned leaves a complete and linked working tree.
THEOREM ReturnedIsServed == DataSpec => []ReturnedMeansServed
<1>1. DataInv => ReturnedMeansServed
  BY DEF DataInv
<1> QED
  BY <1>1, DataInductive, PTL

\* Whatever loads were interrupted, no layer is ahead of the one it builds on.
THEOREM LayersStayInOrder == DataSpec => []LayersInOrder
<1>1. DataInv => LayersInOrder
  BY DEF DataInv
<1> QED
  BY <1>1, DataInductive, PTL

\* During a call the working tree changes at a copy, which only a service that owns its
\* StdAir makes, and at a link.
LEMMA CopyOrLink ==
  ASSUME DataInv, [DataNext]_dataVars, load.op # "idle", working' # working
  PROVE  /\ load.todo # <<>> /\ Task.do \in {"copy", "link"}
         /\ Task.do = "copy" => own
         /\ Task.do = "link" =>
              /\ own \/ Cloning
              /\ working'.tree = working.tree /\ working'.whole = working.whole
         /\ Left <= 4
<1>1. CopyTree \/ TaskThrows \/ LinkComponent
  <2>1. load # NoLoad
    BY DEF NoLoad
  <2> QED
    BY <2>1 DEF DataNext, DataStep, ParseAndLoad, BuildSampleBom, ClonePersistentBom, BeginLoad,
                LoadLayer, Return, CallerClones, dataVars
<1>2. load.todo # <<>>
  BY <1>1 DEF CopyTree, LinkComponent, TaskThrows, Doing
<1>3. \/ Task.do = "copy"
      \/ Task.do = "link" /\ working' = [working EXCEPT !.links = @ \cup {Task.layer}]
  BY <1>1 DEF CopyTree, LinkComponent, TaskThrows, Doing
<1>4. working \in Working
  BY DEF DataInv, DataTypeOK
<1>5. Task.do = "copy" => own /\ Left = 4
  BY <1>2, TaskByNumber
<1>6. Task.do = "link" => (own \/ Cloning) /\ Left \in 1..3
  BY <1>2, TaskByNumber
<1>7. Left <= 4
  BY <1>3, <1>5, <1>6
<1> QED
  BY <1>2, <1>3, <1>4, <1>5, <1>6, <1>7 DEF Working

\* During a load that is once everything is loaded.
LEMMA ChangesAfterLoads ==
  ASSUME DataInv, [DataNext]_dataVars, Loading, working' # working
  PROVE  Components \subseteq load.loaded
<1>1. load.op # "idle" /\ ~Cloning
  BY DEF Loading, Cloning
<1>2. own /\ Left <= 4 /\ Left \in Nat
  BY <1>1, CopyOrLink, CallHasTask
<1>3. LoadsLeft <= 0 /\ LoadsLeft \in Int
  BY <1>2 DEF LoadsLeft
<1> QED
  BY <1>3 DEF DataInv, LoadsOnTime, Components

\* A load changes the working tree only once all three components have loaded their
\* layer in that very call.
THEOREM LoadsServeUntilLoaded == DataSpec => ServesUntilLoaded
<1> DEFINE Keeps == working' # working /\ load.op \in {"parseAndLoad", "buildSampleBom"}
                      => Components \subseteq load.loaded
<1>1. DataInv /\ [DataNext]_dataVars => [Keeps]_dataVars
  BY ChangesAfterLoads DEF Loading
<1>2. DataSpec => [][Keeps]_dataVars
  BY <1>1, DataInductive, PTL DEF DataSpec
<1> QED
  BY <1>2 DEF ServesUntilLoaded

\* No call of a service that was handed its StdAir replaces the working tree.
THEOREM SharedTreeUntouched == DataSpec => SharedTreeIsNotOurs
<1> DEFINE Keeps == ~own /\ load.op # "idle" =>
                      working'.tree = working.tree /\ working'.whole = working.whole
<1>1. DataInv /\ [DataNext]_dataVars => [Keeps]_dataVars
  <2> SUFFICES ASSUME DataInv, [DataNext]_dataVars, ~own, load.op # "idle", working' # working
               PROVE  working'.tree = working.tree /\ working'.whole = working.whole
    OBVIOUS
  <2> QED
    BY CopyOrLink
<1>2. DataSpec => [][Keeps]_dataVars
  BY <1>1, DataInductive, PTL DEF DataSpec
<1> QED
  BY <1>2 DEF SharedTreeIsNotOurs

--------------------------------------------------------------------------------
(* Loads come to an end *)

\* A load or a clone under way ends or has fewer tasks left, and none else is begun.
LoadsShorten ==
  [][ load.op # "idle" =>
        load' = NoLoad \/ (load'.op = load.op /\ Len(load'.todo) < Len(load.todo)) ]_dataVars

\* The part of LoadsEnd that does not rest on fairness: no task is done twice and none is
\* added, so a load comes back after eight tasks at most, however it was begun.
THEOREM LoadsRunOut == DataSpec => LoadsShorten /\ [](load.op # "idle" => Len(load.todo) <= 8)
<1> DEFINE Shortens == load.op # "idle" =>
                         load' = NoLoad \/ (load'.op = load.op /\ Len(load'.todo) < Len(load.todo))
<1>1. ASSUME DataInv, DataNext
      PROVE  Shortens
  <2> SUFFICES ASSUME load.op # "idle"
               PROVE  load' = NoLoad \/ (load'.op = load.op /\ Len(load'.todo) < Len(load.todo))
    OBVIOUS
  <2>1. load # NoLoad
    BY DEF NoLoad
  <2>2. CASE LoadLayer \/ CopyTree \/ LinkComponent
    <3>1. load.todo # <<>> /\ Done /\ own' = own
      BY <2>2 DEF LoadLayer, CopyTree, LinkComponent, Doing
    <3>2. load'.op = load.op /\ Left' = Left - 1 /\ Left \in Nat
      BY <1>1, <3>1, TaskDone, CallHasTask
    <3> QED
      BY <3>2 DEF Left
  <2>3. CASE TaskThrows \/ Return
    BY <2>3 DEF TaskThrows, Return
  <2> QED
    BY <1>1, <2>1, <2>2, <2>3
    DEF DataNext, DataStep, ParseAndLoad, BuildSampleBom, ClonePersistentBom, BeginLoad, CallerClones
<1>2. DataInv /\ [DataNext]_dataVars => [Shortens]_dataVars
  BY <1>1
<1>3. DataInv => (load.op # "idle" => Len(load.todo) <= 8)
  BY CallHasTask DEF Left
<1>4. DataSpec => [][Shortens]_dataVars /\ [](load.op # "idle" => Len(load.todo) <= 8)
  BY <1>2, <1>3, DataInductive, PTL DEF DataSpec
<1> QED
  BY <1>4 DEF LoadsShorten
================================================================================
