---------------------------- MODULE FactoriesProofs ----------------------------
(***************************************************************************)
(* Proofs about Factories, for any number of factory classes, addresses    *)
(* and objects: every factory that is alive is an entry, still to come, of *)
(* the pool of its layer, so that cleaning gets to each of them once.      *)
(***************************************************************************)
EXTENDS Factories, TLAPS, SequenceTheorems

USE KindsAssumption, NullAssumption, FactoryAssumption

--------------------------------------------------------------------------------
(* The inductive invariant *)

\* What a clean may have left to do.
Agendas == {<<>>, <<"bom">>, <<"service">>, <<"delete">>, <<"service", "delete">>,
            <<"bom", "service", "delete">>, <<"service", "bom", "service", "delete">>, Passes}

\* The iterator moves within a layer; the last pass over a layer leaves it empty.
CleanInOrder ==
  /\ todo \in Agendas
  /\ ~InLayer => at = 1
  /\ todo # <<>> => supervisor
  /\ todo \in {<<"service", "delete">>, <<"delete">>} => registered["bom"] = <<>>
  /\ todo = <<"delete">> \/ ~supervisor => \A l \in Layers : registered[l] = <<>>

\* No address is twice in the pool of a layer.
EntriesDiffer ==
  \A l \in Layers : \A i, j \in DOMAIN registered[l] :
    registered[l][i] = registered[l][j] => i = j

\* An entry still to come is the one factory of a class of its layer.
EntriesLive ==
  \A l \in Layers : \A i \in DOMAIN registered[l] :
    Ahead(l, i) =>
      LET f == factory[registered[l][i]]
      IN  f # Null /\ LayerOf(f.kind) = l /\ instance[f.kind] = registered[l][i]

\* A factory is such an entry.
FactoriesRegistered ==
  \A a \in Memory : factory[a] # Null =>
    \E l \in Layers : \E i \in DOMAIN registered[l] :
      l = LayerOf(factory[a].kind) /\ Ahead(l, i) /\ registered[l][i] = a

\* The pools of the factories are what is alive, each object in one of them.
PoolsPartition ==
  /\ \A a \in Memory : factory[a] # Null => factory[a].pool \subseteq objects
  /\ \A a, b \in Memory : a # b /\ factory[a] # Null /\ factory[b] # Null =>
       factory[a].pool \cap factory[b].pool = {}
  /\ \A o \in objects : \E a \in Memory : factory[a] # Null /\ o \in factory[a].pool

IInv ==
  /\ TypeOK /\ CleanInOrder
  /\ EntriesDiffer /\ EntriesLive /\ FactoriesRegistered /\ PoolsPartition
  /\ NoDanglingInstance /\ NothingDeletedTwice

--------------------------------------------------------------------------------
(* What a clean is at *)

\* Each agenda but the empty one is a pass and an agenda.
LEMMA Agendum ==
  ASSUME NEW t \in Agendas
  PROVE  /\ t \in Seq(Layers \cup {"delete"})
         /\ t # <<>> => Tail(t) \in Agendas /\ Head(t) \in Layers \cup {"delete"}
         /\ t # <<>> /\ Tail(t) = <<"service", "delete">> => Head(t) = "bom"
         /\ t # <<>> /\ Tail(t) = <<"delete">> => t = <<"service", "delete">>
<1>1. CASE t = <<>>
  BY <1>1
<1>2. CASE t = <<"bom">>
  <2>1. Tail(<<"bom">>) = <<>>
    OBVIOUS
  <2> QED
    BY <1>2, <2>1 DEF Agendas, Layers
<1>3. CASE t = <<"service">>
  <2>1. Tail(<<"service">>) = <<>>
    OBVIOUS
  <2> QED
    BY <1>3, <2>1 DEF Agendas, Layers
<1>4. CASE t = <<"delete">>
  <2>1. Tail(<<"delete">>) = <<>>
    OBVIOUS
  <2> QED
    BY <1>4, <2>1 DEF Agendas, Layers
<1>5. CASE t = <<"service", "delete">>
  <2>1. Tail(<<"service", "delete">>) = <<"delete">>
    OBVIOUS
  <2> QED
    BY <1>5, <2>1 DEF Agendas, Layers
<1>6. CASE t = <<"bom", "service", "delete">>
  <2>1. Tail(<<"bom", "service", "delete">>) = <<"service", "delete">>
    OBVIOUS
  <2> QED
    BY <1>6, <2>1 DEF Agendas, Layers
<1>7. CASE t = <<"service", "bom", "service", "delete">>
  <2>1. Tail(<<"service", "bom", "service", "delete">>) = <<"bom", "service", "delete">>
    OBVIOUS
  <2> QED
    BY <1>7, <2>1 DEF Agendas, Layers
<1>8. CASE t = Passes
  <2>1. Tail(Passes) = <<"service", "bom", "service", "delete">>
    BY DEF Passes
  <2> QED
    BY <1>8, <2>1 DEF Agendas, Layers, Passes
<1> QED
  BY <1>1, <1>2, <1>3, <1>4, <1>5, <1>6, <1>7, <1>8 DEF Agendas

\* What is left of a clean under way.
LEMMA Agenda ==
  ASSUME IInv
  PROVE  /\ todo \in Agendas /\ todo \in Seq(Layers \cup {"delete"})
         /\ InLayer => Layer \in Layers /\ Tail(todo) \in Agendas /\ supervisor
         /\ Running => ~InLayer
<1>1. todo \in Agendas /\ (todo # <<>> => supervisor)
  BY DEF IInv, CleanInOrder
<1> QED
  BY <1>1, Agendum DEF InLayer, Layer, Running

\* Between cleans every entry is still to come.
LEMMA AllAhead ==
  ASSUME IInv, ~InLayer, NEW l \in Layers, NEW i
  PROVE  Ahead(l, i)
BY DEF Ahead

\* At first there is nothing.
LEMMA InitInv == Init => IInv
<1> SUFFICES ASSUME Init  PROVE IInv
  OBVIOUS
<1>1. \A l \in Layers : registered[l] = <<>> /\ DOMAIN registered[l] = {}
  BY DEF Init
<1>2. \A a \in Memory : factory[a] = Null
  BY DEF Init
<1>3. TypeOK
  <2>1. registered \in [Layers -> Seq(Memory)]
    BY DEF Init
  <2>2. instance \in [Kinds -> Memory \cup {Null}] /\ factory \in [Memory -> Factory \cup {Null}]
    BY DEF Init
  <2>3. todo \in Seq(Layers \cup {"delete"})
    BY DEF Init
  <2>4. \A l \in Layers : \A i \in DOMAIN registered[l] :
          Ahead(l, i) /\ factory[registered[l][i]] # Null =>
            LayerOf(factory[registered[l][i]].kind) = l
    BY <1>1
  <2>5. at \in Nat \ {0} /\ objects \subseteq Objects
    BY DEF Init
  <2>6. supervisor \in BOOLEAN /\ corrupt \in BOOLEAN
    BY DEF Init
  <2> QED
    BY <2>1, <2>2, <2>3, <2>4, <2>5, <2>6 DEF TypeOK
<1>4. CleanInOrder
  BY <1>1 DEF Init, CleanInOrder, Agendas, InLayer
<1>5. EntriesDiffer /\ EntriesLive
  BY <1>1 DEF EntriesDiffer, EntriesLive
<1>6. FactoriesRegistered /\ PoolsPartition
  BY <1>2 DEF Init, FactoriesRegistered, PoolsPartition
<1>7. NoDanglingInstance /\ NothingDeletedTwice
  BY DEF Init, NoDanglingInstance, NothingDeletedTwice
<1> QED
  BY <1>3, <1>4, <1>5, <1>6, <1>7 DEF IInv

--------------------------------------------------------------------------------
(* Making factories and their objects *)

\* A new factory is the last entry of its layer's pool, at an address no entry has.
LEMMA InstanceInv ==
  ASSUME IInv, NEW k \in Kinds, Instance(k)
  PROVE  IInv'
<1> DEFINE m == LayerOf(k)
<1>1. PICK a \in Memory :
        /\ factory[a] = Null
        /\ factory' = [factory EXCEPT ![a] = [kind |-> k, pool |-> {}]]
        /\ instance' = [instance EXCEPT ![k] = a]
        /\ registered' = [registered EXCEPT ![m] = Append(@, a)]
  BY DEF Instance
<1>2. /\ Running /\ instance[k] = Null /\ supervisor'
      /\ UNCHANGED <<objects, todo, at, corrupt>>
  BY DEF Instance
<1>3. ~InLayer /\ ~InLayer' /\ m \in Layers
  BY <1>2 DEF InLayer, Running, LayerOf, Layers
<1>4. \A l \in Layers, i \in Nat : Ahead(l, i) /\ Ahead(l, i)'
  BY <1>3 DEF Ahead
<1>5. [kind |-> k, pool |-> {}] \in Factory /\ [kind |-> k, pool |-> {}] # Null
  BY DEF Factory
<1>6. /\ factory' \in [Memory -> Factory \cup {Null}]
      /\ factory'[a] = [kind |-> k, pool |-> {}]
      /\ \A b \in Memory \ {a} : factory'[b] = factory[b]
      /\ instance' \in [Kinds -> Memory \cup {Null}] /\ instance'[k] = a
      /\ \A q \in Kinds \ {k} : instance'[q] = instance[q]
  BY <1>1, <1>5 DEF IInv, TypeOK
<1>7. \A l \in Layers : registered[l] \in Seq(Memory) /\ Len(registered[l]) \in Nat
                        /\ DOMAIN registered[l] = 1..Len(registered[l])
  BY DEF IInv, TypeOK
<1>8. /\ registered' \in [Layers -> Seq(Memory)]
      /\ \A l \in Layers \ {m} : registered'[l] = registered[l]
      /\ registered'[m] = Append(registered[m], a)
  BY <1>1, <1>3, <1>7, AppendProperties DEF IInv, TypeOK
<1>9. /\ DOMAIN registered'[m] = 1..Len(registered[m]) + 1
      /\ \A i \in 1..Len(registered[m]) : registered'[m][i] = registered[m][i]
      /\ registered'[m][Len(registered[m]) + 1] = a
  BY <1>3, <1>7, <1>8, AppendProperties
\* The old entries are live, so that none is the new address.
<1>10. \A l \in Layers : \A i \in DOMAIN registered[l] :
         /\ registered[l][i] \in Memory \ {a}
         /\ factory[registered[l][i]] # Null
         /\ factory[registered[l][i]].kind \in Kinds \ {k}
         /\ LayerOf(factory[registered[l][i]].kind) = l
         /\ instance[factory[registered[l][i]].kind] = registered[l][i]
  <2> SUFFICES ASSUME NEW l \in Layers, NEW i \in DOMAIN registered[l]
               PROVE  /\ registered[l][i] \in Memory \ {a}
                      /\ factory[registered[l][i]] # Null
                      /\ factory[registered[l][i]].kind \in Kinds \ {k}
                      /\ LayerOf(factory[registered[l][i]].kind) = l
                      /\ instance[factory[registered[l][i]].kind] = registered[l][i]
    OBVIOUS
  <2>1. registered[l][i] \in Memory /\ Ahead(l, i)
    BY <1>4, <1>7
  <2>2. /\ factory[registered[l][i]] # Null
        /\ LayerOf(factory[registered[l][i]].kind) = l
        /\ instance[factory[registered[l][i]].kind] = registered[l][i]
    BY <2>1 DEF IInv, EntriesLive
  <2>3. factory[registered[l][i]] \in Factory
    BY <2>1, <2>2 DEF IInv, TypeOK
  <2> QED
    BY <1>1, <1>2, <2>1, <2>2, <2>3 DEF Factory
<1> HIDE DEF m
\* An entry of the new pools is an old one, or the new factory.
<1>11. ASSUME NEW l \in Layers, NEW i \in DOMAIN registered'[l]
       PROVE  \/ i \in DOMAIN registered[l] /\ registered'[l][i] = registered[l][i]
              \/ l = m /\ i = Len(registered[m]) + 1 /\ registered'[l][i] = a
  BY <1>3, <1>7, <1>8, <1>9
<1>12. TypeOK'
  <2>1. ASSUME NEW l \in Layers, NEW i \in DOMAIN registered'[l]
        PROVE  LayerOf(factory'[registered'[l][i]].kind) = l
    BY <1>6, <1>10, <1>11 DEF m
  <2> QED
    BY <1>2, <1>6, <1>8, <2>1 DEF IInv, TypeOK
<1>13. CleanInOrder'
  BY <1>2, <1>3 DEF IInv, CleanInOrder, Running
<1>14. EntriesDiffer'
  <2> SUFFICES ASSUME NEW l \in Layers, NEW i \in DOMAIN registered'[l],
                      NEW j \in DOMAIN registered'[l], registered'[l][i] = registered'[l][j]
               PROVE  i = j
    BY DEF EntriesDiffer
  <2> QED
    BY <1>10, <1>11 DEF IInv, EntriesDiffer
<1>15. EntriesLive'
  <2> SUFFICES ASSUME NEW l \in Layers, NEW i \in DOMAIN registered'[l]
               PROVE  LET f == factory'[registered'[l][i]]
                      IN  f # Null /\ LayerOf(f.kind) = l /\ instance'[f.kind] = registered'[l][i]
    BY DEF EntriesLive
  <2> QED
    BY <1>5, <1>6, <1>10, <1>11 DEF m
<1>16. FactoriesRegistered'
  <2> SUFFICES ASSUME NEW b \in Memory, factory'[b] # Null
               PROVE  \E l \in Layers : \E i \in DOMAIN registered'[l] :
                        l = LayerOf(factory'[b].kind) /\ Ahead(l, i)' /\ registered'[l][i] = b
    BY DEF FactoriesRegistered
  <2>1. CASE b = a
    <3>1. PICK n \in Nat : n \in DOMAIN registered'[m] /\ registered'[m][n] = b
      BY <1>3, <1>7, <1>9, <2>1
    <3>2. Ahead(m, n)'
      BY <1>3, <1>4, <3>1
    <3>3. m = LayerOf(factory'[b].kind)
      BY <1>6, <2>1 DEF m
    <3> QED
      BY <1>3, <3>1, <3>2, <3>3
  <2>2. CASE b # a
    <3>1. factory'[b] = factory[b]
      BY <1>6, <2>2
    <3>2. PICK l \in Layers : \E i \in DOMAIN registered[l] :
            l = LayerOf(factory[b].kind) /\ registered[l][i] = b
      BY <3>1 DEF IInv, FactoriesRegistered
    <3>3. PICK i \in DOMAIN registered[l] :
            l = LayerOf(factory[b].kind) /\ registered[l][i] = b
      BY <3>2
    <3>4. i \in Nat /\ i \in DOMAIN registered'[l] /\ registered'[l][i] = b
      <4>1. CASE l = m
        BY <1>3, <1>7, <1>9, <3>3, <4>1
      <4>2. CASE l # m
        BY <1>7, <1>8, <3>3, <4>2
      <4> QED
        BY <4>1, <4>2
    <3> QED
      BY <1>4, <3>1, <3>3, <3>4
  <2> QED
    BY <2>1, <2>2
<1>17. PoolsPartition'
  BY <1>1, <1>2, <1>6 DEF IInv, PoolsPartition
<1>18. NoDanglingInstance'
  <2> SUFFICES ASSUME NEW q \in Kinds, instance'[q] # Null
               PROVE  factory'[instance'[q]] # Null /\ factory'[instance'[q]].kind = q
    BY DEF NoDanglingInstance
  <2>1. CASE q = k
    BY <1>5, <1>6, <2>1
  <2>2. CASE q # k
    <3>1. instance'[q] = instance[q] /\ instance[q] \in Memory
      BY <1>6, <2>2 DEF IInv, TypeOK
    <3> QED
      BY <1>1, <1>6, <3>1 DEF IInv, NoDanglingInstance
  <2> QED
    BY <2>1, <2>2
<1>19. NothingDeletedTwice'
  BY <1>2 DEF IInv, NothingDeletedTwice
<1> QED
  BY <1>12, <1>13, <1>14, <1>15, <1>16, <1>17, <1>18, <1>19 DEF IInv

\* A step that changes only what the pools of some factories hold.
LEMMA PoolMove ==
  ASSUME IInv, UNCHANGED <<supervisor, registered, instance, todo, at, corrupt>>,
         factory' \in [Memory -> Factory \cup {Null}], objects' \subseteq Objects,
         \A a \in Memory : /\ factory'[a] = Null <=> factory[a] = Null
                           /\ factory[a] # Null => factory'[a].kind = factory[a].kind,
         PoolsPartition'
  PROVE  IInv'
<1>1. /\ InLayer' <=> InLayer
      /\ \A l, i : Ahead(l, i)' <=> Ahead(l, i)
  BY DEF InLayer, Layer, Ahead
<1>2. \A l \in Layers : \A i \in DOMAIN registered[l] : registered[l][i] \in Memory
  BY DEF IInv, TypeOK
<1>3. TypeOK'
  BY <1>1, <1>2 DEF IInv, TypeOK
<1>4. CleanInOrder' /\ EntriesDiffer'
  BY <1>1 DEF IInv, CleanInOrder, EntriesDiffer
<1>5. EntriesLive'
  BY <1>1, <1>2 DEF IInv, EntriesLive
<1>6. FactoriesRegistered'
  BY <1>1 DEF IInv, FactoriesRegistered
<1>7. NoDanglingInstance' /\ NothingDeletedTwice'
  BY DEF IInv, TypeOK, NoDanglingInstance, NothingDeletedTwice
<1> QED
  BY <1>3, <1>4, <1>5, <1>6, <1>7 DEF IInv

\* A new object is in one pool.
LEMMA CreateInv ==
  ASSUME IInv, NEW k \in Kinds, Create(k)
  PROVE  IInv'
<1> DEFINE c == instance[k]
<1>1. PICK o \in Objects \ objects :
        /\ objects' = objects \cup {o}
        /\ factory' = [factory EXCEPT ![c].pool = @ \cup {o}]
  BY DEF Create
<1>2. /\ c \in Memory /\ factory[c] # Null /\ factory[c] \in Factory
      /\ UNCHANGED <<supervisor, registered, instance, todo, at, corrupt>>
  BY DEF Create, IInv, TypeOK, NoDanglingInstance
<1> HIDE DEF c
<1>3. /\ factory'[c].kind = factory[c].kind /\ factory'[c].pool = factory[c].pool \cup {o}
      /\ factory'[c] \in Factory
      /\ \A a \in Memory \ {c} : factory'[a] = factory[a]
      /\ factory' \in [Memory -> Factory \cup {Null}]
  BY <1>1, <1>2 DEF IInv, TypeOK, Factory
<1>4. factory'[c] # Null
  BY <1>3
<1>5. PoolsPartition'
  <2>1. \A a \in Memory : factory[a] # Null => factory[a].pool \subseteq objects
    BY DEF IInv, PoolsPartition
  <2>2. \A a \in Memory : factory'[a] # Null => factory'[a].pool \subseteq objects'
    BY <1>1, <1>2, <1>3, <2>1
  <2>3. \A a, b \in Memory : a # b /\ factory'[a] # Null /\ factory'[b] # Null =>
          factory'[a].pool \cap factory'[b].pool = {}
    BY <1>1, <1>2, <1>3, <2>1 DEF IInv, PoolsPartition
  <2>4. \A p \in objects' : \E a \in Memory : factory'[a] # Null /\ p \in factory'[a].pool
    BY <1>1, <1>2, <1>3, <1>4 DEF IInv, PoolsPartition
  <2> QED
    BY <2>2, <2>3, <2>4 DEF PoolsPartition
<1> QED
  BY <1>1, <1>2, <1>3, <1>4, <1>5, PoolMove DEF IInv, TypeOK

\* A factory deletes its own objects only.
LEMMA CleanPoolInv ==
  ASSUME IInv, NEW k \in Kinds, CleanPool(k)
  PROVE  IInv'
<1> DEFINE c == instance[k]
<1>1. /\ c \in Memory /\ factory[c] # Null /\ factory[c] \in Factory
      /\ objects' = objects \ factory[c].pool
      /\ factory' = [factory EXCEPT ![c].pool = {}]
      /\ UNCHANGED <<supervisor, registered, instance, todo, at>>
  BY DEF CleanPool, IInv, TypeOK, NoDanglingInstance
<1>2. factory[c].pool \subseteq objects /\ UNCHANGED corrupt
  BY <1>1 DEF CleanPool, IInv, PoolsPartition, TypeOK
<1> HIDE DEF c
<1>3. /\ factory'[c].kind = factory[c].kind /\ factory'[c].pool = {}
      /\ factory'[c] \in Factory
      /\ \A a \in Memory \ {c} : factory'[a] = factory[a]
      /\ factory' \in [Memory -> Factory \cup {Null}]
  BY <1>1 DEF IInv, TypeOK, Factory
<1>4. factory'[c] # Null
  BY <1>3
<1>5. PoolsPartition'
  <2>1. \A a \in Memory \ {c} : factory[a] # Null => factory[a].pool \cap factory[c].pool = {}
    BY <1>1 DEF IInv, PoolsPartition
  <2>2. \A a \in Memory : factory'[a] # Null => factory'[a].pool \subseteq objects'
    BY <1>1, <1>3, <2>1 DEF IInv, PoolsPartition
  <2>3. \A a, b \in Memory : a # b /\ factory'[a] # Null /\ factory'[b] # Null =>
          factory'[a].pool \cap factory'[b].pool = {}
    BY <1>1, <1>3 DEF IInv, PoolsPartition
  <2>4. \A p \in objects' : \E a \in Memory : factory'[a] # Null /\ p \in factory'[a].pool
    BY <1>1, <1>3 DEF IInv, PoolsPartition
  <2> QED
    BY <2>2, <2>3, <2>4 DEF PoolsPartition
<1> QED
  BY <1>1, <1>2, <1>3, <1>4, <1>5, PoolMove DEF IInv, TypeOK

--------------------------------------------------------------------------------
(* Cleaning *)

\* A clean begins at the first entry of its first layer.
LEMMA BeginInv ==
  ASSUME IInv, Running, todo' \in {<<"bom">>, <<"service">>, Passes}, supervisor' = TRUE,
         UNCHANGED <<registered, instance, factory, objects, at, corrupt>>
  PROVE  IInv'
<1>1. at = 1 /\ ~InLayer
  BY DEF IInv, CleanInOrder, Running, InLayer
<1>2. todo' \in Agendas /\ todo' \in Seq(Layers \cup {"delete"})
  BY Agendum DEF Agendas
<1>3. \A l \in Layers : \A i \in DOMAIN registered[l] :
        /\ i \in Nat /\ i >= 1 /\ Ahead(l, i) /\ Ahead(l, i)' /\ registered[l][i] \in Memory
  BY <1>1 DEF Ahead, IInv, TypeOK
<1>4. /\ InLayer'
      /\ todo' \notin {<<"service", "delete">>, <<"delete">>} /\ todo' # <<"delete">>
  BY DEF Passes, InLayer
<1>5. TypeOK'
  BY <1>2, <1>3 DEF IInv, TypeOK
<1>6. CleanInOrder'
  BY <1>2, <1>4 DEF CleanInOrder
<1>7. EntriesDiffer' /\ EntriesLive' /\ FactoriesRegistered'
  BY <1>3 DEF IInv, EntriesDiffer, EntriesLive, FactoriesRegistered
<1>8. PoolsPartition' /\ NoDanglingInstance' /\ NothingDeletedTwice'
  BY DEF IInv, PoolsPartition, NoDanglingInstance, NothingDeletedTwice
<1> QED
  BY <1>5, <1>6, <1>7, <1>8 DEF IInv

\* The loop deletes the entry it is at, and goes on to the next.
LEMMA DeleteFactoryInv == ASSUME IInv, DeleteFactory  PROVE IInv'
<1> DEFINE L == Layer
           a == registered[L][at]
           f == factory[a]
<1>1. /\ InLayer /\ at \in DOMAIN registered[L] /\ L \in Layers /\ at' = at + 1 /\ at \in Nat \ {0}
      /\ registered[L] \in Seq(Memory)
      /\ UNCHANGED <<supervisor, registered, todo>>
  BY Agenda DEF DeleteFactory, IInv, TypeOK
<1>2. a \in Memory /\ Ahead(L, at)
  BY <1>1 DEF Ahead
<1>3. f # Null /\ LayerOf(f.kind) = L /\ instance[f.kind] = a
  BY <1>1, <1>2 DEF IInv, EntriesLive
<1>4. f \in Factory /\ f.kind \in Kinds /\ f.pool \subseteq objects
  BY <1>2, <1>3 DEF IInv, TypeOK, PoolsPartition, Factory
<1>5. /\ factory' = [factory EXCEPT ![a] = Null]
      /\ instance' = [instance EXCEPT ![f.kind] = Null]
      /\ objects' = objects \ f.pool /\ corrupt' = corrupt
  BY <1>3, <1>4 DEF DeleteFactory, IInv, TypeOK
<1>6. /\ factory' \in [Memory -> Factory \cup {Null}] /\ factory'[a] = Null
      /\ \A b \in Memory \ {a} : factory'[b] = factory[b]
      /\ instance' \in [Kinds -> Memory \cup {Null}] /\ instance'[f.kind] = Null
      /\ \A k \in Kinds \ {f.kind} : instance'[k] = instance[k]
  BY <1>2, <1>4, <1>5 DEF IInv, TypeOK
<1> HIDE DEF f
<1>7. InLayer' /\ L' = L
  BY <1>1 DEF InLayer, Layer
\* The entries still to come are those but the one deleted, and are other factories.
<1>8. ASSUME NEW l \in Layers, NEW i \in DOMAIN registered[l], Ahead(l, i)'
      PROVE  /\ Ahead(l, i) /\ registered[l][i] \in Memory \ {a}
             /\ factory[registered[l][i]] # Null
             /\ LayerOf(factory[registered[l][i]].kind) = l
             /\ instance[factory[registered[l][i]].kind] = registered[l][i]
             /\ factory[registered[l][i]].kind \in Kinds \ {f.kind}
  <2>1. i \in Nat /\ Ahead(l, i) /\ registered[l][i] \in Memory /\ (l = L => i # at)
    <3>1. i \in Nat /\ registered[l][i] \in Memory
      BY DEF IInv, TypeOK
    <3>2. l = L => i >= at + 1
      BY <1>1, <1>7, <1>8 DEF Ahead
    <3> QED
      BY <1>1, <3>1, <3>2 DEF Ahead
  <2>2. /\ factory[registered[l][i]] # Null
        /\ LayerOf(factory[registered[l][i]].kind) = l
        /\ instance[factory[registered[l][i]].kind] = registered[l][i]
    BY <2>1 DEF IInv, EntriesLive
  <2>3. registered[l][i] # a
    <3>1. CASE l = L
      BY <1>1, <2>1, <3>1 DEF IInv, EntriesDiffer
    <3>2. CASE l # L
      BY <1>3, <2>2, <3>2 DEF f
    <3> QED
      BY <3>1, <3>2
  <2>4. factory[registered[l][i]] \in Factory
    BY <2>1, <2>2 DEF IInv, TypeOK
  <2> QED
    BY <1>3, <2>1, <2>2, <2>3, <2>4 DEF Factory
<1> HIDE DEF a
<1>9. TypeOK'
  BY <1>1, <1>5, <1>6, <1>8 DEF IInv, TypeOK
<1>10. CleanInOrder'
  BY <1>1, <1>7 DEF IInv, CleanInOrder
<1>11. EntriesDiffer'
  BY <1>1 DEF IInv, EntriesDiffer
<1>12. EntriesLive'
  BY <1>1, <1>6, <1>8 DEF EntriesLive
<1>13. FactoriesRegistered'
  <2> SUFFICES ASSUME NEW b \in Memory, factory'[b] # Null
               PROVE  \E l \in Layers : \E i \in DOMAIN registered'[l] :
                        l = LayerOf(factory'[b].kind) /\ Ahead(l, i)' /\ registered'[l][i] = b
    BY DEF FactoriesRegistered
  <2>1. b # a /\ factory'[b] = factory[b]
    BY <1>6
  <2>2. PICK l \in Layers : \E i \in DOMAIN registered[l] :
          l = LayerOf(factory[b].kind) /\ Ahead(l, i) /\ registered[l][i] = b
    BY <2>1 DEF IInv, FactoriesRegistered
  <2>3. PICK i \in DOMAIN registered[l] :
          l = LayerOf(factory[b].kind) /\ Ahead(l, i) /\ registered[l][i] = b
    BY <2>2
  <2>4. i \in Nat /\ (l = L => i # at)
    BY <2>1, <2>3 DEF a, IInv, TypeOK
  <2>5. Ahead(l, i)'
    BY <1>1, <1>7, <2>3, <2>4 DEF Ahead
  <2> QED
    BY <1>1, <2>1, <2>3, <2>5
<1>14. PoolsPartition'
  <2>1. \A b \in Memory \ {a} : factory[b] # Null => factory[b].pool \cap f.pool = {}
    BY <1>2, <1>3 DEF IInv, PoolsPartition, f
  <2>2. \A b \in Memory : factory'[b] # Null => factory'[b].pool \subseteq objects'
    BY <1>5, <1>6, <2>1 DEF IInv, PoolsPartition
  <2>3. \A b, c \in Memory : b # c /\ factory'[b] # Null /\ factory'[c] # Null =>
          factory'[b].pool \cap factory'[c].pool = {}
    BY <1>6 DEF IInv, PoolsPartition
  <2>4. \A p \in objects' : \E b \in Memory : factory'[b] # Null /\ p \in factory'[b].pool
    BY <1>5, <1>6 DEF IInv, PoolsPartition, f
  <2> QED
    BY <2>2, <2>3, <2>4 DEF PoolsPartition
<1>15. NoDanglingInstance'
  <2> SUFFICES ASSUME NEW k \in Kinds, instance'[k] # Null
               PROVE  factory'[instance'[k]] # Null /\ factory'[instance'[k]].kind = k
    BY DEF NoDanglingInstance
  <2>1. k # f.kind /\ instance'[k] = instance[k] /\ instance[k] \in Memory
    BY <1>6 DEF IInv, TypeOK
  <2>2. factory[instance[k]] # Null /\ factory[instance[k]].kind = k
    BY <2>1 DEF IInv, NoDanglingInstance
  <2> QED
    BY <1>6, <2>1, <2>2 DEF f
<1>16. NothingDeletedTwice'
  BY <1>5 DEF IInv, NothingDeletedTwice
<1> QED
  BY <1>9, <1>10, <1>11, <1>12, <1>13, <1>14, <1>15, <1>16 DEF IInv

\* At the end of the loop no factory of the layer is left.
LEMMA LayerDoneInv == ASSUME IInv, LayerDone  PROVE IInv'
<1> DEFINE L == Layer
<1>1. /\ InLayer /\ at > Len(registered[L]) /\ L \in Layers
      /\ registered' = [registered EXCEPT ![L] = <<>>]
      /\ todo' = Tail(todo) /\ at' = 1
      /\ UNCHANGED <<supervisor, instance, factory, objects, corrupt>>
  BY Agenda DEF LayerDone
<1>2. /\ registered' \in [Layers -> Seq(Memory)]
      /\ registered'[L] = <<>> /\ DOMAIN registered'[L] = {}
      /\ \A l \in Layers \ {L} : registered'[l] = registered[l]
  BY <1>1 DEF IInv, TypeOK
<1>3. todo' \in Agendas /\ todo' \in Seq(Layers \cup {"delete"}) /\ supervisor
  BY <1>1, Agenda, Agendum
<1> HIDE DEF L
\* What is registered is of another layer and was to come already.
<1>4. \A l \in Layers : \A i \in DOMAIN registered'[l] :
        /\ l # L /\ i \in DOMAIN registered[l] /\ registered'[l][i] = registered[l][i]
        /\ registered[l][i] \in Memory /\ Ahead(l, i) /\ Ahead(l, i)'
  <2> SUFFICES ASSUME NEW l \in Layers, NEW i \in DOMAIN registered'[l]
               PROVE  /\ l # L /\ i \in DOMAIN registered[l] /\ registered'[l][i] = registered[l][i]
                      /\ registered[l][i] \in Memory /\ Ahead(l, i) /\ Ahead(l, i)'
    OBVIOUS
  <2>1. l # L /\ registered'[l] = registered[l]
    BY <1>2
  <2>2. i \in Nat /\ i >= 1 /\ registered[l][i] \in Memory
    BY <2>1 DEF IInv, TypeOK
  <2> QED
    BY <1>1, <2>1, <2>2 DEF Ahead, L
<1>5. TypeOK'
  BY <1>1, <1>2, <1>3, <1>4 DEF IInv, TypeOK
<1>6. CleanInOrder'
  <2>1. todo \in Agendas
    BY DEF IInv, CleanInOrder
  <2>2. /\ todo' = <<"service", "delete">> => L = "bom"
        /\ todo' = <<"delete">> => todo = <<"service", "delete">> /\ L = "service"
    BY <1>1, <2>1, Agendum DEF Layer, InLayer, L
  <2>3. todo' \in {<<"service", "delete">>, <<"delete">>} => registered'["bom"] = <<>>
    BY <1>2, <2>2 DEF IInv, CleanInOrder, Layers
  <2>4. todo' = <<"delete">> => \A l \in Layers : registered'[l] = <<>>
    BY <1>2, <2>2, <2>3 DEF Layers
  <2> QED
    BY <1>1, <1>3, <2>3, <2>4 DEF CleanInOrder
<1>7. EntriesDiffer'
  BY <1>4 DEF IInv, EntriesDiffer
<1>8. EntriesLive'
  BY <1>1, <1>4 DEF IInv, EntriesLive
<1>9. FactoriesRegistered'
  <2> SUFFICES ASSUME NEW b \in Memory, factory'[b] # Null
               PROVE  \E l \in Layers : \E i \in DOMAIN registered'[l] :
                        l = LayerOf(factory'[b].kind) /\ Ahead(l, i)' /\ registered'[l][i] = b
    BY DEF FactoriesRegistered
  <2>1. PICK l \in Layers : \E i \in DOMAIN registered[l] :
          l = LayerOf(factory[b].kind) /\ Ahead(l, i) /\ registered[l][i] = b
    BY <1>1 DEF IInv, FactoriesRegistered
  <2>2. PICK i \in DOMAIN registered[l] :
          l = LayerOf(factory[b].kind) /\ Ahead(l, i) /\ registered[l][i] = b
    BY <2>1
  <2>3. i \in 1..Len(registered[l]) /\ Len(registered[l]) \in Nat /\ at \in Nat
    BY DEF IInv, TypeOK
  <2>4. l # L
    BY <1>1, <2>2, <2>3 DEF Ahead, L
  <2>5. i \in DOMAIN registered'[l] /\ registered'[l][i] = b
    BY <1>2, <2>2, <2>4
  <2> QED
    BY <1>1, <1>4, <2>2, <2>5
<1>10. PoolsPartition' /\ NoDanglingInstance' /\ NothingDeletedTwice'
  BY <1>1 DEF IInv, PoolsPartition, NoDanglingInstance, NothingDeletedTwice
<1> QED
  BY <1>5, <1>6, <1>7, <1>8, <1>9, <1>10 DEF IInv

\* The supervisor goes when both pools are empty.
LEMMA DeleteSupervisorInv == ASSUME IInv, DeleteSupervisor  PROVE IInv'
<1>1. /\ todo = <<"delete">> /\ supervisor' = FALSE /\ todo' = <<>>
      /\ UNCHANGED <<registered, instance, factory, objects, at, corrupt>>
  BY DEF DeleteSupervisor
<1>2. ~InLayer /\ ~InLayer' /\ at = 1 /\ \A l \in Layers : registered[l] = <<>>
  BY <1>1 DEF IInv, CleanInOrder, InLayer
<1>3. \A l, i : Ahead(l, i) /\ Ahead(l, i)'
  BY <1>2 DEF Ahead
<1>4. TypeOK'
  BY <1>1, <1>3, Agendum DEF IInv, TypeOK, Agendas
<1>5. CleanInOrder'
  BY <1>1, <1>2 DEF CleanInOrder, Agendas
<1>6. EntriesDiffer' /\ EntriesLive' /\ FactoriesRegistered'
  BY <1>1, <1>3 DEF IInv, EntriesDiffer, EntriesLive, FactoriesRegistered
<1>7. PoolsPartition' /\ NoDanglingInstance' /\ NothingDeletedTwice'
  BY <1>1 DEF IInv, PoolsPartition, NoDanglingInstance, NothingDeletedTwice
<1> QED
  BY <1>4, <1>5, <1>6, <1>7 DEF IInv

\* Every step keeps the invariant.
LEMMA NextInv == IInv /\ [Next]_vars => IInv'
<1> SUFFICES ASSUME IInv, [Next]_vars  PROVE IInv'
  OBVIOUS
<1>1. ASSUME NEW k \in Kinds, Instance(k)  PROVE IInv'
  BY <1>1, InstanceInv
<1>2. ASSUME NEW k \in Kinds, Create(k)  PROVE IInv'
  BY <1>2, CreateInv
<1>3. ASSUME NEW k \in Kinds, CleanPool(k)  PROVE IInv'
  BY <1>3, CleanPoolInv
<1>4. CASE CleanFactory
  BY <1>4, BeginInv DEF CleanFactory
<1>5. ASSUME NEW l \in Layers, CleanLayer(l)  PROVE IInv'
  BY <1>5, BeginInv DEF CleanLayer, Layers
<1>6. CASE DeleteFactory
  BY <1>6, DeleteFactoryInv
<1>7. CASE LayerDone
  BY <1>7, LayerDoneInv
<1>8. CASE DeleteSupervisor
  BY <1>8, DeleteSupervisorInv
<1>9. CASE UNCHANGED vars
  <2>1. \A l, i : Ahead(l, i)' <=> Ahead(l, i)
    BY <1>9 DEF vars, Ahead, InLayer, Layer
  <2> QED
    BY <1>9, <2>1 DEF vars, IInv, TypeOK, CleanInOrder, InLayer, EntriesDiffer, EntriesLive,
                      FactoriesRegistered, PoolsPartition, NoDanglingInstance, NothingDeletedTwice
<1> QED
  BY <1>1, <1>2, <1>3, <1>4, <1>5, <1>6, <1>7, <1>8, <1>9 DEF Next, CleanStep

--------------------------------------------------------------------------------
(* The theorems *)

\* The invariant holds however factories are made, cleaned and made again.
THEOREM Inductive == Spec => []IInv
<1> QED
  BY InitInv, NextInv, PTL DEF Spec

\* The state keeps its types, and the pool of a layer holds factories of that layer.
THEOREM TypesHold == Spec => []TypeOK
<1>1. IInv => TypeOK
  BY DEF IInv
<1> QED
  BY <1>1, Inductive, PTL

\* No clean deletes a factory or one of its objects a second time.
THEOREM DeletedOnce == Spec => []NothingDeletedTwice
<1>1. IInv => NothingDeletedTwice
  BY DEF IInv
<1> QED
  BY <1>1, Inductive, PTL

\* instance() never returns a factory that a clean has deleted.
THEOREM InstancesAreLive == Spec => []NoDanglingInstance
<1>1. IInv => NoDanglingInstance
  BY DEF IInv
<1> QED
  BY <1>1, Inductive, PTL

\* When cleanFactory has deleted the supervisor, nothing a factory made is left.
THEOREM CleanLeavesNothing == Spec => []CleanReclaimsAll
<1>1. IInv => CleanReclaimsAll
  <2> SUFFICES ASSUME IInv, ~supervisor  PROVE objects = {} /\ \A a \in Memory : factory[a] = Null
    BY DEF CleanReclaimsAll
  <2>1. \A l \in Layers : DOMAIN registered[l] = {}
    BY DEF IInv, CleanInOrder
  <2>2. \A a \in Memory : factory[a] = Null
    BY <2>1 DEF IInv, FactoriesRegistered
  <2> QED
    BY <2>2 DEF IInv, PoolsPartition
<1> QED
  BY <1>1, Inductive, PTL

--------------------------------------------------------------------------------
(* Cleans come to an end *)

\* A clean under way goes on to the next pass, or to the next factory of a pool that has
\* not grown.
CleansShorten ==
  [][ todo # <<>> =>
        \/ Len(todo') < Len(todo)
        \/ /\ todo' = todo /\ registered' = registered
           /\ at <= Len(registered[Layer]) /\ at' = at + 1 ]_vars

\* The part of CleansEnd that does not rest on fairness: a clean has five passes at most,
\* each as long as the pool it found, although factories are deleted under the iterator.
THEOREM CleansRunOut == Spec => CleansShorten /\ [](Len(todo) <= 5)
<1> DEFINE Shortens == todo # <<>> =>
                         \/ Len(todo') < Len(todo)
                         \/ /\ todo' = todo /\ registered' = registered
                            /\ at <= Len(registered[Layer]) /\ at' = at + 1
<1>1. ASSUME IInv, Next
      PROVE  Shortens
  <2> SUFFICES ASSUME todo # <<>>
               PROVE  \/ Len(todo') < Len(todo)
                      \/ /\ todo' = todo /\ registered' = registered
                         /\ at <= Len(registered[Layer]) /\ at' = at + 1
    OBVIOUS
  <2>1. CASE DeleteFactory
    BY <2>1 DEF DeleteFactory
  <2>2. todo \in Seq(Layers \cup {"delete"})
    BY <1>1, Agenda
  <2>3. Len(Tail(todo)) < Len(todo)
    BY <2>2, LenProperties
  <2>4. CASE LayerDone
    BY <2>3, <2>4 DEF LayerDone
  <2>5. CASE DeleteSupervisor
    BY <2>5 DEF DeleteSupervisor
  <2> QED
    BY <1>1, <2>1, <2>4, <2>5
    DEF Next, CleanStep, Running, Instance, Create, CleanPool, CleanFactory, CleanLayer
<1>2. IInv /\ [Next]_vars => [Shortens]_vars
  BY <1>1
<1>3. ASSUME IInv PROVE Len(todo) <= 5
  <2>1. /\ Len(<<>>) = 0 /\ Len(<<"bom">>) = 1 /\ Len(<<"service">>) = 1 /\ Len(<<"delete">>) = 1
        /\ Len(<<"service", "delete">>) = 2 /\ Len(<<"bom", "service", "delete">>) = 3
        /\ Len(<<"service", "bom", "service", "delete">>) = 4 /\ Len(Passes) = 5
    BY DEF Passes
  <2>2. todo \in Agendas
    BY <1>3 DEF IInv, CleanInOrder
  <2>3. \/ Len(todo) = 0 \/ Len(todo) = 1 \/ Len(todo) = 2
        \/ Len(todo) = 3 \/ Len(todo) = 4 \/ Len(todo) = 5
    BY <2>1, <2>2, Zenon DEF Agendas
  <2>4. \A n : n = 0 \/ n = 1 \/ n = 2 \/ n = 3 \/ n = 4 \/ n = 5 => n <= 5
    OBVIOUS
  <2> QED
    BY <2>3, <2>4, Zenon
<1>4. Spec => [][Shortens]_vars /\ [](Len(todo) <= 5)
  BY <1>2, <1>3, Inductive, PTL DEF Spec
<1> QED
  BY <1>4 DEF CleansShorten
================================================================================
