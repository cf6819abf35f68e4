------------------------------- MODULE Factories -------------------------------
(***************************************************************************)
(* The factories and their supervisor.  A factory class has one object at  *)
(* a time, made when first asked for, which registers with FacSupervisor   *)
(* and pools what it creates.  Cleaning deletes the factories layer by     *)
(* layer, each of which deletes its pool, and cleanFactory does it twice:  *)
(* once itself and once in the destructor of the supervisor it deletes.    *)
(*                                                                         *)
(* The program has one factory class, FacSimcrsServiceContext, in the      *)
(* service layer; FacBomAbstract is there for classes of the Bom layer.    *)
(* Memory is a set of addresses, reused once free.                         *)
(***************************************************************************)
EXTENDS Naturals, Sequences

CONSTANTS
  BomKinds, ServiceKinds,  \* factory classes of each layer
  Memory,                  \* addresses of factory objects
  Objects,                 \* addresses of what factories create
  Null

Kinds == BomKinds \cup ServiceKinds
Layers == {"bom", "service"}

ASSUME KindsAssumption == BomKinds \cap ServiceKinds = {}
ASSUME NullAssumption == Null \notin Memory

VARIABLES
  supervisor,  \* the FacSupervisor exists
  registered,  \* its pools of factories, by layer
  instance,    \* _instance of each factory class
  factory,     \* the factory at each address, Null where there is none
  objects,     \* objects that are alive
  todo, at,    \* what the clean under way has still to do, and its iterator
  corrupt      \* something was deleted that was not there

vars == <<supervisor, registered, instance, factory, objects, todo, at, corrupt>>

Factory == [kind : Kinds, pool : SUBSET Objects]

ASSUME FactoryAssumption == Null \notin Factory

LayerOf(k) == IF k \in BomKinds THEN "bom" ELSE "service"

\* Deleting the supervisor runs its destructor first, which cleans both layers again.
Passes == <<"bom", "service", "bom", "service", "delete">>

Init ==
  /\ supervisor = FALSE
  /\ registered = [l \in Layers |-> <<>>]
  /\ instance = [k \in Kinds |-> Null]
  /\ factory = [a \in Memory |-> Null]
  /\ objects = {}
  /\ todo = <<>> /\ at = 1 /\ corrupt = FALSE

\* The program's one thread is not in a clean.
Running == todo = <<>>

--------------------------------------------------------------------------------
(* Factories *)

\* Mutants of Instance: only the factory the supervisor is made for registers; every
\* factory registers with the Bom layer.
InstanceRegistersOnce(k) ==
  /\ Running /\ instance[k] = Null
  /\ \E a \in Memory :
       /\ factory[a] = Null
       /\ factory' = [factory EXCEPT ![a] = [kind |-> k, pool |-> {}]]
       /\ instance' = [instance EXCEPT ![k] = a]
       /\ registered' = IF supervisor THEN registered
                        ELSE [registered EXCEPT ![LayerOf(k)] = Append(@, a)]
  /\ supervisor' = TRUE
  /\ UNCHANGED <<objects, todo, at, corrupt>>

InstanceRegistersAsBom(k) ==
  /\ Running /\ instance[k] = Null
  /\ \E a \in Memory :
       /\ factory[a] = Null
       /\ factory' = [factory EXCEPT ![a] = [kind |-> k, pool |-> {}]]
       /\ instance' = [instance EXCEPT ![k] = a]
       /\ registered' = [registered EXCEPT !["bom"] = Append(@, a)]
  /\ supervisor' = TRUE
  /\ UNCHANGED <<objects, todo, at, corrupt>>

\* instance() of a class that has none: FacSupervisor::instance() makes the supervisor
\* if need be.
Instance(k) ==
  /\ Running /\ instance[k] = Null
  /\ \E a \in Memory :
       /\ factory[a] = Null
       /\ factory' = [factory EXCEPT ![a] = [kind |-> k, pool |-> {}]]
       /\ instance' = [instance EXCEPT ![k] = a]
       /\ registered' = [registered EXCEPT ![LayerOf(k)] = Append(@, a)]
  /\ supervisor' = TRUE
  /\ UNCHANGED <<objects, todo, at, corrupt>>

Create(k) ==
  /\ Running /\ instance[k] # Null
  /\ \E o \in Objects \ objects :
       /\ objects' = objects \cup {o}
       /\ factory' = [factory EXCEPT ![instance[k]].pool = @ \cup {o}]
  /\ UNCHANGED <<supervisor, registered, instance, todo, at, corrupt>>

\* clean() is public in the service layer.
CleanPool(k) ==
  /\ Running /\ k \in ServiceKinds /\ instance[k] # Null
  /\ objects' = objects \ factory[instance[k]].pool
  /\ corrupt' = (corrupt \/ ~(factory[instance[k]].pool \subseteq objects))
  /\ factory' = [factory EXCEPT ![instance[k]].pool = {}]
  /\ UNCHANGED <<supervisor, registered, instance, todo, at>>

--------------------------------------------------------------------------------
(* Cleaning *)

CleanFactory ==
  /\ Running /\ supervisor
  /\ todo' = Passes
  /\ UNCHANGED <<supervisor, registered, instance, factory, objects, at, corrupt>>

\* cleanBomLayer or cleanServiceLayer of FacSupervisor::instance().
CleanLayer(l) ==
  /\ Running
  /\ todo' = <<l>> /\ supervisor' = TRUE
  /\ UNCHANGED <<registered, instance, factory, objects, at, corrupt>>

InLayer == todo # <<>> /\ Head(todo) # "delete"
Layer == Head(todo)

\* Mutant of DeleteFactory: the destructor of the factory leaves _instance alone.
DeleteKeepsInstance ==
  /\ InLayer /\ at <= Len(registered[Layer])
  /\ LET a == registered[Layer][at]
         f == factory[a]
     IN  IF f = Null
           THEN corrupt' = TRUE /\ UNCHANGED <<instance, factory, objects>>
           ELSE /\ factory' = [factory EXCEPT ![a] = Null]
                /\ objects' = objects \ f.pool
                /\ corrupt' = (corrupt \/ ~(f.pool \subseteq objects))
                /\ UNCHANGED instance
  /\ at' = at + 1
  /\ UNCHANGED <<supervisor, registered, todo>>

\* The derived destructor resets _instance, that of the base class deletes the pool.
DeleteFactory ==
  /\ InLayer /\ at <= Len(registered[Layer])
  /\ LET a == registered[Layer][at]
         f == factory[a]
     IN  IF f = Null
           THEN corrupt' = TRUE /\ UNCHANGED <<instance, factory, objects>>
           ELSE /\ factory' = [factory EXCEPT ![a] = Null]
                /\ instance' = [instance EXCEPT ![f.kind] = Null]
                /\ objects' = objects \ f.pool
                /\ corrupt' = (corrupt \/ ~(f.pool \subseteq objects))
  /\ at' = at + 1
  /\ UNCHANGED <<supervisor, registered, todo>>

\* Mutants of LayerDone: the pool of factories is not emptied; the iterator of the
\* next loop is not set to its begin().
LayerDoneKeepsPool ==
  /\ InLayer /\ at > Len(registered[Layer])
  /\ todo' = Tail(todo) /\ at' = 1
  /\ UNCHANGED <<supervisor, registered, instance, factory, objects, corrupt>>

LayerDoneLoops ==
  /\ InLayer /\ at > Len(registered[Layer])
  /\ registered' = [registered EXCEPT ![Layer] = <<>>]
  /\ todo' = todo /\ at' = 1
  /\ UNCHANGED <<supervisor, instance, factory, objects, corrupt>>

LayerDone ==
  /\ InLayer /\ at > Len(registered[Layer])
  /\ registered' = [registered EXCEPT ![Layer] = <<>>]
  /\ todo' = Tail(todo) /\ at' = 1
  /\ UNCHANGED <<supervisor, instance, factory, objects, corrupt>>

DeleteSupervisor ==
  /\ todo = <<"delete">>
  /\ supervisor' = FALSE /\ todo' = <<>>
  /\ UNCHANGED <<registered, instance, factory, objects, at, corrupt>>

CleanStep == DeleteFactory \/ LayerDone \/ DeleteSupervisor

Next ==
  \/ \E k \in Kinds : Instance(k) \/ Create(k) \/ CleanPool(k)
  \/ CleanFactory \/ \E l \in Layers : CleanLayer(l)
  \/ CleanStep

\* Destructors run straight through.
Spec == Init /\ [][Next]_vars /\ WF_vars(CleanStep)

--------------------------------------------------------------------------------
(* Properties *)

\* Entry i of the pool of layer l is not yet deleted by the loop under way.
Ahead(l, i) == InLayer /\ Layer = l => i >= at

\* Types of the state; a layer's pool holds factories of that layer.
TypeOK ==
  /\ supervisor \in BOOLEAN /\ corrupt \in BOOLEAN
  /\ registered \in [Layers -> Seq(Memory)]
  /\ instance \in [Kinds -> Memory \cup {Null}]
  /\ factory \in [Memory -> Factory \cup {Null}]
  /\ objects \subseteq Objects
  /\ todo \in Seq(Layers \cup {"delete"}) /\ at \in Nat \ {0}
  /\ \A l \in Layers : \A i \in DOMAIN registered[l] :
       Ahead(l, i) /\ factory[registered[l][i]] # Null =>
         LayerOf(factory[registered[l][i]].kind) = l

\* Nothing is deleted twice, although every clean of the supervisor goes over its
\* layers a second time: the first pass leaves the second nothing to delete.
NothingDeletedTwice == ~corrupt

\* Between cleans the singleton of a class, if it has one, is a live factory of that
\* class: no instance() returns one deleted by a clean.
NoDanglingInstance ==
  \A k \in Kinds : instance[k] # Null =>
    factory[instance[k]] # Null /\ factory[instance[k]].kind = k

\* When there is no supervisor there is no factory and nothing they created: whatever
\* was cleaned and made again before, cleanFactory gets to all of it.
CleanReclaimsAll ==
  ~supervisor => objects = {} /\ \A a \in Memory : factory[a] = Null

\* A clean comes to its end.
CleansEnd == todo # <<>> ~> todo = <<>>
================================================================================
