------------------------------- MODULE Lifecycle -------------------------------
(***************************************************************************)
(* The life of a SIMCRS_Service: the steps of its constructors, any of     *)
(* which may throw, its destructor, and the factory that pools the service *)
(* contexts until FacSupervisor::cleanFactory.                             *)
(*                                                                         *)
(* A constructor either makes its own StdAir service (with or without a    *)
(* database, which is the same here) or is handed the StdAir and SEvMgr    *)
(* services of an embedding program.  A boost::shared_ptr is the name of   *)
(* the object it points to; an object lives as long as one refers to it.   *)
(* The program has one thread, so one constructor runs at a time.          *)
(***************************************************************************)
EXTENDS Naturals, FiniteSets

CONSTANTS
  Services,  \* SIMCRS_Service objects; the StdAir one makes bears its name
  Contexts,  \* where SIMCRS_ServiceContext objects are allocated
  Caller,    \* the embedding program, and the StdAir and SEvMgr it shares
  None       \* the null pointer

ASSUME NamesAssumption == {Caller, None} \cap Services = {} /\ Caller # None
ASSUME ContextsAssumption == None \notin Contexts

VARIABLES
  service,    \* each SIMCRS_Service
  context,    \* each SIMCRS_ServiceContext, None where memory is free
  pool,       \* contexts held by FacSimcrsServiceContext
  instance,   \* FacSimcrsServiceContext has its singleton
  registered  \* entries of FacSupervisor's pool of service factories

vars == <<service, context, pool, instance, registered>>

Pointers == Services \cup {Caller, None}

\* A constructor is named by the step it has to take next.
Constructing == {"initStdAir", "initContext", "addStdAir", "addSEVMGR",
                 "initSIMFQT", "initAIRTSP", "initAIRINV"}
Alive == Constructing \cup {"live"}
Stages == Alive \cup {"unborn", "failed", "gone", "aborted"}

Service ==
  [stage : Stages,
   own : BOOLEAN,                \* which constructor: StdAir made here, or handed over
   handed : {Caller, None},      \* SEvMgr pointer the caller hands over
   local : Pointers,             \* StdAir pointer on the constructor's stack
   ctx : Contexts \cup {None}]   \* _simcrsServiceContext

Context ==
  [stdair : Pointers, ownStdAir : BOOLEAN, sevmgr : Pointers, ownSEVMGR : BOOLEAN,
   simfqt : Pointers, airtsp : Pointers,  \* the StdAir each sub-service was given
   airinv : Pointers, queue : Pointers]   \* AirInv's StdAir and event queue

\* The null pointer is told from a context.
ASSUME ContextAssumption == None \notin Context

Unborn == [stage |-> "unborn", own |-> FALSE, handed |-> None, local |-> None, ctx |-> None]

\* SIMCRS_ServiceContext (iCRSCode) leaves _ownStdairService uninitialised.
NewContext(junk) ==
  [stdair |-> None, ownStdAir |-> junk, sevmgr |-> None, ownSEVMGR |-> TRUE,
   simfqt |-> None, airtsp |-> None, airinv |-> None, queue |-> None]

Allocated == {c \in Contexts : context[c] # None}

Init ==
  /\ service = [s \in Services |-> Unborn]
  /\ context = [c \in Contexts |-> None]
  /\ pool = {} /\ instance = FALSE /\ registered = 0

--------------------------------------------------------------------------------
(* Constructors *)

At(s, stage) == service[s].stage = stage

GoTo(s, stage) == service' = [service EXCEPT ![s].stage = stage]

\* Assign one field of the context of s.
Ctx(s) == context[service[s].ctx]
Store(s, x) == context' = [context EXCEPT ![service[s].ctx] = x]

FactoryUnchanged == UNCHANGED <<pool, instance, registered>>

\* The program's one thread is in no constructor and has not died in one.
Running == \A r \in Services : service[r].stage \notin Constructing \cup {"aborted"}

Construct(s) ==
  /\ Running
  /\ At(s, "unborn")
  /\ \/ service' = [service EXCEPT ![s].stage = "initStdAir", ![s].own = TRUE]
     \/ \E q \in {Caller, None} :
          service' = [service EXCEPT ![s].stage = "initContext", ![s].handed = q]
  /\ UNCHANGED context /\ FactoryUnchanged

InitStdAirService(s) ==
  /\ At(s, "initStdAir")
  /\ service' = [service EXCEPT ![s].stage = "initContext", ![s].local = s]
  /\ UNCHANGED context /\ FactoryUnchanged

\* Mutants of InitServiceContext: the factory hands out a context it already has; it
\* registers at every call.
InitContextShares(s) ==
  /\ At(s, "initContext")
  /\ instance' = TRUE
  /\ registered' = IF instance THEN registered ELSE registered + 1
  /\ \E c \in IF pool = {} THEN Contexts ELSE pool : \E junk \in BOOLEAN :
       /\ context' = [context EXCEPT ![c] = NewContext(junk)]
       /\ pool' = pool \cup {c}
       /\ service' = [service EXCEPT ![s].stage = "addStdAir", ![s].ctx = c]

InitContextReregisters(s) ==
  /\ At(s, "initContext")
  /\ instance' = TRUE /\ registered' = registered + 1
  /\ \E c \in Contexts \ Allocated : \E junk \in BOOLEAN :
       /\ context' = [context EXCEPT ![c] = NewContext(junk)]
       /\ pool' = pool \cup {c}
       /\ service' = [service EXCEPT ![s].stage = "addStdAir", ![s].ctx = c]

\* FacSimcrsServiceContext::instance() registers a new factory, create() pools the
\* context.
InitServiceContext(s) ==
  /\ At(s, "initContext")
  /\ instance' = TRUE
  /\ registered' = IF instance THEN registered ELSE registered + 1
  /\ \E c \in Contexts \ Allocated : \E junk \in BOOLEAN :
       /\ context' = [context EXCEPT ![c] = NewContext(junk)]
       /\ pool' = pool \cup {c}
       /\ service' = [service EXCEPT ![s].stage = "addStdAir", ![s].ctx = c]

\* Mutant of AddStdAirService: the constructor that is handed both services goes on
\* to its sub-services before it stores the SEvMgr pointer.
AddStdAirOnly(s) ==
  /\ At(s, "addStdAir")
  /\ Store(s, [Ctx(s) EXCEPT !.stdair = IF service[s].own THEN service[s].local ELSE Caller,
                             !.ownStdAir = service[s].own])
  /\ GoTo(s, "initSIMFQT")
  /\ FactoryUnchanged

AddStdAirService(s) ==
  /\ At(s, "addStdAir")
  /\ Store(s, [Ctx(s) EXCEPT !.stdair = IF service[s].own THEN service[s].local ELSE Caller,
                             !.ownStdAir = service[s].own])
  /\ GoTo(s, IF service[s].own THEN "initSIMFQT" ELSE "addSEVMGR")
  /\ FactoryUnchanged

AddSEVMGRService(s) ==
  /\ At(s, "addSEVMGR")
  /\ Store(s, [Ctx(s) EXCEPT !.sevmgr = service[s].handed, !.ownSEVMGR = FALSE])
  /\ GoTo(s, "initSIMFQT")
  /\ FactoryUnchanged

InitSIMFQTService(s) ==
  /\ At(s, "initSIMFQT")
  /\ Store(s, [Ctx(s) EXCEPT !.simfqt = Ctx(s).stdair])
  /\ GoTo(s, "initAIRTSP")
  /\ FactoryUnchanged

\* Mutant of InitAIRTSPService: the sub-service is made and not stored.
InitAIRTSPForgets(s) ==
  /\ At(s, "initAIRTSP")
  /\ GoTo(s, "initAIRINV")
  /\ UNCHANGED context /\ FactoryUnchanged

InitAIRTSPService(s) ==
  /\ At(s, "initAIRTSP")
  /\ Store(s, [Ctx(s) EXCEPT !.airtsp = Ctx(s).stdair])
  /\ GoTo(s, "initAIRINV")
  /\ FactoryUnchanged

\* Mutant of InitAIRINVService: the assertion on the SEvMgr pointer is inverted.
InitAIRINVInverted(s) ==
  /\ At(s, "initAIRINV")
  /\ IF Ctx(s).ownSEVMGR \/ Ctx(s).sevmgr = None
       THEN /\ Store(s, [Ctx(s) EXCEPT !.airinv = Ctx(s).stdair, !.queue = s])
            /\ service' = [service EXCEPT ![s].stage = "live", ![s].local = None]
       ELSE GoTo(s, "aborted") /\ UNCHANGED context
  /\ FactoryUnchanged

\* AirInv posts to the SEvMgr handed over, which is asserted not null, or makes its
\* own.  It is the last step: the constructor returns and its locals go.
InitAIRINVService(s) ==
  /\ At(s, "initAIRINV")
  /\ IF Ctx(s).ownSEVMGR \/ Ctx(s).sevmgr # None
       THEN /\ Store(s, [Ctx(s) EXCEPT !.airinv = Ctx(s).stdair,
                                       !.queue = IF Ctx(s).ownSEVMGR THEN s ELSE Ctx(s).sevmgr])
            /\ service' = [service EXCEPT ![s].stage = "live", ![s].local = None]
       ELSE GoTo(s, "aborted") /\ UNCHANGED context
  /\ FactoryUnchanged

\* The constructor of StdAir or of a sub-service throws.  The destructor of an object
\* that was never constructed does not run: its context is not reset.  Memory is assumed
\* not to run out: the allocations of InitServiceContext, a factory, its registration and
\* a context, do not throw.
ConstructorThrows(s) ==
  /\ service[s].stage \in {"initStdAir", "initSIMFQT", "initAIRTSP", "initAIRINV"}
  /\ service' = [service EXCEPT ![s].stage = "failed", ![s].local = None]
  /\ UNCHANGED context /\ FactoryUnchanged

--------------------------------------------------------------------------------
(* Destructor and factories *)

\* Mutant of Reset: the AirInv pointer keeps its reference.
ResetAllButAirInv(x) ==
  [x EXCEPT !.stdair = None, !.simfqt = None, !.airtsp = None, !.sevmgr = None]

\* Each shared_ptr of the context drops its reference; a sub-service that goes drops
\* its own.
Reset(x) ==
  [x EXCEPT !.stdair = None, !.simfqt = None, !.airtsp = None,
            !.airinv = None, !.queue = None, !.sevmgr = None]

Destroy(s) ==
  /\ Running
  /\ At(s, "live")
  /\ Store(s, Reset(Ctx(s)))
  /\ GoTo(s, "gone")
  /\ FactoryUnchanged

\* Mutant of CleanFactory: the singleton pointer of the deleted factory is kept.
CleanKeepsInstance ==
  /\ Running /\ \A s \in Services : service[s].stage # "live"
  /\ registered > 0
  /\ context' = [c \in Contexts |-> IF c \in pool THEN None ELSE context[c]]
  /\ pool' = {} /\ registered' = 0
  /\ UNCHANGED <<instance, service>>

\* FacSupervisor::cleanFactory deletes the registered factories, each of which
\* deletes its pool and resets its singleton.  The service objects keep bare pointers
\* into that pool, so it may only be called once they are gone.
CleanFactory ==
  /\ Running /\ \A s \in Services : service[s].stage # "live"
  /\ registered > 0
  /\ context' = [c \in Contexts |-> IF c \in pool THEN None ELSE context[c]]
  /\ pool' = {} /\ instance' = FALSE /\ registered' = 0
  /\ UNCHANGED service

Next ==
  \/ CleanFactory
  \/ \E s \in Services :
       \/ Construct(s) \/ InitStdAirService(s) \/ InitServiceContext(s)
       \/ AddStdAirService(s) \/ AddSEVMGRService(s)
       \/ InitSIMFQTService(s) \/ InitAIRTSPService(s) \/ InitAIRINVService(s)
       \/ ConstructorThrows(s) \/ Destroy(s)

Spec == Init /\ [][Next]_vars

--------------------------------------------------------------------------------
(* Invariants *)

\* Types of the state.
TypeOK ==
  /\ service \in [Services -> Service]
  /\ context \in [Contexts -> Context \cup {None}]
  /\ pool \subseteq Contexts
  /\ instance \in BOOLEAN
  /\ registered \in {0, 1}

StdAirOf(s) == IF service[s].own THEN s ELSE Caller

\* A service that came out of its constructor has a context of its own in which
\* nothing is missing: the getters of SIMCRS_ServiceContext assert it on every call.
\* All its parts share one StdAir, the ownership flag the constructor left
\* uninitialised says whose it is, and AirInv posts to the event queue of the
\* embedding program exactly if there is one.
WiredUp ==
  \A s \in Services : At(s, "live") =>
    /\ service[s].ctx \in pool
    /\ {Ctx(s).stdair, Ctx(s).simfqt, Ctx(s).airtsp, Ctx(s).airinv} = {StdAirOf(s)}
    /\ Ctx(s).ownStdAir = service[s].own
    /\ Ctx(s).queue = StdAirOf(s)
    /\ \A r \in Services \ {s} : service[r].stage \in Alive => service[r].ctx # service[s].ctx

References(x) == {x.stdair, x.sevmgr, x.simfqt, x.airtsp, x.airinv, x.queue}

\* Destroying a service releases everything it held, the StdAir it made and what it
\* was lent: what is still held is held by a service being constructed or live, or
\* is the leftover of a constructor that threw.
ReleasedWithService ==
  \A c \in Allocated :
    References(context[c]) # {None} =>
      \E s \in Services :
        /\ service[s].ctx = c /\ service[s].stage \in Alive \cup {"failed", "aborted"}
        /\ References(context[c]) \subseteq {None, StdAirOf(s)}

\* cleanFactory reclaims every context, those of failed constructors included, also
\* when services are created again after an earlier clean: each context is in the
\* pool of a factory that is registered exactly once.
Reclaimable ==
  /\ Allocated = pool
  /\ pool # {} => instance
  /\ registered = IF instance THEN 1 ELSE 0

\* A constructor aborts the process only when its caller hands over a null SEvMgr.
AbortNeedsNullSEVMGR ==
  \A s \in Services : At(s, "aborted") => ~service[s].own /\ service[s].handed = None
================================================================================
