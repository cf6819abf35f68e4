---------------------------- MODULE LifecycleProofs ----------------------------
(***************************************************************************)
(* Proofs about Lifecycle and ServiceUse, for any number of services and   *)
(* contexts: what each step of a constructor finds in its context, what a  *)
(* destructor and cleanFactory leave behind, whom any number of early      *)
(* cleans can harm, and where the events of a service go.                  *)
(***************************************************************************)
EXTENDS ServiceUse, TLAPS

USE NamesAssumption, ContextsAssumption, ContextAssumption

--------------------------------------------------------------------------------
(* The inductive invariant *)

\* Services that reached initServiceContext and are still in use.
WithContext == {"addStdAir", "addSEVMGR", "initSIMFQT", "initAIRTSP", "initAIRINV", "live"}

\* What the steps of a constructor have put into its context so far.
Built(s) ==
  LET x == Ctx(s)
      st == service[s].stage
  IN  /\ service[s].ctx \in pool \cap Allocated
      /\ References(x) \subseteq {None, StdAirOf(s)}
      /\ st # "addStdAir" => x.stdair = StdAirOf(s) /\ x.ownStdAir = service[s].own
      /\ IF st \in {"addStdAir", "addSEVMGR"}
           THEN x.ownSEVMGR /\ x.sevmgr = None
           ELSE x.ownSEVMGR = service[s].own /\ x.sevmgr = service[s].handed
      /\ st \in {"initAIRTSP", "initAIRINV", "live"} => x.simfqt = StdAirOf(s)
      /\ st \in {"initAIRINV", "live"} => x.airtsp = StdAirOf(s)
      /\ st = "live" => x.airinv = StdAirOf(s) /\ x.queue = StdAirOf(s)

\* What is known of the service itself: the pointers its constructor works with.
Handed(s) ==
  /\ At(s, "unborn") => service[s] = Unborn
  /\ service[s].stage \in {"initStdAir", "initContext"} => service[s].ctx = None
  /\ At(s, "initStdAir") => service[s].own
  /\ At(s, "addSEVMGR") => ~service[s].own
  /\ service[s].own => service[s].handed = None
  /\ service[s].own /\ service[s].stage \in Constructing \ {"initStdAir"} => service[s].local = s

\* The invariants with what each needs to be inductive.
IInv ==
  /\ TypeOK /\ Reclaimable /\ ReleasedWithService /\ AbortNeedsNullSEVMGR
  /\ \A s \in Services :
       /\ Handed(s)
       /\ service[s].stage \in WithContext =>
            /\ Built(s)
            /\ \A r \in Services \ {s} :
                 service[r].stage \in WithContext => service[r].ctx # service[s].ctx

--------------------------------------------------------------------------------
(* What the steps of one service do *)

\* What a step does that changes one service before it has a context, and no context.
BareMoves(s) ==
  /\ service[s].stage \in {"unborn", "initStdAir", "initContext"}
  /\ UNCHANGED <<context, pool, instance, registered>>
  /\ \E v \in Service :
       /\ service' = [service EXCEPT ![s] = v]
       /\ v.stage \in {"initStdAir", "initContext", "failed"} /\ v.ctx = None
       /\ v.stage = "initStdAir" => v.own
       /\ v.own => v.handed = None
       /\ v.own /\ v.stage = "initContext" => v.local = s

\* What a step does that changes one service that has a context, and that context.
ContextMoves(s) ==
  /\ service[s].stage \in WithContext
  /\ UNCHANGED <<pool, instance, registered>>
  /\ \E v \in Service, x \in Context :
       /\ service' = [service EXCEPT ![s] = v]
       /\ context' = [context EXCEPT ![service[s].ctx] = x]
       /\ v.stage \in WithContext \cup {"failed", "aborted", "gone"}
       /\ v.own = service[s].own /\ v.handed = service[s].handed /\ v.ctx = service[s].ctx
       /\ v.stage = "addSEVMGR" => ~v.own
       /\ v.own /\ v.stage \in Constructing => v.local = s
       /\ v.stage = "aborted" => ~v.own /\ v.handed = None
       /\ References(x) \subseteq {None, StdAirOf(s)}
       /\ v.stage = "gone" => References(x) = {None}
       /\ v.stage \in WithContext => Built(s)'

\* Before it has a context, a service moves without touching the invariant of others.
LEMMA BareMove ==
  ASSUME IInv, NEW s \in Services, BareMoves(s)
  PROVE  IInv'
<1>0. PICK v \in Service :
        /\ service' = [service EXCEPT ![s] = v]
        /\ v.stage \in {"initStdAir", "initContext", "failed"} /\ v.ctx = None
        /\ v.stage = "initStdAir" => v.own
        /\ v.own => v.handed = None
        /\ v.own /\ v.stage = "initContext" => v.local = s
  BY DEF BareMoves
<1> /\ service[s].stage \in {"unborn", "initStdAir", "initContext"}
    /\ UNCHANGED <<context, pool, instance, registered>>
  BY DEF BareMoves
<1> USE <1>0
<1>1. TypeOK'
  BY DEF IInv, TypeOK
<1>2. Reclaimable'
  BY DEF IInv, Reclaimable, Allocated
<1>3. ReleasedWithService'
  <2>1. SUFFICES ASSUME NEW c \in Allocated, References(context[c]) # {None}
                 PROVE  \E r \in Services :
                          /\ service'[r].ctx = c
                          /\ service'[r].stage \in Alive \cup {"failed", "aborted"}
                          /\ References(context[c]) \subseteq {None, StdAirOf(r)'}
    BY DEF ReleasedWithService, Allocated
  <2>2. PICK r \in Services :
          /\ service[r].ctx = c /\ service[r].stage \in Alive \cup {"failed", "aborted"}
          /\ References(context[c]) \subseteq {None, StdAirOf(r)}
    BY <2>1 DEF IInv, ReleasedWithService
  <2>3. c # None /\ r # s
    BY <2>1, <2>2 DEF IInv, Handed, Allocated, Alive, Constructing, At
  <2>4. QED
    BY <2>2, <2>3 DEF StdAirOf, IInv, TypeOK
<1>4. AbortNeedsNullSEVMGR'
  BY DEF IInv, TypeOK, AbortNeedsNullSEVMGR, At
<1>5. ASSUME NEW r \in Services
      PROVE  Handed(r)'
  BY DEF IInv, TypeOK, Handed, At, Constructing
<1>6. ASSUME NEW r \in Services, service'[r].stage \in WithContext
      PROVE  /\ Built(r)'
             /\ \A q \in Services \ {r} :
                  service'[q].stage \in WithContext => service'[q].ctx # service'[r].ctx
  <2>1. r # s /\ service'[r] = service[r]
    BY <1>6 DEF IInv, TypeOK, WithContext
  <2>2. Built(r)' <=> Built(r)
    BY <2>1 DEF Built, Ctx, StdAirOf, Allocated
  <2>3. \A q \in Services : service'[q].stage \in WithContext => service'[q] = service[q]
    BY DEF IInv, TypeOK, WithContext
  <2>4. QED
    BY <1>6, <2>1, <2>2, <2>3 DEF IInv
<1> QED
  BY <1>1, <1>2, <1>3, <1>4, <1>5, <1>6 DEF IInv

\* A service that has a context moves within it.
LEMMA ContextMove ==
  ASSUME IInv, NEW s \in Services, ContextMoves(s)
  PROVE  IInv'
<1>0. PICK v \in Service, x \in Context :
        /\ service' = [service EXCEPT ![s] = v]
        /\ context' = [context EXCEPT ![service[s].ctx] = x]
        /\ v.stage \in WithContext \cup {"failed", "aborted", "gone"}
        /\ v.own = service[s].own /\ v.handed = service[s].handed /\ v.ctx = service[s].ctx
        /\ v.stage = "addSEVMGR" => ~v.own
        /\ v.own /\ v.stage \in Constructing => v.local = s
        /\ v.stage = "aborted" => ~v.own /\ v.handed = None
        /\ References(x) \subseteq {None, StdAirOf(s)}
        /\ v.stage = "gone" => References(x) = {None}
        /\ v.stage \in WithContext => Built(s)'
  BY DEF ContextMoves
<1> service[s].stage \in WithContext /\ UNCHANGED <<pool, instance, registered>>
  BY DEF ContextMoves
<1> USE <1>0
<1> DEFINE d == service[s].ctx
<1>1. /\ d \in Contexts /\ d \in pool /\ context[d] # None
      /\ \A r \in Services \ {s} : service[r].stage \in WithContext => service[r].ctx # d
  BY DEF IInv, Built, Allocated
<1>2. /\ service' \in [Services -> Service] /\ service'[s] = v
      /\ \A r \in Services \ {s} : service'[r] = service[r]
      /\ \A c \in Contexts : context'[c] = IF c = d THEN x ELSE context[c]
      /\ x # None
  BY <1>1 DEF IInv, TypeOK
<1>3. TypeOK'
  BY <1>1, <1>2 DEF IInv, TypeOK
<1>4. Allocated' = Allocated
  BY <1>1, <1>2 DEF Allocated
<1>5. Reclaimable'
  BY <1>4 DEF IInv, Reclaimable
<1>6. \A r \in Services : StdAirOf(r)' = StdAirOf(r)
  BY <1>2 DEF StdAirOf
<1>7. ReleasedWithService'
  <2>1. SUFFICES ASSUME NEW c \in Allocated, References(context'[c]) # {None}
                 PROVE  \E r \in Services :
                          /\ service'[r].ctx = c
                          /\ service'[r].stage \in Alive \cup {"failed", "aborted"}
                          /\ References(context'[c]) \subseteq {None, StdAirOf(r)'}
    BY <1>4 DEF ReleasedWithService
  <2>2. CASE c = d
    <3>1. context'[c] = x /\ v.stage # "gone"
      BY <1>2, <2>1, <2>2 DEF Allocated
    <3>2. v.stage \in Alive \cup {"failed", "aborted"}
      BY <3>1 DEF Alive, Constructing, WithContext
    <3>3. QED
      BY <1>2, <1>6, <2>2, <3>1, <3>2
  <2>3. CASE c # d
    <3>1. context'[c] = context[c]
      BY <1>2, <2>1, <2>3 DEF Allocated
    <3>2. PICK r \in Services :
            /\ service[r].ctx = c /\ service[r].stage \in Alive \cup {"failed", "aborted"}
            /\ References(context[c]) \subseteq {None, StdAirOf(r)}
      BY <2>1, <3>1 DEF IInv, ReleasedWithService
    <3>3. QED
      BY <1>2, <1>6, <2>3, <3>1, <3>2
  <2>4. QED
    BY <2>2, <2>3
<1>8. AbortNeedsNullSEVMGR'
  BY <1>2 DEF IInv, AbortNeedsNullSEVMGR, At
<1>9. ASSUME NEW r \in Services
      PROVE  Handed(r)'
  <2>1. CASE r = s
    <3>1. service'[r] = v /\ Handed(s)
      BY <1>2, <2>1 DEF IInv
    <3>2. v.own => v.handed = None
      BY <3>1 DEF Handed
    <3>3. v.stage \notin {"unborn", "initStdAir", "initContext"}
      BY DEF WithContext
    <3>4. QED
      BY <2>1, <3>1, <3>2, <3>3 DEF Handed, At
  <2>2. CASE r # s
    BY <1>2, <2>2 DEF IInv, Handed, At
  <2>3. QED
    BY <2>1, <2>2
<1>10. ASSUME NEW r \in Services, service'[r].stage \in WithContext
       PROVE  /\ Built(r)'
              /\ \A q \in Services \ {r} :
                   service'[q].stage \in WithContext => service'[q].ctx # service'[r].ctx
  <2>1. \A q \in Services : /\ service'[q].ctx = service[q].ctx
                            /\ service'[q].stage \in WithContext => service[q].stage \in WithContext
    BY <1>2
  <2>2. Built(r)'
    <3>1. CASE r = s
      BY <1>2, <1>10, <3>1
    <3>2. CASE r # s
      <4>1. service'[r] = service[r] /\ Built(r) /\ service[r].ctx # d
        BY <1>1, <1>2, <1>10, <3>2 DEF IInv
      <4>2. service[r].ctx \in Contexts
        BY <4>1 DEF Built, Allocated
      <4>3. Ctx(r)' = Ctx(r)
        BY <1>2, <4>1, <4>2 DEF Ctx
      <4>4. QED
        BY <1>4, <1>6, <4>1, <4>3 DEF Built
    <3>3. QED
      BY <3>1, <3>2
  <2>3. QED
    BY <1>10, <2>1, <2>2 DEF IInv
<1> QED
  BY <1>3, <1>5, <1>7, <1>8, <1>9, <1>10 DEF IInv

\* Before any service there is nothing to hold on to.
LEMMA InitIInv == Init => IInv
<1> SUFFICES ASSUME Init PROVE IInv
  OBVIOUS
<1>1. TypeOK
  BY DEF Init, TypeOK, Unborn, Service, Stages, Alive, Constructing, Pointers
<1>2. Reclaimable /\ ReleasedWithService /\ AbortNeedsNullSEVMGR
  BY DEF Init, Reclaimable, ReleasedWithService, AbortNeedsNullSEVMGR, Allocated, At, Unborn
<1>3. ASSUME NEW s \in Services
      PROVE  Handed(s) /\ service[s].stage \notin WithContext
  BY DEF Init, Handed, At, Unborn, WithContext
<1> QED
  BY <1>1, <1>2, <1>3 DEF IInv

\* The first steps of a constructor, up to its context.
LEMMA BareSteps ==
  ASSUME service \in [Services -> Service], NEW s \in Services, Handed(s),
         \/ Construct(s)
         \/ InitStdAirService(s)
         \/ ConstructorThrows(s) /\ At(s, "initStdAir")
  PROVE  BareMoves(s)
<1>1. service[s] \in Service /\ UNCHANGED <<context, pool, instance, registered>>
  BY DEF Construct, InitStdAirService, ConstructorThrows, FactoryUnchanged
<1>2. CASE Construct(s)
  <2>1. service[s] = Unborn /\ service[s].stage = "unborn"
    BY <1>1, <1>2 DEF Handed, Construct, At
  <2>2. CASE service' = [service EXCEPT ![s].stage = "initStdAir", ![s].own = TRUE]
    <3> DEFINE v == [stage |-> "initStdAir", own |-> TRUE, handed |-> None,
                     local |-> None, ctx |-> None]
    <3>1. service' = [service EXCEPT ![s] = v]
      BY <1>1, <2>1, <2>2 DEF Unborn
    <3>2. v \in Service
      BY DEF Service, Stages, Alive, Constructing, Pointers
    <3>3. QED
      BY <1>1, <2>1, <3>1, <3>2 DEF BareMoves
  <2>3. ASSUME NEW q \in {Caller, None},
               service' = [service EXCEPT ![s].stage = "initContext", ![s].handed = q]
        PROVE  BareMoves(s)
    <3> DEFINE v == [service[s] EXCEPT !.stage = "initContext", !.handed = q]
    <3>1. service' = [service EXCEPT ![s] = v]
      BY <1>1, <2>3
    <3>2. v \in Service
      BY <1>1 DEF Service, Stages, Alive, Constructing
    <3>3. v.stage = "initContext" /\ v.ctx = None /\ ~v.own
      BY <1>1, <2>1 DEF Unborn, Service
    <3>4. QED
      BY <1>1, <2>1, <3>1, <3>2, <3>3 DEF BareMoves
  <2>4. QED
    BY <1>2, <2>2, <2>3 DEF Construct
<1>3. CASE InitStdAirService(s)
  <2> DEFINE v == [service[s] EXCEPT !.stage = "initContext", !.local = s]
  <2>1. service' = [service EXCEPT ![s] = v]
    BY <1>1, <1>3 DEF InitStdAirService
  <2>2. /\ v \in Service /\ v.stage = "initContext" /\ v.ctx = None /\ v.local = s
        /\ v.own => v.handed = None
    BY <1>1, <1>3 DEF InitStdAirService, At, Handed, Service, Stages, Alive, Constructing, Pointers
  <2>3. QED
    BY <1>1, <1>3, <2>1, <2>2 DEF BareMoves, InitStdAirService, At
<1>4. CASE ConstructorThrows(s) /\ At(s, "initStdAir")
  <2> DEFINE v == [service[s] EXCEPT !.stage = "failed", !.local = None]
  <2>1. service' = [service EXCEPT ![s] = v]
    BY <1>1, <1>4 DEF ConstructorThrows
  <2>2. /\ v \in Service /\ v.stage = "failed" /\ v.ctx = None
        /\ v.own => v.handed = None
    BY <1>1, <1>4 DEF At, Handed, Service, Stages, Pointers
  <2>3. QED
    BY <1>1, <1>4, <2>1, <2>2 DEF BareMoves, At
<1> QED
  BY <1>2, <1>3, <1>4

\* A new context is pooled, belongs to no other service in use, and holds nothing.
LEMMA NewContextStep ==
  ASSUME IInv, NEW s \in Services, InitServiceContext(s)
  PROVE  IInv'
<1>1. PICK c \in Contexts \ Allocated, junk \in BOOLEAN :
        /\ context' = [context EXCEPT ![c] = NewContext(junk)]
        /\ pool' = pool \cup {c}
        /\ service' = [service EXCEPT ![s].stage = "addStdAir", ![s].ctx = c]
  BY DEF InitServiceContext
<1> DEFINE x == NewContext(junk)
<1>2. /\ x \in Context /\ References(x) = {None} /\ x # None
      /\ x.ownSEVMGR = TRUE /\ x.sevmgr = None
  <2>1. x \in Context
    BY DEF NewContext, Context, Pointers
  <2>2. References(x) = {None} /\ x.ownSEVMGR = TRUE /\ x.sevmgr = None
    BY DEF NewContext, References
  <2>3. QED
    BY <2>1, <2>2
<1>3. /\ service[s].stage = "initContext" /\ service[s] \in Service /\ Handed(s)
      /\ service \in [Services -> Service] /\ context \in [Contexts -> Context \cup {None}]
  BY DEF InitServiceContext, At, IInv, TypeOK
<1>4. /\ service'[s] = [service[s] EXCEPT !.stage = "addStdAir", !.ctx = c]
      /\ \A r \in Services \ {s} : service'[r] = service[r]
      /\ context'[c] = x
      /\ \A d \in Contexts \ {c} : context'[d] = context[d]
      /\ instance' /\ registered' = 1 /\ c \notin pool
  <2>1. registered' = 1 /\ c \notin pool
    BY DEF IInv, Reclaimable, InitServiceContext
  <2>2. QED
    BY <1>1, <1>3, <2>1 DEF InitServiceContext
<1>5. TypeOK'
  <2>1. service'[s] \in Service
    BY <1>3, <1>4 DEF Service, Stages, Alive, Constructing
  <2>2. QED
    BY <1>1, <1>2, <1>3, <1>4, <2>1 DEF IInv, TypeOK
<1>6. Allocated' = Allocated \cup {c}
  BY <1>2, <1>4 DEF Allocated
<1>7. Reclaimable'
  BY <1>1, <1>4, <1>6 DEF IInv, Reclaimable
<1>8. \A r \in Services : StdAirOf(r)' = StdAirOf(r)
  BY <1>3, <1>4 DEF StdAirOf, Service
<1>9. ReleasedWithService'
  <2>1. SUFFICES ASSUME NEW d \in Allocated, d # c, References(context[d]) # {None}
                 PROVE  \E r \in Services :
                          /\ service'[r].ctx = d
                          /\ service'[r].stage \in Alive \cup {"failed", "aborted"}
                          /\ References(context[d]) \subseteq {None, StdAirOf(r)'}
    BY <1>2, <1>4, <1>6 DEF ReleasedWithService, Allocated
  <2>2. PICK r \in Services :
          /\ service[r].ctx = d /\ service[r].stage \in Alive \cup {"failed", "aborted"}
          /\ References(context[d]) \subseteq {None, StdAirOf(r)}
    BY <2>1 DEF IInv, ReleasedWithService
  <2>3. r # s
    BY <1>3, <2>2 DEF Handed, Allocated
  <2>4. QED
    BY <1>4, <1>8, <2>2, <2>3
<1>10. AbortNeedsNullSEVMGR'
  BY <1>3, <1>4 DEF IInv, AbortNeedsNullSEVMGR, At, Service
<1>11. ASSUME NEW r \in Services
       PROVE  Handed(r)'
  <2>1. CASE r = s
    BY <1>3, <1>4, <2>1 DEF Handed, At, Constructing, Service
  <2>2. CASE r # s
    BY <1>4, <2>2 DEF IInv, Handed, At
  <2>3. QED
    BY <2>1, <2>2
<1>12. ASSUME NEW r \in Services, service'[r].stage \in WithContext
       PROVE  /\ Built(r)'
              /\ \A q \in Services \ {r} :
                   service'[q].stage \in WithContext => service'[q].ctx # service'[r].ctx
  <2>1. \A q \in Services \ {s} : service'[q].stage \in WithContext =>
                                   service'[q] = service[q] /\ Built(q) /\ service[q].ctx # c
    BY <1>4 DEF IInv, Built
  <2>2. CASE r = s
    <3>1. service'[s].ctx = c /\ service'[s].stage = "addStdAir" /\ Ctx(s)' = x
      BY <1>3, <1>4 DEF Ctx, Service
    <3>2. Built(s)'
      BY <1>1, <1>2, <1>6, <3>1 DEF Built
    <3>3. QED
      BY <2>1, <2>2, <3>1, <3>2
  <2>3. CASE r # s
    <3>1. service'[r] = service[r] /\ Built(r) /\ service[r].ctx # c
      BY <1>12, <2>1, <2>3
    <3>2. service[r].ctx \in Contexts /\ Ctx(r)' = Ctx(r)
      BY <1>4, <3>1 DEF Built, Ctx, Allocated
    <3>3. Built(r)'
      <4>1. service[r].ctx \in pool' \cap Allocated'
        BY <1>1, <1>6, <3>1 DEF Built
      <4>2. QED
        BY <1>8, <3>1, <3>2, <4>1 DEF Built
    <3>4. ASSUME NEW q \in Services \ {r}, service'[q].stage \in WithContext
          PROVE  service'[q].ctx # service'[r].ctx
      <4>1. CASE q = s
        BY <1>3, <1>4, <3>1, <4>1 DEF Service
      <4>2. CASE q # s
        BY <1>4, <1>12, <2>3, <3>1, <3>4, <4>2 DEF IInv
      <4>3. QED
        BY <4>1, <4>2
    <3>5. QED
      BY <3>3, <3>4
  <2>4. QED
    BY <2>2, <2>3
<1> QED
  BY <1>5, <1>7, <1>9, <1>10, <1>11, <1>12 DEF IInv

\* The later steps of a constructor find in the context what the earlier ones put there.
LEMMA BuildSteps ==
  ASSUME service \in [Services -> Service], context \in [Contexts -> Context \cup {None}],
         NEW s \in Services, Handed(s), Built(s),
         \/ AddStdAirService(s) \/ AddSEVMGRService(s)
         \/ InitSIMFQTService(s) \/ InitAIRTSPService(s) \/ InitAIRINVService(s)
  PROVE  ContextMoves(s)
<1>1. /\ service[s].stage \in WithContext \cap Constructing
      /\ service[s] \in Service
      /\ UNCHANGED <<pool, instance, registered>>
  BY DEF WithContext, Constructing, AddStdAirService, AddSEVMGRService,
         InitSIMFQTService, InitAIRTSPService, InitAIRINVService, At, FactoryUnchanged
<1>2. /\ service[s].ctx \in Contexts /\ Ctx(s) \in Context
      /\ service[s].ctx \in pool \cap Allocated
  BY <1>1 DEF Built, Ctx, Allocated
<1>3. ASSUME NEW stage \in WithContext, NEW x \in Context,
             stage # "live", stage = "addSEVMGR" => ~service[s].own,
             GoTo(s, stage), Store(s, x),
             References(x) \subseteq {None, StdAirOf(s)},
             stage # "addStdAir" => x.stdair = StdAirOf(s) /\ x.ownStdAir = service[s].own,
             IF stage \in {"addStdAir", "addSEVMGR"}
               THEN x.ownSEVMGR /\ x.sevmgr = None
               ELSE x.ownSEVMGR = service[s].own /\ x.sevmgr = service[s].handed,
             stage \in {"initAIRTSP", "initAIRINV"} => x.simfqt = StdAirOf(s),
             stage = "initAIRINV" => x.airtsp = StdAirOf(s)
      PROVE  ContextMoves(s)
  <2> DEFINE v == [service[s] EXCEPT !.stage = stage]
  <2>1. /\ v \in Service /\ v.stage = stage /\ v.own = service[s].own
        /\ v.handed = service[s].handed /\ v.ctx = service[s].ctx /\ v.local = service[s].local
    BY <1>1, <1>3 DEF Service, WithContext, Stages, Alive, Constructing
  <2>2. service' = [service EXCEPT ![s] = v] /\ service'[s] = v
    BY <1>1, <1>3 DEF GoTo
  <2>3. /\ context' = [context EXCEPT ![service[s].ctx] = x]
        /\ Ctx(s)' = x /\ context'[service[s].ctx] = x
    BY <1>2, <1>3, <2>1, <2>2 DEF Store, Ctx
  <2>4. StdAirOf(s)' = StdAirOf(s)
    BY <2>1, <2>2 DEF StdAirOf
  <2>5. Built(s)'
    <3>1. service'[s].ctx \in pool' \cap Allocated'
      BY <1>1, <1>2, <2>1, <2>2, <2>3 DEF Allocated
    <3>2. QED
      BY <1>3, <2>1, <2>2, <2>3, <2>4, <3>1 DEF Built
  <2>6. v.own /\ v.stage \in Constructing => v.local = s
    BY <1>1, <2>1 DEF Handed, WithContext
  <2>7. QED
    BY <1>1, <1>3, <2>1, <2>2, <2>3, <2>5, <2>6 DEF ContextMoves, WithContext, Constructing
<1>4. CASE AddStdAirService(s)
  <2> DEFINE x == [Ctx(s) EXCEPT !.stdair = IF service[s].own THEN service[s].local ELSE Caller,
                                 !.ownStdAir = service[s].own]
             stage == IF service[s].own THEN "initSIMFQT" ELSE "addSEVMGR"
  <2>1. service[s].own => service[s].local = s
    BY <1>1, <1>4 DEF Handed, AddStdAirService, At, Constructing
  <2>2. /\ x \in Context /\ x.stdair = StdAirOf(s) /\ x.ownStdAir = service[s].own
        /\ x.ownSEVMGR = Ctx(s).ownSEVMGR /\ x.sevmgr = Ctx(s).sevmgr
        /\ x.simfqt = Ctx(s).simfqt /\ x.airtsp = Ctx(s).airtsp
        /\ x.airinv = Ctx(s).airinv /\ x.queue = Ctx(s).queue
    BY <1>1, <1>2, <2>1 DEF Context, Service, StdAirOf, Pointers
  <2>3. References(x) \subseteq {None, StdAirOf(s)}
    BY <1>1, <2>2 DEF Built, References
  <2>4. Ctx(s).ownSEVMGR = TRUE /\ Ctx(s).sevmgr = None
    BY <1>1, <1>2, <1>4 DEF Built, AddStdAirService, At, Context
  <2>5. /\ stage \in {"initSIMFQT", "addSEVMGR"}
        /\ stage = "addSEVMGR" <=> ~service[s].own
        /\ stage # "addSEVMGR" => service[s].own = TRUE /\ service[s].handed = None
    BY <1>1 DEF Handed, Service
  <2>6. GoTo(s, stage) /\ Store(s, x)
    BY <1>4 DEF AddStdAirService
  <2> HIDE DEF x, stage
  <2>7. QED
    BY <1>3, <2>2, <2>3, <2>4, <2>5, <2>6 DEF WithContext
<1>5. CASE AddSEVMGRService(s)
  <2> DEFINE x == [Ctx(s) EXCEPT !.sevmgr = service[s].handed, !.ownSEVMGR = FALSE]
  <2>1. /\ service[s].own = FALSE /\ StdAirOf(s) = Caller
        /\ service[s].handed \in {Caller, None}
    BY <1>1, <1>5 DEF Handed, AddSEVMGRService, At, StdAirOf, Service
  <2>2. /\ x \in Context /\ x.sevmgr = service[s].handed /\ x.ownSEVMGR = FALSE
        /\ x.stdair = Ctx(s).stdair /\ x.ownStdAir = Ctx(s).ownStdAir
        /\ x.simfqt = Ctx(s).simfqt /\ x.airtsp = Ctx(s).airtsp
        /\ x.airinv = Ctx(s).airinv /\ x.queue = Ctx(s).queue
    BY <1>2, <2>1 DEF Context, Pointers
  <2>3. References(x) \subseteq {None, StdAirOf(s)}
    BY <1>1, <2>1, <2>2 DEF Built, References
  <2>4. Ctx(s).stdair = StdAirOf(s) /\ Ctx(s).ownStdAir = service[s].own
    BY <1>1, <1>5 DEF Built, AddSEVMGRService, At
  <2>5. GoTo(s, "initSIMFQT") /\ Store(s, x)
    BY <1>5 DEF AddSEVMGRService
  <2> HIDE DEF x
  <2>6. QED
    BY <1>3, <2>1, <2>2, <2>3, <2>4, <2>5 DEF WithContext
<1>6. ASSUME service[s].stage \in {"initSIMFQT", "initAIRTSP", "initAIRINV"}
      PROVE  /\ Ctx(s).stdair = StdAirOf(s) /\ Ctx(s).ownStdAir = service[s].own
             /\ Ctx(s).ownSEVMGR = service[s].own /\ Ctx(s).sevmgr = service[s].handed
             /\ service[s].stage # "initSIMFQT" => Ctx(s).simfqt = StdAirOf(s)
             /\ service[s].stage = "initAIRINV" => Ctx(s).airtsp = StdAirOf(s)
             /\ StdAirOf(s) \in Pointers
  BY <1>1, <1>6 DEF Built, StdAirOf, Pointers
<1>7. CASE InitSIMFQTService(s)
  <2> DEFINE x == [Ctx(s) EXCEPT !.simfqt = Ctx(s).stdair]
  <2>1. service[s].stage = "initSIMFQT" /\ GoTo(s, "initAIRTSP") /\ Store(s, x)
    BY <1>7 DEF InitSIMFQTService, At
  <2>2. /\ x \in Context /\ x.simfqt = Ctx(s).stdair
        /\ x.stdair = Ctx(s).stdair /\ x.ownStdAir = Ctx(s).ownStdAir
        /\ x.sevmgr = Ctx(s).sevmgr /\ x.ownSEVMGR = Ctx(s).ownSEVMGR
        /\ x.airtsp = Ctx(s).airtsp /\ x.airinv = Ctx(s).airinv /\ x.queue = Ctx(s).queue
    BY <1>2 DEF Context
  <2>3. References(x) \subseteq {None, StdAirOf(s)}
    BY <1>1, <2>2 DEF Built, References
  <2> HIDE DEF x
  <2>4. QED
    BY <1>3, <1>6, <2>1, <2>2, <2>3 DEF WithContext
<1>8. CASE InitAIRTSPService(s)
  <2> DEFINE x == [Ctx(s) EXCEPT !.airtsp = Ctx(s).stdair]
  <2>1. service[s].stage = "initAIRTSP" /\ GoTo(s, "initAIRINV") /\ Store(s, x)
    BY <1>8 DEF InitAIRTSPService, At
  <2>2. /\ x \in Context /\ x.airtsp = Ctx(s).stdair
        /\ x.stdair = Ctx(s).stdair /\ x.ownStdAir = Ctx(s).ownStdAir
        /\ x.sevmgr = Ctx(s).sevmgr /\ x.ownSEVMGR = Ctx(s).ownSEVMGR
        /\ x.simfqt = Ctx(s).simfqt /\ x.airinv = Ctx(s).airinv /\ x.queue = Ctx(s).queue
    BY <1>2 DEF Context
  <2>3. References(x) \subseteq {None, StdAirOf(s)}
    BY <1>1, <2>2 DEF Built, References
  <2> HIDE DEF x
  <2>4. QED
    BY <1>3, <1>6, <2>1, <2>2, <2>3 DEF WithContext
<1>9. CASE InitAIRINVService(s) /\ (Ctx(s).ownSEVMGR \/ Ctx(s).sevmgr # None)
  <2> DEFINE x == [Ctx(s) EXCEPT !.airinv = Ctx(s).stdair,
                                 !.queue = IF Ctx(s).ownSEVMGR THEN s ELSE Ctx(s).sevmgr]
             v == [service[s] EXCEPT !.stage = "live", !.local = None]
  <2>1. service[s].stage = "initAIRINV"
    BY <1>9 DEF InitAIRINVService, At
  <2>2. /\ v \in Service /\ v.stage = "live" /\ v.own = service[s].own
        /\ v.handed = service[s].handed /\ v.ctx = service[s].ctx
    BY <1>1 DEF Service, Stages, Alive, Pointers
  <2>3. (IF Ctx(s).ownSEVMGR THEN s ELSE Ctx(s).sevmgr) = StdAirOf(s)
    BY <1>1, <1>6, <1>9, <2>1 DEF StdAirOf, Service
  <2>4. /\ x \in Context /\ x.airinv = Ctx(s).stdair /\ x.queue = StdAirOf(s)
        /\ x.stdair = Ctx(s).stdair /\ x.ownStdAir = Ctx(s).ownStdAir
        /\ x.sevmgr = Ctx(s).sevmgr /\ x.ownSEVMGR = Ctx(s).ownSEVMGR
        /\ x.simfqt = Ctx(s).simfqt /\ x.airtsp = Ctx(s).airtsp
    BY <1>2, <1>6, <2>1, <2>3 DEF Context
  <2>5. References(x) \subseteq {None, StdAirOf(s)}
    BY <1>1, <1>6, <2>1, <2>4 DEF Built, References
  <2>6. service' = [service EXCEPT ![s] = v] /\ service'[s] = v
    BY <1>1, <1>9 DEF InitAIRINVService
  <2>7. /\ context' = [context EXCEPT ![service[s].ctx] = x]
        /\ Ctx(s)' = x /\ context'[service[s].ctx] = x /\ x # None
    BY <1>2, <1>9, <2>2, <2>4, <2>6 DEF InitAIRINVService, Store, Ctx
  <2> HIDE DEF x, v
  <2>8. StdAirOf(s)' = StdAirOf(s)
    BY <2>2, <2>6 DEF StdAirOf
  <2>9. Built(s)'
    <3>1. service'[s].ctx \in pool' \cap Allocated'
      BY <1>1, <1>2, <2>2, <2>6, <2>7 DEF Allocated
    <3>2. QED
      BY <1>6, <2>1, <2>2, <2>4, <2>5, <2>6, <2>7, <2>8, <3>1 DEF Built
  <2>10. QED
    BY <1>1, <2>2, <2>4, <2>5, <2>6, <2>7, <2>9 DEF ContextMoves, WithContext, Constructing
<1>10. CASE InitAIRINVService(s) /\ ~(Ctx(s).ownSEVMGR \/ Ctx(s).sevmgr # None)
  <2> DEFINE v == [service[s] EXCEPT !.stage = "aborted"]
  <2>1. service[s].stage = "initAIRINV"
    BY <1>10 DEF InitAIRINVService, At
  <2>2. /\ v \in Service /\ v.stage = "aborted" /\ v.own = service[s].own
        /\ v.handed = service[s].handed /\ v.ctx = service[s].ctx
    BY <1>1 DEF Service, Stages
  <2>3. ~v.own /\ v.handed = None
    BY <1>6, <1>10, <2>1, <2>2
  <2>4. service' = [service EXCEPT ![s] = v]
    BY <1>10 DEF InitAIRINVService, GoTo
  <2>5. context' = [context EXCEPT ![service[s].ctx] = Ctx(s)]
    BY <1>2, <1>10 DEF InitAIRINVService, Ctx
  <2>6. References(Ctx(s)) \subseteq {None, StdAirOf(s)}
    BY <1>1 DEF Built
  <2> HIDE DEF v
  <2>7. QED
    BY <1>1, <1>2, <2>2, <2>3, <2>4, <2>5, <2>6 DEF ContextMoves, WithContext, Constructing
<1> QED
  BY <1>4, <1>5, <1>7, <1>8, <1>9, <1>10

\* A sub-service that throws leaves the context as it is; the destructor empties it.
LEMMA EndSteps ==
  ASSUME service \in [Services -> Service], context \in [Contexts -> Context \cup {None}],
         NEW s \in Services, Built(s),
         \/ ConstructorThrows(s) /\ ~At(s, "initStdAir")
         \/ Destroy(s)
  PROVE  ContextMoves(s)
<1>1. /\ service[s].stage \in WithContext
      /\ service[s] \in Service
      /\ UNCHANGED <<pool, instance, registered>>
  BY DEF WithContext, ConstructorThrows, Destroy, At, FactoryUnchanged
<1>2. /\ service[s].ctx \in Contexts /\ Ctx(s) \in Context
      /\ References(Ctx(s)) \subseteq {None, StdAirOf(s)}
  BY <1>1 DEF Built, Ctx, Allocated
<1>3. CASE ConstructorThrows(s)
  <2> DEFINE v == [service[s] EXCEPT !.stage = "failed", !.local = None]
  <2>1. /\ v \in Service /\ v.stage = "failed" /\ v.own = service[s].own
        /\ v.handed = service[s].handed /\ v.ctx = service[s].ctx
    BY <1>1 DEF Service, Stages, Pointers
  <2>2. service' = [service EXCEPT ![s] = v]
    BY <1>3 DEF ConstructorThrows
  <2>3. context' = [context EXCEPT ![service[s].ctx] = Ctx(s)]
    BY <1>2, <1>3 DEF ConstructorThrows, Ctx
  <2> HIDE DEF v
  <2>4. QED
    BY <1>1, <1>2, <2>1, <2>2, <2>3 DEF ContextMoves, WithContext, Constructing
<1>4. CASE Destroy(s)
  <2> DEFINE v == [service[s] EXCEPT !.stage = "gone"]
             x == Reset(Ctx(s))
  <2>1. /\ v \in Service /\ v.stage = "gone" /\ v.own = service[s].own
        /\ v.handed = service[s].handed /\ v.ctx = service[s].ctx
    BY <1>1 DEF Service, Stages
  <2>2. x \in Context /\ References(x) = {None}
    BY <1>2 DEF Reset, Context, Pointers, References
  <2>3. service' = [service EXCEPT ![s] = v]
    BY <1>4 DEF Destroy, GoTo
  <2>4. context' = [context EXCEPT ![service[s].ctx] = x]
    BY <1>4 DEF Destroy, Store
  <2> HIDE DEF v, x
  <2>5. QED
    BY <1>1, <2>1, <2>2, <2>3, <2>4 DEF ContextMoves, WithContext, Constructing
<1> QED
  BY <1>3, <1>4

\* cleanFactory runs when no service uses a context, and every context is in the pool.
LEMMA CleanStep ==
  ASSUME IInv, CleanFactory
  PROVE  IInv'
<1>1. /\ service' = service /\ pool' = {} /\ instance' = FALSE /\ registered' = 0
      /\ context' = [c \in Contexts |-> IF c \in pool THEN None ELSE context[c]]
      /\ Allocated = pool /\ context \in [Contexts -> Context \cup {None}]
      /\ service \in [Services -> Service]
  BY DEF CleanFactory, IInv, TypeOK, Reclaimable
<1>2. Allocated' = {}
  BY <1>1 DEF Allocated
<1>3. \A s \in Services : service[s].stage \notin WithContext
  BY DEF CleanFactory, Running, WithContext, Constructing
<1>4. TypeOK'
  BY <1>1 DEF TypeOK
<1>5. Reclaimable' /\ ReleasedWithService'
  BY <1>1, <1>2 DEF Reclaimable, ReleasedWithService
<1>6. AbortNeedsNullSEVMGR' /\ \A s \in Services : Handed(s)'
  BY <1>1 DEF IInv, AbortNeedsNullSEVMGR, Handed, At
<1> QED
  BY <1>1, <1>3, <1>4, <1>5, <1>6 DEF IInv

--------------------------------------------------------------------------------

\* The strengthened invariant: every constructor step, throw, destruction and clean of
\* the factories keeps what each service in use has put into a context of its own.
THEOREM Inductive == Spec => []IInv
<1>1. ASSUME IInv, Next
      PROVE  IInv'
  <2>1. CASE CleanFactory
    BY <1>1, <2>1, CleanStep
  <2>2. ASSUME NEW s \in Services,
               \/ Construct(s) \/ InitStdAirService(s) \/ InitServiceContext(s)
               \/ AddStdAirService(s) \/ AddSEVMGRService(s)
               \/ InitSIMFQTService(s) \/ InitAIRTSPService(s) \/ InitAIRINVService(s)
               \/ ConstructorThrows(s) \/ Destroy(s)
        PROVE  IInv'
    <3>1. service \in [Services -> Service] /\ context \in [Contexts -> Context \cup {None}]
      BY <1>1 DEF IInv, TypeOK
    <3>2. Handed(s) /\ (service[s].stage \in WithContext => Built(s))
      BY <1>1 DEF IInv
    <3>3. CASE Construct(s) \/ InitStdAirService(s) \/ (ConstructorThrows(s) /\ At(s, "initStdAir"))
      BY <1>1, <3>1, <3>2, <3>3, BareSteps, BareMove
    <3>4. CASE InitServiceContext(s)
      BY <1>1, <3>4, NewContextStep
    <3>5. CASE AddStdAirService(s) \/ AddSEVMGRService(s)
               \/ InitSIMFQTService(s) \/ InitAIRTSPService(s) \/ InitAIRINVService(s)
      <4>1. service[s].stage \in WithContext
        BY <3>5 DEF WithContext, AddStdAirService, AddSEVMGRService, InitSIMFQTService,
                    InitAIRTSPService, InitAIRINVService, At
      <4>2. QED
        BY <1>1, <3>1, <3>2, <3>5, <4>1, BuildSteps, ContextMove
    <3>6. CASE (ConstructorThrows(s) /\ ~At(s, "initStdAir")) \/ Destroy(s)
      <4>1. service[s].stage \in WithContext
        BY <3>6 DEF WithContext, ConstructorThrows, Destroy, At
      <4>2. QED
        BY <1>1, <3>1, <3>2, <3>6, <4>1, EndSteps, ContextMove
    <3>7. QED
      BY <2>2, <3>3, <3>4, <3>5, <3>6
  <2>3. QED
    BY <1>1, <2>1, <2>2 DEF Next
<1>2. ASSUME IInv, UNCHANGED vars
      PROVE  IInv'
  BY <1>2 DEF vars, IInv, TypeOK, Reclaimable, Allocated, ReleasedWithService,
     AbortNeedsNullSEVMGR, At, Handed, Built, Ctx, StdAirOf
<1> QED
  BY InitIInv, <1>1, <1>2, PTL DEF Spec

\* The state keeps its types, however often services are created and destroyed.
THEOREM TypeCorrect == Spec => []TypeOK
<1>1. IInv => TypeOK
  BY DEF IInv
<1> QED
  BY <1>1, Inductive, PTL

\* A service that came out of its constructor has its own context with nothing missing
\* in it, one StdAir for all its parts, and the event queue of the embedding program
\* exactly if there is one.
THEOREM Wired == Spec => []WiredUp
<1>1. ASSUME IInv
      PROVE  WiredUp
  <2>1. SUFFICES ASSUME NEW s \in Services, At(s, "live")
                 PROVE  /\ service[s].ctx \in pool
                        /\ {Ctx(s).stdair, Ctx(s).simfqt, Ctx(s).airtsp, Ctx(s).airinv}
                             = {StdAirOf(s)}
                        /\ Ctx(s).ownStdAir = service[s].own
                        /\ Ctx(s).queue = StdAirOf(s)
                        /\ \A r \in Services \ {s} :
                             service[r].stage \in Alive => service[r].ctx # service[s].ctx
    BY DEF WiredUp
  <2>2. Built(s) /\ service[s].stage = "live" /\ service[s].ctx \in Contexts
    BY <1>1, <2>1 DEF IInv, At, WithContext, Built, Allocated
  <2>3. ASSUME NEW r \in Services \ {s}, service[r].stage \in Alive
        PROVE  service[r].ctx # service[s].ctx
    <3>1. CASE service[r].stage \in WithContext
      BY <1>1, <2>2, <3>1 DEF IInv, WithContext
    <3>2. CASE service[r].stage \notin WithContext
      <4>1. service[r].stage \in {"initStdAir", "initContext"}
        BY <2>3, <3>2 DEF Alive, Constructing, WithContext
      <4>2. service[r].ctx = None
        BY <1>1, <4>1 DEF IInv, Handed
      <4>3. QED
        BY <2>2, <4>2
    <3>3. QED
      BY <3>1, <3>2
  <2>4. QED
    BY <2>2, <2>3 DEF Built
<1> QED
  BY <1>1, Inductive, PTL

\* What a context still refers to belongs to a service in use or to a constructor that
\* threw: a destructor leaves nothing behind.
THEOREM Released == Spec => []ReleasedWithService
<1>1. IInv => ReleasedWithService
  BY DEF IInv
<1> QED
  BY <1>1, Inductive, PTL

\* Every context is in the pool of the one registered factory, so that cleanFactory
\* reclaims it.
THEOREM AllReclaimable == Spec => []Reclaimable
<1>1. IInv => Reclaimable
  BY DEF IInv
<1> QED
  BY <1>1, Inductive, PTL

\* A constructor aborts only if it was handed a null SEvMgr pointer.
THEOREM AbortsOnNull == Spec => []AbortNeedsNullSEVMGR
<1>1. IInv => AbortNeedsNullSEVMGR
  BY DEF IInv
<1> QED
  BY <1>1, Inductive, PTL

--------------------------------------------------------------------------------
(* ServiceUse: the operations of live services, and early cleans *)

\* A service that nobody orphaned holds its context: as its constructor left it, or
\* emptied by an orphan that had the same memory.
Holds(s) ==
  /\ service[s].ctx \in pool \cap Allocated
  /\ \/ Built(s)
     \/ At(s, "live") /\ Haunted(s) /\ References(Ctx(s)) = {None}

\* No two of them hold the same.
HoldsAlone(s) ==
  \A r \in Services \ {s} :
    r \notin orphans /\ service[r].stage \in WithContext => service[r].ctx # service[s].ctx

\* The properties with what each needs to be inductive.
UseIInv ==
  /\ service \in [Services -> Service]
  /\ context \in [Contexts -> Context \cup {None}]
  /\ orphans \subseteq Services
  /\ posted \in [Pointers -> SUBSET Services]
  /\ FaultNeedsOrphan /\ EventsGoHome
  /\ \A q \in Pointers : \A s \in posted[q] : ~At(s, "unborn")
  /\ \A s \in orphans : service[s].stage \in {"live", "gone"} /\ service[s].ctx \in Contexts
  /\ \A s \in Services :
       /\ Handed(s)
       /\ s \notin orphans /\ service[s].stage \in WithContext => Holds(s) /\ HoldsAlone(s)

--------------------------------------------------------------------------------
(* One service moves, the others hold what they held *)

\* Before any service nobody is an orphan and no event is posted.
LEMMA UseInitIInv == UseInit => UseIInv
<1> SUFFICES ASSUME UseInit PROVE UseIInv
  OBVIOUS
<1>1. IInv
  BY InitIInv DEF UseInit
<1>2. \A s \in Services : service[s].stage \notin WithContext
  BY DEF UseInit, Init, Unborn, WithContext
<1>3. FaultNeedsOrphan /\ EventsGoHome
  BY DEF UseInit, FaultNeedsOrphan, EventsGoHome
<1> QED
  BY <1>1, <1>2, <1>3 DEF UseIInv, IInv, TypeOK, UseInit

\* A service keeps its hold when neither it nor its context changes.
LEMMA StillHolds ==
  ASSUME UseIInv, NEW r \in Services, r \notin orphans, service[r].stage \in WithContext,
         service'[r] = service[r],
         context'[service[r].ctx] = context[service[r].ctx],
         pool \subseteq pool', orphans' = orphans,
         \A o \in orphans : service'[o].ctx = service[o].ctx
  PROVE  Holds(r)'
<1>1. Holds(r)
  BY DEF UseIInv
<1>2. Ctx(r)' = Ctx(r) /\ StdAirOf(r)' = StdAirOf(r) /\ Haunted(r)' = Haunted(r)
  BY DEF Ctx, StdAirOf, Haunted
<1>3. service'[r].ctx \in pool' \cap Allocated'
  BY <1>1 DEF Holds, Allocated
<1>4. Built(r) => Built(r)'
  BY <1>2, <1>3 DEF Built
<1> QED
  BY <1>1, <1>2, <1>3, <1>4 DEF Holds, At

\* What is known when one service has moved, whatever it did to its context: the rest
\* of the invariant speaks of that service alone.
LEMMA OneMoves ==
  ASSUME UseIInv, NEW s \in Services, NEW v \in Service,
         UNCHANGED <<orphans, posted>>, FaultNeedsOrphan',
         service' = [service EXCEPT ![s] = v],
         context' \in [Contexts -> Context \cup {None}],
         v.own = service[s].own \/ At(s, "unborn"),
         v.stage # "unborn",
         s \in orphans => v.stage \in {"live", "gone"} /\ v.ctx = service[s].ctx,
         Handed(s)',
         s \notin orphans /\ v.stage \in WithContext => Holds(s)' /\ HoldsAlone(s)',
         \A r \in Services \ {s} :
           r \notin orphans /\ service[r].stage \in WithContext => Holds(r)' /\ HoldsAlone(r)'
  PROVE  UseIInv'
<1>1. /\ service' \in [Services -> Service] /\ service'[s] = v
      /\ \A r \in Services \ {s} : service'[r] = service[r]
  BY DEF UseIInv
<1>2. ASSUME NEW q \in Pointers, NEW r \in posted[q]
      PROVE  /\ q = StdAirOf(r)' \/ r \in orphans
             /\ ~At(r, "unborn")'
  <2>1. r \in Services /\ ~At(r, "unborn") /\ (q = StdAirOf(r) \/ r \in orphans)
    BY <1>2 DEF UseIInv, EventsGoHome
  <2>2. StdAirOf(r)' = StdAirOf(r) /\ ~At(r, "unborn")'
    BY <1>1, <2>1 DEF StdAirOf, At
  <2>3. QED
    BY <2>1, <2>2
<1>3. EventsGoHome' /\ \A q \in Pointers : \A r \in posted'[q] : ~At(r, "unborn")'
  BY <1>1, <1>2 DEF EventsGoHome
<1>4. \A o \in orphans' : service'[o].stage \in {"live", "gone"} /\ service'[o].ctx \in Contexts
  BY <1>1 DEF UseIInv
<1>5. \A r \in Services : Handed(r)'
  BY <1>1 DEF UseIInv, Handed, At
<1>6. \A r \in Services :
        r \notin orphans' /\ service'[r].stage \in WithContext => Holds(r)' /\ HoldsAlone(r)'
  BY <1>1
<1> QED
  BY <1>1, <1>3, <1>4, <1>5, <1>6 DEF UseIInv

\* A step of a service's life meets nothing that is missing.
LEMMA Unharmed == Life => FaultNeedsOrphan'
  BY DEF Life, FaultNeedsOrphan

--------------------------------------------------------------------------------
(* Constructors *)

\* Before it has a context, a service moves without touching what others hold.
LEMMA UseBareMove ==
  ASSUME UseIInv, Life, NEW s \in Services, BareMoves(s),
         service[s].stage # "unborn" => service'[s].own = service[s].own
  PROVE  UseIInv'
<1>1. PICK v \in Service :
        /\ service' = [service EXCEPT ![s] = v]
        /\ v.stage \in {"initStdAir", "initContext", "failed"} /\ v.ctx = None
        /\ v.stage = "initStdAir" => v.own
        /\ v.own => v.handed = None
        /\ v.own /\ v.stage = "initContext" => v.local = s
  BY DEF BareMoves
<1>2. /\ service[s].stage \in {"unborn", "initStdAir", "initContext"}
      /\ UNCHANGED <<context, pool>> /\ UNCHANGED orphans
      /\ service'[s] = v /\ \A r \in Services \ {s} : service'[r] = service[r]
      /\ s \notin orphans
  BY <1>1 DEF BareMoves, UseIInv, Life
<1>3. Handed(s)'
  BY <1>1, <1>2 DEF Handed, At, Constructing
<1>4. v.stage \notin WithContext /\ v.stage # "unborn"
  BY <1>1 DEF WithContext
<1>5. ASSUME NEW r \in Services \ {s}, r \notin orphans, service[r].stage \in WithContext
      PROVE  Holds(r)' /\ HoldsAlone(r)'
  <2>1. Holds(r)'
    <3>1. \A o \in orphans : service'[o].ctx = service[o].ctx
      BY <1>2 DEF UseIInv
    <3>2. QED
      BY <1>2, <1>5, <3>1, StillHolds
  <2>2. HoldsAlone(r)'
    BY <1>2, <1>4, <1>5 DEF UseIInv, HoldsAlone
  <2>3. QED
    BY <2>1, <2>2
<1> QED
  BY <1>1, <1>2, <1>3, <1>4, <1>5, Unharmed, OneMoves DEF UseIInv, At, Life

\* A new context is held by no other service, though an orphan may point to it.
LEMMA UseNewContext ==
  ASSUME UseIInv, Life, NEW s \in Services, InitServiceContext(s)
  PROVE  UseIInv'
<1>1. PICK c \in Contexts \ Allocated, junk \in BOOLEAN :
        /\ context' = [context EXCEPT ![c] = NewContext(junk)]
        /\ pool' = pool \cup {c}
        /\ service' = [service EXCEPT ![s].stage = "addStdAir", ![s].ctx = c]
  BY DEF InitServiceContext
<1> DEFINE x == NewContext(junk)
           v == [service[s] EXCEPT !.stage = "addStdAir", !.ctx = c]
<1>2. /\ x \in Context /\ References(x) = {None} /\ x # None
      /\ x.ownSEVMGR = TRUE /\ x.sevmgr = None
  <2>1. x \in Context
    BY DEF NewContext, Context, Pointers
  <2>2. References(x) = {None} /\ x.ownSEVMGR = TRUE /\ x.sevmgr = None
    BY DEF NewContext, References
  <2>3. QED
    BY <2>1, <2>2, ContextAssumption
<1>3. /\ service[s].stage = "initContext" /\ service[s] \in Service /\ Handed(s)
      /\ s \notin orphans /\ orphans' = orphans
  BY DEF InitServiceContext, At, UseIInv, Life
<1>4. /\ v \in Service /\ v.stage = "addStdAir" /\ v.ctx = c /\ v.own = service[s].own
      /\ v.handed = service[s].handed /\ v.local = service[s].local
  BY <1>3 DEF Service, Stages, Alive, Constructing
<1>5. service' = [service EXCEPT ![s] = v] /\ service'[s] = v
  BY <1>1, <1>3 DEF UseIInv
<1> HIDE DEF x, v
<1>6. /\ context' \in [Contexts -> Context \cup {None}] /\ context'[c] = x
      /\ \A d \in Contexts \ {c} : context'[d] = context[d]
  BY <1>1, <1>2 DEF UseIInv, x
<1>7. Handed(s)'
  BY <1>3, <1>4, <1>5 DEF Handed, At, Constructing
<1>8. ASSUME NEW r \in Services, r \notin orphans, service[r].stage \in WithContext
      PROVE  service[r].ctx \in Contexts \ {c}
  BY <1>8 DEF UseIInv, Holds, Allocated
<1>9. Holds(s)'
  <2>1. service'[s].ctx \in pool' \cap Allocated' /\ Ctx(s)' = x
    BY <1>1, <1>2, <1>4, <1>5, <1>6 DEF Allocated, Ctx
  <2>2. Built(s)'
    BY <1>2, <1>4, <1>5, <2>1 DEF Built
  <2>3. QED
    BY <2>1, <2>2 DEF Holds
<1>10. HoldsAlone(s)'
  BY <1>3, <1>4, <1>5, <1>8 DEF HoldsAlone
<1>11. ASSUME NEW r \in Services \ {s}, r \notin orphans, service[r].stage \in WithContext
       PROVE  Holds(r)' /\ HoldsAlone(r)'
  <2>1. service'[r] = service[r] /\ service[r].ctx \in Contexts \ {c}
    BY <1>5, <1>8, <1>11
  <2>2. \A o \in orphans : service'[o].ctx = service[o].ctx
    BY <1>3, <1>5 DEF UseIInv
  <2>3. Holds(r)'
    BY <1>1, <1>3, <1>6, <1>11, <2>1, <2>2, StillHolds
  <2>4. HoldsAlone(r)'
    <3>1. SUFFICES ASSUME NEW q \in Services \ {r}, q \notin orphans,
                          service'[q].stage \in WithContext
                   PROVE  service'[q].ctx # service'[r].ctx
      BY <1>3 DEF HoldsAlone
    <3>2. CASE q = s
      BY <1>4, <1>5, <2>1, <3>2
    <3>3. CASE q # s
      BY <1>5, <1>11, <2>1, <3>1, <3>3 DEF UseIInv, HoldsAlone
    <3>4. QED
      BY <3>2, <3>3
  <2>5. QED
    BY <2>3, <2>4
<1> QED
  BY <1>3, <1>4, <1>5, <1>6, <1>7, <1>9, <1>10, <1>11, Unharmed, OneMoves DEF Life

\* A constructor past its context works in that alone.
LEMMA UseContextMove ==
  ASSUME UseIInv, Life, NEW s \in Services, s \notin orphans, ContextMoves(s)
  PROVE  UseIInv'
<1>1. PICK v \in Service, x \in Context :
        /\ service' = [service EXCEPT ![s] = v]
        /\ context' = [context EXCEPT ![service[s].ctx] = x]
        /\ v.stage \in WithContext \cup {"failed", "aborted", "gone"}
        /\ v.own = service[s].own /\ v.handed = service[s].handed /\ v.ctx = service[s].ctx
        /\ v.stage = "addSEVMGR" => ~v.own
        /\ v.own /\ v.stage \in Constructing => v.local = s
        /\ v.stage = "aborted" => ~v.own /\ v.handed = None
        /\ References(x) \subseteq {None, StdAirOf(s)}
        /\ v.stage = "gone" => References(x) = {None}
        /\ v.stage \in WithContext => Built(s)'
  BY DEF ContextMoves
<1>2. /\ service[s].stage \in WithContext /\ UNCHANGED <<pool, orphans>>
      /\ service'[s] = v /\ \A r \in Services \ {s} : service'[r] = service[r]
      /\ Holds(s) /\ HoldsAlone(s) /\ Handed(s) /\ service[s].ctx \in Contexts
  BY <1>1 DEF ContextMoves, UseIInv, Life, Holds, Allocated
<1>3. /\ context' \in [Contexts -> Context \cup {None}]
      /\ context'[service[s].ctx] = x /\ x # None
      /\ \A c \in Contexts \ {service[s].ctx} : context'[c] = context[c]
  BY <1>1, <1>2, ContextAssumption DEF UseIInv
<1>4. v.stage \notin {"unborn", "initStdAir", "initContext"}
  BY <1>1 DEF WithContext
<1>5. Handed(s)'
  <2>1. v.own => v.handed = None
    BY <1>1, <1>2 DEF Handed
  <2>2. QED
    BY <1>1, <1>2, <1>4, <2>1 DEF Handed, At
<1>6. \A r \in Services \ {s} :
        r \notin orphans /\ service[r].stage \in WithContext
          => /\ service[r].ctx \in Contexts \ {service[s].ctx}
             /\ HoldsAlone(r)
  BY <1>2 DEF UseIInv, Holds, HoldsAlone, Allocated
<1>7. v.stage \in WithContext => Holds(s)' /\ HoldsAlone(s)'
  <2>1. service'[s].ctx \in pool' \cap Allocated'
    BY <1>1, <1>2, <1>3 DEF Holds, Allocated
  <2>2. HoldsAlone(s)'
    BY <1>1, <1>2, <1>6 DEF HoldsAlone
  <2>3. QED
    BY <1>1, <2>1, <2>2 DEF Holds
<1>8. ASSUME NEW r \in Services \ {s}, r \notin orphans, service[r].stage \in WithContext
      PROVE  Holds(r)' /\ HoldsAlone(r)'
  <2>1. \A o \in orphans : service'[o].ctx = service[o].ctx
    BY <1>2 DEF UseIInv
  <2>2. Holds(r)'
    BY <1>2, <1>3, <1>6, <1>8, <2>1, StillHolds
  <2>3. HoldsAlone(r)'
    <3>1. \A q \in Services : service'[q].ctx = service[q].ctx
      BY <1>1, <1>2
    <3>2. \A q \in Services \ {r} :
            q \notin orphans /\ service'[q].stage \in WithContext
              => service[q].ctx # service[r].ctx
      BY <1>2, <1>6, <1>8 DEF HoldsAlone
    <3>3. QED
      BY <1>2, <3>1, <3>2 DEF HoldsAlone
  <2>4. QED
    BY <2>2, <2>3
<1> QED
  BY <1>1, <1>2, <1>3, <1>4, <1>5, <1>7, <1>8, Unharmed, OneMoves DEF Life

--------------------------------------------------------------------------------
(* Destructors, cleans and calls *)

\* What a live service has, orphan or not.
LEMMA LiveHasPlace ==
  ASSUME UseIInv, NEW s \in Services, At(s, "live")
  PROVE  /\ service[s].ctx \in Contexts
         /\ Ctx(s) \in Context \cup {None}
         /\ s \notin orphans => Holds(s) /\ HoldsAlone(s) /\ Ctx(s) \in Context
<1>1. service[s].stage \in WithContext
  BY DEF At, WithContext
<1>2. s \notin orphans => Holds(s) /\ HoldsAlone(s)
  BY <1>1 DEF UseIInv
<1>3. service[s].ctx \in Contexts
  BY <1>2 DEF UseIInv, Holds, Allocated
<1>4. Ctx(s) \in Context \cup {None} /\ (s \notin orphans => Ctx(s) # None)
  BY <1>2, <1>3 DEF UseIInv, Holds, Allocated, Ctx
<1> QED
  BY <1>2, <1>3, <1>4

\* A destructor empties the context it finds, its own or that of a service that was
\* given the same memory.
LEMMA UseDestroy ==
  ASSUME UseIInv, Life, NEW s \in Services, Destroy(s), Ctx(s) # None
  PROVE  UseIInv'
<1> DEFINE d == service[s].ctx
           v == [service[s] EXCEPT !.stage = "gone"]
           x == Reset(Ctx(s))
<1>1. /\ At(s, "live") /\ service[s].stage = "live" /\ Running
      /\ UNCHANGED <<pool, orphans, posted>>
  BY DEF Destroy, At, FactoryUnchanged, Life
<1>2. /\ d \in Contexts /\ Ctx(s) \in Context
      /\ s \notin orphans => Holds(s) /\ HoldsAlone(s)
  BY <1>1, LiveHasPlace
<1>3. /\ v \in Service /\ v.stage = "gone" /\ v.own = service[s].own
      /\ v.handed = service[s].handed /\ v.ctx = d
  BY DEF UseIInv, Service, Stages
<1>4. /\ service' = [service EXCEPT ![s] = v] /\ service'[s] = v
      /\ \A r \in Services \ {s} : service'[r] = service[r]
  BY DEF Destroy, GoTo, UseIInv
<1>5. x \in Context /\ References(x) = {None} /\ x # None
  <2>1. x \in Context /\ References(x) = {None}
    BY <1>2 DEF Reset, Context, Pointers, References
  <2>2. QED
    BY <2>1, ContextAssumption
<1>6. context' = [context EXCEPT ![d] = x]
  BY DEF Destroy, Store
<1> HIDE DEF v, x
<1>7. /\ context' \in [Contexts -> Context \cup {None}] /\ context'[d] = x
      /\ \A c \in Contexts \ {d} : context'[c] = context[c]
  BY <1>2, <1>5, <1>6 DEF UseIInv
<1>8. Handed(s)'
  <2>1. v.own => v.handed = None
    BY <1>3 DEF UseIInv, Handed
  <2>2. QED
    BY <1>3, <1>4, <2>1 DEF Handed, At, Constructing
<1>9. ASSUME NEW r \in Services \ {s}, r \notin orphans, service[r].stage \in WithContext
      PROVE  Holds(r)' /\ HoldsAlone(r)'
  <2>1. /\ service[r].stage = "live" /\ service'[r] = service[r]
        /\ Holds(r) /\ HoldsAlone(r)
    BY <1>1, <1>4, <1>9 DEF UseIInv, Running, WithContext, Constructing
  <2>2. \A q \in Services : service'[q].ctx = service[q].ctx
    BY <1>3, <1>4
  <2>3. Holds(r)'
    <3>1. CASE service[r].ctx = d
      <4>1. s \in orphans
        BY <1>1, <1>9, <2>1, <3>1 DEF HoldsAlone, WithContext
      <4>2. Haunted(r)' /\ At(r, "live")'
        BY <1>1, <2>1, <2>2, <3>1, <4>1 DEF Haunted, At
      <4>3. Ctx(r)' = x /\ service'[r].ctx \in pool' \cap Allocated'
        BY <1>1, <1>2, <1>5, <1>7, <2>1, <3>1 DEF Ctx, Holds, Allocated
      <4>4. QED
        BY <1>5, <4>2, <4>3 DEF Holds
    <3>2. CASE service[r].ctx # d
      <4>1. service[r].ctx \in Contexts
        BY <2>1 DEF Holds, Allocated
      <4>2. \A o \in orphans : service'[o].ctx = service[o].ctx
        BY <2>2 DEF UseIInv
      <4>3. QED
        BY <1>1, <1>7, <1>9, <2>1, <3>2, <4>1, <4>2, StillHolds
    <3>3. QED
      BY <3>1, <3>2
  <2>4. HoldsAlone(r)'
    <3>1. \A q \in Services \ {r} :
            q \notin orphans /\ service'[q].stage \in WithContext
              => service[q].ctx # service[r].ctx
      BY <1>3, <1>4, <2>1 DEF HoldsAlone, WithContext
    <3>2. QED
      BY <1>1, <2>2, <3>1 DEF HoldsAlone
  <2>5. QED
    BY <2>3, <2>4
<1>10. v.stage \notin WithContext
  BY <1>3 DEF WithContext
<1> QED
  BY <1>1, <1>3, <1>4, <1>7, <1>8, <1>9, <1>10, Unharmed, OneMoves

\* An orphan whose memory nobody was given is destroyed, and is the victim.
LEMMA UseDestroyOrphan ==
  ASSUME UseIInv, NEW s \in Services, DestroyOrphan(s)
  PROVE  UseIInv'
<1> DEFINE v == [service[s] EXCEPT !.stage = "gone"]
<1>1. /\ At(s, "live") /\ Ctx(s) = None /\ victim' = s
      /\ UNCHANGED <<context, pool, orphans, posted>>
  BY DEF DestroyOrphan, FactoryUnchanged
<1>2. s \in orphans
  BY <1>1, LiveHasPlace, ContextAssumption
<1>3. /\ v \in Service /\ v.stage = "gone" /\ v.own = service[s].own
      /\ v.handed = service[s].handed /\ v.ctx = service[s].ctx
  BY DEF UseIInv, Service, Stages
<1>4. /\ service' = [service EXCEPT ![s] = v] /\ service'[s] = v
      /\ \A r \in Services \ {s} : service'[r] = service[r]
  BY DEF DestroyOrphan, GoTo, UseIInv
<1> HIDE DEF v
<1>5. FaultNeedsOrphan'
  BY <1>1, <1>2 DEF FaultNeedsOrphan, Haunted
<1>6. Handed(s)'
  <2>1. v.own => v.handed = None
    BY <1>3 DEF UseIInv, Handed
  <2>2. QED
    BY <1>3, <1>4, <2>1 DEF Handed, At, Constructing
<1>7. ASSUME NEW r \in Services \ {s}, r \notin orphans, service[r].stage \in WithContext
      PROVE  Holds(r)' /\ HoldsAlone(r)'
  <2>1. \A q \in Services : service'[q].ctx = service[q].ctx
    BY <1>3, <1>4
  <2>2. Holds(r)'
    <3>1. \A o \in orphans : service'[o].ctx = service[o].ctx
      BY <2>1 DEF UseIInv
    <3>2. QED
      BY <1>1, <1>4, <1>7, <3>1, StillHolds
  <2>3. HoldsAlone(r)'
    <3>1. HoldsAlone(r)
      BY <1>7 DEF UseIInv
    <3>2. QED
      BY <1>1, <1>2, <1>4, <1>7, <2>1, <3>1 DEF HoldsAlone
  <2>4. QED
    BY <2>2, <2>3
<1>8. context' \in [Contexts -> Context \cup {None}]
  BY <1>1 DEF UseIInv
<1> QED
  BY <1>1, <1>2, <1>3, <1>4, <1>5, <1>6, <1>7, <1>8, OneMoves

\* An early clean orphans every service that holds a context.
LEMMA UseClean ==
  ASSUME UseIInv, CleanEarly
  PROVE  UseIInv'
<1>1. /\ UNCHANGED <<service, fault, victim, posted>> /\ fault = "none" /\ Running
      /\ orphans' = orphans \cup {s \in Services : At(s, "live")}
      /\ context' = [c \in Contexts |-> IF c \in pool THEN None ELSE context[c]]
  BY DEF CleanEarly
<1>2. \A s \in Services : service'[s].stage \in WithContext => s \in orphans'
  BY <1>1 DEF Running, WithContext, Constructing, At
<1>3. \A s \in orphans' : service'[s].stage \in {"live", "gone"} /\ service'[s].ctx \in Contexts
  <2>1. \A s \in Services : At(s, "live") => service[s].ctx \in Contexts
    BY LiveHasPlace
  <2>2. QED
    BY <1>1, <2>1 DEF UseIInv, At
<1>4. context' \in [Contexts -> Context \cup {None}]
  BY <1>1 DEF UseIInv
<1>5. FaultNeedsOrphan'
  BY <1>1 DEF FaultNeedsOrphan
<1>6. EventsGoHome'
  BY <1>1 DEF UseIInv, EventsGoHome, StdAirOf
<1>7. /\ \A s \in Services : Handed(s)'
      /\ \A q \in Pointers : \A s \in posted'[q] : ~At(s, "unborn")'
  BY <1>1 DEF UseIInv, Handed, At
<1> QED
  BY <1>1, <1>2, <1>3, <1>4, <1>5, <1>6, <1>7 DEF UseIInv

\* A live service nobody orphaned has everything, unless an orphan had its memory; if
\* that emptied it, it has nothing.
LEMMA WholeOrHaunted ==
  ASSUME UseIInv, NEW s \in Services, At(s, "live")
  PROVE  \/ /\ Ctx(s) # None
            /\ Ctx(s).stdair = StdAirOf(s) /\ Ctx(s).simfqt = StdAirOf(s)
            /\ Ctx(s).airtsp = StdAirOf(s) /\ Ctx(s).airinv = StdAirOf(s)
            /\ Ctx(s).queue = StdAirOf(s) /\ StdAirOf(s) # None
         \/ s \in orphans
         \/ Haunted(s) /\ Ctx(s).airinv = None
<1>1. StdAirOf(s) # None
  BY NamesAssumption DEF StdAirOf
<1>2. s \notin orphans => Holds(s) /\ Ctx(s) # None
  BY LiveHasPlace, ContextAssumption
<1>3. Built(s) => /\ Ctx(s).stdair = StdAirOf(s) /\ Ctx(s).simfqt = StdAirOf(s)
                  /\ Ctx(s).airtsp = StdAirOf(s) /\ Ctx(s).airinv = StdAirOf(s)
                  /\ Ctx(s).queue = StdAirOf(s)
  BY DEF Built, At
<1>4. References(Ctx(s)) = {None} => Ctx(s).airinv = None
  BY DEF References
<1> QED
  BY <1>1, <1>2, <1>3, <1>4 DEF Holds

\* A call changes at most what is recorded of faults and events.
LEMMA UseCall ==
  ASSUME UseIInv, NEW s \in Services, Operation(s)
  PROVE  UseIInv'
<1>1. PICK parts \in SUBSET {"stdair", "simfqt", "airtsp", "airinv"} :
        /\ Asks(s, parts)
        /\ \/ posted' = posted
           \/ /\ fault' = "none" /\ "airinv" \in parts
              /\ posted' = [posted EXCEPT ![Ctx(s).queue] = @ \cup {s}]
  <2>1. ASSUME NEW parts \in SUBSET {"stdair", "simfqt", "airtsp", "airinv"},
               Quietly(s, parts)
        PROVE  \E p \in SUBSET {"stdair", "simfqt", "airtsp", "airinv"} :
                 Asks(s, p) /\ posted' = posted
    BY <2>1 DEF Quietly
  <2>2. CASE InitSnapshotAndRMEvents(s)
    BY <2>2, {"airinv"} \in SUBSET {"stdair", "simfqt", "airtsp", "airinv"}
       DEF InitSnapshotAndRMEvents
  <2>3. CASE ~InitSnapshotAndRMEvents(s)
    BY <2>1, <2>3 DEF Operation, LoadData, BuildSample, DisplayTree, DisplayFlights,
       SearchPaths, QuoteFares, Book, PlayEvent
  <2>4. QED
    BY <2>2, <2>3
<1>2. /\ Running /\ At(s, "live") /\ fault = "none" /\ UNCHANGED <<vars, orphans>>
      /\ fault' = IF Ctx(s) = None THEN "freed"
                  ELSE IF \E p \in parts : Ctx(s)[p] = None THEN "null" ELSE "none"
      /\ victim' = IF fault' = "none" THEN victim ELSE s
  BY <1>1 DEF Asks
<1>3. UNCHANGED <<service, context, pool, orphans>>
  BY <1>2 DEF vars
<1>4. FaultNeedsOrphan'
  <2>1. CASE fault' = "none"
    BY <2>1 DEF FaultNeedsOrphan
  <2>2. CASE fault' # "none"
    <3>1. victim' = s /\ (Ctx(s) = None \/ \E p \in parts : Ctx(s)[p] = None)
      BY <1>2, <2>2
    <3>2. Haunted(s)
      BY <1>2, <3>1, WholeOrHaunted DEF Haunted
    <3>3. QED
      BY <1>3, <3>1, <3>2 DEF FaultNeedsOrphan, Haunted
  <2>3. QED
    BY <2>1, <2>2
<1>5. /\ posted' \in [Pointers -> SUBSET Services]
      /\ \A q \in Pointers : \A r \in posted'[q] :
           r \in posted[q] \/ (r = s /\ (q = StdAirOf(s) \/ s \in orphans))
  <2>1. CASE posted' = posted
    BY <2>1 DEF UseIInv
  <2>2. CASE /\ fault' = "none" /\ "airinv" \in parts
             /\ posted' = [posted EXCEPT ![Ctx(s).queue] = @ \cup {s}]
    <3>1. Ctx(s).queue = StdAirOf(s) \/ s \in orphans
      BY <1>2, <2>2, WholeOrHaunted
    <3>2. posted' = [q \in Pointers |-> IF q = Ctx(s).queue THEN posted[q] \cup {s} ELSE posted[q]]
      BY <2>2 DEF UseIInv
    <3>3. QED
      BY <3>1, <3>2 DEF UseIInv
  <2>3. QED
    BY <1>1, <2>1, <2>2
<1>6. EventsGoHome' /\ \A q \in Pointers : \A r \in posted'[q] : ~At(r, "unborn")'
  <2>1. \A r \in Services : StdAirOf(r)' = StdAirOf(r) /\ At(r, "unborn")' = At(r, "unborn")
    BY <1>3 DEF StdAirOf, At
  <2>2. ASSUME NEW q \in Pointers, NEW r \in posted'[q]
        PROVE  (q = StdAirOf(r) \/ r \in orphans) /\ ~At(r, "unborn")
    BY <1>2, <1>5, <2>2 DEF UseIInv, EventsGoHome, At
  <2>3. QED
    BY <1>3, <1>5, <2>1, <2>2 DEF EventsGoHome
<1>7. /\ \A r \in orphans' : service'[r].stage \in {"live", "gone"} /\ service'[r].ctx \in Contexts
      /\ \A r \in Services : Handed(r)'
  BY <1>3 DEF UseIInv, Handed, At
<1>8. ASSUME NEW r \in Services, r \notin orphans', service'[r].stage \in WithContext
      PROVE  Holds(r)' /\ HoldsAlone(r)'
  <2>1. Holds(r) /\ HoldsAlone(r)
    BY <1>3, <1>8 DEF UseIInv
  <2>2. Holds(r)'
    BY <1>3, <1>8, StillHolds
  <2>3. HoldsAlone(r)'
    BY <1>3, <2>1 DEF HoldsAlone
  <2>4. QED
    BY <2>2, <2>3
<1> QED
  BY <1>3, <1>4, <1>5, <1>6, <1>7, <1>8 DEF UseIInv

--------------------------------------------------------------------------------

\* The strengthened invariant, over any number of early cleans: services that were not
\* orphaned hold contexts of their own, whole or emptied by an orphan.
THEOREM UseInductive == UseSpec => []UseIInv
<1>1. ASSUME UseIInv, UseNext
      PROVE  UseIInv'
  <2>1. CASE CleanEarly
    BY <1>1, <2>1, UseClean
  <2>2. ASSUME NEW s \in Services, Life, ServiceStep(s)
        PROVE  UseIInv'
    <3>1. /\ service \in [Services -> Service] /\ context \in [Contexts -> Context \cup {None}]
          /\ Handed(s)
      BY <1>1 DEF UseIInv
    <3>2. CASE Construct(s) \/ InitStdAirService(s) \/ (ConstructorThrows(s) /\ At(s, "initStdAir"))
      <4>1. BareMoves(s)
        BY <3>1, <3>2, BareSteps
      <4>2. service[s].stage # "unborn" => service'[s].own = service[s].own
        BY <3>1, <3>2 DEF Construct, InitStdAirService, ConstructorThrows, At, Service
      <4>3. QED
        BY <1>1, <2>2, <4>1, <4>2, UseBareMove
    <3>3. CASE InitServiceContext(s)
      BY <1>1, <2>2, <3>3, UseNewContext
    <3>4. ASSUME service[s].stage \in WithContext \ {"live"}
          PROVE  s \notin orphans /\ Built(s)
      <4>1. s \notin orphans
        BY <1>1, <3>4 DEF UseIInv, WithContext
      <4>2. QED
        BY <1>1, <3>4, <4>1 DEF UseIInv, Holds, At
    <3>5. CASE AddStdAirService(s) \/ AddSEVMGRService(s)
               \/ InitSIMFQTService(s) \/ InitAIRTSPService(s) \/ InitAIRINVService(s)
      <4>1. s \notin orphans /\ Built(s)
        BY <3>4, <3>5 DEF WithContext, AddStdAirService, AddSEVMGRService, InitSIMFQTService,
                          InitAIRTSPService, InitAIRINVService, At
      <4>2. QED
        BY <1>1, <2>2, <3>1, <3>5, <4>1, BuildSteps, UseContextMove
    <3>6. CASE ConstructorThrows(s) /\ ~At(s, "initStdAir")
      <4>1. s \notin orphans /\ Built(s)
        BY <3>4, <3>6 DEF WithContext, ConstructorThrows, At
      <4>2. QED
        BY <1>1, <2>2, <3>1, <3>6, <4>1, EndSteps, UseContextMove
    <3>7. CASE (At(s, "live") => Ctx(s) # None) /\ Destroy(s)
      BY <1>1, <2>2, <3>7, UseDestroy DEF Destroy
    <3>8. QED
      BY <2>2, <3>2, <3>3, <3>5, <3>6, <3>7 DEF ServiceStep
  <2>3. ASSUME NEW s \in Services, DestroyOrphan(s) \/ Operation(s)
        PROVE  UseIInv'
    BY <1>1, <2>3, UseDestroyOrphan, UseCall
  <2>4. QED
    BY <1>1, <2>1, <2>2, <2>3 DEF UseNext
<1>2. ASSUME UseIInv, UNCHANGED useVars
      PROVE  UseIInv'
  <2>1. UNCHANGED <<service, context, pool, fault, victim, orphans, posted>>
    BY <1>2 DEF useVars, vars
  <2>2. FaultNeedsOrphan' /\ EventsGoHome'
    BY <1>2, <2>1 DEF UseIInv, FaultNeedsOrphan, EventsGoHome, Haunted, StdAirOf
  <2>3. \A s \in Services : Handed(s)' = Handed(s) /\ At(s, "unborn")' = At(s, "unborn")
    BY <2>1 DEF Handed, At
  <2>4. \A s \in Services : Holds(s)' = Holds(s) /\ HoldsAlone(s)' = HoldsAlone(s)
    BY <2>1 DEF Holds, HoldsAlone, Built, Ctx, StdAirOf, Allocated, Haunted, At
  <2>5. QED
    BY <1>2, <2>1, <2>2, <2>3, <2>4 DEF UseIInv
<1> QED
  BY UseInitIInv, <1>1, <1>2, PTL DEF UseSpec

\* A call or a destructor meets a freed context or a missing service only in an orphan,
\* or in a service that was given the memory of one.
THEOREM FaultsAreOrphans == UseSpec => []FaultNeedsOrphan
<1>1. UseIInv => FaultNeedsOrphan
  BY DEF UseIInv
<1> QED
  BY <1>1, UseInductive, PTL

\* The events of a service that nobody orphaned are in its own event queue, or in that
\* of the embedding program exactly if there is one.
THEOREM EventsReachTheirQueue == UseSpec => []EventsGoHome
<1>1. UseIInv => EventsGoHome
  BY DEF UseIInv
<1> QED
  BY <1>1, UseInductive, PTL

\* An early clean leaves a live service whole whose memory no orphan had.
THEOREM BystandersUnharmed == UseSpec => []OthersUnharmed
<1>1. ASSUME UseIInv
      PROVE  OthersUnharmed
  <2>1. SUFFICES ASSUME NEW s \in Services, At(s, "live"), ~Haunted(s)
                 PROVE  /\ Ctx(s) # None
                        /\ {Ctx(s).stdair, Ctx(s).simfqt, Ctx(s).airtsp, Ctx(s).airinv}
                             = {StdAirOf(s)}
    BY DEF OthersUnharmed
  <2>2. s \notin orphans
    BY <2>1 DEF Haunted
  <2>3. QED
    BY <1>1, <2>1, <2>2, WholeOrHaunted
<1> QED
  BY <1>1, UseInductive, PTL
================================================================================
