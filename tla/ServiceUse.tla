------------------------------- MODULE ServiceUse ------------------------------
(***************************************************************************)
(* The public operations of a SIMCRS_Service over its life: each takes the *)
(* service context by its bare pointer and asks for one or more of the     *)
(* services in it, whose getters assert that they are there.               *)
(*                                                                         *)
(* FacSupervisor::cleanFactory is public and asks nothing: it may run      *)
(* while services are alive.  Their contexts are then gone, and the next   *)
(* context to be created may be given the same memory.                     *)
(***************************************************************************)
EXTENDS Lifecycle

VARIABLES
  fault,    \* "none", or the first "freed" context or "null" part that was met
  victim,   \* the service it happened to
  orphans,  \* services that were alive when their context was deleted
  posted    \* per event queue, the services whose AirInv has put its events there

useVars == <<vars, fault, victim, orphans, posted>>

UseInit ==
  /\ Init
  /\ fault = "none" /\ victim = None /\ orphans = {}
  /\ posted = [q \in Pointers |-> {}]

--------------------------------------------------------------------------------
(* Operations *)

\* A call of s that asks its context for those parts.  Whatever the part does, throw
\* included, changes nothing of what is modelled here.
Asks(s, parts) ==
  /\ Running /\ At(s, "live") /\ fault = "none"
  /\ fault' = IF Ctx(s) = None THEN "freed"
              ELSE IF \E p \in parts : Ctx(s)[p] = None THEN "null" ELSE "none"
  /\ victim' = IF fault' = "none" THEN victim ELSE s
  /\ UNCHANGED <<vars, orphans>>

Quietly(s, parts) == Asks(s, parts) /\ UNCHANGED posted

\* parseAndLoad, buildSampleBom and clonePersistentBom.
LoadData(s) == Quietly(s, {"stdair", "airtsp", "airinv", "simfqt"})

\* buildSampleTravelSolutions and buildSampleBookingRequest.
BuildSample(s) == Quietly(s, {"stdair"})

\* csvDisplay of the whole tree and of travel solutions.
DisplayTree(s) == Quietly(s, {"stdair"})

\* list, csvDisplay of one flight-date, jsonHandler.
DisplayFlights(s) == Quietly(s, {"airinv"})

SearchPaths(s) == Quietly(s, {"airtsp"})
QuoteFares(s) == Quietly(s, {"simfqt"})

\* calculateAvailability, both sales and playCancellation.
Book(s) == Quietly(s, {"airinv"})

\* AirInv puts its snapshot and revenue-management events in the queue it was given.
InitSnapshotAndRMEvents(s) ==
  /\ Asks(s, {"airinv"})
  /\ posted' = IF fault' = "none"
                 THEN [posted EXCEPT ![Ctx(s).queue] = @ \cup {s}] ELSE posted

\* takeSnapshots and optimise, as the embedding program gets to those events.
PlayEvent(s) == Quietly(s, {"airinv"})

--------------------------------------------------------------------------------
(* Life and memory *)

Life == fault = "none" /\ UNCHANGED <<fault, victim, orphans, posted>>

ServiceStep(s) ==
  \/ Construct(s) \/ InitStdAirService(s) \/ InitServiceContext(s)
  \/ AddStdAirService(s) \/ AddSEVMGRService(s)
  \/ InitSIMFQTService(s) \/ InitAIRTSPService(s) \/ InitAIRINVService(s)
  \/ ConstructorThrows(s)
  \/ (At(s, "live") => Ctx(s) # None) /\ Destroy(s)

\* finalise resets the context, wherever the pointer leads.
DestroyOrphan(s) ==
  /\ fault = "none" /\ Running /\ At(s, "live") /\ Ctx(s) = None
  /\ fault' = "freed" /\ victim' = s
  /\ GoTo(s, "gone")
  /\ UNCHANGED context /\ FactoryUnchanged /\ UNCHANGED <<orphans, posted>>

\* cleanFactory, as in Lifecycle, with services alive.
CleanEarly ==
  /\ fault = "none" /\ Running /\ registered > 0
  /\ orphans' = orphans \cup {s \in Services : At(s, "live")}
  /\ context' = [c \in Contexts |-> IF c \in pool THEN None ELSE context[c]]
  /\ pool' = {} /\ instance' = FALSE /\ registered' = 0
  /\ UNCHANGED <<service, fault, victim, posted>>

Operation(s) ==
  \/ LoadData(s) \/ BuildSample(s) \/ DisplayTree(s) \/ DisplayFlights(s)
  \/ SearchPaths(s) \/ QuoteFares(s) \/ Book(s)
  \/ InitSnapshotAndRMEvents(s) \/ PlayEvent(s)

UseNext ==
  \/ CleanEarly
  \/ \E s \in Services : (Life /\ ServiceStep(s)) \/ DestroyOrphan(s) \/ Operation(s)

UseSpec == UseInit /\ [][UseNext]_useVars

--------------------------------------------------------------------------------
(* Properties *)

\* Where a service's context was before an early clean took it.
Haunted(s) == \E o \in orphans : service[o].ctx = service[s].ctx

\* No operation and no destructor ever meets a freed context or a missing service,
\* but for a service orphaned by an early clean, or for one whose context was given
\* the memory of an orphan's, which the orphan's destructor then emptied.
FaultNeedsOrphan == fault # "none" => Haunted(victim)

\* The events of a service arrive in the event queue of the embedding program if it
\* shares one and in its own otherwise, unless the service was orphaned: it may then
\* post its events to the queue of another.
EventsGoHome ==
  \A q \in Pointers : \A s \in posted[q] : q = StdAirOf(s) \/ s \in orphans

\* An early clean harms nobody else: a live service whose memory was never an
\* orphan's has everything an operation asks for.
OthersUnharmed ==
  \A s \in Services : At(s, "live") /\ ~Haunted(s) =>
    /\ Ctx(s) # None
    /\ {Ctx(s).stdair, Ctx(s).simfqt, Ctx(s).airtsp, Ctx(s).airinv} = {StdAirOf(s)}
================================================================================
