-------------------------------- MODULE BomTree --------------------------------
(***************************************************************************)
(* How a SIMCRS_Service loads its data: parseAndLoad and buildSampleBom    *)
(* have AirTSP, AirInv and SimFQT each add their layer to the persistent   *)
(* BOM tree of the StdAir service, and clonePersistentBom makes the        *)
(* working tree that bookings are served from, in which each of the three  *)
(* then builds its links.  Every one of these calls may throw.             *)
(*                                                                         *)
(* A service that owns its StdAir clones it itself.  One that shares the   *)
(* StdAir of an embedding program leaves that to the program, which clones *)
(* when it pleases, between two calls, and then asks for the links.  StdAir *)
(* and the three components are other libraries: a component built on a    *)
(* StdAir it was handed does not clone it either.                          *)
(***************************************************************************)
EXTENDS Naturals, Sequences

CONSTANT MaxLoads  \* bound on the times one layer is loaded

ASSUME MaxLoadsAssumption == MaxLoads \in Nat \ {0}

VARIABLES
  own,         \* the service owns its StdAir service
  persistent,  \* the persistent tree
  working,     \* the working tree
  load,        \* the load or clone under way
  outcome      \* what the last call that ended was, and how it ended

dataVars == <<own, persistent, working, load, outcome>>

Components == {"airtsp", "airinv", "simfqt"}
Layers == Components \cup {"stdair"}

\* Times each layer was loaded, and the layers a load that threw may have left in
\* pieces.
Tree == [loads : [Layers -> Nat], torn : SUBSET Layers]
EmptyTree == [loads |-> [k \in Layers |-> 0], torn |-> {}]

\* whole: StdAir got to the end of the copy; links: components linked into the copy.
Working == [tree : Tree, whole : BOOLEAN, links : SUBSET Components]

\* A call does tasks in a row: load a layer, copy the tree, link a component.
Tasks == [do : {"load"}, layer : Layers] \cup [do : {"copy"}, layer : {"stdair"}]
           \cup [do : {"link"}, layer : Components]
LoadOps == {"idle", "parseAndLoad", "buildSampleBom", "clonePersistentBom"}

NoLoad == [op |-> "idle", todo |-> <<>>, loaded |-> {}]

Load(k) == <<[do |-> "load", layer |-> k]>>
Link(k) == <<[do |-> "link", layer |-> k]>>
IfOwn(tasks) == IF own THEN tasks ELSE <<>>

DataInit ==
  /\ own \in BOOLEAN
  /\ persistent = EmptyTree
  /\ working = [tree |-> EmptyTree, whole |-> TRUE, links |-> {}]
  /\ load = NoLoad
  /\ outcome = "none"

--------------------------------------------------------------------------------
(* The three calls *)

\* Mutant of CloneTasks: the tree of a shared StdAir is copied as well.
CloneAlways ==
  <<[do |-> "copy", layer |-> "stdair"]>> \o Link("airtsp") \o Link("airinv") \o Link("simfqt")

\* Mutant of CloneTasks: SimFQT is not asked to clone.
CloneWithoutFares ==
  IfOwn(<<[do |-> "copy", layer |-> "stdair"]>>) \o Link("airtsp") \o Link("airinv")

CloneTasks ==
  IfOwn(<<[do |-> "copy", layer |-> "stdair"]>>)
    \o Link("airtsp") \o Link("airinv") \o Link("simfqt")

\* Mutants of LoadTasks: the inventory is loaded before the schedule; the tree is
\* cloned before the fares are in; the schedule is loaded twice.
LoadInventoryFirst == Load("airinv") \o Load("airtsp") \o Load("simfqt") \o IfOwn(CloneTasks)
LoadFaresLast == Load("airtsp") \o Load("airinv") \o IfOwn(CloneTasks) \o Load("simfqt")

LoadScheduleTwice ==
  Load("airtsp") \o Load("airtsp") \o Load("airinv") \o Load("simfqt") \o IfOwn(CloneTasks)

LoadTasks == Load("airtsp") \o Load("airinv") \o Load("simfqt") \o IfOwn(CloneTasks)

BeginLoad(op, todo) ==
  /\ load = NoLoad
  /\ load' = [op |-> op, todo |-> todo, loaded |-> {}]
  /\ UNCHANGED <<own, persistent, working, outcome>>

Loadable == \A k \in Layers : persistent.loads[k] < MaxLoads

ParseAndLoad == Loadable /\ BeginLoad("parseAndLoad", LoadTasks)

\* StdAir builds its own part of the sample first, when it is owned.
BuildSampleBom == Loadable /\ BeginLoad("buildSampleBom", IfOwn(Load("stdair")) \o LoadTasks)

ClonePersistentBom == BeginLoad("clonePersistentBom", CloneTasks)

--------------------------------------------------------------------------------
(* Their tasks *)

Task == Head(load.todo)
Doing(what) == load.op # "idle" /\ load.todo # <<>> /\ Task.do = what

Done == load' = [load EXCEPT !.todo = Tail(@),
                             !.loaded = IF Task.do = "load" THEN @ \cup {Task.layer} ELSE @]

LoadLayer ==
  /\ Doing("load") /\ Done
  /\ persistent' = [persistent EXCEPT !.loads[Task.layer] = @ + 1]
  /\ UNCHANGED <<own, working, outcome>>

CopyTree ==
  /\ Doing("copy") /\ Done
  /\ working' = [tree |-> persistent, whole |-> TRUE, links |-> {}]
  /\ UNCHANGED <<own, persistent, outcome>>

LinkComponent ==
  /\ Doing("link") /\ Done
  /\ working' = [working EXCEPT !.links = @ \cup {Task.layer}]
  /\ UNCHANGED <<own, persistent, outcome>>

\* The task throws, having done some of its work or none: the rest of the call is
\* skipped and nothing is undone.
TaskThrows ==
  /\ load.op # "idle" /\ load.todo # <<>>
  /\ load' = NoLoad /\ outcome' = "threw"
  /\ persistent' \in IF Task.do = "load"
                       THEN {persistent, [persistent EXCEPT !.torn = @ \cup {Task.layer}]}
                       ELSE {persistent}
  /\ working' \in IF Task.do = "copy"
                    THEN {working, [tree |-> persistent, whole |-> FALSE, links |-> {}]}
                    ELSE {working}
  /\ UNCHANGED own

\* Mutant of Return: it waits for the links, which a load of a shared StdAir leaves to
\* the next clone.
ReturnOnceLinked ==
  /\ load.op # "idle" /\ load.todo = <<>> /\ working.links = Components
  /\ outcome' = load.op /\ load' = NoLoad
  /\ UNCHANGED <<own, persistent, working>>

Return ==
  /\ load.op # "idle" /\ load.todo = <<>>
  /\ outcome' = load.op /\ load' = NoLoad
  /\ UNCHANGED <<own, persistent, working>>

\* The embedding program has its StdAir clone the tree, between two calls; that copy
\* may throw half-way as well.
CallerClones ==
  /\ ~own /\ load = NoLoad
  /\ \E all \in BOOLEAN : working' = [tree |-> persistent, whole |-> all, links |-> {}]
  /\ outcome' = "none"
  /\ UNCHANGED <<own, persistent, load>>

DataStep == LoadLayer \/ CopyTree \/ LinkComponent \/ TaskThrows \/ Return

DataNext ==
  \/ ParseAndLoad \/ BuildSampleBom \/ ClonePersistentBom
  \/ DataStep
  \/ CallerClones

\* A load or a clone is straight-line code on the program's only thread, and each
\* component it calls comes back.
DataSpec == DataInit /\ [][DataNext]_dataVars /\ WF_dataVars(DataStep)

--------------------------------------------------------------------------------
(* Properties *)

\* Types of the state.
DataTypeOK ==
  /\ own \in BOOLEAN
  /\ persistent \in Tree
  /\ \A k \in Layers : persistent.loads[k] <= MaxLoads
  /\ working \in Working
  /\ load.op \in LoadOps /\ load.todo \in Seq(Tasks) /\ load.loaded \subseteq Layers
  /\ outcome \in (LoadOps \ {"idle"}) \cup {"none", "threw"}

\* After a load or a clone that returned, whatever failed before it, a service that
\* owns its StdAir serves from a complete copy of all that was loaded, and every
\* component is linked into that very copy; when StdAir is shared the links are there
\* once the clone the embedding program asked for has returned.
ReturnedMeansServed ==
  /\ outcome = "clonePersistentBom" /\ load = NoLoad => working.links = Components
  /\ own /\ outcome \notin {"none", "threw"} /\ load = NoLoad =>
       /\ working.whole /\ working.tree = persistent
       /\ working.links = Components

\* AirInv builds its flight-dates from AirTSP's flight-periods, and SimFQT prices
\* what those two know: no interrupted load, retried however often, leaves a later
\* layer loaded more often than the one it builds on, in either tree.
LayersInOrder ==
  \A tree \in {persistent, working.tree} :
    /\ tree.loads["simfqt"] <= tree.loads["airinv"]
    /\ tree.loads["airinv"] <= tree.loads["airtsp"]

\* A load that throws before all three components have loaded their layers, in this
\* very call, leaves the service with the tree it had, links and all: until then
\* parseAndLoad and buildSampleBom do not touch it.  What throws later, in the copy or
\* in a link, may leave it torn or without links.
ServesUntilLoaded ==
  [][ working' # working /\ load.op \in {"parseAndLoad", "buildSampleBom"}
        => Components \subseteq load.loaded ]_dataVars

\* The working tree of a shared StdAir is its owner's: no call of the service, nor an
\* exception out of one, replaces it.
SharedTreeIsNotOurs ==
  [][ ~own /\ load.op # "idle" => working'.tree = working.tree /\ working'.whole = working.whole ]_dataVars

\* Every load and every clone comes back to its caller, wherever it throws.
LoadsEnd == load.op # "idle" ~> load.op = "idle"
================================================================================
