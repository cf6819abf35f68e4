# SimCRS in TLA+

SimCRS is the distribution system of the AirSim simulator: a C++ library whose
one class, `SIMCRS_Service`, turns booking requests into travel solutions, prices
them, asks the inventory what is available and sells or cancels seats. The
schedule (AirTSP), the fares (SimFQT), the inventory (AirInv), the event queue
(SEvMgr) and the object model (StdAir) are libraries of their own, which this
repository calls and does not contain.

The project models what this code does around those calls: the loops over the
legs of an itinerary, what they answer when a leg is refused or throws, how a
service is put together, used and taken down, how its data get from input files to
the tree that bookings are served from, what becomes of bookings when that tree is
replaced, and how the program `simcrs` drives all of it once.

## The system

| Part | State | Operations | What is hard about it |
|---|---|---|---|
| distribution: `command/DistributionManager.cpp` and the booking calls of `service/SIMCRS_Service.cpp` | none of its own: the caller's travel solutions, AirInv's bookings, one boolean per call | `calculateSegmentPathList`, `fareQuote`, `calculateAvailability`, `sell` (two overloads), `playCancellation` | one AirInv call per leg, each of which may refuse or throw; the answer; retries; stale availability; iterators walked side by side |
| service lifecycle: `SIMCRS_Service.cpp`, `SIMCRS_ServiceContext` | shared pointers to five services, two ownership flags | three constructors, destructor | an exception between two steps of a constructor; the order in which pointers are stored and used |
| factories: `FacSimcrsServiceContext`, `FacServiceAbstract`, `FacBomAbstract`, `FacSupervisor` | singletons, pools of objects, pools of factories | `instance`, `create`, `clean`, `cleanBomLayer`, `cleanServiceLayer`, `cleanFactory` | cleaning while services are alive; cleaning twice; starting again |
| data loading: `SIMCRS_Service.cpp` | StdAir's persistent and working trees | `parseAndLoad`, `buildSampleBom`, `clonePersistentBom` | an exception between two components; who may clone the tree; bookings and ids of the tree before |
| batch program: `batches/simcrs.cpp` | its options | one search, quote and sale | options from two sources and their defaults, early exits, its exit code |
| events: `initSnapshotAndRMEvents`, `takeSnapshots`, `optimise` | none | forwarded to AirInv | which event queue they end in |
| display: `csvDisplay`, `list`, `jsonHandler`, the sample requests | none | forwarded | whether the service they ask is there |

The parts meet in three places. `SIMCRS_ServiceContext` is what every operation goes
through: its getters assert that the pointer they return is set. StdAir's trees are
what loading writes and distribution reads, through the object ids AirInv writes
into a travel solution. `FacSupervisor` deletes the factories, and with them the
contexts that services keep bare pointers to.

The program has one thread and no lock. What interleaves is calls: a simulator
keeps many booking requests open, and between the availability request and the
sale of one of them it makes calls for the others.

## Modules

| Module | Models |
|---|---|
| `Reservation` | the contract of distribution as a caller sees it: each sale or cancellation one step, all-or-nothing (`AtomicSpec`) or leg by leg (`LegwiseSpec`) |
| `Distribution` | the calls themselves, one AirInv call per step; implements `Reservation` |
| `BomTree` | loading and cloning of the two trees |
| `SimCRS` | `Distribution` and `BomTree` composed: sales from a tree that is loaded and replaced |
| `Batch` | the program `simcrs`, one caller of `SimCRS` |
| `Lifecycle` | constructors, destructor, service contexts and their factory |
| `ServiceUse` | `Lifecycle` with every public operation, and with `cleanFactory` at any time |
| `Factories` | the factories of both layers and the passes of their supervisor |
| `ReservationProofs`, `DistributionProofs`, `BomTreeProofs`, `SimCRSProofs`, `BatchProofs`, `LifecycleProofs` (with `ServiceUse`), `FactoriesProofs` | the theorems about those modules and their proofs |
| `SeatCounts` | lemmas on counting the seats of parties, which the first two and `SimCRSProofs` share |
| `MCDistribution`, `MCBomTree`, `MCSimCRS`, `MCBatch`, `MCLifecycle`, `MCServiceUse`, `MCFactories` | the instances the model checker runs |

### Distribution

`solutions[t]` is the `TravelSolutionList_T` the caller of trip `t` holds,
`choice[t]` the solution it will sell with its chosen fare option, `belief[t]`
what it was last told (`unknown` after an exception), `booked` the seats AirInv
has sold per segment and class, and `call` the call under way: its loop variable,
the answer so far (`hasSaleBeenSuccessful`), and the classes it has changed, a
history variable of the model.

A sale by travel solution begins (`SellBegin`), takes one step per turn of its
loop (`SellLegById` when there are object-id maps, `SellLegByKey` otherwise) and
returns (`SellReturn`), throws at a leg or dies (`SellAbort`). AirInv's answer to
one leg is nondeterministic: it takes the party if there is room, refuses whatever
the room, or throws before or after taking it. `NextLeg` replaces the answer at
each leg, as `DistributionManager.cpp:66`, `:89` and `:112` do. The segment-key
overload is one AirInv call, and one step. A cancellation goes through the ids
under which the trip was sold, which are none when it was sold by keys.

The class-path iterator is advanced with the outer loop and never compared with
`end()`. Past the end the class it yields is any class, or cannot be read at all:
`LegClass` and `SellAbort` say so. The asserts in the loop are taken to be compiled
in, as in the project's default build.

`held` is the holder of class to object-id maps of a solution, as the segments its maps
are of. Nothing in this code empties it before a request is repeated
(`DistributionManager.cpp:22-29`), so AirInv may write the maps of a solution in place of
those it had or after them (`MapsAfter`), leg by leg, and throw between any two of them
(`AvailabilityThrow`); SimFQT may throw with part of the list priced (`FareQuoteThrow`).

The code checks nothing its callers do: `playCancellation` gives back what it is told to
(`SIMCRS_Service.cpp:886-911`), and `sell` sells a solution as often as it is asked. With
`Careful` the callers make up for that. They ask once for the availability of a list and
let go of a list whose request threw, sell only a trip of which they hold no booking,
cancel only one they were told is booked, may retry a refused sale or cancellation for
ever, and leave alone a trip whose call threw, since they cannot know what to do.
Without it they do all of this in any order the calls admit. What needs careful
callers says so in its theorem, and the run `distribution_careless` is of the others.

Assumed of the other libraries: a path has a segment and none twice; AirInv writes maps
of the legs of the path, in order; it sells a class up to its capacity and gives back no
more than is booked.

### Reservation

The state of the contract is seats, what each trip was told, the classes its
itinerary touches and those of its last leg. `Settle` is a call that moved the
seats of some set of classes and answered yes exactly if the last leg was among
them. The contracts differ in which sets a call may move: `AtomicSpec` allows all
or nothing, `LegwiseSpec` any part. `Distribution` is mapped to it by `Promise`:
`seats` are the bookings without those of the call under way (`SeatsAtReturn`), so
that a call is seen to happen when it returns or throws.

### Lifecycle

`service[s].stage` is the constructor step a `SIMCRS_Service` has to take next, or
`live`, `failed`, `gone`, `aborted`. `context` is the memory of the
`SIMCRS_ServiceContext` objects, whose fields are the fields of the class; for a
sub-service the field holds the StdAir it was given, and for AirInv also the event
queue it posts to. A shared pointer is the name of its object: `StdAir` made by
service `s` is `s`, the embedding program's StdAir and SEvMgr are `Caller`.
`_ownStdairService`, which the constructor in use leaves uninitialised, starts as
either boolean. The database constructor differs from the other owning one only in
its parameters.

Assumed: the embedding program passes a StdAir that is not null (the SEvMgr may
be); allocating and registering a context or its factory does not fail, so that a
constructor throws only at the sub-services it makes; and a sub-service drops its own
references when its last pointer goes. Here `cleanFactory` is called only when no
service is alive; `ServiceUse` drops that.

### ServiceUse

Nothing under `src/simcrs` calls `cleanFactory`, but it is public and asks nothing.
`CleanEarly` is the same clean with services alive: they become `orphans`, whose
context is gone, and the next context to be created may be given its memory. An
operation (`Asks`) follows its service's bare pointer to the context and asks for
the parts its code asks for: a freed context, or a part that is not there, is
recorded in `fault` with its `victim`, and the behaviour ends there, since what
follows is undefined. `initSnapshotAndRMEvents` also remembers, per event queue,
whose AirInv has put its events there (`posted`); what AirInv, AirTSP, SimFQT and
StdAir do with the other calls changes nothing of this code.

### Factories

`Lifecycle` takes a clean as one step; here it is taken apart. `registered` are the
supervisor's two pools of factories, `instance` the singletons, `factory` the
objects by address, reused once free. A clean is an agenda, `todo`, of passes over
a layer, and `at` the iterator of the loop in it: `cleanFactory` runs both layers,
deletes the supervisor, and its destructor runs both again first, so that the agenda
is bom, service, bom, service, delete. `DeleteFactory` is one turn of the loop, with
the factory's destructor, which deletes its pool and forgets the singleton. To delete
what is not there sets `corrupt`. The program has a factory class in the service
layer only; one of the Bom layer stands for those `FacBomAbstract` is made for.

### BomTree

`persistent` and `working` are the two trees of StdAir, by the number of times each
component's layer was loaded and the layers an exception may have left in pieces.
A call is the row of tasks the code delegates, in its order, taken one at a time
(`LoadLayer`, `CopyTree`, `LinkComponent`); any of them may throw, with some of its
work done. Only a service that owns its StdAir copies the tree; for a shared one
the embedding program does, between two calls (`CallerClones`), and that copy may be torn as well. The ownership flag
never changes after construction, so the tasks are laid out when a call begins.

Assumed: AirTSP, AirInv and SimFQT, which are given their StdAir, do not own it and
so only build links when asked to clone.

### SimCRS

The two run on one thread and never overlap, but follow each other in any order:
`SimCRS` extends both modules and conjoins their actions, each guarded by the other
being idle (`SalesOnly`, `LoadBegin`). What connects them is the tree: a copy
(`TreeStep`, whole or torn by an exception) makes the booking counts those of the
persistent tree, which are zero, and dates a new tree. `idTree` and `saleTree` say
of which tree the ids are that a caller holds, `toldIn` of which tree it was told
what it believes. Without a schedule in the tree a search finds nothing, without
flight-dates no seat moves. `StaleLeg` is a leg of a call that goes by ids of an
earlier tree: AirInv follows them into the tree before, and what happens to the
counts is left open (`misused`).

Assumed: a torn working tree answers as a whole one would or throws, and callers are
careful (`CarefulAssumption`); a failed availability request drops the list with its
ids (`AvailabilityFails`).

### Batch

`pc` is where `main` is. An option is where its value comes from: the command line,
the file `simcrs.cfg`, or the default that `boost::program_options` stores with the
first of the two sources it is given. The program constructs its service, loads or
builds its data, searches, prices, takes the first solution and one of its fares,
sells it by segment keys and displays the inventory, and each of these may throw,
which ends it: nothing catches an exception. To take the front of an empty list would
end it too, as `abort` (`ChooseFirst`). The search list, the fares and AirInv's
answers are those of `SimCRS`. The exit status is `status`.

## Runs

| Run | Question | Instance |
|---|---|---|
| `distribution_one_leg` | do callers and inventory agree, and does every call end? (`TypeOK`, `Reconciled`, `ImplementsAtomic`, `CallsEnd`) | two trips of one and two seats, two one-leg itineraries, classes of two seats |
| `distribution_legs` | what is kept of that on two legs, whatever the fares, and when does a sale kill the process? (`AnswerIsLastLeg`, `SaleCoversItinerary`, `ImplementsLegwise`, `AbortNeedsMisfit`) | the same trips, a two-leg and a one-leg itinerary, fares with a short class path, an empty class list, a class not on sale, and one that fits |
| `distribution_careless` | and if callers ask again, go on after a failed request, sell twice and cancel what they do not hold? (`AbortNeedsMisfit`, `OnlyOwnSegments`) | two alike callers, one class, a list of a one-leg and a two-leg solution, a fare that fits and one too short |
| `distribution_answer` | is the answer of a sale true? (`SaleAnswerIsTrue`, violated) | one trip on two legs |
| `bomtree` | what does a normal return say of the working tree, until when does a load leave it alone, and does each call end? (`DataTypeOK`, `ReturnedMeansServed`, `LayersInOrder`, `ServesUntilLoaded`, `SharedTreeIsNotOurs`, `LoadsEnd`) | each layer loaded up to three times |
| `simcrs` | what becomes of ids and bookings when data are loaded between calls, and what can take a seat away? (`ServiceTypeOK`, `PresentReconciled`, `NoSeatVanishes`) | one caller, an owned or a shared StdAir from its first load on, two loads of a layer, two working trees |
| `simcrs_clone` | the same for callers who compete (`PresentReconciled`) | two callers for one seat, loaded data, two clones, whole or torn |
| `batch` | what does the exit status tell, what is loaded, what is sold on, what kills the program, and does it end? (`BatchTypeOK`, `StatusTells`, `SellsOnCompleteTree`, `LoadsAsAsked`, `DiesOnlyOfMisfit`, `MainEnds`) | every set of options on both sources |
| `batch_builtin` | does `-b` do what the manual page says? (`BuiltinAsDocumented`, violated) | the same |
| `lifecycle` | is a live service complete, and is everything released? (`TypeOK`, `WiredUp`, `ReleasedWithService`, `Reclaimable`, `AbortNeedsNullSEVMGR`) | three services, three contexts, symmetric |
| `service_use` | whom can an early clean harm, and where do events go? (`FaultNeedsOrphan`, `EventsGoHome`, `OthersUnharmed`) | three services, two contexts, symmetric |
| `factories` | is everything deleted once, and nothing kept? (`TypeOK`, `NothingDeletedTwice`, `NoDanglingInstance`, `CleanReclaimsAll`, `CleansEnd`) | a factory class in each layer, three addresses, three objects |

**Bounds.** Two trips are enough for one to take the seats the other was offered,
and parties of one and two in classes of two seats make a sale fail for want of
room, whichever came first. Two legs give every combination of a taken, refused
and thrown leg before and after another; with one class on sale on the outbound
only, a class looked up in the map of the wrong leg is noticed. Three services
let one fail, one live and one be created after the factories were cleaned; with
two contexts, the one created after an early clean is given an orphan's memory or
other memory. Three addresses let a factory be made at a new or at a used one.
`MaxLoads`, three in `bomtree`, bounds the number of times a layer is loaded: a load
can fail, be retried and be followed by another. `MaxTrees` bounds the working trees
made: two, or three with the tree there at the start, let a caller hold ids of the
present tree or of an earlier one. In `simcrs` and `simcrs_clone` one seat is enough
for it to be taken in one tree and offered again in the next. In `batch` one generic
option and two input files stand for three and six, which the code treats alike.
`MaxMaps` is the number of maps a solution may have when its availability is asked for
once more: with one, in `distribution_careless`, the maps of a one-leg solution pile up
to two, and those of a two-leg one to three after a request that threw at its second
leg. Nothing else is bounded: sales, cancellations, searches and clones repeat for ever.

**Deadlock** is not checked where the system may stop: in `Distribution` the
process dies in an assert, or every caller has an itinerary it can neither sell
nor cancel; in `Lifecycle` each
object is built once; in `SimCRS` the trees run out as well; in `ServiceUse` a
fault ends the behaviour, and in `Batch` the program's exit does. `BomTree` and
`Factories` are checked for deadlock.

**Fairness.** Each module with a liveness property has weak fairness of the next
step of what is under way and of nothing else: `CallStep` of `Distribution`, `DataStep`
of `BomTree`, `CleanStep` of `Factories`, `MainStep` of `Batch`. Such code is straight-line,
on the only thread, and the calls it makes return or throw. Callers have none: they
may give up at any time. `MainStep` leaves out exceptions, so the program does not
end for want of luck, but because it comes to its end.

## What the runs show

On one leg the distribution layer is as good as its callers could wish: whatever
the interleaving, the retries and the exceptions, seats and answers agree, and a
trip whose call threw is the only doubt there is (`Reconciled`).

On two legs it is not. `sell` overwrites its answer at each leg and undoes nothing,
so that a yes may hide a refused first leg and a no a booked one: `distribution_answer`
shows it in the fewest steps, and it is the project's finding. What is kept is
`LegwiseSpec`: a call changes only classes of its own itinerary, by its own party,
and its answer is that of the last leg. Under that contract a caller that retries
a failed sale books its first legs again, and one that retries a failed
cancellation takes back seats other trips hold.

Callers who are not careful lose more: maps written by a second request may pile up
after those of the first, and a request that threw may leave those of some legs, so that
a sale goes by maps that are not those of its legs, with the class of one leg asked of
another or the class path left behind. What no order of calls changes is that seats are moved by a whole party,
that of the caller, on segments of its own itinerary (`OnlyOwnSegments`), and that the
process dies of misfit fares and of such maps only (`AbortNeedsMisfit`).

A booking made by segment keys cannot be cancelled by `playCancellation`: it has no
object ids. The call ends, releases nothing and answers no.

In `Lifecycle` and `BomTree` the order of steps turns out right: AirInv always gets
the embedding program's queue, the uninitialised flag is always set before it is
used, everything is released but what a throwing constructor leaves in the pool
until `cleanFactory`, and a load changes the working tree only once all three components
have loaded theirs (`ServesUntilLoaded`): until then a failure leaves it as it was, but
one at the copy leaves it in pieces, and one at a link unlinked.
A retry after a failed load, though, loads the earlier layers a second time
(`LayersInOrder` is all that remains), and publishes what the failed attempt left.

A new working tree has no bookings: a caller told it is booked in the tree before
is not in this one, and its seat is sold again. What can be said is said of the
present tree (`PresentReconciled`): callers told something since it was made and its
bookings agree, unless an id of an earlier tree was used in it. Apart from that, and on any itinerary,
a seat is given up by a cancellation of its own itinerary, for its whole party, or with
the tree (`NoSeatVanishes`): a load that fails before all three components have loaded
takes nothing away, one that is torn at the copy takes everything.

An early `cleanFactory` harms the services alive at that moment, and one more: a
service later given an orphan's memory is emptied when that orphan is destroyed
(`FaultNeedsOrphan`). Nobody else is harmed. The two passes of a clean delete every
factory once, because the first leaves its pools empty.

The program exits with -1 only before anything is sold, but 0 says nothing of the
sale: it exits with 0 after a refused sale too, and `StatusTells` says just what can
be inferred. It sells on a whole tree, loaded once, and other than by an exception it
dies only in the sale of a misfit fare, never of the front of an empty list
(`DiesOnlyOfMisfit`). `batch_builtin` is the second
finding: the manual page has `-b` the wrong way round.

## Proofs

Every safety property a passing run checks is a theorem, for every value of the
constants; those that hold on one leg only, or only with careful callers, say so in their
hypothesis. In each module an inductive invariant carries them: it holds initially,
every step keeps it, and the properties follow. The invariants are defined in the
modules of the proofs; the properties are checked by the runs.

### Reservation

`ReservationProofs` proves `AtomicReconciles`, `AtomicSpec => []Reconciled`, for trips of
at least one seat (`PartySizes`). The run `distribution_one_leg` checks `Reconciled` of
the contract as that of the calls mapped to it. A class has
the seats of the parties told that they hold it. `Owned` counts them as the pairs of a
trip and a number up to its party (`SeatsOf`), so that the sum is a cardinality and
needs no induction: `SeatCounts` shows that a trip more is a party more, from the
theorems on finite sets, and that a call which moves all of its itinerary or nothing
keeps the agreement (`SettlingAgrees`). The invariant adds that only finitely many trips
have been settled (`FewSettled`); the set of trips itself may be infinite.

### Distribution

`DistributionProofs` proves for every set of trips, segments, classes, paths and
fares, every capacity and every party size:

- whatever the callers do, `GroundsInductive` (`Spec => []Grounds`), `TypesHold`,
  `FittingFaresNeverAbort` and `SeatsStayOnItineraries`;
- with `Careful`, `Inductive` (`Spec => []IInv`), `AnswersComeFromLastLeg`,
  `SalesCoverItinerary` and `KeepsLegwiseContract` (`Spec => ImplementsLegwise`);
- with `Careful` and `OneLegged`, `OneLegIsAtomic` and `OneLegReconciles`.

`Grounds` is the part that does not depend on the bookings: types, paths of the schedule
in every solution held or chosen (`OnPaths`), maps of segments of the solution's own path
(`MapsKept`), and what a call under way tells of its caller (`CallerWaits`). Of careful
callers it says more: a request finds the solutions it has yet to come to without maps
(`AskedOnce`), so that those it has passed have the maps of their legs and no others,
whether AirInv overwrites or appends, and a sale is made for a trip that was not told it
is booked. `IInv` is `Grounds` for careful callers, with what was booked. That a step refines
the contract needs the classes a call has changed to lie on visited legs, so that the
next leg's class is a new one (`AnswerIsLastLeg`, with the assumption that a path has no
segment twice), the seats a call took to be still booked, so that the mapping does
not subtract below zero (`DoneCounted`), and a cancellation's ids to be named
(`CancelNamesLegs`). The assumptions are the named `ASSUME`s of `Distribution`.
In `SimCRS`, `Grounds` is what is left of `IInv` once an id of an earlier tree has been used.

The refinement follows the steps: a leg that is sold leaves `SeatsAtReturn`
unchanged because `booked` and `done` change together; the step that returns or
throws maps to `Sell`, `SellLost`, `Cancel` or `CancelLost` with the set
`done`, which is a part of the itinerary, and the answer is `done`'s meeting the
last leg.

`OneLegged` says that every path has one leg and every fare a class path that is not
empty; it is true of the instances of `distribution_one_leg`, `simcrs` and
`simcrs_clone`, and without it `Reconciled` is false. `OneLegInv` adds to `IInv` that
the fares a caller holds are the tariff's (`FaresQuoted`) and that a chosen class path
is not empty (`ClassesNamed`), so that the class-path iterator is not past its end; an
itinerary then touches one booking class at most, and any part of it is nothing or the
whole (`PartsAreWhole`). So every step is one of the all-or-nothing contract, and the
counting lemmas apply to it.

### BomTree

`BomTreeProofs` proves, for any `MaxLoads`, `DataInductive` and from it `DataTypesHold`,
`ReturnedIsServed`, `LayersStayInOrder`, `LoadsServeUntilLoaded` and
`SharedTreeUntouched`. A call is a row of tasks, and `DataInv` tells from the number of
tasks left what it has done: `LoadsOnTime` which layers are loaded, `OneBehind` that a
layer is ahead of the next by the calls that failed between them, `ClonesOnTime` what
is copied and linked.

### SimCRS

`SimCRSProofs` proves `ServiceInductive`, and from it:

- `ServiceTypesHold`, whatever ids of earlier trees are used;
- `SalesAreServed`: what `BomTree` promises of loads holds with any calls in between, since
  no sale touches its state (`ServiceLoads`);
- `SeatsAreKept`: `ServiceSpec => NoSeatVanishes`, on itineraries of any length;
- `PresentReconciles`, with `OneLegged`: `ServiceSpec => []PresentReconciled`.

`ServiceInv` joins `DataInv` and `Grounds` by what the composition adds: a load and a
sale exclude each other (`OneAtATime`), a load that has yet to copy the tree finds room
under the bound `MaxTrees` (`RoomForCopy`), and every id is dated by a tree that was
made (`TripDated`). `PresentInv` is what holds until an id of an earlier tree is used:
`IInv`, and the agreement of the present tree's bookings with what callers were told
since it was made. Its step cases are those of `OneLegReconciles` when a caller is told
something new of this tree, with a copy of the tree as one more: all counts start again
at zero, and nobody has been told anything of it. What makes it inductive is that a
trip booked in an earlier tree cannot change the present one: its ids are at least as
old as what its caller was told (`SoldLater`), so that its cancellation stops at its
first id (`StaleCancelWaits`), and a trip booked by keys has no ids to cancel by.

### Batch

`BatchProofs` proves `ProgramUsesService`, `BatchSpec => ServiceSpec`, so that all of the
above holds in the program, and from `BatchInductive` the five safety properties of its
run: `BatchTypesHold`, `LoadsWhatWasAsked`, `ExitTellsTheSale`, `SellsWhenComplete` and
`DeathsAreMisfits`.
`BatchInv` says at each `pc` what main has done: where each file name comes from
(`Given`), which layers are loaded by the number of tasks left (`LoadedOnce`), that main
holds no ids (`ByKeys`), that a list whose front is taken has one (`FrontsThere`), and that the seats sold are those its one sale has moved
(`SeatsOfSale`), which on one leg makes the answer tell whether there are any.

### Lifecycle and ServiceUse

`LifecycleProofs` proves for any number of services and contexts `Inductive`
(`Spec => []IInv`) and from it `TypeCorrect`, `Wired`, `Released`, `AllReclaimable`
and `AbortsOnNull`. `WiredUp` speaks of finished services only, so `IInv` adds what
each constructor step has put into its context (`Built`) and the pointers it still
works with (`Handed`); two services in use never share a context, because a context
is created where none is allocated and everything allocated is in the pool
(`Reclaimable`). Two lemmas carry the step cases: `BareMove` for a service that has
no context yet, `ContextMove` for one that changes itself and its context. The
assumptions say that null is no name of an object.

For `ServiceUse` it proves, for any number of early cleans too, `FaultsAreOrphans`,
`EventsReachTheirQueue` and `BystandersUnharmed`. The invariant of `Lifecycle` does not
survive an early clean. `UseIInv` keeps it for services that were not orphaned: each
holds a context no other of them holds, as built so far or emptied by an orphan that
had the same memory (`Holds`, `HoldsAlone`). That it is not emptied while a constructor
is at work in it rests on the program's one thread. The constructor steps are the same,
and the lemmas say of each how it moves (`BareMoves`, `ContextMoves`) whatever the other
services are.

### Factories

`FactoriesProofs` proves, for any number of factory classes, addresses and objects,
`TypesHold`, `DeletedOnce`, `InstancesAreLive` and `CleanLeavesNothing`. Every live
factory is exactly one entry the iterator has yet to come to (`EntriesLive`,
`EntriesDiffer`, `FactoriesRegistered`), objects are in one pool each
(`PoolsPartition`), and in the second passes the pools are empty (`CleanInOrder`).

### What ends

That something ends is liveness and stays with the model checker, but the half of the
argument that needs no fairness is proved: each step of what is under way leaves less
to do. `CallsRunOut`: a loop takes turn after turn of a list whose length nobody changes
meanwhile. `LoadsRunOut`: a load has eight tasks at most and fewer after each step.
`CleansRunOut`: a clean has five passes at most, each as long as the pool it found.
`MainRunsOut`: main never goes back in its text, and stays at its load or its sale only
while tasks or legs are left.

### Only model-checked

- Liveness: `CallsEnd`, `LoadsEnd`, `CleansEnd`, `MainEnds`. Weak fairness is about
  `ENABLED`, which the prover does not handle: that a step of what is under way is always
  possible is left to TLC.
- That `SaleAnswerIsTrue` and `BuiltinAsDocumented` are violated.
- What the recursive standard operators compute is taken from the library's theorems;
  no definition of the project is recursive.

## Not modelled

- The parameters that change no step: log file and level, database connection, and
  the assertions on them.
- The text of displays and of JSON answers, the ids `getID` makes of addresses, and
  the stream operators of the Bom layer.
- The contents of dates, keys and fares beyond what the loops look at; timing, which
  is only logged.
- AirInv, AirTSP, SimFQT, SEvMgr and StdAir beyond what this code asks of them. What
  revenue management, snapshots and events do in there is not this repository's.
- Type names, exception classes, default values, tests and the build.

Of the hazards listed for this code two have no property. The pool of contexts grows with
every service until it is cleaned (`FacSimcrsServiceContext.cpp:42`): to say so is to
repeat `create`, and what can be claimed, that everything is still in the pool, is
`Reclaimable`. What happens when an id of an earlier tree is used
(`DistributionManager.cpp:64`) is decided in AirInv; the models record the use (`misused`)
and promise nothing after it.

## Plan

What is left to say of the composition is what holds of the present tree on itineraries
of several legs, where seats and answers do not agree: a contract like `LegwiseSpec`
with one step more, a new tree in which nothing is booked and nobody has been told
anything, which `SimCRS` would implement until an id of an earlier tree is used. Its
proof has its parts here, `StepRefines` for the calls and `PresentNewTree` for the copy.
