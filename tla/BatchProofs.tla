------------------------------ MODULE BatchProofs ------------------------------
(***************************************************************************)
(* Proofs about the program simcrs, for every set of options, schedule and *)
(* tariff: where its input comes from, in what tree it sells, and what its *)
(* exit status says.                                                       *)
(***************************************************************************)
EXTENDS Batch, SimCRSProofs

USE MainAssumption, CarefulAssumption

--------------------------------------------------------------------------------
(* The invariant *)

BeforeLoad == {"options", "construct", "load"}
AfterLoad == {"request", "search", "quote", "choose", "sell", "selling", "display"}

\* An input file comes from the first source that names it, once the options are read.
Given ==
  /\ pc = "options" => \A f \in Inputs : files[f] = "none"
  /\ pc \notin {"options", "ended"} =>
       \A f \in Inputs :
         files[f] = IF f \in line THEN "line" ELSE IF f \in config THEN "config" ELSE "default"

\* The program owns its StdAir and loads each layer once; what it goes on with is that.
LoadedOnce ==
  /\ own
  /\ pc # "loading" => load = NoLoad
  /\ pc \in BeforeLoad => persistent = EmptyTree
  /\ pc \in AfterLoad \cup {"loading"} => persistent.torn = {}
  /\ pc = "loading" =>
       /\ Loading
       /\ persistent.loads["airtsp"] = IF LoadsLeft >= 3 THEN 0 ELSE 1
       /\ persistent.loads["airinv"] = IF LoadsLeft >= 2 THEN 0 ELSE 1
       /\ persistent.loads["simfqt"] = IF LoadsLeft >= 1 THEN 0 ELSE 1
  /\ pc \in AfterLoad =>
       /\ outcome \in {"parseAndLoad", "buildSampleBom"}
       /\ \A k \in Components : persistent.loads[k] = 1

\* The program never asks for availability, so it holds no object id.
ByKeys ==
  /\ ~ByIds(choice[Main])
  /\ \A i \in DOMAIN solutions[Main] : ~ByIds(solutions[Main][i])

\* The seats sold are those the sale under way has moved, and the program has one sale.
SeatsOfSale ==
  /\ pc \notin {"sell", "selling", "display", "ended"} => belief[Main] = "looking"
  /\ pc \notin {"selling", "display", "ended"} => call = Idle /\ Sold = {}
  /\ pc = "selling" => call.op = "sell" /\ Sold = call.done
  /\ pc = "display" =>
       /\ belief[Main] \in {"open", "booked"}
       /\ Len(choice[Main].path) = 1 => (belief[Main] = "booked" <=> Sold # {})

\* A list that is priced and chosen from has a front.
FrontsThere == pc \in {"quote", "choose"} => solutions[Main] # <<>>

BatchInv ==
  /\ ServiceInv /\ IInv /\ BatchTypeOK /\ Given /\ LoadsAsAsked
  /\ LoadedOnce /\ ByKeys /\ SeatsOfSale /\ StatusTells
  /\ FrontsThere /\ DiesOnlyOfMisfit

--------------------------------------------------------------------------------
(* The steps of main are steps of its service *)

\* Whatever main does, its service takes a step of its own or none.
LEMMA MainIsService ==
  ASSUME SeatsOfSale, MainStep \/ Throws
  PROVE  ServiceNext \/ UNCHANGED serviceVars
<1>1. LoadData => LoadBegin
  BY DEF LoadData, SeatsOfSale, LoadBegin
<1>2. Main \in Trips
  OBVIOUS
<1> QED
  BY <1>1, <1>2
  DEF MainStep, Throws, ReadConfiguration, ConstructService, RunLoad, BuildBookingRequest,
      SearchSolutions, QuoteFares, ChooseFirst, Sell, Selling, Display, ServiceUnchanged, ServiceNext

\* No id of an earlier tree is ever used, so the bookings stay what Distribution makes them.
LEMMA BookingsKept ==
  ASSUME BatchInv, [MainStep \/ Throws]_batchVars
  PROVE  IInv'
<1>1. CASE Next \/ UNCHANGED vars
  BY <1>1, InvStep DEF BatchInv
<1>2. CASE TreeStep
  BY <1>2, PresentNewTree DEF BatchInv
<1>3. Next \/ UNCHANGED vars \/ TreeStep
  <2>1. SearchSolutions \/ QuoteFares \/ Sell \/ Selling => Next
    BY SalesAreSteps DEF SearchSolutions, QuoteFares, Sell, Selling
  <2>2. ChooseFirst => Next \/ UNCHANGED vars
    BY SalesAreSteps DEF ChooseFirst, ServiceUnchanged, serviceVars
  <2>3. ReadConfiguration \/ ConstructService \/ LoadData \/ BuildBookingRequest \/ Display \/ Throws
          => UNCHANGED vars
    BY DEF ReadConfiguration, ConstructService, LoadData, BuildBookingRequest, Display, Throws,
       ServiceUnchanged, serviceVars
  <2>4. RunLoad => UNCHANGED vars \/ TreeStep
    BY DEF RunLoad, LoadStep
  <2> QED
    BY <2>1, <2>2, <2>3, <2>4 DEF MainStep, batchVars, serviceVars
<1> QED
  BY <1>1, <1>2, <1>3

--------------------------------------------------------------------------------
(* Options and files *)

\* The command line wins over simcrs.cfg, and either over the default.
LEMMA StoredTwice ==
  ASSUME files \in [Inputs -> Sources], \A f \in Inputs : files[f] = "none"
  PROVE  LET stored == Stored(Stored(files, line, "line"), config, "config")
         IN  /\ stored \in [Inputs -> Sources]
             /\ \A f \in Inputs :
                  stored[f] = IF f \in line THEN "line" ELSE IF f \in config THEN "config" ELSE "default"
<1> DEFINE first == Stored(files, line, "line")
           stored == Stored(first, config, "config")
<1>1. \A f \in Inputs : first[f] = IF f \in line THEN "line" ELSE "default"
  BY DEF Stored
<1> HIDE DEF first
<1>2. stored = [f \in Inputs |->
                  IF first[f] \in {"none", "default"} /\ f \in config THEN "config"
                  ELSE IF first[f] = "none" THEN "default" ELSE first[f]]
  BY DEF Stored
<1>3. \A f \in Inputs :
        stored[f] = IF f \in line THEN "line" ELSE IF f \in config THEN "config" ELSE "default"
  BY <1>1, <1>2
<1>4. stored \in [Inputs -> Sources]
  BY <1>1, <1>2 DEF Sources
<1> QED
  BY <1>3, <1>4 DEF first

\* A load under way takes a step, and ends by returning or by throwing.
LEMMA LoadGoesOn ==
  ASSUME BatchInv, pc = "loading", LoadStep \/ TreeStep
  PROVE  /\ own' = own /\ load.op # "idle"
         /\ \/ /\ load.todo # <<>> /\ Done /\ load' # NoLoad /\ load'.op = load.op
               /\ LoadLayer \/ (Task.do # "load" /\ persistent' = persistent)
            \/ load' = NoLoad /\ outcome' = "threw"
            \/ Return /\ load' = NoLoad
<1>1. load.op # "idle" /\ load # NoLoad
  BY DEF BatchInv, LoadedOnce, Loading, NoLoad
<1>2. CASE LoadLayer \/ LinkComponent \/ CopyTree
  <2>1. /\ load.todo # <<>> /\ Done /\ own' = own
        /\ LoadLayer \/ (Task.do # "load" /\ persistent' = persistent)
    BY <1>2 DEF LoadLayer, LinkComponent, CopyTree, Doing
  <2>2. load'.op = load.op
    BY <1>1, <2>1, TaskDone DEF BatchInv, ServiceInv
  <2> QED
    BY <1>1, <2>1, <2>2 DEF NoLoad
<1>3. CASE TaskThrows
  BY <1>1, <1>3 DEF TaskThrows
<1>4. CASE Return
  BY <1>1, <1>4 DEF Return
<1> QED
  BY <1>1, <1>2, <1>3, <1>4 DEF LoadStep, TreeStep, CallerClones

\* Every step of main keeps its types, its files where they came from, and loads what was
\* asked for.
LEMMA FilesKept ==
  ASSUME BatchInv, [MainStep \/ Throws]_batchVars
  PROVE  BatchTypeOK' /\ Given' /\ LoadsAsAsked'
<1>1. /\ BatchTypeOK /\ Given /\ LoadsAsAsked /\ (pc # "loading" => load = NoLoad)
      /\ NoLoad.op = "idle"
  BY DEF BatchInv, LoadedOnce, NoLoad
<1>2. CASE ReadConfiguration
  <2>1. load' = NoLoad /\ pc = "options" /\ status = "running" /\ UNCHANGED <<line, config>>
    BY <1>1, <1>2 DEF ReadConfiguration, ServiceUnchanged, serviceVars, dataVars, Exit, BatchTypeOK
  <2>2. CASE pc' = "ended" /\ status' \in {"terminate", "0"} /\ UNCHANGED files
    BY <1>1, <2>1, <2>2 DEF BatchTypeOK, Given, LoadsAsAsked, Statuses
  <2>3. CASE /\ pc' = "construct" /\ UNCHANGED status
             /\ files' = Stored(Stored(files, line, "line"), config, "config")
    <3>1. /\ files' \in [Inputs -> Sources]
          /\ \A f \in Inputs :
               files'[f] = IF f \in line THEN "line" ELSE IF f \in config THEN "config" ELSE "default"
      BY <1>1, <2>1, <2>3, StoredTwice DEF BatchTypeOK, Given
    <3> QED
      BY <1>1, <2>1, <2>3, <3>1 DEF BatchTypeOK, Given, LoadsAsAsked
  <2> QED
    BY <1>2, <2>2, <2>3 DEF ReadConfiguration, Exit
<1>3. ASSUME pc \notin {"options", "ended"}, UNCHANGED <<line, config, files>>,
             \/ pc' = "ended" /\ status' \in {"-1", "0", "terminate", "abort"} /\ load'.op = "idle"
             \/ /\ pc' \in {"load", "loading"} \cup AfterLoad /\ UNCHANGED status
                /\ load'.op \in {"idle", load.op}
      PROVE  BatchTypeOK' /\ Given' /\ LoadsAsAsked'
  BY <1>1, <1>3 DEF BatchTypeOK, Given, LoadsAsAsked, Statuses, AfterLoad
<1>4. CASE LoadData
  <2>1. /\ pc = "load" /\ pc' = "loading" /\ UNCHANGED <<line, config, files, status>>
        /\ load'.op = "parseAndLoad" => ~IsBuiltin
    BY <1>4 DEF LoadData, Then, ParseAndLoad, BuildSampleBom, BeginLoad
  <2> QED
    BY <1>1, <2>1 DEF BatchTypeOK, Given, LoadsAsAsked, IsBuiltin
<1>5. CASE RunLoad
  <2>1. /\ pc = "loading" /\ UNCHANGED <<line, config, files>>
        /\ load'.op \in {"idle", load.op}
    BY <1>1, <1>5, LoadGoesOn DEF RunLoad, Then, Exit, Return
  <2>2. \/ pc' = "ended" /\ status' = "terminate" /\ load' = NoLoad
        \/ pc' \in {"loading", "request"} /\ UNCHANGED status
    BY <1>5 DEF RunLoad, Then, Exit
  <2>3. CASE pc' = "ended" /\ status' = "terminate" /\ load' = NoLoad
    <3>1. pc \notin {"options", "ended"} /\ load'.op = "idle"
      BY <1>1, <2>1, <2>3
    <3> QED
      BY <1>3, <2>1, <2>3, <3>1
  <2>4. CASE pc' \in {"loading", "request"} /\ UNCHANGED status
    <3>1. pc \notin {"options", "ended"} /\ pc' \in {"load", "loading"} \cup AfterLoad
      BY <2>1, <2>4 DEF AfterLoad
    <3> QED
      BY <1>3, <2>1, <2>4, <3>1
  <2> QED
    BY <2>2, <2>3, <2>4
<1>6. CASE ConstructService \/ BuildBookingRequest \/ SearchSolutions \/ QuoteFares \/ ChooseFirst
           \/ Sell \/ Selling \/ Display \/ Throws
  <2>1. load' = NoLoad
    <3>1. UNCHANGED load
      BY <1>6, SalesAreSteps
      DEF ConstructService, BuildBookingRequest, SearchSolutions, QuoteFares, ChooseFirst, Sell,
          Selling, Display, Throws, ServiceUnchanged, serviceVars, dataVars, SalesOnly
    <3> QED
      BY <1>1, <1>6, <3>1
      DEF ConstructService, BuildBookingRequest, SearchSolutions, QuoteFares, ChooseFirst, Sell,
          Selling, Display, Throws
  <2>2. /\ pc \notin {"options", "ended"} /\ UNCHANGED <<line, config, files>>
        /\ \/ pc' = "ended" /\ status' \in {"-1", "0", "terminate", "abort"}
           \/ pc' \in {"load", "loading"} \cup AfterLoad /\ UNCHANGED status
    BY <1>6
    DEF ConstructService, BuildBookingRequest, SearchSolutions, QuoteFares, ChooseFirst, Sell,
        Selling, Display, Throws, Then, Exit, AfterLoad
  <2> QED
    BY <1>1, <1>3, <2>1, <2>2
<1>7. CASE UNCHANGED batchVars
  BY <1>1, <1>7 DEF batchVars, mainVars, serviceVars, dataVars, BatchTypeOK, Given, LoadsAsAsked
<1> QED
  BY <1>2, <1>4, <1>5, <1>6, <1>7 DEF MainStep

--------------------------------------------------------------------------------
(* The load *)

\* By the number of layers left to load, each is loaded once.
LEMMA LoadedOnceKept ==
  ASSUME BatchInv, [MainStep \/ Throws]_batchVars
  PROVE  LoadedOnce'
<1>1. LoadedOnce /\ ServiceInv /\ DataInv /\ NoLoad.op = "idle"
  BY DEF BatchInv, ServiceInv, NoLoad
<1>2. CASE LoadData
  <2>1. /\ own /\ pc = "load" /\ pc' = "loading" /\ load = NoLoad /\ persistent = EmptyTree
        /\ UNCHANGED <<own, persistent>>
    BY <1>1, <1>2 DEF LoadData, Then, ParseAndLoad, BuildSampleBom, BeginLoad, LoadedOnce, BeforeLoad
  <2>2. /\ load'.op \in {"parseAndLoad", "buildSampleBom"}
        /\ Len(load'.todo) \in {7, 8}
    <3>1. CASE ParseAndLoad
      BY <2>1, <3>1, LoadRow DEF ParseAndLoad, BeginLoad
    <3>2. CASE BuildSampleBom
      BY <2>1, <3>2, SampleRow DEF BuildSampleBom, BeginLoad
    <3> QED
      BY <1>2, <3>1, <3>2 DEF LoadData
  <2>3. Loading' /\ own'
    BY <2>1, <2>2 DEF Loading
  <2>4. LoadsLeft' \in {3, 4}
    <3>1. LoadsLeft' = Len(load'.todo) - 4
      BY <2>3 DEF LoadsLeft, Left
    <3> QED
      BY <2>2, <3>1
  <2>5. /\ persistent'.torn = {}
        /\ \A k \in Components : persistent'.loads[k] = 0
    BY <2>1 DEF EmptyTree, Layers, Components
  <2>6. /\ pc' = "loading" /\ "loading" \notin BeforeLoad \cup AfterLoad
    BY <2>1 DEF BeforeLoad, AfterLoad
  <2>7. /\ persistent'.loads["airtsp"] = IF LoadsLeft' >= 3 THEN 0 ELSE 1
        /\ persistent'.loads["airinv"] = IF LoadsLeft' >= 2 THEN 0 ELSE 1
        /\ persistent'.loads["simfqt"] = IF LoadsLeft' >= 1 THEN 0 ELSE 1
    BY <2>4, <2>5 DEF Components
  <2> QED
    BY <2>3, <2>5, <2>6, <2>7 DEF LoadedOnce
<1>3. CASE RunLoad
  <2>1. pc = "loading" /\ (LoadStep \/ TreeStep) /\ own' = own /\ own /\ load.op # "idle" /\ Loading
    BY <1>1, <1>3, LoadGoesOn DEF RunLoad, LoadedOnce
  <2>2. CASE load' = NoLoad /\ outcome' = "threw"
    BY <1>1, <1>3, <2>1, <2>2 DEF RunLoad, Exit, LoadedOnce, BeforeLoad, AfterLoad
  <2>3. CASE Return /\ load' = NoLoad
    <3>1. load.todo = <<>> /\ UNCHANGED persistent /\ outcome' = load.op
      BY <2>3 DEF Return
    <3>2. LoadsLeft = -4
      BY <1>1, <2>1, <3>1, CallHasTask DEF LoadsLeft
    <3>3. outcome' \in {"parseAndLoad", "buildSampleBom"}
      BY <2>1, <3>1 DEF Loading
    <3>4. pc' = "request"
      BY <1>3, <2>3, <3>3 DEF RunLoad, Then
    <3> QED
      BY <1>1, <2>1, <2>3, <3>1, <3>2, <3>3, <3>4 DEF LoadedOnce, BeforeLoad, AfterLoad, Components
  <2>4. CASE /\ load.todo # <<>> /\ Done /\ load' # NoLoad /\ load'.op = load.op
             /\ LoadLayer \/ (Task.do # "load" /\ persistent' = persistent)
    <3>1. LoadsLeft' = LoadsLeft - 1 /\ Loading' /\ LoadsLeft \in Int
      BY <1>1, <2>1, <2>4, TaskDone, CallHasTask
    <3>2. pc' = "loading"
      BY <1>3, <2>4 DEF RunLoad, Then
    <3>3. /\ persistent.torn = {}
          /\ persistent.loads["airtsp"] = IF LoadsLeft >= 3 THEN 0 ELSE 1
          /\ persistent.loads["airinv"] = IF LoadsLeft >= 2 THEN 0 ELSE 1
          /\ persistent.loads["simfqt"] = IF LoadsLeft >= 1 THEN 0 ELSE 1
      BY <1>1, <2>1 DEF LoadedOnce
    <3>4. CASE LoadLayer
      <4>1. Task.do = "load" /\ persistent' = [persistent EXCEPT !.loads[Task.layer] = @ + 1]
        BY <3>4 DEF LoadLayer, Doing
      <4>2. /\ LoadsLeft \in 1..4
            /\ LoadsLeft = 4 => Task.layer = "stdair"
            /\ LoadsLeft = 3 => Task.layer = "airtsp"
            /\ LoadsLeft = 2 => Task.layer = "airinv"
            /\ LoadsLeft = 1 => Task.layer = "simfqt"
        BY <1>1, <2>1, <2>4, <4>1, TaskByNumber
      <4>3. /\ persistent'.torn = persistent.torn
            /\ \A k \in Layers : persistent'.loads[k] =
                 IF k = Task.layer THEN persistent.loads[k] + 1 ELSE persistent.loads[k]
        BY <1>1, <4>1, <4>2 DEF DataInv, DataTypeOK, Tree, Layers, Components
      <4>4. /\ persistent'.loads["airtsp"] = IF LoadsLeft' >= 3 THEN 0 ELSE 1
            /\ persistent'.loads["airinv"] = IF LoadsLeft' >= 2 THEN 0 ELSE 1
            /\ persistent'.loads["simfqt"] = IF LoadsLeft' >= 1 THEN 0 ELSE 1
        BY <3>1, <3>3, <4>2, <4>3 DEF Layers, Components
      <4> QED
        BY <2>1, <3>1, <3>2, <3>3, <4>3, <4>4 DEF LoadedOnce, BeforeLoad, AfterLoad
    <3>5. CASE Task.do # "load" /\ persistent' = persistent
      <4>1. LoadsLeft <= 0
        BY <1>1, <2>1, <2>4, <3>5, TaskByNumber DEF LoadsLeft
      <4> QED
        BY <2>1, <3>1, <3>2, <3>3, <3>5, <4>1 DEF LoadedOnce, BeforeLoad, AfterLoad
    <3> QED
      BY <2>4, <3>4, <3>5
  <2> QED
    BY <1>1, <2>1, <2>2, <2>3, <2>4, LoadGoesOn
<1>4. ASSUME UNCHANGED dataVars, pc' = pc \/ pc' = "ended" \/ (pc' \in BeforeLoad /\ pc \in BeforeLoad)
                                  \/ (pc' \in AfterLoad /\ pc \in AfterLoad),
             pc # "loading" \/ pc' = "loading"
      PROVE  LoadedOnce'
  BY <1>1, <1>4 DEF LoadedOnce, dataVars, BeforeLoad, AfterLoad, Loading, LoadsLeft, Left
<1>5. CASE ReadConfiguration \/ ConstructService \/ BuildBookingRequest \/ Display \/ Throws
  BY <1>4, <1>5
  DEF ReadConfiguration, ConstructService, BuildBookingRequest, Display, Throws, ServiceUnchanged,
      serviceVars, Then, Exit, BeforeLoad, AfterLoad
<1>6. CASE SearchSolutions \/ QuoteFares \/ ChooseFirst \/ Sell \/ Selling
  <2>1. UNCHANGED dataVars
    BY <1>6, SalesAreSteps
    DEF SearchSolutions, QuoteFares, ChooseFirst, Sell, Selling, ServiceUnchanged, serviceVars, SalesOnly
  <2>2. pc \in AfterLoad /\ pc' \in AfterLoad \cup {"ended"}
    BY <1>6 DEF SearchSolutions, QuoteFares, ChooseFirst, Sell, Selling, Then, Exit, AfterLoad
  <2> QED
    BY <1>4, <2>1, <2>2 DEF AfterLoad
<1>7. CASE UNCHANGED batchVars
  BY <1>4, <1>7 DEF batchVars, serviceVars, mainVars
<1> QED
  BY <1>2, <1>3, <1>5, <1>6, <1>7 DEF MainStep

--------------------------------------------------------------------------------
(* The sale *)

\* What main holds was searched, priced and chosen, never given ids.
LEMMA KeysKept ==
  ASSUME BatchInv, [MainStep \/ Throws]_batchVars
  PROVE  ByKeys'
<1>1. /\ ~ByIds(choice[Main])
      /\ \A i \in DOMAIN solutions[Main] : ~ByIds(solutions[Main][i])
      /\ Main \in Trips
      /\ solutions \in [Trips -> Seq(TravelSolution)] /\ choice \in [Trips -> TravelSolution]
  BY DEF BatchInv, ByKeys, ServiceInv, SalesGrounds, TypeOK
<1>2. CASE SearchSolutions
  <2>1. PICK l \in SearchLists :
          solutions' = [solutions EXCEPT ![Main] = [i \in DOMAIN l |-> Unpriced(l[i])]]
    BY <1>2 DEF SearchSolutions, Search, CalculateSegmentPathList
  <2>2. solutions'[Main] = [i \in DOMAIN l |-> Unpriced(l[i])] /\ choice' = choice
    BY <1>1, <1>2, <2>1 DEF SearchSolutions, Search, CalculateSegmentPathList
  <2> QED
    BY <1>1, <2>2 DEF ByKeys, ByIds, Unpriced
<1>3. CASE QuoteFares
  <2>1. /\ choice' = choice
        /\ solutions' = [solutions EXCEPT
             ![Main] = [i \in DOMAIN solutions[Main] |-> Priced(solutions[Main][i])]]
    BY <1>1, <1>3 DEF QuoteFares, Quote, FareQuote, PriceOnly
  <2>2. solutions'[Main] = [i \in DOMAIN solutions[Main] |-> Priced(solutions[Main][i])]
    BY <1>1, <2>1
  <2>3. \A sol \in TravelSolution : Priced(sol).held = sol.held
    BY DEF Priced, TravelSolution
  <2>4. \A i \in DOMAIN solutions[Main] : solutions[Main][i] \in TravelSolution
    BY <1>1, ElementOfSeq, LenProperties
  <2> QED
    BY <1>1, <2>1, <2>2, <2>3, <2>4 DEF ByKeys, ByIds
<1>4. CASE ChooseFirst
  <2>1. CASE ServiceUnchanged
    BY <1>1, <2>1 DEF ServiceUnchanged, serviceVars, vars, ByKeys
  <2>2. CASE Choose(Main) /\ ChooseFare(Main)
    <3>1. PICK i \in DOMAIN solutions[Main] : \E cp \in solutions[Main][i].fares :
            choice' = [choice EXCEPT ![Main] = [solutions[Main][i] EXCEPT !.classPath = cp]]
      BY <2>2 DEF ChooseFare
    <3>2. solutions[Main][i] \in TravelSolution
      BY <1>1, ElementOfSeq, LenProperties
    <3>3. choice'[Main].held = solutions[Main][i].held /\ solutions' = solutions
      BY <1>1, <2>2, <3>1, <3>2 DEF TravelSolution, ChooseFare
    <3> QED
      BY <1>1, <3>3 DEF ByKeys, ByIds
  <2>3. CASE Choose(Main) /\ ChooseSegment(Main)
    <3>1. PICK p \in Paths, c \in Classes :
            choice' = [choice EXCEPT ![Main] = [Unpriced(p) EXCEPT !.classPath = << <<c>> >>]]
      BY <2>3 DEF ChooseSegment
    <3>2. choice'[Main].held = <<>> /\ solutions' = solutions
      BY <1>1, <2>3, <3>1 DEF Unpriced, ChooseSegment
    <3> QED
      BY <1>1, <3>2 DEF ByKeys, ByIds
  <2> QED
    BY <1>4, <2>1, <2>2, <2>3 DEF ChooseFirst, Choose
<1>5. CASE UNCHANGED <<choice, solutions>>
  BY <1>1, <1>5 DEF ByKeys
<1>6. Sell \/ Selling => UNCHANGED <<choice, solutions>>
  <2>1. CallBegin(Main) => UNCHANGED <<choice, solutions>>
    BY DEF CallBegin, AvailabilityBegin, SellBegin, CancelBegin
  <2>2. SaleStep => UNCHANGED <<choice, solutions>>
    BY DEF SaleStep, SellReturn, CancelReturn, SellAbort, SellLegById, SellLegByKey, CancelLeg,
       SellSegment
  <2> QED
    BY <2>1, <2>2 DEF Sell, Selling
<1>7. LoadData \/ RunLoad => UNCHANGED <<choice, solutions>>
  BY DEF LoadData, RunLoad, LoadStep, TreeStep, NewTree, vars
<1>8. ReadConfiguration \/ ConstructService \/ BuildBookingRequest \/ Display \/ Throws
      \/ UNCHANGED batchVars => UNCHANGED <<choice, solutions>>
  BY DEF ReadConfiguration, ConstructService, BuildBookingRequest, Display, Throws,
     ServiceUnchanged, batchVars, serviceVars, vars
<1> QED
  BY <1>2, <1>3, <1>4, <1>5, <1>6, <1>7, <1>8 DEF MainStep

\* One AirInv call sells to main's party or sells nothing.
LEMMA LegSells ==
  ASSUME BatchInv, pc = "selling", SellLegById \/ SellLegByKey
  PROVE  \/ call' = Idle /\ belief'[Main] = "unknown"
         \/ call'.op = "sell" /\ Sold' = call'.done
<1>1. /\ IInv /\ Main \in Trips /\ Party[Main] = 3 /\ Sold = call.done /\ call.op = "sell"
      /\ booked \in [BookingClasses -> Nat] /\ belief \in [Trips -> Beliefs]
  BY DEF BatchInv, SeatsOfSale, IInv, TypeOK
<1>2. call.trip = Main
  BY <1>1, CallHasTrip DEF IInv
<1>3. PICK b : LegTurn(b)
  BY <1>1, LegTurns
<1>4. CASE call' = Idle /\ belief' = [belief EXCEPT ![call.trip] = "unknown"]
  BY <1>1, <1>2, <1>4
<1>5. CASE NextLeg(FALSE, {}) /\ UNCHANGED booked
  BY <1>1, <1>5 DEF NextLeg, Sold
<1>6. CASE b \in BookingClasses /\ NextLeg(TRUE, {b}) /\ Take(Main, b)
  <2>1. /\ call'.op = "sell" /\ call'.done = call.done \cup {b}
        /\ booked' = [booked EXCEPT ![b] = booked[b] + 3]
    BY <1>1, <1>6 DEF NextLeg, Take
  <2>2. \A x \in BookingClasses : booked'[x] = IF x = b THEN booked[b] + 3 ELSE booked[x]
    BY <1>1, <2>1
  <2>3. Sold' = Sold \cup {b}
    BY <1>1, <1>6, <2>2 DEF Sold
  <2> QED
    BY <1>1, <2>1, <2>3
<1> QED
  BY <1>1, <1>2, <1>3, <1>4, <1>5, <1>6, TurnOutcomes

\* The answer to a one-leg sale tells whether its seats are booked.
LEMMA ReturnAnswers ==
  ASSUME BatchInv, pc = "selling", SellReturn
  PROVE  /\ belief'[Main] \in {"open", "booked"} /\ UNCHANGED <<choice, booked>>
         /\ Len(choice[Main].path) = 1 => (belief'[Main] = "booked" <=> Sold # {})
<1>1. /\ IInv /\ Main \in Trips /\ Sold = call.done /\ call.op = "sell" /\ ~ByIds(choice[Main])
      /\ belief \in [Trips -> Beliefs] /\ call.leg \in Nat
  BY DEF BatchInv, SeatsOfSale, IInv, TypeOK, Call, ByKeys
<1>2. call.trip = Main /\ Choice = choice[Main]
  BY <1>1, CallHasTrip DEF IInv, Choice
<1>3. /\ belief' = [belief EXCEPT ![Main] = IF call.answer THEN "booked" ELSE "open"]
      /\ UNCHANGED <<choice, booked>> /\ call.leg > Len(choice[Main].path)
  <2>1. belief[Main] = "open"
    BY <1>1, <1>2 DEF IInv, CallerWaits
  <2> QED
    BY <1>1, <1>2, <2>1 DEF SellReturn, LoopLength, Legs
<1>4. ASSUME Len(choice[Main].path) = 1
      PROVE  call.answer <=> call.done # {}
  <2>1. /\ call.leg - 1 <= 1
        /\ \A b \in call.done : \E i \in 1 .. call.leg - 1 : b \in LegBookings(Choice, i)
        /\ call.answer <=> \E b \in call.done : call.leg > 1 /\ b[1] = Choice.path[call.leg - 1]
    BY <1>1, <1>2, <1>4 DEF IInv, AnswerIsLastLeg
  <2>2. call.leg = 2
    BY <1>1, <1>3, <1>4, <2>1
  <2>3. /\ \A b \in call.done : \E i \in 1 .. 1 : b \in LegBookings(Choice, i)
        /\ call.answer <=> \E b \in call.done : b[1] = Choice.path[1]
    BY <2>1, <2>2
  <2>4. \A b \in call.done : b \in LegBookings(Choice, 1)
    BY <2>3
  <2>5. \A b \in call.done : b[1] = Choice.path[1]
    BY <1>1, <1>2, <2>4 DEF LegBookings, Legs
  <2> QED
    BY <2>3, <2>5
<1> QED
  BY <1>1, <1>3, <1>4

\* Nothing is sold before the sale begins, and nothing but it moves a seat.
LEMMA SeatsKept ==
  ASSUME BatchInv, [MainStep \/ Throws]_batchVars
  PROVE  SeatsOfSale'
<1>1. /\ SeatsOfSale /\ Main \in Trips /\ Idle.op = "idle"
      /\ belief \in [Trips -> Beliefs]
  BY IdleFacts DEF BatchInv, IInv, TypeOK
<1>2. CASE Sell
  <2>1. /\ pc = "sell" /\ pc' = "selling" /\ call = Idle /\ Sold = {} /\ booked' = booked
        /\ Begin("avail", Main) \/ Begin("sell", Main) \/ Begin("cancel", Main)
        /\ call'.op = "sell"
    BY <1>1, <1>2
    DEF Sell, Then, CallBegin, AvailabilityBegin, SellBegin, CancelBegin, SeatsOfSale
  <2>2. call'.done = {} /\ Sold' = {}
    BY <2>1, BeginFacts DEF Sold, Ops
  <2> QED
    BY <2>1, <2>2 DEF SeatsOfSale
<1>3. CASE Selling
  <2>1. pc = "selling" /\ SaleStep /\ call.op = "sell" /\ Sold = call.done
    BY <1>1, <1>3 DEF Selling, SeatsOfSale
  <2>2. CASE SellLegById \/ SellLegByKey
    <3>1. CASE call' = Idle /\ belief'[Main] = "unknown"
      BY <1>1, <1>3, <3>1 DEF Selling, Exit, SeatsOfSale
    <3>2. CASE call'.op = "sell" /\ Sold' = call'.done
      BY <1>1, <1>3, <3>2 DEF Selling, Then, SeatsOfSale
    <3> QED
      BY <2>1, <2>2, <3>1, <3>2, LegSells
  <2>3. CASE SellReturn
    <3>1. /\ call' = Idle /\ belief'[Main] \in {"open", "booked"} /\ UNCHANGED <<choice, booked>>
          /\ Len(choice[Main].path) = 1 => (belief'[Main] = "booked" <=> Sold # {})
      BY <2>1, <2>3, ReturnAnswers DEF SellReturn
    <3>2. pc' = "display" /\ Sold' = Sold
      BY <1>1, <1>3, <3>1 DEF Selling, Then, Sold
    <3> QED
      BY <3>1, <3>2 DEF SeatsOfSale
  <2>4. CASE SellAbort
    <3>1. call'.op = "abort" /\ pc' = "ended"
      <4>1. call' = [call EXCEPT !.op = "abort"] /\ call \in Call
        BY <2>4 DEF SellAbort, BatchInv, IInv, TypeOK
      <4> QED
        BY <1>3, <4>1 DEF Call, Selling, Exit
    <3> QED
      BY <3>1 DEF SeatsOfSale
  <2> QED
    BY <1>1, <2>1, <2>2, <2>3, <2>4 DEF SaleStep, CancelReturn, CancelLeg, SellSegment
<1>4. CASE RunLoad
  <2>1. pc = "loading" /\ pc' \in {"loading", "ended", "request"} /\ UNCHANGED <<belief, call>>
    BY <1>4 DEF RunLoad, Then, Exit, LoadStep, TreeStep, NewTree, vars
  <2>2. Sold' = {}
    <3>1. CASE LoadStep
      BY <1>1, <2>1, <3>1 DEF LoadStep, vars, Sold, SeatsOfSale
    <3>2. CASE TreeStep
      BY <3>2 DEF TreeStep, NewTree, Sold
    <3> QED
      BY <1>4, <3>1, <3>2 DEF RunLoad
  <2> QED
    BY <1>1, <2>1, <2>2 DEF SeatsOfSale
<1>5. ASSUME UNCHANGED <<booked, belief, call>>, pc \notin {"selling", "display", "ended"},
             pc' \notin {"selling", "display"}, pc' = "ended" \/ pc # "sell"
      PROVE  SeatsOfSale'
  BY <1>1, <1>5 DEF SeatsOfSale, Sold
<1>6. CASE SearchSolutions \/ QuoteFares
  <2>1. UNCHANGED <<booked, belief, call>>
    BY <1>6
    DEF SearchSolutions, QuoteFares, Search, Quote, CalculateSegmentPathList, FareQuote, PriceOnly
  <2> QED
    BY <1>5, <1>6, <2>1 DEF SearchSolutions, QuoteFares, Then, Exit
<1>7. CASE ChooseFirst
  <2>1. UNCHANGED <<booked, call>> /\ pc = "choose" /\ pc' \in {"sell", "ended"}
    BY <1>7
    DEF ChooseFirst, ServiceUnchanged, serviceVars, vars, Choose, ChooseFare, ChooseSegment, Then, Exit
  <2> QED
    BY <1>1, <2>1 DEF SeatsOfSale, Sold
<1>8. CASE ReadConfiguration \/ ConstructService \/ LoadData \/ BuildBookingRequest
  <2>1. UNCHANGED <<booked, belief, call>>
    BY <1>8 DEF ReadConfiguration, ConstructService, LoadData, BuildBookingRequest,
                ServiceUnchanged, serviceVars, vars
  <2> QED
    BY <1>5, <1>8, <2>1 DEF ReadConfiguration, ConstructService, LoadData, BuildBookingRequest,
                            Then, Exit
<1>9. CASE Display \/ Throws
  BY <1>9 DEF Display, Throws, Exit, SeatsOfSale
<1>10. CASE UNCHANGED batchVars
  BY <1>1, <1>10 DEF batchVars, serviceVars, vars, mainVars, SeatsOfSale, Sold
<1> QED
  BY <1>2, <1>3, <1>4, <1>6, <1>7, <1>8, <1>9, <1>10 DEF MainStep

\* The exit status is given with the sale as it was when main decided to stop.
LEMMA StatusKept ==
  ASSUME BatchInv, [MainStep \/ Throws]_batchVars
  PROVE  StatusTells'
<1>1. StatusTells /\ SeatsOfSale /\ (pc # "ended" => status = "running")
  BY DEF BatchInv, BatchTypeOK
<1>2. CASE UNCHANGED batchVars
  BY <1>1, <1>2 DEF batchVars, serviceVars, vars, mainVars, StatusTells, Sold
<1>3. CASE SearchSolutions \/ ChooseFirst
  <2>1. Sold' = Sold /\ Sold = {} /\ status' \in {"running", "-1", "abort"}
    BY <1>1, <1>3
    DEF SearchSolutions, Search, CalculateSegmentPathList, ChooseFirst, ServiceUnchanged,
        serviceVars, vars, Choose, ChooseFare, ChooseSegment, Then, Exit, SeatsOfSale, Sold
  <2> QED
    BY <2>1 DEF StatusTells
<1>4. CASE ReadConfiguration \/ Display
  <2>1. UNCHANGED <<booked, belief, choice>> /\ status' # "-1" /\ pc \in {"options", "display"}
    BY <1>1, <1>4 DEF ReadConfiguration, Display, ServiceUnchanged, serviceVars, vars, Exit
  <2> QED
    BY <1>1, <2>1 DEF StatusTells, SeatsOfSale, Sold
<1>5. CASE ConstructService \/ LoadData \/ RunLoad \/ BuildBookingRequest \/ QuoteFares \/ Sell
           \/ Selling \/ Throws
  <2>1. status' \in {"running", "terminate", "abort"}
    BY <1>1, <1>5
    DEF ConstructService, LoadData, RunLoad, BuildBookingRequest, QuoteFares, Sell, Selling, Throws,
        Then, Exit
  <2> QED
    BY <2>1 DEF StatusTells
<1> QED
  BY <1>2, <1>3, <1>4, <1>5 DEF MainStep

\* Main prices and chooses from a list that has a front: an empty one made it exit.
LEMMA FrontsKept ==
  ASSUME BatchInv, [MainStep \/ Throws]_batchVars
  PROVE  FrontsThere'
<1>1. FrontsThere /\ Main \in Trips /\ solutions \in [Trips -> Seq(TravelSolution)]
  BY DEF BatchInv, IInv, TypeOK
<1>2. CASE SearchSolutions
  BY <1>2 DEF SearchSolutions, Then, Exit, FrontsThere
<1>3. CASE QuoteFares
  <2>1. /\ pc = "quote" /\ solutions[Main] # <<>>
        /\ solutions' = [solutions EXCEPT
             ![Main] = [i \in DOMAIN solutions[Main] |-> Priced(solutions[Main][i])]]
    BY <1>1, <1>3 DEF QuoteFares, Quote, FareQuote, PriceOnly, FrontsThere
  <2>2. DOMAIN solutions'[Main] = DOMAIN solutions[Main] /\ DOMAIN solutions[Main] # {}
    BY <1>1, <2>1, EmptySeq, LenProperties
  <2>3. solutions'[Main] # <<>>
    BY <2>2, EmptySeq
  <2> QED
    BY <2>3 DEF FrontsThere
<1>4. CASE UNCHANGED batchVars
  BY <1>1, <1>4 DEF batchVars, serviceVars, vars, mainVars, FrontsThere
<1>5. CASE ReadConfiguration \/ ConstructService \/ LoadData \/ RunLoad \/ BuildBookingRequest
           \/ ChooseFirst \/ Sell \/ Selling \/ Display \/ Throws
  <2>1. pc' \notin {"quote", "choose"}
    BY <1>5
    DEF ReadConfiguration, ConstructService, LoadData, RunLoad, BuildBookingRequest, ChooseFirst, Sell,
        Selling, Display, Throws, Then, Exit
  <2> QED
    BY <2>1 DEF FrontsThere
<1> QED
  BY <1>2, <1>3, <1>4, <1>5 DEF MainStep

\* What ends main without an exception is the sale of a fare that does not fit.
LEMMA MisfitKept ==
  ASSUME BatchInv, [MainStep \/ Throws]_batchVars
  PROVE  DiesOnlyOfMisfit'
<1>1. /\ DiesOnlyOfMisfit /\ FrontsThere /\ Main \in Trips
      /\ status = "abort" => pc = "ended"
  BY DEF BatchInv, BatchTypeOK
<1>2. CASE UNCHANGED batchVars
  BY <1>1, <1>2 DEF batchVars, serviceVars, vars, mainVars, DiesOnlyOfMisfit, FareFits, Named
<1>3. CASE Selling /\ call'.op = "abort"
  <2>1. Careful' /\ TypeOK' /\ CallerWaits' /\ AbortNeedsMisfit'
    BY BookingsKept DEF IInv
  <2>2. call'.trip \in Trips
    BY <1>3, <2>1 DEF TypeOK, CallerWaits, Call
  <2>3. call'.trip = Main
    BY <2>2
  <2> QED
    BY <1>3, <2>1, <2>3 DEF AbortNeedsMisfit, DiesOnlyOfMisfit, Choice, FareFits, Named
<1>4. CASE Selling /\ call'.op # "abort"
  <2>1. status' # "abort"
    BY <1>1, <1>4 DEF Selling, Then, Exit
  <2> QED
    BY <2>1 DEF DiesOnlyOfMisfit
<1>5. CASE ReadConfiguration \/ ConstructService \/ LoadData \/ RunLoad \/ BuildBookingRequest
           \/ SearchSolutions \/ QuoteFares \/ ChooseFirst \/ Sell \/ Display \/ Throws
  <2>1. status' # "abort"
    BY <1>1, <1>5
    DEF ReadConfiguration, ConstructService, LoadData, RunLoad, BuildBookingRequest, SearchSolutions,
        QuoteFares, ChooseFirst, Sell, Display, Throws, Then, Exit, FrontsThere
  <2> QED
    BY <2>1 DEF DiesOnlyOfMisfit
<1> QED
  BY <1>2, <1>3, <1>4, <1>5 DEF MainStep

--------------------------------------------------------------------------------
(* Theorems *)

LEMMA BatchInitInv == BatchInit => BatchInv
<1> SUFFICES ASSUME BatchInit PROVE BatchInv
  OBVIOUS
<1>1. /\ ServiceInit /\ Init /\ DataInit /\ own = TRUE /\ pc = "options" /\ status = "running"
      /\ files = [f \in Inputs |-> "none"] /\ Main \in Trips
  BY DEF BatchInit, ServiceInit
<1>2. ServiceInv /\ IInv
  BY <1>1, ServiceInitInv, InitIInv
<1>3. /\ load = NoLoad /\ persistent = EmptyTree /\ load.op = "idle" /\ call = Idle
      /\ \A b \in BookingClasses : booked[b] = 0
      /\ belief[Main] = "looking" /\ solutions[Main] = <<>> /\ choice[Main].held = <<>>
  BY <1>1 DEF DataInit, NoLoad, Init, Unpriced
<1>4. Sold = {}
  BY <1>3 DEF Sold
<1>5. BatchTypeOK /\ Given /\ LoadsAsAsked /\ StatusTells /\ FrontsThere /\ DiesOnlyOfMisfit
  BY <1>1, <1>3 DEF BatchTypeOK, Given, LoadsAsAsked, StatusTells, FrontsThere, DiesOnlyOfMisfit,
                    Sources, Statuses
<1>6. LoadedOnce
  BY <1>1, <1>3 DEF LoadedOnce, BeforeLoad, AfterLoad
<1>7. ByKeys /\ SeatsOfSale
  BY <1>1, <1>3, <1>4, EmptySeq DEF ByKeys, ByIds, SeatsOfSale
<1> QED
  BY <1>2, <1>5, <1>6, <1>7 DEF BatchInv

LEMMA BatchInvStep ==
  ASSUME BatchInv, [MainStep \/ Throws]_batchVars
  PROVE  BatchInv'
<1>1. ServiceInv'
  <2>1. [ServiceNext]_serviceVars
    BY MainIsService DEF BatchInv, batchVars
  <2> QED
    BY <2>1, ServiceInvStep DEF BatchInv
<1> QED
  BY <1>1, BookingsKept, FilesKept, LoadedOnceKept, KeysKept, SeatsKept, StatusKept,
     FrontsKept, MisfitKept
  DEF BatchInv

\* Every reachable state of the program satisfies the invariant.
THEOREM BatchInductive == BatchSpec => []BatchInv
<1>1. BatchInv /\ [MainStep \/ Throws]_batchVars => BatchInv'
  BY BatchInvStep
<1> QED
  BY <1>1, BatchInitInv, PTL DEF BatchSpec

\* Whatever is on the command line and in simcrs.cfg, main never gets past its options
\* with an input file that has no name, and has a status exactly when it has ended.
THEOREM BatchTypesHold == BatchSpec => []BatchTypeOK
<1>1. BatchInv => BatchTypeOK
  BY DEF BatchInv
<1> QED
  BY <1>1, BatchInductive, PTL

\* What is parsed is what the user asked for, from the source that takes precedence.
THEOREM LoadsWhatWasAsked == BatchSpec => []LoadsAsAsked
<1>1. BatchInv => LoadsAsAsked
  BY DEF BatchInv
<1> QED
  BY <1>1, BatchInductive, PTL

\* An error exit has sold nothing, and a zero comes with AirInv's own answer.
THEOREM ExitTellsTheSale == BatchSpec => []StatusTells
<1>1. BatchInv => StatusTells
  BY DEF BatchInv
<1> QED
  BY <1>1, BatchInductive, PTL

\* Main dies without an exception only in the sale of a fare that does not fit, and never
\* of an empty list.
THEOREM DeathsAreMisfits == BatchSpec => []DiesOnlyOfMisfit
<1>1. BatchInv => DiesOnlyOfMisfit
  BY DEF BatchInv
<1> QED
  BY <1>1, BatchInductive, PTL

\* The one sale of the program is made in a whole and linked copy of a tree that was
\* loaded once, by keys, over every segment of the solution.
THEOREM SellsWhenComplete == BatchSpec => []SellsOnCompleteTree
<1>1. BatchInv => SellsOnCompleteTree
  <2> SUFFICES ASSUME BatchInv, pc \in {"sell", "selling", "display"}
               PROVE  /\ working.whole /\ working.tree = persistent /\ working.tree.torn = {}
                      /\ \A k \in Components : working.tree.loads[k] = 1
                      /\ working.links = Components
                      /\ ~Stale(Main) /\ LoopLength(choice[Main]) = Len(choice[Main].path)
    BY DEF SellsOnCompleteTree
  <2>1. /\ own /\ load = NoLoad /\ persistent.torn = {}
        /\ outcome \in {"parseAndLoad", "buildSampleBom"}
        /\ \A k \in Components : persistent.loads[k] = 1
    BY DEF BatchInv, LoadedOnce, AfterLoad
  <2>2. working.whole /\ working.tree = persistent /\ working.links = Components
    BY <2>1 DEF BatchInv, ServiceInv, DataInv, ReturnedMeansServed
  <2>3. ~ByIds(choice[Main])
    BY DEF BatchInv, ByKeys
  <2> QED
    BY <2>1, <2>2, <2>3 DEF Stale, LoopLength, Legs
<1> QED
  BY <1>1, BatchInductive, PTL

\* The program uses its service as any embedding program may: all that is proved of the
\* service holds in the program.
THEOREM ProgramUsesService == BatchSpec => ServiceSpec
<1>1. BatchInit => ServiceInit
  BY DEF BatchInit
<1>2. BatchInv /\ [MainStep \/ Throws]_batchVars => [ServiceNext]_serviceVars
  BY MainIsService DEF BatchInv, batchVars
<1> QED
  BY <1>1, <1>2, BatchInductive, PTL DEF BatchSpec, ServiceSpec

--------------------------------------------------------------------------------
(* The program comes to its end *)

Order == [options |-> 0, construct |-> 1, load |-> 2, loading |-> 3, request |-> 4, search |-> 5,
          quote |-> 6, choose |-> 7, sell |-> 8, selling |-> 9, display |-> 10, ended |-> 11]

\* A step of main goes on in its text, does a task of its load, or sells a leg.
Advances ==
  \/ Order[pc'] > Order[pc]
  \/ pc = "loading" /\ pc' = pc /\ Len(load'.todo) < Len(load.todo)
  \/ /\ pc = "selling" /\ pc' = pc /\ choice' = choice
     /\ call.leg <= Len(choice[Main].path) /\ call'.leg = call.leg + 1

MainAdvances == [][Advances]_batchVars

LEMMA StepAdvances ==
  ASSUME BatchInv, MainStep \/ Throws
  PROVE  Advances
<1>1. CASE RunLoad
  <2>1. pc = "loading" /\ (LoadStep \/ TreeStep)
    BY <1>1 DEF RunLoad
  <2>2. CASE load' = NoLoad
    BY <1>1, <2>1, <2>2 DEF RunLoad, Then, Exit, Advances, Order
  <2>3. CASE load' # NoLoad
    <3>1. load.todo # <<>> /\ Done /\ own' = own /\ load.op # "idle" /\ DataInv
      BY <2>1, <2>3, LoadGoesOn DEF BatchInv, ServiceInv
    <3>2. Left' = Left - 1 /\ Left \in Nat
      BY <3>1, TaskDone, CallHasTask
    <3> QED
      BY <1>1, <2>3, <3>2 DEF RunLoad, Then, Advances, Left
  <2> QED
    BY <2>2, <2>3
<1>2. CASE Selling
  <2>1. /\ pc = "selling" /\ Next /\ call.op = "sell" /\ Grounds /\ ~ByIds(choice[Main])
        /\ Main \in Trips /\ choice' = choice
    <3>1. SaleStep /\ pc = "selling" /\ IInv /\ SeatsOfSale /\ ByKeys
      BY <1>2 DEF Selling, BatchInv
    <3>2. choice' = choice
      BY <3>1 DEF SaleStep, SellReturn, CancelReturn, SellAbort, SellLegById, SellLegByKey, CancelLeg,
         SellSegment
    <3> QED
      BY <3>1, <3>2, SalesAreSteps, GroundsHold DEF SeatsOfSale, ByKeys
  <2>2. call.trip = Main
    BY <2>1, CallHasTrip DEF Grounds
  <2>3. CASE call'.op \in {"idle", "abort"}
    <3>1. pc' \in {"ended", "display"}
      <4>1. call'.op = "idle" => call' = Idle
        BY <2>1, GroundsStep DEF Grounds, CallerWaits
      <4> QED
        BY <1>2, <2>3, <4>1 DEF Selling, Then, Exit
    <3> QED
      BY <2>1, <3>1 DEF Advances, Order
  <2>4. CASE Turn /\ call'.op = "sell"
    <3>1. call.leg <= Len(choice[Main].path) /\ call'.leg = call.leg + 1
      BY <2>1, <2>2, <2>4 DEF Turn, Turns, LoopLength, Legs, ByIds, Choice
    <3>2. pc' = pc
      BY <1>2, <2>1, <2>4, IdleFacts DEF Selling, Then
    <3> QED
      BY <2>1, <3>1, <3>2 DEF Advances
  <2> QED
    BY <2>1, <2>3, <2>4, CallEndsOrTurns DEF InLoop, Turn
<1>3. CASE ReadConfiguration \/ ConstructService \/ LoadData \/ BuildBookingRequest \/ SearchSolutions
           \/ QuoteFares \/ ChooseFirst \/ Sell \/ Display \/ Throws
  BY <1>3
  DEF ReadConfiguration, ConstructService, LoadData, BuildBookingRequest, SearchSolutions, QuoteFares,
      ChooseFirst, Sell, Display, Throws, Then, Exit, Advances, Order
<1> QED
  BY <1>1, <1>2, <1>3 DEF MainStep

\* The part of MainEnds that does not rest on fairness: main never goes back in its text,
\* stays where it is only while tasks of its load or legs of its sale are left, and no
\* option, failed load or refused leg makes it start over.
THEOREM MainRunsOut == BatchSpec => MainAdvances
<1>1. BatchInv /\ [MainStep \/ Throws]_batchVars => [Advances]_batchVars
  BY StepAdvances
<1>2. BatchSpec => [][Advances]_batchVars
  BY <1>1, BatchInductive, PTL DEF BatchSpec
<1> QED
  BY <1>2 DEF MainAdvances
================================================================================
