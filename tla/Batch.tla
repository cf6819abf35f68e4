--------------------------------- MODULE Batch ---------------------------------
(***************************************************************************)
(* The program simcrs: it reads its options, constructs a service, loads   *)
(* or builds the data, searches and prices one booking request, sells its  *)
(* first solution to a party of three and displays the inventory.  Main is *)
(* that one caller of the composed service, and the program never catches  *)
(* an exception.                                                           *)
(*                                                                         *)
(* An option's value is abstracted to where it comes from: the command     *)
(* line, the file simcrs.cfg or the program's default.  The log and        *)
(* database options change nothing here and are left out.                  *)
(***************************************************************************)
EXTENDS SimCRS

CONSTANTS
  Main,      \* the booking request of the program
  Generic,   \* options that print something and end the program
  Inputs     \* options that name an input file

ASSUME MainAssumption == Trips = {Main} /\ Party[Main] = 3
\* "builtin" is an option with no value, "unknown" one the program does not declare.
ASSUME OptionsAssumption ==
  /\ Generic \cap Inputs = {}
  /\ {"builtin", "unknown"} \cap (Generic \cup Inputs) = {}

VARIABLES
  line, config,  \* options given on the command line and in simcrs.cfg
  pc,            \* what main does next
  status,        \* how the program ended
  files          \* where each input file name main has comes from

mainVars == <<line, config, pc, status, files>>
batchVars == <<serviceVars, mainVars>>

Options == Generic \cup Inputs \cup {"builtin", "unknown"}

Sources == {"none", "line", "config", "default"}
Statuses == {"running", "0", "-1", "terminate", "abort"}

BatchInit ==
  /\ ServiceInit /\ own = TRUE
  /\ line \in SUBSET Options /\ config \in SUBSET Options
  /\ pc = "options" /\ status = "running"
  /\ files = [f \in Inputs |-> "none"]

--------------------------------------------------------------------------------
(* Steps of main *)

Then(next) == pc' = next /\ UNCHANGED <<line, config, status, files>>

Exit(how) == pc' = "ended" /\ status' = how /\ UNCHANGED <<line, config, files>>

ServiceUnchanged == UNCHANGED serviceVars

\* Mutants of Stored: an option without a value given has none; the later source
\* overrides the earlier one.
StoredNoDefault(values, given, from) ==
  [f \in Inputs |-> IF values[f] \in {"none", "default"} /\ f \in given THEN from ELSE values[f]]

StoredLast(values, given, from) ==
  [f \in Inputs |-> IF f \in given THEN from
                    ELSE IF values[f] = "none" THEN "default" ELSE values[f]]

\* boost::program_options::store: a value given before stands, a default does not.
Stored(values, given, from) ==
  [f \in Inputs |-> IF values[f] \in {"none", "default"} /\ f \in given THEN from
                    ELSE IF values[f] = "none" THEN "default" ELSE values[f]]

\* An option that is not declared for its source throws; generic options are for the
\* command line only, where they end the program once both sources are read.
ReadConfiguration ==
  /\ pc = "options" /\ ServiceUnchanged
  /\ IF "unknown" \in line \/ config \cap (Generic \cup {"unknown"}) # {}
       THEN Exit("terminate")
     ELSE IF line \cap Generic # {}
       THEN Exit("0")
     ELSE /\ pc' = "construct"
          /\ files' = Stored(Stored(files, line, "line"), config, "config")
          /\ UNCHANGED <<line, config, status>>

IsBuiltin == "builtin" \in line \cup config

\* An exception out of the service's constructor or of any of its calls.
Throws ==
  /\ pc \in {"construct", "request", "search", "quote", "display"}
  /\ ServiceUnchanged /\ Exit("terminate")

ConstructService == pc = "construct" /\ ServiceUnchanged /\ Then("load")

LoadData ==
  /\ pc = "load" /\ trees < MaxTrees
  /\ IF IsBuiltin THEN BuildSampleBom ELSE ParseAndLoad
  /\ UNCHANGED <<vars, idVars, trees, misused>>
  /\ Then("loading")

\* Mutant of RunLoad: main goes on when a load threw.
RunLoadCatches ==
  /\ pc = "loading" /\ (LoadStep \/ TreeStep)
  /\ IF load' = NoLoad THEN Then("request") ELSE Then("loading")

RunLoad ==
  /\ pc = "loading" /\ (LoadStep \/ TreeStep)
  /\ IF load' # NoLoad THEN Then("loading")
     ELSE IF outcome' = "threw" THEN Exit("terminate")
     ELSE Then("request")

BuildBookingRequest == pc = "request" /\ ServiceUnchanged /\ Then("search")

\* Mutant of SearchSolutions: an empty list is priced like any other.
SearchUnchecked == pc = "search" /\ Search(Main) /\ Then("quote")

SearchSolutions ==
  /\ pc = "search" /\ Search(Main)
  /\ IF solutions'[Main] = <<>> THEN Exit("-1") ELSE Then("quote")

QuoteFares == pc = "quote" /\ Quote(Main) /\ Then("choose")

\* The first travel solution, with the first of its fares, whichever SimFQT lists.  The
\* list is not looked at again: front() of an empty one would be garbage.
ChooseFirst ==
  /\ pc = "choose"
  /\ IF solutions[Main] = <<>>
       THEN ServiceUnchanged /\ Exit("abort")
     ELSE IF solutions[Main][1].fares = {}
       THEN ServiceUnchanged /\ Exit("-1")
       ELSE /\ Choose(Main)
            /\ \E cp \in solutions[Main][1].fares :
                 choice'[Main] = [solutions[Main][1] EXCEPT !.classPath = cp]
            /\ Then("sell")

Sell == pc = "sell" /\ CallBegin(Main) /\ call'.op = "sell" /\ Then("selling")

\* Mutant of Selling: a refused sale is tried again.
SellingRetries ==
  /\ pc = "selling" /\ SaleStep
  /\ IF call'.op = "abort" THEN Exit("abort")
     ELSE IF call' # Idle THEN Then("selling")
     ELSE IF belief'[Main] = "unknown" THEN Exit("terminate")
     ELSE IF belief'[Main] = "open" THEN Then("sell")
     ELSE Then("display")

\* The answer is logged and nothing more.
Selling ==
  /\ pc = "selling" /\ SaleStep
  /\ IF call'.op = "abort" THEN Exit("abort")
     ELSE IF call' # Idle THEN Then("selling")
     ELSE IF belief'[Main] = "unknown" THEN Exit("terminate")
     ELSE Then("display")

Display == pc = "display" /\ ServiceUnchanged /\ Exit("0")

MainStep ==
  \/ ReadConfiguration \/ ConstructService \/ LoadData \/ RunLoad
  \/ BuildBookingRequest \/ SearchSolutions \/ QuoteFares \/ ChooseFirst
  \/ Sell \/ Selling \/ Display

\* The program runs on: nothing in it waits for anything, and it does not rely on an
\* exception to end.
BatchSpec == BatchInit /\ [][MainStep \/ Throws]_batchVars /\ WF_batchVars(MainStep)

--------------------------------------------------------------------------------
(* Properties *)

\* Types of the state.  Once the options are read every input file has a name, given
\* or not: the program never gets to complain that one is missing.
BatchTypeOK ==
  /\ files \in [Inputs -> Sources]
  /\ pc \notin {"options", "ended"} => \A f \in Inputs : files[f] # "none"
  /\ pc \in {"options", "construct", "load", "loading", "request", "search", "quote",
             "choose", "sell", "selling", "display", "ended"}
  /\ status \in Statuses
  /\ pc = "ended" <=> status # "running"

Sold == {b \in BookingClasses : booked[b] > 0}

\* What the exit status says of the sale.  An error exit has sold nothing.  A zero
\* does not mean that the sale succeeded, but it does mean that AirInv answered: on a
\* one-leg itinerary the seats are booked if and only if the answer logged was yes.
\* A program that died of an exception may have sold or not.
StatusTells ==
  /\ status = "-1" => Sold = {}
  /\ status = "0" /\ belief[Main] # "looking" =>
       /\ belief[Main] \in {"open", "booked"}
       /\ Len(choice[Main].path) = 1 => (belief[Main] = "booked" <=> Sold # {})

\* Every sale of the program is made in a complete copy of a tree in which each layer
\* was loaded once and to which all components are linked, by keys, and for all
\* segments of the solution: no path through options and loads gets it there earlier.
SellsOnCompleteTree ==
  pc \in {"sell", "selling", "display"} =>
    /\ working.whole /\ working.tree = persistent /\ working.tree.torn = {}
    /\ \A k \in Components : working.tree.loads[k] = 1
    /\ working.links = Components
    /\ ~Stale(Main) /\ LoopLength(choice[Main]) = Len(choice[Main].path)

\* What the user typed is what is loaded: the command line wins over simcrs.cfg, which
\* wins over the default, and nothing is parsed when the sample was asked for.
LoadsAsAsked ==
  load.op = "parseAndLoad" =>
    /\ ~("builtin" \in line) /\ ~("builtin" \in config)
    /\ \A f \in Inputs :
         files[f] = IF f \in line THEN "line" ELSE IF f \in config THEN "config" ELSE "default"

\* The program dies without an exception only in the sale of a solution whose fare does
\* not fit its segments: main never takes the front of a list that has none, whichever
\* way the search, the quote and the exceptions before it went.
DiesOnlyOfMisfit ==
  status = "abort" => call.op = "abort" /\ ~FareFits(choice[Main])

\* The program ends, whatever it is given and whatever fails.
MainEnds == <>(status # "running")

\* The manual page says of -b/--builtin: "When that option is selected, an input file
\* must then be given [...].  When that option is not selected, the simcrs program
\* builds a simple use case directly from internal hard-coded parameters".
BuiltinAsDocumented ==
  load.op # "idle" =>
    load.op = IF IsBuiltin THEN "parseAndLoad" ELSE "buildSampleBom"
================================================================================
