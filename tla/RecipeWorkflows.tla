-------------------------- MODULE RecipeWorkflows --------------------------
(***************************************************************************)
(* The recipes a worker needs no execute profile for:                      *)
(*   batch_simulation_pipeline.py      all scenarios side by side, the     *)
(*       same ones again in turn, and one report of each;                  *)
(*   scheduled_governed_simulation.py  simulate a scenario, log it;        *)
(*   retry_policy_structured_denials.py    a query that may be retried,    *)
(*       and an execution that must fail at once.                          *)
(* One client runs one recipe.  Its calls are numbered in the order in     *)
(* which the workflow makes them; a scenario is a decision of the engine.  *)
(***************************************************************************)
EXTENDS GovernedActivity, SequencesExt

CONSTANTS
    Scripts,            \* [recipe, scenarios]: what the client may ask for
    ExpectedValue(_)    \* what the engine simulates for a scenario

RecipeKinds == {"batch", "scheduled", "transient", "failfast"}

CallsOf(run) ==
    CASE run.recipe = "batch"     -> 2 * Len(run.scenarios)
      [] run.recipe = "scheduled" -> 2
      [] OTHER                       -> 1

ASSUME RecipeAssumption ==
    /\ \A run \in Scripts :
          /\ run.recipe \in RecipeKinds
          /\ run.scenarios \in Seq(Decisions)
          /\ run.recipe # "batch" => Len(run.scenarios) = 1
          /\ 1 .. CallsOf(run) \subseteq Calls
    /\ [tool : {"simulate", "log_decision", "query_data", "execute_decision"},
        decision : Decisions, force : {FALSE}, override_safety : {FALSE}] \subseteq Inputs
    /\ \A d \in Decisions : ExpectedValue(d) \in Nat

VARIABLES
    script,     \* the recipe the client runs, with its scenarios
    stage,      \* "start", the workflow that runs, "returned" or "failed"
    finished,   \* the calls that have answered the workflow, in that order
    report,     \* the report of BatchSimulationWorkflow
    baseline    \* the report of SequentialSimulationWorkflow

recipeVars == <<script, stage, finished, report, baseline>>
allRecipeVars == <<vars, recipeVars>>

NoReport == [scenario_count |-> 0, succeeded |-> 0,
             expected_values |-> <<>>, mean |-> <<0, 0>>]

SafeInput(tool, d) == [tool |-> tool, decision |-> d,
                       force |-> FALSE, override_safety |-> FALSE]

n_scenarios == Len(script.scenarios)

Envelope(c) == ExpectedValue(input[c].decision)

\* One value per name: of scenarios with the same name the last one's.  The
\* mean, over the names, is kept as a sum and a count.
_aggregate(scenarios, envelopes) ==
    LET names == ToSet(scenarios)
        value == [s \in names |-> envelopes[Max({i \in DOMAIN scenarios :
                                                     scenarios[i] = s})]]
    IN [scenario_count  |-> Len(scenarios),
        succeeded       |-> Len(envelopes),
        expected_values |-> value,
        mean            |-> <<MapThenSumSet(LAMBDA s : value[s], names),
                              Cardinality(names)>>]

\* Mutant: the results are taken in the order in which they come.
Gathered_AsTheyCome(first, order) ==
    [i \in 1 .. n_scenarios |-> Envelope(order[first + i])]

\* asyncio.gather, and the sequential loop: the results of the calls behind
\* the first ones in the order of the scenarios, whatever the order in which
\* they came.
Gathered(first, order) == [i \in 1 .. n_scenarios |-> Envelope(first + i)]

RInit ==
    /\ Init
    /\ script \in Scripts
    /\ stage = "start"
    /\ finished = <<>>
    /\ report = NoReport
    /\ baseline = NoReport

\* One workflow task makes all of these calls at once.
ScheduleAll(ins) ==
    /\ \A c \in DOMAIN ins : status[c] = "unscheduled"
    /\ input' = [c \in Calls |-> IF c \in DOMAIN ins THEN ins[c] ELSE input[c]]
    /\ status' = [c \in Calls |-> IF c \in DOMAIN ins THEN "queued" ELSE status[c]]
    /\ current' = [c \in Calls |-> IF c \in DOMAIN ins THEN 1 ELSE current[c]]
    /\ UNCHANGED <<engineVars, result, wireVars, workerVars>>

\* Behind call c: the sequential workflow's next scenario, or its report.
NextInTurn(c, order) ==
    IF c < 2 * n_scenarios
    THEN /\ stage' = "sequential"
         /\ Schedule(c + 1,
                     SafeInput("simulate", script.scenarios[c + 1 - n_scenarios]))
         /\ UNCHANGED baseline
    ELSE /\ stage' = "returned"
         /\ baseline' = _aggregate(script.scenarios, Gathered(n_scenarios, order))
         /\ UNCHANGED vars

\* BatchSimulationWorkflow: one simulate per scenario, side by side.
StartBatch ==
    /\ stage = "start" /\ script.recipe = "batch"
    /\ \/ /\ n_scenarios > 0
          /\ stage' = "batch"
          /\ ScheduleAll([i \in 1 .. n_scenarios |->
                             SafeInput("simulate", script.scenarios[i])])
          /\ UNCHANGED <<report, baseline>>
       \/ /\ n_scenarios = 0
          /\ report' = _aggregate(<<>>, <<>>)
          /\ NextInTurn(0, <<>>)
    /\ UNCHANGED <<script, finished>>

FirstTool ==
    CASE script.recipe = "scheduled" -> "simulate"
      [] script.recipe = "transient" -> "query_data"
      [] OTHER                       -> "execute_decision"

StartOther ==
    /\ stage = "start" /\ script.recipe # "batch"
    /\ stage' = script.recipe
    /\ Schedule(1, SafeInput(FirstTool, script.scenarios[1]))
    /\ UNCHANGED <<script, finished, report, baseline>>

Running == stage \notin {"start", "returned", "failed"}

Arrives(c) == Running /\ Completed(c) /\ c \notin ToSet(finished)

Succeeded(c) == result[c].kind \in {"payload", "receipt"}

\* One of the calls side by side has answered; with the last one the report is
\* made, and the sequential workflow starts.
Gather(c) ==
    /\ stage = "batch" /\ Arrives(c) /\ Succeeded(c)
    /\ finished' = Append(finished, c)
    /\ \/ /\ Len(finished') < n_scenarios
          /\ UNCHANGED <<vars, stage, report, baseline>>
       \/ /\ Len(finished') = n_scenarios
          /\ report' = _aggregate(script.scenarios, Gathered(0, finished'))
          /\ NextInTurn(n_scenarios, finished')
    /\ UNCHANGED script

InTurn(c) ==
    /\ stage = "sequential" /\ Arrives(c) /\ Succeeded(c)
    /\ finished' = Append(finished, c)
    /\ NextInTurn(c, finished')
    /\ UNCHANGED <<script, report>>

\* The scheduled run logs what it simulated; every other result is returned.
Resumes(c) ==
    /\ stage \in {"scheduled", "transient", "failfast"}
    /\ Arrives(c) /\ Succeeded(c)
    /\ finished' = Append(finished, c)
    /\ \/ /\ stage = "scheduled" /\ c = 1
          /\ Schedule(2, SafeInput("log_decision", script.scenarios[1]))
          /\ UNCHANGED stage
       \/ /\ stage # "scheduled" \/ c = 2
          /\ stage' = "returned"
          /\ UNCHANGED vars
    /\ UNCHANGED <<script, report, baseline>>

\* Mutant: a failure among those gathered is noted and dropped.
Raised_NotInGather(c) ==
    /\ Arrives(c) /\ ~Succeeded(c)
    /\ finished' = Append(finished, c)
    /\ stage' = IF stage = "batch" THEN stage ELSE "failed"
    /\ UNCHANGED <<vars, script, report, baseline>>

\* The first failure is raised at once, whatever else is still under way.
Raised(c) ==
    /\ Arrives(c) /\ ~Succeeded(c)
    /\ finished' = Append(finished, c)
    /\ stage' = "failed"
    /\ UNCHANGED <<vars, script, report, baseline>>

Recipe ==
    \/ StartBatch \/ StartOther
    \/ \E c \in Calls : Gather(c) \/ InTurn(c) \/ Resumes(c) \/ Raised(c)

\* The server starts no attempt for a workflow that has ended; those under way
\* go on.
RProgress ==
    /\ \/ Running /\ \E c \in Calls : Server(c)
       \/ \E a \in Attempts : Attempt(a) \/ Wire(a)
    /\ UNCHANGED recipeVars

RNext == Recipe \/ RProgress

RSpec == RInit /\ [][RNext]_allRecipeVars

\* As long as the client, the queues, the workers, the sessions or the engine
\* can make progress, some one of them does; no shutdown is forced to happen.
Healthy ==
    \/ Recipe
    \/ /\ \/ Running /\ \E c \in Calls : Poll(c)
          \/ \E a \in Attempts :
                \/ Establish(a) \/ Refuse(a) \/ Send(a) \/ EngineCall(a)
                \/ Receive(a) \/ Close(a)
       /\ UNCHANGED recipeVars

RFairSpec == RSpec /\ WF_allRecipeVars(Healthy)

-----------------------------------------------------------------------------
(* What must hold                                                          *)

\* The values of the two reports belong to their scenarios, in whatever order
\* the calls side by side were answered and retried; so the two workflows'
\* reports agree, as _run_ranked_batch asserts.
ReportsAgree ==
    LET right == _aggregate(script.scenarios,
                            [i \in 1 .. n_scenarios |->
                                ExpectedValue(script.scenarios[i])])
    IN /\ report \in {NoReport, right}
       /\ baseline \in {NoReport, right}
       /\ stage = "returned" /\ script.recipe = "batch" => report = right /\ baseline = right

\* Every recipe ends, whatever its calls come to.
RecipeEnds == <>(stage \in {"returned", "failed"})

-----------------------------------------------------------------------------
(* What the documentation says and the code does not do                    *)

\* types.py: BatchSimulationReport holds "one entry per requested scenario".
\* Scenarios of one name share an entry, and count once in the mean.
OneEntryPerScenario ==
    Cardinality(DOMAIN report.expected_values) = report.scenario_count

=============================================================================
