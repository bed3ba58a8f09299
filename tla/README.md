# Verification of algenta-integrations

TLA+ models, TLC runs and TLAPS proofs of the parts of this repository whose
correctness depends on the order in which things happen: retries, lost
answers, timeouts, signals, workers that stop, two workflows that meet at one
engine, tool calls that eight agent packages and a workflow node make on a
model's behalf, releases that overtake each other, and a test suite that must not
let a broken engine pass. Paths below are relative to the repository; `temporal/` abbreviates
`python/temporal-algenta/temporal_algenta/` and `recipes/` abbreviates
`python/temporal-algenta/recipes/`.

## 1. The system

The repository integrates agent frameworks with a self-hosted Algenta engine,
reached over MCP (streamable HTTP). Every package wraps the same seven tools in
the same way: a *profile* decides which tools may be called, `execute_decision`
is the only tool that acts on the world (it sends a webhook request), and the
engine may deny it at one of three gates: `idempotency` (already delivered),
`confidence` and `risk_floor`. `force` overrides the first gate,
`override_safety` the other two, and no model ever sets either.

| Component | State it keeps | Operations | Talks to |
|---|---|---|---|
| `temporal/activities.py`, `client.py` | one MCP session per attempt, an `(error, payload)` held while it closes | `__aenter__` (3 tries of 15 s), `call_tool`, `__aexit__`, the seven activities | the engine (MCP), the Temporal server |
| `temporal/contract.py` | none | profile → tools | called by the client |
| `temporal/receipts.py`, `errors.py`, `types.py` | none | what is a receipt, a denial, an error that may be retried | called by the activities and the workflows |
| `recipes/demo_engine.py` | decision memory, `delivered_decision_ids`, query counts | the seven tools with the three gates | everyone |
| `recipes/human_approval_workflow.py` | `_state`, `_approval`, `_denial` | `run`, signal `decide`, query `status`, durable timer | two activities |
| `recipes/saga_with_policy_gates.py` | `executed`, `compensated` | forward loop, compensation loop | two activities |
| `recipes/durable_decision_workflow.py`, `idempotent_activity_receipt_dedup.py` | none beyond `run` | log, execute, report | two activities |
| `recipes/durable_decision_memory.py` | `_entries`, `_closed` | `run`, signals `record`, `close`, query `entries` | one activity |
| `recipes/audit_trail_query_workflow.py`, `agent_workflow_governed_tools.py` | `_trail`, the report's steps | log, execute, query; a plan held against a surface; query of the trail | the activities |
| `recipes/batch_simulation_pipeline.py`, `scheduled_governed_simulation.py`, `retry_policy_structured_denials.py` | none beyond `run` | gather or sequence of activities, a retry policy | the activities |
| `langchain-`, `llamaindex-`, `google-adk-`, `maf-`, `pydantic-ai-algenta`, `typescript/algenta-tools` | the list of tools made at creation | filter tools and their schemas, scrub arguments, call, read a receipt or a denial | the framework, the engine |
| `haystack-algenta` | the same | the same, with an `after_tool` hook over the agent's messages | the agent loop |
| `smolagents-algenta` | the same; `_thread`, `_loop`, `_client` of a `_BackgroundMCPClient` | the same; connect, disconnect, call with a 30 s limit | the engine |
| `typescript/n8n-nodes-algenta` | the connection and outputs of one execution | a loop over items, `continueOnFail` | n8n, the engine |
| `litellm-`, `vllm-algenta` | none | build configuration, build a client | a gateway |
| `ray-serve-algenta` | an HTTP client | stream a request through | the engine |
| `scripts/compute_release_bumps.py`, `resolve_release_target.py`, `.github/workflows/auto-release.yml` | main, tags and releases at the remote, a clone per run | compute bumps, commit, push, tag, release, resolve a tag | git, GitHub |
| `demo/conformance/`, `pydantic_ai_algenta/conformance.py` | results of the scenarios | run twelve scenarios, report a verdict | the engine's HTTP API |
| `scripts/check-*.py`, `contracts/`, examples | none | checks of the repository's text, data | - |

What is hard is first of all in the Temporal package: an attempt the server has given up
on goes on running; a request outlives the attempt that sent it; an answer is
lost after its effect; closing a session can fail after the call succeeded; a
cancellation can be swallowed; signals arrive at any await; and the only thing
that keeps two requests from acting twice is the engine's set of delivered
decisions. The smolagents client shares three fields between the owner of a
with-block, an event loop's thread and the agent's threads without a lock. A
haystack hook sees a whole conversation and not a step. A merge may come between
the computation of a release and its push, and a release run may die between two
pushes. `PROJECT.json` lists these hazards, each at its line.

What makes each part correct:

- **activities and client**: one unforced webhook request per decision; an
  outcome that tells the truth about the webhook; no effect outside the profile; an
  attempt that ends whatever its session does, as long as its worker lives.
- **approval**: a rejection means nothing was or will be executed; an override is
  what the operator on record signed; an approval nobody gives does not keep a
  workflow open.
- **saga**: compensation is the exact reverse of what ran, happens only for what
  did happen and for all that answered with a receipt, and only follows a denial.
- **decision runs**: whatever the number of runs, one of them at most calls the
  delivery its own; a trail or an agent's report says what has happened, at every
  moment it can be read; the engine's audit confirms it.
- **batch, schedule, retries**: a report in parallel is the report in sequence; only
  what can pass is tried again.
- **journal**: each entry stands for a record the engine has, once.
- **agent toolsets**: what the profile does not allow never reaches the engine,
  by name or from behind the list; no hidden field does, whatever the model
  sets; a call made again delivers nothing twice; a denial is heard as a denial
  with its gate, a delivery never as a failure.
- **background client**: what a call was told accounts for the webhook; a block that
  has been left sends nothing; every call returns.
- **receipt hook**: no denial reaches the model unless somebody was told.
- **releases**: a later version is newer by as much as the commits ask; every
  release can be resolved; the pipeline comes to rest with everything tagged.
- **conformance**: an exit code of zero means no scenario failed, and a scenario
  passes only an engine that does what its claim says.
- **n8n node**: every output is its item's and this execution's; a failure in
  the middle, a crash or a failing close, and the executions that repeat it do not
  mix their answers.

## 2. Modules

    ToolContract    GovernedEngine          the contract and the engine
           \          /
         GovernedActivity  -- implements -->  ExecutionPromise
          |    |    |  | \
          |    |    |  |  DecisionJournal
          |    |    |  RecipeWorkflows
          |    |    DecisionWorkflows
          |    SagaWorkflow
          HumanApprovalWorkflow
    GovernedActivityProofs                  the activity's theorems, and on top of it
      RecipeProofs (approval, journal, the other recipes), SagaProofs, DecisionProofs

    ToolContract -- ToolWire                answers on the wire
                    /  |   \
    PydanticToolset .. AlgentaToolsTs       one module per package
                    \  |
                 AgentToolset     N8nNode   both with GovernedEngine

    GovernedEngine -- BackgroundClient, HaystackConversation
                              \          /
                               AgentHosts

    ReleaseBumps -- ReleasePipeline   ConformanceSuite
                               \         /
                            RepositoryTooling

    ToolsetProofs of AgentToolset, NodeProofs of N8nNode, HostProofs of AgentHosts,
    ToolingProofs of RepositoryTooling

    MC*                                     instances for TLC

- `ToolContract` - the tiers of `contract.py`. Under `full` everything is allowed.
- `GovernedEngine` - `recipes/demo_engine.py`. `logged`, `delivered` and
  `queryAttempts` are its attributes `logged_decisions`,
  `delivered_decision_ids` and `query_attempts` (of the flaky dataset, counted up
  to its bound); `dispatches` records the webhook requests, which the code does
  not keep. Each tool runs on the serving event loop without awaiting between its
  check and its update, so one tool call is one action; `simulate` awaits but
  touches no state. Decisions are model values; the constants `LowConfidence`,
  `BelowRiskFloor` and `RejectingWebhook` stand for the ids the engine singles
  out.
- `GovernedActivity` - `execute_activity` of one tool, from the workflow's
  schedule to the recorded outcome. One attempt of `_call` goes through
  `opening` (`__aenter__`), `open`, `awaiting` (`call_tool`), `closing`
  (`__aexit__`), `gone`. `request` is where its tool call is: the wire is
  separate from the attempt, so a request is handled whether or not anyone is
  still waiting. `captured` is the pair `(error, payload)` of `_call`. A call's
  `status`, `current` and `result` belong to the Temporal server, which is
  external: it retries every failure that is not `non_retryable` up to
  `MaxAttempts`, and drops the report of an attempt it has given up on.
  Faults are actions of their own (`EstablishFails`, `LoseRequest`,
  `LoseContact`, `CloseFails`, `CancelledWhileOpening`, `CancelledInCall`,
  `Crash`, `StartToCloseTimeout`), switched on by `Faults` and `Fallible`.
  `Profile` gives each call the profile of the worker it goes to.
  `Breaches` lets the server answer with a result of the wrong shape
  (`"malformed"`) or a denial at an unknown gate (`"unnamed"`), which
  `parse_denial` accepts because `gate` is any string.
- `ExecutionPromise` - what a workflow may rely on, with three variables: what was
  asked, which effects happened, which outcomes were given. An unforced effect
  happens only if the decision has none; an outcome is truthful when it is
  given; after a conclusive one the call has no further effect.
- `HumanApprovalWorkflow`, `SagaWorkflow`, `DecisionWorkflows`, `DecisionJournal`,
  `RecipeWorkflows` - workflow code. Temporal runs it in one activation at a
  time, so each action goes from one await to the next, and signals are actions
  of their own. They schedule activities with `Schedule` and read
  `result`, composed with everything `GovernedActivity` does in between.
  Workflow code itself is deterministic and replayed, so a worker crash is a
  fault of activities only. `DecisionWorkflows` holds four kinds of runs, which
  differ in their `Plan`, in what they make of an idempotency denial
  (`AlreadyDelivered`), in the surface an agent is given (`Advertised`) and in
  whether they keep a `trail`; the rows an audit attempt reads are kept in `rows`
  from the moment the engine answers it. `RecipeWorkflows` numbers the calls of a
  recipe: the gather schedules its calls at once and `finished` remembers the
  order in which they came back, which the report must not show.

- `ToolWire` - an answer as an MCP `CallToolResult`: whether `isError` is set,
  whether prose precedes the JSON, the type of `manifest_version`, and the body.
  The repository's stub servers signal a denial in three ways (`in_band`,
  `prose`, `error_json`), and each package was written against one of them.
- `PydanticToolset`, `SmolagentsToolset`, `AdkToolset`, `MafToolset`,
  `LangchainToolset`, `LlamaindexToolset`, `HaystackToolset`, `AlgentaToolsTs` -
  pure operators, one module per package: which arguments the constructor
  `accepts`, which tools with which parameters it offers, which arguments it
  sends, and what it makes of a result. Names are those of the source without
  the leading underscore. Schemas are sets of parameter names. What the
  underlying framework does with `isError` (raise it, or hand it over) is
  external.
- `AgentToolset` - calls of a model through one of these packages, side by side,
  against `GovernedEngine`. `dialect` picks the package and its wire. `Create`
  is the constructor or factory with any combination of sources and any profile,
  known or not; a call leaves its request in `inflight`, and the framework may
  give up on it (`GivesUp`) while the request is still on its way. langchain's
  interceptor and the ADK tools ask about the profile a second time, which
  matters for calls that come from behind the offered list.
- `N8nNode` - one input of the node and every execution of it. The loop of
  `execute` is the actions `ItemRefused`, `ItemMalformed`, `callTool`,
  `ItemAnswered` and `ItemTimesOut`; `Fails` is its catch, `Stops` the throw
  through the `finally`, whose close may itself throw. Requests outlive the wait
  for them, the process may die (`Crash`), and n8n may run the node again with
  nothing kept (`RunAgain`).

- `BackgroundClient` - `_BackgroundMCPClient` and the with-block around it. Every
  `__enter__` makes an object of its own (`opening`), with `thread`, `loop` and
  `client` for its three fields, and `running`, `session` for what they stand for.
  The owner goes through `Enter`, `LoopSeen` or `LoopNotSeen` (`created.wait` over
  without a loop) or `LoopProbeFails` (`asyncio.sleep(0)` not back in time), `Entered`,
  `Exit`, `SessionClosed`, `ClientForgotten`, `StopLoop`, `LoopForgotten`, `Joined`;
  each read of a field by an agent's thread is a step
  (`ClientChecked`, `CoroutineMade`, `LoopChecked`, `Posted`), and so is each step
  of the coroutine it posts. `ResultTimesOut` is `future.result(timeout=30.0)`.
- `HaystackConversation` - an agent's steps, `messages` with every tool result of
  the conversation, and the hook over all of them. The caller may go on with a
  conversation whose last step raised (`RunAgain`).
- `AgentHosts` - a smolagents and a haystack process at one engine.
- `ReleaseBumps` - the arithmetic of the two scripts over a history: commits with a
  type, the packages they touch and the versions their trees carry.
- `ReleasePipeline` - the runs of `auto-release.yml`, one per push to main, each on a
  clone taken when it starts: `Compute`, `PushMain` or `PushRejected` (main has
  moved), `PushTag` or `TagRejected` (the name exists), `CreateRelease`; a run
  without the App's credentials skips everything after its computation
  (`Unconfigured`), and a run may die anywhere (`Dies`).
- `ConformanceSuite` - the twelve scenarios as the calls they make, the engine as its
  plan lifecycle with any `defects`, what each scenario `Holds` its answers
  against, and the verdict. `suite` picks the runner of `demo/` or the one of
  pydantic-ai. A call may be lost, which raises.
- `RepositoryTooling` - a behaviour of either of the two; they share no state.

The operators named `X_Something` preceded by a comment "Mutant:" are wrong
versions of `X`, each a plausible slip in that code. A run with `X` replaced by
its mutant finds the property it is listed with in `PROJECT.json` violated;
no specification uses them.

## 3. Runs

`tlc -config <run>.cfg <module>.tla`; sizes are distinct states.

| Run | Module | Instance | What it shows |
|---|---|---|---|
| ActivityRace (255 k, symmetric) | MCGovernedActivity | two calls for one decision, each plain or forced, 2 attempts each, server timeouts; a third call asks a `govern` worker to execute | `AtMostOneUnforced`, `VerdictIsFinal`, `ProfileIsEnforced`, refinement `KeepsThePromise` |
| ActivityFaults (117 k) | MCGovernedActivity | one call, a plain, a gated and a rejected decision, override or not, all six faults, 3 establishment tries, 2 attempts | `ReceiptIsBacked`, `IdempotencyDenialIsBacked`, `RefusalMeansNothingSent`, `LiveWorkersAnswer` |
| Approval (10 k) | MCHumanApprovalWorkflow | a clean and a gated decision, every verdict, the timer in one activation with a signal, losses and timeouts of both executions | `RejectionLeavesNothingExecuted`, `OverrideMatchesVerdict`, `WorkflowCloses` |
| Saga (53 k) | MCSagaWorkflow | five sagas of 0 to 3 steps, a denied step in the middle or at the end, a repeated decision, lost answers | `UnwindsInReverse`, `CompensatesWhatHappened`, `SagaEnds` |
| Decisions (165 k) | MCDecisionWorkflows | any two of a durable, a deduplicating and an audited run and an agent under three surfaces, for one decision or two, one of them gated; the server gives up on executions of the deduplicating run and on audits | `OneRunOwnsTheDelivery`, `TrailIsBacked`, `AuditConfirmsTheTrail`, `EveryRunEnds` |
| Journal (10 k) | MCDecisionJournal | two signals, the first one's activity fails in three ways, breaches | `EntriesAreOnRecord`, `RecordsAreJournaled` |
| Recipes (102 k) | MCRecipeWorkflows | batches of 0, 2 and 3 scenarios, one of them with a repeated name, and the three short recipes; the first call goes to an `execute` worker, where the fail-fast recipe meets a receipt or a `risk_floor` denial, the others to an `observe` worker, which refuses the scheduled run its log; shutdowns, breaches, a flaky query | `ReportsAgree`, `RetriesAreWarranted`, `ProfileIsEnforced`, `RecipeEnds` |
| Toolsets (1.7 M, symmetric) | MCAgentToolset | eight packages with the wires of their own tests, four profiles and an unknown one, every combination of sources, two catalogues; two callers, three calls in all; a webhook that takes a decision, one that answers 503, a gated decision | `HiddenFieldsStayHidden`, `OnlyWhatTheProfileAllows`, `RefusalIsHeard`, `DeliveryIsNotAFailure` |
| Node (20 k) | MCN8nNode | five inputs of three items (a failed query, a gated, a repeated, a malformed, a refused item between deliveries), two executions | `OutputsPairWithItems`, `ReceiptIsOfThisTry`, `NodeEnds` |
| AgentHosts (785 k) | MCAgentHosts | one call through a with-block that is entered twice, opens late and fails when it opens or closes; a conversation of two tool calls | `DeliveryIsTraceable`, `DenialStopsTheAgent`, `NothingAfterTheBlock`, `EveryForwardReturns` |
| Tooling (126 k) | MCRepositoryTooling | two packages, one without a release, two merges of three kinds, a run that overtakes another, a run that dies or has no credentials; two suites, engines with up to two of twelve defects, a lost call | `VersionsTellTheChange`, `ReleasesResolve`, `ReleasesSettle`, `GateIsSound`, `PassIsEarned` |

`TypeOK` of `GovernedActivity`, `ATypeOK` and `NTypeOK` are theorems. The type
invariants of the other modules (`WTypeOK`, `STypeOK`, `JTypeOK`) document their
variables; they hold in the instances above and are not part of the runs.

Bounds and why they are enough:

- **Two attempts.** A late request races with its successor; a third attempt only
  repeats that. The default policy retries for ever; with `BoundedRetry = FALSE`
  faults stop at attempt `MaxAttempts`, so no call fails merely because the
  model ran out of attempts. `BoundedRetry = TRUE` is the recipes'
  `maximum_attempts`.
- **Two calls, two runs.** (Of the four kinds of run, any two.) The engine's gate relates a request to those before
  it for the same decision, so two are enough to break it; the theorems below
  remove the bound for the activity.
- **Three saga steps** are the fewest where a denial finds two executed steps
  whose order of compensation matters, or a step after it that must not run.
- **Two journal signals** are the fewest that can overtake each other.
- **Two callers, three calls** for the toolsets: a call meets a sibling for
  the same decision, and a call meets the request of its own predecessor that
  was given up on.
- **Three items, two executions** for the node: an item before and an item
  behind the failing one, and a repetition that finds the first delivered.
- **Three scenarios in a batch**, two of one name: the answers overtake each other in
  every way, and the last value of a name is not its only one.
- **One call, two openings** for the background client: a thread of the agent holds a
  tool of an object that is being closed while the toolset already has its next
  one. A second call adds nothing that the haystack process, which competes for
  the same decisions, does not.
- **Two merges, four pushes of runs**: a run meets one that has pushed its commit
  and not its tags, and the run of a merge in between. Three merges exceed
  what TLC can search here. `MaxEarly` bounds how many runs start while another
  one is still tagging, `MaxCrashes` the runs that die or have no
  credentials, `MaxCommits` main.
- **Two defects, one lost call** in the engine under test: a defect can hide another
  one, and a suite must fail an engine for the right scenario.
- **Fallible calls** are those whose faults reach what the properties are about:
  executions (in Decisions those of the deduplicating run, whose retry has a meaning
  of its own), the audit, the first compensation and the first signal.
- **`ProfileIsEnforced` takes two runs**: an execution asked of a `govern` worker in
  ActivityRace, a record asked of an `observe` worker in Recipes.

Deadlock checking is off because all of these systems stop when their calls, runs
or scenarios have completed.

Symmetry is used in ActivityRace, over the two racing calls, and in Toolsets, over
callers; no property there tells them apart and none is a liveness property
(`KeepsThePromise` has no fairness).

### Fairness

- `WorkerFairness` is what a live worker does alone: it polls, the 15 s of an
  establishment attempt and the read timeout of a request expire, the request is sent
  or refused, and closing returns or raises. `LiveWorkersAnswer` needs nothing else: no
  session has to open, no engine to answer, and the server's `start_to_close_timeout`
  never has to expire. What carries it is the bound of 3 establishment attempts
  (`client.py:125-133`) and that `_call` ends on every path; a call whose worker has
  died (`Orphaned`) waits for the server.
- `HealthyFairness` adds that establishment, sending, the engine, reception and
  closing happen when they can, and that a session's read timeout
  (`read_timeout_seconds`) expires. The workflows retry for ever by default, so
  they end only if some attempt gets through. Faults are never fair except as
  deadlines, and never have to stop.
- `N8nNode` has weak fairness of `NodeStep`: JavaScript's event loop runs the
  node, and the SDK's request timeout ends a wait that no answer ends. Neither
  the engine nor the wire has to do anything.
- `RecipeWorkflows` and `DecisionWorkflows` state one weak fairness of everything
  that happens when nothing is broken (`Healthy`); each such step takes a call
  further, and as the attempts are bounded there are finitely many of them.
- `AgentHosts`: each agent's thread runs and its 30 s end; the owner of the block, the
  loop, the engine and the other process may hang for ever.
- `ReleaseFairness`: some run goes on while one can. Merges, deaths and the order of
  runs are not fair.
- Workflow activations are weakly fair: the server delivers them. Signals are
  not: no operator has to answer and nobody has to record.

### Divergences

The run FindCancellation shows that what the repository says of itself is not what
the code does: the call is said to leave cancellation untouched
(`temporal/activities.py:197-198`), and `__aenter__` catches `BaseException`
(`client.py:129`), opens another session and calls the engine.

What each package makes of an answer to `execute_decision`, from the operators
of `AgentToolset` (`failed`: an error that says nothing of the gate; `raw`:
handed over as an ordinary result):

| Package | denial in band | denial in prose | denial as error JSON | receipt, numeric `manifest_version` |
|---|---|---|---|---|
| pydantic-ai | denied | failed | failed | raw |
| smolagents | denied | failed | failed | raw |
| google-adk | denied | raw | denied | raw |
| maf | failed | denied | denied | failed |
| langchain | raw | denied | denied | raw |
| llamaindex | denied | failed | denied | failed |
| haystack | denied | failed | failed | raw |
| algenta-tools | raw | failed | denied | receipt |

The two `failed` of the last column are executions that happened and are
reported as failures; the TypeScript stub servers send a number there.

More are stated as formulas next to the code they are about, and TLC finds each of
them violated when it is added to the run named here:

| Formula (run) | Said | Done |
|---|---|---|
| `ProfileViolationIsARefusal` (ActivityFaults, its call on a `govern` worker, `Faults = {"stall"}`) | a profile violation is a typed, non-retryable refusal (`temporal/activities.py:18-22`) before any network traffic (`client.py:83-84`) | the session is opened first; with the engine down the refusal is a retried transport error |
| `ToldDeliveredIsDelivered` (Decisions, with `RejectingWebhook = {dPlain}`) | the idempotency denial proves that the delivery landed (`recipes/idempotent_activity_receipt_dedup.py:14-15`) | the engine marks the decision before the target's 503 |
| `JournalInArrivalOrder` (Journal) | signals are processed one at a time in arrival order (`recipes/durable_decision_memory.py:10`) | each handler appends when its own activity completes |
| `DeliveredStepsAreCompensated` (Saga, with `Faults = {"loss", "timeout"}`) | every delivered step was compensated (`recipes/saga_with_policy_gates.py:56-57`) | a step whose answer was lost is denied on its retry and left out |
| `RefusalIsHeard` (Toolsets, with `Dialects <- AllDialects`) | denials come in a structured body and never as `isError` (`smolagents_algenta/toolset.py:421-422`), or as a tool error (`maf_algenta/toolset.py:41`) | on the wire of the others, a denial is a failed call or an ordinary result |
| `OneEntryPerScenario` (Recipes) | the report has one entry per requested scenario (`temporal/types.py:225-227`) | scenarios of one name share one, and count once in the mean |
| `NoLoopIsLeft` (AgentHosts) | disconnect closes the client and stops the background loop (`smolagents_algenta/toolset.py:92`) | if entering or closing the client raises, the loop and its thread stay |
| `TimedOutIsOver` (AgentHosts) | - | a call that was given up on after 30 s still reaches the engine |
| `OnlyNewDenialsAreRaised` (AgentHosts) | the hook parses every just-produced message (`haystack_algenta/hooks.py:58`) | it parses the whole conversation, and raises a recorded denial after every later step |
| `RaisedStepDidNothing` (AgentHosts) | - | a step whose run ends in a denial may have executed its other calls, whose receipts nobody reads |
| `EachReleaseHasWork` (Tooling) | the run started by a bump commit computes no further bump (`scripts/compute_release_bumps.py:23-25`) | if it starts before the tag is pushed, it bumps again |
| `VersionsAreTagged`, `TagsAreReleased` (Tooling) | - | a run that dies, or whose tag push is refused, leaves a version without a tag or a tag without its release; the next run takes its bump from the version on disk |
| `RefusalMovesNothing` (Tooling) | the plan must not have advanced (`demo/conformance/runner.py:191`, `scenarios.py:98`) | the state is read into `after` and never looked at |
| `RefusalNeedsNoNetwork` (Node) | the profile refuses an operation before any network call (`n8n-nodes-algenta/README.md`) | `execute` connects before it looks at the first item |

Others, seen in the same models and described here only:

- `force` is part of the activity's input, so each retry of a forced call
  executes again, where `temporal/errors.py:66-67` says "only for one
  re-execution".
- An establishment failure leaves `_call` outside the code that types errors and
  is not a `SESSION_ERROR_TYPE` (`temporal/types.py:49-51`).
- If the answer to an approved execution is lost, its retry meets the idempotency
  gate and the approval workflow fails although it executed
  (`recipes/human_approval_workflow.py:17`).
- A `decide` signal that precedes the denial is taken as the answer to it
  (`recipes/human_approval_workflow.py:76`).
- A saga whose step delivered with status `failed` reports `completed`
  (`recipes/saga_with_policy_gates.py:56`), and a retried compensation is
  recorded twice (`:102`).
- A throw in the middle of the n8n node's items, or in its close, drops the
  outputs of items that were delivered (`Algenta.node.ts:213`, `:230`), and the
  repeated execution stops at the first of them with an idempotency denial.
- A journal closed while handlers wait for their activity lacks their decisions
  (`recipes/durable_decision_memory.py:61`).

## 4. Proofs

`tlapm <module>.tla` checks a module of theorems.

| Module | Obligations | Proves about |
|---|---|---|
| GovernedActivityProofs | 1376 | the activity: any calls, decisions, attempts, faults, breaches and profiles |
| RecipeProofs | 870 | the approval workflow: any decisions, verdicts, signals and attempts; the journal: any number of signals; the other recipes: any scripts, batches of any length |
| SagaProofs | 696 | the saga: any set of sagas, of any length |
| DecisionProofs | 958 | any number of runs of the four kinds |
| NodeProofs | 273 | the n8n node: inputs of any length, any number of executions |
| ToolsetProofs | 609 | the eight agent packages: any callers, calls, wires and catalogues |
| HostProofs | 405 | any number of threads' calls and openings, conversations of any length |
| ToolingProofs | 2437 | any packages, merges, overlapping runs and earlier releases; any defects of the engine under test and any number of lost calls |

Assumed are only the ASSUMEs of the modules, which TLC evaluates in every run:
constants have their types and requests are named by attempts
(`EngineAssumption`, `ActivityAssumption`, `ToolsetAssumption`,
`BackgroundAssumption`); what a recipe asks for is among `Inputs` and its calls
among `Calls` (`ApprovalAssumption`, `SagaAssumption`, `JournalAssumption`,
`RecipeAssumption`, and `DecisionAssumption`, which also says that a run is of one
kind); the node's
inputs are sequences of items (`NodeAssumption`); the tool calls of a
conversation are numbered from 1 without a gap (`ConversationAssumption`); two
processes do not share requests (`HostsAssumption`); no package is listed twice
(`PackagesAssumption`), and what was released before the first run carries the
version of its package's file (`ReleaseAssumption`); the defects of the engine
are among the known ones (`ConformanceAssumption`). None of the sets has to be
finite. RecipeProofs extends three workflow modules, whose variables are apart; each
of their assumptions asks only that `Calls` and `Inputs` contain what its own recipe
uses, so that they hold together.

### The activity

The invariants the runs check are not inductive: that a *recorded* receipt is
backed says nothing about one that an attempt still holds. `IInv` follows the
answer backwards:

1. `DeliveredIsSent`: what is in `delivered` has been sent, and what has been
   sent is in `delivered`.
2. `SentAsAsked`, `LoggedAsAsked`: an effect carries the decision and the force
   its call asked for, and a gated decision's was asked for with the override.
3. `RequestsAreAllowed`: a request on the wire is one the profile allows.
4. `OutcomesAreBacked`: every answer on its way (in `reply`, in `captured`, in
   `result`) is *backed*: a receipt by an effect of that call, an idempotency
   denial by the decision's being in `delivered`, a policy denial by the gate's
   own condition, which depends on the call's input only and so has held in
   every attempt, a profile refusal by the profile, the payload of a
   `log_decision` by the record. A denial that names no gate is backed by the
   server's being one that leaves it out (`Breaches`).
5. `CallsStartClean`: an attempt not yet begun has sent nothing.

The engine is the only one that adds effects (`EngineStep`, `EngineOnlyAdds`);
every other action is shown to be quiet about them (`QuietStep`) and to pass
outcomes on without losing their backing (`ReportKeepsBacking`). `Invariance` is
the induction, and the safety theorems follow from it. `VerdictsAreFinal` adds
that a settled, unforced call is stopped by a gate in whatever it still has on
the wire; `PromiseKept` maps each action to `Ask`, `Execute`,
`Answer` or a stutter of `ExecutionPromise`.

`AnswersAreTheLastAttempts` is a second inductive invariant of the activity: what
a completed call holds is what its last attempt was answered. It is what the
audit needs, whose rows are those of one attempt. `OnlyPassingFailuresAreRetried`
rests on it: a reply comes only to a request that was sent, and what is held
while a session closes can be retried only if it is the engine's own error
(`RepliesAreHeld`). It assumes `SessionsHold`, that is `Faults` within `{"shutdown", "crash"}`:
a session that fails to open, breaks, hangs or fails to close is a retryable failure
too, and then nothing was answered.

### The workflows

Each workflow's invariant is `IInv` with conjuncts about where its code is, and is
inductive by two kinds of steps: those of the workflow, which make at most one
call (`ScheduleMakesOneCall`), and those of the activities, which make none,
change no input and complete calls for good (`ProgressMakesNoCall`). Four of the five are
also shown to implement `GovernedActivity` (`WorkflowImplementsActivities` and its
siblings), so that every theorem about calls is one about the calls of a
workflow. `RecipeWorkflows` does not step by step, because a gather makes several calls
in one activation; there `ScheduleAllStep` shows that such a step keeps `IInv`
too, and `ScheduleAllInOrder` that it keeps the order of attempts and answers.

- Approval, `WInv`: each call carries what the recipe gives it; a run parks only
  where the gate is not the idempotency gate; the verdict the approved execution
  was made with is the one on record. `RejectionsAreFinal` then argues from the
  denial's backing: a policy gate's condition holds of the input itself, so it has
  stopped every attempt of that call, also those the server has given up on. It
  has the hypothesis `"unnamed" \notin Breaches`, and cannot do without: when a
  receipt is lost and the retry's idempotency denial has lost the name of its
  gate, the recipe parks and the operator rejects what has been executed. TLC
  shows this in the Approval instance with `Breaches = {"unnamed"}`.
- Saga, `SInv`: `Position` ties the step, `executed`, `compensated` and the
  report together, `ExecutedOnReceipt` and `CompensationsFollowDenial` tie
  them to the calls, and `Unwinding` says that a step the loop of compensations has
  passed has its compensation in decision memory.
- Decision runs, `DInv`: a trail is a sequence of true steps, and truth is kept by
  every step because effects are never taken back; `OwnersHaveSent` with
  `AtMostOneUnforced` leaves one owner; `AuditComesLast` says what the engine
  holds before the audit is asked for, hence what every attempt at it has read.
- Journal, `JInv`: an entry is of a call that has come back with a payload, which
  `IInv` backs with a record.
- The other recipes, `RecipeInv`: the calls made so far are the first ones of the
  script, each with the input of its scenario, and how many they are depends on
  the stage (`BatchFollowsScript`); a sequential batch takes the last call it has
  made (`LatestCall`). A report takes the results in the order of the calls and not of
  `finished`, so it is the right one (`RightReports`), whatever the order in which
  they came. No induction over the report is needed: `BatchesAgree` compares two
  reports made from equal values, and what `_aggregate` makes of them is the
  same.

### The packages, the node and the hosts

- Toolsets, `AInv`: the request on the wire has nothing hidden and is permitted
  (`RequestsAreProper`), it is its caller's current one or one that was given up
  on (`RequestsAreOfTheirCalls`), and an answer is one the engine gives
  (`AnswersAreFair`). `EngineWasAskedProperly` carries that a decision sent is one the
  engine has marked, so that a repeated call is stopped. What each package offers, sends and makes of a result is a
  lemma with one case per package. `DenialsAreHeard` and `ReceiptsAreHeard` name
  the wires a package can read (`DenialStyles`, `ReceiptVersions`), as the table of
  section 3 does, and `OtherWiresAreNotHeard` shows that they leave none out.
- Node, `NInv`: `LoopKeepsStep` pairs outputs with items; `ReceiptsWereSent` is
  about receipts put out and those on their way to the loop, and holds because the
  engine's answer to a request of an earlier execution is dropped, and because a
  new execution starts with nothing put out. `OneRequestPerDecision` is proved
  only; the gate of the engine carries it through all the executions.
- Hosts, `HInv`: `CallInOrder` says how far a call has come when its thread, its
  coroutine and its request are where they are, so that the errors raised before the
  coroutine is posted mean that nothing was sent; `RepliesAreBacked` relates replies
  to webhook requests across both processes; `OwnerClosesFirst` has the session
  closed before the block is left, which with the session a coroutine looks at
  makes `LeftBlocksAreSilent`; `DenialsAreRaised` is about every message of the
  conversation.

### Releases and conformance

- Releases, `RInv`: main's versions never fall (`VersionsRise`) and a package without
  a tag has never been bumped (`BumpsFollowTags`); each package with a tag has one of
  the highest version (`LatestExists`), from which a run's bump is computed, and
  no two tags have one name (`NamesAreUnique`). A tag says what its commit's tree
  says (`TagsAreRight`), and a run's plan what it read when it was made
  (`RunsAreInOrder`). The heart is `MarksAgree`: of any two tags *and tags about to be
  pushed* of one package, the versions tell the change between their commits, or they
  are equal, or the earlier one will be refused because its name is taken. Without the
  pending ones the statement is not inductive: two runs that overlap may compute the same
  version, and the order of their pushes decides whose it is. No induction over data
  is needed: `bump_kind_for` looks at the set of the types of commits, and a plan is a
  function over the packages' places (`Bumps`).
- Conformance, `CInv`: what a suite has heard in a scenario is what the engine answers
  in the states its calls lead to (`Traced`), so what a scenario holds its answers
  against can be evaluated scenario by scenario; a recorded outcome then tells of
  the defects (`Telling`): a pass excludes those the scenario is there to catch
  (`Caught`), a failure means a lost call or a visible defect. `GateSoundness` adds that
  every visible defect is caught by a scenario that is exercised. There is no
  bound on how many defects come together.

| Theorem | Property |
|---|---|
| TypeCorrect | TypeOK |
| Invariance | the inductive invariant `IInv` |
| NoSecondUnforcedRequest | AtMostOneUnforced |
| ReceiptsAreBacked | ReceiptIsBacked |
| IdempotencyDenialsAreBacked | IdempotencyDenialIsBacked |
| RefusalsSentNothing | RefusalMeansNothingSent |
| ProfilesAreEnforced | ProfileIsEnforced |
| VerdictsAreFinal | VerdictIsFinal |
| OnlyPassingFailuresAreRetried | RetriesAreWarranted, where sessions hold |
| PromiseKept | KeepsThePromise |
| WInvariance, SInvariance, DInvariance, JInvariance, RecipeInvariance | the workflows' inductive invariants |
| WorkflowImplementsActivities, SagaImplementsActivities, DecisionsImplementActivities, JournalImplementsActivities | `Spec` of GovernedActivity |
| OverridesAreSigned | OverrideMatchesVerdict |
| RejectionsAreFinal | RejectionLeavesNothingExecuted, if gates are named |
| SagasUnwindInReverse | UnwindsInReverse |
| CompensationsAreWarranted | CompensatesWhatHappened |
| DeliveriesHaveOneOwner | OneRunOwnsTheDelivery |
| TrailsAreBacked | TrailIsBacked |
| AuditsConfirmTrails | AuditConfirmsTheTrail |
| EntriesStandForRecords | EntriesAreOnRecord |
| BatchesAgree | ReportsAgree |
| RecipesRetryWhatMayPass | RetriesAreWarranted of the recipes, where sessions hold |
| RecipesKeepToTheirProfile | ProfileIsEnforced of the recipes |
| ToolsetInvariance, NodeInvariance, HostInvariance | the inductive invariants `AInv`, `NInv`, `HInv` |
| ToolsetTypeCorrect, NodeTypeCorrect | ATypeOK, NTypeOK |
| HiddenFieldsReachNothing | HiddenFieldsStayHidden |
| ProfilesBoundTheEngine | OnlyWhatTheProfileAllows |
| DenialsAreHeard | RefusalIsHeard, on a wire the package reads |
| ReceiptsAreHeard | DeliveryIsNotAFailure, on a wire the package reads |
| OtherWiresAreNotHeard | the two hypotheses above are exact |
| OutputsArePaired | OutputsPairWithItems |
| ReceiptsAreOfThisTry | ReceiptIsOfThisTry |
| RerunsSendNothingTwice | `OneRequestPerDecision`, of NodeProofs |
| DeliveriesAreTraceable | DeliveryIsTraceable |
| LeftBlocksAreSilent | NothingAfterTheBlock |
| DenialsStopTheAgent | DenialStopsTheAgent |
| ReleaseInvariant, ConformanceInvariant | the inductive invariants `RInv`, `CInv` |
| ReleasesTellTheChange | VersionsTellTheChange |
| ReleasesAreResolved | ReleasesResolve |
| GateSoundness | GateIsSound |
| PassesAreEarned | PassIsEarned |

All the inductive invariants have been checked by TLC in the instances of section 3 as
well (of `RInv` and `CInv` with the parts that TLC cannot enumerate, the plans of all
sets of versions and the states behind `Traced`, put in a form it can).

Every safety invariant, action property and refinement that a run checks is stated by a
theorem. Only model-checked is liveness (`LiveWorkersAnswer`, `WorkflowCloses`,
`SagaEnds`, `EveryRunEnds`, `RecipeEnds`, `RecordsAreJournaled`, `NodeEnds`,
`EveryForwardReturns`, `ReleasesSettle`): the prover handles neither fairness nor
ENABLED.

No module uses RECURSIVE operators.

## 5. What is not modelled

- Sessions of the agent packages: that a connection opens, is kept and closes is
  the frameworks' business except in n8n and smolagents.
- Payloads: scenarios, rationales, metadata, rows of the audit dataset, the
  texts of messages; the recovery of JSON from prose in `receipts.py`.
- Temporal's replay of workflow code, its data converter and its persistence:
  external, taken as correct.
- `reset()` of the demo engine, used between tests.
- Restarts of the engine: the demo engine keeps its state in memory for the life
  of the process and no code restarts it.
- `litellm-algenta`, which builds and lints the configuration of a gateway outside
  this repository, `vllm-algenta`, a client factory, and `ray-serve-algenta`, a
  stateless proxy: nothing of theirs has an order that could be wrong.
- The langchain recipes and the support-triage example: scripts over the modelled
  toolsets, with a stub model of their own.
- `scripts/check-parity.py`, `check-no-engine-dependency.py`: single passes over the
  text of files. `recipes/_kernels.py`: floating-point ranks.
- In `demo/conformance`, the langchain adapter, which makes the same calls through
  a tool. In the release, `publish.yml` (uploads to registries) beyond its
  resolution of the tag, merges that change a package's version by hand, and package
  names of which one is a prefix of another.
- The `ValueError` with which `AlgentaActivities` refuses an unknown profile
  (`temporal/activities.py:100-101`): no worker comes of it and no call; in the model
  `ActivityAssumption` types `Profile`.
- Four hazards have no property that would hold of this code; what it does there is
  described under Divergences: a forced call executes once per attempt
  (`temporal/activities.py:258`), a refusal needs an open session (`:200`), a
  retried record is written twice (`recipes/saga_with_policy_gates.py:110`), and the
  haystack hook raises a recorded denial again (`haystack_algenta/hooks.py:85`).
- In Temporal, the schedules that start workflows.

## 6. Plan

1. Done: `ToolContract`, `GovernedEngine`, `GovernedActivity`,
   `ExecutionPromise`, their theorems; the four workflow modules.
2. Done: `ToolWire`, the eight package modules, `AgentToolset`, `N8nNode`.
3. Done: `BackgroundClient`, `HaystackConversation` and `AgentHosts`.
4. Done: the audited run and the governed agent in `DecisionWorkflows`;
   `RecipeWorkflows`.
5. Done: `ReleaseBumps`, `ReleasePipeline`, `ConformanceSuite`.
6. Done: theorems about the workflow modules, the agent packages, the node, the
   hosts, the releases and the conformance suites; every safety property of the runs.

Abstract specifications worth stating next: an approval as a single guarded
effect that the workflow implements, and a tool call seen by a model (called,
denied, failed) that every agent toolset implements on its own wire.
