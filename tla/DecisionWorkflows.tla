------------------------- MODULE DecisionWorkflows -------------------------
(***************************************************************************)
(* The recipes that take one decision through a fixed plan of calls:       *)
(*   durable_decision_workflow.py            log it, execute it;           *)
(*   idempotent_activity_receipt_dedup.py    the same, but an idempotency  *)
(*       denial counts as a delivery that has already happened;            *)
(*   audit_trail_query_workflow.py           the same, with a trail anyone *)
(*       may query and a look at the engine's audit rows at the end;       *)
(*   agent_workflow_governed_tools.py        an agent's plan, of which the *)
(*       tools its surface does not advertise are refused before any call. *)
(* Several runs may be started for one decision, and they meet at the      *)
(* engine.                                                                 *)
(***************************************************************************)
EXTENDS GovernedActivity, SequencesExt

CONSTANTS
    Durable,    \* runs of GovernedDecisionWorkflow
    Dedup,      \* runs of IdempotentDecisionWorkflow
    Audited,    \* runs of AuditedDecisionWorkflow
    Agents,     \* runs of GovernedAgentWorkflow
    Surfaces,   \* the profiles an agent's surface may be given
    MaxStarted  \* bound on the runs that clients start

Runs == UNION {Durable, Dedup, Audited, Agents}

PlanTools == {"recommend", "plan_decision", "log_decision",
              "execute_decision", "query_data"}

ASSUME DecisionAssumption ==
    /\ Durable \cap (Dedup \cup Audited \cup Agents) = {}
    /\ Dedup \cap (Audited \cup Agents) = {}
    /\ Audited \cap Agents = {}
    /\ Surfaces \subseteq ToolProfiles
    /\ MaxStarted \in Nat
    /\ Calls \subseteq PlanTools \X Runs
    /\ {"log_decision", "execute_decision"} \X Runs \subseteq Calls
    /\ {"query_data"} \X Audited \subseteq Calls
    /\ {"recommend", "plan_decision"} \X Agents \subseteq Calls
    /\ [tool : PlanTools, decision : Decisions,
        force : {FALSE}, override_safety : {FALSE}] \subseteq Inputs

VARIABLES
    action,     \* the decision each run is started with
    surface,    \* the profile an agent is started with
    at,         \* the tool whose activity each run awaits, or "start",
                \* "returned", "failed"
    trail,      \* the steps in an audited run's _trail or an agent's report
    rows,       \* the rows the engine has put in each audit attempt's answer
    told        \* what each run returned

workflowVars == <<action, surface, at, trail, rows, told>>
allVars == <<vars, workflowVars>>

NotTold ==
    [returned |-> FALSE, executed |-> FALSE, delivered |-> FALSE,
     deduplicated |-> FALSE]

DecisionInput(tool, d) == [tool |-> tool, decision |-> d,
                           force |-> FALSE, override_safety |-> FALSE]

AGENT_PLAN ==
    <<"recommend", "plan_decision", "log_decision", "execute_decision">>

\* Mutant: the audit rows are fetched while the execution is still to come.
Plan_AuditFirst(r) ==
    CASE r \in Agents  -> AGENT_PLAN
      [] r \in Audited -> <<"log_decision", "query_data", "execute_decision">>
      [] OTHER         -> <<"log_decision", "execute_decision">>

\* The calls a run makes, in order.
Plan(r) ==
    CASE r \in Agents  -> AGENT_PLAN
      [] r \in Audited -> <<"log_decision", "execute_decision", "query_data">>
      [] OTHER         -> <<"log_decision", "execute_decision">>

\* Only an agent holds its plan against a surface; the worker's own profile
\* comes on top of it, in the activity.
Advertised(r, tool, profile) ==
    r \in Agents => is_tool_allowed_for_profile(tool, profile)

KeepsATrail(r) == r \in Audited \cup Agents

Entry(tool, verdict) == <<[tool |-> tool, status |-> verdict]>>

AnySurface == CHOOSE profile \in Surfaces : TRUE

Awaits(tool, r) == at[r] = tool /\ status[<<tool, r>>] = "completed"

Outcome(tool, r) == result[<<tool, r>>]

Ended(r) == at[r] \in {"returned", "failed"}

AuditAttempts == {a \in Attempts : a[1][1] = "query_data"}

NoRows == [logged |-> {}, delivered |-> {}]

DInit ==
    /\ Init
    /\ action = [r \in Runs |-> "none"]
    /\ surface = [r \in Agents |-> "none"]
    /\ at = [r \in Runs |-> "start"]
    /\ trail = [r \in Runs |-> <<>>]
    /\ rows = [a \in AuditAttempts |-> NoRows]
    /\ told = [r \in Runs |-> NotTold]

\* The position in the plan of the next tool the run may call, behind the last
\* one if there is none.
NextAdvertised(r, n, profile) ==
    Min({k \in (n + 1) .. Len(Plan(r)) : Advertised(r, Plan(r)[k], profile)}
            \cup {Len(Plan(r)) + 1})

\* Mutant: an entry is written for the call about to be made.
Recorded_Ahead(r, n, m, entry) ==
    IF m > Len(Plan(r)) THEN entry ELSE entry \o Entry(Plan(r)[m], "ok")

\* The trail's new entries: the step just taken, and the steps refused on the
\* way to the next one.
Recorded(r, n, m, entry) ==
    entry \o [k \in 1 .. m - n - 1 |->
                 [tool |-> Plan(r)[n + k], status |-> "refused_by_profile"]]

\* What a run that gets to the end of its plan returns.
ReportOf(r) ==
    [returned     |-> TRUE,
     executed     |-> Outcome("execute_decision", r).kind = "receipt",
     delivered    |-> Outcome("execute_decision", r).detail = "delivered",
     deduplicated |-> FALSE]

\* The rest of the plan behind position n: the next call, or the report.
Proceed(r, n, entry, d, profile) ==
    LET m == NextAdvertised(r, n, profile) IN
    /\ trail' = IF KeepsATrail(r)
                THEN [trail EXCEPT ![r] = @ \o Recorded(r, n, m, entry)]
                ELSE trail
    /\ \/ /\ m <= Len(Plan(r))
          /\ at' = [at EXCEPT ![r] = Plan(r)[m]]
          /\ Schedule(<<Plan(r)[m], r>>, DecisionInput(Plan(r)[m], d))
          /\ UNCHANGED told
       \/ /\ m > Len(Plan(r))
          /\ at' = [at EXCEPT ![r] = "returned"]
          /\ told' = [told EXCEPT ![r] = ReportOf(r)]
          /\ UNCHANGED vars

\* A client starts the run; an audited one begins its trail.  Every profile
\* advertises the head of an agent's plan.
Start(r) ==
    /\ at[r] = "start"
    /\ Cardinality({q \in Runs : at[q] # "start"}) < MaxStarted
    /\ \E d \in Decisions, profile \in Surfaces :
          /\ r \notin Agents => profile = AnySurface
          /\ action' = [action EXCEPT ![r] = d]
          /\ surface' = IF r \in Agents THEN [surface EXCEPT ![r] = profile]
                                        ELSE surface
          /\ Proceed(r, 0, IF r \in Audited THEN Entry("workflow_started", "ok")
                                            ELSE <<>>, d, profile)

\* The outcome that lets the plan go on.
Wanted(tool) == IF tool = "execute_decision" THEN "receipt" ELSE "payload"

\* The activity the run awaits has answered.
Resume(r) ==
    \E n \in DOMAIN Plan(r) :
        /\ Awaits(Plan(r)[n], r)
        /\ Outcome(Plan(r)[n], r).kind = Wanted(Plan(r)[n])
        /\ Proceed(r, n, Entry(Plan(r)[n], "ok"), action[r],
                   IF r \in Agents THEN surface[r] ELSE AnySurface)
    /\ UNCHANGED <<action, surface>>

AlreadyDelivered(r) ==
    /\ r \in Dedup
    /\ Awaits("execute_decision", r)
    /\ Outcome("execute_decision", r) = Answer("denial", "idempotency")

\* Mutant: the run takes the delivery for its own.
Deduplicated_AsOwn(r) ==
    /\ AlreadyDelivered(r)
    /\ at' = [at EXCEPT ![r] = "returned"]
    /\ told' = [told EXCEPT ![r] =
           [returned |-> TRUE, executed |-> TRUE, delivered |-> TRUE,
            deduplicated |-> FALSE]]
    /\ UNCHANGED <<vars, action, surface, trail>>

\* An idempotency denial becomes a success that delivered nothing new.
Deduplicated(r) ==
    /\ AlreadyDelivered(r)
    /\ at' = [at EXCEPT ![r] = "returned"]
    /\ told' = [told EXCEPT ![r] =
           [returned |-> TRUE, executed |-> TRUE, delivered |-> TRUE,
            deduplicated |-> TRUE]]
    /\ UNCHANGED <<vars, action, surface, trail>>

\* Mutant: a deduplicating run takes every denial for handled.
Raised_NoDenial(r) ==
    /\ \E tool \in PlanTools :
          /\ Awaits(tool, r)
          /\ Outcome(tool, r).kind # Wanted(tool)
          /\ ~(r \in Dedup /\ Outcome(tool, r).kind = "denial")
    /\ at' = [at EXCEPT ![r] = "failed"]
    /\ UNCHANGED <<vars, action, surface, trail, told>>

\* Every other failure of an activity is raised.
Raised(r) ==
    /\ \E tool \in PlanTools :
          Awaits(tool, r) /\ Outcome(tool, r).kind # Wanted(tool)
    /\ ~AlreadyDelivered(r)
    /\ at' = [at EXCEPT ![r] = "failed"]
    /\ UNCHANGED <<vars, action, surface, trail, told>>

Run(r) ==
    /\ Start(r) \/ Resume(r) \/ Deduplicated(r) \/ Raised(r)
    /\ UNCHANGED rows

\* The engine answers a query of its audit dataset from what it holds then.
Audit(a) ==
    /\ EngineCall(a)
    /\ rows' = [rows EXCEPT ![a] = [logged |-> logged, delivered |-> delivered]]

DProgress ==
    /\ \/ /\ \/ \E c \in Calls : Server(c)
             \/ \E a \in Attempts : Attempt(a) \/ LoseRequest(a)
             \/ \E a \in Attempts \ AuditAttempts : EngineCall(a)
          /\ UNCHANGED rows
       \/ \E a \in AuditAttempts : Audit(a)
    /\ UNCHANGED <<action, surface, at, trail, told>>

DNext == (\E r \in Runs : Run(r)) \/ DProgress

DSpec == DInit /\ [][DNext]_allVars

\* The attempts that have something left to do.
Live == {a \in Attempts : Active(a) \/ request[a] = "inflight"}

\* Clients need not start anything.  As long as a run that has been started,
\* the queues, the workers, the sessions or the engine can make progress, some
\* one of them does; no fault is ever forced to happen but the session's read
\* timeout and the server's deadline.
Healthy ==
    \/ \E r \in Runs : at[r] # "start" /\ Run(r)
    \/ /\ \/ \E c \in Calls : Server(c)
          \/ \E a \in Live :
                \/ Establish(a) \/ Refuse(a) \/ Send(a) \/ Receive(a)
                \/ LoseContact(a) \/ Close(a)
          \/ \E a \in Live \ AuditAttempts : EngineCall(a)
       /\ UNCHANGED workflowVars
    \/ \E a \in Live \cap AuditAttempts :
          Audit(a) /\ UNCHANGED <<action, surface, at, trail, told>>

DFairSpec == DSpec /\ WF_allVars(Healthy)

-----------------------------------------------------------------------------
(* What must hold                                                          *)

Told(r) == told[r].returned /\ told[r].executed

\* Of all the runs for one decision at most one says the delivery is its own,
\* and that run's own request is the one the webhook got.
OneRunOwnsTheDelivery ==
    \A r \in Runs : Told(r) /\ ~told[r].deduplicated =>
        /\ \E x \in SentFor(action[r]) : x.by[1] = <<"execute_decision", r>>
        /\ \A q \in Runs \ {r} :
              action[q] = action[r] /\ Told(q) => told[q].deduplicated

\* Whenever the trail or an agent's report is read, mid-run too, what it says
\* has happened has: the record was written and the webhook request sent by
\* this run's own calls.  And of what a step says was refused, nothing has
\* ever been asked of the engine, nor has an agent any effect its surface
\* does not advertise.
TrailIsBacked ==
    /\ \A r \in Runs : \A i \in DOMAIN trail[r] :
          LET step == trail[r][i] IN
          /\ step = Entry("log_decision", "ok")[1] =>
                \E rec \in logged : rec.by[1] = <<"log_decision", r>>
          /\ step = Entry("execute_decision", "ok")[1] =>
                \E x \in dispatches : x.by[1] = <<"execute_decision", r>>
          /\ step.status = "refused_by_profile" =>
                \A n \in 1 .. MaxAttempts :
                    request[<<<<step.tool, r>>, n>>] = "unsent"
    /\ \A x \in dispatches \cup logged :
          x.by[1][2] \in Agents =>
              x.by[1][1] \in NamedTools(surface[x.by[1][2]])

\* The rows an audited run returns beside its trail confirm it: they show the
\* record this run wrote and the delivery of its decision, whatever other
\* runs, retries and lost answers there were.
AuditConfirmsTheTrail ==
    \A r \in Audited : at[r] = "returned" =>
        LET seen == rows[<<<<"query_data", r>>, current[<<"query_data", r>>]>>] IN
        /\ \E rec \in seen.logged : rec.by[1] = <<"log_decision", r>>
        /\ action[r] \in seen.delivered

\* Clients start only so many runs, and with the attempts bounded and the
\* server's deadlines every one of them ends for good.
EveryRunEnds == <>[](\A r \in Runs : at[r] = "start" \/ Ended(r))

-----------------------------------------------------------------------------
(* What the documentation says and the code does not do                    *)

\* idempotent_activity_receipt_dedup.py: "the delivery already landed, the
\* receipt-equivalent proof is the denial itself".  The engine counts a
\* decision as delivered before it knows that the target answered 503.
ToldDeliveredIsDelivered ==
    \A r \in Runs : told[r].delivered => action[r] \notin RejectingWebhook

=============================================================================
