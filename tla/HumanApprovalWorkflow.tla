----------------------- MODULE HumanApprovalWorkflow -----------------------
(***************************************************************************)
(* recipes/human_approval_workflow.py: log a decision, try to execute it,  *)
(* and if a policy gate stops it wait for an operator's signal.  One run   *)
(* of the workflow over the activities and the engine of GovernedActivity. *)
(* The workflow's code runs in one activation at a time, from one await to *)
(* the next; signals may arrive between any two.                           *)
(***************************************************************************)
EXTENDS GovernedActivity

CONSTANTS
    Verdict,    \* the ApprovalDecisions operators may signal
    NoVerdict   \* the approval before any signal

ASSUME ApprovalAssumption ==
    /\ {"log", "first", "second"} \subseteq Calls
    /\ Verdict \subseteq [approved : BOOLEAN, override_safety : BOOLEAN]
    /\ NoVerdict \notin Verdict
    /\ [tool : {"log_decision", "execute_decision"}, decision : Decisions,
        force : {FALSE}, override_safety : BOOLEAN] \subseteq Inputs

VARIABLES
    action,     \* the decision the workflow is started with
    at,         \* the await the run method is at
    state,      \* _state, the status an operator sees
    approval,   \* _approval
    denial      \* the gate of _denial, "none" before there is one

workflowVars == <<action, at, state, approval, denial>>
allVars == <<vars, workflowVars>>

ToExecute(override_safety) ==
    [tool |-> "execute_decision", decision |-> action,
     force |-> FALSE, override_safety |-> override_safety]

ToLog == [tool |-> "log_decision", decision |-> action,
          force |-> FALSE, override_safety |-> FALSE]

Open == at \notin {"returned", "failed"}

WInit ==
    /\ Init
    /\ action \in Decisions
    /\ at = "start"
    /\ state = "executing"
    /\ approval = NoVerdict
    /\ denial = "none"

\* run() begins: the log_decision activity is scheduled.
Start ==
    /\ at = "start"
    /\ at' = "logging"
    /\ Schedule("log", ToLog)
    /\ UNCHANGED <<state, approval, denial>>

Logged ==
    /\ at = "logging"
    /\ status["log"] = "completed"
    /\ result["log"].kind = "payload"
    /\ at' = "executing"
    /\ Schedule("first", ToExecute(FALSE))
    /\ UNCHANGED <<state, approval, denial>>

\* The log activity fails for good and its error leaves run().
LogFailed ==
    /\ at = "logging"
    /\ status["log"] = "completed"
    /\ result["log"].kind # "payload"
    /\ at' = "failed"
    /\ UNCHANGED <<vars, state, approval, denial>>

\* An execute_decision activity returns its receipt.
Executed(c, where) ==
    /\ at = where
    /\ status[c] = "completed"
    /\ result[c].kind = "receipt"
    /\ at' = "returned"
    /\ state' = "completed"
    /\ UNCHANGED <<vars, approval, denial>>

\* A gate an operator may override parks the workflow.
Park ==
    /\ at = "executing"
    /\ status["first"] = "completed"
    /\ result["first"].kind = "denial"
    /\ result["first"].detail # "idempotency"
    /\ at' = "parked"
    /\ state' = "awaiting_approval"
    /\ denial' = result["first"].detail
    /\ UNCHANGED <<vars, approval>>

\* Mutant: no denial is raised, an idempotency denial neither.
FirstFailed_NoDenial ==
    /\ at = "executing"
    /\ status["first"] = "completed"
    /\ result["first"].kind \notin {"receipt", "denial"}
    /\ at' = "failed"
    /\ UNCHANGED <<vars, state, approval, denial>>

\* Any other failure of the first execution is raised.
FirstFailed ==
    /\ at = "executing"
    /\ status["first"] = "completed"
    /\ result["first"].kind # "receipt"
    /\ result["first"].kind = "denial" => result["first"].detail = "idempotency"
    /\ at' = "failed"
    /\ UNCHANGED <<vars, state, approval, denial>>

\* Any failure of the approved execution is raised, a second denial too.
SecondFailed ==
    /\ at = "approved"
    /\ status["second"] = "completed"
    /\ result["second"].kind # "receipt"
    /\ at' = "failed"
    /\ UNCHANGED <<vars, state, approval, denial>>

\* Mutant: the last verdict stays.
decide_LastWins(verdict) ==
    /\ Open
    /\ approval' = verdict
    /\ UNCHANGED <<vars, at, state, denial>>

\* The decide signal: the first verdict stays, whenever it arrives.
decide(verdict) ==
    /\ Open
    /\ approval = NoVerdict
    /\ approval' = verdict
    /\ UNCHANGED <<vars, at, state, denial>>

\* wait_condition returns and the operator said yes.
Approved ==
    /\ at = "parked"
    /\ approval # NoVerdict
    /\ approval.approved
    /\ at' = "approved"
    /\ state' = "approved"
    /\ Schedule("second", ToExecute(approval.override_safety))
    /\ UNCHANGED <<approval, denial>>

Rejected ==
    /\ at = "parked"
    /\ approval # NoVerdict
    /\ ~approval.approved
    /\ at' = "failed"
    /\ state' = "rejected"
    /\ UNCHANGED <<vars, approval, denial>>

\* Mutant: the timer still runs after the operator has approved.
ApprovalTimeout_NotCancelled ==
    /\ at \in {"parked", "approved"}
    /\ at' = "failed"
    /\ state' = "rejected"
    /\ UNCHANGED <<vars, approval, denial>>

\* The durable timer fires.  When the activation that brings it has a verdict
\* too, or an early one met a timeout of zero, either may win.
ApprovalTimeout ==
    /\ at = "parked"
    /\ at' = "failed"
    /\ state' = "rejected"
    /\ UNCHANGED <<vars, approval, denial>>

Run ==
    /\ \/ Start \/ Logged \/ LogFailed
       \/ Executed("first", "executing") \/ Park \/ FirstFailed
       \/ Approved \/ Rejected \/ ApprovalTimeout
       \/ Executed("second", "approved") \/ SecondFailed
    /\ UNCHANGED action

WNext ==
    \/ Run
    \/ \E verdict \in Verdict : decide(verdict) /\ UNCHANGED action
    \/ Progress /\ UNCHANGED workflowVars

WSpec == WInit /\ [][WNext]_allVars

\* The server delivers activations and fires timers; operators may never
\* answer.
WFairSpec == WSpec /\ WF_allVars(Run) /\ HealthyFairness

-----------------------------------------------------------------------------
(* What must hold                                                          *)

\* The workflow's variables keep to the values the code gives _state,
\* _approval and _denial.
WTypeOK ==
    /\ TypeOK
    /\ action \in Decisions
    /\ at \in {"start", "logging", "executing", "parked", "approved",
               "returned", "failed"}
    /\ state \in {"executing", "awaiting_approval", "approved", "rejected",
                  "completed"}
    /\ approval \in Verdict \cup {NoVerdict}
    /\ denial \in {"none", "confidence", "risk_floor", "unnamed"}

\* An operator who rejects, or never answers, can rely on it: nothing of the
\* workflow's has executed or ever will, late requests of the first attempt
\* included.
RejectionLeavesNothingExecuted ==
    state = "rejected" => dispatches = {}

\* What the engine is asked to override is what the operator on record signed:
\* no later signal rewrites a verdict the workflow has acted on.
OverrideMatchesVerdict ==
    input["second"] # NoInput =>
        /\ approval # NoVerdict
        /\ approval.approved
        /\ input["second"].override_safety = approval.override_safety

\* A run that sees no operator at all still ends: the timer bounds the wait,
\* and the activities retry until they get an answer.
WorkflowCloses == <>~Open

=============================================================================
