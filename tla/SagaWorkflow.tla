---------------------------- MODULE SagaWorkflow ----------------------------
(***************************************************************************)
(* recipes/saga_with_policy_gates.py: a sequence of steps, each logged and *)
(* then executed; a policy denial stops the sequence and the steps already *)
(* executed are compensated in reverse order by records in decision        *)
(* memory.  One run of the workflow over the activities and the engine of  *)
(* GovernedActivity.                                                       *)
(***************************************************************************)
EXTENDS GovernedActivity, Sequences

CONSTANTS
    Sagas,              \* the sequences of decisions a saga may be started with
    MaxSteps,           \* the length of the longest
    Compensation(_)     \* the decision logged to compensate a decision

ASSUME SagaAssumption ==
    /\ MaxSteps \in Nat
    /\ \A saga \in Sagas : saga \in Seq(Decisions) /\ Len(saga) <= MaxSteps
    /\ \A d \in Decisions : Compensation(d) \in Decisions
    /\ Calls = {"log", "execute", "compensate"} \X (1 .. MaxSteps)
    /\ [tool : {"log_decision", "execute_decision"}, decision : Decisions,
        force : {FALSE}, override_safety : {FALSE}] \subseteq Inputs

VARIABLES
    steps,          \* the workflow's input
    at,             \* the await run() is at: "log", "execute", "compensate",
                    \* or "start", "returned", "failed"
    step,           \* the number of the step, or of the next compensation
    executed,       \* the decisions executed, in order
    compensated,    \* the decisions that compensate them, in order
    report          \* the status of the SagaReport, "none" before

workflowVars == <<steps, at, step, executed, compensated, report>>
allVars == <<vars, workflowVars>>

SagaInput(tool, d) == [tool |-> tool, decision |-> d,
                       force |-> FALSE, override_safety |-> FALSE]

Ended == at \in {"returned", "failed"}

Awaits(kind) == at = kind /\ status[<<kind, step>>] = "completed"

Outcome(kind) == result[<<kind, step>>]

SInit ==
    /\ Init
    /\ steps \in Sagas
    /\ at = "start"
    /\ step = 0
    /\ executed = <<>>
    /\ compensated = <<>>
    /\ report = "none"

\* The head of the loop: the next step's decision is logged, or all steps are
\* done and the report says so.
NextStep ==
    \/ /\ step < Len(steps)
       /\ at' = "log"
       /\ step' = step + 1
       /\ Schedule(<<"log", step + 1>>,
                   SagaInput("log_decision", steps[step + 1]))
       /\ UNCHANGED <<compensated, report>>
    \/ /\ step = Len(steps)
       /\ at' = "returned"
       /\ report' = "completed"
       /\ UNCHANGED <<vars, step, compensated>>

Start == at = "start" /\ NextStep /\ UNCHANGED executed

Logged ==
    /\ Awaits("log")
    /\ Outcome("log").kind = "payload"
    /\ at' = "execute"
    /\ Schedule(<<"execute", step>>,
                SagaInput("execute_decision", steps[step]))
    /\ UNCHANGED <<step, executed, compensated, report>>

\* Any receipt counts, whatever its execution_status.
Executed ==
    /\ Awaits("execute")
    /\ Outcome("execute").kind = "receipt"
    /\ executed' = Append(executed, steps[step])
    /\ NextStep

\* The head of the compensation loop: i is the number of the last executed
\* step not yet compensated.
Compensate(i) ==
    \/ /\ i > 0
       /\ at' = "compensate"
       /\ step' = i
       /\ Schedule(<<"compensate", i>>,
                   SagaInput("log_decision", Compensation(executed[i])))
       /\ UNCHANGED report
    \/ /\ i = 0
       /\ at' = "returned"
       /\ report' = "compensated"
       /\ UNCHANGED <<vars, step>>

\* Mutant: the last executed step is skipped.
Denied_SkipsLast ==
    /\ Awaits("execute")
    /\ Outcome("execute").kind = "denial"
    /\ Compensate(IF executed = <<>> THEN 0 ELSE Len(executed) - 1)
    /\ UNCHANGED <<executed, compensated>>

\* Mutant: any failure of a step unwinds the saga.
Denied_AnyFailure ==
    /\ Awaits("execute")
    /\ Outcome("execute").kind # "receipt"
    /\ Compensate(Len(executed))
    /\ UNCHANGED <<executed, compensated>>

\* Any denial, the idempotency gate's too, unwinds the saga.
Denied ==
    /\ Awaits("execute")
    /\ Outcome("execute").kind = "denial"
    /\ Compensate(Len(executed))
    /\ UNCHANGED <<executed, compensated>>

Compensated ==
    /\ Awaits("compensate")
    /\ Outcome("compensate").kind = "payload"
    /\ compensated' = Append(compensated, Compensation(executed[step]))
    /\ Compensate(step - 1)
    /\ UNCHANGED executed

\* Mutant: a failing compensation is swallowed.
Raised_NotWhileCompensating ==
    /\ \/ Awaits("log") /\ Outcome("log").kind # "payload"
       \/ Awaits("execute") /\ Outcome("execute").kind \notin {"receipt", "denial"}
    /\ at' = "failed"
    /\ UNCHANGED <<vars, step, executed, compensated, report>>

\* Every other failure of an activity is raised.
Raised ==
    /\ \/ Awaits("log") /\ Outcome("log").kind # "payload"
       \/ Awaits("execute") /\ Outcome("execute").kind \notin {"receipt", "denial"}
       \/ Awaits("compensate") /\ Outcome("compensate").kind # "payload"
    /\ at' = "failed"
    /\ UNCHANGED <<vars, step, executed, compensated, report>>

Run ==
    /\ Start \/ Logged \/ Executed \/ Denied \/ Compensated \/ Raised
    /\ UNCHANGED steps

SNext == Run \/ (Progress /\ UNCHANGED workflowVars)

SSpec == SInit /\ [][SNext]_allVars

SFairSpec == SSpec /\ WF_allVars(Run) /\ HealthyFairness

-----------------------------------------------------------------------------
(* What must hold                                                          *)

\* The saga's variables keep to their types, with executed and compensated
\* within the steps of its input.
STypeOK ==
    /\ TypeOK
    /\ steps \in Sagas
    /\ at \in {"start", "log", "execute", "compensate", "returned", "failed"}
    /\ step \in 0 .. Len(steps)
    /\ executed \in Seq(Decisions) /\ Len(executed) <= Len(steps)
    /\ compensated \in Seq(Decisions) /\ Len(compensated) <= Len(executed)
    /\ report \in {"none", "completed", "compensated"}

\* Only what has been executed is compensated, the last step first, and a
\* saga that reports "compensated" has compensated all of it.
UnwindsInReverse ==
    /\ \A i \in 1 .. Len(compensated) :
          compensated[i] = Compensation(executed[Len(executed) + 1 - i])
    /\ report = "compensated" => Len(compensated) = Len(executed)

\* A compensation is recorded only for a step whose webhook request went out,
\* and only once a later step is denied; and when the report says "compensated",
\* every step that had answered with a receipt has its compensation in decision
\* memory, whatever the run made of those answers.
CompensatesWhatHappened ==
    /\ \A r \in logged :
          r.by[1][1] = "compensate" =>
              /\ \E x \in dispatches : x.by[1] = <<"execute", r.by[1][2]>>
              /\ \E i \in 1 .. Len(steps) :
                     i > r.by[1][2] /\ result[<<"execute", i>>].kind = "denial"
    /\ report = "compensated" =>
           \A i \in 1 .. Len(steps) :
              result[<<"execute", i>>].kind = "receipt" =>
                  \E r \in logged : r.by[1] = <<"compensate", i>>

\* Every saga ends.
SagaEnds == <>Ended

-----------------------------------------------------------------------------
(* What the documentation says and the code does not do                    *)

\* saga_with_policy_gates.py: the report says "compensated" when "every
\* delivered step was compensated".  A step whose answer was lost is retried,
\* its retry is denied as already delivered, and it is not compensated.
DeliveredStepsAreCompensated ==
    report = "compensated" =>
        \A x \in dispatches : \E r \in logged :
            r.by[1] = <<"compensate", x.by[1][2]>>

=============================================================================
