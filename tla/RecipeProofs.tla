---------------------------- MODULE RecipeProofs ----------------------------
(***************************************************************************)
(* What TLAPS proves of three of the modules that run recipes over the     *)
(* activities: HumanApprovalWorkflow, DecisionJournal, RecipeWorkflows.    *)
(* Their variables are apart and their assumptions ask only that the calls *)
(* and inputs they make are among Calls and Inputs.                        *)
(***************************************************************************)
EXTENDS HumanApprovalWorkflow, DecisionJournal, RecipeWorkflows, GovernedActivityProofs,
        SequenceTheorems

-----------------------------------------------------------------------------
(* The approval workflow: the inductive invariant                          *)

\* The first execution was stopped by a gate an operator may override.
StoppedAtAGate ==
    /\ Completed("first")
    /\ result["first"].kind = "denial"
    /\ result["first"].detail # "idempotency"

\* The calls the run has made, by where it is, each with the input that the
\* recipe gives it.
CallsFollowThePlan ==
    /\ action \in Decisions
    /\ at \in {"start", "logging", "executing", "parked", "approved",
               "returned", "failed"}
    /\ approval \in Verdict \cup {NoVerdict}
    /\ at = "start" => ~Scheduled("log")
    /\ at \in {"start", "logging"} => ~Scheduled("first")
    /\ \A c \in Calls : Scheduled(c) => c \in {"log", "first", "second"}
    /\ Scheduled("log") => input["log"] = ToLog
    /\ Scheduled("first") => input["first"] = ToExecute(FALSE)

\* The approved execution is made after a verdict, and the verdict it was made
\* with is still the one on record.
ApprovalIsOnRecord ==
    /\ at \in {"start", "logging", "executing", "parked"} => ~Scheduled("second")
    /\ Scheduled("second") =>
           /\ approval # NoVerdict
           /\ approval.approved
           /\ input["second"] = ToExecute(approval.override_safety)

\* A run is rejected only where it has been parked, and before any approval.
RejectedWhileParked ==
    /\ at = "parked" => StoppedAtAGate
    /\ state = "awaiting_approval" => at = "parked"
    /\ state = "rejected" =>
           at = "failed" /\ StoppedAtAGate /\ ~Scheduled("second")

WInv == IInv /\ CallsFollowThePlan /\ ApprovalIsOnRecord /\ RejectedWhileParked

-----------------------------------------------------------------------------
(* The workflow runs over the activities as they are                       *)

\* What the workflow asks for are inputs of the activities, and its calls are
\* calls.
LEMMA PlannedInputs ==
    ASSUME CallsFollowThePlan
    PROVE  /\ {"log", "first", "second"} \subseteq Calls
           /\ ToLog \in Inputs
           /\ \A o \in BOOLEAN : ToExecute(o) \in Inputs
           /\ approval # NoVerdict =>
                  approval.approved \in BOOLEAN /\ approval.override_safety \in BOOLEAN
<1> QED
  BY ApprovalAssumption DEF CallsFollowThePlan, ToLog, ToExecute

\* A step of the workflow is a step of the activities, or leaves them alone.
LEMMA WorkflowStepIsActivityStep ==
    ASSUME CallsFollowThePlan, [WNext]_allVars
    PROVE  [Next]_vars
<1>1. CASE Run
  <2>1. CASE Start
    BY <2>1, PlannedInputs DEF Start, Next
  <2>2. CASE Logged
    BY <2>2, PlannedInputs DEF Logged, Next
  <2>3. CASE Approved
    BY <2>3, PlannedInputs DEF Approved, Next
  <2> QED
    BY <1>1, <2>1, <2>2, <2>3
       DEF Run, LogFailed, Executed, Park, FirstFailed, Rejected,
           ApprovalTimeout, SecondFailed
<1>2. CASE \E verdict \in Verdict : decide(verdict) /\ UNCHANGED action
  BY <1>2 DEF decide
<1>3. CASE Progress /\ UNCHANGED workflowVars
  BY <1>3 DEF Next
<1>4. CASE UNCHANGED allVars
  BY <1>4 DEF allVars
<1> QED
  BY <1>1, <1>2, <1>3, <1>4 DEF WNext

-----------------------------------------------------------------------------
(* The invariant is inductive                                              *)

LEMMA WInvariantInit == WInit => WInv
<1> SUFFICES ASSUME WInit
             PROVE  WInv
  OBVIOUS
<1>1. IInv
  BY InvariantInit DEF WInit
<1>2. \A c \in Calls : ~Scheduled(c)
  BY DEF WInit, Init, Scheduled
<1>3. CallsFollowThePlan /\ ApprovalIsOnRecord /\ RejectedWhileParked
  BY <1>2, ApprovalAssumption
     DEF WInit, CallsFollowThePlan, ApprovalIsOnRecord, RejectedWhileParked
<1> QED
  BY <1>1, <1>3 DEF WInv

\* A step that makes no call and moves the run on as its code does.
LEMMA WRunStep ==
    ASSUME WInv, Run
    PROVE  CallsFollowThePlan' /\ ApprovalIsOnRecord' /\ RejectedWhileParked'
<1> USE DEF WInv, IInv
<1>1. {"log", "first", "second"} \subseteq Calls /\ UNCHANGED action
  BY ApprovalAssumption DEF Run
<1>2. ASSUME NEW c \in Calls, NEW in, Schedule(c, in)
      PROVE  /\ ~Scheduled(c) /\ input'[c] = in
             /\ \A k \in Calls :
                   /\ Scheduled(k)' <=> Scheduled(k) \/ k = c
                   /\ Completed(k)' <=> Completed(k)
                   /\ k # c => input'[k] = input[k]
             /\ result' = result
  BY <1>2, ScheduleMakesOneCall
<1>3. CASE Start
  BY <1>1, <1>2, <1>3
     DEF Start, CallsFollowThePlan, ApprovalIsOnRecord, RejectedWhileParked,
         StoppedAtAGate, ToLog, ToExecute
<1>4. CASE Logged
  BY <1>1, <1>2, <1>4
     DEF Logged, CallsFollowThePlan, ApprovalIsOnRecord, RejectedWhileParked,
         StoppedAtAGate, ToLog, ToExecute
<1>5. CASE Approved
  BY <1>1, <1>2, <1>5
     DEF Approved, CallsFollowThePlan, ApprovalIsOnRecord, RejectedWhileParked,
         StoppedAtAGate, ToLog, ToExecute
<1>6. ASSUME UNCHANGED <<vars, approval>>,
             \/ at' \in {"returned", "failed"} /\ at # "start"
             \/ at = "executing" /\ at' = "parked" /\ StoppedAtAGate,
             \/ state' = state /\ state # "awaiting_approval"
             \/ state' = "completed"
             \/ state' = "awaiting_approval" /\ at' = "parked"
             \/ state' = "rejected" /\ at = "parked" /\ at' = "failed",
             at \notin {"returned", "failed"}
      PROVE  CallsFollowThePlan' /\ ApprovalIsOnRecord' /\ RejectedWhileParked'
  BY <1>1, <1>6
     DEF vars, serverVars, CallsFollowThePlan, ApprovalIsOnRecord,
         RejectedWhileParked, StoppedAtAGate, Scheduled, Completed, ToLog,
         ToExecute
<1>7. CASE \/ LogFailed \/ Executed("first", "executing") \/ Park
           \/ FirstFailed \/ Rejected \/ ApprovalTimeout
           \/ Executed("second", "approved") \/ SecondFailed
  BY <1>1, <1>6, <1>7
     DEF LogFailed, Executed, Park, FirstFailed, Rejected, ApprovalTimeout,
         SecondFailed, RejectedWhileParked, StoppedAtAGate, Completed
<1> QED
  BY <1>3, <1>4, <1>5, <1>7 DEF Run

LEMMA WInvariantStep == WInv /\ [WNext]_allVars => WInv'
<1> SUFFICES ASSUME WInv, [WNext]_allVars
             PROVE  WInv'
  OBVIOUS
<1> USE DEF WInv, IInv
<1>1. IInv'
  BY WorkflowStepIsActivityStep, InvariantStep
<1>2. CASE Run
  BY <1>1, <1>2, WRunStep
<1>3. ASSUME NEW verdict \in Verdict, decide(verdict), UNCHANGED action
      PROVE  WInv'
  BY <1>1, <1>3, ApprovalAssumption
     DEF decide, Open, vars, serverVars, CallsFollowThePlan,
         ApprovalIsOnRecord, RejectedWhileParked, StoppedAtAGate, Scheduled,
         Completed, ToLog, ToExecute
<1>4. CASE Progress /\ UNCHANGED workflowVars
  BY <1>1, <1>4, ProgressMakesNoCall, ApprovalAssumption
     DEF workflowVars, CallsAdvance, CallsFollowThePlan, ApprovalIsOnRecord,
         RejectedWhileParked, StoppedAtAGate, ToLog, ToExecute
<1>5. CASE UNCHANGED allVars
  BY <1>1, <1>5
     DEF allVars, workflowVars, vars, serverVars, CallsFollowThePlan,
         ApprovalIsOnRecord, RejectedWhileParked, StoppedAtAGate, Scheduled,
         Completed, ToLog, ToExecute
<1> QED
  BY <1>2, <1>3, <1>4, <1>5 DEF WNext

THEOREM WInvariance == WSpec => []WInv
<1> QED
  BY WInvariantInit, WInvariantStep, PTL DEF WSpec

\* The workflow with its activities is a behaviour of GovernedActivity, so what
\* is proved of calls holds of the workflow's.
THEOREM WorkflowImplementsActivities == WSpec => Spec
<1>1. WInit => Init
  BY DEF WInit
<1>2. WInv /\ [WNext]_allVars => [Next]_vars
  BY WorkflowStepIsActivityStep DEF WInv
<1> QED
  BY <1>1, <1>2, WInvariance, PTL DEF WSpec, Spec

-----------------------------------------------------------------------------
(* What follows from it                                                    *)

\* What the engine is asked to override is what the operator on record signed,
\* whatever signals came before the denial or after the verdict.
THEOREM OverridesAreSigned == WSpec => []OverrideMatchesVerdict
<1>1. WInv => OverrideMatchesVerdict
  <2> SUFFICES ASSUME WInv, input["second"] # NoInput
               PROVE  /\ approval # NoVerdict
                      /\ approval.approved
                      /\ input["second"].override_safety = approval.override_safety
    BY DEF OverrideMatchesVerdict
  <2>1. Scheduled("second")
    BY ApprovalAssumption DEF WInv, IInv, CallsStartClean
  <2> QED
    BY <2>1 DEF WInv, ApprovalIsOnRecord, ToExecute
<1> QED
  BY <1>1, WInvariance, PTL

\* A decision is gated if a policy denial has stopped a call that named its
\* gate: the denial would have come in every attempt of the call.
LEMMA FirstDenialMeansGated ==
    ASSUME WInv, StoppedAtAGate, "unnamed" \notin Breaches
    PROVE  action \in LowConfidence \cup BelowRiskFloor
<1>1. "first" \in Calls
  BY ApprovalAssumption
<1>2. Backed("first", result["first"]) /\ result["first"] \in Outcomes \cup {Nothing}
  BY <1>1 DEF WInv, IInv, TypeOK, OutcomesAreBacked
<1>3. input["first"].decision = action
  BY <1>1 DEF WInv, CallsFollowThePlan, StoppedAtAGate, Scheduled, Completed,
              ToExecute
<1>4. \/ result["first"] = UnnamedDenial
      \/ result["first"] = Answer("denial", "confidence")
      \/ result["first"] = Answer("denial", "risk_floor")
  <2>1. result["first"] \in Denials \cup {UnnamedDenial}
    BY <1>2 DEF StoppedAtAGate, Outcomes, Receipts, Payload, FinalFailures, Fail,
       Answer, RetryableKinds, Nothing
  <2>2. ASSUME result["first"] \in Denials
        PROVE  \E gate \in Gates : result["first"] = Answer("denial", gate)
    BY <2>2 DEF Denials
  <2>3. \A gate : Answer("denial", gate).detail = gate
    BY DEF Answer
  <2> QED
    BY <2>1, <2>2, <2>3 DEF StoppedAtAGate, Gates
<1> QED
  BY <1>2, <1>3, <1>4 DEF Backed

\* An operator who rejects, or never answers, can rely on it that nothing has
\* executed and nothing will, however many attempts there were.  The engine has
\* to name the gate of a denial: the recipe parks on any denial that does not
\* name the idempotency gate, so one that has lost its name, of a retry after
\* a lost receipt, would be offered to the operator too.
THEOREM RejectionsAreFinal ==
    "unnamed" \notin Breaches => (WSpec => []RejectionLeavesNothingExecuted)
<1> SUFFICES ASSUME "unnamed" \notin Breaches
             PROVE  WSpec => []RejectionLeavesNothingExecuted
  OBVIOUS
<1>1. WInv => RejectionLeavesNothingExecuted
  <2> SUFFICES ASSUME WInv, state = "rejected", NEW x \in dispatches
               PROVE  FALSE
    BY DEF RejectionLeavesNothingExecuted
  <2> USE DEF WInv, IInv
  <2>1. x.by[1] \in {"log", "first", "second"} /\ Scheduled(x.by[1])
    BY RequestersAreAttempts DEF TypeOK, CallsStartClean, CallsFollowThePlan
  <2>2. /\ x.decision = input[x.by[1]].decision
        /\ input[x.by[1]].tool = "execute_decision"
        /\ x.decision \in LowConfidence \cup BelowRiskFloor =>
               input[x.by[1]].override_safety
    BY DEF SentAsAsked
  <2>3. action \in LowConfidence \cup BelowRiskFloor
    BY FirstDenialMeansGated DEF RejectedWhileParked
  <2>4. CASE x.by[1] = "log"
    BY <2>1, <2>2, <2>4 DEF CallsFollowThePlan, ToLog
  <2>5. CASE x.by[1] = "first"
    BY <2>1, <2>2, <2>3, <2>5 DEF CallsFollowThePlan, ToExecute
  <2>6. CASE x.by[1] = "second"
    BY <2>1, <2>6 DEF RejectedWhileParked
  <2> QED
    BY <2>1, <2>4, <2>5, <2>6
<1> QED
  BY <1>1, WInvariance, PTL

-----------------------------------------------------------------------------
(* The decision journal: the inductive invariant                           *)

\* Each signal that has arrived has made one call, which logs its decision.
SignalsAreCalls ==
    /\ arrived \in Nat
    /\ \A n \in Calls : Scheduled(n) <=> n \in 1 .. arrived
    /\ \A n \in Calls : Scheduled(n) => input[n].tool = "log_decision"

\* An entry is of a signal whose call has come back with the engine's answer.
EntriesAreAnswered ==
    /\ entries \in Seq(Calls)
    /\ \A i \in DOMAIN entries :
          Completed(entries[i]) /\ result[entries[i]].kind = "payload"

EntriesAreDistinct ==
    \A i, j \in DOMAIN entries : entries[i] = entries[j] => i = j

JInv ==
    IInv /\ SignalsAreCalls /\ EntriesAreAnswered /\ EntriesAreDistinct

-----------------------------------------------------------------------------
(* The invariant is inductive                                              *)

\* A step of the journal is a step of the activities, or leaves them alone.
LEMMA JournalStepIsActivityStep ==
    ASSUME SignalsAreCalls, [JNext]_allJournalVars
    PROVE  [Next]_vars
<1>1. ASSUME NEW d \in Decisions, RecordSignal(d)
      PROVE  Next
  <2>1. arrived + 1 \in Calls
    BY <1>1, JournalAssumption DEF RecordSignal, SignalsAreCalls
  <2>2. LogDecisionInput(d) \in Inputs
    BY JournalAssumption DEF LogDecisionInput
  <2> QED
    BY <1>1, <2>1, <2>2 DEF RecordSignal, Next
<1>2. CASE JProgress
  BY <1>2 DEF JProgress, Next, Progress
<1>3. CASE (\E n \in Signals : Handler(n)) \/ CloseSignal \/ Return \/ UNCHANGED allJournalVars
  BY <1>3 DEF Handler, AppendEntry, HandlerRaised, CloseSignal, Return, allJournalVars
<1> QED
  BY <1>1, <1>2, <1>3 DEF JNext

LEMMA JInvariantInit == JInit => JInv
<1> SUFFICES ASSUME JInit
             PROVE  JInv
  OBVIOUS
<1>1. IInv
  BY InvariantInit DEF JInit
<1>2. \A n \in Calls : ~Scheduled(n)
  BY DEF JInit, Init, Scheduled
<1>3. SignalsAreCalls /\ EntriesAreAnswered /\ EntriesAreDistinct
  BY <1>2, JournalAssumption
     DEF JInit, SignalsAreCalls, EntriesAreAnswered, EntriesAreDistinct
<1> QED
  BY <1>1, <1>3 DEF JInv

LEMMA JInvariantStep == JInv /\ [JNext]_allJournalVars => JInv'
<1> SUFFICES ASSUME JInv, [JNext]_allJournalVars
             PROVE  JInv'
  OBVIOUS
<1> USE DEF JInv, IInv
<1>1. IInv'
  BY JournalStepIsActivityStep, InvariantStep
<1>2. ASSUME NEW d \in Decisions, RecordSignal(d)
      PROVE  JInv'
  <2>1. arrived + 1 \in Calls
    BY <1>2, JournalAssumption DEF RecordSignal, SignalsAreCalls
  <2>2. /\ input'[arrived + 1] = LogDecisionInput(d)
        /\ \A k \in Calls :
              /\ Scheduled(k)' <=> Scheduled(k) \/ k = arrived + 1
              /\ Completed(k)' <=> Completed(k)
              /\ k # arrived + 1 => input'[k] = input[k]
        /\ result' = result
    BY <1>2, <2>1, ScheduleMakesOneCall DEF RecordSignal
  <2>3. SignalsAreCalls'
    BY <1>2, <2>1, <2>2, JournalAssumption
       DEF RecordSignal, SignalsAreCalls, LogDecisionInput
  <2>4. EntriesAreAnswered' /\ EntriesAreDistinct'
    BY <1>2, <2>2 DEF RecordSignal, EntriesAreAnswered, EntriesAreDistinct
  <2> QED
    BY <1>1, <2>3, <2>4
<1>3. ASSUME NEW n \in Signals, AppendEntry(n)
      PROVE  JInv'
  <2>1. /\ Completed(n) /\ result[n].kind = "payload"
        /\ entries' = Append(entries, n)
        /\ \A i \in DOMAIN entries : entries[i] # n
        /\ UNCHANGED <<input, status, result, arrived>>
    BY <1>3 DEF AppendEntry, HandlerResumes, Journaled, ToSet, vars, serverVars
  <2>2. EntriesAreAnswered' /\ EntriesAreDistinct'
    <3>1. n \in Calls
      BY <1>3, JournalAssumption DEF Signals
    <3> QED
      BY <2>1, <3>1 DEF EntriesAreAnswered, EntriesAreDistinct, Completed
  <2>3. SignalsAreCalls'
    BY <2>1 DEF SignalsAreCalls, Scheduled
  <2> QED
    BY <1>1, <2>2, <2>3
<1>4. CASE UNCHANGED <<vars, arrived, entries>>
  BY <1>1, <1>4 DEF SignalsAreCalls, EntriesAreAnswered, EntriesAreDistinct,
     Scheduled, Completed, vars, serverVars
<1>5. CASE JProgress
  <2>1. Progress /\ UNCHANGED <<arrived, entries>>
    BY <1>5 DEF JProgress, Progress, journalVars
  <2>2. /\ input' = input
        /\ \A k \in Calls : Scheduled(k)' <=> Scheduled(k)
        /\ CallsAdvance
    BY <2>1, ProgressMakesNoCall
  <2> QED
    BY <1>1, <2>1, <2>2
       DEF CallsAdvance, SignalsAreCalls, EntriesAreAnswered, EntriesAreDistinct
<1> QED
  BY <1>2, <1>3, <1>4, <1>5
     DEF JNext, Handler, HandlerRaised, CloseSignal, Return, allJournalVars, journalVars

THEOREM JInvariance == JSpec => []JInv
<1> QED
  BY JInvariantInit, JInvariantStep, PTL DEF JSpec

-----------------------------------------------------------------------------
(* What follows from it                                                    *)

\* The journal with its activities is a behaviour of GovernedActivity, so what
\* is proved of calls holds of the journal's.
THEOREM JournalImplementsActivities == JSpec => Spec
<1>1. JInit => Init
  BY DEF JInit
<1>2. JInv /\ [JNext]_allJournalVars => [Next]_vars
  BY JournalStepIsActivityStep DEF JInv
<1> QED
  BY <1>1, <1>2, JInvariance, PTL DEF JSpec, Spec

\* Every entry of the journal stands for a record its own signal's activity has
\* written, and no signal is journaled twice.
THEOREM EntriesStandForRecords == JSpec => []EntriesAreOnRecord
<1>1. JInv => EntriesAreOnRecord
  <2> SUFFICES ASSUME JInv
               PROVE  EntriesAreOnRecord
    OBVIOUS
  <2>1. ASSUME NEW n \in Journaled
        PROVE  \E rec \in logged :
                   rec.by[1] = n /\ rec.decision = input[n].decision
    <3>1. n \in Calls /\ Completed(n) /\ result[n].kind = "payload"
      BY <2>1 DEF JInv, EntriesAreAnswered, Journaled, ToSet
    <3>2. input[n].tool = "log_decision"
      BY <3>1 DEF JInv, SignalsAreCalls, Scheduled, Completed
    <3> QED
      BY <3>1, <3>2, PayloadsAreOnRecord DEF JInv
  <2> QED
    BY <2>1 DEF EntriesAreOnRecord, JInv, EntriesAreDistinct
<1> QED
  BY <1>1, JInvariance, PTL

-----------------------------------------------------------------------------
(* The other recipes: the inductive invariant                              *)

\* What the engine is to simulate with call c of a batch.
ScenarioOf(c) == script.scenarios[IF c <= n_scenarios THEN c ELSE c - n_scenarios]

Right == _aggregate(script.scenarios,
                    [i \in 1 .. n_scenarios |-> ExpectedValue(script.scenarios[i])])

\* A batch makes its calls in the order of their numbers, one of each scenario
\* side by side and then one of each in turn.
BatchFollowsScript ==
    script.recipe = "batch" =>
        \E last \in 0 .. 2 * n_scenarios :
            /\ \A c \in Calls : Scheduled(c) <=> c \in 1 .. last
            /\ \A c \in 1 .. last : input[c] = SafeInput("simulate", ScenarioOf(c))
            /\ stage = "start" => last = 0
            /\ stage = "batch" => last = n_scenarios
            /\ stage = "sequential" => last > n_scenarios

\* A stage is of its recipe, and comes with the reports that are due.
ReportsComeInTurn ==
    /\ stage \in {"start", "batch", "sequential"} \cup RecipeKinds \cup {"returned", "failed"}
    /\ stage \in {"batch", "sequential"} => script.recipe = "batch"
    /\ stage \in {"scheduled", "transient", "failfast"} => script.recipe = stage
    /\ report \in {NoReport, Right} /\ baseline \in {NoReport, Right}
    /\ stage = "sequential" => report = Right
    /\ stage = "returned" /\ script.recipe = "batch" => report = Right /\ baseline = Right

ScriptInv == script \in Scripts /\ BatchFollowsScript /\ ReportsComeInTurn

RecipeInv == IInv /\ ScriptInv

LEMMA ScriptTypes ==
    ASSUME script \in Scripts
    PROVE  /\ n_scenarios \in Nat /\ script.scenarios \in Seq(Decisions)
           /\ script.recipe \in RecipeKinds
           /\ \A i \in 1 .. n_scenarios : script.scenarios[i] \in Decisions
           /\ script.recipe = "batch" => \A c \in 1 .. 2 * n_scenarios : c \in Calls
           /\ script.recipe # "batch" => 1 \in Calls /\ n_scenarios = 1
           /\ script.recipe = "scheduled" => 2 \in Calls
<1>1. /\ script.recipe \in RecipeKinds /\ script.scenarios \in Seq(Decisions)
      /\ script.recipe # "batch" => n_scenarios = 1
      /\ 1 .. CallsOf(script) \subseteq Calls
  BY RecipeAssumption DEF n_scenarios
<1>2. n_scenarios \in Nat /\ \A i \in 1 .. n_scenarios : script.scenarios[i] \in Decisions
  BY <1>1 DEF n_scenarios
<1>3. script.recipe = "batch" => \A c \in 1 .. 2 * n_scenarios : c \in Calls
  BY <1>1 DEF CallsOf, n_scenarios
<1>4. /\ script.recipe = "scheduled" => 1 \in Calls /\ 2 \in Calls
      /\ script.recipe \in {"transient", "failfast"} => 1 \in Calls
  BY <1>1 DEF CallsOf
<1> QED
  BY <1>1, <1>2, <1>3, <1>4 DEF RecipeKinds

LEMMA SafeInputs ==
    ASSUME NEW tool \in {"simulate", "log_decision", "query_data", "execute_decision"},
           NEW d \in Decisions
    PROVE  SafeInput(tool, d) \in Inputs /\ SafeInput(tool, d).decision = d
BY RecipeAssumption DEF SafeInput

\* Several calls at once are calls like any other.
LEMMA ScheduleAllStep ==
    ASSUME IInv, NEW ins, \A c \in DOMAIN ins : c \in Calls /\ ins[c] \in Inputs,
           ScheduleAll(ins)
    PROVE  /\ IInv'
           /\ \A c \in Calls : /\ Scheduled(c)' <=> Scheduled(c) \/ c \in DOMAIN ins
                               /\ c \in DOMAIN ins => input'[c] = ins[c]
                               /\ c \notin DOMAIN ins => input'[c] = input[c]
<1> USE DEF IInv
<1>1. /\ UNCHANGED <<engineVars, result, wireVars, workerVars>>
      /\ \A c \in DOMAIN ins : ~Scheduled(c)
  BY DEF ScheduleAll, Scheduled
<1>2. /\ input' \in [Calls -> Inputs \cup {NoInput}]
      /\ status' \in [Calls -> {"unscheduled", "queued", "running", "completed"}]
      /\ current' \in [Calls -> 0 .. MaxAttempts]
      /\ \A c \in Calls :
            /\ c \in DOMAIN ins =>
                   input'[c] = ins[c] /\ status'[c] = "queued" /\ current'[c] = 1
            /\ c \notin DOMAIN ins =>
                   /\ input'[c] = input[c] /\ status'[c] = status[c]
                   /\ current'[c] = current[c]
  BY ActivityAssumption DEF ScheduleAll, TypeOK
<1>3. TypeOK'
  BY <1>1, <1>2 DEF TypeOK, EngineTypeOK, engineVars, wireVars, workerVars
<1>4. \A c \in Calls : Scheduled(c)' <=> Scheduled(c) \/ c \in DOMAIN ins
  BY <1>2 DEF Scheduled
<1>5. \A x \in dispatches \cup logged : x.by[1] \in Calls /\ x.by[1] \notin DOMAIN ins
  BY <1>1, RequestersAreAttempts DEF CallsStartClean, TypeOK
<1>6. \A a \in Attempts : a[1] \in Calls
  BY DEF Attempts
<1>7. CallsStartClean'
  <2>1. \A c \in Calls : Scheduled(c)' => input'[c] \in Inputs /\ current'[c] \in 1 .. MaxAttempts
    BY <1>2, <1>4, ActivityAssumption DEF CallsStartClean
  <2>2. \A c \in Calls : ~Scheduled(c)' => input'[c] = NoInput /\ result'[c] = Nothing
    BY <1>1, <1>2, <1>4 DEF CallsStartClean
  <2>3. \A a \in Attempts : ~Scheduled(a[1])' =>
            /\ phase'[a] = "unstarted" /\ request'[a] = "unsent"
            /\ reply'[a] = Nothing /\ captured'[a] = Nothing
    BY <1>1, <1>4, <1>6 DEF CallsStartClean, wireVars, workerVars
  <2>4. \A x \in dispatches' \cup logged' : Scheduled(x.by[1])'
    BY <1>1, <1>4, <1>5 DEF CallsStartClean, engineVars
  <2> QED
    BY <2>1, <2>2, <2>3, <2>4 DEF CallsStartClean
<1>8. DeliveredIsSent' /\ AtMostOneUnforced'
  BY <1>1 DEF DeliveredIsSent, AtMostOneUnforced, SentFor, engineVars
<1>9. SentAsAsked' /\ LoggedAsAsked'
  BY <1>1, <1>2, <1>5 DEF SentAsAsked, LoggedAsAsked, Allowed, engineVars
<1>10. RequestsAreAllowed'
  BY <1>1, <1>2, <1>6 DEF RequestsAreAllowed, Allowed, CallsStartClean, wireVars
<1>11. OutcomesAreBacked'
  <2>1. ASSUME NEW k \in Calls, NEW outcome, Backed(k, outcome),
               k \notin DOMAIN ins \/ outcome = Nothing
        PROVE  Backed(k, outcome)'
    <3>1. CASE k \notin DOMAIN ins
      BY <1>1, <1>2, <2>1, <3>1 DEF Backed, SentBy, RecordedBy, engineVars
    <3>2. CASE outcome = Nothing
      BY <3>2 DEF Backed, Nothing, Fail, Answer, Payload, UnnamedDenial
    <3> QED
      BY <2>1, <3>1, <3>2
  <2>2. \A a \in Attempts :
            a[1] \in DOMAIN ins => reply[a] = Nothing /\ captured[a] = Nothing
    BY <1>1 DEF CallsStartClean
  <2>3. \A c \in DOMAIN ins : result[c] = Nothing
    BY <1>1 DEF CallsStartClean
  <2> QED
    BY <1>1, <1>6, <2>1, <2>2, <2>3 DEF OutcomesAreBacked, wireVars, workerVars
<1> QED
  BY <1>2, <1>3, <1>4, <1>7, <1>8, <1>9, <1>10, <1>11

\* A sequential batch takes the last of the calls it has made.
LEMMA LatestCall ==
    ASSUME RecipeInv, NEW c \in Calls, stage = "sequential", Completed(c),
           NEW order, NextInTurn(c, order)
    PROVE  /\ script.recipe = "batch" /\ c \in Nat /\ n_scenarios < c /\ c <= 2 * n_scenarios
           /\ \A k \in Calls : Scheduled(k) <=> k \in 1 .. c
           /\ \A k \in 1 .. c : input[k] = SafeInput("simulate", ScenarioOf(k))
<1>1. script \in Scripts /\ script.recipe = "batch" /\ n_scenarios \in Nat
      /\ \A k \in 1 .. 2 * n_scenarios : k \in Calls
  BY ScriptTypes DEF RecipeInv, ScriptInv, ReportsComeInTurn
<1>2. PICK last \in 0 .. 2 * n_scenarios :
         /\ \A k \in Calls : Scheduled(k) <=> k \in 1 .. last
         /\ \A k \in 1 .. last : input[k] = SafeInput("simulate", ScenarioOf(k))
         /\ last > n_scenarios
  BY <1>1 DEF RecipeInv, ScriptInv, BatchFollowsScript
<1>3. c \in 1 .. last
  BY <1>2 DEF Completed, Scheduled
<1>4. CASE c < 2 * n_scenarios
  <2>1. ~Scheduled(c + 1)
    BY <1>4 DEF NextInTurn, Schedule, Scheduled
  <2>2. c + 1 \in Calls /\ c + 1 \notin 1 .. last
    BY <1>1, <1>2, <1>3, <1>4, <2>1
  <2>3. c = last
    BY <1>1, <1>2, <1>3, <2>2
  <2> QED
    BY <1>1, <1>2, <2>3
<1>5. CASE ~(c < 2 * n_scenarios)
  <2>1. c = last
    BY <1>1, <1>2, <1>3, <1>5
  <2> QED
    BY <1>1, <1>2, <2>1
<1> QED
  BY <1>4, <1>5

\* A step of a recipe makes a call, makes all those of a batch, or leaves the
\* activities to themselves.
LEMMA RecipeStepKinds ==
    ASSUME RecipeInv, [RNext]_allRecipeVars
    PROVE  \/ [Next]_vars
           \/ /\ StartBatch /\ n_scenarios > 0
              /\ ScheduleAll([i \in 1 .. n_scenarios |->
                                 SafeInput("simulate", script.scenarios[i])])
<1> USE DEF RecipeInv, ScriptInv
<1>1. ASSUME NEW c \in Nat, NEW order, NextInTurn(c, order), script.recipe = "batch",
             n_scenarios <= c
      PROVE  [Next]_vars
  <2>1. CASE c < 2 * n_scenarios
    <3>1. c + 1 \in Calls /\ c + 1 - n_scenarios \in 1 .. n_scenarios
      BY <1>1, <2>1, ScriptTypes
    <3>2. SafeInput("simulate", script.scenarios[c + 1 - n_scenarios]) \in Inputs
      BY <3>1, ScriptTypes, SafeInputs
    <3> QED
      BY <1>1, <2>1, <3>1, <3>2 DEF NextInTurn, Next
  <2>2. CASE ~(c < 2 * n_scenarios)
    BY <1>1, <2>2 DEF NextInTurn
  <2> QED
    BY <2>1, <2>2
<1>2. CASE StartBatch
  BY <1>1, <1>2, ScriptTypes DEF StartBatch
<1>3. CASE StartOther
  <2>1. 1 \in Calls /\ script.scenarios[1] \in Decisions
    BY <1>3, ScriptTypes DEF StartOther
  <2>2. SafeInput(FirstTool, script.scenarios[1]) \in Inputs
    BY <2>1, SafeInputs DEF FirstTool
  <2> QED
    BY <1>3, <2>1, <2>2 DEF StartOther, Next
<1>4. ASSUME NEW c \in Calls, Gather(c)
      PROVE  [Next]_vars
  BY <1>1, <1>4, ScriptTypes DEF Gather, ReportsComeInTurn
<1>5. ASSUME NEW c \in Calls, InTurn(c)
      PROVE  [Next]_vars
  <2>1. NextInTurn(c, finished') /\ stage = "sequential" /\ Completed(c)
    BY <1>5 DEF InTurn, Arrives
  <2>2. script.recipe = "batch" /\ c \in Nat /\ n_scenarios < c
    BY <2>1, LatestCall
  <2>3. n_scenarios \in Nat /\ n_scenarios <= c
    BY <2>2, ScriptTypes
  <2> QED
    BY <1>1, <2>1, <2>2, <2>3
<1>6. ASSUME NEW c \in Calls, Resumes(c) \/ Raised(c)
      PROVE  [Next]_vars
  <2>1. CASE stage = "scheduled" /\ Schedule(2, SafeInput("log_decision", script.scenarios[1]))
    <3>1. 2 \in Calls /\ script.scenarios[1] \in Decisions
      BY <2>1, ScriptTypes DEF ReportsComeInTurn
    <3> QED
      BY <2>1, <3>1, SafeInputs DEF Next
  <2>2. CASE UNCHANGED vars
    BY <2>2
  <2> QED
    BY <1>6, <2>1, <2>2 DEF Resumes, Raised
<1>7. CASE RProgress
  BY <1>7 DEF RProgress, Next, Progress
<1>8. CASE UNCHANGED allRecipeVars
  BY <1>8 DEF allRecipeVars
<1> QED
  BY <1>2, <1>3, <1>4, <1>5, <1>6, <1>7, <1>8 DEF RNext, Recipe

\* What the calls of a batch come to, once they have the scenarios' inputs.
LEMMA RightReports ==
    ASSUME script \in Scripts, NEW first \in Nat, NEW order,
           \A i \in 1 .. n_scenarios :
               input[first + i] = SafeInput("simulate", script.scenarios[i])
    PROVE  _aggregate(script.scenarios, Gathered(first, order)) = Right
<1>1. \A i \in 1 .. n_scenarios : Envelope(first + i) = ExpectedValue(script.scenarios[i])
  <2> SUFFICES ASSUME NEW i \in 1 .. n_scenarios
               PROVE  Envelope(first + i) = ExpectedValue(script.scenarios[i])
    OBVIOUS
  <2>1. input[first + i].decision = script.scenarios[i]
    BY ScriptTypes, SafeInputs
  <2> QED
    BY <2>1 DEF Envelope
<1>2. Gathered(first, order) = [i \in 1 .. n_scenarios |-> ExpectedValue(script.scenarios[i])]
  BY <1>1 DEF Gathered
<1> QED
  BY <1>2 DEF Right

LEMMA RecipeInit == RInit => RecipeInv
<1> SUFFICES ASSUME RInit PROVE RecipeInv
  OBVIOUS
<1>1. IInv /\ script \in Scripts /\ n_scenarios \in Nat
  BY InvariantInit, ScriptTypes DEF RInit
<1>2. \A c \in Calls : ~Scheduled(c)
  BY DEF RInit, Init, Scheduled
<1>3. BatchFollowsScript
  <2>1. 0 \in 0 .. 2 * n_scenarios /\ 1 .. 0 = {} /\ stage = "start"
    BY <1>1 DEF RInit
  <2> QED
    BY <1>2, <2>1 DEF BatchFollowsScript
<1>4. ReportsComeInTurn
  BY DEF RInit, ReportsComeInTurn
<1> QED
  BY <1>1, <1>3, <1>4 DEF RecipeInv, ScriptInv

\* Where neither the calls nor the inputs change, they follow the script as before.
LEMMA CallsStay ==
    ASSUME RecipeInv, script' = script, stage' \in {stage, "returned", "failed"},
           \A c \in Calls : Scheduled(c)' <=> Scheduled(c), input' = input
    PROVE  BatchFollowsScript'
<1>1. n_scenarios' = n_scenarios /\ \A c : ScenarioOf(c)' = ScenarioOf(c)
  BY DEF n_scenarios, ScenarioOf
<1> QED
  BY <1>1 DEF RecipeInv, ScriptInv, BatchFollowsScript

\* A batch begins: all of its scenarios side by side, or nothing at all.
LEMMA StartBatchKeeps ==
    ASSUME RecipeInv, IInv', StartBatch
    PROVE  RecipeInv'
<1> USE DEF RecipeInv, ScriptInv
<1>1. PICK n : n = n_scenarios
  OBVIOUS
<1>2. /\ n \in Nat /\ script.recipe = "batch" /\ script' = script /\ n_scenarios' = n
      /\ Right' = Right /\ \A c : ScenarioOf(c)' = ScenarioOf(c)
      /\ \A c \in 1 .. 2 * n : c \in Calls
      /\ \A i \in 1 .. n : script.scenarios[i] \in Decisions
  BY <1>1, ScriptTypes DEF StartBatch, n_scenarios, ScenarioOf, Right
<1>3. stage = "start" /\ \A c \in Calls : ~Scheduled(c)
  BY <1>2 DEF StartBatch, BatchFollowsScript
<1>4. CASE n > 0
  <2>1. PICK ins : ins = [i \in 1 .. n |-> SafeInput("simulate", script.scenarios[i])]
    OBVIOUS
  <2>2. ScheduleAll(ins) /\ stage' = "batch" /\ UNCHANGED <<report, baseline>>
    BY <1>1, <1>4, <2>1 DEF StartBatch
  <2>3. DOMAIN ins = 1 .. n /\ \A c \in DOMAIN ins : c \in Calls /\ ins[c] \in Inputs
    BY <1>2, <2>1, SafeInputs
  <2>4. /\ \A c \in Calls : Scheduled(c)' <=> c \in 1 .. n
        /\ \A c \in 1 .. n : input'[c] = ins[c]
    BY <1>2, <1>3, <2>2, <2>3, ScheduleAllStep
  <2>5. \A c \in 1 .. n : ins[c] = SafeInput("simulate", ScenarioOf(c))
    BY <1>1, <2>1 DEF ScenarioOf
  <2>6. BatchFollowsScript'
    BY <1>2, <1>4, <2>2, <2>4, <2>5 DEF BatchFollowsScript
  <2>7. ReportsComeInTurn'
    BY <1>2, <2>2 DEF ReportsComeInTurn
  <2> QED
    BY <1>2, <2>6, <2>7
<1>5. CASE n = 0
  <2>1. /\ report' = _aggregate(<<>>, <<>>) /\ stage' = "returned" /\ UNCHANGED vars
        /\ baseline' = _aggregate(script.scenarios, Gathered(n, <<>>))
    BY <1>1, <1>5 DEF StartBatch, NextInTurn
  <2>2. script.scenarios = <<>>
    BY <1>1, <1>5, EmptySeq, ScriptTypes DEF n_scenarios
  <2>3a. [i \in 1 .. n |-> ExpectedValue(script.scenarios[i])] = <<>>
    <3>1. 1 .. n = {}
      BY <1>5
    <3> QED
      BY <3>1
  <2>3. report' = Right
    BY <1>1, <2>1, <2>2, <2>3a DEF Right
  <2>4. baseline' = Right
    BY <1>1, <1>2, <1>5, <2>1, RightReports
  <2>5. BatchFollowsScript'
    BY <1>2, <1>3, <1>5, <2>1, StandingStill DEF BatchFollowsScript
  <2>6. ReportsComeInTurn'
    BY <1>2, <2>1, <2>3, <2>4 DEF ReportsComeInTurn
  <2> QED
    BY <1>2, <2>5, <2>6
<1> QED
  BY <1>2, <1>4, <1>5

\* The next scenario's turn: one more call, of the scenario that is due, or the report.
LEMMA NextInTurnKeeps ==
    ASSUME RecipeInv, NEW c \in Nat, NEW order, NextInTurn(c, order), script' = script,
           script.recipe = "batch", n_scenarios <= c, c <= 2 * n_scenarios,
           \A k \in Calls : Scheduled(k) <=> k \in 1 .. c,
           \A k \in 1 .. c : input[k] = SafeInput("simulate", ScenarioOf(k)),
           report' = Right
    PROVE  ScriptInv'
<1> USE DEF RecipeInv, ScriptInv
<1>1. PICK n : n = n_scenarios
  OBVIOUS
<1>2. /\ n \in Nat /\ n_scenarios' = n /\ Right' = Right
      /\ \A k : ScenarioOf(k)' = ScenarioOf(k)
      /\ \A k \in 1 .. 2 * n : k \in Calls
      /\ \A i \in 1 .. n : script.scenarios[i] \in Decisions
  BY <1>1, ScriptTypes DEF n_scenarios, ScenarioOf, Right
<1>3. CASE c < 2 * n
  <2>1. PICK m : m = c + 1
    OBVIOUS
  <2>2. /\ stage' = "sequential" /\ baseline' = baseline
        /\ Schedule(m, SafeInput("simulate", script.scenarios[m - n]))
    <3>1. c < 2 * n_scenarios
      BY <1>1, <1>3
    <3>2. /\ stage' = "sequential" /\ UNCHANGED baseline
          /\ Schedule(c + 1, SafeInput("simulate", script.scenarios[c + 1 - n_scenarios]))
      BY <3>1, Zenon DEF NextInTurn
    <3>3. PICK in : in = SafeInput("simulate", script.scenarios[c + 1 - n_scenarios])
      OBVIOUS
    <3>4. in = SafeInput("simulate", script.scenarios[m - n])
      <4>1. c + 1 - n_scenarios = m - n
        BY <1>1, <1>2, <2>1
      <4> QED
        BY <3>3, <4>1, Zenon
    <3>5. Schedule(m, in)
      BY <2>1, <3>2, <3>3
    <3> QED
      BY <3>2, <3>4, <3>5
  <2>3. m \in Calls /\ m \in 0 .. 2 * n /\ m > n
    BY <1>1, <1>2, <1>3, <2>1
  <2>4. ScenarioOf(m) = script.scenarios[m - n]
    BY <1>1, <1>2, <2>3 DEF ScenarioOf
  <2>5. /\ input'[m] = SafeInput("simulate", ScenarioOf(m))
        /\ \A k \in Calls : /\ Scheduled(k)' <=> Scheduled(k) \/ k = m
                            /\ k # m => input'[k] = input[k]
    BY <2>2, <2>3, <2>4, ScheduleMakesOneCall DEF IInv
  <2>6. \A k \in Calls : Scheduled(k)' <=> k \in 1 .. m
    BY <2>1, <2>5
  <2>7. \A k \in 1 .. m : input'[k] = SafeInput("simulate", ScenarioOf(k))
    <3>1. \A k \in 1 .. m : k = m \/ k \in 1 .. c
      BY <2>1
    <3>2. \A k \in 1 .. c : k \in Calls /\ k # m
      BY <1>1, <1>2, <2>1
    <3> QED
      BY <2>5, <3>1, <3>2
  <2>8. BatchFollowsScript'
    BY <1>2, <2>2, <2>3, <2>6, <2>7 DEF BatchFollowsScript
  <2>9. ReportsComeInTurn'
    BY <1>2, <2>2 DEF ReportsComeInTurn
  <2> QED
    BY <2>8, <2>9
<1>4. CASE ~(c < 2 * n)
  <2>1. /\ stage' = "returned" /\ UNCHANGED vars
        /\ baseline' = _aggregate(script.scenarios, Gathered(n, order))
    BY <1>1, <1>4 DEF NextInTurn
  <2>2. c = 2 * n
    BY <1>1, <1>2, <1>4
  <2>3. \A i \in 1 .. n : input[n + i] = SafeInput("simulate", script.scenarios[i])
    <3> SUFFICES ASSUME NEW i \in 1 .. n
                 PROVE  input[n + i] = SafeInput("simulate", script.scenarios[i])
      OBVIOUS
    <3>1. PICK k : k = n + i
      OBVIOUS
    <3>2. k \in 1 .. c /\ ~(k <= n) /\ k - n = i
      BY <1>2, <2>2, <3>1
    <3>3. ScenarioOf(k) = script.scenarios[i]
      BY <1>1, <3>2 DEF ScenarioOf
    <3> QED
      BY <3>1, <3>2, <3>3
  <2>4. baseline' = Right
    BY <1>1, <1>2, <2>1, <2>3, RightReports
  <2>5. input' = input /\ \A k \in Calls : Scheduled(k)' <=> Scheduled(k)
    BY <2>1, StandingStill DEF vars, serverVars
  <2>6. BatchFollowsScript'
    BY <2>1, <2>5, CallsStay
  <2>7. ReportsComeInTurn'
    BY <1>2, <2>1, <2>4 DEF ReportsComeInTurn
  <2> QED
    BY <2>6, <2>7
<1> QED
  BY <1>1, <1>3, <1>4

\* The results of the calls side by side are those of the scenarios, in whatever
\* order they came.
LEMMA GatherKeeps ==
    ASSUME RecipeInv, NEW c \in Calls, Gather(c)
    PROVE  ScriptInv'
<1> USE DEF RecipeInv, ScriptInv
<1>1. PICK n : n = n_scenarios
  OBVIOUS
<1>2. /\ stage = "batch" /\ script.recipe = "batch" /\ script' = script /\ Completed(c)
      /\ n \in Nat /\ Right' = Right
  BY <1>1, ScriptTypes DEF Gather, Arrives, ReportsComeInTurn, Right, n_scenarios
<1>3. /\ \A k \in Calls : Scheduled(k) <=> k \in 1 .. n
      /\ \A k \in 1 .. n : input[k] = SafeInput("simulate", ScenarioOf(k))
  BY <1>1, <1>2 DEF BatchFollowsScript
<1>4. CASE UNCHANGED <<vars, stage, report, baseline>>
  <2>1. input' = input /\ \A k \in Calls : Scheduled(k)' <=> Scheduled(k)
    BY <1>4, StandingStill DEF vars, serverVars
  <2>2. BatchFollowsScript'
    BY <1>2, <1>4, <2>1, CallsStay
  <2> QED
    BY <1>2, <1>4, <2>2 DEF ReportsComeInTurn
<1>5. CASE /\ report' = _aggregate(script.scenarios, Gathered(0, finished'))
           /\ NextInTurn(n, finished')
  <2>1. \A i \in 1 .. n : input[0 + i] = SafeInput("simulate", script.scenarios[i])
    BY <1>1, <1>2, <1>3 DEF ScenarioOf
  <2>2. report' = Right
    BY <1>1, <1>5, <2>1, RightReports
  <2> QED
    BY <1>1, <1>2, <1>3, <1>5, <2>2, NextInTurnKeeps
<1> QED
  BY <1>1, <1>4, <1>5 DEF Gather

LEMMA InTurnKeeps ==
    ASSUME RecipeInv, NEW c \in Calls, InTurn(c)
    PROVE  ScriptInv'
<1>1. /\ stage = "sequential" /\ Completed(c) /\ NextInTurn(c, finished')
      /\ script' = script /\ report' = report /\ Right' = Right
  BY DEF InTurn, Arrives, Right, n_scenarios
<1>2. /\ script.recipe = "batch" /\ c \in Nat /\ n_scenarios < c /\ c <= 2 * n_scenarios
      /\ \A k \in Calls : Scheduled(k) <=> k \in 1 .. c
      /\ \A k \in 1 .. c : input[k] = SafeInput("simulate", ScenarioOf(k))
  BY <1>1, LatestCall
<1>3. report' = Right
  BY <1>1 DEF RecipeInv, ScriptInv, ReportsComeInTurn
<1>4. n_scenarios <= c
  BY <1>2, ScriptTypes DEF RecipeInv, ScriptInv
<1> QED
  BY <1>1, <1>2, <1>3, <1>4, NextInTurnKeeps

\* A recipe that is no batch never becomes one, and makes no report.
LEMMA OtherStepsKeep ==
    ASSUME RecipeInv, \/ StartOther \/ RProgress
                      \/ \E c \in Calls : Resumes(c) \/ Raised(c)
                      \/ UNCHANGED allRecipeVars
    PROVE  ScriptInv'
<1> USE DEF RecipeInv, ScriptInv
<1>1. /\ script' = script /\ report' = report /\ baseline' = baseline
      /\ Right' = Right
  BY DEF StartOther, RProgress, Resumes, Raised, allRecipeVars, recipeVars, Right, n_scenarios
<1>2. CASE StartOther
  BY <1>1, <1>2, ScriptTypes DEF StartOther, BatchFollowsScript, ReportsComeInTurn, RecipeKinds
<1>3. ASSUME NEW c \in Calls, Resumes(c)
      PROVE  ScriptInv'
  <2>1. /\ script.recipe # "batch" /\ stage' \in {stage, "returned"}
    BY <1>3 DEF Resumes, ReportsComeInTurn
  <2> QED
    BY <1>1, <2>1 DEF BatchFollowsScript, ReportsComeInTurn
<1>4. ASSUME script' = script, stage' \in {stage, "failed"}, input' = input,
             \A c \in Calls : Scheduled(c)' <=> Scheduled(c)
      PROVE  ScriptInv'
  <2>1. BatchFollowsScript'
    BY <1>4, CallsStay
  <2> QED
    BY <1>1, <1>4, <2>1 DEF ReportsComeInTurn
<1>5. CASE (\E c \in Calls : Raised(c)) \/ UNCHANGED allRecipeVars
  <2>1. /\ UNCHANGED vars /\ script' = script /\ stage' \in {stage, "failed"}
    BY <1>5 DEF Raised, allRecipeVars, recipeVars
  <2>2. input' = input /\ \A c \in Calls : Scheduled(c)' <=> Scheduled(c)
    BY <2>1, StandingStill DEF vars, serverVars
  <2> QED
    BY <1>4, <2>1, <2>2
<1>6. CASE RProgress
  <2>1. Progress /\ script' = script /\ stage' = stage
    BY <1>6 DEF RProgress, Progress, recipeVars
  <2>2. input' = input /\ \A c \in Calls : Scheduled(c)' <=> Scheduled(c)
    BY <2>1, ProgressMakesNoCall DEF IInv
  <2> QED
    BY <1>4, <2>1, <2>2
<1> QED
  BY <1>2, <1>3, <1>5, <1>6

LEMMA RecipeStep == RecipeInv /\ [RNext]_allRecipeVars => RecipeInv'
<1> SUFFICES ASSUME RecipeInv, [RNext]_allRecipeVars
             PROVE  RecipeInv'
  OBVIOUS
<1>1. IInv'
  <2>1. CASE [Next]_vars
    BY <2>1, InvariantStep DEF RecipeInv
  <2>2. CASE /\ StartBatch /\ n_scenarios > 0
             /\ ScheduleAll([i \in 1 .. n_scenarios |->
                                SafeInput("simulate", script.scenarios[i])])
    <3>1. PICK ins : ins = [i \in 1 .. n_scenarios |->
                                SafeInput("simulate", script.scenarios[i])]
      OBVIOUS
    <3>2. DOMAIN ins = 1 .. n_scenarios /\ script.recipe = "batch" /\ script \in Scripts
      BY <2>2, <3>1 DEF StartBatch, RecipeInv, ScriptInv
    <3>3. \A c \in DOMAIN ins : c \in Calls /\ ins[c] \in Inputs
      BY <3>1, <3>2, ScriptTypes, SafeInputs
    <3> QED
      BY <2>2, <3>1, <3>3, ScheduleAllStep DEF RecipeInv
  <2> QED
    BY <2>1, <2>2, RecipeStepKinds
<1>2. CASE StartBatch
  BY <1>1, <1>2, StartBatchKeeps
<1>3. ScriptInv' \/ StartBatch
  BY GatherKeeps, InTurnKeeps, OtherStepsKeep DEF RNext, Recipe
<1> QED
  BY <1>1, <1>2, <1>3 DEF RecipeInv

\* The invariant holds in every reachable state, for every script, however the
\* calls side by side are answered, retried and given up.
THEOREM RecipeInvariance == RSpec => []RecipeInv
BY RecipeInit, RecipeStep, PTL DEF RSpec

\* Whatever the order in which the calls of a batch are answered, each value of
\* a report is its scenario's, and the two workflows' reports agree, as
\* _run_ranked_batch asserts.
THEOREM BatchesAgree == RSpec => []ReportsAgree
<1>1. RecipeInv => ReportsAgree
  BY DEF RecipeInv, ScriptInv, ReportsComeInTurn, ReportsAgree, Right
<1> QED
  BY <1>1, RecipeInvariance, PTL

\* Several calls at once are the first attempts of calls that have left no trace.
LEMMA ScheduleAllInOrder ==
    ASSUME IInv, RetriesInOrder, NEW ins, ScheduleAll(ins)
    PROVE  RetriesInOrder'
<1> USE DEF RetriesInOrder
<1>1. /\ UNCHANGED <<result, wireVars, workerVars>>
      /\ \A c \in Calls :
            \/ status'[c] = status[c] /\ current'[c] = current[c]
            \/ status[c] = "unscheduled" /\ status'[c] = "queued" /\ current'[c] = 1
  BY DEF ScheduleAll
<1>2. /\ \A c \in Calls : status[c] = "unscheduled" => result[c] = Nothing
      /\ \A a \in Attempts :
            status[a[1]] = "unscheduled" => phase[a] = "unstarted"
      /\ \A a \in Attempts : a[1] \in Calls /\ a[2] \in Nat
  BY ActivityAssumption DEF IInv, CallsStartClean, Scheduled, Attempts
<1>3. AttemptsInOrder'
  BY <1>1, <1>2 DEF AttemptsInOrder, workerVars
<1>4. ~Answered(Nothing)
  BY DEF Answered, Nothing, Answer
<1>5. AnswersAreTheLastAttempts'
  BY <1>1, <1>2, <1>4 DEF AnswersAreTheLastAttempts, Completed, wireVars, workerVars
<1>6. RepliesAreHeld'
  BY <1>1 DEF RepliesAreHeld, wireVars, workerVars
<1>7. RetriesAreWarranted'
  <2>1. \A c \in Calls : \A n \in 1 .. current'[c] - 1 : n \in 1 .. current[c] - 1
    <3>1. \A c \in Calls : current'[c] = 1 => 1 .. current'[c] - 1 = {}
      OBVIOUS
    <3> QED
      BY <1>1, <3>1
  <2>2. reply' = reply /\ cancelled' = cancelled
    BY <1>1 DEF wireVars, workerVars
  <2> QED
    BY <2>1, <2>2 DEF RetriesAreWarranted
<1> QED
  BY <1>3, <1>5, <1>6, <1>7

\* Where sessions hold, the recipes on a govern worker retry the query that
\* failed for now, and never a denial, a refusal or an answer of another shape.
THEOREM RecipesRetryWhatMayPass ==
    SessionsHold => (RSpec => []RetriesAreWarranted)
<1> SUFFICES ASSUME SessionsHold
             PROVE  RSpec => []RetriesAreWarranted
  OBVIOUS
<1>1. RInit => RetriesInOrder
  BY RetriesInOrderInit DEF RInit
<1>2. RecipeInv /\ RetriesInOrder /\ [RNext]_allRecipeVars => RetriesInOrder'
  <2> SUFFICES ASSUME RecipeInv, RetriesInOrder, [RNext]_allRecipeVars
               PROVE  RetriesInOrder'
    OBVIOUS
  <2>1. IInv
    BY DEF RecipeInv
  <2> QED
    BY <2>1, RecipeStepKinds, ScheduleAllInOrder, RetriesInOrderStep
<1>3. RetriesInOrder => RetriesAreWarranted
  BY DEF RetriesInOrder
<1> QED
  BY <1>1, <1>2, <1>3, RecipeInvariance, PTL DEF RSpec

\* The execution the fail-fast recipe asks of a govern worker is never sent,
\* nor is anything a profile does not let through.
THEOREM RecipesKeepToTheirProfile == RSpec => []ProfileIsEnforced
<1>1. IInv => ProfileIsEnforced
  BY InvariantProfiles
<1> QED
  BY <1>1, RecipeInvariance, PTL DEF RecipeInv

=============================================================================
