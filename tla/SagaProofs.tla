----------------------------- MODULE SagaProofs -----------------------------
(***************************************************************************)
(* What TLAPS proves of SagaWorkflow, for sagas of any length, any         *)
(* decisions, number of attempts and faults.                               *)
(***************************************************************************)
EXTENDS SagaWorkflow, GovernedActivityProofs

-----------------------------------------------------------------------------
(* The inductive invariant                                                 *)

\* The run is still going forward.
Forward == at \in {"start", "log", "execute"}

\* Types of the run's variables.
RunTypes ==
    /\ steps \in Sagas
    /\ at \in {"start", "log", "execute", "compensate", "returned", "failed"}
    /\ step \in 0 .. Len(steps)
    /\ executed \in Seq(Decisions)
    /\ compensated \in Seq(Decisions)
    /\ report \in {"none", "completed", "compensated"}

\* Where the run is tells how much it has executed and compensated.
Position ==
    /\ at = "start" => step = 0
    /\ at \in {"log", "execute"} => step > 0
    /\ Forward =>
           /\ Len(executed) = IF step = 0 THEN 0 ELSE step - 1
           /\ compensated = <<>>
    /\ at = "compensate" =>
           /\ step \in 1 .. Len(executed)
           /\ Len(compensated) = Len(executed) - step
    /\ Len(executed) <= Len(steps)
    /\ Len(compensated) <= Len(executed)
    /\ report # "none" => at = "returned"
    /\ report = "compensated" => Len(compensated) = Len(executed)

\* What has been compensated are the last steps executed, the last one first.
CompensatedInReverse ==
    \A i \in 1 .. Len(compensated) :
        compensated[i] = Compensation(executed[Len(executed) + 1 - i])

\* A step counts as executed on a receipt of its own execution.
ExecutedOnReceipt ==
    \A i \in 1 .. Len(executed) :
        /\ Completed(<<"execute", i>>)
        /\ result[<<"execute", i>>].kind = "receipt"

\* The step after those executed was denied.
NextIsDenied ==
    /\ Len(executed) < Len(steps)
    /\ Completed(<<"execute", Len(executed) + 1>>)
    /\ result[<<"execute", Len(executed) + 1>>].kind = "denial"

\* Compensations are made for executed steps, after a denial.
CompensationsFollowDenial ==
    /\ at = "compensate" => NextIsDenied
    /\ \A i \in 1 .. MaxSteps : Scheduled(<<"compensate", i>>) =>
          ~Forward /\ i <= Len(executed) /\ NextIsDenied

SInv ==
    /\ IInv
    /\ RunTypes
    /\ Position
    /\ CompensatedInReverse
    /\ ExecutedOnReceipt
    /\ CompensationsFollowDenial

-----------------------------------------------------------------------------
(* The invariant is inductive                                              *)

\* What a saga asks for are inputs of the activities, its calls are calls, and
\* no two of them are the same.
LEMMA SagaCalls ==
    ASSUME RunTypes
    PROVE  /\ Len(steps) \in Nat /\ Len(steps) <= MaxSteps /\ MaxSteps \in Nat
           /\ \A i \in 1 .. Len(steps) : steps[i] \in Decisions
           /\ \A kind \in {"log", "execute", "compensate"}, i \in 1 .. MaxSteps :
                 <<kind, i>> \in Calls
           /\ \A d \in Decisions : Compensation(d) \in Decisions
           /\ \A tool \in {"log_decision", "execute_decision"}, d \in Decisions :
                 SagaInput(tool, d) \in Inputs
<1>1. steps \in Seq(Decisions) /\ Len(steps) <= MaxSteps
  BY SagaAssumption DEF RunTypes
<1>2. Len(steps) \in Nat /\ \A i \in 1 .. Len(steps) : steps[i] \in Decisions
  BY <1>1
<1>3. \A kind \in {"log", "execute", "compensate"}, i \in 1 .. MaxSteps :
          <<kind, i>> \in Calls
  BY SagaAssumption
<1>4. \A tool \in {"log_decision", "execute_decision"}, d \in Decisions :
          SagaInput(tool, d) \in Inputs
  BY SagaAssumption DEF SagaInput
<1> QED
  BY <1>1, <1>2, <1>3, <1>4, SagaAssumption

LEMMA SInvariantInit == SInit => SInv
<1> SUFFICES ASSUME SInit
             PROVE  SInv
  OBVIOUS
<1>1. IInv
  BY InvariantInit DEF SInit
<1>2. \A c \in Calls : ~Scheduled(c)
  BY DEF SInit, Init, Scheduled
<1>3. steps \in Seq(Decisions)
  BY SagaAssumption DEF SInit
<1>4. RunTypes
  BY <1>3 DEF SInit, RunTypes
<1>5. Position /\ CompensatedInReverse /\ ExecutedOnReceipt
  BY <1>3 DEF SInit, Position, CompensatedInReverse, ExecutedOnReceipt
<1>6. CompensationsFollowDenial
  BY <1>2, <1>4, SagaCalls DEF SInit, CompensationsFollowDenial
<1> QED
  BY <1>1, <1>4, <1>5, <1>6 DEF SInv

\* A step of the saga is a step of the activities, or leaves them alone.
LEMMA SagaStepIsActivityStep ==
    ASSUME RunTypes, Position, [SNext]_allVars
    PROVE  [Next]_vars
<1>1. ASSUME NextStep
      PROVE  [Next]_vars
  <2>1. CASE step < Len(steps) /\
             Schedule(<<"log", step + 1>>, SagaInput("log_decision", steps[step + 1]))
    <3>1. step + 1 \in 1 .. Len(steps) /\ step + 1 \in 1 .. MaxSteps
      BY <2>1, SagaCalls DEF RunTypes
    <3>2. <<"log", step + 1>> \in Calls
      BY <3>1, SagaCalls
    <3>3. SagaInput("log_decision", steps[step + 1]) \in Inputs
      BY <3>1, SagaCalls
    <3> QED
      BY <2>1, <3>2, <3>3 DEF Next
  <2> QED
    BY <1>1, <2>1 DEF NextStep
<1>2. ASSUME NEW i \in 0 .. Len(executed), Compensate(i)
      PROVE  [Next]_vars
  <2>1. CASE i > 0 /\ Schedule(<<"compensate", i>>,
                               SagaInput("log_decision", Compensation(executed[i])))
    <3>1. i \in 1 .. MaxSteps /\ executed[i] \in Decisions
      BY <2>1, SagaCalls DEF RunTypes, Position
    <3>2. <<"compensate", i>> \in Calls
      BY <3>1, SagaCalls
    <3>3. SagaInput("log_decision", Compensation(executed[i])) \in Inputs
      BY <3>1, SagaCalls
    <3> QED
      BY <2>1, <3>2, <3>3 DEF Next
  <2> QED
    BY <1>2, <2>1 DEF Compensate
<1>3. CASE Logged
  <2>1. step \in 1 .. Len(steps) /\ step \in 1 .. MaxSteps
    BY <1>3, SagaCalls DEF Logged, Awaits, RunTypes, Position
  <2>2. /\ <<"execute", step>> \in Calls
        /\ SagaInput("execute_decision", steps[step]) \in Inputs
    BY <2>1, SagaCalls
  <2> QED
    BY <1>3, <2>2 DEF Logged, Next
<1>4. CASE Denied
  <2>1. Len(executed) \in 0 .. Len(executed)
    BY DEF RunTypes
  <2> QED
    BY <1>2, <1>4, <2>1 DEF Denied
<1>5. CASE Compensated
  <2>1. step - 1 \in 0 .. Len(executed)
    BY <1>5 DEF Compensated, Awaits, RunTypes, Position
  <2> QED
    BY <1>2, <1>5, <2>1 DEF Compensated
<1>6. CASE Start \/ Executed
  BY <1>1, <1>6 DEF Start, Executed
<1>7. CASE Raised \/ (Progress /\ UNCHANGED workflowVars) \/ UNCHANGED allVars
  BY <1>7 DEF Raised, Next, allVars
<1> QED
  BY <1>3, <1>4, <1>5, <1>6, <1>7 DEF SNext, Run

\* What has been executed and denied stays so while the run executes no more.
LEMMA HistoryStays ==
    ASSUME RunTypes, Position, CallsAdvance, UNCHANGED <<steps, executed>>
    PROVE  /\ ExecutedOnReceipt => ExecutedOnReceipt'
           /\ NextIsDenied => NextIsDenied'
<1>1. /\ Len(executed) \in Nat /\ Len(executed) <= Len(steps)
      /\ Len(steps) \in Nat /\ Len(steps) <= MaxSteps /\ MaxSteps \in Nat
  BY SagaCalls DEF RunTypes, Position
<1>2. /\ \A i \in 1 .. Len(executed) : i \in 1 .. MaxSteps
      /\ Len(executed) < Len(steps) => Len(executed) + 1 \in 1 .. MaxSteps
  BY <1>1
<1>3. /\ \A i \in 1 .. Len(executed) : <<"execute", i>> \in Calls
      /\ NextIsDenied => <<"execute", Len(executed) + 1>> \in Calls
  BY <1>2, SagaCalls DEF NextIsDenied
<1> QED
  BY <1>3 DEF CallsAdvance, ExecutedOnReceipt, NextIsDenied

\* What a step of the run does to the calls: it makes one at most, and a
\* compensation only where it moves to.
LEMMA RunMakesOneCall ==
    ASSUME SInv, Run
    PROVE  /\ CallsAdvance
           /\ \A i \in 1 .. MaxSteps : Scheduled(<<"compensate", i>>)' =>
                 \/ Scheduled(<<"compensate", i>>)
                 \/ at' = "compensate" /\ step' = i
<1> USE DEF SInv, IInv
<1>1. ASSUME UNCHANGED vars
      PROVE  CallsAdvance /\ \A k : Scheduled(k)' <=> Scheduled(k)
  BY <1>1 DEF vars, serverVars, engineVars, CallsAdvance, Scheduled, Completed
<1>2. ASSUME NEW kind \in {"log", "execute", "compensate"},
             NEW n \in 1 .. MaxSteps, NEW in, Schedule(<<kind, n>>, in)
      PROVE  /\ CallsAdvance
             /\ \A i \in 1 .. MaxSteps : Scheduled(<<"compensate", i>>)' =>
                   \/ Scheduled(<<"compensate", i>>)
                   \/ kind = "compensate" /\ n = i
  <2>1. <<kind, n>> \in Calls
    BY SagaCalls
  <2>2. /\ CallsAdvance
        /\ \A k \in Calls : Scheduled(k)' <=> Scheduled(k) \/ k = <<kind, n>>
    BY <1>2, <2>1, ScheduleMakesOneCall
  <2>3. \A i \in 1 .. MaxSteps : <<"compensate", i>> \in Calls
    BY SagaCalls
  <2> QED
    BY <2>2, <2>3
<1>3. ASSUME NextStep
      PROVE  UNCHANGED vars \/
             \E n \in 1 .. MaxSteps : \E in : Schedule(<<"log", n>>, in)
  <2>1. step < Len(steps) => step + 1 \in 1 .. MaxSteps
    BY SagaCalls DEF RunTypes
  <2> QED
    BY <1>3, <2>1 DEF NextStep
<1>4. ASSUME NEW i \in 0 .. Len(executed), Compensate(i)
      PROVE  UNCHANGED vars \/
             \E n \in 1 .. MaxSteps :
                 /\ \E in : Schedule(<<"compensate", n>>, in)
                 /\ at' = "compensate" /\ step' = n
  <2>1. i > 0 => i \in 1 .. MaxSteps
    BY SagaCalls DEF RunTypes, Position
  <2> QED
    BY <1>4, <2>1 DEF Compensate
<1>5. CASE Start \/ Executed
  BY <1>1, <1>2, <1>3, <1>5, SagaCalls DEF Start, Executed
<1>6. CASE Logged
  <2>1. step \in 1 .. MaxSteps
    BY <1>6, SagaCalls DEF Logged, Awaits, RunTypes, Position
  <2> QED
    BY <1>2, <1>6, <2>1 DEF Logged
<1>7. CASE Denied
  <2>1. Len(executed) \in 0 .. Len(executed)
    BY DEF RunTypes
  <2> QED
    BY <1>1, <1>2, <1>4, <1>7, <2>1, SagaCalls DEF Denied
<1>8. CASE Compensated
  <2>1. step - 1 \in 0 .. Len(executed)
    BY <1>8 DEF Compensated, Awaits, RunTypes, Position
  <2> QED
    BY <1>1, <1>2, <1>4, <1>8, <2>1, SagaCalls DEF Compensated
<1>9. CASE Raised
  BY <1>1, <1>9, SagaCalls DEF Raised
<1> QED
  BY <1>5, <1>6, <1>7, <1>8, <1>9 DEF Run

\* While the run goes forward nothing is compensated.
LEMMA ForwardStep ==
    ASSUME SInv, Start \/ Logged \/ Executed, UNCHANGED steps, CallsAdvance,
           \A i \in 1 .. MaxSteps : ~Scheduled(<<"compensate", i>>)'
    PROVE  /\ RunTypes' /\ Position' /\ CompensatedInReverse'
           /\ ExecutedOnReceipt' /\ CompensationsFollowDenial'
<1> USE DEF SInv
<1>1. /\ Forward
      /\ Len(executed) = IF step = 0 THEN 0 ELSE step - 1
      /\ compensated = <<>> /\ report = "none"
  BY DEF Start, Logged, Executed, Awaits, Forward, Position, RunTypes
<1>2. /\ Len(steps) \in Nat /\ Len(steps) <= MaxSteps /\ MaxSteps \in Nat
      /\ \A i \in 1 .. Len(steps) : steps[i] \in Decisions
  BY SagaCalls
<1>3. CASE Start \/ Logged
  <2>1. executed' = executed /\ compensated' = <<>>
    BY <1>1, <1>3 DEF Start, Logged, NextStep
  <2>2. RunTypes' /\ Position'
    BY <1>1, <1>2, <1>3, <2>1
       DEF Start, Logged, Awaits, NextStep, RunTypes, Position, Forward
  <2>3. ExecutedOnReceipt'
    BY <2>1, HistoryStays
  <2>4. at' # "compensate"
    BY <1>3 DEF Start, Logged, NextStep
  <2> QED
    BY <2>1, <2>2, <2>3, <2>4 DEF CompensatedInReverse, CompensationsFollowDenial
<1>4. CASE Executed
  <2>1. /\ executed \in Seq(Decisions) /\ step \in 1 .. Len(steps)
        /\ Len(executed) = step - 1
        /\ executed' = Append(executed, steps[step])
        /\ compensated' = <<>>
    BY <1>1, <1>4 DEF Executed, Awaits, NextStep, RunTypes, Position
  <2>2. /\ executed' \in Seq(Decisions) /\ Len(executed') = step
    BY <1>2, <2>1
  <2>3. RunTypes' /\ Position'
    BY <1>1, <1>2, <1>4, <2>1, <2>2
       DEF Executed, NextStep, RunTypes, Position, Forward
  <2>4. /\ Completed(<<"execute", step>>)
        /\ result[<<"execute", step>>].kind = "receipt"
    BY <1>4 DEF Executed, Awaits, Outcome, Completed
  <2>5. \A i \in 1 .. step : <<"execute", i>> \in Calls
    <3>1. \A i \in 1 .. step : i \in 1 .. MaxSteps
      BY <1>2, <2>1
    <3> QED
      BY <3>1, SagaCalls
  <2>6. ExecutedOnReceipt'
    <3> SUFFICES ASSUME NEW i \in 1 .. step
                 PROVE  /\ Completed(<<"execute", i>>)'
                        /\ result'[<<"execute", i>>].kind = "receipt"
      BY <2>2 DEF ExecutedOnReceipt
    <3>1. /\ Completed(<<"execute", i>>)
          /\ result[<<"execute", i>>].kind = "receipt"
      BY <2>1, <2>4 DEF ExecutedOnReceipt
    <3> QED
      BY <2>5, <3>1 DEF CallsAdvance
  <2>7. at' # "compensate"
    BY <1>4 DEF Executed, NextStep
  <2> QED
    BY <2>1, <2>3, <2>6, <2>7 DEF CompensatedInReverse, CompensationsFollowDenial
<1> QED
  BY <1>3, <1>4

\* While the run compensates, the steps compensated are a suffix of those
\* executed.
LEMMA BackwardStep ==
    ASSUME SInv, Denied \/ Compensated \/ Raised, UNCHANGED steps
    PROVE  RunTypes' /\ Position' /\ CompensatedInReverse'
<1> USE DEF SInv
<1>1. /\ Len(steps) \in Nat /\ executed' = executed
      /\ executed \in Seq(Decisions) /\ Len(executed) \in Nat
      /\ Len(executed) <= Len(steps)
      /\ \A d \in Decisions : Compensation(d) \in Decisions
  BY SagaCalls DEF Denied, Compensated, Raised, RunTypes, Position
<1>2. CASE Denied
  <2>1. /\ compensated = <<>> /\ compensated' = <<>> /\ report = "none"
        /\ Compensate(Len(executed))
    BY <1>2 DEF Denied, Awaits, Forward, RunTypes, Position
  <2>2. RunTypes' /\ Position'
    BY <1>1, <1>2, <2>1 DEF Compensate, RunTypes, Position, Forward
  <2> QED
    BY <2>1, <2>2 DEF CompensatedInReverse
<1>3. CASE Compensated
  <2>1. /\ step \in 1 .. Len(executed)
        /\ compensated \in Seq(Decisions)
        /\ Len(compensated) = Len(executed) - step
        /\ compensated' = Append(compensated, Compensation(executed[step]))
        /\ report = "none"
        /\ Compensate(step - 1)
    BY <1>3 DEF Compensated, Awaits, RunTypes, Position
  <2>2. /\ Compensation(executed[step]) \in Decisions
        /\ compensated' \in Seq(Decisions)
        /\ Len(compensated') = Len(executed) - step + 1
        /\ compensated'[Len(executed) - step + 1] = Compensation(executed[step])
        /\ \A i \in 1 .. Len(compensated) : compensated'[i] = compensated[i]
    BY <1>1, <2>1
  <2>3. RunTypes' /\ Position'
    BY <1>1, <2>1, <2>2 DEF Compensate, RunTypes, Position, Forward
  <2>4. CompensatedInReverse'
    <3> SUFFICES ASSUME NEW i \in 1 .. Len(compensated')
                 PROVE  compensated'[i] = Compensation(executed[Len(executed) + 1 - i])
      BY <1>1 DEF CompensatedInReverse
    <3>1. CASE i \in 1 .. Len(compensated)
      BY <2>2, <3>1 DEF CompensatedInReverse
    <3>2. CASE i = Len(executed) - step + 1
      <4>1. Len(executed) + 1 - i = step
        BY <1>1, <2>1, <3>2
      <4> QED
        BY <2>2, <3>2, <4>1
    <3> QED
      BY <1>1, <2>1, <2>2, <3>1, <3>2
  <2> QED
    BY <2>3, <2>4
<1>4. CASE Raised
  BY <1>4 DEF Raised, Awaits, RunTypes, Position, Forward, CompensatedInReverse
<1> QED
  BY <1>2, <1>3, <1>4

\* The run compensates what it executed before the step that was denied.
LEMMA BackwardStepFollowsDenial ==
    ASSUME SInv, Denied \/ Compensated \/ Raised, UNCHANGED steps, CallsAdvance,
           \A i \in 1 .. MaxSteps : Scheduled(<<"compensate", i>>)' =>
               \/ Scheduled(<<"compensate", i>>)
               \/ at' = "compensate" /\ step' = i
    PROVE  ExecutedOnReceipt' /\ CompensationsFollowDenial'
<1> USE DEF SInv
<1>1. executed' = executed
  BY DEF Denied, Compensated, Raised
<1>2. ExecutedOnReceipt' /\ (NextIsDenied => NextIsDenied')
  BY <1>1, HistoryStays
<1>3. at' \notin {"start", "log", "execute"}
  BY DEF Denied, Compensated, Raised, Compensate
<1>4. ASSUME at' = "compensate"
      PROVE  NextIsDenied /\ step' <= Len(executed)
  <2>1. CASE Denied
    <3>1. /\ Len(executed) + 1 = step /\ step <= Len(steps)
          /\ Len(executed) \in Nat /\ Len(steps) \in Nat
      BY <2>1, SagaCalls DEF Denied, Awaits, RunTypes, Position, Forward
    <3> QED
      BY <1>4, <2>1, <3>1
         DEF Denied, Compensate, Awaits, Outcome, NextIsDenied, Completed
  <2>2. CASE Compensated
    BY <1>4, <2>2
       DEF Compensated, Awaits, Compensate, CompensationsFollowDenial,
           Position, RunTypes
  <2> QED
    BY <1>4, <2>1, <2>2 DEF Raised
<1> QED
  BY <1>1, <1>2, <1>3, <1>4 DEF CompensationsFollowDenial, Forward

LEMMA SInvariantStep == SInv /\ [SNext]_allVars => SInv'
<1> SUFFICES ASSUME SInv, [SNext]_allVars
             PROVE  SInv'
  OBVIOUS
<1> USE DEF SInv
<1>1. IInv'
  BY SagaStepIsActivityStep, InvariantStep
<1>2. CASE Run
  <2>1. /\ CallsAdvance
        /\ \A i \in 1 .. MaxSteps : Scheduled(<<"compensate", i>>)' =>
              \/ Scheduled(<<"compensate", i>>)
              \/ at' = "compensate" /\ step' = i
    BY <1>2, RunMakesOneCall
  <2>2. CASE Start \/ Logged \/ Executed
    <3>1. Forward /\ at' # "compensate"
      BY <2>2 DEF Start, Logged, Executed, Awaits, NextStep, Forward
    <3>2. \A i \in 1 .. MaxSteps : ~Scheduled(<<"compensate", i>>)'
      BY <2>1, <3>1 DEF CompensationsFollowDenial
    <3> QED
      BY <1>1, <1>2, <2>1, <2>2, <3>2, ForwardStep DEF Run
  <2>3. CASE Denied \/ Compensated \/ Raised
    BY <1>1, <1>2, <2>1, <2>3, BackwardStep, BackwardStepFollowsDenial DEF Run
  <2> QED
    BY <1>2, <2>2, <2>3 DEF Run
<1>3. ASSUME UNCHANGED workflowVars, CallsAdvance,
             \A i \in 1 .. MaxSteps :
                 Scheduled(<<"compensate", i>>)' => Scheduled(<<"compensate", i>>)
      PROVE  SInv'
  <2>1. UNCHANGED <<steps, at, step, executed, compensated, report>>
    BY <1>3 DEF workflowVars
  <2>2. ExecutedOnReceipt' /\ (NextIsDenied => NextIsDenied')
    BY <1>3, <2>1, HistoryStays
  <2>3. RunTypes' /\ Position' /\ CompensatedInReverse'
    BY <2>1 DEF RunTypes, Position, Forward, CompensatedInReverse
  <2>4. CompensationsFollowDenial'
    BY <1>3, <2>1, <2>2 DEF CompensationsFollowDenial, Forward
  <2> QED
    BY <1>1, <2>2, <2>3, <2>4
<1>4. CASE Progress /\ UNCHANGED workflowVars
  <2>1. CallsAdvance /\ \A k \in Calls : Scheduled(k)' <=> Scheduled(k)
    BY <1>4, ProgressMakesNoCall DEF IInv
  <2> QED
    BY <1>3, <1>4, <2>1, SagaCalls
<1>5. CASE UNCHANGED allVars
  <2>1. CallsAdvance /\ \A k \in Calls : Scheduled(k)' <=> Scheduled(k)
    BY <1>5 DEF allVars, vars, serverVars, engineVars, CallsAdvance, Scheduled,
                Completed
  <2> QED
    BY <1>3, <1>5, <2>1, SagaCalls DEF allVars
<1> QED
  BY <1>2, <1>4, <1>5 DEF SNext

THEOREM SInvariance == SSpec => []SInv
<1> QED
  BY SInvariantInit, SInvariantStep, PTL DEF SSpec

\* The saga with its activities is a behaviour of GovernedActivity, so what is
\* proved of calls holds of the saga's.
THEOREM SagaImplementsActivities == SSpec => Spec
<1>1. SInit => Init
  BY DEF SInit
<1>2. SInv /\ [SNext]_allVars => [Next]_vars
  BY SagaStepIsActivityStep DEF SInv
<1> QED
  BY <1>1, <1>2, SInvariance, PTL DEF SSpec, Spec

-----------------------------------------------------------------------------
(* What the calls of a step come to                                        *)

\* No step is executed before those in front of it have been.
ExecutedInTurn ==
    \A i \in 1 .. MaxSteps :
        Scheduled(<<"execute", i>>) => i <= Len(executed) + 1

\* A compensation is a record in decision memory.
CompensationsAreLogged ==
    \A i \in 1 .. MaxSteps :
        Scheduled(<<"compensate", i>>) =>
            input[<<"compensate", i>>].tool = "log_decision"

\* A step counts as compensated once that record has been answered for.
CompensatedOnAnswer ==
    \A i \in 1 .. Len(executed) :
        i > Len(executed) - Len(compensated) =>
            /\ Completed(<<"compensate", i>>)
            /\ result[<<"compensate", i>>].kind = "payload"

Unwinding ==
    /\ ExecutedInTurn
    /\ CompensationsAreLogged
    /\ CompensatedOnAnswer
    /\ report = "compensated" => NextIsDenied

\* Which calls a step of the run makes.
LEMMA RunMakesWhichCalls ==
    ASSUME SInv, Run
    PROVE  \A i \in 1 .. MaxSteps :
              /\ Scheduled(<<"execute", i>>)' =>
                     Scheduled(<<"execute", i>>) \/ (Logged /\ i = step)
              /\ Scheduled(<<"compensate", i>>)' =>
                     \/ Scheduled(<<"compensate", i>>)
                     \/ input'[<<"compensate", i>>].tool = "log_decision"
<1> USE DEF SInv, IInv
<1> DEFINE Made(kind, n, in) ==
        /\ kind \in {"log", "execute", "compensate"} /\ n \in 1 .. MaxSteps
        /\ Schedule(<<kind, n>>, in)
<1> HIDE DEF Made
<1>1. ASSUME UNCHANGED vars
      PROVE  \A k : Scheduled(k)' <=> Scheduled(k)
  BY <1>1 DEF vars, serverVars, Scheduled
<1>2. ASSUME NEW kind, NEW n, NEW in, Made(kind, n, in)
      PROVE  \A i \in 1 .. MaxSteps, k \in {"execute", "compensate"} :
                Scheduled(<<k, i>>)' =>
                    \/ Scheduled(<<k, i>>)
                    \/ kind = k /\ n = i /\ input'[<<k, i>>] = in
  <2>1. /\ \A i \in 1 .. MaxSteps, k \in {"execute", "compensate"} : <<k, i>> \in Calls
        /\ <<kind, n>> \in Calls
    BY <1>2, SagaCalls DEF Made
  <2>2. /\ \A k \in Calls : Scheduled(k)' <=> Scheduled(k) \/ k = <<kind, n>>
        /\ input'[<<kind, n>>] = in
    BY <1>2, <2>1, ScheduleMakesOneCall DEF Made
  <2> QED
    BY <2>1, <2>2
<1>3. ASSUME NextStep
      PROVE  UNCHANGED vars \/ \E n, in : Made("log", n, in)
  <2>1. step < Len(steps) => step + 1 \in 1 .. MaxSteps
    BY SagaCalls DEF RunTypes
  <2> QED
    BY <1>3, <2>1 DEF NextStep, Made
<1>4. ASSUME NEW i \in 0 .. Len(executed), Compensate(i)
      PROVE  UNCHANGED vars \/
             \E n, d : Made("compensate", n, SagaInput("log_decision", d))
  <2>1. i > 0 => i \in 1 .. MaxSteps
    BY SagaCalls DEF RunTypes, Position
  <2> QED
    BY <1>4, <2>1 DEF Compensate, Made
<1>5. \A d : SagaInput("log_decision", d).tool = "log_decision"
  BY DEF SagaInput
<1>6. CASE Start \/ Executed
  <2>1. UNCHANGED vars \/ \E n, in : Made("log", n, in)
    BY <1>3, <1>6 DEF Start, Executed
  <2> QED
    BY <1>1, <1>2, <2>1
<1>7. CASE Logged
  <2>1. step \in 1 .. MaxSteps
    BY <1>7, SagaCalls DEF Logged, Awaits, RunTypes, Position
  <2>2. Made("execute", step, SagaInput("execute_decision", steps[step]))
    BY <1>7, <2>1 DEF Logged, Made
  <2>3. \A i \in 1 .. MaxSteps, k \in {"execute", "compensate"} :
           Scheduled(<<k, i>>)' => Scheduled(<<k, i>>) \/ ("execute" = k /\ step = i)
    BY <1>2, <2>2
  <2> QED
    BY <1>7, <2>3
<1>8. CASE Denied
  <2>1. Len(executed) \in 0 .. Len(executed)
    BY DEF RunTypes
  <2>2. UNCHANGED vars \/ \E n, d : Made("compensate", n, SagaInput("log_decision", d))
    BY <1>4, <1>8, <2>1 DEF Denied
  <2> QED
    BY <1>1, <1>2, <1>5, <2>2
<1>9. CASE Compensated
  <2>1. step - 1 \in 0 .. Len(executed)
    BY <1>9 DEF Compensated, Awaits, RunTypes, Position
  <2>2. UNCHANGED vars \/ \E n, d : Made("compensate", n, SagaInput("log_decision", d))
    BY <1>4, <1>9, <2>1 DEF Compensated
  <2> QED
    BY <1>1, <1>2, <1>5, <2>2
<1>10. CASE Raised
  BY <1>1, <1>10 DEF Raised
<1> QED
  BY <1>6, <1>7, <1>8, <1>9, <1>10 DEF Run

\* What has been asked and answered stays so while the run leaves its lists
\* alone and makes no call of the two kinds.
LEMMA UnwindingStays ==
    ASSUME SInv, Unwinding, CallsAdvance,
           UNCHANGED <<steps, executed, compensated, report>>,
           \A i \in 1 .. MaxSteps :
              /\ Scheduled(<<"execute", i>>)' => i <= Len(executed) + 1
              /\ Scheduled(<<"compensate", i>>)' =>
                     \/ Scheduled(<<"compensate", i>>)
                     \/ input'[<<"compensate", i>>].tool = "log_decision"
    PROVE  Unwinding'
<1> USE DEF SInv, Unwinding
<1>1. \A i \in 1 .. MaxSteps : <<"compensate", i>> \in Calls
  BY SagaCalls
<1>2. \A i \in 1 .. Len(executed) : i \in 1 .. MaxSteps
  BY SagaCalls DEF RunTypes, Position
<1>3. ExecutedInTurn'
  BY DEF ExecutedInTurn
<1>4. CompensationsAreLogged'
  BY <1>1 DEF CompensationsAreLogged, CallsAdvance
<1>5. CompensatedOnAnswer'
  BY <1>1, <1>2 DEF CompensatedOnAnswer, CallsAdvance
<1>6. (report = "compensated" => NextIsDenied)'
  BY HistoryStays
<1> QED
  BY <1>3, <1>4, <1>5, <1>6

\* A compensation is counted when its record has been answered for, and the
\* report is made when the denied step is the one behind those executed.
LEMMA UnwindingStep ==
    ASSUME SInv, Unwinding, [SNext]_allVars
    PROVE  Unwinding'
<1> USE DEF SInv, Unwinding
<1>1. CASE Run
  <2>1. /\ CallsAdvance /\ UNCHANGED steps
        /\ \A i \in 1 .. MaxSteps :
              /\ Scheduled(<<"execute", i>>)' =>
                     Scheduled(<<"execute", i>>) \/ (Logged /\ i = step)
              /\ Scheduled(<<"compensate", i>>)' =>
                     \/ Scheduled(<<"compensate", i>>)
                     \/ input'[<<"compensate", i>>].tool = "log_decision"
    BY <1>1, RunMakesOneCall, RunMakesWhichCalls DEF Run
  <2>2. /\ executed \in Seq(Decisions) /\ Len(executed) \in Nat
        /\ Len(executed) <= Len(steps) /\ Len(steps) \in Nat
        /\ Len(steps) <= MaxSteps /\ MaxSteps \in Nat
    BY SagaCalls DEF RunTypes, Position
  <2>3. \A i \in 1 .. MaxSteps : <<"compensate", i>> \in Calls
    BY SagaCalls
  <2>4. CompensationsAreLogged'
    BY <2>1, <2>3 DEF CompensationsAreLogged, CallsAdvance
  <2>5. CASE Logged
    <3>1. step = Len(executed) + 1 /\ UNCHANGED <<executed, compensated, report>>
      BY <2>5 DEF Logged, Awaits, Position, RunTypes, Forward
    <3>2. \A i \in 1 .. MaxSteps :
             Scheduled(<<"execute", i>>)' => i <= Len(executed) + 1
      <4>1. \A i \in 1 .. MaxSteps :
               Scheduled(<<"execute", i>>)' =>
                   i <= Len(executed) + 1 \/ i = Len(executed) + 1
        BY <2>1, <3>1 DEF ExecutedInTurn
      <4> QED
        BY <2>2, <4>1
    <3> QED
      BY <2>1, <3>1, <3>2, UnwindingStays
  <2>6. CASE Start \/ Executed
    <3>1. /\ compensated = <<>> /\ compensated' = <<>> /\ report' # "compensated"
          /\ executed' = executed \/ Len(executed') = Len(executed) + 1
      <4>1. Forward /\ compensated = <<>> /\ report = "none"
        BY <2>6 DEF Start, Executed, Awaits, Forward, Position, RunTypes
      <4> QED
        BY <2>2, <2>6, <4>1 DEF Start, Executed, NextStep
    <3>2. ~Logged
      BY <2>6 DEF Start, Executed, Awaits, Logged
    <3>3. ExecutedInTurn'
      <4>1. \A i \in 1 .. MaxSteps :
               Scheduled(<<"execute", i>>)' => i <= Len(executed) + 1
        BY <2>1, <3>2 DEF ExecutedInTurn
      <4> QED
        BY <2>2, <3>1, <4>1 DEF ExecutedInTurn
    <3>4. CompensatedOnAnswer'
      BY <2>2, <3>1 DEF CompensatedOnAnswer
    <3> QED
      BY <2>4, <3>1, <3>3, <3>4
  <2>7. CASE Denied
    <3>1. /\ compensated = <<>> /\ UNCHANGED <<executed, compensated>>
          /\ NextIsDenied /\ ~Logged
      <4>1. Len(executed) + 1 = step /\ step <= Len(steps) /\ compensated = <<>>
        BY <2>2, <2>7 DEF Denied, Awaits, RunTypes, Position, Forward
      <4>2. NextIsDenied
        <5>1. /\ Completed(<<"execute", step>>)
              /\ result[<<"execute", step>>].kind = "denial"
          BY <2>7 DEF Denied, Awaits, Outcome, Completed
        <5> QED
          BY <2>2, <4>1, <5>1 DEF NextIsDenied
      <4>3. UNCHANGED <<executed, compensated>> /\ ~Logged
        BY <2>7, <4>1 DEF Denied, Awaits, Logged
      <4> QED
        BY <4>1, <4>2, <4>3
    <3>2. NextIsDenied'
      BY <2>1, <3>1, HistoryStays
    <3>3. ExecutedInTurn'
      BY <2>1, <3>1 DEF ExecutedInTurn
    <3>4. CompensatedOnAnswer'
      BY <2>2, <3>1 DEF CompensatedOnAnswer
    <3> QED
      BY <2>4, <3>2, <3>3, <3>4
  <2>8. CASE Compensated
    <3>1. /\ step \in 1 .. Len(executed) /\ step \in 1 .. MaxSteps
          /\ Len(compensated) = Len(executed) - step
          /\ executed' = executed /\ Len(compensated') = Len(compensated) + 1
          /\ NextIsDenied /\ ~Logged
      <4>1. /\ compensated \in Seq(Decisions) /\ executed[step] \in Decisions
            /\ step \in 1 .. Len(executed)
        BY <2>2, <2>8 DEF Compensated, Awaits, RunTypes, Position
      <4> QED
        BY <2>2, <2>8, <4>1 DEF Compensated, Awaits, Position,
           CompensationsFollowDenial, Logged
    <3>2. NextIsDenied'
      BY <2>1, <3>1, HistoryStays
    <3>3. ExecutedInTurn'
      BY <2>1, <3>1 DEF ExecutedInTurn
    <3>4. CompensatedOnAnswer'
      <4> SUFFICES ASSUME NEW i \in 1 .. Len(executed), i > step - 1
                   PROVE  /\ Completed(<<"compensate", i>>)'
                          /\ result'[<<"compensate", i>>].kind = "payload"
        BY <2>2, <3>1 DEF CompensatedOnAnswer
      <4>1. <<"compensate", i>> \in Calls
        BY <2>2, <2>3
      <4>2. /\ Completed(<<"compensate", i>>)
            /\ result[<<"compensate", i>>].kind = "payload"
        <5>1. CASE i = step
          BY <2>8, <5>1 DEF Compensated, Awaits, Outcome, Completed
        <5>2. CASE i > step
          BY <2>2, <3>1, <5>2 DEF CompensatedOnAnswer
        <5> QED
          BY <2>2, <3>1, <5>1, <5>2
      <4> QED
        BY <2>1, <4>1, <4>2 DEF CallsAdvance
    <3> QED
      BY <2>4, <3>2, <3>3, <3>4
  <2>9. CASE Raised
    <3>1. UNCHANGED <<executed, compensated, report>> /\ at' = "failed"
      BY <2>9 DEF Raised
    <3>2. ~Logged
      BY <3>1 DEF Logged
    <3>3. \A i \in 1 .. MaxSteps :
             Scheduled(<<"execute", i>>)' => i <= Len(executed) + 1
      BY <2>1, <3>2 DEF ExecutedInTurn
    <3> QED
      BY <2>1, <3>1, <3>3, UnwindingStays
  <2> QED
    BY <1>1, <2>5, <2>6, <2>7, <2>8, <2>9 DEF Run
<1>2. ASSUME UNCHANGED workflowVars, CallsAdvance,
             \A k \in Calls : Scheduled(k)' <=> Scheduled(k)
      PROVE  Unwinding'
  <2>1. UNCHANGED <<steps, executed, compensated, report>>
    BY <1>2 DEF workflowVars
  <2>2. \A i \in 1 .. MaxSteps :
           <<"execute", i>> \in Calls /\ <<"compensate", i>> \in Calls
    BY SagaCalls
  <2> QED
    BY <1>2, <2>1, <2>2, UnwindingStays DEF ExecutedInTurn
<1>3. CASE Progress /\ UNCHANGED workflowVars
  BY <1>2, <1>3, ProgressMakesNoCall DEF IInv
<1>4. CASE UNCHANGED allVars
  <2>1. CallsAdvance /\ \A k \in Calls : Scheduled(k)' <=> Scheduled(k)
    BY <1>4 DEF allVars, vars, serverVars, engineVars, CallsAdvance, Scheduled,
                Completed
  <2> QED
    BY <1>2, <1>4, <2>1 DEF allVars
<1> QED
  BY <1>1, <1>3, <1>4 DEF SNext

LEMMA UnwindingInvariance == SSpec => []Unwinding
<1>1. SInit => Unwinding
  BY SagaAssumption
     DEF SInit, Init, Unwinding, ExecutedInTurn, CompensationsAreLogged,
         CompensatedOnAnswer, Scheduled
<1> QED
  BY <1>1, UnwindingStep, SInvariance, PTL DEF SSpec

-----------------------------------------------------------------------------
(* What follows from it                                                    *)

\* A saga that is denied on the way compensates what it has executed and
\* nothing else, the last step first, whatever fails and is retried meanwhile.
THEOREM SagasUnwindInReverse == SSpec => []UnwindsInReverse
<1>1. SInv => UnwindsInReverse
  BY DEF SInv, Position, CompensatedInReverse, UnwindsInReverse
<1> QED
  BY <1>1, SInvariance, PTL

\* No compensation is on record for a step that had no effect, or before a
\* denial, and none is missing when the report says that the saga has been
\* compensated: decision memory tells of compensations what is so.
THEOREM CompensationsAreWarranted == SSpec => []CompensatesWhatHappened
<1>1. ASSUME SInv, NEW r \in logged, r.by[1][1] = "compensate"
      PROVE  /\ \E x \in dispatches : x.by[1] = <<"execute", r.by[1][2]>>
             /\ \E i \in 1 .. Len(steps) :
                    /\ i > r.by[1][2]
                    /\ result[<<"execute", i>>].kind = "denial"
  <2> USE <1>1 DEF SInv, IInv
  <2> DEFINE n == r.by[1][2]
  <2>1. r.by[1] \in Calls /\ Scheduled(r.by[1])
    BY RequestersAreAttempts DEF TypeOK, CallsStartClean
  <2>2. n \in 1 .. MaxSteps /\ r.by[1] = <<"compensate", n>>
    BY <2>1, SagaAssumption
  <2>3. n <= Len(executed) /\ NextIsDenied
    BY <2>1, <2>2 DEF CompensationsFollowDenial
  <2>4. /\ Len(executed) \in Nat
        /\ Len(steps) \in Nat /\ Len(steps) <= MaxSteps /\ MaxSteps \in Nat
    BY SagaCalls DEF RunTypes
  <2>5. \E x \in dispatches : x.by[1] = <<"execute", n>>
    <3>1. n \in 1 .. Len(executed) /\ <<"execute", n>> \in Calls
      BY <2>2, <2>3, <2>4, SagaCalls
    <3>2. result[<<"execute", n>>].kind = "receipt"
      BY <3>1 DEF ExecutedOnReceipt
    <3> QED
      BY <3>1, <3>2 DEF OutcomesAreBacked, Backed, SentBy
  <2>6. \E i \in 1 .. Len(steps) : i > n /\ result[<<"execute", i>>].kind = "denial"
    BY <2>2, <2>3, <2>4 DEF NextIsDenied
  <2> QED
    BY <2>5, <2>6
<1>2. ASSUME SInv, Unwinding, report = "compensated",
             NEW i \in 1 .. Len(steps), result[<<"execute", i>>].kind = "receipt"
      PROVE  \E r \in logged : r.by[1] = <<"compensate", i>>
  <2> USE <1>2 DEF SInv, Unwinding
  <2>1. /\ i \in 1 .. MaxSteps /\ Len(executed) \in Nat
        /\ <<"execute", i>> \in Calls /\ <<"compensate", i>> \in Calls
    BY SagaCalls DEF RunTypes
  <2>2. Scheduled(<<"execute", i>>)
    BY <2>1 DEF IInv, CallsStartClean, Nothing, Answer
  <2>3. i # Len(executed) + 1
    BY DEF NextIsDenied
  <2>4. i \in 1 .. Len(executed)
    BY <2>1, <2>2, <2>3 DEF ExecutedInTurn
  <2>5. /\ Completed(<<"compensate", i>>)
        /\ result[<<"compensate", i>>].kind = "payload"
    BY <2>1, <2>4 DEF CompensatedOnAnswer, Position
  <2>6. input[<<"compensate", i>>].tool = "log_decision"
    BY <2>1, <2>5 DEF CompensationsAreLogged, Completed, Scheduled
  <2> QED
    BY <2>1, <2>5, <2>6, PayloadsAreOnRecord
<1>3. SInv /\ Unwinding => CompensatesWhatHappened
  BY <1>1, <1>2 DEF CompensatesWhatHappened
<1> QED
  BY <1>3, SInvariance, UnwindingInvariance, PTL

=============================================================================
