----------------------- MODULE GovernedActivityProofs -----------------------
(***************************************************************************)
(* What TLAPS proves of GovernedActivity, for all calls, inputs, profiles, *)
(* retry bounds and kinds of fault.                                        *)
(***************************************************************************)
EXTENDS GovernedActivity, TLAPS

-----------------------------------------------------------------------------
(* The inductive invariant                                                 *)

Scheduled(c) == status[c] # "unscheduled"

\* A call that has not been made has left no trace anywhere.
CallsStartClean ==
    /\ \A c \in Calls : Scheduled(c) =>
          input[c] \in Inputs /\ current[c] \in 1 .. MaxAttempts
    /\ \A c \in Calls : ~Scheduled(c) =>
          input[c] = NoInput /\ result[c] = Nothing
    /\ \A a \in Attempts : ~Scheduled(a[1]) =>
          /\ phase[a] = "unstarted"
          /\ request[a] = "unsent"
          /\ reply[a] = Nothing
          /\ captured[a] = Nothing
    /\ \A x \in dispatches \cup logged : Scheduled(x.by[1])

\* The engine's delivered set is what it has dispatched.
DeliveredIsSent ==
    \A d \in Decisions : d \in delivered <=> SentFor(d) # {}

\* A webhook request went out as its call asked for it, past the gates.
SentAsAsked ==
    \A x \in dispatches :
        /\ x.decision = input[x.by[1]].decision
        /\ x.forced = input[x.by[1]].force
        /\ input[x.by[1]].tool = "execute_decision"
        /\ x.decision \in LowConfidence \cup BelowRiskFloor =>
               input[x.by[1]].override_safety
        /\ Allowed(x.by)

\* A record was written as its call asked for it.
LoggedAsAsked ==
    \A rec \in logged :
        /\ rec.decision = input[rec.by[1]].decision
        /\ input[rec.by[1]].tool = "log_decision"
        /\ Allowed(rec.by)

RequestsAreAllowed ==
    \A a \in Attempts : request[a] # "unsent" => Allowed(a)

RecordedBy(c) == {rec \in logged : rec.by[1] = c}

\* What an outcome of call c says is so.
Backed(c, outcome) ==
    /\ outcome.kind = "receipt" =>
           /\ SentBy(c) # {}
           /\ (outcome.detail = "failed") =
                  (input[c].decision \in RejectingWebhook)
    /\ outcome = Answer("denial", "idempotency") =>
           input[c].decision \in delivered
    /\ outcome = Answer("denial", "confidence") =>
           input[c].decision \in LowConfidence /\ ~input[c].override_safety
    /\ outcome = Answer("denial", "risk_floor") =>
           input[c].decision \in BelowRiskFloor /\ ~input[c].override_safety
    /\ outcome = Fail("profile_denied") =>
           ~is_tool_allowed_for_profile(input[c].tool, Profile[c])
    /\ outcome = Payload /\ input[c].tool = "log_decision" =>
           RecordedBy(c) # {}
    /\ outcome = UnnamedDenial => "unnamed" \in Breaches

\* It is so wherever the outcome has got to: on the wire, in the activity
\* while its session closes, at the server.
OutcomesAreBacked ==
    /\ \A a \in Attempts : Backed(a[1], reply[a]) /\ Backed(a[1], captured[a])
    /\ \A c \in Calls : Backed(c, result[c])

IInv ==
    /\ TypeOK
    /\ CallsStartClean
    /\ DeliveredIsSent
    /\ SentAsAsked
    /\ LoggedAsAsked
    /\ RequestsAreAllowed
    /\ OutcomesAreBacked
    /\ AtMostOneUnforced


-----------------------------------------------------------------------------
(* Types                                                                   *)

\* The outcomes the activity can report are outcomes, and what a server makes of
\* an answer is a reply.
LEMMA OutcomeTypes ==
    /\ Nothing \in Outcomes \cup {Nothing}
    /\ \A kind \in RetryableKinds : Fail(kind) \in Outcomes
    /\ Fail("profile_denied") \in Outcomes
    /\ \A r \in Replies \cup {Nothing} : MappedReply(r) \in Outcomes \cup {Nothing}
    /\ \A answer \in EngineAnswers : Rewordings(answer) \subseteq Replies
<1>1. \A kind \in RetryableKinds : Fail(kind) \in Outcomes
  BY DEF Outcomes
<1>2. Fail("profile_denied") \in Outcomes /\ Fail("unexpected_result") \in Outcomes
  BY DEF Outcomes, FinalFailures
<1>3. ToolError \in Outcomes
  BY <1>1 DEF ToolError, Fail, RetryableKinds
<1>4. ASSUME NEW r \in Replies \cup {Nothing}
      PROVE  MappedReply(r) \in Outcomes \cup {Nothing}
  <2>1. CASE r = Malformed
    BY <1>2, <2>1 DEF MappedReply
  <2>2. CASE r # Malformed
    <3>1. MappedReply(r) = r
      BY <2>2 DEF MappedReply
    <3>2. r \in Receipts \cup Denials \cup {Payload, ToolError, UnnamedDenial, Nothing}
      BY <2>2 DEF Replies, EngineAnswers
    <3> QED
      BY <1>3, <3>1, <3>2 DEF Outcomes
  <2> QED
    BY <2>1, <2>2
<1>5. \A answer \in EngineAnswers : Rewordings(answer) \subseteq Replies
  BY DEF Rewordings, Replies
<1> QED
  BY <1>1, <1>2, <1>4, <1>5

\* Whoever sent a webhook request or wrote a record is an attempt of a call.
LEMMA RequestersAreAttempts ==
    ASSUME EngineTypeOK
    PROVE  \A x \in dispatches \cup logged :
               x.by \in Attempts /\ x.by[1] \in Calls
<1> QED
  BY ActivityAssumption DEF EngineTypeOK, Dispatch, LoggedRecord, Attempts

\* The server's variables keep their types when it records an outcome.
LEMMA RecordType ==
    ASSUME TypeOK, CallsStartClean, NEW c \in Calls, Scheduled(c),
           NEW outcome \in Outcomes \cup {Nothing}, Record(c, outcome)
    PROVE  /\ input' = input
           /\ status' \in [Calls -> {"unscheduled", "queued", "running", "completed"}]
           /\ current' \in [Calls -> 0 .. MaxAttempts]
           /\ result' \in [Calls -> Outcomes \cup {Nothing}]
           /\ \A k \in Calls :
                 /\ Scheduled(k)' = Scheduled(k)
                 /\ ~Scheduled(k) => result'[k] = result[k]
                 /\ Scheduled(k) => current'[k] \in 1 .. MaxAttempts
<1> USE ActivityAssumption DEF TypeOK, CallsStartClean, Scheduled
<1>1. CASE /\ status' = [status EXCEPT ![c] = "completed"]
           /\ result' = [result EXCEPT ![c] = outcome]
           /\ UNCHANGED <<input, current>>
  BY <1>1
<1>2. CASE /\ current[c] < MaxAttempts
           /\ status' = [status EXCEPT ![c] = "queued"]
           /\ current' = [current EXCEPT ![c] = @ + 1]
           /\ UNCHANGED <<input, result>>
  BY <1>2
<1> QED
  BY <1>1, <1>2 DEF Record

\* An attempt that reports keeps the types, whether the server still counts it
\* or not.
LEMMA ReportType ==
    ASSUME TypeOK, CallsStartClean, NEW a \in Attempts, Scheduled(a[1]),
           NEW outcome \in Outcomes \cup {Nothing}, Report(a, outcome),
           UNCHANGED <<engineVars, wireVars>>,
           cancelled' \in [Attempts -> BOOLEAN]
    PROVE  TypeOK' /\ CallsStartClean'
<1> USE DEF Scheduled
<1>1. a[1] \in Calls
  BY DEF Attempts
<1>2. /\ input' = input
      /\ status' \in [Calls -> {"unscheduled", "queued", "running", "completed"}]
      /\ current' \in [Calls -> 0 .. MaxAttempts]
      /\ result' \in [Calls -> Outcomes \cup {Nothing}]
      /\ \A k \in Calls :
            /\ Scheduled(k)' = Scheduled(k)
            /\ ~Scheduled(k) => result'[k] = result[k]
            /\ Scheduled(k) => current'[k] \in 1 .. MaxAttempts
  <2>1. CASE Record(a[1], outcome)
    BY <1>1, <2>1, RecordType
  <2>2. CASE UNCHANGED serverVars
    BY <2>2 DEF serverVars, TypeOK, CallsStartClean
  <2> QED
    BY <2>1, <2>2 DEF Report
<1>3. /\ phase' = [phase EXCEPT ![a] = "gone"]
      /\ captured' = [captured EXCEPT ![a] = Nothing]
      /\ UNCHANGED <<tries, logged, delivered, dispatches, queryAttempts,
                     request, reply>>
  BY DEF Report, engineVars, wireVars
<1>4. TypeOK'
  BY <1>2, <1>3 DEF TypeOK, EngineTypeOK
<1>5. CallsStartClean'
  <2>1. \A k \in Calls : Scheduled(k)' =>
            input'[k] \in Inputs /\ current'[k] \in 1 .. MaxAttempts
    BY <1>2 DEF CallsStartClean
  <2>2. \A k \in Calls : ~Scheduled(k)' => input'[k] = NoInput /\ result'[k] = Nothing
    BY <1>2 DEF CallsStartClean
  <2>3. ASSUME NEW b \in Attempts, ~Scheduled(b[1])'
        PROVE  /\ phase'[b] = "unstarted"
               /\ request'[b] = "unsent"
               /\ reply'[b] = Nothing
               /\ captured'[b] = Nothing
    <3>1. b[1] \in Calls
      BY DEF Attempts
    <3>2. ~Scheduled(b[1]) /\ b # a
      BY <1>2, <2>3, <3>1
    <3> QED
      BY <1>3, <3>2 DEF CallsStartClean, TypeOK
  <2>4. \A x \in (dispatches \cup logged)' : Scheduled(x.by[1])'
    <3>1. \A x \in dispatches \cup logged : x.by[1] \in Calls
      BY RequestersAreAttempts DEF TypeOK
    <3> QED
      BY <1>2, <1>3, <3>1 DEF CallsStartClean
  <2> QED
    BY <2>1, <2>2, <2>3, <2>4 DEF CallsStartClean
<1> QED
  BY <1>4, <1>5

\* A tool call keeps the engine's types and dispatches for its own attempt.
LEMMA EngineCallType ==
    ASSUME EngineTypeOK, NEW a \in Requesters, NEW tool, NEW d \in Decisions,
           NEW force \in BOOLEAN, NEW override \in BOOLEAN, NEW answer,
           call_tool(a, tool, d, force, override, answer)
    PROVE  /\ EngineTypeOK'
           /\ \A x \in (dispatches \cup logged)' :
                 x \in dispatches \cup logged \/ x.by = a
<1> USE EngineAssumption DEF EngineTypeOK
<1>1. CASE UNCHANGED engineVars
  BY <1>1 DEF engineVars
<1>2. CASE Cleared(a, d, force, override)
  BY <1>2 DEF Cleared, Dispatch
<1>3. CASE log_decision(a, d, answer)
  BY <1>3 DEF log_decision, LoggedRecord
<1>4. CASE query_data(answer)
  BY <1>4 DEF query_data
<1> QED
  BY <1>1, <1>2, <1>3, <1>4
     DEF call_tool, execute_decision, Stopped, stateless_tool

\* An attempt that moves on without reporting keeps the types: its phase and
\* what it has captured change, and nothing of the server's or the engine's.
LEMMA LocalType ==
    ASSUME TypeOK, CallsStartClean, NEW a \in Attempts, Scheduled(a[1]),
           UNCHANGED <<engineVars, serverVars, reply, tries, cancelled>>,
           NEW p \in {"open", "awaiting", "closing", "gone"},
           phase' = [phase EXCEPT ![a] = p],
           NEW o \in Outcomes \cup {Nothing},
           captured' \in {captured, [captured EXCEPT ![a] = o]},
           NEW r \in {"unsent", "inflight", "handled", "lost"},
           request' \in {request, [request EXCEPT ![a] = r]}
    PROVE  TypeOK' /\ CallsStartClean'
<1> USE DEF TypeOK, CallsStartClean, Scheduled, engineVars, serverVars
<1>1. TypeOK'
  BY DEF EngineTypeOK
<1>2. \A b \in Attempts : ~Scheduled(b[1])' =>
          /\ phase'[b] = "unstarted"
          /\ request'[b] = "unsent"
          /\ reply'[b] = Nothing
          /\ captured'[b] = Nothing
  OBVIOUS
<1> QED
  BY <1>1, <1>2

\* An attempt that has left its initial phase, or whose request is on its way,
\* belongs to a call that has been made.
LEMMA ActiveIsScheduled ==
    ASSUME TypeOK, CallsStartClean, NEW a \in Attempts,
           phase[a] # "unstarted" \/ request[a] # "unsent"
    PROVE  /\ Scheduled(a[1])
           /\ a[1] \in Calls
           /\ input[a[1]] \in Inputs
<1> QED
  BY DEF CallsStartClean, Scheduled, Attempts

\* Every step keeps the types and leaves the calls not made yet untouched.
LEMMA TypeStep ==
    ASSUME TypeOK, CallsStartClean, [Next]_vars
    PROVE  TypeOK' /\ CallsStartClean'
<1>1. ASSUME NEW c \in Calls, NEW in \in Inputs, Schedule(c, in)
      PROVE  TypeOK' /\ CallsStartClean'
  <2> USE <1>1 DEF Schedule, TypeOK, CallsStartClean, Scheduled, engineVars,
                   wireVars, workerVars
  <2>1. TypeOK'
    BY ActivityAssumption DEF EngineTypeOK
  <2>2. \A k \in Calls : Scheduled(k)' =>
            input'[k] \in Inputs /\ current'[k] \in 1 .. MaxAttempts
    BY ActivityAssumption
  <2>3. \A k \in Calls : ~Scheduled(k)' => input'[k] = NoInput /\ result'[k] = Nothing
    OBVIOUS
  <2>4. \A b \in Attempts : ~Scheduled(b[1])' => ~Scheduled(b[1])
    BY DEF Attempts
  <2>5. \A x \in dispatches \cup logged : Scheduled(x.by[1])'
    <3>1. \A x \in dispatches \cup logged : x.by[1] \in Calls
      BY RequestersAreAttempts
    <3> QED
      BY <3>1
  <2> QED
    BY <2>1, <2>2, <2>3, <2>4, <2>5
<1>2. ASSUME NEW c \in Calls, Poll(c)
      PROVE  TypeOK' /\ CallsStartClean'
  <2> USE <1>2 DEF Poll, TypeOK, CallsStartClean, Scheduled, engineVars, wireVars
  <2>1. <<c, current[c]>> \in Attempts
    BY DEF Attempts
  <2>2. TypeOK'
    BY <2>1, ActivityAssumption DEF EngineTypeOK
  <2>3. \A k \in Calls : Scheduled(k)' = Scheduled(k)
    OBVIOUS
  <2>4. \A b \in Attempts : ~Scheduled(b[1])' =>
            phase'[b] = "unstarted"
    BY <2>3 DEF Attempts
  <2>5. \A x \in dispatches \cup logged : x.by[1] \in Calls
    BY RequestersAreAttempts
  <2>6. \A b \in Attempts : b[1] \in Calls
    BY DEF Attempts
  <2> QED
    BY <2>2, <2>3, <2>4, <2>5, <2>6
<1>3. ASSUME NEW c \in Calls, StartToCloseTimeout(c)
      PROVE  TypeOK' /\ CallsStartClean'
  <2>1. Scheduled(c) /\ Record(c, Fail("timeout"))
    BY <1>3 DEF StartToCloseTimeout, Scheduled
  <2>2. Fail("timeout") \in Outcomes
    BY OutcomeTypes DEF RetryableKinds
  <2>3. /\ input' = input
        /\ status' \in [Calls -> {"unscheduled", "queued", "running", "completed"}]
        /\ current' \in [Calls -> 0 .. MaxAttempts]
        /\ result' \in [Calls -> Outcomes \cup {Nothing}]
        /\ \A k \in Calls :
              /\ Scheduled(k)' = Scheduled(k)
              /\ ~Scheduled(k) => result'[k] = result[k]
              /\ Scheduled(k) => current'[k] \in 1 .. MaxAttempts
    BY <2>1, <2>2, RecordType
  <2>4. UNCHANGED <<engineVars, wireVars, workerVars>>
    BY <1>3 DEF StartToCloseTimeout
  <2>5. TypeOK'
    BY <2>3, <2>4 DEF TypeOK, EngineTypeOK, engineVars, wireVars, workerVars
  <2>6. \A x \in dispatches \cup logged : x.by[1] \in Calls
    BY RequestersAreAttempts DEF TypeOK
  <2>7. \A b \in Attempts : b[1] \in Calls
    BY DEF Attempts
  <2>8. CallsStartClean'
    BY <2>3, <2>4, <2>6, <2>7 DEF CallsStartClean, engineVars, wireVars, workerVars
  <2> QED
    BY <2>5, <2>8
<1>4. ASSUME NEW a \in Attempts, Attempt(a)
      PROVE  TypeOK' /\ CallsStartClean'
  <2>1. Scheduled(a[1]) /\ a[1] \in Calls /\ phase[a] # "unstarted"
    <3>1. phase[a] # "unstarted"
      BY <1>4 DEF Attempt, Establish, EstablishFails, CancelledWhileOpening,
           AbortOpen, Refuse, Send, Receive, LoseContact, Close, CloseFails,
           CancelledInCall, Crash, Active
    <3> QED
      BY <3>1, ActiveIsScheduled
  <2>2. \A kind \in RetryableKinds : Fail(kind) \in Outcomes \cup {Nothing}
    BY OutcomeTypes
  <2>3. CASE Establish(a)
    BY <2>1, <2>3, LocalType, OutcomeTypes DEF Establish, wireVars
  <2>4. ASSUME NEW error \in Outcomes, AbortOpen(a, error),
               cancelled' \in [Attempts -> BOOLEAN]
        PROVE  TypeOK' /\ CallsStartClean'
    <3>1. CASE Report(a, error)
      BY <2>1, <2>4, <3>1, ReportType DEF AbortOpen
    <3>2. CASE /\ tries[a] < EstablishAttempts
               /\ tries' = [tries EXCEPT ![a] = @ + 1]
               /\ UNCHANGED <<serverVars, phase, captured>>
      <4>1. UNCHANGED <<engineVars, wireVars>>
        BY <2>4 DEF AbortOpen
      <4>2. TypeOK'
        BY <2>4, <3>2, <4>1, ActivityAssumption
           DEF TypeOK, EngineTypeOK, engineVars, serverVars, wireVars
      <4>3. CallsStartClean'
        BY <3>2, <4>1 DEF CallsStartClean, Scheduled, engineVars, serverVars, wireVars
      <4> QED
        BY <4>2, <4>3
    <3> QED
      BY <2>4, <3>1, <3>2 DEF AbortOpen
  <2>5. CASE EstablishFails(a)
    <3>1. Fail("raw_error") \in Outcomes
      BY OutcomeTypes DEF RetryableKinds
    <3> QED
      BY <2>4, <2>5, <3>1 DEF EstablishFails, TypeOK
  <2>6. CASE CancelledWhileOpening(a)
    <3>1. Fail("shutdown") \in Outcomes
      BY OutcomeTypes DEF RetryableKinds
    <3> QED
      BY <2>4, <2>6, <3>1 DEF CancelledWhileOpening, TypeOK
  <2>7. CASE Refuse(a)
    BY <2>1, <2>7, LocalType, OutcomeTypes DEF Refuse, wireVars
  <2>8. CASE Send(a)
    BY <2>1, <2>8, LocalType, OutcomeTypes DEF Send
  <2>9. CASE Receive(a)
    <3>1. MappedReply(reply[a]) \in Outcomes \cup {Nothing}
      BY OutcomeTypes DEF TypeOK
    <3> QED
      BY <2>1, <2>9, <3>1, LocalType DEF Receive, wireVars
  <2>10. CASE LoseContact(a)
    <3>1. PICK kind \in {"session_error", "raw_error"} :
             captured' = [captured EXCEPT ![a] = Fail(kind)]
      BY <2>10 DEF LoseContact
    <3>2. Fail(kind) \in Outcomes \cup {Nothing}
      BY <2>2 DEF RetryableKinds
    <3> QED
      BY <2>1, <2>10, <3>1, <3>2, LocalType DEF LoseContact, wireVars
  <2>11. CASE Close(a)
    <3>1. captured[a] \in Outcomes \cup {Nothing}
      BY DEF TypeOK
    <3> QED
      BY <2>1, <2>11, <3>1, ReportType DEF Close, TypeOK
  <2>12. CASE CloseFails(a)
    <3>1. Fail("raw_error") \in Outcomes
      BY OutcomeTypes DEF RetryableKinds
    <3> QED
      BY <2>1, <2>12, <3>1, ReportType DEF CloseFails, TypeOK
  <2>13. CASE CancelledInCall(a)
    <3>1. Fail("shutdown") \in Outcomes
      BY OutcomeTypes DEF RetryableKinds
    <3> QED
      BY <2>1, <2>13, <3>1, ReportType DEF CancelledInCall, TypeOK
  <2>14. CASE Crash(a)
    BY <2>1, <2>14, LocalType, OutcomeTypes DEF Crash, wireVars
  <2> QED
    BY <1>4, <2>3, <2>5, <2>6, <2>7, <2>8, <2>9, <2>10, <2>11, <2>12, <2>13,
       <2>14 DEF Attempt
<1>5. ASSUME NEW a \in Attempts, EngineCall(a)
      PROVE  TypeOK' /\ CallsStartClean'
  <2>1. Scheduled(a[1]) /\ a[1] \in Calls /\ input[a[1]] \in Inputs
    BY <1>5, ActiveIsScheduled DEF EngineCall
  <2>2. input[a[1]] \in Input
    BY <2>1, ActivityAssumption
  <2>3. PICK answer \in EngineAnswers :
           /\ call_tool(a, input[a[1]].tool, Decision(a), Forced(a),
                        input[a[1]].override_safety, answer)
           /\ \E worded \in Rewordings(answer) :
                 reply' = [reply EXCEPT ![a] = worded]
    BY <1>5 DEF EngineCall
  <2>4. Decision(a) \in Decisions /\ Forced(a) \in BOOLEAN
          /\ input[a[1]].override_safety \in BOOLEAN
    BY <2>2 DEF Input, Decision, Forced
  <2>5. /\ EngineTypeOK'
        /\ \A x \in (dispatches \cup logged)' :
              x \in dispatches \cup logged \/ x.by = a
    BY <2>3, <2>4, EngineCallType, ActivityAssumption DEF TypeOK
  <2>6. reply' \in [Attempts -> Replies \cup {Nothing}]
          /\ \A b \in Attempts : b # a => reply'[b] = reply[b]
    BY <2>3, OutcomeTypes DEF TypeOK
  <2>7. /\ request' = [request EXCEPT ![a] = "handled"]
        /\ UNCHANGED <<serverVars, workerVars>>
    BY <1>5 DEF EngineCall
  <2>8. TypeOK'
    BY <2>5, <2>6, <2>7 DEF TypeOK, serverVars, workerVars
  <2>9. CallsStartClean'
    <3>1. \A k : Scheduled(k)' = Scheduled(k)
      BY <2>7 DEF Scheduled, serverVars
    <3>2. \A x \in (dispatches \cup logged)' : Scheduled(x.by[1])'
      BY <2>1, <2>5, <3>1 DEF CallsStartClean
    <3>3. \A b \in Attempts : ~Scheduled(b[1])' =>
              /\ phase'[b] = "unstarted"
              /\ request'[b] = "unsent"
              /\ reply'[b] = Nothing
              /\ captured'[b] = Nothing
      BY <2>1, <2>6, <2>7, <3>1 DEF CallsStartClean, TypeOK, workerVars
    <3> QED
      BY <2>7, <3>1, <3>2, <3>3 DEF CallsStartClean, serverVars
  <2> QED
    BY <2>8, <2>9
<1>6. ASSUME NEW a \in Attempts, LoseRequest(a)
      PROVE  TypeOK' /\ CallsStartClean'
  <2>1. Scheduled(a[1])
    BY <1>6, ActiveIsScheduled DEF LoseRequest
  <2>2. TypeOK'
    BY <1>6 DEF LoseRequest, TypeOK, EngineTypeOK, engineVars, serverVars, workerVars
  <2>3. CallsStartClean'
    BY <1>6, <2>1 DEF LoseRequest, CallsStartClean, TypeOK, Scheduled,
         engineVars, serverVars, workerVars
  <2> QED
    BY <2>2, <2>3
<1>7. CASE UNCHANGED vars
  BY <1>7 DEF vars, engineVars, serverVars, wireVars, workerVars, TypeOK,
       EngineTypeOK, CallsStartClean, Scheduled
<1> QED
  BY <1>1, <1>2, <1>3, <1>4, <1>5, <1>6, <1>7 DEF Next, Progress, Server, Wire

\* The initial state is well typed and clean.
LEMMA TypeInit == Init => TypeOK /\ CallsStartClean
<1> SUFFICES ASSUME Init
             PROVE  TypeOK /\ CallsStartClean
  OBVIOUS
<1>1. TypeOK
  BY EngineAssumption, ActivityAssumption
     DEF Init, EngineInit, TypeOK, EngineTypeOK
<1>2. CallsStartClean
  <2>1. \A a \in Attempts : a[1] \in Calls
    BY DEF Attempts
  <2> QED
    BY <2>1 DEF Init, EngineInit, CallsStartClean, Scheduled
<1> QED
  BY <1>1, <1>2

\* Every reachable state is well typed, for all calls, inputs, profiles, retry
\* bounds and faults; in particular no attempt beyond maximum_attempts and no
\* establishment beyond ESTABLISH_ATTEMPTS is ever begun.
THEOREM TypeCorrect == Spec => []TypeOK
<1>1. TypeOK /\ CallsStartClean /\ [Next]_vars => TypeOK' /\ CallsStartClean'
  BY TypeStep
<1> QED
  BY <1>1, TypeInit, PTL DEF Spec

-----------------------------------------------------------------------------
(* The invariant                                                           *)

\* A failure that promises nothing is backed by anything.
LEMMA FailuresAreBacked ==
    ASSUME NEW c
    PROVE  /\ \A kind \in RetryableKinds : Backed(c, Fail(kind))
           /\ Backed(c, Nothing)
           /\ Backed(c, ToolError)
           /\ "unnamed" \in Breaches => Backed(c, UnnamedDenial)
           /\ Backed(c, Malformed)
           /\ Backed(c, Fail("unexpected_result"))
<1> QED
  BY DEF Backed, Fail, Answer, RetryableKinds, Nothing, Payload, ToolError,
         UnnamedDenial, Malformed

\* The activity makes no claim the engine did not make.
LEMMA MappingKeepsBacking ==
    ASSUME NEW c, NEW r, Backed(c, r)
    PROVE  Backed(c, MappedReply(r))
<1> QED
  BY FailuresAreBacked DEF MappedReply

\* An attempt that reports a backed outcome leaves backed outcomes behind.
LEMMA ReportKeepsBacking ==
    ASSUME TypeOK, OutcomesAreBacked, NEW a \in Attempts, NEW outcome,
           Backed(a[1], outcome), Report(a, outcome)
    PROVE  /\ \A b \in Attempts : Backed(b[1], captured'[b])
           /\ \A c \in Calls : Backed(c, result'[c])
           /\ input' = input
<1>1. \A b \in Attempts : captured'[b] = captured[b] \/ captured'[b] = Nothing
  BY DEF Report, TypeOK
<1>2. \A b \in Attempts : Backed(b[1], captured'[b])
  BY <1>1, FailuresAreBacked DEF OutcomesAreBacked
<1>3. /\ \A c \in Calls : result'[c] = result[c] \/ (c = a[1] /\ result'[c] = outcome)
      /\ input' = input
  BY DEF Report, Record, TypeOK, serverVars
<1>4. \A c \in Calls : Backed(c, result'[c])
  BY <1>3 DEF OutcomesAreBacked
<1> QED
  BY <1>2, <1>3, <1>4

\* A step that leaves the engine and the inputs alone keeps the invariant if
\* it sends only what the profile allows and moves only backed outcomes.
LEMMA QuietStep ==
    ASSUME IInv, TypeOK', CallsStartClean',
           UNCHANGED <<engineVars, input, reply>>,
           \A a \in Attempts :
               request'[a] # "unsent" => request[a] # "unsent" \/ Allowed(a),
           \A a \in Attempts : Backed(a[1], captured'[a]),
           \A c \in Calls : Backed(c, result'[c])
    PROVE  IInv'
<1> USE DEF IInv, engineVars
<1>1. DeliveredIsSent'
  BY DEF DeliveredIsSent, SentFor
<1>2. SentAsAsked' /\ LoggedAsAsked' /\ AtMostOneUnforced'
  BY DEF SentAsAsked, LoggedAsAsked, Allowed, AtMostOneUnforced
<1>3. RequestsAreAllowed'
  BY DEF RequestsAreAllowed, Allowed
<1>4. OutcomesAreBacked'
  BY DEF OutcomesAreBacked, Backed, SentBy, RecordedBy
<1> QED
  BY <1>1, <1>2, <1>3, <1>4

\* What a step of the engine does to the deliveries: nothing, or one webhook
\* request that passed every gate.
LEMMA EngineSends ==
    ASSUME NEW a, NEW tool, NEW d, NEW force, NEW override, NEW answer,
           call_tool(a, tool, d, force, override, answer)
    PROVE  \/ UNCHANGED <<dispatches, delivered>>
           \/ /\ tool = "execute_decision"
              /\ dispatches' = dispatches \cup
                     {[by |-> a, decision |-> d, forced |-> force]}
              /\ delivered' = delivered \cup {d}
              /\ d \notin delivered \/ force
              /\ d \in LowConfidence \cup BelowRiskFloor => override
<1>1. CASE Cleared(a, d, force, override) /\ tool = "execute_decision"
  BY <1>1 DEF Cleared, StoppedAt
<1> QED
  BY <1>1 DEF call_tool, execute_decision, Stopped, log_decision, query_data,
              stateless_tool, engineVars

\* Its answer to an attempt of call c is backed once the call has been made.
LEMMA EngineAnswersAreBacked ==
    ASSUME NEW a, NEW answer,
           call_tool(a, input[a[1]].tool, Decision(a), Forced(a),
                     input[a[1]].override_safety, answer),
           input' = input
    PROVE  Backed(a[1], answer)'
<1> DEFINE d == Decision(a)
           override == input[a[1]].override_safety
<1>1. ASSUME NEW gate \in Gates, Stopped(d, Forced(a), override, gate),
             answer = Answer("denial", gate)
      PROVE  Backed(a[1], answer)'
  <2>1. /\ gate = "idempotency" => d \in delivered
        /\ gate = "confidence" => d \in LowConfidence /\ ~override
        /\ gate = "risk_floor" => d \in BelowRiskFloor /\ ~override
    BY <1>1 DEF Stopped, StoppedAt
  <2> QED
    BY <1>1, <2>1 DEF Backed, Stopped, engineVars, Answer, Fail, Decision, Payload,
                      Gates, UnnamedDenial
<1>2. CASE Cleared(a, d, Forced(a), override) /\ answer = DeliveryReceipt(d, override)
  <2>1. SentBy(a[1])' # {}
    <3> DEFINE x == [by |-> a, decision |-> d, forced |-> Forced(a)]
    <3>1. x \in dispatches' /\ x.by[1] = a[1]
      BY <1>2 DEF Cleared
    <3> QED
      BY <3>1 DEF SentBy
  <2>2. /\ answer.kind = "receipt"
        /\ (answer.detail = "failed") = (d \in RejectingWebhook)
    BY <1>2 DEF DeliveryReceipt, Receipt
  <2> QED
    BY <2>1, <2>2 DEF Backed, Answer, Fail, Decision, Payload, UnnamedDenial
<1>3. CASE answer = ToolError
  BY <1>3 DEF Backed, Fail, Answer, Payload, ToolError, UnnamedDenial
<1>4. CASE answer = Payload /\ input[a[1]].tool # "log_decision"
  BY <1>4 DEF Backed, Fail, Answer, Payload, UnnamedDenial
<1>5. CASE log_decision(a, d, answer)
  <2>1. [by |-> a, decision |-> d] \in RecordedBy(a[1])'
    BY <1>5 DEF log_decision, RecordedBy
  <2> QED
    BY <1>5, <2>1 DEF log_decision, Backed, Fail, Answer, Payload, UnnamedDenial
<1> QED
  BY <1>1, <1>2, <1>3, <1>4, <1>5
     DEF call_tool, execute_decision, query_data, stateless_tool, StatelessTools

\* What a request that reaches the engine can lead to.
LEMMA EngineCallSends ==
    ASSUME IInv, NEW a \in Attempts, EngineCall(a)
    PROVE  LET in == input[a[1]] IN
           /\ Allowed(a) /\ a[1] \in Calls /\ in \in Input
           /\ \/ UNCHANGED <<dispatches, delivered>>
              \/ /\ in.tool = "execute_decision"
                 /\ dispatches' = dispatches \cup
                        {[by |-> a, decision |-> in.decision, forced |-> in.force]}
                 /\ delivered' = delivered \cup {in.decision}
                 /\ in.decision \notin delivered \/ in.force
                 /\ in.decision \in LowConfidence \cup BelowRiskFloor =>
                        in.override_safety
<1> USE DEF IInv
<1>1. request[a] = "inflight"
  BY DEF EngineCall
<1>2. Allowed(a) /\ a[1] \in Calls /\ input[a[1]] \in Input
  BY <1>1, ActiveIsScheduled, ActivityAssumption DEF RequestsAreAllowed
<1>3. PICK answer :
         call_tool(a, input[a[1]].tool, Decision(a), Forced(a),
                   input[a[1]].override_safety, answer)
  BY DEF EngineCall
<1> QED
  BY <1>2, <1>3, EngineSends DEF Decision, Forced

\* The invariant is inductive: a step of the engine.
LEMMA EngineStep ==
    ASSUME IInv, TypeOK', CallsStartClean', NEW a \in Attempts, EngineCall(a)
    PROVE  IInv'
<1> DEFINE in == input[a[1]]
           new == [by |-> a, decision |-> in.decision, forced |-> in.force]
<1> USE DEF IInv
<1>1. PICK answer \in EngineAnswers :
         /\ call_tool(a, in.tool, Decision(a), Forced(a), in.override_safety, answer)
         /\ \E worded \in Rewordings(answer) :
               reply' = [reply EXCEPT ![a] = worded]
  BY DEF EngineCall
<1>2. /\ request[a] = "inflight"
      /\ request' = [request EXCEPT ![a] = "handled"]
      /\ UNCHANGED <<input, captured, result>>
  BY DEF EngineCall, serverVars, workerVars
<1>3. Allowed(a) /\ a[1] \in Calls /\ in \in Input
  BY EngineCallSends
<1>4. \/ UNCHANGED <<dispatches, delivered>>
      \/ /\ in.tool = "execute_decision"
         /\ dispatches' = dispatches \cup {new}
         /\ delivered' = delivered \cup {in.decision}
         /\ in.decision \notin delivered \/ in.force
         /\ in.decision \in LowConfidence \cup BelowRiskFloor => in.override_safety
  BY EngineCallSends
<1>5. /\ dispatches \subseteq dispatches' /\ delivered \subseteq delivered'
      /\ logged \subseteq logged'
  BY <1>1, <1>4 DEF call_tool, execute_decision, Stopped, Cleared, log_decision,
                    query_data, stateless_tool, engineVars
<1>6. DeliveredIsSent'
  <2>1. CASE UNCHANGED <<dispatches, delivered>>
    BY <2>1 DEF DeliveredIsSent, SentFor
  <2>2. CASE /\ dispatches' = dispatches \cup {new}
             /\ delivered' = delivered \cup {in.decision}
    <3> SUFFICES ASSUME NEW d \in Decisions
                 PROVE  d \in delivered' <=> SentFor(d)' # {}
      BY DEF DeliveredIsSent
    <3>1. d \in delivered <=> \E x \in dispatches : x.decision = d
      BY DEF DeliveredIsSent, SentFor
    <3>2. SentFor(d)' # {} <=> \E x \in dispatches' : x.decision = d
      BY DEF SentFor
    <3>3. new \in dispatches' /\ new.decision = in.decision
      BY <2>2
    <3>4. \A x \in dispatches' : x \in dispatches \/ x = new
      BY <2>2
    <3>5. dispatches \subseteq dispatches'
      BY <2>2
    <3> QED
      BY <2>2, <3>1, <3>2, <3>3, <3>4, <3>5
  <2> QED
    BY <1>4, <2>1, <2>2
<1>7. SentAsAsked'
  <2>1. \A x \in dispatches' : x \in dispatches \/ (x = new /\ ~UNCHANGED dispatches)
    BY <1>4
  <2>2. \A x \in dispatches : Allowed(x.by)' = Allowed(x.by)
    BY <1>2 DEF Allowed
  <2>3. CASE UNCHANGED dispatches
    BY <1>2, <2>2, <2>3 DEF SentAsAsked
  <2>4. CASE ~UNCHANGED dispatches
    BY <1>2, <1>3, <1>4, <2>1, <2>2, <2>4 DEF SentAsAsked, Allowed
  <2> QED
    BY <2>3, <2>4
<1>8. LoggedAsAsked'
  <2>1. \A rec \in logged' :
            \/ rec \in logged
            \/ /\ rec = [by |-> a, decision |-> in.decision]
               /\ in.tool = "log_decision"
    BY <1>1 DEF Decision, call_tool, execute_decision, Stopped, Cleared, log_decision,
                query_data, stateless_tool, engineVars
  <2> QED
    BY <1>2, <1>3, <2>1 DEF LoggedAsAsked, Allowed
<1>9. RequestsAreAllowed'
  BY <1>2, <1>3 DEF RequestsAreAllowed, Allowed, TypeOK
<1>10. AtMostOneUnforced'
  <2>1. CASE UNCHANGED dispatches
    BY <2>1 DEF AtMostOneUnforced
  <2>2. CASE /\ dispatches' = dispatches \cup {new}
             /\ in.decision \notin delivered \/ in.force
    <3>1. in.decision \in Decisions
      BY <1>3 DEF Input
    <3>2. \A x \in dispatches : x.decision = in.decision => in.force
      BY <2>2, <3>1 DEF DeliveredIsSent, SentFor
    <3> QED
      BY <2>2, <3>2 DEF AtMostOneUnforced
  <2> QED
    BY <1>4, <2>1, <2>2
<1>11. OutcomesAreBacked'
  <2>1. ASSUME NEW c, NEW outcome, Backed(c, outcome)
        PROVE  Backed(c, outcome)'
    BY <1>2, <1>5, <2>1 DEF Backed, SentBy, RecordedBy
  <2>2. Backed(a[1], reply[a])'
    <3>1. PICK worded \in Rewordings(answer) :
             reply' = [reply EXCEPT ![a] = worded]
      BY <1>1
    <3>2. Backed(a[1], answer)'
      BY <1>1, <1>2, EngineAnswersAreBacked
    <3>3. \/ worded \in {answer, Malformed}
          \/ worded = UnnamedDenial /\ "unnamed" \in Breaches
      BY DEF Rewordings
    <3>4. reply'[a] = worded
      BY <3>1 DEF TypeOK
    <3>5. /\ Backed(a[1], Malformed)
          /\ "unnamed" \in Breaches => Backed(a[1], UnnamedDenial)
      BY FailuresAreBacked
    <3> QED
      BY <3>2, <3>3, <3>4, <3>5, <2>1
  <2>3. \A b \in Attempts : b # a => reply'[b] = reply[b]
    BY <1>1 DEF TypeOK
  <2> QED
    BY <1>2, <2>1, <2>2, <2>3 DEF OutcomesAreBacked
<1> QED
  BY <1>6, <1>7, <1>8, <1>9, <1>10, <1>11

\* The invariant is inductive: a call is made.
LEMMA ScheduleStep ==
    ASSUME IInv, TypeOK', CallsStartClean',
           NEW c \in Calls, NEW in \in Inputs, Schedule(c, in)
    PROVE  IInv'
<1> USE DEF IInv
<1>1. /\ input' = [input EXCEPT ![c] = in]
      /\ UNCHANGED <<engineVars, result, wireVars, workerVars>>
      /\ ~Scheduled(c)
  BY DEF Schedule, Scheduled
<1>2. \A k \in Calls : k # c => input'[k] = input[k]
  BY <1>1 DEF TypeOK
<1>3. \A x \in dispatches \cup logged : x.by[1] \in Calls /\ x.by[1] # c
  BY <1>1, RequestersAreAttempts DEF CallsStartClean, TypeOK
<1>4. \A a \in Attempts : a[1] \in Calls
  BY DEF Attempts
<1>5. DeliveredIsSent' /\ AtMostOneUnforced'
  BY <1>1 DEF DeliveredIsSent, AtMostOneUnforced, SentFor, engineVars
<1>6. SentAsAsked' /\ LoggedAsAsked'
  BY <1>1, <1>2, <1>3 DEF SentAsAsked, LoggedAsAsked, Allowed, engineVars
<1>7. RequestsAreAllowed'
  BY <1>1, <1>2, <1>4 DEF RequestsAreAllowed, Allowed, CallsStartClean, wireVars
<1>8. OutcomesAreBacked'
  <2>1. ASSUME NEW k \in Calls, NEW outcome, Backed(k, outcome),
               k # c \/ outcome = Nothing
        PROVE  Backed(k, outcome)'
    <3>1. CASE k # c
      BY <1>1, <1>2, <2>1, <3>1 DEF Backed, SentBy, RecordedBy, engineVars
    <3>2. CASE outcome = Nothing
      BY <3>2 DEF Backed, Nothing, Fail, Answer, Payload, UnnamedDenial
    <3> QED
      BY <2>1, <3>1, <3>2
  <2>2. \A a \in Attempts : a[1] = c => reply[a] = Nothing /\ captured[a] = Nothing
    BY <1>1 DEF CallsStartClean
  <2>3. result[c] = Nothing
    BY <1>1 DEF CallsStartClean
  <2> QED
    BY <1>1, <1>4, <2>1, <2>2, <2>3 DEF OutcomesAreBacked, wireVars, workerVars
<1> QED
  BY <1>5, <1>6, <1>7, <1>8

\* The invariant is inductive: a step of an attempt.
LEMMA AttemptStep ==
    ASSUME IInv, TypeOK', CallsStartClean', NEW a \in Attempts, Attempt(a)
    PROVE  IInv'
<1> USE DEF IInv
<1>1. /\ UNCHANGED <<engineVars, reply>>
      /\ \A b \in Attempts :
            request'[b] # "unsent" => request[b] # "unsent" \/ Allowed(b)
  BY DEF Attempt, Establish, EstablishFails, CancelledWhileOpening, AbortOpen,
     Refuse, Send, Receive, LoseContact, Close, CloseFails, CancelledInCall,
     Crash, wireVars, TypeOK
<1>2. a[1] \in Calls
  BY DEF Attempts
<1>3. /\ Backed(a[1], Fail("raw_error"))
      /\ Backed(a[1], Fail("session_error"))
      /\ Backed(a[1], Fail("shutdown"))
      /\ Backed(a[1], Nothing)
      /\ Backed(a[1], captured[a])
  BY FailuresAreBacked DEF RetryableKinds, OutcomesAreBacked
<1>4. ASSUME NEW outcome, Backed(a[1], outcome), Report(a, outcome)
      PROVE  IInv'
  BY <1>1, <1>4, ReportKeepsBacking, QuietStep
<1>5. ASSUME NEW outcome, Backed(a[1], outcome), UNCHANGED serverVars,
             captured' \in {captured, [captured EXCEPT ![a] = outcome]}
      PROVE  IInv'
  <2>1. \A b \in Attempts : Backed(b[1], captured'[b])
    BY <1>5 DEF OutcomesAreBacked, TypeOK
  <2>2. \A c \in Calls : Backed(c, result'[c])
    BY <1>5 DEF OutcomesAreBacked, serverVars
  <2> QED
    BY <1>1, <1>5, <2>1, <2>2, QuietStep DEF serverVars
<1>6. CASE Establish(a) \/ Send(a) \/ Crash(a)
  BY <1>3, <1>5, <1>6 DEF Establish, Send, Crash
<1>7. CASE Refuse(a)
  <2>1. Backed(a[1], Fail("profile_denied"))
    BY <1>7 DEF Refuse, Backed, Allowed, Fail, Answer, Payload, UnnamedDenial
  <2> QED
    BY <1>5, <1>7, <2>1 DEF Refuse
<1>8. CASE Receive(a)
  <2>1. Backed(a[1], MappedReply(reply[a]))
    BY MappingKeepsBacking DEF OutcomesAreBacked
  <2> QED
    BY <1>5, <1>8, <2>1 DEF Receive
<1>9. CASE LoseContact(a)
  BY <1>3, <1>5, <1>9 DEF LoseContact
<1>10. CASE EstablishFails(a) \/ CancelledWhileOpening(a)
  <2>1. PICK error : Backed(a[1], error) /\ AbortOpen(a, error)
    BY <1>3, <1>10 DEF EstablishFails, CancelledWhileOpening
  <2> QED
    BY <1>3, <1>4, <1>5, <2>1 DEF AbortOpen
<1>11. CASE Close(a) \/ CloseFails(a) \/ CancelledInCall(a)
  BY <1>3, <1>4, <1>11 DEF Close, CloseFails, CancelledInCall
<1> QED
  BY <1>6, <1>7, <1>8, <1>9, <1>10, <1>11 DEF Attempt

\* The invariant is inductive: a step of the server or a lost request.
LEMMA ServerStep ==
    ASSUME IInv, TypeOK', CallsStartClean',
           \/ \E c \in Calls : Server(c)
           \/ \E a \in Attempts : LoseRequest(a)
    PROVE  IInv'
<1> USE DEF IInv
<1>1. ASSUME NEW c \in Calls, Poll(c)
      PROVE  IInv'
  BY <1>1, QuietStep DEF Poll, OutcomesAreBacked, wireVars
<1>2. ASSUME NEW c \in Calls, StartToCloseTimeout(c)
      PROVE  IInv'
  <2>1. Record(c, Fail("timeout")) /\ UNCHANGED <<engineVars, wireVars, workerVars>>
    BY <1>2 DEF StartToCloseTimeout
  <2>2. Backed(c, Fail("timeout"))
    BY FailuresAreBacked DEF RetryableKinds
  <2>3. /\ input' = input
        /\ \A k \in Calls : result'[k] = result[k] \/ (k = c /\ result'[k] = Fail("timeout"))
    BY <2>1 DEF Record, TypeOK
  <2>4. \A k \in Calls : Backed(k, result'[k])
    BY <2>2, <2>3 DEF OutcomesAreBacked
  <2> QED
    BY <2>1, <2>3, <2>4, QuietStep DEF OutcomesAreBacked, wireVars, workerVars
<1>3. ASSUME NEW a \in Attempts, LoseRequest(a)
      PROVE  IInv'
  BY <1>3, QuietStep
     DEF LoseRequest, OutcomesAreBacked, serverVars, workerVars, TypeOK
<1> QED
  BY <1>1, <1>2, <1>3 DEF Server

\* The invariant holds in the initial state.
LEMMA InvariantInit == Init => IInv
<1> SUFFICES ASSUME Init
             PROVE  IInv
  OBVIOUS
<1>1. TypeOK /\ CallsStartClean
  BY TypeInit
<1>2. DeliveredIsSent /\ SentAsAsked /\ LoggedAsAsked /\ AtMostOneUnforced
  BY DEF Init, EngineInit, DeliveredIsSent, SentFor, SentAsAsked, LoggedAsAsked,
     AtMostOneUnforced
<1>3. RequestsAreAllowed
  BY DEF Init, RequestsAreAllowed
<1>4. OutcomesAreBacked
  BY FailuresAreBacked DEF Init, OutcomesAreBacked
<1> QED
  BY <1>1, <1>2, <1>3, <1>4 DEF IInv

\* Every step keeps the invariant.
LEMMA InvariantStep == IInv /\ [Next]_vars => IInv'
<1> SUFFICES ASSUME IInv, [Next]_vars
             PROVE  IInv'
  OBVIOUS
<1>1. TypeOK' /\ CallsStartClean'
  BY TypeStep DEF IInv
<1>2. CASE UNCHANGED vars
  BY <1>1, <1>2, QuietStep
     DEF vars, serverVars, wireVars, workerVars, IInv, OutcomesAreBacked
<1>3. CASE Next
  BY <1>1, <1>3, ScheduleStep, AttemptStep, EngineStep, ServerStep
     DEF Next, Progress, Wire
<1> QED
  BY <1>2, <1>3

\* The invariant holds in every reachable state.
THEOREM Invariance == Spec => []IInv
<1> QED
  BY InvariantInit, InvariantStep, PTL DEF Spec

-----------------------------------------------------------------------------
(* What follows from it                                                    *)

\* A decision's webhook gets at most one request that was not forced, however
\* many calls, attempts and requests on the wire compete for it.
THEOREM NoSecondUnforcedRequest == Spec => []AtMostOneUnforced
<1>1. IInv => AtMostOneUnforced
  BY DEF IInv
<1> QED
  BY <1>1, Invariance, PTL

\* A receipt a workflow holds is for a webhook request of its own.
THEOREM ReceiptsAreBacked == Spec => []ReceiptIsBacked
<1>1. IInv => ReceiptIsBacked
  <2> SUFFICES ASSUME IInv, NEW c \in Calls, result[c].kind = "receipt"
               PROVE  /\ \E x \in SentBy(c) : x.decision = input[c].decision
                      /\ (result[c].detail = "failed") =
                             (input[c].decision \in RejectingWebhook)
    BY DEF ReceiptIsBacked
  <2>1. Backed(c, result[c])
    BY DEF IInv, OutcomesAreBacked
  <2>2. PICK x \in dispatches : x.by[1] = c
    BY <2>1 DEF Backed, SentBy
  <2>3. x.decision = input[c].decision
    BY <2>2 DEF IInv, SentAsAsked
  <2> QED
    BY <2>1, <2>2, <2>3 DEF Backed, SentBy
<1> QED
  BY <1>1, Invariance, PTL

\* An idempotency denial proves that the decision's request went out.
THEOREM IdempotencyDenialsAreBacked == Spec => []IdempotencyDenialIsBacked
<1>1. IInv => IdempotencyDenialIsBacked
  <2> SUFFICES ASSUME IInv, NEW c \in Calls,
                      result[c] = Answer("denial", "idempotency")
               PROVE  SentFor(input[c].decision) # {}
    BY DEF IdempotencyDenialIsBacked
  <2>1. input[c].decision \in delivered
    BY DEF IInv, OutcomesAreBacked, Backed
  <2> QED
    BY <2>1 DEF IInv, DeliveredIsSent, TypeOK, EngineTypeOK
<1> QED
  BY <1>1, Invariance, PTL

\* A refusal means that nothing was sent, in any attempt of the call.
THEOREM RefusalsSentNothing == Spec => []RefusalMeansNothingSent
<1>1. IInv => RefusalMeansNothingSent
  <2> SUFFICES ASSUME IInv, NEW c \in Calls, result[c] \in Refusals,
                      NEW x \in dispatches, x.by[1] = c
               PROVE  FALSE
    BY DEF RefusalMeansNothingSent, SentBy
  <2>1. Backed(c, result[c])
    BY DEF IInv, OutcomesAreBacked
  <2>2. /\ x.decision = input[c].decision
        /\ x.decision \in LowConfidence \cup BelowRiskFloor => input[c].override_safety
        /\ is_tool_allowed_for_profile(input[c].tool, Profile[c])
    BY DEF IInv, SentAsAsked, Allowed
  <2> QED
    BY <2>1, <2>2 DEF Backed, Refusals
<1> QED
  BY <1>1, Invariance, PTL

LEMMA InvariantProfiles == IInv => ProfileIsEnforced
<1>1. /\ ~is_tool_allowed_for_profile("execute_decision", "observe")
      /\ ~is_tool_allowed_for_profile("execute_decision", "govern")
      /\ ~is_tool_allowed_for_profile("log_decision", "observe")
  BY DEF is_tool_allowed_for_profile, NamedTools, OBSERVE_TOOLS, GOVERN_TOOLS
<1> QED
  BY <1>1 DEF ProfileIsEnforced, IInv, SentAsAsked, LoggedAsAsked, Allowed

\* A worker whose profile stops short of executing sends nothing, and one that
\* only observes writes nothing.
THEOREM ProfilesAreEnforced == Spec => []ProfileIsEnforced
BY InvariantProfiles, Invariance, PTL

\* A call whose next request the engine would let through without force has
\* not been told any verdict.
LEMMA VerdictsStopTheCall ==
    ASSUME IInv, NEW c \in Calls, ~input[c].force,
           input[c].decision \notin delivered,
           input[c].decision \in LowConfidence \cup BelowRiskFloor =>
               input[c].override_safety,
           is_tool_allowed_for_profile(input[c].tool, Profile[c]),
           input[c] \in Input
    PROVE  result[c] \notin Verdicts
<1>1. Backed(c, result[c])
  BY DEF IInv, OutcomesAreBacked
<1>2. result[c].kind # "receipt"
  <2> SUFFICES ASSUME result[c].kind = "receipt"
               PROVE  FALSE
    OBVIOUS
  <2>1. PICK x \in dispatches : x.by[1] = c
    BY <1>1 DEF Backed, SentBy
  <2>2. x.decision = input[c].decision
    BY <2>1 DEF IInv, SentAsAsked
  <2> QED
    BY <2>1, <2>2 DEF IInv, DeliveredIsSent, SentFor, Input
<1>3. result[c] \notin Denials
  BY <1>1 DEF Backed, Denials, Gates
<1>4. result[c] # Fail("profile_denied")
  BY <1>1 DEF Backed
<1>5. \A r \in Receipts : r.kind = "receipt"
  BY DEF Receipts
<1> QED
  BY <1>2, <1>3, <1>4, <1>5 DEF Verdicts

\* Only the engine sends webhook requests and writes records.
LEMMA OnlyTheEngineSends ==
    ASSUME Next, dispatches' # dispatches \/ logged' # logged
    PROVE  \E a \in Attempts : EngineCall(a)
<1> QED
  BY DEF Next, Progress, Server, Wire, Attempt, Schedule, Poll,
     StartToCloseTimeout, LoseRequest, Establish, EstablishFails,
     CancelledWhileOpening, AbortOpen, Refuse, Send, Receive, LoseContact,
     Close, CloseFails, CancelledInCall, Crash, engineVars

\* Once a call that did not ask for force is settled, nothing of it that is
\* still running or still on the wire can execute anything.
THEOREM VerdictsAreFinal == Spec => VerdictIsFinal
<1>1. ASSUME IInv, [Next]_vars, NEW c \in Calls, Settled(c), ~input[c].force
      PROVE  SentBy(c)' = SentBy(c)
  <2>1. CASE dispatches' = dispatches
    BY <2>1 DEF SentBy
  <2>2. CASE dispatches' # dispatches
    <3>1. PICK a \in Attempts : EngineCall(a)
      BY <1>1, <2>2, OnlyTheEngineSends DEF vars, engineVars
    <3> DEFINE in == input[a[1]]
               new == [by |-> a, decision |-> in.decision, forced |-> in.force]
    <3>2. /\ Allowed(a) /\ a[1] \in Calls /\ in \in Input
          /\ dispatches' = dispatches \cup {new}
          /\ in.decision \notin delivered \/ in.force
          /\ in.decision \in LowConfidence \cup BelowRiskFloor => in.override_safety
      BY <1>1, <2>2, <3>1, EngineCallSends
    <3>3. a[1] # c
      BY <1>1, <3>2, VerdictsStopTheCall DEF Settled, Allowed
    <3> QED
      BY <3>2, <3>3 DEF SentBy
  <2> QED
    BY <2>1, <2>2
<1>2. IInv /\ [Next]_vars =>
          [\A c \in Calls :
              Settled(c) /\ ~input[c].force => SentBy(c)' = SentBy(c)]_vars
  BY <1>1
<1> QED
  BY <1>2, Invariance, PTL DEF Spec, VerdictIsFinal

-----------------------------------------------------------------------------
(* The refinement                                                          *)

\* A call that is not completed has no outcome yet.
Unanswered == \A c \in Calls : ~Completed(c) => result[c] = Nothing

\* The server records an outcome only for an attempt that is running.
LEMMA RecordsWhileRunning ==
    ASSUME [Next]_vars, status' # status \/ result' # result
    PROVE  \/ \E c \in Calls, in \in Inputs : Schedule(c, in)
           \/ \E c \in Calls : Poll(c)
           \/ \E c \in Calls : \E outcome :
                 status[c] = "running" /\ Record(c, outcome)
<1>1. ASSUME NEW a \in Attempts, NEW outcome, Report(a, outcome),
             status' # status \/ result' # result
      PROVE  a[1] \in Calls /\ status[a[1]] = "running" /\ Record(a[1], outcome)
  BY <1>1 DEF Report, Current, serverVars, Attempts
<1>2. ASSUME NEW a \in Attempts, Attempt(a)
      PROVE  (\E outcome : Report(a, outcome)) \/ UNCHANGED serverVars
  BY <1>2 DEF Attempt, Establish, EstablishFails, CancelledWhileOpening,
     AbortOpen, Refuse, Send, Receive, LoseContact, Close, CloseFails,
     CancelledInCall, Crash
<1>3. ASSUME NEW a \in Attempts, Wire(a)
      PROVE  UNCHANGED serverVars
  BY <1>3 DEF Wire, EngineCall, LoseRequest
<1>4. ASSUME NEW c \in Calls, StartToCloseTimeout(c)
      PROVE  status[c] = "running" /\ Record(c, Fail("timeout"))
  BY <1>4 DEF StartToCloseTimeout
<1> QED
  BY <1>1, <1>2, <1>3, <1>4 DEF Next, Progress, Server, serverVars, vars

\* Unanswered is an invariant.
LEMMA UnansweredStep == TypeOK /\ Unanswered /\ [Next]_vars => Unanswered'
<1> SUFFICES ASSUME TypeOK, Unanswered, [Next]_vars
             PROVE  Unanswered'
  OBVIOUS
<1> USE DEF Unanswered, Completed, TypeOK
<1>1. CASE status' = status /\ result' = result
  BY <1>1
<1>2. ASSUME NEW c \in Calls, NEW in \in Inputs, Schedule(c, in)
      PROVE  Unanswered'
  BY <1>2 DEF Schedule
<1>3. ASSUME NEW c \in Calls, Poll(c)
      PROVE  Unanswered'
  BY <1>3 DEF Poll
<1>4. ASSUME NEW c \in Calls, NEW outcome, status[c] = "running", Record(c, outcome)
      PROVE  Unanswered'
  BY <1>4 DEF Record
<1> QED
  BY <1>1, <1>2, <1>3, <1>4, RecordsWhileRunning

\* Only making a call changes what has been asked for.
LEMMA OnlyScheduleAsks ==
    ASSUME [Next]_vars, input' # input
    PROVE  \E c \in Calls, in \in Inputs : Schedule(c, in)
<1>1. ASSUME NEW c, NEW outcome, Record(c, outcome)
      PROVE  input' = input
  BY <1>1 DEF Record
<1>2. ASSUME NEW a, NEW outcome, Report(a, outcome)
      PROVE  input' = input
  BY <1>1, <1>2 DEF Report, serverVars
<1>3. ASSUME NEW a \in Attempts, Attempt(a)
      PROVE  input' = input
  BY <1>2, <1>3 DEF Attempt, Establish, EstablishFails, CancelledWhileOpening,
     AbortOpen, Refuse, Send, Receive, LoseContact, Close, CloseFails,
     CancelledInCall, Crash, serverVars
<1>4. ASSUME NEW a \in Attempts, Wire(a)
      PROVE  input' = input
  BY <1>4 DEF Wire, EngineCall, LoseRequest, serverVars
<1>5. ASSUME NEW c \in Calls, Server(c)
      PROVE  input' = input
  BY <1>1, <1>5 DEF Server, Poll, StartToCloseTimeout
<1> QED
  BY <1>3, <1>4, <1>5 DEF Next, Progress, vars, serverVars

\* A conclusive outcome is a verdict.
LEMMA ConclusiveIsVerdict ==
    ASSUME NEW outcome \in Outcomes \cup {Nothing}
    PROVE  Promise!Conclusive(outcome) => outcome \in Verdicts
<1> SUFFICES ASSUME Promise!Conclusive(outcome)
             PROVE  outcome \in Verdicts
  OBVIOUS
<1>1. CASE outcome \in Receipts \cup Denials
  BY <1>1 DEF Verdicts
<1>2. CASE outcome \in {Payload, UnnamedDenial, Nothing}
  BY <1>2 DEF Promise!Conclusive, Payload, UnnamedDenial, Nothing, Answer
<1>3. CASE outcome \in FinalFailures
  BY <1>3 DEF Promise!Conclusive, FinalFailures, Verdicts, Fail, Answer
<1>4. CASE outcome \in {Fail(kind) : kind \in RetryableKinds}
  BY <1>4 DEF Promise!Conclusive, Fail, Answer, RetryableKinds
<1> QED
  BY <1>1, <1>2, <1>3, <1>4 DEF Outcomes

\* A backed outcome is truthful, in the sense of the promise.
LEMMA BackedIsTruthful ==
    ASSUME IInv, NEW c \in Calls, Scheduled(c),
           NEW outcome \in Outcomes, Backed(c, outcome)
    PROVE  Promise!Truthful(c, outcome)
<1> USE DEF IInv
<1>1. input[c] \in Input
  BY ActivityAssumption DEF CallsStartClean
<1>2. outcome.kind = "receipt" => Promise!By(c) # {}
  BY DEF Backed, SentBy, Promise!By
<1>3. outcome.kind = "denial" =>
          outcome = UnnamedDenial \/ outcome = Answer("denial", outcome.detail)
  BY DEF Outcomes, Denials, Receipts, Payload, UnnamedDenial, FinalFailures,
         Fail, Answer, RetryableKinds
<1>4. ASSUME outcome.kind = "denial", outcome.detail = "idempotency"
      PROVE  Promise!On(input[c].decision) # {}
  <2>1. outcome = Answer("denial", "idempotency")
    BY <1>3, <1>4 DEF UnnamedDenial, Answer
  <2>2. SentFor(input[c].decision) # {}
    BY <1>1, <2>1 DEF Backed, DeliveredIsSent, Input
  <2> QED
    BY <2>2 DEF SentFor, Promise!On
<1>5. ASSUME \/ outcome.kind = "profile_denied"
             \/ outcome.kind = "denial" /\ outcome.detail \in {"confidence", "risk_floor"}
      PROVE  Promise!By(c) = {}
  <2>1. \/ outcome = Fail("profile_denied")
        \/ outcome = Answer("denial", "confidence")
        \/ outcome = Answer("denial", "risk_floor")
    <3>1. CASE outcome.kind = "profile_denied"
      BY <3>1 DEF Outcomes, Denials, Receipts, Payload, UnnamedDenial,
         FinalFailures, Fail, Answer, RetryableKinds
    <3> QED
      BY <1>3, <1>5, <3>1 DEF UnnamedDenial, Answer
  <2>2. ASSUME NEW x \in dispatches, x.by[1] = c
        PROVE  FALSE
    <3>1. /\ x.decision = input[c].decision
          /\ x.decision \in LowConfidence \cup BelowRiskFloor => input[c].override_safety
          /\ is_tool_allowed_for_profile(input[c].tool, Profile[c])
      BY <2>2 DEF SentAsAsked, Allowed
    <3> QED
      BY <2>1, <3>1 DEF Backed
  <2> QED
    BY <2>2 DEF Promise!By
<1> QED
  BY <1>2, <1>4, <1>5 DEF Promise!Truthful

\* Every step does what the promise allows, or nothing the promise speaks of.
LEMMA RefinementStep ==
    IInv /\ IInv' /\ Unanswered /\ [Next]_vars =>
        [Promise!Next]_(Promise!promiseVars)
<1> SUFFICES ASSUME IInv, IInv', Unanswered, [Next]_vars
             PROVE  Promise!Next \/ UNCHANGED <<input, dispatches, result>>
  BY DEF Promise!promiseVars
<1>1. ASSUME NEW c \in Calls, NEW in \in Inputs, Schedule(c, in)
      PROVE  Promise!Ask(c, in)
  BY <1>1 DEF Schedule, Promise!Ask, IInv, CallsStartClean, Scheduled, engineVars
<1>2. ASSUME NEW a \in Attempts, EngineCall(a), dispatches' # dispatches
      PROVE  \E x \in Dispatch : Promise!Execute(a[1], x)
  <2> DEFINE in == input[a[1]]
             new == [by |-> a, decision |-> in.decision, forced |-> in.force]
  <2>1. /\ Allowed(a) /\ a[1] \in Calls /\ in \in Input
        /\ in.tool = "execute_decision"
        /\ dispatches' = dispatches \cup {new}
        /\ in.decision \notin delivered \/ in.force
        /\ in.decision \in LowConfidence \cup BelowRiskFloor => in.override_safety
    BY <1>2, EngineCallSends
  <2>2. new \in Dispatch /\ new \notin dispatches
    BY <1>2, <2>1 DEF IInv, TypeOK, EngineTypeOK
  <2>3. in # NoInput
    BY <2>1 DEF NoInput
  <2>4. ASSUME ~in.force
        PROVE  /\ Promise!On(in.decision) = {}
               /\ ~Promise!Conclusive(result[a[1]])
    <3>1. Promise!On(in.decision) = {}
      BY <2>1, <2>4 DEF IInv, DeliveredIsSent, SentFor, Promise!On, Input
    <3>2. result[a[1]] \notin Verdicts
      BY <2>1, <2>4, VerdictsStopTheCall DEF Allowed
    <3>3. result[a[1]] \in Outcomes \cup {Nothing}
      BY <2>1 DEF IInv, TypeOK
    <3> QED
      BY <3>1, <3>2, <3>3, ConclusiveIsVerdict
  <2>5. UNCHANGED <<input, result>>
    BY <1>2 DEF EngineCall, serverVars
  <2> QED
    BY <2>1, <2>2, <2>3, <2>4, <2>5 DEF Promise!Execute
<1>3. ASSUME NEW c \in Calls, NEW outcome, status[c] = "running",
             Record(c, outcome), UNCHANGED <<input, dispatches, logged>>,
             result' # result
      PROVE  Promise!Answer(c, result'[c])
  <2>1. result[c] = Nothing
    BY <1>3 DEF Unanswered, Completed
  <2>2. result' = [result EXCEPT ![c] = result'[c]] /\ result'[c] # Nothing
    BY <1>3, <2>1 DEF Record, IInv, TypeOK
  <2>3. result'[c] \in Outcomes
    BY <2>2 DEF IInv, TypeOK
  <2>4. Promise!Truthful(c, result'[c])
    <3>1. Backed(c, result'[c])
      <4>1. Backed(c, result[c])'
        BY DEF IInv, OutcomesAreBacked
      <4>2. input[c].decision \in delivered' => input[c].decision \in delivered
        BY <1>3 DEF IInv, DeliveredIsSent, SentFor, TypeOK, EngineTypeOK
      <4> QED
        BY <1>3, <4>1, <4>2 DEF Backed, SentBy, RecordedBy
    <3> QED
      BY <1>3, <2>3, <3>1, BackedIsTruthful DEF Scheduled
  <2>5. input[c] # NoInput
    <3>1. input[c] \in Input
      BY <1>3, ActivityAssumption DEF IInv, CallsStartClean, Scheduled
    <3> QED
      BY <3>1 DEF NoInput, Input, ToolNames, EXECUTE_TOOLS, GOVERN_TOOLS,
         OBSERVE_TOOLS
  <2> QED
    BY <1>3, <2>1, <2>2, <2>4, <2>5 DEF Promise!Answer
<1>4. CASE input' # input
  BY <1>1, <1>4, OnlyScheduleAsks DEF Promise!Next
<1>5. CASE dispatches' # dispatches
  <2>1. PICK a \in Attempts : EngineCall(a)
    BY <1>5, OnlyTheEngineSends DEF vars, engineVars
  <2> QED
    BY <1>2, <1>5, <2>1 DEF Promise!Next, Attempts
<1>6. CASE input' = input /\ dispatches' = dispatches /\ result' # result
  <2>0. logged' = logged
    BY <1>6, OnlyTheEngineSends DEF EngineCall, serverVars, vars
  <2>1. CASE \E c \in Calls, in \in Inputs : Schedule(c, in)
    BY <1>6, <2>1 DEF Schedule
  <2>2. CASE \E c \in Calls : Poll(c)
    BY <1>6, <2>2 DEF Poll
  <2>3. CASE \E c \in Calls : \E outcome : status[c] = "running" /\ Record(c, outcome)
    <3>1. PICK c \in Calls : \E outcome : status[c] = "running" /\ Record(c, outcome)
      BY <2>3
    <3>2. Promise!Answer(c, result'[c])
      BY <1>3, <1>6, <2>0, <3>1
    <3>3. result'[c] \in Outcomes
      BY <3>2 DEF Promise!Answer, IInv, TypeOK
    <3> QED
      BY <3>2, <3>3 DEF Promise!Next
  <2> QED
    BY <1>6, <2>1, <2>2, <2>3, RecordsWhileRunning
<1> QED
  BY <1>4, <1>5, <1>6

\* GovernedActivity implements ExecutionPromise: what a workflow sees of its
\* calls is an effect at most once, unless forced, and outcomes that tell the
\* truth about it.
THEOREM PromiseKept == Spec => KeepsThePromise
<1>1. Init => Promise!Init
  BY DEF Init, EngineInit, Promise!Init
<1>2. Init => Unanswered
  BY DEF Init, Unanswered, Completed
<1>3. IInv => TypeOK
  BY DEF IInv
<1> QED
  BY <1>1, <1>2, <1>3, Invariance, UnansweredStep, RefinementStep, PTL
     DEF Spec, KeepsThePromise, Promise!Spec

-----------------------------------------------------------------------------
(* What the workflows that make the calls rest on                          *)

\* What no step takes back: a completed call keeps its outcome, a call that
\* has been made its input, and the engine what it has sent and written.
CallsAdvance ==
    /\ \A c \in Calls : Completed(c) => Completed(c)' /\ result'[c] = result[c]
    /\ \A c \in Calls : Scheduled(c) => Scheduled(c)' /\ input'[c] = input[c]
    /\ dispatches \subseteq dispatches'
    /\ logged \subseteq logged'

\* The engine only adds to what it has sent and written.
LEMMA EngineOnlyAdds ==
    ASSUME [Next]_vars
    PROVE  dispatches \subseteq dispatches' /\ logged \subseteq logged'
<1>1. ASSUME NEW a \in Attempts, EngineCall(a)
      PROVE  dispatches \subseteq dispatches' /\ logged \subseteq logged'
  BY <1>1 DEF EngineCall, call_tool, execute_decision, Stopped, Cleared,
     log_decision, query_data, stateless_tool, engineVars
<1> QED
  BY <1>1, OnlyTheEngineSends DEF vars, engineVars

\* Making a call touches that call alone.
LEMMA ScheduleMakesOneCall ==
    ASSUME TypeOK, CallsStartClean, NEW c \in Calls, NEW in, Schedule(c, in)
    PROVE  /\ ~Scheduled(c) /\ input'[c] = in
           /\ \A k \in Calls :
                 /\ Scheduled(k)' <=> Scheduled(k) \/ k = c
                 /\ Completed(k)' <=> Completed(k)
                 /\ k # c => input'[k] = input[k]
           /\ UNCHANGED <<logged, delivered, dispatches, result>>
           /\ CallsAdvance
<1> USE DEF Schedule, TypeOK, Scheduled, Completed
<1>1. UNCHANGED <<logged, delivered, dispatches, result>>
  BY DEF engineVars
<1>2. CallsAdvance
  BY <1>1 DEF CallsAdvance
<1> QED
  BY <1>1, <1>2

\* Nothing moves while the activities are left alone.
LEMMA StandingStill ==
    ASSUME UNCHANGED vars
    PROVE  CallsAdvance /\ \A k : Scheduled(k)' <=> Scheduled(k)
<1> QED
  BY DEF vars, serverVars, engineVars, CallsAdvance, Scheduled, Completed

\* What happens between a workflow's activations makes no call.
LEMMA ProgressMakesNoCall ==
    ASSUME TypeOK, CallsStartClean, Progress
    PROVE  /\ input' = input
           /\ \A k \in Calls : Scheduled(k)' <=> Scheduled(k)
           /\ CallsAdvance
<1>1. input' = input
  <2>1. ASSUME NEW c, NEW outcome, Record(c, outcome)
        PROVE  input' = input
    BY <2>1 DEF Record
  <2>2. ASSUME NEW a, NEW outcome, Report(a, outcome)
        PROVE  input' = input
    BY <2>1, <2>2 DEF Report, serverVars
  <2>3. ASSUME NEW a \in Attempts, Attempt(a)
        PROVE  input' = input
    BY <2>2, <2>3 DEF Attempt, Establish, EstablishFails, CancelledWhileOpening,
       AbortOpen, Refuse, Send, Receive, LoseContact, Close, CloseFails,
       CancelledInCall, Crash, serverVars
  <2>4. ASSUME NEW a \in Attempts, Wire(a)
        PROVE  input' = input
    BY <2>4 DEF Wire, EngineCall, LoseRequest, serverVars
  <2>5. ASSUME NEW c \in Calls, Server(c)
        PROVE  input' = input
    BY <2>1, <2>5 DEF Server, Poll, StartToCloseTimeout
  <2> QED
    BY <2>3, <2>4, <2>5 DEF Progress
<1>2. ASSUME NEW k \in Calls
      PROVE  /\ Scheduled(k)' <=> Scheduled(k)
             /\ Completed(k) => Completed(k)' /\ result'[k] = result[k]
  <2> USE DEF TypeOK, Scheduled, Completed
  <2>1. CASE status' = status /\ result' = result
    BY <2>1
  <2>2. ASSUME NEW c \in Calls, NEW in \in Inputs, Schedule(c, in)
        PROVE  FALSE
    BY <1>1, <2>2, ActivityAssumption
       DEF Schedule, CallsStartClean, NoInput, Input, ToolNames, EXECUTE_TOOLS,
           GOVERN_TOOLS, OBSERVE_TOOLS
  <2>3. ASSUME NEW c \in Calls, Poll(c)
        PROVE  /\ Scheduled(k)' <=> Scheduled(k)
               /\ Completed(k) => Completed(k)' /\ result'[k] = result[k]
    BY <2>3 DEF Poll
  <2>4. ASSUME NEW c \in Calls, NEW outcome, status[c] = "running", Record(c, outcome)
        PROVE  /\ Scheduled(k)' <=> Scheduled(k)
               /\ Completed(k) => Completed(k)' /\ result'[k] = result[k]
    BY <2>4 DEF Record
  <2> QED
    BY <2>1, <2>2, <2>3, <2>4, RecordsWhileRunning DEF Next
<1>3. CallsAdvance
  BY <1>1, <1>2, EngineOnlyAdds DEF CallsAdvance, Next
<1> QED
  BY <1>1, <1>2, <1>3

\* A payload that answers log_decision stands for a record.
LEMMA PayloadsAreOnRecord ==
    ASSUME IInv, NEW c \in Calls, result[c].kind = "payload",
           input[c].tool = "log_decision"
    PROVE  \E rec \in logged :
               rec.by[1] = c /\ rec.decision = input[c].decision
<1>1. result[c] \in Outcomes \cup {Nothing} /\ Backed(c, result[c])
  BY DEF IInv, TypeOK, OutcomesAreBacked
<1>2. result[c] = Payload
  <2>1. \A r \in Receipts \cup Denials \cup FinalFailures \cup {UnnamedDenial, Nothing} :
            r.kind # "payload"
    BY DEF Receipts, Denials, FinalFailures, Fail, UnnamedDenial, Nothing, Answer
  <2>2. \A kind \in RetryableKinds : Fail(kind).kind # "payload"
    BY DEF RetryableKinds, Fail, Answer
  <2> QED
    BY <1>1, <2>1, <2>2 DEF Outcomes
<1>3. PICK rec \in logged : rec.by[1] = c
  BY <1>1, <1>2 DEF Backed, RecordedBy
<1> QED
  BY <1>3 DEF IInv, LoggedAsAsked

-----------------------------------------------------------------------------
(* Which attempt an outcome comes from                                     *)

\* An outcome that can only be an answer of the engine.
Answered(outcome) == outcome.kind \in {"receipt", "denial", "payload"}

\* An attempt is begun when the server has counted up to it, and holds an
\* outcome only while its session closes.
AttemptsInOrder ==
    \A a \in Attempts :
        /\ phase[a] # "unstarted" =>
               /\ a[2] <= current[a[1]]
               /\ a[2] = current[a[1]] => status[a[1]] \in {"running", "completed"}
        /\ captured[a] # Nothing => phase[a] = "closing"

\* An answer the server records is the last attempt's, whose request the
\* engine has handled: no earlier attempt's report counts.
AnswersAreTheLastAttempts ==
    /\ \A a \in Attempts : Answered(captured[a]) => request[a] = "handled"
    /\ \A c \in Calls : Answered(result[c]) =>
          /\ Completed(c)
          /\ phase[<<c, current[c]>>] = "gone"
          /\ request[<<c, current[c]>>] = "handled"

LEMMA AnswersInit == Init => AttemptsInOrder /\ AnswersAreTheLastAttempts
  BY DEF Init, AttemptsInOrder, AnswersAreTheLastAttempts, Answered, Nothing, Answer

\* An attempt that reports a failure, or an answer of its own request, leaves
\* it at that.
LEMMA ReportKeepsAnswers ==
    ASSUME TypeOK, CallsStartClean, AttemptsInOrder, AnswersAreTheLastAttempts,
           NEW a \in Attempts, NEW outcome, phase[a] # "unstarted",
           Answered(outcome) => request[a] = "handled",
           Report(a, outcome), request' = request
    PROVE  AttemptsInOrder' /\ AnswersAreTheLastAttempts'
<1> USE DEF TypeOK, Scheduled, Completed
<1>1. ~Answered(Nothing)
  BY DEF Answered, Nothing, Answer
<1>2. /\ phase' = [phase EXCEPT ![a] = "gone"]
      /\ captured' = [captured EXCEPT ![a] = Nothing]
  BY DEF Report
<1>3. CASE UNCHANGED serverVars
  BY <1>1, <1>2, <1>3 DEF serverVars, AttemptsInOrder, AnswersAreTheLastAttempts
<1>4. CASE Current(a) /\ Record(a[1], outcome)
  <2>1. a[1] \in Calls /\ a = <<a[1], current[a[1]]>> /\ status[a[1]] = "running"
    BY <1>4 DEF Current, Attempts
  <2>2. current[a[1]] \in Nat /\ \A b \in Attempts : b[1] \in Calls /\ b[2] \in Nat
    BY ActivityAssumption DEF Attempts
  <2>3. AttemptsInOrder'
    BY <1>2, <1>4, <2>1, <2>2 DEF Record, AttemptsInOrder
  <2>4. AnswersAreTheLastAttempts'
    BY <1>1, <1>2, <1>4, <2>1 DEF Record, AnswersAreTheLastAttempts
  <2> QED
    BY <2>3, <2>4
<1> QED
  BY <1>3, <1>4 DEF Report

LEMMA AnswersStep ==
    ASSUME TypeOK, CallsStartClean, AttemptsInOrder, AnswersAreTheLastAttempts,
           [Next]_vars
    PROVE  AttemptsInOrder' /\ AnswersAreTheLastAttempts'
<1> USE DEF TypeOK, Scheduled, Completed
<1>1. ~Answered(Nothing) /\ \A kind \in RetryableKinds : ~Answered(Fail(kind))
  BY DEF Answered, Nothing, Answer, Fail, RetryableKinds
<1>2. ~Answered(Fail("profile_denied"))
  BY DEF Answered, Answer, Fail
<1>3. \A b \in Attempts : b[1] \in Calls /\ b[2] \in Nat
  BY ActivityAssumption DEF Attempts
<1>4. \A c \in Calls : current[c] \in Nat
  OBVIOUS
<1>5. \A c \in Calls : Answered(result[c]) => <<c, current[c]>> \in Attempts
  BY DEF AnswersAreTheLastAttempts, CallsStartClean, Attempts
<1>6. ASSUME NEW c \in Calls, NEW in \in Inputs, Schedule(c, in)
      PROVE  AttemptsInOrder' /\ AnswersAreTheLastAttempts'
  <2>1. /\ result[c] = Nothing
        /\ \A b \in Attempts : b[1] = c => phase[b] = "unstarted"
    BY <1>6 DEF Schedule, CallsStartClean
  <2> QED
    BY <1>1, <1>3, <1>6, <2>1
       DEF Schedule, wireVars, workerVars, AttemptsInOrder, AnswersAreTheLastAttempts
<1>7. ASSUME NEW c \in Calls, Poll(c)
      PROVE  AttemptsInOrder' /\ AnswersAreTheLastAttempts'
  <2>1. /\ status[c] = "queued" /\ status' = [status EXCEPT ![c] = "running"]
        /\ phase' = [phase EXCEPT ![<<c, current[c]>>] = "opening"]
        /\ UNCHANGED <<current, result, request, captured>>
    BY <1>7 DEF Poll, wireVars
  <2>2. <<c, current[c]>> \in Attempts
    BY <2>1 DEF Attempts, CallsStartClean
  <2>3. AttemptsInOrder'
    BY <1>3, <1>4, <2>1, <2>2 DEF AttemptsInOrder
  <2>4. AnswersAreTheLastAttempts'
    BY <2>1 DEF AnswersAreTheLastAttempts
  <2> QED
    BY <2>3, <2>4
<1>8. ASSUME NEW c \in Calls, StartToCloseTimeout(c)
      PROVE  AttemptsInOrder' /\ AnswersAreTheLastAttempts'
  <2>1. /\ status[c] = "running" /\ Record(c, Fail("timeout"))
        /\ UNCHANGED <<phase, request, captured>>
    BY <1>8 DEF StartToCloseTimeout, wireVars, workerVars
  <2>2. ~Answered(Fail("timeout"))
    BY <1>1 DEF RetryableKinds
  <2>3. AttemptsInOrder'
    <3>1. ASSUME NEW b \in Attempts, phase[b] # "unstarted"
          PROVE  /\ b[2] <= current'[b[1]]
                 /\ b[2] = current'[b[1]] => status'[b[1]] \in {"running", "completed"}
      <4>1. /\ b[1] \in Calls /\ b[2] \in Nat /\ current[b[1]] \in Nat
            /\ b[2] <= current[b[1]]
            /\ b[2] = current[b[1]] => status[b[1]] \in {"running", "completed"}
        BY <1>3, <3>1 DEF AttemptsInOrder
      <4>2. \/ current'[b[1]] = current[b[1]] + 1
            \/ current'[b[1]] = current[b[1]] /\ status'[b[1]] \in {status[b[1]], "completed"}
        BY <2>1, <4>1 DEF Record
      <4> QED
        BY <4>1, <4>2
    <3> QED
      BY <2>1, <3>1 DEF AttemptsInOrder
  <2>4. AnswersAreTheLastAttempts'
    BY <2>1, <2>2 DEF Record, AnswersAreTheLastAttempts
  <2> QED
    BY <2>3, <2>4
<1>9. ASSUME NEW a \in Attempts, Attempt(a)
      PROVE  AttemptsInOrder' /\ AnswersAreTheLastAttempts'
  <2>1. ASSUME NEW error, AbortOpen(a, error), ~Answered(error)
        PROVE  AttemptsInOrder' /\ AnswersAreTheLastAttempts'
    <3>1. phase[a] = "opening" /\ request' = request
      BY <2>1 DEF AbortOpen, wireVars
    <3>2. CASE UNCHANGED <<serverVars, phase, captured>>
      BY <3>1, <3>2 DEF serverVars, AttemptsInOrder, AnswersAreTheLastAttempts
    <3>3. CASE Report(a, error)
      BY <2>1, <3>1, <3>3, ReportKeepsAnswers
    <3> QED
      BY <2>1, <3>2, <3>3 DEF AbortOpen
  <2>2. CASE EstablishFails(a) \/ CancelledWhileOpening(a)
    BY <1>1, <2>1, <2>2 DEF EstablishFails, CancelledWhileOpening, RetryableKinds
  <2>3. CASE Close(a)
    <3>1. Answered(captured[a]) => request[a] = "handled"
      BY DEF AnswersAreTheLastAttempts
    <3> QED
      BY <2>3, <3>1, ReportKeepsAnswers DEF Close, wireVars
  <2>4. CASE CloseFails(a) \/ CancelledInCall(a)
    BY <1>1, <2>4, ReportKeepsAnswers
       DEF CloseFails, CancelledInCall, wireVars, RetryableKinds
  <2>5. CASE Establish(a) \/ Refuse(a) \/ Send(a) \/ Receive(a) \/ LoseContact(a)
               \/ Crash(a)
    <3>1. /\ phase[a] \in {"opening", "open", "awaiting", "closing"}
          /\ UNCHANGED <<status, current, result>>
          /\ \E p \in {"open", "awaiting", "closing", "gone"} :
                phase' = [phase EXCEPT ![a] = p]
      BY <2>5 DEF Establish, Refuse, Send, Receive, LoseContact, Crash, Active,
                  serverVars
    <3>2. AttemptsInOrder'
      <4>1. \A b \in Attempts : captured'[b] # Nothing => phase'[b] = "closing"
        BY <2>5 DEF Establish, Refuse, Send, Receive, LoseContact, Crash,
                    AttemptsInOrder
      <4>2. \A b \in Attempts : phase'[b] # "unstarted" => phase[b] # "unstarted"
        BY <3>1
      <4> QED
        BY <3>1, <4>1, <4>2 DEF AttemptsInOrder
    <3>3. \A b \in Attempts : Answered(captured'[b]) => request'[b] = "handled"
      <4>1. CASE Refuse(a) \/ LoseContact(a)
        BY <1>1, <1>2, <4>1 DEF Refuse, LoseContact, wireVars, RetryableKinds,
           AnswersAreTheLastAttempts
      <4>2. CASE Receive(a)
        BY <4>2 DEF Receive, wireVars, AnswersAreTheLastAttempts
      <4>3. CASE Send(a)
        BY <1>1, <4>3 DEF Send, AttemptsInOrder, AnswersAreTheLastAttempts
      <4>4. CASE Establish(a) \/ Crash(a)
        BY <1>1, <4>4 DEF Establish, Crash, wireVars, AnswersAreTheLastAttempts
      <4> QED
        BY <2>5, <4>1, <4>2, <4>3, <4>4
    <3>4. \A b \in Attempts : phase[b] = "gone" => phase'[b] = "gone" /\ request'[b] = request[b]
      BY <2>5, <3>1 DEF Establish, Refuse, Send, Receive, LoseContact, Crash, wireVars
    <3> QED
      BY <1>5, <3>1, <3>2, <3>3, <3>4 DEF AnswersAreTheLastAttempts
  <2> QED
    BY <1>9, <2>2, <2>3, <2>4, <2>5 DEF Attempt
<1>10. ASSUME NEW a \in Attempts, Wire(a)
      PROVE  AttemptsInOrder' /\ AnswersAreTheLastAttempts'
  <2>1. /\ request[a] = "inflight"
        /\ \E r \in {"handled", "lost"} : request' = [request EXCEPT ![a] = r]
        /\ UNCHANGED <<phase, captured, status, current, result>>
    BY <1>10 DEF Wire, EngineCall, LoseRequest, serverVars, workerVars
  <2>2. AttemptsInOrder'
    BY <2>1 DEF AttemptsInOrder
  <2>3. AnswersAreTheLastAttempts'
    BY <1>5, <2>1 DEF AnswersAreTheLastAttempts
  <2> QED
    BY <2>2, <2>3
<1>11. CASE UNCHANGED vars
  BY <1>11 DEF vars, serverVars, wireVars, workerVars, AttemptsInOrder,
     AnswersAreTheLastAttempts
<1> QED
  BY <1>6, <1>7, <1>8, <1>9, <1>10, <1>11 DEF Next, Progress, Server

-----------------------------------------------------------------------------
(* What is tried again                                                     *)

\* A reply is the engine's answer to a request that was sent and handled, and
\* what is held while the session closes can be retried only if it is that answer.
RepliesAreHeld ==
    \A a \in Attempts :
        /\ phase[a] \in {"unstarted", "opening", "open"} => request[a] = "unsent"
        /\ reply[a] # Nothing => request[a] = "handled"
        /\ Retryable(captured[a]) => reply[a] = ToolError

\* Sessions hold: an attempt may be cancelled or die with its worker, but no
\* session fails to open, breaks or fails to close, and no deadline expires.
SessionsHold == Faults \subseteq {"shutdown", "crash"}

\* Which of the outcomes can be retried.
LEMMA WhatIsRetryable ==
    /\ ~Retryable(Nothing) /\ ~Retryable(Fail("profile_denied"))
    /\ ToolError # Nothing
    /\ \A r \in Replies \cup {Nothing} : Retryable(MappedReply(r)) => r = ToolError
<1>1. ~Retryable(Nothing) /\ ~Retryable(Fail("profile_denied"))
  BY DEF Retryable, RetryableKinds, Nothing, Fail, Answer
<1>2. ToolError # Nothing
  BY DEF ToolError, Nothing, Answer
<1>3. ~Retryable(Fail("unexpected_result"))
  BY DEF Retryable, RetryableKinds, Fail, Answer
<1>4. \A r \in Receipts \cup Denials \cup {Payload, UnnamedDenial} : ~Retryable(r)
  BY DEF Retryable, RetryableKinds, Receipts, Denials, Payload, UnnamedDenial, Answer
<1> QED
  BY <1>1, <1>2, <1>3, <1>4 DEF MappedReply, Replies, EngineAnswers

\* Without other faults an attempt reports what it holds, or that it has been
\* cancelled; the server goes on to the next one only for these.
LEMMA RetriesStep ==
    ASSUME SessionsHold, TypeOK, CallsStartClean, AttemptsInOrder, RepliesAreHeld,
           RetriesAreWarranted, [Next]_vars
    PROVE  RepliesAreHeld' /\ RetriesAreWarranted'
<1> USE DEF TypeOK
<1>1. \A c \in Calls : /\ current[c] \in Nat
                       /\ \A n \in 1 .. current[c] - 1 : n \in 1 .. current[c]
                       /\ \A n \in 1 .. current[c] : <<c, n>> \in Attempts
  BY ActivityAssumption DEF Attempts
<1>2. \A kind \in {"stall", "loss", "close", "timeout"} : \A a : ~MayFail(kind, a)
  BY DEF SessionsHold, MayFail
<1>3. ASSUME NEW a \in Attempts, NEW outcome, Report(a, outcome), UNCHANGED wireVars,
             \/ cancelled' = cancelled /\ (Retryable(outcome) => reply[a] = ToolError)
             \/ cancelled' = [cancelled EXCEPT ![a] = TRUE]
      PROVE  RepliesAreHeld' /\ RetriesAreWarranted'
  <2>1. RepliesAreHeld'
    BY <1>3, WhatIsRetryable DEF Report, wireVars, RepliesAreHeld
  <2>2. \A b \in Attempts : cancelled[b] => cancelled'[b]
    BY <1>3
  <2>3. CASE current' = current
    <3>1. ASSUME NEW c \in Calls, NEW n \in 1 .. current[c] - 1
          PROVE  cancelled'[<<c, n>>] \/ reply[<<c, n>>] = ToolError
      BY <1>1, <2>2 DEF RetriesAreWarranted
    <3> QED
      <4>1. reply' = reply
        BY <1>3 DEF wireVars
      <4> HIDE DEF TypeOK
      <4> QED
        BY <2>1, <2>3, <3>1, <4>1 DEF RetriesAreWarranted
  <2>4. CASE current' # current
    <3>1. /\ a[1] \in Calls /\ a = <<a[1], current[a[1]]>>
          /\ Retryable(outcome)
          /\ current' = [current EXCEPT ![a[1]] = @ + 1]
      BY <1>3, <2>4 DEF Report, Record, Current, serverVars, Attempts
    <3>2. cancelled'[a] \/ reply'[a] = ToolError
      BY <1>3, <3>1 DEF wireVars
    <3>3. ASSUME NEW c \in Calls, NEW n \in 1 .. current'[c] - 1
          PROVE  cancelled'[<<c, n>>] \/ reply'[<<c, n>>] = ToolError
      <4>1. n \in 1 .. current[c] - 1 \/ <<c, n>> = a
        BY <1>1, <3>1
      <4> QED
        BY <1>1, <1>3, <2>2, <3>2, <4>1 DEF wireVars, RetriesAreWarranted
    <3> QED
      BY <2>1, <3>3 DEF RetriesAreWarranted
  <2> QED
    BY <2>1, <2>3, <2>4
<1>4. ASSUME NEW a \in Attempts,
             Establish(a) \/ Refuse(a) \/ Send(a) \/ Receive(a) \/ Crash(a)
      PROVE  RepliesAreHeld' /\ RetriesAreWarranted'
  <2>1. UNCHANGED <<current, cancelled, reply>>
    BY <1>4 DEF Establish, Refuse, Send, Receive, Crash, serverVars, wireVars
  <2>2. RepliesAreHeld'
    <3>1. CASE Establish(a) \/ Crash(a) \/ Refuse(a)
      BY <3>1, WhatIsRetryable DEF Establish, Crash, Refuse, wireVars, RepliesAreHeld
    <3>2. CASE Receive(a)
      BY <3>2, WhatIsRetryable DEF Receive, wireVars, RepliesAreHeld
    <3>3. CASE Send(a)
      <4>1. reply[a] = Nothing
        BY <3>3 DEF Send, RepliesAreHeld
      <4> QED
        BY <3>3, <4>1 DEF Send, RepliesAreHeld
    <3> QED
      BY <1>4, <3>1, <3>2, <3>3
  <2> QED
    BY <2>1, <2>2 DEF RetriesAreWarranted
<1>5. ASSUME NEW a \in Attempts, EstablishFails(a) \/ CancelledWhileOpening(a)
                                   \/ LoseContact(a) \/ Close(a) \/ CloseFails(a)
                                   \/ CancelledInCall(a)
      PROVE  RepliesAreHeld' /\ RetriesAreWarranted'
  <2>1. CASE CancelledWhileOpening(a)
    <3>1. CASE UNCHANGED <<serverVars, phase, captured>>
      <4>1. \A b \in Attempts : cancelled[b] => cancelled'[b]
        BY <2>1 DEF CancelledWhileOpening
      <4> QED
        BY <1>1, <2>1, <3>1, <4>1
           DEF CancelledWhileOpening, AbortOpen, serverVars, wireVars, RepliesAreHeld,
               RetriesAreWarranted
    <3> QED
      BY <1>3, <2>1, <3>1 DEF CancelledWhileOpening, AbortOpen
  <2>2. CASE Close(a)
    <3>1. Retryable(captured[a]) => reply[a] = ToolError
      BY DEF RepliesAreHeld
    <3> QED
      BY <1>3, <2>2, <3>1 DEF Close
  <2>3. CASE CancelledInCall(a)
    BY <1>3, <2>3 DEF CancelledInCall
  <2> QED
    BY <1>2, <1>5, <2>1, <2>2, <2>3 DEF EstablishFails, LoseContact, CloseFails
<1>6. ASSUME NEW a \in Attempts, Wire(a)
      PROVE  RepliesAreHeld' /\ RetriesAreWarranted'
  <2>1. EngineCall(a)
    BY <1>2, <1>6 DEF Wire, LoseRequest
  <2>2. /\ request[a] = "inflight" /\ request' = [request EXCEPT ![a] = "handled"]
        /\ UNCHANGED <<phase, current, captured, cancelled>>
        /\ \A b \in Attempts \ {a} : reply'[b] = reply[b]
    BY <2>1 DEF EngineCall, serverVars, workerVars
  <2>3. reply[a] = Nothing
    BY <2>2 DEF RepliesAreHeld
  <2>4. \A b \in Attempts : reply[b] = ToolError => reply'[b] = ToolError
    BY <2>2, <2>3, WhatIsRetryable
  <2>5. RepliesAreHeld'
    <3>1. phase[a] \notin {"unstarted", "opening", "open"}
      BY <2>2 DEF RepliesAreHeld
    <3> QED
      BY <2>2, <2>4, <3>1 DEF RepliesAreHeld
  <2>6. RetriesAreWarranted'
    <3>1. ASSUME NEW c \in Calls, NEW n \in 1 .. current'[c] - 1
          PROVE  cancelled'[<<c, n>>] \/ reply'[<<c, n>>] = ToolError
      <4>1. cancelled[<<c, n>>] \/ reply[<<c, n>>] = ToolError
        BY <2>2, <3>1 DEF RetriesAreWarranted
      <4> QED
        BY <1>1, <2>2, <2>4, <3>1, <4>1
    <3>2. \A c \in Calls : \A n \in 1 .. current'[c] - 1 :
              cancelled'[<<c, n>>] \/ reply'[<<c, n>>] = ToolError
      BY <3>1, Zenon
    <3> QED
      BY <3>2, Zenon DEF RetriesAreWarranted
  <2> QED
    BY <2>5, <2>6
<1>7. ASSUME NEW c \in Calls, Server(c)
      PROVE  RepliesAreHeld' /\ RetriesAreWarranted'
  <2>1. Poll(c)
    BY <1>2, <1>7 DEF Server, StartToCloseTimeout
  <2>2. /\ status[c] = "queued"
        /\ phase' = [phase EXCEPT ![<<c, current[c]>>] = "opening"]
        /\ UNCHANGED <<current, reply, request, captured, cancelled>>
    BY <2>1 DEF Poll, wireVars
  <2>3. <<c, current[c]>> \in Attempts /\ phase[<<c, current[c]>>] = "unstarted"
    BY <1>1, <2>2 DEF AttemptsInOrder, CallsStartClean, Scheduled
  <2> QED
    BY <2>2, <2>3 DEF RepliesAreHeld, RetriesAreWarranted
<1>8. ASSUME NEW c \in Calls, NEW in \in Inputs, Schedule(c, in)
      PROVE  RepliesAreHeld' /\ RetriesAreWarranted'
  <2>1. \A k \in Calls : current'[k] = current[k] \/ current'[k] - 1 = 0
    BY <1>8 DEF Schedule
  <2> QED
    BY <1>1, <1>8, <2>1 DEF Schedule, wireVars, workerVars, RepliesAreHeld,
       RetriesAreWarranted
<1>9. CASE UNCHANGED vars
  BY <1>9 DEF vars, serverVars, wireVars, workerVars, RepliesAreHeld,
     RetriesAreWarranted
<1> QED
  BY <1>4, <1>5, <1>6, <1>7, <1>8, <1>9 DEF Next, Progress, Attempt

\* Only what may be retried has been, and an answer is the last attempt's.
RetriesInOrder ==
    AttemptsInOrder /\ AnswersAreTheLastAttempts /\ RepliesAreHeld /\ RetriesAreWarranted

LEMMA RetriesInOrderInit == Init => RetriesInOrder
<1> SUFFICES ASSUME Init PROVE RetriesInOrder
  OBVIOUS
<1>1. RepliesAreHeld
  BY WhatIsRetryable DEF Init, RepliesAreHeld
<1>2. \A c \in Calls : 1 .. current[c] - 1 = {}
  BY DEF Init
<1> QED
  BY <1>1, <1>2, AnswersInit DEF RetriesInOrder, RetriesAreWarranted

LEMMA RetriesInOrderStep ==
    ASSUME SessionsHold, IInv, RetriesInOrder, [Next]_vars
    PROVE  RetriesInOrder'
BY RetriesStep, AnswersStep DEF IInv, RetriesInOrder

\* Where sessions hold, no denial, refusal or malformed answer is ever tried
\* again, whatever the profile and whatever workers are shut down or die.
THEOREM OnlyPassingFailuresAreRetried ==
    SessionsHold => (Spec => []RetriesAreWarranted)
<1> SUFFICES ASSUME SessionsHold
             PROVE  Spec => []RetriesAreWarranted
  OBVIOUS
<1>1. IInv /\ RetriesInOrder /\ [Next]_vars => RetriesInOrder'
  BY RetriesInOrderStep
<1>2. RetriesInOrder => RetriesAreWarranted
  BY DEF RetriesInOrder
<1> QED
  BY <1>1, <1>2, RetriesInOrderInit, Invariance, PTL DEF Spec

=============================================================================
