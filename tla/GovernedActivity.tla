-------------------------- MODULE GovernedActivity --------------------------
(***************************************************************************)
(* AlgentaActivities: one contract tool called from a Temporal activity.   *)
(*                                                                         *)
(* A call is one execute_activity of a workflow.  The Temporal server runs *)
(* it as a series of attempts; every attempt opens an MCP session of its   *)
(* own (AlgentaMcpClient), sends at most one tool call to the engine,      *)
(* closes the session and reports.  Attempts are separate processes: one   *)
(* that the server has given up on may still be running, and its request   *)
(* may still be on its way to the engine, while the next one is at work.   *)
(***************************************************************************)
EXTENDS GovernedEngine, ToolContract

CONSTANTS
    Calls,              \* the activity calls workflows make
    Inputs,             \* the inputs a workflow may give a call
    Profile,            \* of each call, the tool profile of the worker it goes to;
                        \* a worker with an unknown one is never made
    MaxAttempts,        \* the retry policy's maximum_attempts
    BoundedRetry,       \* FALSE: the policy retries for ever, and only the
                        \* model stops failing at attempt MaxAttempts
    EstablishAttempts,  \* ESTABLISH_ATTEMPTS
    Faults,             \* the kinds of fault that may happen
    Fallible,           \* the calls they may happen to
    Breaches            \* the ways the server may break its contract

Attempts == Calls \X (1 .. MaxAttempts)

FaultKinds == {"stall", "loss", "close", "shutdown", "crash", "timeout"}

Input == [tool : ToolNames, decision : Decisions,
          force : BOOLEAN, override_safety : BOOLEAN]

ASSUME ActivityAssumption ==
    /\ Requesters = Attempts
    /\ Inputs \subseteq Input
    /\ Profile \in [Calls -> ToolProfiles]
    /\ MaxAttempts \in Nat \ {0}
    /\ EstablishAttempts \in Nat \ {0}
    /\ BoundedRetry \in BOOLEAN
    /\ Faults \subseteq FaultKinds
    /\ Fallible \subseteq Calls
    /\ Breaches \subseteq {"malformed", "unnamed"}

VARIABLES
    input,      \* the calls made so far, each with its input
    status,     \* what the Temporal server does with each call
    current,    \* the attempt the server counts for each call
    result,     \* the outcome the server recorded for a completed call
    phase,      \* where each attempt is in _call
    tries,      \* establishment attempts begun by each attempt
    request,    \* where each attempt's tool call is
    reply,      \* the engine's answer to it
    captured,   \* (error, payload) held while the session closes
    cancelled   \* attempts asked to stop by a worker shutdown

serverVars == <<input, status, current, result>>
wireVars == <<request, reply>>
workerVars == <<phase, tries, captured, cancelled>>
vars == <<engineVars, serverVars, wireVars, workerVars>>

-----------------------------------------------------------------------------
(* Outcomes                                                                *)

Nothing == Answer("nothing", "none")

UnnamedDenial == Answer("denial", "unnamed")

\* A result that is not an error and not the shape the tool promises.
Malformed == Answer("malformed", "none")

Replies == EngineAnswers \cup {UnnamedDenial, Malformed}

Fail(kind) == Answer(kind, "none")

\* Mutant: denials are raised without non_retryable.
RetryableKinds_Denial ==
    {"tool_error", "session_error", "raw_error", "shutdown", "timeout",
     "denial"}

\* Failures Temporal retries; every other outcome completes the call.
RetryableKinds ==
    {"tool_error", "session_error", "raw_error", "shutdown", "timeout"}

FinalFailures == {Fail("profile_denied"), Fail("unexpected_result")}

Outcomes == Receipts \cup Denials \cup {Payload, UnnamedDenial}
                \cup FinalFailures \cup {Fail(kind) : kind \in RetryableKinds}

Retryable(outcome) == outcome.kind \in RetryableKinds

\* What the activity makes of the engine's answer: an answer of the wrong
\* shape is a failure nobody retries, a denial is one too and keeps its gate,
\* any other error the tool reports may be retried.
MappedReply(answer) ==
    IF answer = Malformed THEN Fail("unexpected_result") ELSE answer

\* What a server may put in place of an answer when it breaks the contract: a
\* result of another shape, or a denial at a gate that has no name.
Rewordings(answer) ==
    {answer}
    \cup {w \in {Malformed} :
             "malformed" \in Breaches /\ answer.kind \in {"receipt", "payload"}}
    \cup {w \in {UnnamedDenial} :
             "unnamed" \in Breaches /\ answer.kind = "denial"}

Decision(a) == input[a[1]].decision

Forced(a) == input[a[1]].force

Allowed(a) == is_tool_allowed_for_profile(input[a[1]].tool, Profile[a[1]])

\* A fault of this kind may strike the attempt.
MayFail(kind, a) ==
    /\ kind \in Faults
    /\ a[1] \in Fallible
    /\ BoundedRetry \/ a[2] < MaxAttempts

NoInput == [tool |-> "none", decision |-> "none",
            force |-> FALSE, override_safety |-> FALSE]

-----------------------------------------------------------------------------
(* The Temporal server                                                     *)

Init ==
    /\ EngineInit
    /\ input = [c \in Calls |-> NoInput]
    /\ status = [c \in Calls |-> "unscheduled"]
    /\ current = [c \in Calls |-> 0]
    /\ result = [c \in Calls |-> Nothing]
    /\ phase = [a \in Attempts |-> "unstarted"]
    /\ tries = [a \in Attempts |-> 0]
    /\ request = [a \in Attempts |-> "unsent"]
    /\ reply = [a \in Attempts |-> Nothing]
    /\ captured = [a \in Attempts |-> Nothing]
    /\ cancelled = [a \in Attempts |-> FALSE]

\* A workflow calls execute_activity.
Schedule(c, in) ==
    /\ status[c] = "unscheduled"
    /\ input' = [input EXCEPT ![c] = in]
    /\ status' = [status EXCEPT ![c] = "queued"]
    /\ current' = [current EXCEPT ![c] = 1]
    /\ UNCHANGED <<engineVars, result, wireVars, workerVars>>

\* A worker takes the attempt from the task queue and enters _call.
Poll(c) ==
    LET a == <<c, current[c]>> IN
    /\ status[c] = "queued"
    /\ status' = [status EXCEPT ![c] = "running"]
    /\ phase' = [phase EXCEPT ![a] = "opening"]
    /\ tries' = [tries EXCEPT ![a] = 1]
    /\ UNCHANGED <<engineVars, input, current, result, wireVars,
                   captured, cancelled>>

\* The server records the outcome of the current attempt: the call completes,
\* or the next attempt is queued.
Record(c, outcome) ==
    \/ /\ ~Retryable(outcome) \/ current[c] = MaxAttempts
       /\ status' = [status EXCEPT ![c] = "completed"]
       /\ result' = [result EXCEPT ![c] = outcome]
       /\ UNCHANGED <<input, current>>
    \/ /\ Retryable(outcome) /\ current[c] < MaxAttempts
       /\ status' = [status EXCEPT ![c] = "queued"]
       /\ current' = [current EXCEPT ![c] = @ + 1]
       /\ UNCHANGED <<input, result>>

Current(a) == status[a[1]] = "running" /\ current[a[1]] = a[2]

\* The attempt ends and reports; a report from an attempt the server has
\* given up on changes nothing.
Report(a, outcome) ==
    /\ phase' = [phase EXCEPT ![a] = "gone"]
    /\ \/ Current(a) /\ Record(a[1], outcome)
       \/ ~Current(a) /\ UNCHANGED serverVars
    /\ captured' = [captured EXCEPT ![a] = Nothing]
    /\ UNCHANGED tries

\* start_to_close_timeout: the server gives up on the attempt, which may
\* still be running.
StartToCloseTimeout(c) ==
    /\ MayFail("timeout", <<c, current[c]>>)
    /\ status[c] = "running"
    /\ Record(c, Fail("timeout"))
    /\ UNCHANGED <<engineVars, wireVars, workerVars>>

-----------------------------------------------------------------------------
(* Opening the session: AlgentaMcpClient.__aenter__                        *)

Establish(a) ==
    /\ phase[a] = "opening"
    /\ phase' = [phase EXCEPT ![a] = "open"]
    /\ UNCHANGED <<engineVars, serverVars, wireVars, tries, captured, cancelled>>

\* Mutant: establishment is tried without end.
AbortOpen_NoBound(a, error) ==
    /\ phase[a] = "opening"
    /\ UNCHANGED <<serverVars, phase, tries, captured>>
    /\ UNCHANGED <<engineVars, wireVars>>

\* An establishment attempt fails or times out and is abandoned; the last
\* one's error leaves _call as it is.
AbortOpen(a, error) ==
    /\ phase[a] = "opening"
    /\ \/ /\ tries[a] < EstablishAttempts
          /\ tries' = [tries EXCEPT ![a] = @ + 1]
          /\ UNCHANGED <<serverVars, phase, captured>>
       \/ /\ tries[a] = EstablishAttempts
          /\ Report(a, error)
    /\ UNCHANGED <<engineVars, wireVars>>

EstablishFails(a) ==
    /\ MayFail("stall", a)
    /\ AbortOpen(a, Fail("raw_error"))
    /\ UNCHANGED cancelled

\* The worker shuts down while the session opens: the CancelledError is
\* caught like any other failure of an establishment attempt.
CancelledWhileOpening(a) ==
    /\ MayFail("shutdown", a)
    /\ ~cancelled[a]
    /\ AbortOpen(a, Fail("shutdown"))
    /\ cancelled' = [cancelled EXCEPT ![a] = TRUE]

-----------------------------------------------------------------------------
(* The call: AlgentaMcpClient.call_tool and the activity around it         *)

\* AlgentaToolDenied, raised once the session is open.
Refuse(a) ==
    /\ phase[a] = "open"
    /\ ~Allowed(a)
    /\ phase' = [phase EXCEPT ![a] = "closing"]
    /\ captured' = [captured EXCEPT ![a] = Fail("profile_denied")]
    /\ UNCHANGED <<engineVars, serverVars, wireVars, tries, cancelled>>

Send(a) ==
    /\ phase[a] = "open"
    /\ Allowed(a)
    /\ phase' = [phase EXCEPT ![a] = "awaiting"]
    /\ request' = [request EXCEPT ![a] = "inflight"]
    /\ UNCHANGED <<engineVars, serverVars, reply, tries, captured, cancelled>>

\* The engine runs the tool, whoever is still listening.
EngineCall(a) ==
    /\ request[a] = "inflight"
    /\ request' = [request EXCEPT ![a] = "handled"]
    /\ \E answer \in EngineAnswers :
          /\ call_tool(a, input[a[1]].tool, Decision(a), Forced(a),
                       input[a[1]].override_safety, answer)
          /\ \E worded \in Rewordings(answer) :
                reply' = [reply EXCEPT ![a] = worded]
    /\ UNCHANGED <<serverVars, workerVars>>

\* The connection breaks before the engine reads the request.
LoseRequest(a) ==
    /\ MayFail("loss", a)
    /\ request[a] = "inflight"
    /\ request' = [request EXCEPT ![a] = "lost"]
    /\ UNCHANGED <<engineVars, serverVars, reply, workerVars>>

Receive(a) ==
    /\ phase[a] = "awaiting"
    /\ request[a] = "handled"
    /\ phase' = [phase EXCEPT ![a] = "closing"]
    /\ captured' = [captured EXCEPT ![a] = MappedReply(reply[a])]
    /\ UNCHANGED <<engineVars, serverVars, wireVars, tries, cancelled>>

\* The read timeout of the session (McpError) or a transport error; the
\* answer is lost or late.
LoseContact(a) ==
    /\ MayFail("loss", a)
    /\ phase[a] = "awaiting"
    /\ phase' = [phase EXCEPT ![a] = "closing"]
    /\ \E kind \in {"session_error", "raw_error"} :
          captured' = [captured EXCEPT ![a] = Fail(kind)]
    /\ UNCHANGED <<engineVars, serverVars, wireVars, tries, cancelled>>

\* __aexit__, then the captured outcome leaves the activity.
Close(a) ==
    /\ phase[a] = "closing"
    /\ Report(a, captured[a])
    /\ UNCHANGED <<engineVars, wireVars, cancelled>>

\* Closing the session raises: its error takes the place of whatever the
\* call had captured, an answer or a denial.
CloseFails(a) ==
    /\ MayFail("close", a)
    /\ phase[a] = "closing"
    /\ Report(a, Fail("raw_error"))
    /\ UNCHANGED <<engineVars, wireVars, cancelled>>

\* The worker shuts down: CancelledError passes `except Exception`, and
\* Temporal reports the attempt as a failure to be retried elsewhere.
CancelledInCall(a) ==
    /\ MayFail("shutdown", a)
    /\ ~cancelled[a]
    /\ phase[a] \in {"open", "awaiting", "closing"}
    /\ Report(a, Fail("shutdown"))
    /\ cancelled' = [cancelled EXCEPT ![a] = TRUE]
    /\ UNCHANGED <<engineVars, wireVars>>

Active(a) == phase[a] \in {"opening", "open", "awaiting", "closing"}

\* The worker process dies: nothing is reported.
Crash(a) ==
    /\ MayFail("crash", a)
    /\ Active(a)
    /\ phase' = [phase EXCEPT ![a] = "gone"]
    /\ captured' = [captured EXCEPT ![a] = Nothing]
    /\ UNCHANGED <<engineVars, serverVars, wireVars, tries, cancelled>>

-----------------------------------------------------------------------------

Attempt(a) ==
    \/ Establish(a) \/ EstablishFails(a) \/ CancelledWhileOpening(a)
    \/ Refuse(a) \/ Send(a) \/ Receive(a) \/ LoseContact(a)
    \/ Close(a) \/ CloseFails(a) \/ CancelledInCall(a) \/ Crash(a)

Wire(a) == EngineCall(a) \/ LoseRequest(a)

Server(c) == Poll(c) \/ StartToCloseTimeout(c)

Progress ==
    \/ \E c \in Calls : Server(c)
    \/ \E a \in Attempts : Attempt(a) \/ Wire(a)

Next ==
    \/ \E c \in Calls, in \in Inputs : Schedule(c, in)
    \/ Progress

Spec == Init /\ [][Next]_vars

\* What a live worker does by itself: it polls, the 15 s of an establishment
\* attempt and the read timeout of a request expire, and closing a session
\* returns or raises.  No session has to open and no engine to answer, and
\* start_to_close_timeout is not relied upon.
WorkerFairness ==
    /\ \A c \in Calls : WF_vars(Poll(c))
    /\ \A a \in Attempts :
          /\ WF_vars(EstablishFails(a))
          /\ WF_vars(Refuse(a) \/ Send(a))
          /\ WF_vars(LoseContact(a))
          /\ WF_vars(Close(a) \/ CloseFails(a))

FairSpec == Spec /\ WorkerFairness

\* A healthy deployment: queues are polled and deadlines expire, workers,
\* sessions and the engine make progress, and the session's read timeout
\* expires.  No fault is ever forced to stop.
HealthyFairness ==
    /\ \A c \in Calls : WF_vars(Poll(c)) /\ WF_vars(StartToCloseTimeout(c))
    /\ \A a \in Attempts :
          /\ WF_vars(Establish(a))
          /\ WF_vars(Refuse(a) \/ Send(a))
          /\ WF_vars(EngineCall(a))
          /\ WF_vars(Receive(a))
          /\ WF_vars(LoseContact(a))
          /\ WF_vars(Close(a))

-----------------------------------------------------------------------------
(* What must hold                                                          *)

\* Every variable keeps to the values the code can give it.
TypeOK ==
    /\ EngineTypeOK
    /\ input \in [Calls -> Inputs \cup {NoInput}]
    /\ status \in [Calls -> {"unscheduled", "queued", "running", "completed"}]
    /\ current \in [Calls -> 0 .. MaxAttempts]
    /\ result \in [Calls -> Outcomes \cup {Nothing}]
    /\ phase \in [Attempts -> {"unstarted", "opening", "open", "awaiting",
                                "closing", "gone"}]
    /\ tries \in [Attempts -> 0 .. EstablishAttempts]
    /\ request \in [Attempts -> {"unsent", "inflight", "handled", "lost"}]
    /\ reply \in [Attempts -> Replies \cup {Nothing}]
    /\ captured \in [Attempts -> Outcomes \cup {Nothing}]
    /\ cancelled \in [Attempts -> BOOLEAN]

\* However calls, retries and attempts the server has given up on interleave,
\* one decision's webhook gets at most one request that was not forced: what
\* idempotent_activity_receipt_dedup.py calls an exactly-once effect.
AtMostOneUnforced ==
    \A x, y \in dispatches :
        x.decision = y.decision /\ x # y => x.forced \/ y.forced

Completed(c) == status[c] = "completed"

SentBy(c) == {x \in dispatches : x.by[1] = c}

SentFor(d) == {x \in dispatches : x.decision = d}

\* A receipt a workflow holds is the receipt of a webhook request one of its
\* own attempts caused, with the status that decision's target gave; no
\* receipt is ever owed to another call, to a stale report or to a retry that
\* sent nothing.
ReceiptIsBacked ==
    \A c \in Calls :
        Completed(c) /\ result[c].kind = "receipt" =>
            /\ \E x \in SentBy(c) : x.decision = input[c].decision
            /\ (result[c].detail = "failed") =
                    (input[c].decision \in RejectingWebhook)

\* The idempotency denial is proof that the webhook request went out, be it
\* through an attempt of the same call whose report was lost.
IdempotencyDenialIsBacked ==
    \A c \in Calls :
        Completed(c) /\ result[c] = Answer("denial", "idempotency") =>
            SentFor(input[c].decision) # {}

\* The outcomes that promise the workflow that nothing was done: a policy
\* denial of the call's own merits, and the profile's refusal.
Refusals == {Answer("denial", "confidence"), Answer("denial", "risk_floor"),
             Fail("profile_denied")}

\* A call that completes with a refusal never caused a webhook request, in
\* any of its attempts: repeating it under an operator's override, as
\* human_approval_workflow.py does, cannot execute it a second time.
RefusalMeansNothingSent ==
    \A c \in Calls :
        Completed(c) /\ result[c] \in Refusals => SentBy(c) = {}

\* Outcomes after which the workflow knows what became of its decision.
Verdicts == Receipts \cup Denials \cup {Fail("profile_denied")}

Settled(c) == Completed(c) /\ result[c] \in Verdicts

\* Once a call that did not ask for force is settled, none of its attempts
\* still running, and none of its requests still on the wire, can execute
\* anything.
VerdictIsFinal ==
    [][\A c \in Calls :
          Settled(c) /\ ~input[c].force => SentBy(c)' = SentBy(c)]_vars

\* A worker whose profile stops short of executing has no effect on the world,
\* and one that only observes none on decision memory either, whatever its
\* workflows ask for and whatever retries and shutdowns happen on the way.
ProfileIsEnforced ==
    /\ \A x \in dispatches : Profile[x.by[1]] \notin {"observe", "govern"}
    /\ \A r \in logged : Profile[r.by[1]] # "observe"

\* Where sessions hold, a call is tried again only for a failure that can pass:
\* the attempt before was cancelled, or the engine had answered it with an
\* error that is no denial.  A denial, the profile's refusal and an answer of
\* the wrong shape are never retried.
RetriesAreWarranted ==
    \A c \in Calls : \A n \in 1 .. current[c] - 1 :
        cancelled[<<c, n>>] \/ reply[<<c, n>>] = ToolError

\* The attempt the server waits for is on a worker that has died.
Orphaned(c) == status[c] = "running" /\ phase[<<c, current[c]>>] = "gone"

\* A live worker answers for its attempts: a transport that hangs in its setup
\* every time, a shutdown swallowed meanwhile, an answer that never comes, or a
\* close that raises, does not keep _call from coming to an end.  So a call
\* completes without start_to_close_timeout, or its worker has died.
LiveWorkersAnswer ==
    \A c \in Calls :
        status[c] = "queued" ~> status[c] = "completed" \/ Orphaned(c)

-----------------------------------------------------------------------------
(* What it all amounts to                                                  *)

\* GovernedActivity implements ExecutionPromise: whatever sessions, retries
\* and workers do, a workflow sees calls that have their effect at most once
\* and outcomes that tell the truth about it.
Promise == INSTANCE ExecutionPromise WITH
    Effects  <- Dispatch,
    NotAsked <- NoInput,
    Pending  <- Nothing,
    asked    <- input,
    effects  <- dispatches,
    outcome  <- result

KeepsThePromise == Promise!Spec

-----------------------------------------------------------------------------
(* What the documentation says and the code does not do                    *)

\* activities.py: the call "leaves cancellation untouched, as Temporal's
\* activity cancellation requires", so an attempt told to stop does not go on
\* to call the engine.  AlgentaMcpClient.__aenter__ catches BaseException and
\* opens another session.
CancellationStopsTheCall ==
    \A a \in Attempts : cancelled[a] => phase[a] # "awaiting"

\* activities.py: "a profile violation surfaces as an explicit, typed,
\* non-retryable refusal".  The profile is looked at after the session is
\* open, so with the engine out of reach it surfaces as a transport failure.
ProfileViolationIsARefusal ==
    \A c \in Calls :
        Completed(c) /\ ~is_tool_allowed_for_profile(input[c].tool, Profile[c]) =>
            result[c] = Fail("profile_denied")

=============================================================================
