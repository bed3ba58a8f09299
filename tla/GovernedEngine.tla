--------------------------- MODULE GovernedEngine ---------------------------
(***************************************************************************)
(* The engine behind the MCP endpoint, as recipes/demo_engine.py builds    *)
(* it: decision memory, the three policy gates of execute_decision, and    *)
(* the webhook requests that leave it.  A tool runs to its end on the      *)
(* serving event loop, so one tool call is one step.                       *)
(*                                                                         *)
(* "By" names the request a call belongs to; it is used only to record     *)
(* which request sent which webhook.                                       *)
(***************************************************************************)
EXTENDS Naturals

CONSTANTS
    Decisions,          \* decision ids
    Requesters,         \* identities of the requests the engine receives
    LowConfidence,      \* decisions the confidence gate stops
    BelowRiskFloor,     \* decisions the risk floor gate stops
    RejectingWebhook,   \* decisions whose webhook target answers 503
    FlakyFailures       \* how many queries fail before the engine recovers

ASSUME EngineAssumption ==
    /\ LowConfidence \subseteq Decisions
    /\ BelowRiskFloor \subseteq Decisions
    /\ RejectingWebhook \subseteq Decisions
    /\ FlakyFailures \in Nat

VARIABLES
    logged,         \* the records of decision memory, each with its requester
    delivered,      \* the engine's delivered_decision_ids
    dispatches,     \* the webhook requests sent, each with its requester
    queryAttempts   \* queries answered so far, counted up to FlakyFailures

engineVars == <<logged, delivered, dispatches, queryAttempts>>

-----------------------------------------------------------------------------

Gates == {"idempotency", "confidence", "risk_floor"}

\* Every result or failure a tool call can show its caller, in one shape:
\* detail is the execution status of a receipt and the gate of a denial.
Answer(kind, detail) == [kind |-> kind, detail |-> detail, overridden |-> FALSE]

Receipt(status, overridden) ==
    [kind |-> "receipt", detail |-> status, overridden |-> overridden]

Receipts ==
    [kind : {"receipt"}, detail : {"delivered", "failed"}, overridden : BOOLEAN]

Denials == {Answer("denial", gate) : gate \in Gates}

Payload == Answer("payload", "none")

ToolError == Answer("tool_error", "none")

EngineAnswers == Receipts \cup Denials \cup {Payload, ToolError}

Dispatch == [by : Requesters, decision : Decisions, forced : BOOLEAN]

LoggedRecord == [by : Requesters, decision : Decisions]

StatelessTools == {"get_contract", "simulate", "recommend", "plan_decision"}

\* Mutant: the idempotency gate is missing.
StoppedAt_NoIdempotency(d, force, override_safety) ==
    CASE d \in LowConfidence /\ ~override_safety   -> "confidence"
      [] d \in BelowRiskFloor /\ ~override_safety  -> "risk_floor"
      [] OTHER                                     -> "clear"

\* The first gate, in the engine's order, that stops the call; "clear" if
\* none does.
StoppedAt(d, force, override_safety) ==
    CASE d \in delivered /\ ~force                 -> "idempotency"
      [] d \in LowConfidence /\ ~override_safety   -> "confidence"
      [] d \in BelowRiskFloor /\ ~override_safety  -> "risk_floor"
      [] OTHER                                     -> "clear"

\* Mutant: the status of the webhook's answer is ignored.
DeliveryReceipt_AlwaysDelivered(d, override_safety) ==
    Receipt("delivered", override_safety)

DeliveryReceipt(d, override_safety) ==
    IF d \in RejectingWebhook THEN Receipt("failed", FALSE)
                              ELSE Receipt("delivered", override_safety)

-----------------------------------------------------------------------------

EngineInit ==
    /\ logged = {}
    /\ delivered = {}
    /\ dispatches = {}
    /\ queryAttempts = 0

\* Mutant: the decision is marked as delivered before the gates are looked at.
Stopped_MarksFirst(d, force, override_safety, gate) ==
    /\ gate = StoppedAt(d, force, override_safety)
    /\ gate # "clear"
    /\ delivered' = delivered \cup {d}
    /\ UNCHANGED <<logged, dispatches, queryAttempts>>

Stopped(d, force, override_safety, gate) ==
    /\ gate = StoppedAt(d, force, override_safety)
    /\ gate # "clear"
    /\ UNCHANGED engineVars

\* Mutant: nothing marks the decision as delivered.
Cleared_NotMarked(by, d, force, override_safety) ==
    /\ StoppedAt(d, force, override_safety) = "clear"
    /\ dispatches' = dispatches \cup
           {[by |-> by, decision |-> d, forced |-> force]}
    /\ UNCHANGED <<logged, delivered, queryAttempts>>

\* The decision counts as delivered before anyone knows what its webhook
\* answered.
Cleared(by, d, force, override_safety) ==
    /\ StoppedAt(d, force, override_safety) = "clear"
    /\ delivered' = delivered \cup {d}
    /\ dispatches' = dispatches \cup
           {[by |-> by, decision |-> d, forced |-> force]}
    /\ UNCHANGED <<logged, queryAttempts>>

\* Mutant: the webhook request goes out before the policy gates are asked.
execute_decision_SendsFirst(by, d, force, override_safety, answer) ==
    /\ dispatches' = dispatches \cup
           {[by |-> by, decision |-> d, forced |-> force]}
    /\ UNCHANGED <<logged, delivered, queryAttempts>>
    /\ \/ /\ StoppedAt(d, force, override_safety) = "clear"
          /\ answer = DeliveryReceipt(d, override_safety)
       \/ \E gate \in Gates :
             /\ StoppedAt(d, force, override_safety) = gate
             /\ answer = Answer("denial", gate)

\* execute_decision, with the answer it gives.
execute_decision(by, d, force, override_safety, answer) ==
    \/ \E gate \in Gates :
          /\ Stopped(d, force, override_safety, gate)
          /\ answer = Answer("denial", gate)
    \/ /\ Cleared(by, d, force, override_safety)
       /\ answer = DeliveryReceipt(d, override_safety)

\* Nothing dedups a record: a second call for one decision writes a second
\* record with the same decision id.
log_decision(by, d, answer) ==
    /\ logged' = logged \cup {[by |-> by, decision |-> d]}
    /\ answer = Payload
    /\ UNCHANGED <<delivered, dispatches, queryAttempts>>

\* The flaky dataset: its first queries fail with an error that is no denial.
query_data(answer) ==
    /\ \/ /\ queryAttempts < FlakyFailures
          /\ queryAttempts' = queryAttempts + 1
          /\ answer = ToolError
       \/ /\ queryAttempts = FlakyFailures
          /\ queryAttempts' = queryAttempts
          /\ answer = Payload
    /\ UNCHANGED <<logged, delivered, dispatches>>

stateless_tool(answer) ==
    /\ answer = Payload
    /\ UNCHANGED engineVars

call_tool(by, tool, d, force, override_safety, answer) ==
    \/ /\ tool = "execute_decision"
       /\ execute_decision(by, d, force, override_safety, answer)
    \/ tool = "log_decision" /\ log_decision(by, d, answer)
    \/ tool = "query_data" /\ query_data(answer)
    \/ tool \in StatelessTools /\ stateless_tool(answer)

-----------------------------------------------------------------------------

\* The attributes of the engine keep to their types.
EngineTypeOK ==
    /\ logged \subseteq LoggedRecord
    /\ delivered \subseteq Decisions
    /\ dispatches \subseteq Dispatch
    /\ queryAttempts \in 0 .. FlakyFailures

=============================================================================
