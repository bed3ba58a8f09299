------------------------------ MODULE N8nNode ------------------------------
(***************************************************************************)
(* The Algenta node of n8n: one execution connects, goes through its input *)
(* items in order, calls the engine for each, and returns one output for   *)
(* each item; the first error ends it, unless the node is set to continue  *)
(* on fail.  n8n (external) may run the node again for the same input when *)
(* it failed or when the process died.                                     *)
(***************************************************************************)
EXTENDS ToolWire, GovernedEngine, Sequences, FiniteSets

CONSTANTS
    Inputs,     \* sequences of [operation, decision, profile, arguments]
    MaxTries    \* executions of the node for one input

InputLength == {Len(input) : input \in Inputs}

InputItem ==
    [operation : ToolNames, decision : Decisions,
     profile : ToolProfiles \cup {"unknown"}, arguments : {"object", "malformed"}]

ASSUME NodeAssumption ==
    /\ MaxTries \in Nat \ {0}
    /\ Inputs \subseteq Seq(InputItem)
    /\ Requesters = (1 .. MaxTries) \X UNION {1 .. n : n \in InputLength}

VARIABLES
    items,          \* the input, the same for every try
    continueOnFail,
    try,            \* which execution of the node this is
    phase,          \* "connecting", "looping", "succeeded", "failed", "crashed"
    connected,
    itemIndex,
    calling,        \* the loop waits for the engine's answer to this item
    returnData,     \* what the loop has put out so far
    error,          \* what the execution threw, "none" if nothing
    inflight,       \* requests on their way to the engine
    answers         \* answers on their way to the waiting loop

nodeVars == <<items, continueOnFail, try, phase, connected, itemIndex, calling,
              returnData, error, inflight, answers>>
vars == <<engineVars, nodeVars>>

JSON_ARGS_OPERATIONS ==
    {"query_data", "simulate", "recommend", "plan_decision", "log_decision"}

Item == items[itemIndex]

By == <<try, itemIndex>>

-----------------------------------------------------------------------------

\* A profile the node does not know counts as "observe".
EffectiveProfile(item) ==
    IF item.profile \in ToolProfiles THEN item.profile ELSE "observe"

\* The operation counts as advertised: the engine is not asked what it has.
isToolAllowedForProfile(item) ==
    item.operation \in
        resolve_profile_tool_names(EffectiveProfile(item), {item.operation})

\* Arguments that are no JSON object are an error, and no other operation has
\* any.
buildArgs_throws(item) ==
    item.operation \in JSON_ARGS_OPERATIONS /\ item.arguments = "malformed"

\* callTool throws on isError, with the text as the error's detail.
callTool_throws(result) == result.isError

safeJsonParse(result) == JsonOf(result)

parseExecutionBlockedBody(body) == body.kind = "denial"

parseExecutionReceipt(body) == body.kind = "receipt"

\* One item's answer: a receipt, another result, a named gate, or an error.
Report(item, result) ==
    LET governed == item.operation = "execute_decision"
    IN  CASE callTool_throws(result) ->
                IF governed /\ parseExecutionBlockedBody(safeJsonParse(result))
                THEN Denied(result.body) ELSE Failed
          [] ~callTool_throws(result) ->
                IF governed /\ parseExecutionReceipt(result.body)
                THEN Typed(result.body) ELSE Raw(result)

-----------------------------------------------------------------------------

Init ==
    /\ EngineInit
    /\ items \in Inputs
    /\ continueOnFail \in BOOLEAN
    /\ try = 1
    /\ phase = "connecting"
    /\ connected = FALSE
    /\ itemIndex = 1
    /\ calling = FALSE
    /\ returnData = <<>>
    /\ error = "none"
    /\ inflight = {}
    /\ answers = {}

connectAlgentaMcp ==
    /\ phase = "connecting"
    /\ phase' = "looping"
    /\ connected' = TRUE
    /\ UNCHANGED <<engineVars, items, continueOnFail, try, itemIndex, calling,
                   returnData, error, inflight, answers>>

\* The connection is made before any item is looked at, and outside the try.
ConnectFails ==
    /\ phase = "connecting"
    /\ phase' = "failed"
    /\ error' = "transport"
    /\ UNCHANGED <<engineVars, items, continueOnFail, try, connected, itemIndex,
                   calling, returnData, inflight, answers>>

InLoop == phase = "looping" /\ itemIndex <= Len(items)

PutOut(outcome) ==
    /\ returnData' = Append(returnData, [item |-> itemIndex, outcome |-> outcome])
    /\ itemIndex' = itemIndex + 1
    /\ UNCHANGED <<phase, connected, error>>

\* The connection is closed on the way out, and what closing it throws takes
\* the place of what was thrown.
Stops(reason) ==
    /\ phase' = "failed"
    /\ error' \in {reason, "close_failed"}
    /\ connected' = FALSE
    /\ UNCHANGED <<returnData, itemIndex>>

\* Mutant: the error is swallowed without an output for its item.
Fails_Skips(outcome, reason) ==
    \/ /\ continueOnFail
       /\ itemIndex' = itemIndex + 1
       /\ UNCHANGED <<returnData, phase, connected, error>>
    \/ ~continueOnFail /\ Stops(reason)

\* The catch of the loop: an output for the item, or the end of the whole
\* execution, whose earlier outputs are then dropped.
Fails(outcome, reason) ==
    \/ continueOnFail /\ PutOut(outcome)
    \/ ~continueOnFail /\ Stops(reason)

ItemRefused ==
    /\ InLoop /\ ~calling
    /\ ~isToolAllowedForProfile(Item)
    /\ Fails(Refused, "not_allowed")
    /\ UNCHANGED <<engineVars, items, continueOnFail, try, calling, inflight, answers>>

ItemMalformed ==
    /\ InLoop /\ ~calling
    /\ isToolAllowedForProfile(Item)
    /\ buildArgs_throws(Item)
    /\ Fails(Failed, "bad_arguments")
    /\ UNCHANGED <<engineVars, items, continueOnFail, try, calling, inflight, answers>>

callTool ==
    /\ InLoop /\ ~calling
    /\ isToolAllowedForProfile(Item)
    /\ ~buildArgs_throws(Item)
    /\ calling' = TRUE
    /\ inflight' = inflight \cup {[by |-> By, item |-> Item]}
    /\ UNCHANGED <<engineVars, items, continueOnFail, try, phase, connected,
                   itemIndex, returnData, error, answers>>

\* Mutant: whatever answer arrives is taken for the awaited one.
EngineExecutes_AnyAnswer(r, answer) ==
    /\ r \in inflight
    /\ call_tool(r.by, r.item.operation, r.item.decision, FALSE, FALSE, answer)
    /\ inflight' = inflight \ {r}
    /\ answers' = IF calling THEN {answer} ELSE answers
    /\ UNCHANGED <<items, continueOnFail, try, phase, connected, itemIndex,
                   calling, returnData, error>>

\* The node never sends force or override_safety.  Nobody hears the answer
\* to a request the loop no longer waits for.
EngineExecutes(r, answer) ==
    /\ r \in inflight
    /\ call_tool(r.by, r.item.operation, r.item.decision, FALSE, FALSE, answer)
    /\ inflight' = inflight \ {r}
    /\ answers' = IF calling /\ r.by = By THEN {answer} ELSE answers
    /\ UNCHANGED <<items, continueOnFail, try, phase, connected, itemIndex,
                   calling, returnData, error>>

ItemAnswered(answer) ==
    /\ InLoop /\ calling
    /\ answer \in answers
    /\ LET told == Report(Item, CallToolResult(answer, "error_json", "number"))
       IN  \/ told.kind \in {"receipt", "raw"} /\ PutOut(told)
           \/ told.kind = "denied" /\ Fails(told, "blocked")
           \/ told.kind = "failed" /\ Fails(told, "tool_error")
    /\ calling' = FALSE
    /\ answers' = {}
    /\ UNCHANGED <<engineVars, items, continueOnFail, try, inflight>>

\* Mutant: nothing ends a wait but an answer.
ItemTimesOut_WithAnswer ==
    /\ InLoop /\ calling
    /\ answers # {}
    /\ Fails(Failed, "transport")
    /\ calling' = FALSE
    /\ answers' = {}
    /\ UNCHANGED <<engineVars, items, continueOnFail, try, inflight>>

\* The request times out in the SDK, or the connection breaks; the engine may
\* still get to it.
ItemTimesOut ==
    /\ InLoop /\ calling
    /\ Fails(Failed, "transport")
    /\ calling' = FALSE
    /\ answers' = {}
    /\ UNCHANGED <<engineVars, items, continueOnFail, try, inflight>>

RequestLost(r) ==
    /\ r \in inflight
    /\ inflight' = inflight \ {r}
    /\ UNCHANGED <<engineVars, items, continueOnFail, try, phase, connected,
                   itemIndex, calling, returnData, error, answers>>

LoopDone == phase = "looping" /\ itemIndex > Len(items)

Returns ==
    /\ LoopDone
    /\ phase' = "succeeded"
    /\ connected' = FALSE
    /\ UNCHANGED <<engineVars, items, continueOnFail, try, itemIndex, calling,
                   returnData, error, inflight, answers>>

\* Every item has its output, and closing the connection throws: nothing is
\* returned, whatever continueOnFail says.
CloseFails ==
    /\ LoopDone
    /\ phase' = "failed"
    /\ error' = "close_failed"
    /\ connected' = FALSE
    /\ UNCHANGED <<engineVars, items, continueOnFail, try, itemIndex, calling,
                   returnData, inflight, answers>>

\* The n8n process dies while the node runs.
Crash ==
    /\ phase = "looping"
    /\ phase' = "crashed"
    /\ connected' = FALSE
    /\ calling' = FALSE
    /\ answers' = {}
    /\ UNCHANGED <<engineVars, items, continueOnFail, try, itemIndex, returnData,
                   error, inflight>>

\* Nothing of an earlier execution is kept.
RunAgain ==
    /\ phase \in {"failed", "crashed"}
    /\ try < MaxTries
    /\ try' = try + 1
    /\ phase' = "connecting"
    /\ itemIndex' = 1
    /\ returnData' = <<>>
    /\ error' = "none"
    /\ UNCHANGED <<engineVars, items, continueOnFail, connected, calling,
                   inflight, answers>>

NodeStep ==
    \/ connectAlgentaMcp \/ ItemRefused \/ ItemMalformed \/ callTool
    \/ \E answer \in answers : ItemAnswered(answer)
    \/ ItemTimesOut \/ Returns

Next ==
    \/ NodeStep
    \/ ConnectFails \/ CloseFails \/ Crash \/ RunAgain
    \/ \E r \in inflight, answer \in EngineAnswers : EngineExecutes(r, answer)
    \/ \E r \in inflight : RequestLost(r)

Spec == Init /\ [][Next]_vars

\* JavaScript's event loop runs what can run, and the SDK's timer ends a wait
\* no answer ends.
FairSpec == Spec /\ WF_vars(NodeStep)

-----------------------------------------------------------------------------

Ended == {"succeeded", "failed", "crashed"}

\* Types of the state; a loop that has ended waits for nothing and has no
\* connection open.
NTypeOK ==
    /\ EngineTypeOK
    /\ phase \in {"connecting", "looping"} \cup Ended
    /\ connected = (phase = "looping")
    /\ calling => InLoop
    /\ answers \subseteq EngineAnswers /\ (answers # {} => calling)
    /\ \A r \in inflight : r.by \in Requesters /\ r.item = items[r.by[2]]

\* Each output is the one of its own item, in the order of the items, and a
\* successful execution has one for every item.
OutputsPairWithItems ==
    /\ \A k \in DOMAIN returnData : returnData[k].item = k
    /\ phase = "succeeded" => Len(returnData) = Len(items)

\* A receipt that is put out is the receipt of a webhook request this very
\* execution of the node had sent for that item, not of an earlier one.
ReceiptIsOfThisTry ==
    \A k \in DOMAIN returnData :
        returnData[k].outcome.kind = "receipt" =>
            \E x \in dispatches : /\ x.by = <<try, k>>
                                  /\ x.decision = items[k].decision

\* An operation the profile does not allow is refused, whatever the network
\* does.
RefusalNeedsNoNetwork ==
    phase = "failed" /\ ~isToolAllowedForProfile(items[1]) => error = "not_allowed"

\* An execution that has connected ends.
NodeEnds == (phase = "looping") ~> (phase # "looping")

=============================================================================
