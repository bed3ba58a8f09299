----------------------------- MODULE NodeProofs -----------------------------
(***************************************************************************)
(* What TLAPS proves of N8nNode, for inputs of any length, any number of   *)
(* executions of the node and any engine.                                  *)
(***************************************************************************)
EXTENDS N8nNode, SequenceTheorems, TLAPS

-----------------------------------------------------------------------------
(* The inductive invariant                                                 *)

\* This execution of the node sent item k's webhook request.
SentFor(k) ==
    \E x \in dispatches : x.by = <<try, k>> /\ x.decision = items[k].decision

Output == [item : Nat, outcome : Outcomes]

\* The loop has put out one output for each item it has left behind, and stops
\* for good behind the last one.
LoopKeepsStep ==
    /\ items \in Inputs
    /\ try \in 1 .. MaxTries
    /\ itemIndex \in 1 .. Len(items) + 1
    /\ returnData \in Seq(Output)
    /\ Len(returnData) = itemIndex - 1
    /\ \A k \in 1 .. Len(returnData) : returnData[k].item = k
    /\ phase = "succeeded" => itemIndex = Len(items) + 1

\* A request on its way is for an item of the input.
RequestsAreOfItems == \A r \in inflight : r.by[2] \in 1 .. Len(items)

\* A receipt, put out or on its way to the loop, is of a webhook request this
\* execution sent.
ReceiptsWereSent ==
    /\ \A k \in 1 .. Len(returnData) :
          returnData[k].outcome.kind = "receipt" => SentFor(k)
    /\ \A answer \in answers : answer.kind = "receipt" => SentFor(itemIndex)

\* No two webhook requests are for one decision, whichever executions of the
\* node sent them.
OneRequestPerDecision ==
    \A x, y \in dispatches : x.decision = y.decision => x = y

\* What was sent counts as delivered, so that the gate stops the next request.
SentIsDelivered == \A x \in dispatches : x.decision \in delivered

NInv ==
    /\ NTypeOK
    /\ LoopKeepsStep
    /\ RequestsAreOfItems
    /\ ReceiptsWereSent
    /\ OneRequestPerDecision
    /\ SentIsDelivered

-----------------------------------------------------------------------------
(* Items, answers and outputs                                              *)

\* The item the loop is at is an item, and its request one the engine knows.
LEMMA ItemAtHand ==
    ASSUME LoopKeepsStep
    PROVE  /\ items \in Seq(InputItem) /\ Len(items) \in Nat
           /\ \A k \in 1 .. Len(items) :
                 items[k] \in InputItem /\ <<try, k>> \in Requesters
           /\ InLoop => itemIndex \in 1 .. Len(items)
<1>1. items \in Seq(InputItem) /\ Len(items) \in Nat
  BY NodeAssumption, LenProperties DEF LoopKeepsStep
<1>2. ASSUME NEW k \in 1 .. Len(items)
      PROVE  items[k] \in InputItem /\ <<try, k>> \in Requesters
  <2>1. items[k] \in InputItem
    BY <1>1, ElementOfSeq
  <2>2. Len(items) \in InputLength
    BY DEF LoopKeepsStep, InputLength
  <2>3. k \in UNION {1 .. n : n \in InputLength}
    BY <2>2
  <2> QED
    BY <2>1, <2>3, NodeAssumption DEF LoopKeepsStep
<1>3. InLoop => itemIndex \in 1 .. Len(items)
  BY <1>1 DEF InLoop, LoopKeepsStep
<1> QED
  BY <1>1, <1>2, <1>3

\* What the loop makes of an answer is an outcome, and a receipt only if the
\* engine gave one.
LEMMA ReportIsAnOutcome ==
    ASSUME NEW item, NEW answer \in EngineAnswers
    PROVE  LET told == Report(item, CallToolResult(answer, "error_json", "number"))
           IN  /\ told \in Outcomes
               /\ told.kind = "receipt" => answer.kind = "receipt"
<1> DEFINE result == CallToolResult(answer, "error_json", "number")
           told == Report(item, result)
<1>1. result.body = answer /\ result.isError \in BOOLEAN
  BY DEF CallToolResult
<1>2. /\ answer.detail \in {"delivered", "failed", "idempotency", "confidence",
                           "risk_floor", "none"}
      /\ answer.overridden \in BOOLEAN
  <2>1. CASE answer \in Receipts
    BY <2>1 DEF Receipts
  <2>2. CASE answer \in Denials \cup {Payload, ToolError}
    <3>1. PICK kind \in {"denial", "payload", "tool_error"},
               detail \in Gates \cup {"none"} : answer = Answer(kind, detail)
      BY <2>2 DEF Denials, Payload, ToolError
    <3>2. answer.detail = detail /\ answer.overridden = FALSE
      BY <3>1 DEF Answer
    <3> QED
      BY <3>1, <3>2 DEF Gates
  <2> QED
    BY <2>1, <2>2 DEF EngineAnswers
<1>3. \/ told = Denied(answer)
      \/ told = Failed
      \/ told = Typed(answer) /\ answer.kind = "receipt"
      \/ told = Raw(result)
  BY <1>1 DEF Report, callTool_throws, parseExecutionReceipt
<1>4. told \in Outcomes
  <2>1. \A detail \in {"delivered", "failed", "idempotency", "confidence",
                      "risk_floor", "none"}, overridden \in BOOLEAN :
           \A kind \in {"raw", "receipt", "denied", "failed", "refused"} :
              Body(kind, detail, overridden) \in Outcomes
    BY DEF Body, Outcomes
  <2>2. Denied(answer) \in Outcomes /\ Failed \in Outcomes
    BY <1>2, <2>1 DEF Denied, Failed
  <2>3. Typed(answer) \in Outcomes /\ Raw(result) \in Outcomes
    BY <1>1, <1>2, <2>1 DEF Typed, Raw
  <2> QED
    BY <1>3, <2>2, <2>3
<1>5. told.kind = "receipt" => answer.kind = "receipt"
  BY <1>3 DEF Denied, Failed, Raw, Body
<1> QED
  BY <1>4, <1>5

-----------------------------------------------------------------------------
(* The invariant is inductive                                              *)

LEMMA NodeInit == Init => NInv
<1> SUFFICES ASSUME Init PROVE NInv
  OBVIOUS
<1>1. LoopKeepsStep
  <2>1. Len(items) \in Nat
    BY NodeAssumption, LenProperties DEF Init
  <2>2. <<>> \in Seq(Output) /\ Len(<<>>) = 0
    OBVIOUS
  <2> QED
    BY <2>1, <2>2, NodeAssumption DEF Init, LoopKeepsStep
<1>2. NTypeOK
  <2>1. EngineTypeOK
    BY EngineAssumption DEF Init, EngineInit, EngineTypeOK
  <2> QED
    BY <2>1 DEF Init, NTypeOK
<1> QED
  BY <1>1, <1>2 DEF Init, EngineInit, NInv, ReceiptsWereSent, LoopKeepsStep,
     RequestsAreOfItems, OneRequestPerDecision, SentIsDelivered

\* A step that leaves the loop where it is keeps what holds of the loop.
LEMMA StandingLoop ==
    ASSUME NInv,
           UNCHANGED <<items, try, itemIndex, returnData>>,
           dispatches \subseteq dispatches',
           phase' = "succeeded" => phase = "succeeded" \/ LoopDone,
           \A answer \in answers' \ answers : answer.kind = "receipt" => SentFor(itemIndex)'
    PROVE  LoopKeepsStep' /\ ReceiptsWereSent'
<1>1. LoopKeepsStep'
  BY ItemAtHand DEF NInv, LoopKeepsStep, LoopDone
<1>2. \A k : SentFor(k) => SentFor(k)'
  BY DEF SentFor
<1> QED
  BY <1>1, <1>2 DEF NInv, ReceiptsWereSent

\* An output for the item at hand.
LEMMA PutOutStep ==
    ASSUME NInv, InLoop, NEW outcome \in Outcomes,
           outcome.kind = "receipt" => SentFor(itemIndex),
           PutOut(outcome), calling' = FALSE, answers' = {},
           UNCHANGED <<engineVars, items, continueOnFail, try, inflight>>
    PROVE  NInv'
<1> DEFINE out == [item |-> itemIndex, outcome |-> outcome]
<1> USE DEF NInv
<1>1. itemIndex \in 1 .. Len(items) /\ Len(items) \in Nat
  BY ItemAtHand
<1>2. out \in Output
  BY <1>1 DEF Output
<1>3. /\ returnData' \in Seq(Output)
      /\ Len(returnData') = itemIndex
      /\ \A k \in 1 .. Len(returnData) : returnData'[k] = returnData[k]
      /\ returnData'[itemIndex] = out
  BY <1>1, <1>2 DEF LoopKeepsStep, PutOut
<1>4. \A k \in 1 .. Len(returnData') :
         k \in 1 .. Len(returnData) \/ k = itemIndex
  BY <1>1, <1>3 DEF LoopKeepsStep
<1>5. LoopKeepsStep'
  BY <1>1, <1>3, <1>4 DEF LoopKeepsStep, PutOut, InLoop
<1>6. ReceiptsWereSent'
  <2>1. \A k : SentFor(k) => SentFor(k)'
    BY DEF SentFor, engineVars
  <2> QED
    BY <1>3, <1>4, <2>1 DEF ReceiptsWereSent
<1>7. NTypeOK'
  BY DEF NTypeOK, EngineTypeOK, engineVars, PutOut
<1>8. OneRequestPerDecision' /\ SentIsDelivered' /\ RequestsAreOfItems'
  BY DEF OneRequestPerDecision, SentIsDelivered, RequestsAreOfItems, engineVars
<1> QED
  BY <1>5, <1>6, <1>7, <1>8

\* The end of the execution at the item at hand.
LEMMA StopStep ==
    ASSUME NInv, NEW reason, Stops(reason), calling' = FALSE, answers' = {},
           UNCHANGED <<engineVars, items, continueOnFail, try, inflight>>
    PROVE  NInv'
<1>1. LoopKeepsStep' /\ ReceiptsWereSent'
  BY StandingLoop DEF Stops, engineVars
<1>2. NTypeOK'
  BY DEF NInv, NTypeOK, EngineTypeOK, engineVars, Stops, Ended
<1> QED
  BY <1>1, <1>2 DEF NInv, OneRequestPerDecision, SentIsDelivered,
     RequestsAreOfItems, engineVars

\* The loop goes on from the item at hand, or ends at it.
LEMMA LoopStep ==
    ASSUME NInv, ItemRefused \/ ItemMalformed \/ ItemTimesOut
    PROVE  NInv'
<1>1. Refused \in Outcomes /\ Refused.kind # "receipt"
  BY DEF Refused, Body, Outcomes
<1>2. Failed \in Outcomes /\ Failed.kind # "receipt"
  BY DEF Failed, Body, Outcomes
<1>3. /\ InLoop /\ calling' = FALSE /\ answers' = {}
      /\ UNCHANGED <<engineVars, items, continueOnFail, try, inflight>>
  BY DEF ItemRefused, ItemMalformed, ItemTimesOut, NInv, NTypeOK
<1>4. PICK outcome, reason : outcome \in {Refused, Failed} /\ Fails(outcome, reason)
  BY DEF ItemRefused, ItemMalformed, ItemTimesOut
<1> QED
  BY <1>1, <1>2, <1>3, <1>4, PutOutStep, StopStep DEF Fails

\* The answer the loop waited for.
LEMMA AnswerStep ==
    ASSUME NInv, NEW answer \in answers, ItemAnswered(answer)
    PROVE  NInv'
<1> DEFINE told == Report(Item, CallToolResult(answer, "error_json", "number"))
<1>1. answer \in EngineAnswers
  BY DEF NInv, NTypeOK
<1>2. told \in Outcomes /\ (told.kind = "receipt" => SentFor(itemIndex))
  BY <1>1, ReportIsAnOutcome DEF NInv, ReceiptsWereSent
<1>3. PutOut(told) \/ \E reason : Fails(told, reason)
  BY DEF ItemAnswered
<1>4. PutOut(told) \/ \E reason : Stops(reason)
  BY <1>3 DEF Fails
<1>5. /\ InLoop /\ calling' = FALSE /\ answers' = {}
      /\ UNCHANGED <<engineVars, items, continueOnFail, try, inflight>>
  BY DEF ItemAnswered
<1> HIDE DEF told
<1> QED
  BY <1>2, <1>4, <1>5, PutOutStep, StopStep

\* What a tool call without force sends: nothing, or one request for a decision
\* no request was sent for; a receipt comes with a request.
LEMMA UnforcedCall ==
    ASSUME EngineTypeOK, NEW by \in Requesters, NEW tool, NEW d \in Decisions,
           NEW answer, call_tool(by, tool, d, FALSE, FALSE, answer)
    PROVE  /\ EngineTypeOK'
           /\ \/ /\ UNCHANGED <<dispatches, delivered>>
                 /\ answer.kind # "receipt"
              \/ /\ dispatches' = dispatches \cup
                        {[by |-> by, decision |-> d, forced |-> FALSE]}
                 /\ delivered' = delivered \cup {d}
                 /\ d \notin delivered
<1>1. CASE Cleared(by, d, FALSE, FALSE)
  <2>1. d \notin delivered
    BY <1>1 DEF Cleared, StoppedAt
  <2>2. [by |-> by, decision |-> d, forced |-> FALSE] \in Dispatch
    BY DEF Dispatch
  <2> QED
    BY <1>1, <2>1, <2>2 DEF Cleared, EngineTypeOK
<1>2. ASSUME NEW gate, Stopped(d, FALSE, FALSE, gate), answer = Answer("denial", gate)
      PROVE  /\ EngineTypeOK' /\ UNCHANGED <<dispatches, delivered>>
             /\ answer.kind # "receipt"
  BY <1>2 DEF Stopped, Answer, engineVars, EngineTypeOK
<1>3. ASSUME log_decision(by, d, answer) \/ query_data(answer) \/ stateless_tool(answer)
      PROVE  /\ EngineTypeOK' /\ UNCHANGED <<dispatches, delivered>>
             /\ answer.kind # "receipt"
  BY <1>3, EngineAssumption DEF log_decision, query_data, stateless_tool, engineVars,
     EngineTypeOK, LoggedRecord, Payload, ToolError, Answer
<1>4. \/ Cleared(by, d, FALSE, FALSE)
      \/ \E gate : Stopped(d, FALSE, FALSE, gate) /\ answer = Answer("denial", gate)
      \/ log_decision(by, d, answer) \/ query_data(answer) \/ stateless_tool(answer)
  BY DEF call_tool, execute_decision
<1> QED
  BY <1>1, <1>2, <1>3, <1>4

\* The engine runs a request of this execution or of an earlier one.
LEMMA EngineStep ==
    ASSUME NInv, NEW r \in inflight, NEW answer \in EngineAnswers,
           EngineExecutes(r, answer)
    PROVE  NInv'
<1> DEFINE d == r.item.decision
           new == [by |-> r.by, decision |-> d, forced |-> FALSE]
<1> USE DEF NInv
<1>1. r.by \in Requesters /\ r.item = items[r.by[2]] /\ d \in Decisions
  <2>1. r.item \in InputItem
    BY ItemAtHand DEF NTypeOK, RequestsAreOfItems
  <2> QED
    BY <2>1 DEF NTypeOK, InputItem
<1>2. /\ EngineTypeOK'
      /\ \/ /\ UNCHANGED <<dispatches, delivered>>
            /\ answer.kind # "receipt"
         \/ /\ dispatches' = dispatches \cup {new}
            /\ delivered' = delivered \cup {d}
            /\ d \notin delivered
  BY <1>1, UnforcedCall DEF EngineExecutes, NTypeOK
<1>3. OneRequestPerDecision' /\ SentIsDelivered'
  <2>1. \A x \in dispatches : x.decision \in delivered
    BY DEF SentIsDelivered
  <2>2. new.decision = d
    OBVIOUS
  <2> HIDE DEF d, new
  <2> QED
    BY <1>2, <2>1, <2>2 DEF OneRequestPerDecision, SentIsDelivered
<1>4. ASSUME NEW a \in answers' \ answers, a.kind = "receipt"
      PROVE  SentFor(itemIndex)'
  <2>1. a = answer /\ r.by = By
    BY <1>4 DEF EngineExecutes
  <2>2. new \in dispatches'
    BY <1>2, <1>4, <2>1
  <2>3. new.by = <<try, itemIndex>>' /\ new.decision = items[itemIndex].decision
    BY <1>1, <2>1 DEF By, EngineExecutes
  <2> QED
    BY <2>2, <2>3 DEF SentFor, EngineExecutes
<1>5. LoopKeepsStep' /\ ReceiptsWereSent'
  <2>1. dispatches \subseteq dispatches'
    BY <1>2
  <2> QED
    BY <1>4, <2>1, StandingLoop DEF EngineExecutes
<1>6. NTypeOK' /\ RequestsAreOfItems'
  BY <1>2 DEF NTypeOK, RequestsAreOfItems, EngineExecutes, InLoop
<1> QED
  BY <1>3, <1>5, <1>6

\* The steps around the loop: connecting, sending, losing, ending.
LEMMA OtherStep ==
    ASSUME NInv,
           \/ connectAlgentaMcp \/ ConnectFails \/ callTool
           \/ Returns \/ CloseFails \/ Crash
           \/ \E r \in inflight : RequestLost(r)
           \/ UNCHANGED vars
    PROVE  NInv'
<1> USE DEF NInv
<1>1. LoopKeepsStep' /\ ReceiptsWereSent'
  BY StandingLoop DEF connectAlgentaMcp, ConnectFails, callTool, Returns,
     CloseFails, Crash, RequestLost, vars, engineVars, nodeVars
<1>2. OneRequestPerDecision' /\ SentIsDelivered'
  BY DEF OneRequestPerDecision, SentIsDelivered, connectAlgentaMcp, ConnectFails,
     callTool, Returns, CloseFails, Crash, RequestLost, vars, engineVars, nodeVars
<1>3. EngineTypeOK'
  BY DEF NTypeOK, EngineTypeOK, connectAlgentaMcp, ConnectFails, callTool, Returns,
     CloseFails, Crash, RequestLost, vars, engineVars, nodeVars
<1>4. NTypeOK' /\ RequestsAreOfItems'
  <2>1. CASE callTool
    <3>1. itemIndex \in 1 .. Len(items) /\ By \in Requesters
      BY <2>1, ItemAtHand DEF callTool, By
    <3> QED
      BY <1>3, <2>1, <3>1 DEF NTypeOK, RequestsAreOfItems, callTool, InLoop, By, Item
  <2>2. CASE connectAlgentaMcp \/ ConnectFails
    <3>1. /\ phase' \in {"looping", "failed"} /\ connected' = (phase' = "looping")
          /\ ~calling
      BY <2>2 DEF NTypeOK, connectAlgentaMcp, ConnectFails, InLoop
    <3> QED
      BY <1>3, <2>2, <3>1 DEF NTypeOK, RequestsAreOfItems, connectAlgentaMcp,
         ConnectFails, Ended
  <2>4. CASE (\E r \in inflight : RequestLost(r)) \/ UNCHANGED vars
    BY <1>3, <2>4 DEF NTypeOK, RequestsAreOfItems, RequestLost, vars, nodeVars, InLoop
  <2>3. CASE Returns \/ CloseFails \/ Crash
    <3>1. calling' = FALSE /\ answers' = {}
      BY <2>3, ItemAtHand
         DEF NTypeOK, Returns, CloseFails, Crash, LoopDone, InLoop, LoopKeepsStep
    <3> QED
      BY <1>3, <2>3, <3>1 DEF NTypeOK, RequestsAreOfItems, Returns, CloseFails,
         Crash, Ended
  <2> QED
    BY <2>1, <2>2, <2>3, <2>4
<1> QED
  BY <1>1, <1>2, <1>4

\* The node is executed once more for the same input.
LEMMA RunAgainStep ==
    ASSUME NInv, RunAgain
    PROVE  NInv'
<1> USE DEF NInv, RunAgain
<1>1. calling = FALSE /\ answers = {}
  BY DEF NTypeOK, InLoop
<1>2. LoopKeepsStep'
  <2>1. <<>> \in Seq(Output) /\ Len(<<>>) = 0
    OBVIOUS
  <2> QED
    BY <2>1, ItemAtHand, NodeAssumption DEF LoopKeepsStep
<1>3. ReceiptsWereSent'
  BY <1>1 DEF ReceiptsWereSent
<1>4. NTypeOK' /\ RequestsAreOfItems'
  BY <1>1 DEF NTypeOK, EngineTypeOK, RequestsAreOfItems, engineVars
<1> QED
  BY <1>2, <1>3, <1>4 DEF OneRequestPerDecision, SentIsDelivered, engineVars

LEMMA NodeInvariantStep == NInv /\ [Next]_vars => NInv'
<1> SUFFICES ASSUME NInv, [Next]_vars PROVE NInv'
  OBVIOUS
<1> QED
  BY LoopStep, AnswerStep, EngineStep, OtherStep, RunAgainStep DEF Next, NodeStep

\* The invariant holds of every run, whatever the network, the engine and the
\* process of n8n do.
THEOREM NodeInvariance == Spec => []NInv
<1> QED
  BY NodeInit, NodeInvariantStep, PTL DEF Spec

-----------------------------------------------------------------------------
(* What follows from it                                                    *)

\* Type correctness: a loop that has ended waits for nothing, and every request
\* on its way is of an item of the input.
THEOREM NodeTypeCorrect == Spec => []NTypeOK
<1> QED
  BY NodeInvariance, PTL DEF NInv

\* execute()'s outputs are paired with its items: the k-th is of the k-th item,
\* and an execution that succeeds has one for each.
THEOREM OutputsArePaired == Spec => []OutputsPairWithItems
<1>1. NInv => OutputsPairWithItems
  <2> SUFFICES ASSUME NInv PROVE OutputsPairWithItems
    OBVIOUS
  <2>1. Len(items) \in Nat
    BY ItemAtHand DEF NInv
  <2>2. DOMAIN returnData = 1 .. Len(returnData)
    BY LenProperties DEF NInv, LoopKeepsStep
  <2> QED
    BY <2>1, <2>2 DEF NInv, LoopKeepsStep, OutputsPairWithItems
<1> QED
  BY <1>1, NodeInvariance, PTL

\* A receipt the node puts out is of a webhook request this execution sent for
\* that item: never of an earlier execution, a late answer or a denial.
THEOREM ReceiptsAreOfThisTry == Spec => []ReceiptIsOfThisTry
<1>1. NInv => ReceiptIsOfThisTry
  <2> SUFFICES ASSUME NInv PROVE ReceiptIsOfThisTry
    OBVIOUS
  <2>1. DOMAIN returnData = 1 .. Len(returnData)
    BY LenProperties DEF NInv, LoopKeepsStep
  <2> QED
    BY <2>1 DEF NInv, ReceiptsWereSent, SentFor, ReceiptIsOfThisTry
<1> QED
  BY <1>1, NodeInvariance, PTL

\* However often n8n executes the node, one webhook request at most is sent for
\* a decision: the node never sends force, and the engine has a gate for the rest.
THEOREM RerunsSendNothingTwice == Spec => []OneRequestPerDecision
<1> QED
  BY NodeInvariance, PTL DEF NInv

=============================================================================
