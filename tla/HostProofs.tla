----------------------------- MODULE HostProofs -----------------------------
(***************************************************************************)
(* What TLAPS proves of AgentHosts, for any number of calls, conversations *)
(* and openings of the with-block, and every interleaving of the threads.  *)
(***************************************************************************)
EXTENDS AgentHosts, SequenceTheorems, TLAPS

-----------------------------------------------------------------------------
(* The inductive invariant                                                 *)

\* What execute_decision can answer, in the words of the client.
Replies == {"receipt"} \cup Gates

Errors == {"not_connected", "attribute_error", "timed_out", "broken"}

ForwardRecord ==
    [at : {"idle", "forward", "checked", "made", "runnable", "waiting", "returned"},
     object : {0} \cup Openings, decision : Decisions \cup {"none"},
     coro : {"none", "posted", "awaiting", "answered", "broken"},
     request : {"unsent", "inflight", "handled"},
     reply : Replies \cup {"none"},
     outcome : Replies \cup Errors \cup {"none"}]

\* Types of smolagents' state.
BackTypes ==
    /\ forward \in [Forwards -> ForwardRecord]
    /\ tools \subseteq Openings
    /\ opening \in 0 .. MaxOpenings
    /\ session \in [Openings -> {"none", "open", "closed"}]

\* The owner waits for its own client object, whose session is closed by the
\* time the block has been left in order.
OwnerClosesFirst ==
    /\ owner \in {"outside", "starting", "entering", "raised", "inside", "exiting",
                  "closed", "stopping", "forgetting", "joining", "left"}
    /\ owner # "outside" => opening \in Openings
    /\ owner \in {"closed", "stopping", "forgetting", "joining", "left"} =>
           session[opening] # "open"

Sent(f) == \E x \in dispatches : x.by = f

\* How far a call has come: nothing is sent before its coroutine has been
\* posted, and no webhook request before its request was handled.
CallInOrder(call) ==
    /\ call.at \in {"idle", "forward", "checked", "made", "runnable"} =>
           call.coro = "none" /\ call.outcome = "none"
    /\ call.at = "waiting" => call.outcome = "none"
    /\ call.coro \in {"none", "posted"} => call.request = "unsent"
    /\ call.coro = "answered" => call.request = "handled"
    /\ call.outcome \in {"not_connected", "attribute_error"} => call.coro = "none"
    /\ call.request = "handled" => call.reply \in Replies
    /\ call.outcome \in Replies => call.request = "handled" /\ call.outcome = call.reply

CallsInOrder == \A f \in Forwards : CallInOrder(forward[f])

\* The reply of a call is of the webhook request it sent, or of another's.
RepliesAreBacked ==
    \A f \in Forwards :
       /\ Sent(f) => forward[f].request = "handled" /\ forward[f].reply = "receipt"
       /\ forward[f].request = "handled" /\ forward[f].reply = "idempotency" =>
              \E x \in dispatches : x.decision = forward[f].decision

\* The engine delivers what it has sent.
DeliveredWasSent == \A d \in delivered : \E x \in dispatches : x.decision = d

\* Types of haystack's state; the step's calls are calls of the conversation.
Message == [call : Nat, answer : EngineAnswers]

TalkTypes ==
    /\ agent \in {"model", "tools", "raised", "ended"}
    /\ made \in Nat
    /\ wanted \in Seq(Decisions)
    /\ messages \in Seq(Message)
    /\ wanted # <<>> => made + Len(wanted) \in ToolCalls

\* The messages are of calls that were made, and except while tools run each
\* denial among them has been raised.
DenialsAreRaised ==
    /\ \A i \in 1 .. Len(messages) : messages[i].call <= made
    /\ agent # "tools" =>
          \A i \in 1 .. Len(messages) : messages[i].answer.kind = "denial" =>
             \E r \in raised : r.by >= messages[i].call

BackInv == BackTypes /\ OwnerClosesFirst /\ CallsInOrder

TalkInv == TalkTypes /\ DenialsAreRaised

HInv == BackInv /\ RepliesAreBacked /\ DeliveredWasSent /\ TalkInv

-----------------------------------------------------------------------------
(* The owner of the with-block and the loop's thread                       *)

\* The initial states of both processes.
LEMMA HostInit == HInit => HInv
<1> SUFFICES ASSUME HInit PROVE HInv
  OBVIOUS
<1>1. BackTypes
  BY BackgroundAssumption DEF HInit, BackInit, BackTypes, NoForward, ForwardRecord
<1>2. CallsInOrder /\ OwnerClosesFirst
  BY DEF HInit, BackInit, NoForward, CallsInOrder, CallInOrder, OwnerClosesFirst,
     Replies, Gates
<1>3. RepliesAreBacked /\ DeliveredWasSent
  BY DEF HInit, EngineInit, BackInit, NoForward, RepliesAreBacked, Sent,
     DeliveredWasSent
<1>4. TalkInv
  <2>1. <<>> \in Seq(Decisions) /\ <<>> \in Seq(Message) /\ Len(<<>>) = 0
    OBVIOUS
  <2> QED
    BY <2>1 DEF HInit, TalkInit, TalkInv, TalkTypes, DenialsAreRaised
<1> QED
  BY <1>1, <1>2, <1>3, <1>4 DEF HInv, BackInv

\* The owner and the loop change no call.
LEMMA OwnerStep ==
    ASSUME BackInv, Owner \/ \E o \in Openings : LoopRuns(o) \/ LoopStops(o)
    PROVE  BackInv' /\ UNCHANGED <<engineVars, forward>>
<1> USE DEF BackInv
<1>1. UNCHANGED <<engineVars, forward>>
  BY DEF Owner, Enter, LoopSeen, LoopNotSeen, LoopProbeFails, Entered, EnterFails,
     Exit, SessionClosed, ClientForgotten, ExitFails, StopLoop, LoopForgotten, Joined,
     LoopRuns, LoopStops
<1>2. BackTypes' /\ OwnerClosesFirst'
  <2>1. CASE Enter
    BY <2>1, BackgroundAssumption
       DEF Enter, loopVars, BackTypes, OwnerClosesFirst, Openings
  <2>2. CASE Entered \/ EnterFails \/ SessionClosed \/ ExitFails
    BY <2>2 DEF Entered, EnterFails, SessionClosed, ExitFails, BackTypes,
       OwnerClosesFirst
  <2>3. CASE \/ LoopSeen \/ LoopNotSeen \/ LoopProbeFails \/ Exit
             \/ ClientForgotten \/ StopLoop \/ LoopForgotten \/ Joined
             \/ \E o \in Openings : LoopRuns(o) \/ LoopStops(o)
    BY <2>3 DEF LoopSeen, LoopNotSeen, LoopProbeFails, Exit, ClientForgotten,
       StopLoop, LoopForgotten, Joined, LoopRuns, LoopStops, loopVars, BackTypes, OwnerClosesFirst
  <2> QED
    BY <2>1, <2>2, <2>3 DEF Owner
<1>3. CallsInOrder'
  BY <1>1 DEF CallsInOrder
<1> QED
  BY <1>1, <1>2, <1>3

-----------------------------------------------------------------------------
(* The calls                                                               *)

\* What a step of one call leaves of it: its request, once it is out, and the
\* decision it is for; and whatever sends the request finds an open session.
CallGoesOn(f) ==
    /\ forward' \in [Forwards -> ForwardRecord]
    /\ \A g \in Forwards \ {f} : forward'[g] = forward[g]
    /\ CallInOrder(forward'[f])
    /\ forward'[f].reply = forward[f].reply
    /\ forward[f].request # "unsent" =>
           /\ forward'[f].decision = forward[f].decision
           /\ forward'[f].request = forward[f].request
    /\ forward'[f].request # "handled" \/ forward[f].request = "handled"
    /\ Sends(f) => SessionOf(f) = "open"

\* A thread reads an attribute of its client.
LEMMA ReadsAttribute ==
    ASSUME BackInv, NEW f \in Forwards, NEW attribute,
           NEW error \in {"not_connected", "attribute_error"},
           NEW next \in {"checked", "made", "runnable"},
           forward[f].at \in {"forward", "checked", "made"},
           IfSet(f, attribute, error, next)
    PROVE  CallGoesOn(f)
<1> USE DEF BackInv, BackTypes
<1>1. forward[f] \in ForwardRecord /\ CallInOrder(forward[f])
  BY DEF CallsInOrder
<1>2. CASE forward' = [forward EXCEPT ![f].at = next]
  BY <1>1, <1>2 DEF CallGoesOn, ForwardRecord, CallInOrder, Sends, Replies, Gates
<1>3. CASE Returns(f, error)
  BY <1>1, <1>3 DEF CallGoesOn, ForwardRecord, CallInOrder, Sends, Returns, Replies,
     Errors, Gates
<1> QED
  BY <1>2, <1>3 DEF IfSet

LEMMA CallStep ==
    ASSUME BackInv, NEW f \in Forwards,
           CoroutineRuns(f) \/ CoroutineEnds(f) \/ Begin(f) \/ AgentThread(f)
    PROVE  CallGoesOn(f)
<1> USE DEF BackInv, BackTypes
<1>1. forward[f] \in ForwardRecord /\ CallInOrder(forward[f])
  BY DEF CallsInOrder
<1>2. CASE CoroutineRuns(f)
  BY <1>1, <1>2 DEF CoroutineRuns, CallGoesOn, ForwardRecord, CallInOrder, Sends, Replies, Gates
<1>3. CASE CoroutineEnds(f)
  BY <1>1, <1>3 DEF CoroutineEnds, CallGoesOn, ForwardRecord, CallInOrder, Sends, Replies, Gates
<1>4. CASE Begin(f)
  <2>1. PICK o \in tools, d \in Decisions :
           forward' = [forward EXCEPT ![f].at = "forward", ![f].object = o,
                                      ![f].decision = d]
    BY <1>4 DEF Begin
  <2>2. forward[f].at = "idle" /\ forward[f].request = "unsent"
    BY <1>1, <1>4 DEF Begin, CallInOrder
  <2>3. o \in Openings
    BY <2>1
  <2>4. forward'[f] = [forward[f] EXCEPT !.at = "forward", !.object = o, !.decision = d]
    BY <1>1, <2>1
  <2>5. forward'[f] \in ForwardRecord /\ CallInOrder(forward'[f])
    <3>1. /\ forward'[f].at = "forward"
          /\ forward'[f].coro = "none" /\ forward'[f].outcome = "none"
          /\ forward'[f].request = "unsent"
      BY <1>1, <2>2, <2>4 DEF ForwardRecord, CallInOrder
    <3>2. CallInOrder(forward'[f])
      BY <3>1 DEF CallInOrder, Replies, Gates
    <3>3. forward'[f] \in ForwardRecord
      BY <1>1, <2>3, <2>4 DEF ForwardRecord
    <3> QED
      BY <3>2, <3>3
  <2>6. ~Sends(f)
    BY <1>1, <2>2, <2>4 DEF Sends, ForwardRecord
  <2>7. forward'[f].reply = forward[f].reply /\ forward'[f].request = "unsent"
    BY <1>1, <2>2, <2>4 DEF ForwardRecord
  <2> QED
    BY <2>1, <2>2, <2>5, <2>6, <2>7 DEF CallGoesOn
<1>5. CASE ClientChecked(f) \/ CoroutineMade(f) \/ LoopChecked(f)
  BY <1>5, ReadsAttribute DEF ClientChecked, CoroutineMade, LoopChecked
<1>6. CASE Posted(f)
  BY <1>1, <1>6 DEF Posted, Returns, CallGoesOn, ForwardRecord, CallInOrder, Sends, Replies, Gates, Errors
<1>7. CASE Resolved(f)
  BY <1>1, <1>7 DEF Resolved, Returns, CallGoesOn, ForwardRecord, CallInOrder, Sends, Replies, Gates, Errors
<1>8. CASE ResultTimesOut(f)
  BY <1>1, <1>8 DEF ResultTimesOut, Returns, CallGoesOn, ForwardRecord, CallInOrder, Sends, Replies, Gates, Errors
<1> QED
  BY <1>2, <1>3, <1>4, <1>5, <1>6, <1>7, <1>8 DEF AgentThread

\* The calls of the others are as they were.
LEMMA BackKeeps ==
    ASSUME BackInv, NEW f \in Forwards,
           forward' \in [Forwards -> ForwardRecord],
           \A g \in Forwards \ {f} : forward'[g] = forward[g],
           CallInOrder(forward'[f]), UNCHANGED UntouchedByCalls
    PROVE  BackInv'
<1> QED
  BY DEF BackInv, BackTypes, OwnerClosesFirst, CallsInOrder, UntouchedByCalls,
     objectVars, loopVars

\* What execute_decision sends, and what its answer is called.
LEMMA ExecutionIsBacked ==
    ASSUME DeliveredWasSent, NEW by, NEW d, NEW answer,
           execute_decision(by, d, FALSE, FALSE, answer)
    PROVE  /\ DeliveredWasSent'
           /\ dispatches \subseteq dispatches'
           /\ Verdict(answer) \in Replies
           /\ \/ /\ dispatches' = dispatches
                 /\ Verdict(answer) = "idempotency" =>
                        \E x \in dispatches : x.decision = d
              \/ /\ Verdict(answer) = "receipt"
                 /\ dispatches' = dispatches \cup
                        {[by |-> by, decision |-> d, forced |-> FALSE]}
<1>1. CASE Cleared(by, d, FALSE, FALSE) /\ answer = DeliveryReceipt(d, FALSE)
  <2> DEFINE new == [by |-> by, decision |-> d, forced |-> FALSE]
  <2>1. new.decision = d
    OBVIOUS
  <2>2. Verdict(answer) = "receipt"
    BY <1>1 DEF DeliveryReceipt, Receipt, Verdict
  <2>3. dispatches' = dispatches \cup {new} /\ delivered' = delivered \cup {d}
    BY <1>1 DEF Cleared
  <2> HIDE DEF new
  <2>4. DeliveredWasSent'
    BY <2>1, <2>3 DEF DeliveredWasSent
  <2> QED
    BY <2>2, <2>3, <2>4 DEF Replies, new
<1>2. ASSUME NEW gate \in Gates, Stopped(d, FALSE, FALSE, gate),
             answer = Answer("denial", gate)
      PROVE  /\ UNCHANGED engineVars /\ Verdict(answer) = gate
             /\ gate = "idempotency" => d \in delivered
  BY <1>2 DEF Stopped, StoppedAt, Verdict, Answer, Gates
<1>3. CASE \E gate \in Gates : /\ Stopped(d, FALSE, FALSE, gate)
                               /\ answer = Answer("denial", gate)
  BY <1>2, <1>3 DEF engineVars, DeliveredWasSent, Replies
<1> QED
  BY <1>1, <1>3 DEF execute_decision

\* What a call has been told stays true when more is sent by others.
LEMMA BackedStays ==
    ASSUME RepliesAreBacked, NEW f \in Forwards, dispatches \subseteq dispatches',
           Sent(f)' => Sent(f),
           \/ forward'[f] = forward[f]
           \/ /\ forward'[f].reply = forward[f].reply
              /\ forward[f].request # "unsent" =>
                     /\ forward'[f].decision = forward[f].decision
                     /\ forward'[f].request = forward[f].request
              /\ forward'[f].request # "handled" \/ forward[f].request = "handled"
    PROVE  /\ Sent(f)' => forward'[f].request = "handled"
                             /\ forward'[f].reply = "receipt"
           /\ forward'[f].request = "handled" /\ forward'[f].reply = "idempotency" =>
                  \E x \in dispatches' : x.decision = forward'[f].decision
<1> QED
  BY DEF RepliesAreBacked

\* The engine handles a call's request.
LEMMA HostEngineStep ==
    ASSUME BackInv, RepliesAreBacked, DeliveredWasSent,
           NEW f \in Forwards, HostEngineCall(f)
    PROVE  BackInv' /\ RepliesAreBacked' /\ DeliveredWasSent'
<1> USE DEF BackInv, BackTypes
<1>1. PICK answer \in EngineAnswers :
         /\ execute_decision(f, forward[f].decision, FALSE, FALSE, answer)
         /\ forward' = [forward EXCEPT ![f].request = "handled",
                                       ![f].reply = Verdict(answer)]
  BY DEF HostEngineCall
<1> DEFINE d == forward[f].decision
           v == Verdict(answer)
<1>2. /\ DeliveredWasSent' /\ dispatches \subseteq dispatches' /\ v \in Replies
      /\ \/ /\ dispatches' = dispatches
            /\ v = "idempotency" => \E x \in dispatches : x.decision = d
         \/ /\ v = "receipt"
            /\ dispatches' = dispatches \cup
                   {[by |-> f, decision |-> d, forced |-> FALSE]}
  BY <1>1, ExecutionIsBacked
<1>3. /\ forward[f] \in ForwardRecord /\ CallInOrder(forward[f])
      /\ forward[f].request = "inflight" /\ UNCHANGED UntouchedByCalls
      /\ forward' = [forward EXCEPT ![f].request = "handled", ![f].reply = v]
  BY <1>1 DEF CallsInOrder, HostEngineCall
<1> HIDE DEF v
<1>4. /\ forward' \in [Forwards -> ForwardRecord]
      /\ \A g \in Forwards \ {f} : forward'[g] = forward[g]
      /\ forward'[f].request = "handled" /\ forward'[f].reply = v
      /\ forward'[f].decision = d
      /\ CallInOrder(forward'[f])
  <2> DEFINE call == [forward[f] EXCEPT !.request = "handled", !.reply = v]
  <2>1. /\ call \in ForwardRecord /\ call.request = "handled" /\ call.reply = v
        /\ call.decision = d
    BY <1>2, <1>3 DEF ForwardRecord
  <2>2. CallInOrder(call)
    BY <1>2, <1>3 DEF ForwardRecord, CallInOrder
  <2>3. forward' = [forward EXCEPT ![f] = call]
    BY <1>3
  <2> HIDE DEF call
  <2> QED
    BY <2>1, <2>2, <2>3
<1>5. BackInv'
  BY <1>3, <1>4, BackKeeps
<1>6. ~Sent(f)
  BY <1>3 DEF RepliesAreBacked
<1>7. RepliesAreBacked'
  <2>1. ASSUME NEW g \in Forwards \ {f} PROVE Sent(g)' => Sent(g)
    BY <1>2 DEF Sent
  <2>2. Sent(f)' => v = "receipt"
    BY <1>2, <1>6 DEF Sent
  <2>3. v = "idempotency" => \E x \in dispatches' : x.decision = d
    BY <1>2
  <2> QED
    BY <1>2, <1>4, <2>1, <2>2, <2>3, BackedStays DEF RepliesAreBacked
<1> QED
  BY <1>2, <1>5, <1>7

\* Every step of the smolagents process.
LEMMA BackStep ==
    ASSUME BackInv, RepliesAreBacked, DeliveredWasSent, BackNext
    PROVE  BackInv' /\ RepliesAreBacked' /\ DeliveredWasSent'
<1>1. CASE Owner \/ \E o \in Openings : LoopRuns(o) \/ LoopStops(o)
  BY <1>1, OwnerStep DEF engineVars, RepliesAreBacked, DeliveredWasSent, Sent
<1>2. ASSUME NEW f \in Forwards, HostEngineCall(f)
      PROVE  BackInv' /\ RepliesAreBacked' /\ DeliveredWasSent'
  BY <1>2, HostEngineStep
<1>3. ASSUME NEW f \in Forwards,
             CoroutineRuns(f) \/ CoroutineEnds(f) \/ Begin(f) \/ AgentThread(f)
      PROVE  BackInv' /\ RepliesAreBacked' /\ DeliveredWasSent'
  <2>1. CallGoesOn(f)
    BY <1>3, CallStep
  <2>2. UNCHANGED <<engineVars, UntouchedByCalls>>
    BY <1>3 DEF CoroutineRuns, CoroutineEnds, Begin, AgentThread, ClientChecked,
       CoroutineMade, LoopChecked, Posted, Resolved, ResultTimesOut
  <2>3. BackInv'
    BY <2>1, <2>2, BackKeeps DEF CallGoesOn
  <2>4. RepliesAreBacked'
    <3>1. \A g \in Forwards : Sent(g)' => Sent(g)
      BY <2>2 DEF engineVars, Sent
    <3> QED
      BY <2>1, <2>2, <3>1, BackedStays DEF CallGoesOn, RepliesAreBacked, engineVars
  <2> QED
    BY <2>2, <2>3, <2>4 DEF engineVars, DeliveredWasSent
<1> QED
  BY <1>1, <1>2, <1>3 DEF BackNext, LoopThread

-----------------------------------------------------------------------------
(* The conversation                                                        *)

\* A step of the model, the hook or the caller sends nothing.
LEMMA QuietTalkStep ==
    ASSUME TalkInv, ModelAsks \/ ModelEnds \/ Hook \/ RunAgain
    PROVE  TalkInv' /\ UNCHANGED engineVars
<1> USE DEF TalkInv
<1>1. Len(messages) \in Nat /\ \A i \in 1 .. Len(messages) : messages[i] \in Message
  BY LenProperties, ElementOfSeq DEF TalkTypes
<1>2. CASE ModelAsks
  <2>1. PICK n \in 1 .. MaxPerStep :
           \E asked \in [1 .. n -> Decisions] :
              made + n \in ToolCalls /\ wanted' = asked
    BY <1>2 DEF ModelAsks
  <2>2. wanted' \in Seq(Decisions) /\ Len(wanted') = n
    BY <2>1, ConversationAssumption
  <2> QED
    BY <1>2, <2>1, <2>2 DEF ModelAsks, TalkTypes, DenialsAreRaised
<1>3. CASE ModelEnds
  BY <1>3 DEF ModelEnds, TalkTypes, DenialsAreRaised
<1>4. CASE Hook
  <2>1. CASE Blocked = {} /\ agent' = "model" /\ UNCHANGED raised
    <3>1. \A i \in 1 .. Len(messages) : messages[i].answer.kind # "denial"
      BY <2>1, LenProperties DEF Blocked, TalkTypes
    <3> QED
      BY <1>4, <2>1, <3>1 DEF Hook, TalkTypes, DenialsAreRaised
  <2>2. ASSUME NEW first \in Blocked, agent' = "raised",
               raised' = raised \cup {[call |-> messages[first].call, by |-> made]}
        PROVE  TalkInv'
    <3> DEFINE r == [call |-> messages[first].call, by |-> made]
    <3>1. r \in raised' /\ r.by = made
      BY <2>2
    <3>2. \A i \in 1 .. Len(messages) : r.by >= messages[i].call
      BY <1>1, <3>1 DEF DenialsAreRaised, TalkTypes, Message
    <3> QED
      BY <1>4, <2>2, <3>1, <3>2 DEF Hook, TalkTypes, DenialsAreRaised
  <2> QED
    BY <1>4, <2>1, <2>2 DEF Hook
<1>5. CASE RunAgain
  <2>1. /\ agent \in {"raised", "ended"} /\ agent' = "model"
        /\ UNCHANGED <<engineVars, wanted, stepStart, made, raised>>
        /\ messages' = <<>> \/ messages' = messages
    BY <1>5 DEF RunAgain
  <2>2. CASE messages' = messages
    BY <2>1, <2>2 DEF TalkTypes, DenialsAreRaised
  <2>3. CASE messages' = <<>>
    <3>1. messages' \in Seq(Message) /\ 1 .. Len(messages') = {}
      BY <2>3
    <3> QED
      BY <2>1, <3>1 DEF TalkTypes, DenialsAreRaised
  <2> QED
    BY <2>1, <2>2, <2>3
<1> QED
  BY <1>2, <1>3, <1>4, <1>5 DEF ModelAsks, ModelEnds, Hook, RunAgain

\* A tool of the conversation runs, under a name no call of smolagents has.
LEMMA ToolStep ==
    ASSUME TalkInv, RepliesAreBacked, DeliveredWasSent, ToolRuns, UNCHANGED forward
    PROVE  TalkInv' /\ RepliesAreBacked' /\ DeliveredWasSent'
<1> USE DEF TalkInv
<1>1. PICK answer \in EngineAnswers :
         /\ execute_decision(made + 1, Head(wanted), FALSE, FALSE, answer)
         /\ messages' = Append(messages, [call |-> made + 1, answer |-> answer])
  BY DEF ToolRuns
<1>2. /\ made \in Nat /\ wanted \in Seq(Decisions) /\ wanted # <<>>
      /\ Len(wanted) \in Nat \ {0} /\ made + Len(wanted) \in ToolCalls
      /\ made' = made + 1 /\ wanted' = Tail(wanted)
      /\ agent = "tools" /\ agent' = "tools"
  <2>1. Len(wanted) \in Nat \ {0}
    BY LenProperties, EmptySeq DEF ToolRuns, TalkTypes
  <2> QED
    BY <2>1 DEF ToolRuns, TalkTypes
<1>3. made + 1 \in ToolCalls /\ made + 1 \notin Forwards
  BY <1>2, ConversationAssumption, HostsAssumption
<1>4. TalkTypes' /\ DenialsAreRaised'
  <2> DEFINE m == [call |-> made + 1, answer |-> answer]
  <2>1. m \in Message /\ m.call = made'
    BY <1>2 DEF Message
  <2>2. /\ messages' \in Seq(Message)
        /\ \A i \in 1 .. Len(messages') :
              messages'[i] = m \/ (i \in 1 .. Len(messages) /\ messages'[i] = messages[i])
    BY <1>1, <2>1 DEF TalkTypes
  <2>3. \A i \in 1 .. Len(messages) : messages[i].call <= made /\ messages[i].call \in Nat
    <3>1. \A i \in 1 .. Len(messages) : messages[i] \in Message
      BY ElementOfSeq DEF TalkTypes
    <3> QED
      BY <3>1 DEF DenialsAreRaised, Message
  <2> HIDE DEF m
  <2>4. \A i \in 1 .. Len(messages') : messages'[i].call <= made'
    BY <1>2, <2>1, <2>2, <2>3
  <2>5. wanted' \in Seq(Decisions) /\ Len(wanted') = Len(wanted) - 1
    BY <1>2
  <2>6. wanted' # <<>> => made' + Len(wanted') \in ToolCalls
    BY <1>2, <2>5
  <2> QED
    BY <1>2, <2>2, <2>4, <2>5, <2>6 DEF TalkTypes, DenialsAreRaised
<1>5. /\ DeliveredWasSent' /\ dispatches \subseteq dispatches'
      /\ \/ dispatches' = dispatches
         \/ dispatches' = dispatches \cup
                {[by |-> made + 1, decision |-> Head(wanted), forced |-> FALSE]}
  BY <1>1, ExecutionIsBacked
<1>6. \A f \in Forwards : Sent(f)' => Sent(f)
  BY <1>3, <1>5 DEF Sent
<1>7. RepliesAreBacked'
  BY <1>5, <1>6, BackedStays DEF RepliesAreBacked
<1> QED
  BY <1>4, <1>5, <1>7

-----------------------------------------------------------------------------
(* Both processes                                                          *)

LEMMA HostStep == HInv /\ [HNext]_hostVars => HInv'
<1> SUFFICES ASSUME HInv, [HNext]_hostVars PROVE HInv'
  OBVIOUS
<1> USE DEF HInv
<1>1. UNCHANGED talkVars => TalkInv'
  BY DEF talkVars, TalkInv, TalkTypes, DenialsAreRaised
<1>2. UNCHANGED backVars => BackInv' /\ UNCHANGED forward
  BY DEF backVars, objectVars, loopVars, BackInv, BackTypes, OwnerClosesFirst,
     CallsInOrder
<1>3. UNCHANGED <<engineVars, forward>> => RepliesAreBacked' /\ DeliveredWasSent'
  BY DEF engineVars, RepliesAreBacked, DeliveredWasSent, Sent
<1>4. CASE BackNext /\ UNCHANGED talkVars
  BY <1>1, <1>4, BackStep
<1>5. CASE TalkNext /\ UNCHANGED backVars
  BY <1>2, <1>3, <1>5, QuietTalkStep, ToolStep DEF TalkNext
<1>6. CASE UNCHANGED hostVars
  BY <1>1, <1>2, <1>3, <1>6 DEF hostVars
<1> QED
  BY <1>4, <1>5, <1>6 DEF HNext

\* The invariant holds of every run of the two processes on one engine.
THEOREM HostInvariance == HSpec => []HInv
<1> QED
  BY HostInit, HostStep, PTL DEF HSpec

\* A call of smolagents that is told that there is no connection has sent
\* nothing and never will; one behind a webhook request is told its receipt or
\* that the answer is unknown; and whoever hears that a decision has already
\* been delivered has somebody else who delivered it.
THEOREM DeliveriesAreTraceable == HSpec => []DeliveryIsTraceable
<1>1. HInv => DeliveryIsTraceable
  <2> SUFFICES ASSUME HInv, NEW f \in Forwards
               PROVE  /\ Sent(f) => forward[f].outcome \in
                                        {"none", "receipt", "timed_out", "broken"}
                      /\ forward[f].outcome = "idempotency" =>
                             \E x \in dispatches :
                                x.decision = forward[f].decision /\ x.by # f
    BY DEF DeliveryIsTraceable, Sent
  <2>1. /\ forward[f].outcome \in Replies \cup Errors \cup {"none"}
        /\ CallInOrder(forward[f])
    BY DEF HInv, BackInv, BackTypes, ForwardRecord, CallsInOrder
  <2>2. /\ Sent(f) => forward[f].request = "handled" /\ forward[f].reply = "receipt"
        /\ forward[f].request = "handled" /\ forward[f].reply = "idempotency" =>
               \E x \in dispatches : x.decision = forward[f].decision
    BY DEF HInv, RepliesAreBacked
  <2>3. Sent(f) => forward[f].outcome \in {"none", "receipt", "timed_out", "broken"}
    BY <2>1, <2>2 DEF CallInOrder, Errors
  <2>4. ASSUME forward[f].outcome = "idempotency"
        PROVE  \E x \in dispatches : x.decision = forward[f].decision /\ x.by # f
    <3>1. forward[f].request = "handled" /\ forward[f].reply = "idempotency"
      BY <2>1, <2>4 DEF CallInOrder, Replies, Gates
    <3> QED
      BY <2>2, <3>1 DEF Sent
  <2> QED
    BY <2>3, <2>4
<1> QED
  BY <1>1, HostInvariance, PTL

\* Once a with-block has been left in order, no call through its client sends
\* a request any more, whichever of its threads had been on its way into the
\* loop.
THEOREM LeftBlocksAreSilent == HSpec => NothingAfterTheBlock
<1>1. ASSUME HInv, [HNext]_hostVars
      PROVE  [\A f \in Forwards : Sends(f) =>
                 ~(forward[f].object = opening /\ owner = "left")]_backVars
  <2> SUFFICES ASSUME NEW f \in Forwards, Sends(f),
                      forward[f].object = opening, owner = "left"
               PROVE  FALSE
    OBVIOUS
  <2> BackInv
    BY <1>1 DEF HInv
  <2>1. /\ forward[f].request = "unsent" /\ forward'[f].request = "inflight"
        /\ forward' # forward
    BY DEF Sends
  <2>2. BackNext
    BY <1>1, <2>1 DEF HNext, hostVars, backVars
  <2>3. CASE Owner \/ \E o \in Openings : LoopRuns(o) \/ LoopStops(o)
    <3>1. forward' = forward
      BY <2>3, OwnerStep
    <3> QED
      BY <2>1, <3>1
  <2>4. ASSUME NEW g \in Forwards, HostEngineCall(g) PROVE FALSE
    <3>1. PICK v \in {Verdict(answer) : answer \in EngineAnswers} :
             forward' = [forward EXCEPT ![g].request = "handled", ![g].reply = v]
      BY <2>4 DEF HostEngineCall
    <3>2. forward[f] \in ForwardRecord /\ f \in DOMAIN forward
      BY DEF BackInv, BackTypes
    <3>3. forward'[f].request \in {"handled", forward[f].request}
      BY <3>1, <3>2 DEF ForwardRecord
    <3> QED
      BY <2>1, <3>3
  <2>5. ASSUME NEW g \in Forwards,
               CoroutineRuns(g) \/ CoroutineEnds(g) \/ Begin(g) \/ AgentThread(g)
        PROVE  FALSE
    <3>1. CallGoesOn(g)
      BY <2>5, CallStep
    <3>2. CASE g = f
      <4>1. SessionOf(f) = "open"
        BY <3>1, <3>2 DEF CallGoesOn
      <4> QED
        BY <4>1 DEF SessionOf, BackInv, OwnerClosesFirst
    <3>3. CASE g # f
      <4>1. forward'[f] = forward[f]
        BY <3>1, <3>3 DEF CallGoesOn
      <4> QED
        BY <2>1, <4>1
    <3> QED
      BY <3>2, <3>3
  <2> QED
    BY <2>2, <2>3, <2>4, <2>5 DEF BackNext, LoopThread
<1> QED
  BY <1>1, HostInvariance, PTL DEF HSpec, NothingAfterTheBlock

\* The model of a haystack agent never gets to read a denial that has not been
\* raised out of the run.
THEOREM DenialsStopTheAgent == HSpec => []DenialStopsTheAgent
<1>1. HInv => DenialStopsTheAgent
  <2> SUFFICES ASSUME HInv PROVE DenialStopsTheAgent
    OBVIOUS
  <2>1. DOMAIN messages = 1 .. Len(messages)
    BY LenProperties DEF HInv, TalkInv, TalkTypes
  <2> QED
    BY <2>1 DEF HInv, TalkInv, DenialsAreRaised, DenialStopsTheAgent
<1> QED
  BY <1>1, HostInvariance, PTL

=============================================================================
