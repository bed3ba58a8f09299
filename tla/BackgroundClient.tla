-------------------------- MODULE BackgroundClient --------------------------
(***************************************************************************)
(* smolagents_algenta.toolset: the synchronous handle around an async MCP  *)
(* client.  AlgentaToolset's with-block opens a _BackgroundMCPClient, whose *)
(* event loop runs on a thread of its own; the agent's threads call tools  *)
(* by posting coroutines to that loop and waiting for their futures.  The  *)
(* owner of the with-block, the loop's thread and the agent's threads take *)
(* their steps independently, and nothing guards what they share.          *)
(*                                                                         *)
(* Every __enter__ makes a new client object, numbered by its opening; a   *)
(* tool keeps the object it was made from.  A call is one forward of an    *)
(* execute_decision tool.                                                  *)
(***************************************************************************)
EXTENDS GovernedEngine

CONSTANTS
    Forwards,       \* the calls the agent's threads make
    MaxOpenings,    \* bound on the times the with-block is entered
    HostFaults      \* the kinds of fault that may happen

Openings == 1 .. MaxOpenings

HostFaultKinds == {"slow_loop", "enter", "exit"}

ASSUME BackgroundAssumption ==
    /\ Forwards \subseteq Requesters
    /\ MaxOpenings \in Nat
    /\ HostFaults \subseteq HostFaultKinds

VARIABLES
    owner,      \* where the owner of the with-block is
    opening,    \* the number of the toolset's client object
    thread,     \* _thread of each object is set
    loop,       \* _loop of each object is set
    client,     \* _client of each object is set
    running,    \* the loop itself: "absent", "running", "stopping", "stopped"
    session,    \* the MCP session: "none", "open", "closed"
    tools,      \* the objects whose tools the agent has been handed
    forward     \* each call: where its thread is, the object it uses, its
                \* coroutine, its request, and what it came to

objectVars == <<thread, loop, client>>
loopVars == <<running, session>>
backVars == <<owner, opening, objectVars, loopVars, tools, forward>>

NoForward == [at |-> "idle", object |-> 0, decision |-> "none", coro |-> "none",
              request |-> "unsent", reply |-> "none", outcome |-> "none"]

BackInit ==
    /\ owner = "outside"
    /\ opening = 0
    /\ thread = [o \in Openings |-> FALSE]
    /\ loop = [o \in Openings |-> FALSE]
    /\ client = [o \in Openings |-> FALSE]
    /\ running = [o \in Openings |-> "absent"]
    /\ session = [o \in Openings |-> "none"]
    /\ tools = {}
    /\ forward = [f \in Forwards |-> NoForward]

-----------------------------------------------------------------------------
(* The owner: AlgentaToolset.__enter__ and __exit__                        *)

\* A new client object; connect starts its thread and waits for the loop.
Enter ==
    /\ owner \in {"outside", "raised", "left"}
    /\ opening < MaxOpenings
    /\ opening' = opening + 1
    /\ thread' = [thread EXCEPT ![opening + 1] = TRUE]
    /\ owner' = "starting"
    /\ UNCHANGED <<engineVars, loop, client, loopVars, tools, forward>>

\* created.wait(5.0) is over.  With a loop that answers the client is made and
\* entered; the object holds it from now on, whatever comes of entering it.
LoopSeen ==
    /\ owner = "starting"
    /\ loop[opening]
    /\ client' = [client EXCEPT ![opening] = TRUE]
    /\ owner' = "entering"
    /\ UNCHANGED <<engineVars, opening, thread, loop, loopVars, tools, forward>>

LoopNotSeen ==
    /\ owner = "starting"
    /\ "slow_loop" \in HostFaults
    /\ ~loop[opening]
    /\ owner' = "raised"
    /\ UNCHANGED <<engineVars, opening, objectVars, loopVars, tools, forward>>

\* asyncio.sleep(0), posted to see whether the loop turns, is not back in time.
LoopProbeFails ==
    /\ owner = "starting"
    /\ "slow_loop" \in HostFaults
    /\ loop[opening]
    /\ owner' = "raised"
    /\ UNCHANGED <<engineVars, opening, objectVars, loopVars, tools, forward>>

\* client.__aenter__, initialize and list_tools, awaited one after the other
\* on the loop; then the tools are handed to the agent.
Entered ==
    /\ owner = "entering"
    /\ running[opening] = "running"
    /\ session' = [session EXCEPT ![opening] = "open"]
    /\ tools' = tools \cup {opening}
    /\ owner' = "inside"
    /\ UNCHANGED <<engineVars, opening, objectVars, running, forward>>

\* One of them fails or times out, before or after the session is open.
\* __enter__ raises, so nobody calls __exit__.
EnterFails ==
    /\ owner = "entering"
    /\ "enter" \in HostFaults
    /\ \E s \in {"none", "open"} : session' = [session EXCEPT ![opening] = s]
    /\ owner' = "raised"
    /\ UNCHANGED <<engineVars, opening, objectVars, running, tools, forward>>

\* The with-block ends: disconnect waits for client.__aexit__.
Exit ==
    /\ owner = "inside"
    /\ owner' = "exiting"
    /\ UNCHANGED <<engineVars, opening, objectVars, loopVars, tools, forward>>

\* Mutant: the client is not awaited, and its session stays open.
SessionClosed_NotAwaited ==
    /\ owner = "exiting"
    /\ owner' = "closed"
    /\ UNCHANGED <<engineVars, opening, objectVars, loopVars, tools, forward>>

SessionClosed ==
    /\ owner = "exiting"
    /\ session' = [session EXCEPT ![opening] = "closed"]
    /\ owner' = "closed"
    /\ UNCHANGED <<engineVars, opening, objectVars, running, tools, forward>>

\* The object lets go of its client once that has been closed.
ClientForgotten ==
    /\ owner = "closed"
    /\ client' = [client EXCEPT ![opening] = FALSE]
    /\ owner' = "stopping"
    /\ UNCHANGED <<engineVars, opening, thread, loop, loopVars, tools, forward>>

\* __aexit__ raises or times out: disconnect ends here, and the loop and its
\* thread stay.
ExitFails ==
    /\ owner = "exiting"
    /\ "exit" \in HostFaults
    /\ \E s \in {"open", "closed"} : session' = [session EXCEPT ![opening] = s]
    /\ owner' = "raised"
    /\ UNCHANGED <<engineVars, opening, objectVars, running, tools, forward>>

\* The loop is asked to stop, and forgotten by the next statement.
StopLoop ==
    /\ owner = "stopping"
    /\ running' = [running EXCEPT ![opening] = "stopping"]
    /\ owner' = "forgetting"
    /\ UNCHANGED <<engineVars, opening, objectVars, session, tools, forward>>

LoopForgotten ==
    /\ owner = "forgetting"
    /\ loop' = [loop EXCEPT ![opening] = FALSE]
    /\ owner' = "joining"
    /\ UNCHANGED <<engineVars, opening, thread, client, loopVars, tools, forward>>

\* join(5.0) returns, be it because the five seconds are over.
Joined ==
    /\ owner = "joining"
    /\ running[opening] = "stopped" \/ "slow_loop" \in HostFaults
    /\ thread' = [thread EXCEPT ![opening] = FALSE]
    /\ owner' = "left"
    /\ UNCHANGED <<engineVars, opening, loop, client, loopVars, tools, forward>>

Owner ==
    \/ Enter \/ LoopSeen \/ LoopNotSeen \/ LoopProbeFails \/ Entered \/ EnterFails
    \/ Exit \/ SessionClosed \/ ExitFails \/ ClientForgotten
    \/ StopLoop \/ LoopForgotten \/ Joined

-----------------------------------------------------------------------------
(* The loop's thread                                                       *)

\* run_loop sets _loop and goes round for ever.
LoopRuns(o) ==
    /\ thread[o] /\ running[o] = "absent"
    /\ running' = [running EXCEPT ![o] = "running"]
    /\ loop' = [loop EXCEPT ![o] = TRUE]
    /\ UNCHANGED <<engineVars, owner, opening, thread, client, session, tools, forward>>

LoopStops(o) ==
    /\ running[o] = "stopping"
    /\ running' = [running EXCEPT ![o] = "stopped"]
    /\ UNCHANGED <<engineVars, owner, opening, objectVars, session, tools, forward>>

UntouchedByCalls == <<owner, opening, objectVars, loopVars, tools>>

Turning(f) == running[forward[f].object] \in {"running", "stopping"}

SessionOf(f) == session[forward[f].object]

\* The coroutine posted to the loop runs: it sends its request, or finds that
\* there is no session.
CoroutineRuns(f) ==
    /\ forward[f].coro = "posted"
    /\ Turning(f)
    /\ \/ /\ SessionOf(f) = "open"
          /\ forward' = [forward EXCEPT ![f].coro = "awaiting",
                                         ![f].request = "inflight"]
       \/ /\ SessionOf(f) # "open"
          /\ forward' = [forward EXCEPT ![f].coro = "broken"]
    /\ UNCHANGED <<engineVars, UntouchedByCalls>>

Verdict(answer) == IF answer.kind = "denial" THEN answer.detail ELSE answer.kind

\* The engine handles the request, whoever still waits for it.
HostEngineCall(f) ==
    /\ forward[f].request = "inflight"
    /\ \E answer \in EngineAnswers :
          /\ execute_decision(f, forward[f].decision, FALSE, FALSE, answer)
          /\ forward' = [forward EXCEPT ![f].request = "handled",
                                       ![f].reply = Verdict(answer)]
    /\ UNCHANGED UntouchedByCalls

\* The answer reaches the coroutine, or the session is closed under it.
CoroutineEnds(f) ==
    /\ forward[f].coro = "awaiting"
    /\ Turning(f)
    /\ \/ /\ SessionOf(f) = "open"
          /\ forward[f].request = "handled"
          /\ forward' = [forward EXCEPT ![f].coro = "answered"]
       \/ /\ SessionOf(f) # "open"
          /\ forward' = [forward EXCEPT ![f].coro = "broken"]
    /\ UNCHANGED <<engineVars, UntouchedByCalls>>

LoopThread ==
    \/ \E o \in Openings : LoopRuns(o) \/ LoopStops(o)
    \/ \E f \in Forwards : CoroutineRuns(f) \/ HostEngineCall(f) \/ CoroutineEnds(f)

-----------------------------------------------------------------------------
(* The agent's threads: forward, call_tool and _run                        *)

Returns(f, outcome) ==
    forward' = [forward EXCEPT ![f].at = "returned", ![f].outcome = outcome]

\* A thread goes on with the next line if the attribute it reads is set.
IfSet(f, attribute, error, next) ==
    \/ attribute[forward[f].object] /\ forward' = [forward EXCEPT ![f].at = next]
    \/ ~attribute[forward[f].object] /\ Returns(f, error)

\* An agent calls a tool it was handed, in the with-block or after it.
Begin(f) ==
    /\ forward[f].at = "idle"
    /\ \E o \in tools, d \in Decisions :
          forward' = [forward EXCEPT ![f].at = "forward", ![f].object = o,
                                     ![f].decision = d]
    /\ UNCHANGED <<engineVars, UntouchedByCalls>>

\* call_tool looks at _client, and then reads it again to make the coroutine.
ClientChecked(f) ==
    /\ forward[f].at = "forward"
    /\ IfSet(f, client, "not_connected", "checked")
    /\ UNCHANGED <<engineVars, UntouchedByCalls>>

CoroutineMade(f) ==
    /\ forward[f].at = "checked"
    /\ IfSet(f, client, "attribute_error", "made")
    /\ UNCHANGED <<engineVars, UntouchedByCalls>>

\* _run looks at _loop, and then reads it again to post the coroutine.
LoopChecked(f) ==
    /\ forward[f].at = "made"
    /\ IfSet(f, loop, "not_connected", "runnable")
    /\ UNCHANGED <<engineVars, UntouchedByCalls>>

Posted(f) ==
    /\ forward[f].at = "runnable"
    /\ \/ /\ loop[forward[f].object]
          /\ forward' = [forward EXCEPT ![f].at = "waiting", ![f].coro = "posted"]
       \/ /\ ~loop[forward[f].object]
          /\ Returns(f, "attribute_error")
    /\ UNCHANGED <<engineVars, UntouchedByCalls>>

\* Mutant: a session that is gone is reported as one that never was.
Resolved_NotConnected(f) ==
    /\ forward[f].at = "waiting"
    /\ \/ forward[f].coro = "answered" /\ Returns(f, forward[f].reply)
       \/ forward[f].coro = "broken" /\ Returns(f, "not_connected")
    /\ UNCHANGED <<engineVars, UntouchedByCalls>>

\* The future has a result: the engine's answer, or the session's error.
Resolved(f) ==
    /\ forward[f].at = "waiting"
    /\ \/ forward[f].coro = "answered" /\ Returns(f, forward[f].reply)
       \/ forward[f].coro = "broken" /\ Returns(f, "broken")
    /\ UNCHANGED <<engineVars, UntouchedByCalls>>

\* Mutant: the wait has no end.
ResultTimesOut_Never(f) ==
    /\ forward[f].at = "waiting"
    /\ forward[f].coro = "posted"
    /\ Turning(f)
    /\ Returns(f, "timed_out")
    /\ UNCHANGED <<engineVars, UntouchedByCalls>>

\* future.result(timeout=30.0) gives up; nothing cancels the coroutine.
ResultTimesOut(f) ==
    /\ forward[f].at = "waiting"
    /\ Returns(f, "timed_out")
    /\ UNCHANGED <<engineVars, UntouchedByCalls>>

AgentThread(f) ==
    \/ ClientChecked(f) \/ CoroutineMade(f) \/ LoopChecked(f) \/ Posted(f)
    \/ Resolved(f) \/ ResultTimesOut(f)

BackNext ==
    \/ Owner \/ LoopThread
    \/ \E f \in Forwards : Begin(f) \/ AgentThread(f)

-----------------------------------------------------------------------------
(* What must hold                                                          *)

\* A call told that there is no connection has sent nothing and never will: of
\* the calls behind a webhook request each was told its receipt, has yet to
\* hear, or was told that its answer is unknown; and whoever hears that a
\* decision has already been delivered has somebody who delivered it.
DeliveryIsTraceable ==
    /\ \A f \in Forwards : (\E x \in dispatches : x.by = f) =>
          forward[f].outcome \in {"none", "receipt", "timed_out", "broken"}
    /\ \A f \in Forwards : forward[f].outcome = "idempotency" =>
          \E x \in dispatches : x.decision = forward[f].decision /\ x.by # f

Sends(f) == forward[f].request = "unsent" /\ forward'[f].request = "inflight"

\* When a with-block has been left in order, no tool of it reaches the engine
\* any more, although the agent still holds it and a thread of the agent may
\* have been on its way into the loop.
NothingAfterTheBlock ==
    [][\A f \in Forwards : Sends(f) =>
          ~(forward[f].object = opening /\ owner = "left")]_backVars

\* Every call returns to its thread, be it with a timeout after the loop it
\* was posted to has stopped.
EveryForwardReturns ==
    \A f \in Forwards : forward[f].at = "forward" ~> forward[f].at = "returned"

-----------------------------------------------------------------------------
(* What the documentation says and the code does not do                    *)

\* toolset.py: disconnect will "close the MCP client and stop the background
\* loop".  When closing the client raises, and when entering it did, the loop
\* and its thread stay.
NoLoopIsLeft ==
    owner \in {"raised", "left"} =>
        \A o \in Openings : running[o] \in {"absent", "stopping", "stopped"}

\* A call that has been given up on does nothing any more.
TimedOutIsOver ==
    [][\A f \in Forwards : Sends(f) => forward[f].at # "returned"]_backVars

=============================================================================
