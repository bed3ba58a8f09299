----------------------------- MODULE AgentHosts -----------------------------
(***************************************************************************)
(* A smolagents process and a haystack process at work on one engine.      *)
(***************************************************************************)
EXTENDS BackgroundClient, HaystackConversation

\* Each process's requests are its own.
ASSUME HostsAssumption == Forwards \cap ToolCalls = {}

hostVars == <<engineVars, backVars, talkVars>>

HInit == EngineInit /\ BackInit /\ TalkInit

HNext ==
    \/ BackNext /\ UNCHANGED talkVars
    \/ TalkNext /\ UNCHANGED backVars

HSpec == HInit /\ [][HNext]_hostVars

\* The agent's threads run, and their clocks go on.  The owner of the
\* with-block, the loop, the engine and the other process may hang.
HFairSpec ==
    /\ HSpec
    /\ \A f \in Forwards : WF_hostVars(AgentThread(f) /\ UNCHANGED talkVars)

=============================================================================
