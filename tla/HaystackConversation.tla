------------------------ MODULE HaystackConversation ------------------------
(***************************************************************************)
(* haystack_algenta.hooks: an agent whose after_tool hook looks for        *)
(* denials.  In one step the model asks for some execute_decision calls,   *)
(* the agent runs all of them, writes their results into the state's       *)
(* messages, and only then runs the hook; a denial it finds is raised out  *)
(* of the run.  A caller may go on with the conversation it has recorded.  *)
(***************************************************************************)
EXTENDS GovernedEngine, Sequences

CONSTANTS
    ToolCalls,      \* the tool calls of the conversation, 1 .. their number
    MaxPerStep      \* bound on the calls the model asks for in one step

ASSUME ConversationAssumption ==
    /\ \A n \in ToolCalls : n \in Nat /\ 1 .. n \subseteq ToolCalls
    /\ ToolCalls \subseteq Requesters
    /\ MaxPerStep \in Nat

VARIABLES
    agent,      \* "model", "tools", "raised" or "ended"
    wanted,     \* the decisions the model has asked to execute in this step
    messages,   \* the tool results in state.data["messages"]
    stepStart,  \* the number of tool calls made before this step
    made,       \* the number of tool calls made so far
    raised      \* the calls whose denial has been raised, each with the
                \* number of calls made by then

talkVars == <<agent, wanted, messages, stepStart, made, raised>>

TalkInit ==
    /\ agent = "model"
    /\ wanted = <<>>
    /\ messages = <<>>
    /\ stepStart = 0
    /\ made = 0
    /\ raised = {}

\* The model answers with tool calls, or without and ends the run.
ModelAsks ==
    /\ agent = "model"
    /\ \E n \in 1 .. MaxPerStep : \E asked \in [1 .. n -> Decisions] :
          /\ made + n \in ToolCalls
          /\ wanted' = asked
    /\ agent' = "tools"
    /\ stepStart' = made
    /\ UNCHANGED <<engineVars, messages, made, raised>>

ModelEnds ==
    /\ agent = "model"
    /\ agent' = "ended"
    /\ UNCHANGED <<engineVars, wanted, messages, stepStart, made, raised>>

\* The agent runs the next of the step's tools and writes its result.
ToolRuns ==
    /\ agent = "tools"
    /\ wanted # <<>>
    /\ \E answer \in EngineAnswers :
          /\ execute_decision(made + 1, Head(wanted), FALSE, FALSE, answer)
          /\ messages' = Append(messages, [call |-> made + 1, answer |-> answer])
    /\ made' = made + 1
    /\ wanted' = Tail(wanted)
    /\ UNCHANGED <<agent, stepStart, raised>>

\* Mutant: the hook looks at the last message only.
Blocked_Last ==
    {i \in DOMAIN messages : i = Len(messages) /\ messages[i].answer.kind = "denial"}

\* The messages that parse as an ExecutionBlocked, of this step or any before.
Blocked == {i \in DOMAIN messages : messages[i].answer.kind = "denial"}

\* GovernedReceiptHook.run: the first denial among all messages is raised.
Hook ==
    /\ agent = "tools"
    /\ wanted = <<>>
    /\ \/ /\ Blocked = {}
          /\ agent' = "model"
          /\ UNCHANGED raised
       \/ \E first \in Blocked :
             /\ \A i \in Blocked : first <= i
             /\ agent' = "raised"
             /\ raised' = raised \cup {[call |-> messages[first].call, by |-> made]}
    /\ UNCHANGED <<engineVars, wanted, messages, stepStart, made>>

\* The caller starts over, or goes on with the conversation as recorded.
RunAgain ==
    /\ agent \in {"raised", "ended"}
    /\ \E kept \in {<<>>, messages} : messages' = kept
    /\ agent' = "model"
    /\ UNCHANGED <<engineVars, wanted, stepStart, made, raised>>

TalkNext == ModelAsks \/ ModelEnds \/ ToolRuns \/ Hook \/ RunAgain

-----------------------------------------------------------------------------
(* What must hold                                                          *)

\* The model never gets to read a denial that nobody was told of: whenever it
\* is asked, the step that each denial among the messages came from, or a
\* later one, has ended in an exception, whatever the other tools of that step
\* were told.
DenialStopsTheAgent ==
    agent = "model" =>
        \A i \in DOMAIN messages : messages[i].answer.kind = "denial" =>
            \E r \in raised : r.by >= messages[i].call

-----------------------------------------------------------------------------
(* What the documentation says and the code does not do                    *)

\* hooks.py: the hook parses "every just-produced tool-result message".  It
\* parses all of them, so a denial in a recorded conversation is raised after
\* every step from then on, whatever the step's own tools were told.
OnlyNewDenialsAreRaised ==
    [][\A r \in raised' \ raised : r.call > stepStart]_talkVars

\* A step whose run is ended by a denial has executed nothing.
RaisedStepDidNothing ==
    agent = "raised" =>
        \A i \in DOMAIN messages :
            messages[i].call > stepStart => messages[i].answer.kind = "denial"

=============================================================================
