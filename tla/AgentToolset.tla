---------------------------- MODULE AgentToolset ----------------------------
(***************************************************************************)
(* An agent's tools, as one of the framework packages builds them, between *)
(* a model and the engine.  Calls of the model run side by side; each      *)
(* sends its request, and hears the engine's answer as its package reports *)
(* it, unless the framework has given up on it first.  A request that was  *)
(* given up on is still on its way, and the model may call again.          *)
(*                                                                         *)
(* What a package does is in the module of that package; the operators     *)
(* below choose between them.                                              *)
(***************************************************************************)
EXTENDS ToolWire, GovernedEngine, FiniteSetsExt

CONSTANTS
    Dialects,       \* [package, style, manifest_version] that may meet
    Catalogues,     \* what the engine may advertise: tool name -> parameters
    Callers,        \* calls that run side by side
    ModelRequests,  \* [tool, decision, args]; args are the hidden fields set
    MaxCalls        \* calls made in all, retries included

Packages == {"pydantic-ai", "smolagents", "google-adk", "maf", "langchain",
             "llamaindex", "haystack", "algenta-tools"}

Requests == Callers \X (1 .. MaxCalls)

Sources == {"connection", "client", "tools"}

ASSUME ToolsetAssumption ==
    /\ Dialects \subseteq
           [package : Packages, style : Styles, manifest_version : ManifestVersions]
    /\ MaxCalls \in Nat
    /\ Requesters = Requests
    /\ ModelRequests \subseteq
           [tool : ToolNames, decision : Decisions,
            args : SUBSET NEVER_MODEL_FACING_FIELDS]

VARIABLES
    dialect,    \* the package, and how its engine speaks
    advertised, \* what the engine lists
    toolset,    \* [built, profile, source, offered] as create made it
    inflight,   \* requests on their way to the engine
    answers,    \* answers on their way back
    calls       \* each caller's current call

agentVars == <<dialect, advertised, toolset, inflight, answers, calls>>
vars == <<engineVars, agentVars>>

Pydantic == INSTANCE PydanticToolset
Smolagents == INSTANCE SmolagentsToolset
Adk == INSTANCE AdkToolset
Maf == INSTANCE MafToolset
Langchain == INSTANCE LangchainToolset
Llamaindex == INSTANCE LlamaindexToolset
Haystack == INSTANCE HaystackToolset
TypeScript == INSTANCE AlgentaToolsTs

-----------------------------------------------------------------------------

Accepts(package, profile, sources) ==
    CASE package = "pydantic-ai"   -> Pydantic!accepts(profile, sources)
      [] package = "smolagents"    -> Smolagents!accepts(profile, sources)
      [] package = "google-adk"    -> Adk!accepts(profile, sources)
      [] package = "maf"           -> Maf!accepts(profile, sources)
      [] package = "langchain"     -> Langchain!accepts(profile, sources)
      [] package = "llamaindex"    -> Llamaindex!accepts(profile, sources)
      [] package = "haystack"      -> Haystack!accepts(profile, sources)
      [] package = "algenta-tools" -> TypeScript!accepts(profile, sources)

\* A client of the caller's own, else tools of its own, else a connection the
\* package opens.
SourceOf(sources) ==
    CASE "client" \in sources -> "client"
      [] "client" \notin sources /\ "tools" \in sources -> "tools"
      [] sources \cap {"client", "tools"} = {} -> "connection"

Offered(package, profile, source) ==
    CASE package = "pydantic-ai" -> Pydantic!get_tools(profile, advertised)
      [] package = "smolagents"  -> Smolagents!enter(profile, source, advertised)
      [] package = "google-adk"  -> Adk!get_tools(profile, advertised)
      [] package = "maf" -> Maf!create_algenta_tools(profile, source, advertised)
      [] package = "langchain" -> Langchain!create_algenta_tools(profile, advertised)
      [] package = "llamaindex" -> Llamaindex!create_algenta_tools(profile, advertised)
      [] package = "haystack" ->
            Haystack!create_algenta_tools(profile, source, advertised)
      [] package = "algenta-tools" ->
            TypeScript!createAlgentaTools(profile, advertised)

SentArgs(package, args) ==
    CASE package = "pydantic-ai" -> Pydantic!scrubbed_args(args)
      [] package = "smolagents"  -> Smolagents!scrubbed(args)
      [] package = "google-adk"  -> Adk!scrubbed_args(args)
      [] package = "maf"         -> Maf!scrub_never_model_facing_args(args)
      [] package = "langchain" ->
            IF toolset.source = "tools"
            THEN Langchain!scrub_never_model_facing_args(args)
            ELSE Langchain!intercepted_args(args)
      [] package = "llamaindex" -> Llamaindex!scrub_never_model_facing_args(args)
      [] package = "haystack"   -> Haystack!scrub_never_model_facing_args(args)
      [] package = "algenta-tools" -> TypeScript!scrubNeverModelFacingArgs(args)

\* A client of the caller's own carries the interceptor too, as the docstring
\* of create_algenta_tools asks.
Intercepted == dialect.package = "langchain" /\ toolset.source # "tools"

\* The tools a call can reach: who built langchain's client can also ask it
\* for its own, longer list.
Reachable ==
    IF Intercepted /\ toolset.source = "client"
    THEN DOMAIN advertised ELSE DOMAIN toolset.offered

\* The packages that ask about the profile once more when a tool is called.
AllowedAtCall(tool) ==
    /\ Intercepted => Langchain!interceptor_allows(tool, toolset.profile)
    /\ dialect.package = "google-adk" =>
           Adk!run_async_allows(tool, toolset.profile)

Told(package, tool, result) ==
    CASE package = "pydantic-ai" -> Pydantic!call_tool(tool, result)
      [] package = "smolagents"  -> Smolagents!forward(tool, result)
      [] package = "google-adk"  -> Adk!map_execute_decision(tool, result)
      [] package = "maf"         -> Maf!call(tool, result)
      [] package = "langchain" ->
            IF Intercepted THEN Langchain!interceptor(tool, result)
                           ELSE Langchain!wrap_plain_tool(tool, result)
      [] package = "llamaindex" -> Llamaindex!resolve_call(tool, result)
      [] package = "haystack"   -> Haystack!after_tool(tool, result)
      [] package = "algenta-tools" -> TypeScript!wrapAlgentaTool(tool, result)

-----------------------------------------------------------------------------

Unheard == Body("unheard", "none", FALSE)

Call(stage, n, m, heard, told) ==
    [stage |-> stage, n |-> n, model |-> m, heard |-> heard, told |-> told]

NoRequest == CHOOSE m \in ModelRequests : TRUE

Init ==
    /\ EngineInit
    /\ dialect \in Dialects
    /\ advertised \in Catalogues
    /\ toolset = [built |-> "new", profile |-> "observe",
                  source |-> "connection", offered |-> <<>>]
    /\ inflight = {}
    /\ answers = {}
    /\ calls = [c \in Callers |-> Call("idle", 0, NoRequest, Unheard, Failed)]

Create(profile, sources) ==
    /\ toolset.built = "new"
    /\ \/ /\ Accepts(dialect.package, profile, sources)
          /\ toolset' = [built |-> "ready", profile |-> profile,
                 source |-> SourceOf(sources),
                 offered |-> Offered(dialect.package, profile, SourceOf(sources))]
       \/ /\ ~Accepts(dialect.package, profile, sources)
          /\ toolset' = [toolset EXCEPT !.built = "refused"]
    /\ UNCHANGED <<engineVars, dialect, advertised, inflight, answers, calls>>

\* Calls are numbered as they are made.
Made == Max({calls[c].n : c \in Callers})

\* A caller calls for the first time, or again after any outcome.
MayCall(c, m) ==
    /\ toolset.built = "ready"
    /\ calls[c].stage # "waiting"
    /\ Made < MaxCalls
    /\ m.tool \in Reachable

ModelCalls(c, m) ==
    /\ MayCall(c, m)
    /\ AllowedAtCall(m.tool)
    /\ calls' = [calls EXCEPT ![c] =
           Call("waiting", Made + 1, m, Unheard, Failed)]
    /\ inflight' = inflight \cup
           {[by |-> <<c, Made + 1>>, tool |-> m.tool,
             decision |-> m.decision,
             args |-> SentArgs(dialect.package, m.args)]}
    /\ UNCHANGED <<engineVars, dialect, advertised, toolset, answers>>

\* A call from behind the list that was offered.
CallRefused(c, m) ==
    /\ MayCall(c, m)
    /\ ~AllowedAtCall(m.tool)
    /\ calls' = [calls EXCEPT ![c] =
           Call("done", Made + 1, m, Unheard, Refused)]
    /\ UNCHANGED <<engineVars, dialect, advertised, toolset, inflight, answers>>

Awaited(by) == calls[by[1]].stage = "waiting" /\ calls[by[1]].n = by[2]

\* The engine runs a request, awaited or not.
EngineExecutes(r, answer) ==
    /\ r \in inflight
    /\ call_tool(r.by, r.tool, r.decision, "force" \in r.args,
                 "override_safety" \in r.args, answer)
    /\ inflight' = inflight \ {r}
    /\ answers' = answers \cup
           {[by |-> b, answer |-> answer] : b \in {b \in {r.by} : Awaited(b)}}
    /\ UNCHANGED <<dialect, advertised, toolset, calls>>

RequestLost(r) ==
    /\ r \in inflight
    /\ inflight' = inflight \ {r}
    /\ UNCHANGED <<engineVars, dialect, advertised, toolset, answers, calls>>

Answered(c) ==
    \E a \in answers :
       /\ a.by = <<c, calls[c].n>>
       /\ calls' = [calls EXCEPT ![c].stage = "done",
              ![c].heard = a.answer,
              ![c].told = Told(dialect.package, calls[c].model.tool,
                  CallToolResult(a.answer, dialect.style,
                                 dialect.manifest_version))]
       /\ answers' = answers \ {a}
       /\ UNCHANGED <<engineVars, dialect, advertised, toolset, inflight>>

\* A timeout or a broken connection: the call fails, whatever became of its
\* request.
GivesUp(c) ==
    /\ calls[c].stage = "waiting"
    /\ calls' = [calls EXCEPT ![c].stage = "done"]
    /\ answers' = {a \in answers : a.by[1] # c}
    /\ UNCHANGED <<engineVars, dialect, advertised, toolset, inflight>>

Next ==
    \/ \E profile \in ToolProfiles \cup {"unknown"}, sources \in SUBSET Sources :
          Create(profile, sources)
    \/ \E c \in Callers, m \in ModelRequests : ModelCalls(c, m) \/ CallRefused(c, m)
    \/ \E r \in inflight, answer \in EngineAnswers : EngineExecutes(r, answer)
    \/ \E r \in inflight : RequestLost(r)
    \/ \E c \in Callers : Answered(c) \/ GivesUp(c)

Spec == Init /\ [][Next]_vars

-----------------------------------------------------------------------------

Request ==
    [by : Requests, tool : ToolNames, decision : Decisions,
     args : SUBSET NEVER_MODEL_FACING_FIELDS]

\* Types of the state: what is on its way belongs to a call that was made,
\* and a caller has at most one answer coming.
ATypeOK ==
    /\ EngineTypeOK
    /\ inflight \subseteq Request
    /\ \A r \in inflight : r.by[2] <= calls[r.by[1]].n
    /\ answers \subseteq [by : {b \in Requests : Awaited(b)}, answer : EngineAnswers]
    /\ \A a, b \in answers : a.by = b.by => a = b
    /\ \A c \in Callers : calls[c].told \in Outcomes

\* force and override_safety reach nothing: no schema the model is shown has
\* them, and though the model sets them no webhook request is forced, no safety
\* gate is passed, and a call made again while the request of the one before is
\* still on its way delivers nothing a second time.
HiddenFieldsStayHidden ==
    /\ \A t \in DOMAIN toolset.offered :
          toolset.offered[t] \cap NEVER_MODEL_FACING_FIELDS = {}
    /\ \A x \in dispatches :
          ~x.forced /\ x.decision \notin LowConfidence \cup BelowRiskFloor
    /\ \A x, y \in dispatches : x.decision = y.decision => x = y
    /\ \A c \in Callers : ~calls[c].told.overridden

\* What reached the engine is what the profile allows of what it advertises.
OnlyWhatTheProfileAllows ==
    /\ dispatches # {} => /\ toolset.profile \in {"execute", "full"}
                          /\ "execute_decision" \in DOMAIN advertised
    /\ logged # {} => toolset.profile # "observe"

\* A call that hears a denial reports it as a denial, with its gate, and
\* nothing else is reported as one.
RefusalIsHeard ==
    \A c \in Callers : calls[c].stage = "done" =>
        /\ calls[c].heard.kind = "denial" <=> calls[c].told.kind = "denied"
        /\ calls[c].told.kind = "denied" =>
               calls[c].told.detail = calls[c].heard.detail

\* A call that hears a receipt passes it on with its status, and never calls
\* an execution that happened a failure or a refusal.
DeliveryIsNotAFailure ==
    \A c \in Callers :
        calls[c].stage = "done" /\ calls[c].heard.kind = "receipt" =>
            /\ calls[c].told.kind \in {"receipt", "raw"}
            /\ calls[c].told.detail = calls[c].heard.detail

=============================================================================
