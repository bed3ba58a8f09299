--------------------------- MODULE ToolsetProofs ---------------------------
(***************************************************************************)
(* What TLAPS proves of AgentToolset and of the eight packages, for all    *)
(* profiles, catalogues, decisions and wires, and any number of calls made *)
(* side by side.                                                           *)
(***************************************************************************)
EXTENDS AgentToolset, TLAPS


-----------------------------------------------------------------------------
(* The contract, as every package keeps it                                 *)

\* Names a profile may see: advertised, and allowed.
Permits(profile, names) ==
    \A name \in names :
       name \in DOMAIN advertised /\ is_tool_allowed_for_profile(name, profile)

\* Filtering by profile lets through what the profile allows.
LEMMA ResolvedAreAllowed ==
    \A profile, available :
       \A name \in resolve_profile_tool_names(profile, available) :
          name \in available /\ is_tool_allowed_for_profile(name, profile)
<1> QED
  BY DEF resolve_profile_tool_names, is_tool_allowed_for_profile

\* The packages know the same profiles, tiers and hidden fields.
LEMMA OneContract ==
    /\ Pydantic!NEVER_MODEL_FACING_FIELDS = NEVER_MODEL_FACING_FIELDS
    /\ Pydantic!ToolProfiles = ToolProfiles
    /\ \A profile, available :
          Pydantic!resolve_profile_tool_names(profile, available)
             = resolve_profile_tool_names(profile, available)
    /\ Smolagents!NEVER_MODEL_FACING_FIELDS = NEVER_MODEL_FACING_FIELDS
    /\ Smolagents!ToolProfiles = ToolProfiles
    /\ \A profile, available :
          Smolagents!resolve_profile_tool_names(profile, available)
             = resolve_profile_tool_names(profile, available)
    /\ Adk!NEVER_MODEL_FACING_FIELDS = NEVER_MODEL_FACING_FIELDS
    /\ Adk!ToolProfiles = ToolProfiles
    /\ \A profile, available :
          Adk!resolve_profile_tool_names(profile, available)
             = resolve_profile_tool_names(profile, available)
    /\ Maf!NEVER_MODEL_FACING_FIELDS = NEVER_MODEL_FACING_FIELDS
    /\ Maf!ToolProfiles = ToolProfiles
    /\ \A profile, available :
          Maf!resolve_profile_tool_names(profile, available)
             = resolve_profile_tool_names(profile, available)
    /\ Langchain!NEVER_MODEL_FACING_FIELDS = NEVER_MODEL_FACING_FIELDS
    /\ Langchain!ToolProfiles = ToolProfiles
    /\ \A profile, available :
          Langchain!resolve_profile_tool_names(profile, available)
             = resolve_profile_tool_names(profile, available)
    /\ Llamaindex!NEVER_MODEL_FACING_FIELDS = NEVER_MODEL_FACING_FIELDS
    /\ Llamaindex!ToolProfiles = ToolProfiles
    /\ \A profile, available :
          Llamaindex!resolve_profile_tool_names(profile, available)
             = resolve_profile_tool_names(profile, available)
    /\ Haystack!NEVER_MODEL_FACING_FIELDS = NEVER_MODEL_FACING_FIELDS
    /\ Haystack!ToolProfiles = ToolProfiles
    /\ \A profile, available :
          Haystack!resolve_profile_tool_names(profile, available)
             = resolve_profile_tool_names(profile, available)
    /\ TypeScript!NEVER_MODEL_FACING_FIELDS = NEVER_MODEL_FACING_FIELDS
    /\ TypeScript!ToolProfiles = ToolProfiles
    /\ \A profile, available :
          TypeScript!resolve_profile_tool_names(profile, available)
             = resolve_profile_tool_names(profile, available)
<1> USE DEF resolve_profile_tool_names, NamedTools, OBSERVE_TOOLS, GOVERN_TOOLS,
     EXECUTE_TOOLS, NEVER_MODEL_FACING_FIELDS, ToolProfiles
<1>1. /\ Pydantic!NEVER_MODEL_FACING_FIELDS = NEVER_MODEL_FACING_FIELDS
      /\ Pydantic!ToolProfiles = ToolProfiles
      /\ \A profile, available :
            Pydantic!resolve_profile_tool_names(profile, available)
               = resolve_profile_tool_names(profile, available)
  BY DEF Pydantic!resolve_profile_tool_names, Pydantic!NamedTools,
     Pydantic!OBSERVE_TOOLS, Pydantic!GOVERN_TOOLS, Pydantic!EXECUTE_TOOLS,
     Pydantic!NEVER_MODEL_FACING_FIELDS, Pydantic!ToolProfiles
<1>2. /\ Smolagents!NEVER_MODEL_FACING_FIELDS = NEVER_MODEL_FACING_FIELDS
      /\ Smolagents!ToolProfiles = ToolProfiles
      /\ \A profile, available :
            Smolagents!resolve_profile_tool_names(profile, available)
               = resolve_profile_tool_names(profile, available)
  BY DEF Smolagents!resolve_profile_tool_names, Smolagents!NamedTools,
     Smolagents!OBSERVE_TOOLS, Smolagents!GOVERN_TOOLS,
     Smolagents!EXECUTE_TOOLS, Smolagents!NEVER_MODEL_FACING_FIELDS,
     Smolagents!ToolProfiles
<1>3. /\ Adk!NEVER_MODEL_FACING_FIELDS = NEVER_MODEL_FACING_FIELDS
      /\ Adk!ToolProfiles = ToolProfiles
      /\ \A profile, available :
            Adk!resolve_profile_tool_names(profile, available)
               = resolve_profile_tool_names(profile, available)
  BY DEF Adk!resolve_profile_tool_names, Adk!NamedTools, Adk!OBSERVE_TOOLS,
     Adk!GOVERN_TOOLS, Adk!EXECUTE_TOOLS, Adk!NEVER_MODEL_FACING_FIELDS,
     Adk!ToolProfiles
<1>4. /\ Maf!NEVER_MODEL_FACING_FIELDS = NEVER_MODEL_FACING_FIELDS
      /\ Maf!ToolProfiles = ToolProfiles
      /\ \A profile, available :
            Maf!resolve_profile_tool_names(profile, available)
               = resolve_profile_tool_names(profile, available)
  BY DEF Maf!resolve_profile_tool_names, Maf!NamedTools, Maf!OBSERVE_TOOLS,
     Maf!GOVERN_TOOLS, Maf!EXECUTE_TOOLS, Maf!NEVER_MODEL_FACING_FIELDS,
     Maf!ToolProfiles
<1>5. /\ Langchain!NEVER_MODEL_FACING_FIELDS = NEVER_MODEL_FACING_FIELDS
      /\ Langchain!ToolProfiles = ToolProfiles
      /\ \A profile, available :
            Langchain!resolve_profile_tool_names(profile, available)
               = resolve_profile_tool_names(profile, available)
  BY DEF Langchain!resolve_profile_tool_names, Langchain!NamedTools,
     Langchain!OBSERVE_TOOLS, Langchain!GOVERN_TOOLS, Langchain!EXECUTE_TOOLS,
     Langchain!NEVER_MODEL_FACING_FIELDS, Langchain!ToolProfiles
<1>6. /\ Llamaindex!NEVER_MODEL_FACING_FIELDS = NEVER_MODEL_FACING_FIELDS
      /\ Llamaindex!ToolProfiles = ToolProfiles
      /\ \A profile, available :
            Llamaindex!resolve_profile_tool_names(profile, available)
               = resolve_profile_tool_names(profile, available)
  BY DEF Llamaindex!resolve_profile_tool_names, Llamaindex!NamedTools,
     Llamaindex!OBSERVE_TOOLS, Llamaindex!GOVERN_TOOLS,
     Llamaindex!EXECUTE_TOOLS, Llamaindex!NEVER_MODEL_FACING_FIELDS,
     Llamaindex!ToolProfiles
<1>7. /\ Haystack!NEVER_MODEL_FACING_FIELDS = NEVER_MODEL_FACING_FIELDS
      /\ Haystack!ToolProfiles = ToolProfiles
      /\ \A profile, available :
            Haystack!resolve_profile_tool_names(profile, available)
               = resolve_profile_tool_names(profile, available)
  BY DEF Haystack!resolve_profile_tool_names, Haystack!NamedTools,
     Haystack!OBSERVE_TOOLS, Haystack!GOVERN_TOOLS, Haystack!EXECUTE_TOOLS,
     Haystack!NEVER_MODEL_FACING_FIELDS, Haystack!ToolProfiles
<1>8. /\ TypeScript!NEVER_MODEL_FACING_FIELDS = NEVER_MODEL_FACING_FIELDS
      /\ TypeScript!ToolProfiles = ToolProfiles
      /\ \A profile, available :
            TypeScript!resolve_profile_tool_names(profile, available)
               = resolve_profile_tool_names(profile, available)
  BY DEF TypeScript!resolve_profile_tool_names, TypeScript!NamedTools,
     TypeScript!OBSERVE_TOOLS, TypeScript!GOVERN_TOOLS,
     TypeScript!EXECUTE_TOOLS, TypeScript!NEVER_MODEL_FACING_FIELDS,
     TypeScript!ToolProfiles
<1> QED
  BY <1>1, <1>2, <1>3, <1>4, <1>5, <1>6, <1>7, <1>8

\* langchain's interceptor asks the same question when a tool is called.
LEMMA InterceptorAsksTheContract ==
    \A name, profile :
       Langchain!interceptor_allows(name, profile)
          <=> is_tool_allowed_for_profile(name, profile)
<1> QED
  BY DEF Langchain!interceptor_allows, Langchain!is_tool_allowed_for_profile,
     is_tool_allowed_for_profile, NamedTools, OBSERVE_TOOLS, GOVERN_TOOLS,
     EXECUTE_TOOLS, Langchain!NamedTools, Langchain!OBSERVE_TOOLS,
     Langchain!GOVERN_TOOLS, Langchain!EXECUTE_TOOLS


\* No package sends an argument the model may not set.
LEMMA EveryPackageScrubs ==
    ASSUME NEW package \in Packages, NEW args \in SUBSET NEVER_MODEL_FACING_FIELDS
    PROVE  SentArgs(package, args) = {}
<1> QED
  BY OneContract DEF SentArgs, Packages, Pydantic!scrubbed_args,
     Smolagents!scrubbed, Adk!scrubbed_args, Maf!scrub_never_model_facing_args,
     Langchain!scrub_never_model_facing_args, Langchain!intercepted_args,
     Llamaindex!scrub_never_model_facing_args,
     Haystack!scrub_never_model_facing_args,
     TypeScript!scrubNeverModelFacingArgs

\* Every package refuses a profile it does not know.
LEMMA EveryPackageChecksTheProfile ==
    ASSUME NEW package \in Packages, NEW profile, NEW sources,
           Accepts(package, profile, sources)
    PROVE  profile \in ToolProfiles
<1> QED
  BY OneContract DEF Accepts, Packages, Pydantic!accepts, Smolagents!accepts,
     Adk!accepts, Maf!accepts, Langchain!accepts, Llamaindex!accepts,
     Haystack!accepts, TypeScript!accepts

\* What a package offers under a profile: advertised tools the profile allows,
\* none with a parameter the model may not set.
ProperOffer(profile, offered) ==
    /\ Permits(profile, DOMAIN offered)
    /\ \A t \in DOMAIN offered : offered[t] \cap NEVER_MODEL_FACING_FIELDS = {}

LEMMA EveryPackageOffersProperly ==
    ASSUME NEW package \in Packages, NEW profile, NEW source
    PROVE  ProperOffer(profile, Offered(package, profile, source))
<1> USE OneContract, ResolvedAreAllowed DEF ProperOffer, Permits
<1>1. CASE package = "pydantic-ai"
  BY <1>1 DEF Offered, Pydantic!get_tools, Pydantic!allowed_names,
     Pydantic!strip_never_model_facing_tool
<1>2. CASE package = "smolagents"
  BY <1>2 DEF Offered, Smolagents!enter, Smolagents!wrap_tools,
     Smolagents!allowed_names, Smolagents!mcp_schema_to_inputs,
     Smolagents!strip_never_model_facing_inputs
<1>3. CASE package = "google-adk"
  BY <1>3 DEF Offered, Adk!get_tools, Adk!allowed_names,
     Adk!strip_never_model_facing_schema
<1>4. CASE package = "maf"
  BY <1>4 DEF Offered, Maf!create_algenta_tools, Maf!wrap_functions,
     Maf!allowed_names, Maf!strip_never_model_facing_schema
<1>5. CASE package = "langchain"
  BY <1>5 DEF Offered, Langchain!create_algenta_tools, Langchain!allowed_names,
     Langchain!strip_never_model_facing_tool,
     Langchain!strip_never_model_facing_schema
<1>6. CASE package = "llamaindex"
  BY <1>6 DEF Offered, Llamaindex!create_algenta_tools,
     Llamaindex!allowed_names, Llamaindex!build_tool
<1>7. CASE package = "haystack"
  BY <1>7 DEF Offered, Haystack!create_algenta_tools, Haystack!allowed_names,
     Haystack!wrap_tool, Haystack!strip_never_model_facing_schema
<1>8. CASE package = "algenta-tools"
  BY <1>8 DEF Offered, TypeScript!createAlgentaTools,
     TypeScript!resolveProfileToolNames, TypeScript!stripNeverModelFacingSchema
<1> QED
  BY <1>1, <1>2, <1>3, <1>4, <1>5, <1>6, <1>7, <1>8 DEF Packages

-----------------------------------------------------------------------------
(* The wire, as each package reads it                                      *)

Details == {"delivered", "failed", "idempotency", "confidence", "risk_floor", "none"}

\* The fields of an answer, and of what a package can make of one.
LEMMA AnswerFields ==
    ASSUME NEW answer \in EngineAnswers
    PROVE  /\ answer.kind \in {"receipt", "denial", "payload", "tool_error"}
           /\ answer.detail \in Details /\ answer.overridden \in BOOLEAN
<1>1. CASE answer \in Receipts
  BY <1>1 DEF Receipts, Details
<1>2. CASE answer \in Denials \cup {Payload, ToolError}
  <2>1. PICK kind \in {"denial", "payload", "tool_error"},
             detail \in Gates \cup {"none"} : answer = Answer(kind, detail)
    BY <1>2 DEF Denials, Payload, ToolError
  <2>2. answer.kind = kind /\ answer.detail = detail /\ answer.overridden = FALSE
    BY <2>1 DEF Answer
  <2> QED
    BY <2>1, <2>2 DEF Gates, Details
<1> QED
  BY <1>1, <1>2 DEF EngineAnswers

\* The outcomes a package has for a result with the engine's answer in it.
LEMMA OutcomeFields ==
    ASSUME NEW answer \in EngineAnswers, NEW result, result.body = answer
    PROVE  /\ Failed \in Outcomes /\ Failed.kind = "failed"
           /\ ~Failed.overridden
           /\ Refused \in Outcomes /\ Refused.kind = "refused"
           /\ ~Refused.overridden
           /\ Raw(result) \in Outcomes /\ Raw(result).kind = "raw"
           /\ Raw(result).detail = answer.detail
           /\ Raw(result).overridden = answer.overridden
           /\ Denied(answer) \in Outcomes /\ Denied(answer).kind = "denied"
           /\ Denied(answer).detail = answer.detail
           /\ ~Denied(answer).overridden
           /\ Typed(answer) \in Outcomes /\ Typed(answer).kind = "receipt"
           /\ Typed(answer).detail = answer.detail
           /\ Typed(answer).overridden = answer.overridden
<1> USE AnswerFields DEF Body, Outcomes, Details
<1>1. /\ Failed \in Outcomes /\ Failed.kind = "failed" /\ ~Failed.overridden
      /\ Refused \in Outcomes /\ Refused.kind = "refused" /\ ~Refused.overridden
  BY DEF Failed, Refused
<1>2. /\ Raw(result) \in Outcomes /\ Raw(result).kind = "raw"
      /\ Raw(result).detail = answer.detail
      /\ Raw(result).overridden = answer.overridden
  BY DEF Raw
<1>3. /\ Denied(answer) \in Outcomes /\ Denied(answer).kind = "denied"
      /\ Denied(answer).detail = answer.detail /\ ~Denied(answer).overridden
  BY DEF Denied
<1>4. /\ Typed(answer) \in Outcomes /\ Typed(answer).kind = "receipt"
      /\ Typed(answer).detail = answer.detail
      /\ Typed(answer).overridden = answer.overridden
  BY DEF Typed
<1> QED
  BY <1>1, <1>2, <1>3, <1>4

\* The wires on which a package hears a denial, and the types of a receipt's
\* manifest_version with which it takes a receipt for one.
DenialStyles(package) ==
    CASE package \in {"pydantic-ai", "smolagents", "haystack"} -> {"in_band"}
      [] package \in {"google-adk", "llamaindex"} -> {"in_band", "error_json"}
      [] package \in {"maf", "langchain"}         -> {"prose", "error_json"}
      [] package = "algenta-tools"                -> {"error_json"}

ReceiptVersions(package) ==
    IF package \in {"maf", "llamaindex"} THEN {"string"} ELSE ManifestVersions

\* What told, the outcome reported to the model, has to do with the answer.
ReadsTheWire(package, tool, answer, style, version, told) ==
    LET result == CallToolResult(answer, style, version) IN
    /\ \/ told \in {Failed, Raw(result)}
       \/ told = Denied(answer) /\ answer.kind = "denial"
       \/ told = Typed(answer) /\ answer.kind = "receipt"
    /\ tool = "execute_decision" /\ answer.kind = "denial" =>
          (told = Denied(answer) <=> style \in DenialStyles(package))
    /\ tool = "execute_decision" /\ answer.kind = "receipt" =>
          (told # Failed <=> version \in ReceiptVersions(package))

\* How an answer looks on the wire.
LEMMA OnTheWire ==
    ASSUME NEW answer \in EngineAnswers, NEW style, NEW version
    PROVE  LET result == CallToolResult(answer, style, version) IN
           /\ result.body = answer /\ result.manifest_version = version
           /\ result.isError <=> \/ answer.kind = "tool_error"
                                 \/ answer.kind = "denial" /\ style # "in_band"
           /\ \/ answer.kind = "tool_error"
              \/ answer.kind = "denial" /\ style = "prose" => JsonOf(result).kind = "text"
           /\ answer.kind # "tool_error" /\ ~(answer.kind = "denial" /\ style = "prose")
                 => JsonOf(result) = answer
           /\ answer.kind = "tool_error" =>
                 JsonOf(result).kind = "text" /\ EmbeddedJsonOf(result).kind = "text"
           /\ answer.kind # "tool_error" => EmbeddedJsonOf(result) = answer
<1> QED
  BY AnswerFields DEF CallToolResult, JsonOf, EmbeddedJsonOf, Text, Body

\* The packages have one vocabulary for it.
LEMMA OneWire ==
    /\ Pydantic!Failed = Failed
    /\ \A x : /\ Pydantic!Raw(x) = Raw(x) /\ Pydantic!Denied(x) = Denied(x)
              /\ Pydantic!Typed(x) = Typed(x) /\ Pydantic!JsonOf(x) = JsonOf(x)
              /\ Pydantic!EmbeddedJsonOf(x) = EmbeddedJsonOf(x)
    /\ Smolagents!Failed = Failed
    /\ \A x : /\ Smolagents!Raw(x) = Raw(x) /\ Smolagents!Denied(x) = Denied(x)
              /\ Smolagents!Typed(x) = Typed(x) /\ Smolagents!JsonOf(x) = JsonOf(x)
              /\ Smolagents!EmbeddedJsonOf(x) = EmbeddedJsonOf(x)
    /\ Adk!Failed = Failed
    /\ \A x : /\ Adk!Raw(x) = Raw(x) /\ Adk!Denied(x) = Denied(x)
              /\ Adk!Typed(x) = Typed(x) /\ Adk!JsonOf(x) = JsonOf(x)
              /\ Adk!EmbeddedJsonOf(x) = EmbeddedJsonOf(x)
    /\ Maf!Failed = Failed
    /\ \A x : /\ Maf!Raw(x) = Raw(x) /\ Maf!Denied(x) = Denied(x)
              /\ Maf!Typed(x) = Typed(x) /\ Maf!JsonOf(x) = JsonOf(x)
              /\ Maf!EmbeddedJsonOf(x) = EmbeddedJsonOf(x)
    /\ Langchain!Failed = Failed
    /\ \A x : /\ Langchain!Raw(x) = Raw(x) /\ Langchain!Denied(x) = Denied(x)
              /\ Langchain!Typed(x) = Typed(x) /\ Langchain!JsonOf(x) = JsonOf(x)
              /\ Langchain!EmbeddedJsonOf(x) = EmbeddedJsonOf(x)
    /\ Llamaindex!Failed = Failed
    /\ \A x : /\ Llamaindex!Raw(x) = Raw(x) /\ Llamaindex!Denied(x) = Denied(x)
              /\ Llamaindex!Typed(x) = Typed(x) /\ Llamaindex!JsonOf(x) = JsonOf(x)
              /\ Llamaindex!EmbeddedJsonOf(x) = EmbeddedJsonOf(x)
    /\ Haystack!Failed = Failed
    /\ \A x : /\ Haystack!Raw(x) = Raw(x) /\ Haystack!Denied(x) = Denied(x)
              /\ Haystack!Typed(x) = Typed(x) /\ Haystack!JsonOf(x) = JsonOf(x)
              /\ Haystack!EmbeddedJsonOf(x) = EmbeddedJsonOf(x)
    /\ TypeScript!Failed = Failed
    /\ \A x : /\ TypeScript!Raw(x) = Raw(x) /\ TypeScript!Denied(x) = Denied(x)
              /\ TypeScript!Typed(x) = Typed(x) /\ TypeScript!JsonOf(x) = JsonOf(x)
              /\ TypeScript!EmbeddedJsonOf(x) = EmbeddedJsonOf(x)
<1> USE DEF Body, Text, Raw, Typed, Denied, Failed, JsonOf, EmbeddedJsonOf
<1>1. /\ Pydantic!Failed = Failed
      /\ \A x : /\ Pydantic!Raw(x) = Raw(x) /\ Pydantic!Denied(x) = Denied(x)
                /\ Pydantic!Typed(x) = Typed(x) /\ Pydantic!JsonOf(x) = JsonOf(x)
                /\ Pydantic!EmbeddedJsonOf(x) = EmbeddedJsonOf(x)
  BY DEF Pydantic!Body, Pydantic!Text, Pydantic!Raw, Pydantic!Typed,
     Pydantic!Denied, Pydantic!Failed, Pydantic!JsonOf, Pydantic!EmbeddedJsonOf
<1>2. /\ Smolagents!Failed = Failed
      /\ \A x : /\ Smolagents!Raw(x) = Raw(x) /\ Smolagents!Denied(x) = Denied(x)
                /\ Smolagents!Typed(x) = Typed(x) /\ Smolagents!JsonOf(x) = JsonOf(x)
                /\ Smolagents!EmbeddedJsonOf(x) = EmbeddedJsonOf(x)
  BY DEF Smolagents!Body, Smolagents!Text, Smolagents!Raw, Smolagents!Typed,
     Smolagents!Denied, Smolagents!Failed, Smolagents!JsonOf,
     Smolagents!EmbeddedJsonOf
<1>3. /\ Adk!Failed = Failed
      /\ \A x : /\ Adk!Raw(x) = Raw(x) /\ Adk!Denied(x) = Denied(x)
                /\ Adk!Typed(x) = Typed(x) /\ Adk!JsonOf(x) = JsonOf(x)
                /\ Adk!EmbeddedJsonOf(x) = EmbeddedJsonOf(x)
  BY DEF Adk!Body, Adk!Text, Adk!Raw, Adk!Typed, Adk!Denied, Adk!Failed,
     Adk!JsonOf, Adk!EmbeddedJsonOf
<1>4. /\ Maf!Failed = Failed
      /\ \A x : /\ Maf!Raw(x) = Raw(x) /\ Maf!Denied(x) = Denied(x)
                /\ Maf!Typed(x) = Typed(x) /\ Maf!JsonOf(x) = JsonOf(x)
                /\ Maf!EmbeddedJsonOf(x) = EmbeddedJsonOf(x)
  BY DEF Maf!Body, Maf!Text, Maf!Raw, Maf!Typed, Maf!Denied, Maf!Failed,
     Maf!JsonOf, Maf!EmbeddedJsonOf
<1>5. /\ Langchain!Failed = Failed
      /\ \A x : /\ Langchain!Raw(x) = Raw(x) /\ Langchain!Denied(x) = Denied(x)
                /\ Langchain!Typed(x) = Typed(x) /\ Langchain!JsonOf(x) = JsonOf(x)
                /\ Langchain!EmbeddedJsonOf(x) = EmbeddedJsonOf(x)
  BY DEF Langchain!Body, Langchain!Text, Langchain!Raw, Langchain!Typed,
     Langchain!Denied, Langchain!Failed, Langchain!JsonOf,
     Langchain!EmbeddedJsonOf
<1>6. /\ Llamaindex!Failed = Failed
      /\ \A x : /\ Llamaindex!Raw(x) = Raw(x) /\ Llamaindex!Denied(x) = Denied(x)
                /\ Llamaindex!Typed(x) = Typed(x) /\ Llamaindex!JsonOf(x) = JsonOf(x)
                /\ Llamaindex!EmbeddedJsonOf(x) = EmbeddedJsonOf(x)
  BY DEF Llamaindex!Body, Llamaindex!Text, Llamaindex!Raw, Llamaindex!Typed,
     Llamaindex!Denied, Llamaindex!Failed, Llamaindex!JsonOf,
     Llamaindex!EmbeddedJsonOf
<1>7. /\ Haystack!Failed = Failed
      /\ \A x : /\ Haystack!Raw(x) = Raw(x) /\ Haystack!Denied(x) = Denied(x)
                /\ Haystack!Typed(x) = Typed(x) /\ Haystack!JsonOf(x) = JsonOf(x)
                /\ Haystack!EmbeddedJsonOf(x) = EmbeddedJsonOf(x)
  BY DEF Haystack!Body, Haystack!Text, Haystack!Raw, Haystack!Typed,
     Haystack!Denied, Haystack!Failed, Haystack!JsonOf, Haystack!EmbeddedJsonOf
<1>8. /\ TypeScript!Failed = Failed
      /\ \A x : /\ TypeScript!Raw(x) = Raw(x) /\ TypeScript!Denied(x) = Denied(x)
                /\ TypeScript!Typed(x) = Typed(x) /\ TypeScript!JsonOf(x) = JsonOf(x)
                /\ TypeScript!EmbeddedJsonOf(x) = EmbeddedJsonOf(x)
  BY DEF TypeScript!Body, TypeScript!Text, TypeScript!Raw, TypeScript!Typed,
     TypeScript!Denied, TypeScript!Failed, TypeScript!JsonOf,
     TypeScript!EmbeddedJsonOf
<1> QED
  BY <1>1, <1>2, <1>3, <1>4, <1>5, <1>6, <1>7, <1>8

\* What each package makes of a result of the engine.
LEMMA EveryPackageReads ==
    ASSUME NEW package \in Packages, NEW tool, NEW answer \in EngineAnswers,
           NEW style \in Styles, NEW version \in ManifestVersions
    PROVE  ReadsTheWire(package, tool, answer, style, version,
               Told(package, tool, CallToolResult(answer, style, version)))
<1> DEFINE result == CallToolResult(answer, style, version)
<1>0. /\ Denied(answer) \notin {Failed, Raw(result), Typed(answer)}
      /\ Failed \notin {Raw(result), Typed(answer)}
  BY OnTheWire, OutcomeFields
<1> USE <1>0, AnswerFields, OnTheWire, OneWire
        DEF ReadsTheWire, DenialStyles, ReceiptVersions, Styles, ManifestVersions
<1>1. CASE package = "pydantic-ai"
  BY <1>1 DEF Told, Pydantic!call_tool, Pydantic!MCPToolset_raises,
     Pydantic!parse_denial, Pydantic!parse_receipt
<1>2. CASE package = "smolagents"
  BY <1>2 DEF Told, Smolagents!forward, Smolagents!extract_raises,
     Smolagents!extract_tool_result, Smolagents!parse_denial,
     Smolagents!parse_receipt
<1>3. CASE package = "google-adk"
  BY <1>3 DEF Told, Adk!map_execute_decision, Adk!extract_tool_payload,
     Adk!parse_denial, Adk!parse_receipt
<1>4. CASE package = "maf"
  BY <1>4 DEF Told, Maf!call, Maf!governed_execute_decision_call,
     Maf!invoke_raises, Maf!parse_execution_blocked,
     Maf!parse_execution_blocked_from_exception,
     Maf!extract_function_result_payload, Maf!parse_execution_receipt
<1>5. CASE package = "langchain"
  BY <1>5 DEF Told, Langchain!interceptor, Langchain!wrap_plain_tool,
     Langchain!resolve_governed_call, Langchain!parse_denial,
     Langchain!extract_embedded_json_object
<1>6. CASE package = "llamaindex"
  BY <1>6 DEF Told, Llamaindex!resolve_call, Llamaindex!unwrap_call_tool_result,
     Llamaindex!is_call_error, Llamaindex!parse_execution_denial,
     Llamaindex!parse_execution_receipt
<1>7. CASE package = "haystack"
  BY <1>7 DEF Told, Haystack!after_tool, Haystack!invoke_raises,
     Haystack!hook_blocks, Haystack!extract_execution_outcome_from_tool_result,
     Haystack!parse_execution_outcome, Haystack!unwrap_mcp_tool_result
<1>8. CASE package = "algenta-tools"
  BY <1>8 DEF Told, TypeScript!wrapAlgentaTool, TypeScript!extractToolPayload,
     TypeScript!isMcpErrorResult, TypeScript!parseExecutionBlockedBody,
     TypeScript!parseExecutionReceipt
<1> QED
  BY <1>1, <1>2, <1>3, <1>4, <1>5, <1>6, <1>7, <1>8 DEF Packages

-----------------------------------------------------------------------------
(* The inductive invariant                                                 *)

CallRecord ==
    [stage : {"idle", "waiting", "done"}, n : Nat,
     model : ModelRequests \cup {NoRequest},
     heard : EngineAnswers \cup {Unheard}, told : Outcomes]

\* Types of the rest of the state.
StateTypes ==
    /\ ATypeOK
    /\ dialect \in Dialects
    /\ DOMAIN toolset = {"built", "profile", "source", "offered"}
    /\ calls \in [Callers -> CallRecord]

\* A tool set that is ready has a profile, and offers what it allows; before
\* that nothing is offered, sent or done.
ToolsetIsProper ==
    \/ /\ toolset.built = "ready"
       /\ toolset.profile \in ToolProfiles
       /\ ProperOffer(toolset.profile, toolset.offered)
    \/ /\ toolset.built # "ready"
       /\ toolset.offered = <<>>
       /\ inflight = {} /\ answers = {} /\ dispatches = {} /\ logged = {}

\* The caller that called last has the highest number.
CallsAreNumbered ==
    Callers # {} => \E c \in Callers : \A e \in Callers : calls[e].n <= calls[c].n

\* A request carries nothing hidden and is for a permitted tool.
RequestsAreProper ==
    \A r \in inflight : r.args = {} /\ Permits(toolset.profile, {r.tool})

\* A request is made once, answered once at most, and is its caller's current
\* one only if it is for the tool the caller is calling.
RequestsAreOfTheirCalls ==
    /\ \A r, s \in inflight : r.by = s.by => r = s
    /\ \A r \in inflight : \A a \in answers : a.by # r.by
    /\ \A r \in inflight :
          r.by[2] = calls[r.by[1]].n => r.tool = calls[r.by[1]].model.tool

\* What the engine has done was permitted, nothing was forced on it, and what it
\* has delivered it marked, so that nothing went out twice.
EngineWasAskedProperly ==
    /\ \A x \in dispatches :
          ~x.forced /\ x.decision \notin LowConfidence \cup BelowRiskFloor
    /\ \A x \in dispatches : x.decision \in delivered
    /\ \A x, y \in dispatches : x.decision = y.decision => x = y
    /\ dispatches # {} => Permits(toolset.profile, {"execute_decision"})
    /\ logged # {} => Permits(toolset.profile, {"log_decision"})

\* An answer to a call of this tool, for which no gate was passed over.
FairAnswer(tool, answer) ==
    /\ ~answer.overridden
    /\ answer.kind \in {"receipt", "denial"} => tool = "execute_decision"

AnswersAreFair ==
    \A a \in answers : FairAnswer(calls[a.by[1]].model.tool, a.answer)

\* Every call has heard nothing yet, or what it was told is what its package
\* reads from what it heard.
ToldWhatWasHeard ==
    \A c \in Callers :
       \/ calls[c].heard = Unheard /\ calls[c].told \in {Failed, Refused}
       \/ /\ calls[c].heard \in EngineAnswers
          /\ FairAnswer(calls[c].model.tool, calls[c].heard)
          /\ ReadsTheWire(dialect.package, calls[c].model.tool, calls[c].heard,
                          dialect.style, dialect.manifest_version, calls[c].told)

AInv ==
    /\ StateTypes
    /\ ToolsetIsProper
    /\ CallsAreNumbered
    /\ RequestsAreProper
    /\ RequestsAreOfTheirCalls
    /\ EngineWasAskedProperly
    /\ AnswersAreFair
    /\ ToldWhatWasHeard

-----------------------------------------------------------------------------
(* The invariant is inductive                                              *)

\* What a request without hidden arguments can do to the engine.
LEMMA ProperCall ==
    ASSUME EngineTypeOK, NEW by \in Requesters, NEW tool, NEW d \in Decisions,
           NEW args, args = {}, NEW answer,
           call_tool(by, tool, d, "force" \in args, "override_safety" \in args, answer)
    PROVE  /\ EngineTypeOK'
           /\ FairAnswer(tool, answer)
           /\ logged' = logged \/ tool = "log_decision"
           /\ \/ dispatches' = dispatches /\ delivered' = delivered
              \/ /\ tool = "execute_decision"
                 /\ dispatches' = dispatches \cup
                        {[by |-> by, decision |-> d, forced |-> FALSE]}
                 /\ d \notin LowConfidence \cup BelowRiskFloor
                 /\ d \notin delivered /\ delivered' = delivered \cup {d}
<1> DEFINE force == "force" \in args
           override == "override_safety" \in args
<1>1. force = FALSE /\ override = FALSE
  OBVIOUS
<1> HIDE DEF force, override
<1>2. CASE /\ tool = "execute_decision"
           /\ Cleared(by, d, force, override)
           /\ answer = DeliveryReceipt(d, override)
  <2>1. d \notin LowConfidence \cup BelowRiskFloor /\ d \notin delivered
    BY <1>1, <1>2 DEF Cleared, StoppedAt
  <2>2. [by |-> by, decision |-> d, forced |-> FALSE] \in Dispatch
    BY DEF Dispatch
  <2>3. ~answer.overridden
    BY <1>1, <1>2 DEF DeliveryReceipt, Receipt
  <2> QED
    BY <1>1, <1>2, <2>1, <2>2, <2>3 DEF Cleared, EngineTypeOK, FairAnswer
<1>3. ASSUME NEW gate \in Gates, tool = "execute_decision",
             Stopped(d, force, override, gate), answer = Answer("denial", gate)
      PROVE  /\ EngineTypeOK' /\ UNCHANGED <<logged, dispatches, delivered>>
             /\ FairAnswer(tool, answer)
  BY <1>3 DEF Stopped, Answer, engineVars, EngineTypeOK, FairAnswer
<1>4. CASE tool = "log_decision" /\ log_decision(by, d, answer)
  <2>1. [by |-> by, decision |-> d] \in LoggedRecord
    BY DEF LoggedRecord
  <2> QED
    BY <1>4, <2>1 DEF log_decision, EngineTypeOK, FairAnswer, Payload, Answer
<1>5. CASE query_data(answer) \/ stateless_tool(answer)
  BY <1>5, EngineAssumption DEF query_data, stateless_tool, engineVars,
     EngineTypeOK, FairAnswer, Payload, ToolError, Answer
<1>6. \/ /\ tool = "execute_decision"
         /\ Cleared(by, d, force, override)
         /\ answer = DeliveryReceipt(d, override)
      \/ \E gate \in Gates : /\ tool = "execute_decision"
                             /\ Stopped(d, force, override, gate)
                             /\ answer = Answer("denial", gate)
      \/ tool = "log_decision" /\ log_decision(by, d, answer)
      \/ query_data(answer) \/ stateless_tool(answer)
  BY DEF call_tool, execute_decision, force, override
<1> QED
  BY <1>2, <1>3, <1>4, <1>5, <1>6

\* The last call's number is at hand when the next call is made.
LEMMA MadeIsLast ==
    ASSUME StateTypes, CallsAreNumbered, NEW c \in Callers
    PROVE  Made \in Nat /\ \A e \in Callers : calls[e].n <= Made
<1> DEFINE N == {calls[e].n : e \in Callers}
<1>1. \A e \in Callers : calls[e].n \in Nat
  BY DEF StateTypes, CallRecord
<1>2. \E x \in N : \A y \in N : x >= y
  BY <1>1 DEF CallsAreNumbered
<1>3. Max(N) \in N /\ \A y \in N : Max(N) >= y
  BY <1>2 DEF Max
<1> QED
  BY <1>1, <1>3 DEF Made

LEMMA ToolsetInit == Init => AInv
<1> SUFFICES ASSUME Init PROVE AInv
  OBVIOUS
<1>1. Failed \in Outcomes
  BY DEF Failed, Body, Outcomes
<1>2. calls \in [Callers -> CallRecord]
  BY <1>1 DEF Init, Call, CallRecord
<1>3. \A c \in Callers :
         calls[c].n = 0 /\ calls[c].heard = Unheard /\ calls[c].told = Failed
  BY DEF Init, Call
<1>4. StateTypes
  BY <1>1, <1>2, <1>3, EngineAssumption
     DEF Init, EngineInit, StateTypes, ATypeOK, EngineTypeOK
<1> QED
  BY <1>3, <1>4 DEF Init, EngineInit, AInv, ToolsetIsProper, CallsAreNumbered,
     RequestsAreProper, RequestsAreOfTheirCalls, EngineWasAskedProperly,
     AnswersAreFair, ToldWhatWasHeard

\* The package builds its tools, or refuses to.
LEMMA CreateStep ==
    ASSUME AInv, NEW profile, NEW sources, Create(profile, sources)
    PROVE  AInv'
<1> USE DEF AInv
<1>1. /\ inflight = {} /\ answers = {} /\ dispatches = {} /\ logged = {}
      /\ toolset.offered = <<>>
  BY DEF Create, ToolsetIsProper
<1>2. DOMAIN toolset' = DOMAIN toolset /\ ToolsetIsProper'
  <2>1. CASE Accepts(dialect.package, profile, sources)
    <3> DEFINE new == [built |-> "ready", profile |-> profile,
                       source |-> SourceOf(sources),
                       offered |-> Offered(dialect.package, profile,
                                           SourceOf(sources))]
    <3>1. /\ toolset'.built = "ready" /\ toolset'.profile = profile
          /\ toolset'.offered = new.offered
          /\ DOMAIN toolset' = {"built", "profile", "source", "offered"}
      BY <2>1 DEF Create
    <3>2. dialect.package \in Packages
      BY ToolsetAssumption DEF StateTypes
    <3>3. profile \in ToolProfiles /\ ProperOffer(profile, new.offered)
      BY <2>1, <3>2, EveryPackageChecksTheProfile, EveryPackageOffersProperly
    <3> HIDE DEF new
    <3>4. ProperOffer(toolset.profile, toolset.offered)'
      BY <3>1, <3>3 DEF ProperOffer, Permits, Create
    <3> QED
      BY <3>1, <3>3, <3>4 DEF ToolsetIsProper, StateTypes
  <2>2. CASE ~Accepts(dialect.package, profile, sources)
    BY <1>1, <2>2 DEF Create, StateTypes, ToolsetIsProper, engineVars
  <2> QED
    BY <2>1, <2>2
<1>3. StateTypes' /\ CallsAreNumbered' /\ ToldWhatWasHeard'
  BY <1>1, <1>2 DEF Create, StateTypes, ATypeOK, EngineTypeOK, engineVars,
     CallsAreNumbered, ToldWhatWasHeard
<1> QED
  BY <1>1, <1>2, <1>3 DEF Create, engineVars, RequestsAreProper,
     RequestsAreOfTheirCalls, EngineWasAskedProperly, AnswersAreFair

\* A request on its way is of a call its caller has made.
LEMMA RequestNumbers ==
    ASSUME StateTypes
    PROVE  \A s \in inflight :
              /\ s.by[1] \in Callers /\ s.by[2] \in Nat
              /\ s.by[2] <= calls[s.by[1]].n /\ calls[s.by[1]].n \in Nat
<1> QED
  BY ToolsetAssumption DEF StateTypes, ATypeOK, Request, Requests, CallRecord

\* What a call of the model sets: a call of its own, numbered past all others,
\* to a permitted tool or a refusal.
LEMMA NewCall ==
    ASSUME AInv, NEW c \in Callers, NEW m \in ModelRequests, MayCall(c, m),
           NEW stage \in {"waiting", "done"}, NEW told \in {Failed, Refused},
           calls' = [calls EXCEPT ![c] = Call(stage, Made + 1, m, Unheard, told)]
    PROVE  /\ Made \in Nat /\ Made + 1 \in 1 .. MaxCalls
           /\ calls' \in [Callers -> CallRecord]
           /\ \A e \in Callers : calls[e].n <= Made
           /\ \A e \in Callers \ {c} : calls'[e] = calls[e]
           /\ calls'[c].n = Made + 1 /\ calls'[c].model = m
           /\ calls'[c].stage = stage
           /\ \A e \in Callers : calls'[e].told \in Outcomes
           /\ CallsAreNumbered'
           /\ \A a \in answers : a.by[1] \in Callers \ {c}
           /\ ToldWhatWasHeard' \/ dialect' # dialect
<1> USE DEF AInv
<1>1. /\ Made \in Nat /\ Made + 1 \in 1 .. MaxCalls
      /\ \A e \in Callers : calls[e].n <= Made
  BY MadeIsLast, ToolsetAssumption DEF MayCall
<1>2. Failed \in Outcomes /\ Refused \in Outcomes
  BY DEF Failed, Refused, Body, Outcomes
<1> DEFINE new == Call(stage, Made + 1, m, Unheard, told)
<1>3. /\ new \in CallRecord /\ new.n = Made + 1 /\ new.model = m
      /\ new.stage = stage /\ new.heard = Unheard /\ new.told = told
  BY <1>1, <1>2 DEF Call, CallRecord
<1> HIDE DEF new
<1>4. /\ calls' \in [Callers -> CallRecord]
      /\ calls'[c] = new
      /\ \A e \in Callers \ {c} : calls'[e] = calls[e]
  BY <1>3 DEF StateTypes, new
<1>5. \A e \in Callers : calls'[e].told \in Outcomes
  BY <1>4 DEF CallRecord
<1>6. CallsAreNumbered'
  <2>1. \A e \in Callers : calls'[e].n <= calls'[c].n
    <3>1. \A e \in Callers : calls[e].n \in Nat
      BY DEF StateTypes, CallRecord
    <3> QED
      BY <1>1, <1>3, <1>4, <3>1
  <2> QED
    BY <2>1 DEF CallsAreNumbered
<1>7. \A a \in answers : a.by[1] \in Callers \ {c}
  BY DEF StateTypes, ATypeOK, Awaited, MayCall, Requests
<1>8. dialect' = dialect => ToldWhatWasHeard'
  BY <1>3, <1>4 DEF ToldWhatWasHeard
<1> QED
  BY <1>1, <1>3, <1>4, <1>5, <1>6, <1>7, <1>8

\* Answers to other calls are theirs still.
LEMMA OtherAnswersKeep ==
    ASSUME AInv, NEW c, UNCHANGED <<answers, dialect>>,
           \A a \in answers : a.by[1] \in Callers \ {c},
           \A e \in Callers \ {c} : calls'[e] = calls[e]
    PROVE  /\ AnswersAreFair'
           /\ answers \subseteq [by : {b \in Requests : Awaited(b)'}, answer : EngineAnswers]
<1>1. AnswersAreFair'
  BY DEF AInv, AnswersAreFair
<1>2. ASSUME NEW a \in answers
      PROVE  a \in [by : {b \in Requests : Awaited(b)'}, answer : EngineAnswers]
  BY DEF AInv, StateTypes, ATypeOK, Awaited
<1> QED
  BY <1>1, <1>2

LEMMA ModelCallsStep ==
    ASSUME AInv, NEW c \in Callers, NEW m \in ModelRequests, ModelCalls(c, m)
    PROVE  AInv'
<1> DEFINE r == [by |-> <<c, Made + 1>>, tool |-> m.tool, decision |-> m.decision,
                 args |-> SentArgs(dialect.package, m.args)]
<1> USE DEF AInv
<1>1. /\ inflight' = inflight \cup {r} /\ toolset.built = "ready"
      /\ UNCHANGED <<engineVars, dialect, advertised, toolset, answers>>
  BY DEF ModelCalls, MayCall
<1>2. /\ Made \in Nat /\ Made + 1 \in 1 .. MaxCalls
      /\ calls' \in [Callers -> CallRecord]
      /\ \A e \in Callers : calls[e].n <= Made
      /\ \A e \in Callers \ {c} : calls'[e] = calls[e]
      /\ calls'[c].n = Made + 1 /\ calls'[c].model = m
      /\ \A e \in Callers : calls'[e].told \in Outcomes
      /\ CallsAreNumbered'
      /\ \A a \in answers : a.by[1] \in Callers \ {c}
      /\ ToldWhatWasHeard'
  BY <1>1, NewCall DEF ModelCalls
<1>3. /\ r \in Request /\ r.by = <<c, Made + 1>> /\ r.tool = m.tool
      /\ r.args = {}
  <2>1. SentArgs(dialect.package, m.args) = {}
    BY EveryPackageScrubs, ToolsetAssumption DEF StateTypes
  <2> QED
    BY <1>2, <2>1, ToolsetAssumption DEF Request, Requests
<1>4. Permits(toolset.profile, {r.tool})
  <2>1. CASE m.tool \in DOMAIN toolset.offered
    BY <1>1, <1>3, <2>1 DEF ToolsetIsProper, ProperOffer, Permits
  <2>2. CASE Intercepted /\ m.tool \in DOMAIN advertised
    BY <1>3, <2>2, InterceptorAsksTheContract DEF ModelCalls, AllowedAtCall, Permits
  <2> QED
    BY <2>1, <2>2 DEF ModelCalls, MayCall, Reachable
<1> HIDE DEF r
<1>5. StateTypes'
  <2>1. answers \subseteq [by : {b \in Requests : Awaited(b)'}, answer : EngineAnswers]
    BY <1>1, <1>2, OtherAnswersKeep
  <2>3. ASSUME NEW s \in inflight' PROVE s.by[2] <= calls'[s.by[1]].n
    <3>1. CASE s = r
      BY <1>2, <1>3, <3>1
    <3>2. CASE s \in inflight
      BY <1>2, <3>2, RequestNumbers
    <3> QED
      BY <1>1, <3>1, <3>2
  <2>4. EngineTypeOK'
    BY <1>1 DEF StateTypes, ATypeOK, EngineTypeOK, engineVars
  <2> QED
    BY <1>1, <1>2, <1>3, <2>1, <2>3, <2>4 DEF StateTypes, ATypeOK
<1>6. RequestsAreOfTheirCalls'
  <2>1. \A s \in inflight :
           /\ s.by[1] \in Callers /\ s.by[2] \in Nat
           /\ s.by # r.by
           /\ s.by[1] = c => s.by[2] # calls'[c].n
    BY <1>2, <1>3, RequestNumbers
  <2>2. \A a \in answers : a.by # r.by
    BY <1>2, <1>3
  <2>3. \A s \in inflight' :
           s.by[2] = calls'[s.by[1]].n => s.tool = calls'[s.by[1]].model.tool
    BY <1>1, <1>2, <1>3, <2>1 DEF RequestsAreOfTheirCalls
  <2> QED
    BY <1>1, <2>1, <2>2, <2>3 DEF RequestsAreOfTheirCalls
<1>7. ToolsetIsProper' /\ EngineWasAskedProperly'
  BY <1>1 DEF ToolsetIsProper, EngineWasAskedProperly, ProperOffer, Permits,
     engineVars
<1>8. RequestsAreProper'
  BY <1>1, <1>3, <1>4 DEF RequestsAreProper, Permits
<1>9. AnswersAreFair'
  BY <1>1, <1>2, OtherAnswersKeep
<1> QED
  BY <1>2, <1>5, <1>6, <1>7, <1>8, <1>9

\* A call the package refuses itself.
LEMMA CallRefusedStep ==
    ASSUME AInv, NEW c \in Callers, NEW m \in ModelRequests, CallRefused(c, m)
    PROVE  AInv'
<1> USE DEF AInv
<1>1. UNCHANGED <<engineVars, dialect, advertised, toolset, inflight, answers>>
  BY DEF CallRefused
<1>2. /\ Made \in Nat /\ Made + 1 \in 1 .. MaxCalls
      /\ calls' \in [Callers -> CallRecord]
      /\ \A e \in Callers : calls[e].n <= Made
      /\ \A e \in Callers \ {c} : calls'[e] = calls[e]
      /\ calls'[c].n = Made + 1
      /\ \A e \in Callers : calls'[e].told \in Outcomes
      /\ CallsAreNumbered'
      /\ \A a \in answers : a.by[1] \in Callers \ {c}
      /\ ToldWhatWasHeard'
  BY <1>1, NewCall DEF CallRefused
<1>3. \A s \in inflight :
         /\ s.by[1] \in Callers /\ s.by[2] \in Nat
         /\ s.by[2] <= calls[s.by[1]].n /\ calls[s.by[1]].n \in Nat
  BY RequestNumbers
<1>4. \A s \in inflight :
         /\ s.by[2] <= calls'[s.by[1]].n
         /\ s.by[1] = c => s.by[2] # calls'[c].n
  BY <1>2, <1>3
<1>5. StateTypes'
  <2>1. answers \subseteq [by : {b \in Requests : Awaited(b)'}, answer : EngineAnswers]
    BY <1>1, <1>2, OtherAnswersKeep
  <2>2. EngineTypeOK'
    BY <1>1 DEF StateTypes, ATypeOK, EngineTypeOK, engineVars
  <2> QED
    BY <1>1, <1>2, <1>4, <2>1, <2>2 DEF StateTypes, ATypeOK
<1>6. RequestsAreOfTheirCalls'
  BY <1>1, <1>2, <1>3, <1>4 DEF RequestsAreOfTheirCalls
<1>7. ToolsetIsProper' /\ EngineWasAskedProperly' /\ RequestsAreProper'
  BY <1>1 DEF ToolsetIsProper, EngineWasAskedProperly, RequestsAreProper,
     ProperOffer, Permits, engineVars
<1>8. AnswersAreFair'
  BY <1>1, <1>2, OtherAnswersKeep
<1> QED
  BY <1>2, <1>5, <1>6, <1>7, <1>8

\* The engine runs a request, whether its caller waits for it or not.
LEMMA EngineExecutesStep ==
    ASSUME AInv, NEW r \in inflight, NEW answer \in EngineAnswers,
           EngineExecutes(r, answer)
    PROVE  AInv'
<1> USE DEF AInv
<1>1. /\ inflight' = inflight \ {r}
      /\ UNCHANGED <<dialect, advertised, toolset, calls>>
      /\ \A a \in answers' :
            a \in answers \/ (a = [by |-> r.by, answer |-> answer] /\ Awaited(r.by))
      /\ answers \subseteq answers'
  BY DEF EngineExecutes
<1>2. /\ r.by \in Requesters /\ r.by \in Requests /\ r.decision \in Decisions
      /\ r.args = {} /\ Permits(toolset.profile, {r.tool})
      /\ toolset.built = "ready"
  BY ToolsetAssumption
     DEF StateTypes, ATypeOK, Request, RequestsAreProper, ToolsetIsProper
<1>3. /\ EngineTypeOK'
      /\ FairAnswer(r.tool, answer)
      /\ logged' = logged \/ r.tool = "log_decision"
      /\ \/ dispatches' = dispatches /\ delivered' = delivered
         \/ /\ r.tool = "execute_decision"
            /\ dispatches' = dispatches \cup
                   {[by |-> r.by, decision |-> r.decision, forced |-> FALSE]}
            /\ r.decision \notin LowConfidence \cup BelowRiskFloor
            /\ r.decision \notin delivered
            /\ delivered' = delivered \cup {r.decision}
  <2>1. /\ EngineTypeOK
        /\ call_tool(r.by, r.tool, r.decision, "force" \in r.args,
                     "override_safety" \in r.args, answer)
    BY DEF EngineExecutes, StateTypes, ATypeOK
  <2> QED
    BY <1>2, <2>1, ProperCall
<1>4. StateTypes'
  <2>1. Awaited(r.by)' <=> Awaited(r.by)
    BY <1>1 DEF Awaited
  <2>2. answers' \subseteq [by : {b \in Requests : Awaited(b)'}, answer : EngineAnswers]
    BY <1>1, <1>2 DEF StateTypes, ATypeOK, Awaited
  <2>3. \A a, b \in answers' : a.by = b.by => a = b
    BY <1>1 DEF StateTypes, ATypeOK, RequestsAreOfTheirCalls
  <2> QED
    BY <1>1, <1>3, <2>2, <2>3 DEF StateTypes, ATypeOK
<1>5. RequestsAreOfTheirCalls'
  BY <1>1 DEF RequestsAreOfTheirCalls
<1>6. EngineWasAskedProperly'
  <2>1. CASE dispatches' = dispatches /\ delivered' = delivered
    BY <1>1, <1>2, <1>3, <2>1 DEF EngineWasAskedProperly, Permits
  <2>2. CASE /\ r.tool = "execute_decision"
             /\ dispatches' = dispatches \cup
                    {[by |-> r.by, decision |-> r.decision, forced |-> FALSE]}
             /\ r.decision \notin LowConfidence \cup BelowRiskFloor
             /\ r.decision \notin delivered
             /\ delivered' = delivered \cup {r.decision}
    <3>1. \A x \in dispatches' :
             /\ ~x.forced /\ x.decision \notin LowConfidence \cup BelowRiskFloor
             /\ x.decision \in delivered'
      BY <2>2 DEF EngineWasAskedProperly
    <3>2. \A x, y \in dispatches' : x.decision = y.decision => x = y
      <4> DEFINE sent == [by |-> r.by, decision |-> r.decision, forced |-> FALSE]
      <4>1. \A x \in dispatches : x.decision # sent.decision
        BY <2>2 DEF EngineWasAskedProperly
      <4>2. dispatches' = dispatches \cup {sent}
        BY <2>2
      <4> HIDE DEF sent
      <4> QED
        BY <4>1, <4>2 DEF EngineWasAskedProperly
    <3>3. logged' # {} => Permits(toolset.profile, {"log_decision"})'
      BY <1>1, <1>3, <2>2 DEF EngineWasAskedProperly, Permits
    <3>4. Permits(toolset.profile, {"execute_decision"})'
      BY <1>1, <1>2, <2>2 DEF Permits
    <3> QED
      BY <3>1, <3>2, <3>3, <3>4 DEF EngineWasAskedProperly
  <2> QED
    BY <1>3, <2>1, <2>2
<1>7. AnswersAreFair'
  <2>1. Awaited(r.by) => r.tool = calls[r.by[1]].model.tool
    BY DEF Awaited, RequestsAreOfTheirCalls
  <2> QED
    BY <1>1, <1>3, <2>1 DEF AnswersAreFair
<1>8. ToolsetIsProper' /\ RequestsAreProper'
  BY <1>1, <1>2 DEF ToolsetIsProper, RequestsAreProper, ProperOffer, Permits
<1>9. CallsAreNumbered' /\ ToldWhatWasHeard'
  BY <1>1 DEF CallsAreNumbered, ToldWhatWasHeard
<1> QED
  BY <1>4, <1>5, <1>6, <1>7, <1>8, <1>9

\* A request is lost, or nothing changes.
LEMMA RequestLostStep ==
    ASSUME AInv, (\E r \in inflight : RequestLost(r)) \/ UNCHANGED vars
    PROVE  AInv'
<1>1. /\ inflight' \subseteq inflight
      /\ UNCHANGED <<engineVars, dialect, advertised, toolset, answers, calls>>
  BY DEF RequestLost, vars, agentVars
<1> USE DEF AInv, engineVars
<1>2. StateTypes'
  <2>1. EngineTypeOK'
    BY <1>1 DEF StateTypes, ATypeOK, EngineTypeOK
  <2>2. answers' \subseteq [by : {b \in Requests : Awaited(b)'}, answer : EngineAnswers]
    BY <1>1 DEF StateTypes, ATypeOK, Awaited
  <2> QED
    BY <1>1, <2>1, <2>2 DEF StateTypes, ATypeOK
<1>3. ToolsetIsProper' /\ RequestsAreProper' /\ EngineWasAskedProperly'
  BY <1>1 DEF ToolsetIsProper, RequestsAreProper, EngineWasAskedProperly,
     ProperOffer, Permits
<1>4. RequestsAreOfTheirCalls' /\ AnswersAreFair'
  BY <1>1 DEF RequestsAreOfTheirCalls, AnswersAreFair
<1>5. CallsAreNumbered' /\ ToldWhatWasHeard'
  BY <1>1 DEF CallsAreNumbered, ToldWhatWasHeard
<1> QED
  BY <1>2, <1>3, <1>4, <1>5

\* A call that ends, with the answer it waited for or without one, keeps its
\* number and its tool; what was on its way to it is gone.
LEMMA CallEnds ==
    ASSUME AInv, NEW c \in Callers,
           calls' \in [Callers -> CallRecord],
           calls'[c].n = calls[c].n /\ calls'[c].model = calls[c].model,
           \A e \in Callers \ {c} : calls'[e] = calls[e],
           answers' = {a \in answers : a.by[1] # c},
           ToldWhatWasHeard',
           UNCHANGED <<engineVars, dialect, advertised, toolset, inflight>>
    PROVE  AInv'
<1> USE DEF AInv
<1>1. \A e \in Callers : calls'[e].n = calls[e].n /\ calls'[e].model = calls[e].model
  OBVIOUS
<1>2. StateTypes'
  <2>1. EngineTypeOK'
    BY DEF StateTypes, ATypeOK, EngineTypeOK, engineVars
  <2>2. ASSUME NEW a \in answers'
        PROVE  a \in [by : {b \in Requests : Awaited(b)'}, answer : EngineAnswers]
    <3>1. a.by \in Requests /\ Awaited(a.by) /\ a.by[1] \in Callers \ {c}
      BY DEF StateTypes, ATypeOK, Requests
    <3>2. Awaited(a.by)'
      BY <3>1 DEF Awaited
    <3> QED
      BY <3>1, <3>2 DEF StateTypes, ATypeOK
  <2>3. \A e \in Callers : calls'[e].told \in Outcomes
    BY DEF CallRecord
  <2>4. \A s \in inflight : s.by[2] <= calls'[s.by[1]].n
    BY <1>1, RequestNumbers DEF StateTypes, ATypeOK
  <2> QED
    BY <2>1, <2>2, <2>3, <2>4 DEF StateTypes, ATypeOK
<1>3. ToolsetIsProper' /\ RequestsAreProper' /\ EngineWasAskedProperly'
  BY DEF ToolsetIsProper, RequestsAreProper, EngineWasAskedProperly,
     ProperOffer, Permits, engineVars
<1>4. RequestsAreOfTheirCalls'
  BY <1>1, RequestNumbers DEF RequestsAreOfTheirCalls
<1>5. AnswersAreFair'
  <2>1. \A a \in answers' : a \in answers /\ a.by[1] \in Callers
    BY DEF StateTypes, ATypeOK, Requests
  <2> QED
    BY <1>1, <2>1 DEF AnswersAreFair
<1>6. CallsAreNumbered'
  BY <1>1 DEF CallsAreNumbered
<1> QED
  BY <1>2, <1>3, <1>4, <1>5, <1>6

\* The answer a call waited for reaches it, through its package.
LEMMA AnsweredStep ==
    ASSUME AInv, NEW c \in Callers, Answered(c)
    PROVE  AInv'
<1> USE DEF AInv
<1>1. PICK a \in answers :
         /\ a.by = <<c, calls[c].n>>
         /\ calls' = [calls EXCEPT ![c].stage = "done",
                ![c].heard = a.answer,
                ![c].told = Told(dialect.package, calls[c].model.tool,
                    CallToolResult(a.answer, dialect.style,
                                   dialect.manifest_version))]
         /\ answers' = answers \ {a}
         /\ UNCHANGED <<engineVars, dialect, advertised, toolset, inflight>>
  BY DEF Answered
<1> DEFINE told == Told(dialect.package, calls[c].model.tool,
                        CallToolResult(a.answer, dialect.style,
                                       dialect.manifest_version))
<1>2. a.answer \in EngineAnswers /\ FairAnswer(calls[c].model.tool, a.answer)
  BY <1>1 DEF StateTypes, ATypeOK, AnswersAreFair
<1>3. ReadsTheWire(dialect.package, calls[c].model.tool, a.answer,
                   dialect.style, dialect.manifest_version, told)
  <2>1. /\ dialect.package \in Packages /\ dialect.style \in Styles
        /\ dialect.manifest_version \in ManifestVersions
    BY ToolsetAssumption DEF StateTypes
  <2> QED
    BY <1>2, <2>1, EveryPackageReads
<1> HIDE DEF told
<1>4. told \in Outcomes
  BY <1>2, <1>3, OnTheWire, OutcomeFields DEF ReadsTheWire
<1>5. /\ calls' \in [Callers -> CallRecord]
      /\ calls'[c].n = calls[c].n /\ calls'[c].model = calls[c].model
      /\ calls'[c].heard = a.answer /\ calls'[c].told = told
      /\ \A e \in Callers \ {c} : calls'[e] = calls[e]
  <2>1. calls' = [calls EXCEPT ![c] =
           [calls[c] EXCEPT !.stage = "done", !.heard = a.answer, !.told = told]]
    BY <1>1 DEF StateTypes, CallRecord, told
  <2> DEFINE new == [calls[c] EXCEPT !.stage = "done", !.heard = a.answer,
                                     !.told = told]
  <2>2. /\ new \in CallRecord /\ new.n = calls[c].n /\ new.model = calls[c].model
        /\ new.heard = a.answer /\ new.told = told
    BY <1>2, <1>4 DEF StateTypes, CallRecord
  <2> HIDE DEF new
  <2>3. calls' = [calls EXCEPT ![c] = new]
    BY <2>1 DEF new
  <2> QED
    BY <2>2, <2>3 DEF StateTypes
<1>6. answers' = {b \in answers : b.by[1] # c}
  <2>1. \A b \in answers : b.by[1] = c => b.by = a.by
    BY <1>1 DEF StateTypes, ATypeOK, Awaited, Requests
  <2> QED
    BY <1>1, <2>1 DEF StateTypes, ATypeOK
<1>7. ToldWhatWasHeard'
  BY <1>1, <1>2, <1>3, <1>5 DEF ToldWhatWasHeard
<1> QED
  BY <1>1, <1>5, <1>6, <1>7, CallEnds

\* A timeout or a broken connection ends a call.
LEMMA GivesUpStep ==
    ASSUME AInv, NEW c \in Callers, GivesUp(c)
    PROVE  AInv'
<1> USE DEF AInv
<1>1. /\ calls' \in [Callers -> CallRecord]
      /\ calls'[c].n = calls[c].n /\ calls'[c].model = calls[c].model
      /\ calls'[c].heard = calls[c].heard /\ calls'[c].told = calls[c].told
      /\ \A e \in Callers \ {c} : calls'[e] = calls[e]
  BY DEF GivesUp, StateTypes, CallRecord
<1>2. ToldWhatWasHeard'
  BY <1>1 DEF ToldWhatWasHeard, GivesUp
<1> QED
  BY <1>1, <1>2, CallEnds DEF GivesUp

LEMMA ToolsetInvariantStep == AInv /\ [Next]_vars => AInv'
<1> SUFFICES ASSUME AInv, [Next]_vars PROVE AInv'
  OBVIOUS
<1> QED
  BY CreateStep, ModelCallsStep, CallRefusedStep, EngineExecutesStep,
     RequestLostStep, AnsweredStep, GivesUpStep DEF Next

\* The invariant holds of every run, with every package on every wire.
THEOREM ToolsetInvariance == Spec => []AInv
<1> QED
  BY ToolsetInit, ToolsetInvariantStep, PTL DEF Spec

-----------------------------------------------------------------------------
(* What follows from it                                                    *)

\* Type correctness: what is on its way belongs to a call that was made, and no
\* caller has more than one answer coming.
THEOREM ToolsetTypeCorrect == Spec => []ATypeOK
<1> QED
  BY ToolsetInvariance, PTL DEF AInv, StateTypes

\* Whatever the model puts into a call, and however often it calls, no schema it
\* is shown has force or override_safety, no webhook request is forced, no safety
\* gate is passed, and no decision's webhook request goes out twice.
THEOREM HiddenFieldsReachNothing == Spec => []HiddenFieldsStayHidden
<1>1. AInv => HiddenFieldsStayHidden
  <2> SUFFICES ASSUME AInv PROVE HiddenFieldsStayHidden
    OBVIOUS
  <2> USE DEF AInv
  <2>1. \A t \in DOMAIN toolset.offered :
           toolset.offered[t] \cap NEVER_MODEL_FACING_FIELDS = {}
    BY DEF ToolsetIsProper, ProperOffer
  <2>2. ASSUME NEW c \in Callers PROVE ~calls[c].told.overridden
    <3>1. CASE calls[c].told \in {Failed, Refused}
      BY <3>1 DEF Failed, Refused, Body
    <3>2. CASE /\ calls[c].heard \in EngineAnswers
               /\ FairAnswer(calls[c].model.tool, calls[c].heard)
               /\ ReadsTheWire(dialect.package, calls[c].model.tool, calls[c].heard,
                      dialect.style, dialect.manifest_version, calls[c].told)
      BY <3>2, OnTheWire, OutcomeFields DEF FairAnswer, ReadsTheWire
    <3> QED
      BY <3>1, <3>2 DEF ToldWhatWasHeard
  <2> QED
    BY <2>1, <2>2 DEF HiddenFieldsStayHidden, EngineWasAskedProperly
<1> QED
  BY <1>1, ToolsetInvariance, PTL

\* What reached the engine is what the profile allows of what it advertises.
THEOREM ProfilesBoundTheEngine == Spec => []OnlyWhatTheProfileAllows
<1>1. AInv => OnlyWhatTheProfileAllows
  <2> SUFFICES ASSUME AInv PROVE OnlyWhatTheProfileAllows
    OBVIOUS
  <2>1. /\ ~is_tool_allowed_for_profile("execute_decision", "observe")
        /\ ~is_tool_allowed_for_profile("execute_decision", "govern")
        /\ ~is_tool_allowed_for_profile("log_decision", "observe")
    BY DEF is_tool_allowed_for_profile, NamedTools, OBSERVE_TOOLS, GOVERN_TOOLS
  <2> QED
    BY <2>1 DEF AInv, ToolsetIsProper, EngineWasAskedProperly, Permits,
       ToolProfiles, OnlyWhatTheProfileAllows
<1> QED
  BY <1>1, ToolsetInvariance, PTL

\* Every package that meets an engine whose denials it can hear reports each of
\* them as a denial, with its gate, and nothing else as one.
THEOREM DenialsAreHeard ==
    (\A d \in Dialects : d.style \in DenialStyles(d.package))
       => (Spec => []RefusalIsHeard)
<1> SUFFICES ASSUME \A d \in Dialects : d.style \in DenialStyles(d.package)
             PROVE  Spec => []RefusalIsHeard
  OBVIOUS
<1>1. AInv => RefusalIsHeard
  <2> SUFFICES ASSUME AInv, NEW c \in Callers
               PROVE  /\ calls[c].heard.kind = "denial" <=> calls[c].told.kind = "denied"
                      /\ calls[c].told.kind = "denied" =>
                             calls[c].told.detail = calls[c].heard.detail
    BY DEF RefusalIsHeard
  <2>1. CASE calls[c].heard = Unheard /\ calls[c].told \in {Failed, Refused}
    BY <2>1 DEF Unheard, Failed, Refused, Body
  <2>2. CASE /\ calls[c].heard \in EngineAnswers
             /\ FairAnswer(calls[c].model.tool, calls[c].heard)
             /\ ReadsTheWire(dialect.package, calls[c].model.tool, calls[c].heard,
                    dialect.style, dialect.manifest_version, calls[c].told)
    <3>1. dialect.style \in DenialStyles(dialect.package)
      BY DEF AInv, StateTypes
    <3> QED
      BY <2>2, <3>1, OnTheWire, OutcomeFields DEF FairAnswer, ReadsTheWire
  <2> QED
    BY <2>1, <2>2 DEF AInv, ToldWhatWasHeard
<1> QED
  BY <1>1, ToolsetInvariance, PTL

\* Every package that can read the engine's receipts passes them on with their
\* status, and never calls an execution that happened a failure or a refusal.
THEOREM ReceiptsAreHeard ==
    (\A d \in Dialects : d.manifest_version \in ReceiptVersions(d.package))
       => (Spec => []DeliveryIsNotAFailure)
<1> SUFFICES ASSUME \A d \in Dialects :
                       d.manifest_version \in ReceiptVersions(d.package)
             PROVE  Spec => []DeliveryIsNotAFailure
  OBVIOUS
<1>1. AInv => DeliveryIsNotAFailure
  <2> SUFFICES ASSUME AInv, NEW c \in Callers, calls[c].heard.kind = "receipt"
               PROVE  /\ calls[c].told.kind \in {"receipt", "raw"}
                      /\ calls[c].told.detail = calls[c].heard.detail
    BY DEF DeliveryIsNotAFailure
  <2>1. /\ calls[c].heard \in EngineAnswers
        /\ FairAnswer(calls[c].model.tool, calls[c].heard)
        /\ ReadsTheWire(dialect.package, calls[c].model.tool, calls[c].heard,
               dialect.style, dialect.manifest_version, calls[c].told)
    BY DEF AInv, ToldWhatWasHeard, Unheard, Body
  <2>2. dialect.manifest_version \in ReceiptVersions(dialect.package)
    BY DEF AInv, StateTypes
  <2> QED
    BY <2>1, <2>2, OnTheWire, OutcomeFields DEF FairAnswer, ReadsTheWire
<1> QED
  BY <1>1, ToolsetInvariance, PTL

\* The two hypotheses are exact: a denial on any other wire is not reported as
\* one, and a receipt with any other manifest_version is reported as a failure.
THEOREM OtherWiresAreNotHeard ==
    ASSUME NEW package \in Packages, NEW answer \in EngineAnswers,
           NEW style \in Styles, NEW version \in ManifestVersions
    PROVE  LET told == Told(package, "execute_decision",
                            CallToolResult(answer, style, version))
           IN  /\ answer.kind = "denial" /\ style \notin DenialStyles(package) =>
                      told.kind # "denied"
               /\ answer.kind = "receipt" /\ version \notin ReceiptVersions(package) =>
                      told.kind = "failed"
<1> DEFINE told == Told(package, "execute_decision",
                        CallToolResult(answer, style, version))
<1>1. ReadsTheWire(package, "execute_decision", answer, style, version, told)
  BY EveryPackageReads
<1> HIDE DEF told
<1> QED
  BY <1>1, OnTheWire, OutcomeFields DEF ReadsTheWire, told

=============================================================================
