------------------------- MODULE LlamaindexToolset -------------------------
(* llamaindex-algenta: create_algenta_tools and the wrapper of each tool.   *)
EXTENDS ToolWire

allowed_names(profile, available) ==
    resolve_profile_tool_names(profile, available)

accepts(profile, sources) ==
    /\ profile \in ToolProfiles
    /\ ~ ({"client", "connection"} \subseteq sources)
    /\ "tools" \notin sources

build_tool(properties) == properties \ NEVER_MODEL_FACING_FIELDS

create_algenta_tools(profile, advertised) ==
    [name \in allowed_names(profile, DOMAIN advertised) |->
        build_tool(advertised[name])]

scrub_never_model_facing_args(kwargs) == kwargs \ NEVER_MODEL_FACING_FIELDS

unwrap_call_tool_result(raw) == JsonOf(raw)

is_call_error(raw) == raw.isError

parse_execution_denial(payload) == payload.kind = "denial"

parse_execution_receipt(payload, manifest_version) ==
    payload.kind = "receipt" /\ manifest_version = "string"

\* Mutant: the protocol's error flag is looked at before the body.
resolve_call_ErrorFirst(tool_name, raw) ==
    CASE is_call_error(raw) -> Failed
      [] tool_name = "execute_decision"
         /\ parse_execution_receipt(unwrap_call_tool_result(raw),
                                    raw.manifest_version) -> Typed(raw.body)
      [] tool_name = "execute_decision" -> Failed
      [] OTHER -> Raw(raw)

\* In the order of the code: a denial or a receipt counts even on a result
\* that is an error, and anything else of execute_decision is a failure.
resolve_call(tool_name, raw) ==
    LET payload == unwrap_call_tool_result(raw)
        governed == tool_name = "execute_decision"
        denied == governed /\ parse_execution_denial(payload)
        receipt == governed /\ parse_execution_receipt(payload, raw.manifest_version)
    IN  CASE denied -> Denied(payload)
          [] ~denied /\ receipt -> Typed(payload)
          [] ~denied /\ ~receipt ->
                IF is_call_error(raw) \/ governed THEN Failed ELSE Raw(raw)

=============================================================================
