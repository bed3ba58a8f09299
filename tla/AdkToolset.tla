----------------------------- MODULE AdkToolset -----------------------------
(* google-adk-algenta: AlgentaToolset and the two tool classes it wraps     *)
(* with, AlgentaMcpTool and AlgentaBaseTool, which do the same.             *)
EXTENDS ToolWire

allowed_names(profile, available) ==
    resolve_profile_tool_names(profile, available)

\* At most one place for the tools to come from.
accepts(profile, sources) ==
    /\ profile \in ToolProfiles
    /\ \A s, t \in sources : s = t

strip_never_model_facing_schema(properties) ==
    properties \ NEVER_MODEL_FACING_FIELDS

get_tools(profile, advertised) ==
    [name \in allowed_names(profile, DOMAIN advertised) |->
        strip_never_model_facing_schema(advertised[name])]

\* Asked again when a tool object is called, whatever list it came from.
run_async_allows(name, profile) == is_tool_allowed_for_profile(name, profile)

\* Mutant: what the model passes is passed on.
scrubbed_args_Unscrubbed(args) == args

scrubbed_args(args) == args \ NEVER_MODEL_FACING_FIELDS

\* A result with isError is read like any other.
extract_tool_payload(result) == JsonOf(result)

parse_denial(payload) == payload.kind = "denial"

parse_receipt(payload, manifest_version) ==
    payload.kind = "receipt" /\ manifest_version = "string"

map_execute_decision(tool_name, result) ==
    LET payload == extract_tool_payload(result)
    IN  CASE parse_denial(payload) -> Denied(payload)
          [] parse_receipt(payload, result.manifest_version) -> Typed(payload)
          [] OTHER -> Raw(result)

=============================================================================
