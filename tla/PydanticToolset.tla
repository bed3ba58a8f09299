-------------------------- MODULE PydanticToolset --------------------------
(* pydantic-ai-algenta: AlgentaToolset, a wrapper of pydantic-ai's          *)
(* MCPToolset.                                                              *)
EXTENDS ToolWire

allowed_names(profile, available) ==
    resolve_profile_tool_names(profile, available)

accepts(profile, sources) ==
    /\ profile \in ToolProfiles
    /\ ~ ({"client", "connection"} \subseteq sources)
    /\ "tools" \notin sources

strip_never_model_facing_tool(properties) ==
    properties \ NEVER_MODEL_FACING_FIELDS

get_tools(profile, advertised) ==
    [name \in allowed_names(profile, DOMAIN advertised) |->
        strip_never_model_facing_tool(advertised[name])]

scrubbed_args(tool_args) == tool_args \ NEVER_MODEL_FACING_FIELDS

parse_denial(raw_result) == raw_result.body.kind = "denial"

\* manifest_version has to be a string: pydantic turns no number into one.
parse_receipt(raw_result) ==
    /\ raw_result.body.kind = "receipt"
    /\ raw_result.manifest_version = "string"

\* pydantic-ai's MCPToolset raises on isError, before this class sees a
\* result.
MCPToolset_raises(result) == result.isError

\* The denial and receipt shapes are looked for in every tool's result.
call_tool(name, result) ==
    CASE MCPToolset_raises(result) -> Failed
      [] OTHER -> CASE parse_denial(result)  -> Denied(result.body)
                    [] parse_receipt(result) -> Typed(result.body)
                    [] OTHER                 -> Raw(result)

=============================================================================
