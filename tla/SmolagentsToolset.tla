------------------------- MODULE SmolagentsToolset -------------------------
(* smolagents-algenta: AlgentaToolset and its _AlgentaToolWrapper.          *)
EXTENDS ToolWire

allowed_names(profile, available) ==
    resolve_profile_tool_names(profile, available)

accepts(profile, sources) ==
    /\ profile \in ToolProfiles
    /\ ~ ({"tools", "connection"} \subseteq sources)
    /\ "client" \notin sources

mcp_schema_to_inputs(properties) == properties \ NEVER_MODEL_FACING_FIELDS

strip_never_model_facing_inputs(inputs) == inputs \ NEVER_MODEL_FACING_FIELDS

wrap_tools(profile, tools) ==
    [name \in allowed_names(profile, DOMAIN tools) |->
        strip_never_model_facing_inputs(tools[name])]

\* Over MCP the tools are first built from the advertised schemas; tools that
\* were passed in come as they are.
enter(profile, source, advertised) ==
    wrap_tools(profile,
        IF source = "tools" THEN advertised
        ELSE [name \in DOMAIN advertised |->
                 mcp_schema_to_inputs(advertised[name])])

scrubbed(kwargs) == kwargs \ NEVER_MODEL_FACING_FIELDS

\* _extract_tool_result: whether it raises, and the value it yields.
extract_raises(result) == result.isError

extract_tool_result(result) == JsonOf(result)

parse_denial(raw_result) == raw_result.kind = "denial"

parse_receipt(raw_result, manifest_version) ==
    /\ raw_result.kind = "receipt"
    /\ manifest_version = "string"

forward(name, result) ==
    LET raw_result == extract_tool_result(result)
    IN  CASE extract_raises(result) -> Failed
          [] ~extract_raises(result) /\ parse_denial(raw_result) ->
                Denied(raw_result)
          [] ~extract_raises(result)
             /\ parse_receipt(raw_result, result.manifest_version) ->
                Typed(raw_result)
          [] OTHER -> Raw(result)

=============================================================================
