----------------------------- MODULE MafToolset -----------------------------
(* maf-algenta: create_algenta_tools for the Microsoft Agent Framework.     *)
EXTENDS ToolWire

allowed_names(profile, available) ==
    resolve_profile_tool_names(profile, available)

accepts(profile, sources) ==
    /\ profile \in ToolProfiles
    /\ ~ ({"client", "connection"} \subseteq sources)
    /\ "tools" \notin sources

strip_never_model_facing_schema(properties) ==
    properties \ NEVER_MODEL_FACING_FIELDS

scrub_never_model_facing_args(args) == args \ NEVER_MODEL_FACING_FIELDS

wrap_functions(profile, functions) ==
    [name \in allowed_names(profile, DOMAIN functions) |->
        strip_never_model_facing_schema(functions[name])]

\* A connection of its own is told the profile's names as well (allowed_tools),
\* except under "full".
create_algenta_tools(profile, source, advertised) ==
    wrap_functions(profile,
        IF source = "connection" /\ profile # "full"
        THEN [name \in DOMAIN advertised \cap NamedTools(profile) |->
                 advertised[name]]
        ELSE advertised)

\* The framework's MCP client raises ToolExecutionException on isError, with
\* the text as its message.
invoke_raises(result) == result.isError

parse_execution_blocked(body) == body.kind = "denial"

\* The JSON is looked for from the first brace of the message on.
parse_execution_blocked_from_exception(result) ==
    parse_execution_blocked(EmbeddedJsonOf(result))

\* Mutant: the list of contents is not looked into.
extract_function_result_payload_NotUnwrapped(result) == Text

extract_function_result_payload(result) == JsonOf(result)

parse_execution_receipt(payload, manifest_version) ==
    payload.kind = "receipt" /\ manifest_version = "string"

\* A result that is no receipt is a failure, whatever the engine did; a
\* receipt is only checked, and the raw result is what comes back.
governed_execute_decision_call(result) ==
    CASE invoke_raises(result) ->
            IF parse_execution_blocked_from_exception(result)
            THEN Denied(result.body) ELSE Failed
      [] ~invoke_raises(result) ->
            IF parse_execution_receipt(extract_function_result_payload(result),
                                       result.manifest_version)
            THEN Raw(result) ELSE Failed

call(name, result) ==
    CASE name = "execute_decision" -> governed_execute_decision_call(result)
      [] name # "execute_decision" ->
            IF invoke_raises(result) THEN Failed ELSE Raw(result)

=============================================================================
