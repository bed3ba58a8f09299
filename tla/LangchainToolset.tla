-------------------------- MODULE LangchainToolset --------------------------
(* langchain-algenta: create_algenta_tools, the interceptor it puts into    *)
(* its MCP client, and the wrapper of tools that come without a client.     *)
EXTENDS ToolWire

allowed_names(profile, available) ==
    resolve_profile_tool_names(profile, available)

accepts(profile, sources) ==
    /\ profile \in ToolProfiles
    /\ \A s, t \in sources : s = t

strip_never_model_facing_schema(properties) ==
    properties \ NEVER_MODEL_FACING_FIELDS

strip_never_model_facing_tool(args_schema) ==
    strip_never_model_facing_schema(args_schema)

scrub_never_model_facing_args(args) == args \ NEVER_MODEL_FACING_FIELDS

create_algenta_tools(profile, advertised) ==
    [name \in allowed_names(profile, DOMAIN advertised) |->
        strip_never_model_facing_tool(advertised[name])]

\* An error's payload may be the whole JSON or prose around it.
extract_embedded_json_object(result) == EmbeddedJsonOf(result)

parse_denial(result) == extract_embedded_json_object(result).kind = "denial"

\* Nothing is made of a result that is no error; an error that is no denial
\* is left to the adapter library.
resolve_governed_call(result, is_error) ==
    IF is_error /\ parse_denial(result) THEN Denied(result.body) ELSE Raw(result)

\* Mutant: the interceptor takes the list the model was given as enough.
interceptor_allows_All(name, profile) == TRUE

\* The interceptor also meets calls of tools that were got from the client
\* behind create_algenta_tools.
interceptor_allows(name, profile) == is_tool_allowed_for_profile(name, profile)

intercepted_args(args) == args \ NEVER_MODEL_FACING_FIELDS

interceptor(name, result) == resolve_governed_call(result, result.isError)

\* tools=: a plain tool reports an error by raising it.
wrap_plain_tool(name, result) ==
    CASE ~result.isError -> resolve_governed_call(result, FALSE)
      [] result.isError ->
            IF parse_denial(result) THEN Denied(result.body) ELSE Failed

=============================================================================
