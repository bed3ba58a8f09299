-------------------------- MODULE HaystackToolset --------------------------
(* haystack-algenta: create_algenta_tools, which leaves results alone, and  *)
(* the receipts module that GovernedReceiptHook reads them with.            *)
EXTENDS ToolWire

allowed_names(profile, available) ==
    resolve_profile_tool_names(profile, available)

accepts(profile, sources) ==
    /\ profile \in ToolProfiles
    /\ \A s, t \in sources : s = t

strip_never_model_facing_schema(properties) ==
    properties \ NEVER_MODEL_FACING_FIELDS

scrub_never_model_facing_args(args) == args \ NEVER_MODEL_FACING_FIELDS

wrap_tool(parameters) == strip_never_model_facing_schema(parameters)

\* A connection of its own is told the profile's names as well (tool_names),
\* except under "full".
create_algenta_tools(profile, source, advertised) ==
    LET selectable == IF source = "connection" /\ profile # "full"
                      THEN DOMAIN advertised \cap NamedTools(profile)
                      ELSE DOMAIN advertised
    IN  [name \in allowed_names(profile, selectable) |->
            wrap_tool(advertised[name])]

\* The MCP tool of mcp-haystack raises on isError, and the agent turns what a
\* tool raises into a message of plain text.
invoke_raises(result) == result.isError

unwrap_mcp_tool_result(raw) == JsonOf(raw)

\* An error object is never tried as a receipt.
parse_execution_outcome(payload, manifest_version) ==
    CASE payload.kind = "denial" -> "blocked"
      [] payload.kind = "receipt" /\ manifest_version = "string" -> "receipt"
      [] OTHER -> "none"

extract_execution_outcome_from_tool_result(raw) ==
    parse_execution_outcome(unwrap_mcp_tool_result(raw), raw.manifest_version)

\* A message of the conversation that came from a tool call: what the hook
\* makes of it.
hook_blocks(raw) ==
    /\ ~invoke_raises(raw)
    /\ extract_execution_outcome_from_tool_result(raw) = "blocked"

after_tool(name, raw) ==
    CASE invoke_raises(raw) -> Failed
      [] hook_blocks(raw)   -> Denied(raw.body)
      [] OTHER              -> Raw(raw)

=============================================================================
