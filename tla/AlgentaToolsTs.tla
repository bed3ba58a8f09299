--------------------------- MODULE AlgentaToolsTs ---------------------------
(* algenta-tools, the TypeScript package for the AI SDK.                    *)
EXTENDS ToolWire

resolveProfileToolNames(profile, available) ==
    resolve_profile_tool_names(profile, available)

\* A client and connection options together are let through: the client wins.
connectionOptionsGiven(sources) == sources \cap {"client", "connection"} # {}

accepts(profile, sources) ==
    /\ profile \in ToolProfiles
    /\ ~ ("tools" \in sources /\ connectionOptionsGiven(sources))

stripNeverModelFacingSchema(properties) ==
    properties \ NEVER_MODEL_FACING_FIELDS

createAlgentaTools(profile, sourceTools) ==
    [name \in resolveProfileToolNames(profile, DOMAIN sourceTools) |->
        stripNeverModelFacingSchema(sourceTools[name])]

scrubNeverModelFacingArgs(args) == args \ NEVER_MODEL_FACING_FIELDS

extractToolPayload(callResult) == JsonOf(callResult)

isMcpErrorResult(callResult) == callResult.isError

parseExecutionBlockedBody(payload) == payload.kind = "denial"

\* The one schema that takes manifest_version as a string or a number.
parseExecutionReceipt(payload) == payload.kind = "receipt"

\* Only an error is tried as a denial, only a result as a receipt.
wrapAlgentaTool(name, rawResult) ==
    LET payload == extractToolPayload(rawResult)
        governed == name = "execute_decision"
    IN  CASE isMcpErrorResult(rawResult) ->
                IF governed /\ parseExecutionBlockedBody(payload)
                THEN Denied(payload) ELSE Failed
          [] ~isMcpErrorResult(rawResult) ->
                IF governed /\ parseExecutionReceipt(payload)
                THEN Typed(payload) ELSE Raw(rawResult)

=============================================================================
