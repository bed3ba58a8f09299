------------------------------ MODULE ToolWire ------------------------------
(***************************************************************************)
(* How an answer of the engine looks to an agent package: an MCP           *)
(* CallToolResult.  The packages were each written against one way of      *)
(* signalling a denial, and the stub servers of the repository use all     *)
(* three:                                                                  *)
(*   in_band     an ordinary result whose body is {"error": {..}}          *)
(*   prose       isError, "Error executing tool T: {"error": {..}}"        *)
(*   error_json  isError, and the text is the JSON body alone              *)
(* A receipt's manifest_version is a string in the Python stubs and a      *)
(* number in the TypeScript ones.                                          *)
(***************************************************************************)
EXTENDS ToolContract

Styles == {"in_band", "prose", "error_json"}

ManifestVersions == {"string", "number"}

Body(kind, detail, overridden) ==
    [kind |-> kind, detail |-> detail, overridden |-> overridden]

\* An answer (kind, detail, overridden) of the engine on the wire.  An error
\* that is no denial has no JSON in its text.
CallToolResult(answer, style, manifest_version) ==
    [isError  |-> \/ answer.kind = "tool_error"
                  \/ answer.kind = "denial" /\ style # "in_band",
     prefixed |-> \/ answer.kind = "tool_error"
                  \/ answer.kind = "denial" /\ style = "prose",
     manifest_version |-> manifest_version,
     body |-> answer]

\* A text that is no JSON document.
Text == Body("text", "none", FALSE)

\* What parsing the whole text as JSON yields, and what parsing from its
\* first brace yields.
JsonOf(result) == IF result.prefixed THEN Text ELSE result.body

EmbeddedJsonOf(result) ==
    IF result.body.kind = "tool_error" THEN Text ELSE result.body

-----------------------------------------------------------------------------
(* What the model, or the code around the agent, gets to see of a call.    *)

Raw(result) == Body("raw", result.body.detail, result.body.overridden)

Typed(body) == Body("receipt", body.detail, body.overridden)

Denied(body) == Body("denied", body.detail, FALSE)

Failed == Body("failed", "none", FALSE)

Refused == Body("refused", "none", FALSE)

Outcomes ==
    [kind : {"raw", "receipt", "denied", "failed", "refused"},
     detail : {"delivered", "failed", "idempotency", "confidence",
               "risk_floor", "none"},
     overridden : BOOLEAN]

=============================================================================
