--------------------------- MODULE MCAgentToolset ---------------------------
EXTENDS AgentToolset, TLC

CONSTANTS c1, c2

MCCallers == {c1, c2}

Symmetry == Permutations(MCCallers)

MCRequesters == MCCallers \X (1 .. 3)

\* Each package with the wire its own tests speak.
OwnDialects ==
    [package : {"pydantic-ai", "smolagents", "google-adk", "llamaindex", "haystack"},
     style : {"in_band"}, manifest_version : {"string"}]
    \cup [package : {"maf", "langchain"},
          style : {"prose"}, manifest_version : {"string"}]
    \cup [package : {"algenta-tools"},
          style : {"error_json"}, manifest_version : {"number"}]

\* Each package with every wire.
AllDialects ==
    [package : Packages, style : Styles, manifest_version : ManifestVersions]

Parameters(tool) ==
    IF tool = "execute_decision"
    THEN {"decision_id", "webhook_url"} \cup NEVER_MODEL_FACING_FIELDS
    ELSE {"arguments"}

MCCatalogues ==
    {[t \in ToolNames |-> Parameters(t)],
     [t \in GOVERN_TOOLS |-> Parameters(t)]}

MCModelRequests ==
    {[tool |-> "query_data", decision |-> "plain", args |-> {}],
     [tool |-> "log_decision", decision |-> "plain", args |-> {}],
     [tool |-> "execute_decision", decision |-> "plain", args |-> {"force"}],
     [tool |-> "execute_decision", decision |-> "rejected", args |-> {}],
     [tool |-> "execute_decision", decision |-> "unsure",
      args |-> {"override_safety"}]}

=============================================================================
