---------------------------- MODULE ToolContract ----------------------------
(***************************************************************************)
(* The tool-profile contract every package of the repository shares:       *)
(* which MCP tools a profile lets through, and the two fields of           *)
(* execute_decision no model may ever set.                                 *)
(***************************************************************************)

OBSERVE_TOOLS == {"get_contract", "query_data", "simulate", "recommend"}

GOVERN_TOOLS == OBSERVE_TOOLS \cup {"plan_decision", "log_decision"}

EXECUTE_TOOLS == GOVERN_TOOLS \cup {"execute_decision"}

\* The tools an integration knows by name. A "full" profile lets through
\* whatever else the connected engine advertises.
ToolNames == EXECUTE_TOOLS

ToolProfiles == {"observe", "govern", "execute", "full"}

\* Mutant: every profile but "observe" gets the execute tier.
NamedTools_TwoTiers(profile) ==
    IF profile = "observe" THEN OBSERVE_TOOLS ELSE EXECUTE_TOOLS

\* Mutant: logging a decision is taken for one more way to observe.
NamedTools_LogsObserved(profile) ==
    IF profile \in {"observe", "govern"} THEN GOVERN_TOOLS ELSE EXECUTE_TOOLS

NamedTools(profile) ==
    CASE profile = "observe" -> OBSERVE_TOOLS
      [] profile = "govern"  -> GOVERN_TOOLS
      [] OTHER               -> EXECUTE_TOOLS

is_tool_allowed_for_profile(name, profile) ==
    \/ profile = "full"
    \/ name \in NamedTools(profile)

resolve_profile_tool_names(profile, available_tool_names) ==
    IF profile = "full" THEN available_tool_names
                        ELSE NamedTools(profile) \cap available_tool_names

NEVER_MODEL_FACING_FIELDS == {"force", "override_safety"}

=============================================================================
