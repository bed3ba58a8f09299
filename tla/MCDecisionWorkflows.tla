------------------------ MODULE MCDecisionWorkflows ------------------------
EXTENDS DecisionWorkflows

MCAttempts == Calls \X (1 .. MaxAttempts)

MCProfile == [c \in Calls |-> "execute"]

MCCalls == UNION {ToSet(Plan(r)) \X {r} : r \in Runs}

\* Faults strike the executions of the deduplicating runs, whose stale attempts
\* then race with everyone's, and the audits of the audited ones.
MCFallible == ({"execute_decision"} \X Dedup) \cup ({"query_data"} \X Audited)

MCInputs == {DecisionInput(tool, d) : tool \in PlanTools, d \in Decisions}

=============================================================================
