------------------------- MODULE MCRecipeWorkflows -------------------------
EXTENDS RecipeWorkflows

CONSTANTS s1, s2

MCAttempts == Calls \X (1 .. MaxAttempts)

\* The first call goes to an execute worker, as in the retry recipe; the worker
\* of the others may only observe, and refuses the scheduled run its log.
MCProfile == [c \in Calls |-> IF c = 1 THEN "execute" ELSE "observe"]

MCExpectedValue(d) == IF d = s1 THEN 1 ELSE 2

\* No scenario, two, and two of the same name.
MCScripts ==
    {[recipe |-> "batch", scenarios |-> s] : s \in {<<>>, <<s1, s2>>, <<s2, s1, s2>>}} \cup
    {[recipe |-> kind, scenarios |-> <<s1>>] :
        kind \in {"scheduled", "transient"}} \cup
    {[recipe |-> "failfast", scenarios |-> <<s>>] : s \in {s1, s2}}

MCInputs ==
    {SafeInput(tool, d) : d \in Decisions, tool \in
        {"simulate", "log_decision", "query_data", "execute_decision"}}

=============================================================================
