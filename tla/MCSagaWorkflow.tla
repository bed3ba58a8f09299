--------------------------- MODULE MCSagaWorkflow ---------------------------
EXTENDS SagaWorkflow

CONSTANTS d1, d2, dLow, undo1, undo2, undoLow

MCAttempts == Calls \X (1 .. MaxAttempts)

MCProfile == [c \in Calls |-> "execute"]

MCCalls == {"log", "execute", "compensate"} \X (1 .. MaxSteps)

\* Faults strike executions and the first compensation.
MCFallible == {c \in Calls : c[1] = "execute"} \cup {<<"compensate", 1>>}

\* No step, a clean saga, a step denied last, and a step repeated.
MCSagas == {<<>>, <<d1, d2>>, <<d1, d2, dLow>>, <<d1, dLow, d2>>, <<d1, d2, d1>>}

MCCompensation(d) ==
    CASE d = d1 -> undo1 [] d = d2 -> undo2 [] OTHER -> undoLow

MCInputs ==
    {SagaInput(tool, d) : d \in Decisions,
        tool \in {"log_decision", "execute_decision"}}

=============================================================================
