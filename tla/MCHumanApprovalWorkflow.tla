---------------------- MODULE MCHumanApprovalWorkflow ----------------------
EXTENDS HumanApprovalWorkflow

MCAttempts == Calls \X (1 .. MaxAttempts)

MCProfile == [c \in Calls |-> "execute"]

MCVerdict == [approved : BOOLEAN, override_safety : BOOLEAN]

MCInputs ==
    {[tool |-> tool, decision |-> d, force |-> FALSE, override_safety |-> o] :
        tool \in {"log_decision", "execute_decision"}, d \in Decisions,
        o \in BOOLEAN}

=============================================================================
