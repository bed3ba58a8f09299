\* Sagas of up to three steps: clean, denied by a gate, with a repeated step.
CONSTANTS
    d1 = d1
    d2 = d2
    dLow = dLow
    undo1 = undo1
    undo2 = undo2
    undoLow = undoLow
    Sagas <- MCSagas
    MaxSteps = 3
    Compensation <- MCCompensation
    Calls <- MCCalls
    Decisions = {d1, d2, dLow, undo1, undo2, undoLow}
    Requesters <- MCAttempts
    LowConfidence = {dLow}
    BelowRiskFloor = {}
    RejectingWebhook = {}
    FlakyFailures = 0
    Inputs <- MCInputs
    Profile <- MCProfile
    MaxAttempts = 2
    BoundedRetry = FALSE
    EstablishAttempts = 1
    Faults = {"loss"}
    Fallible <- MCFallible
    Breaches = {"malformed", "unnamed"}
SPECIFICATION SFairSpec
INVARIANTS UnwindsInReverse CompensatesWhatHappened
PROPERTY SagaEnds
CHECK_DEADLOCK FALSE
