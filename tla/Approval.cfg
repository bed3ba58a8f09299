\* A decision the confidence gate stops and one it lets through, under lost
\* answers and attempts the server gives up on.
CONSTANTS
    NoVerdict = NoVerdict
    Verdict <- MCVerdict
    Calls = {"log", "first", "second"}
    Decisions = {dPlain, dLow}
    Requesters <- MCAttempts
    LowConfidence = {dLow}
    BelowRiskFloor = {}
    RejectingWebhook = {}
    FlakyFailures = 0
    Inputs <- MCInputs
    Profile <- MCProfile
    MaxAttempts = 2
    BoundedRetry = FALSE
    EstablishAttempts = 1
    Faults = {"loss", "timeout"}
    Fallible = {"first", "second"}
    Breaches = {"malformed"}
SPECIFICATION WFairSpec
INVARIANTS RejectionLeavesNothingExecuted OverrideMatchesVerdict
PROPERTY WorkflowCloses
CHECK_DEADLOCK FALSE
