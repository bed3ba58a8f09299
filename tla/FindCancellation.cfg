\* A worker shutdown while the session of an attempt is being opened.
CONSTANTS
    c1 = c1
    c2 = c2
    c3 = c3
    dPlain = dPlain
    dLow = dLow
    dRejected = dRejected
    Calls = {c1}
    Decisions = {dPlain}
    Requesters <- MCAttempts
    LowConfidence = {}
    BelowRiskFloor = {}
    RejectingWebhook = {}
    FlakyFailures = 0
    Inputs <- RaceInputs
    Profile <- MCProfile
    MaxAttempts = 2
    BoundedRetry = TRUE
    EstablishAttempts = 3
    Faults = {"shutdown"}
    Fallible = {c1}
    Breaches = {}
SPECIFICATION Spec
INVARIANTS CancellationStopsTheCall
CHECK_DEADLOCK FALSE
