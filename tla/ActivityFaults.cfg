\* One call, every gate and every kind of fault.
CONSTANTS
    c1 = c1
    c2 = c2
    c3 = c3
    dPlain = dPlain
    dLow = dLow
    dRejected = dRejected
    Calls = {c1}
    Decisions = {dPlain, dLow, dRejected}
    Requesters <- MCAttempts
    LowConfidence = {dLow}
    BelowRiskFloor = {}
    RejectingWebhook = {dRejected}
    FlakyFailures = 0
    Inputs <- ExecuteInputs
    Profile <- MCProfile
    MaxAttempts = 2
    BoundedRetry = TRUE
    EstablishAttempts = 3
    Faults = {"stall", "loss", "close", "shutdown", "crash", "timeout"}
    Fallible = {c1}
    Breaches = {}
SPECIFICATION FairSpec
INVARIANTS ReceiptIsBacked IdempotencyDenialIsBacked RefusalMeansNothingSent
PROPERTY LiveWorkersAnswer
CHECK_DEADLOCK FALSE
