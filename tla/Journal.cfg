\* Two signals, the first one's activity struck by timeouts, crashes and losses.
CONSTANTS
    MaxRecords = 2
    Calls <- MCCalls
    Decisions = {dHold}
    Requesters <- MCAttempts
    LowConfidence = {}
    BelowRiskFloor = {}
    RejectingWebhook = {}
    FlakyFailures = 0
    Inputs <- MCInputs
    Profile <- MCProfile
    MaxAttempts = 2
    BoundedRetry = FALSE
    EstablishAttempts = 1
    Faults = {"timeout", "crash", "loss"}
    Fallible = {1}
    Breaches = {"malformed", "unnamed"}
SPECIFICATION JFairSpec
INVARIANT EntriesAreOnRecord
PROPERTY RecordsAreJournaled
CHECK_DEADLOCK FALSE
