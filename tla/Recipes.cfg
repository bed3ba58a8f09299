\* The recipes, one execution below the risk floor and one log the worker may not
\* make: workers shut down in the middle of attempts, the engine's first query
\* fails, and the server may break its contract.
CONSTANTS
    s1 = s1
    s2 = s2
    Scripts <- MCScripts
    ExpectedValue <- MCExpectedValue
    Calls = {1, 2, 3, 4, 5, 6}
    Decisions = {s1, s2}
    Requesters <- MCAttempts
    LowConfidence = {}
    BelowRiskFloor = {s2}
    RejectingWebhook = {}
    FlakyFailures = 1
    Inputs <- MCInputs
    Profile <- MCProfile
    MaxAttempts = 2
    BoundedRetry = TRUE
    EstablishAttempts = 1
    Faults = {"shutdown"}
    Fallible = {1, 3}
    Breaches = {"malformed", "unnamed"}
SPECIFICATION RFairSpec
INVARIANTS ReportsAgree RetriesAreWarranted ProfileIsEnforced
PROPERTY RecipeEnds
CHECK_DEADLOCK FALSE
