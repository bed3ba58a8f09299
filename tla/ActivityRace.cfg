\* Two calls for one decision, with and without force, and one more to a worker
\* that may not execute; the server gives up on attempts whose requests are
\* still on their way.
CONSTANTS
    c1 = c1
    c2 = c2
    c3 = c3
    dPlain = dPlain
    dLow = dLow
    dRejected = dRejected
    Calls = {c1, c2, c3}
    Decisions = {dPlain}
    Requesters <- MCAttempts
    LowConfidence = {}
    BelowRiskFloor = {}
    RejectingWebhook = {}
    FlakyFailures = 0
    Inputs <- RaceInputs
    Profile <- MCProfile
    MaxAttempts = 2
    BoundedRetry = TRUE
    EstablishAttempts = 1
    Faults = {"timeout"}
    Fallible = {c1, c2}
    Breaches = {}
SYMMETRY CallSymmetry
SPECIFICATION Spec
INVARIANTS AtMostOneUnforced ProfileIsEnforced
PROPERTIES VerdictIsFinal KeepsThePromise
CHECK_DEADLOCK FALSE
