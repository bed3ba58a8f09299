\* Any two of a durable, a deduplicating, an audited run and an agent, for one
\* decision or for two; the server gives up on attempts of the second's
\* execution and of the third's audit.
CONSTANTS
    Durable = {r1}
    Dedup = {r2}
    Audited = {r3}
    Agents = {r4}
    Surfaces = {"observe", "govern", "full"}
    MaxStarted = 2
    Calls <- MCCalls
    Decisions = {dPlain, dLow}
    Requesters <- MCAttempts
    LowConfidence = {dLow}
    BelowRiskFloor = {}
    RejectingWebhook = {}
    FlakyFailures = 0
    Inputs <- MCInputs
    Profile <- MCProfile
    MaxAttempts = 2
    BoundedRetry = TRUE
    EstablishAttempts = 1
    Faults = {"timeout"}
    Fallible <- MCFallible
    Breaches = {}
SPECIFICATION DFairSpec
INVARIANTS OneRunOwnsTheDelivery TrailIsBacked AuditConfirmsTheTrail
PROPERTY EveryRunEnds
CHECK_DEADLOCK FALSE
