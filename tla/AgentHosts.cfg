\* A call of a smolagents agent, through a with-block that is entered twice
\* and fails in every way, beside a haystack conversation of two calls.
CONSTANTS
    f1 = f1
    Forwards = {f1}
    ToolCalls = {1, 2}
    MaxPerStep = 2
    MaxOpenings = 2
    HostFaults = {"slow_loop", "enter", "exit"}
    Decisions = {dPlain, dLow}
    Requesters <- MCRequesters
    LowConfidence = {dLow}
    BelowRiskFloor = {}
    RejectingWebhook = {}
    FlakyFailures = 0
SPECIFICATION HFairSpec
INVARIANTS DeliveryIsTraceable DenialStopsTheAgent
PROPERTIES NothingAfterTheBlock EveryForwardReturns
CHECK_DEADLOCK FALSE
