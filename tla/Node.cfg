\* The n8n node: inputs of three items, two executions.
SPECIFICATION FairSpec
CONSTANTS
    Decisions = {"a", "b", "unsure"}
    Requesters <- MCRequesters
    LowConfidence = {}
    BelowRiskFloor = {"unsure"}
    RejectingWebhook = {"b"}
    FlakyFailures = 1
    Inputs <- MCInputs
    MaxTries = 2
INVARIANTS
    OutputsPairWithItems
    ReceiptIsOfThisTry
PROPERTIES
    NodeEnds
CHECK_DEADLOCK FALSE
