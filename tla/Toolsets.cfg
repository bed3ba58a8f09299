\* Eight packages, each with the wire of its own tests: two calls side by
\* side, three calls in all.
SPECIFICATION Spec
CONSTANTS
    c1 = c1
    c2 = c2
    Decisions = {"plain", "rejected", "unsure"}
    Requesters <- MCRequesters
    LowConfidence = {"unsure"}
    BelowRiskFloor = {}
    RejectingWebhook = {"rejected"}
    FlakyFailures = 1
    Dialects <- OwnDialects
    Catalogues <- MCCatalogues
    Callers <- MCCallers
    ModelRequests <- MCModelRequests
    MaxCalls = 3
INVARIANTS
    HiddenFieldsStayHidden
    OnlyWhatTheProfileAllows
    RefusalIsHeard
    DeliveryIsNotAFailure
SYMMETRY Symmetry
CHECK_DEADLOCK FALSE
