\* Two merges, four pushes of the runs, one run that is lost or has no credentials;
\* one lost call.
CONSTANTS
    Packages <- MCPackages
    FirstCommit <- MCFirstCommit
    FirstTags <- MCFirstTags
    Merges <- MCMerges
    MaxMerges = 2
    MaxCommits = 8
    MaxEarly = 1
    MaxCrashes = 1
    Suites = {"demo", "pydantic-ai"}
    Defects <- KnownDefects
    MaxDefects = 2
    MaxLostCalls = 1
SPECIFICATION ToolFairSpec
INVARIANTS VersionsTellTheChange ReleasesResolve GateIsSound PassIsEarned
PROPERTY ReleasesSettle
CHECK_DEADLOCK FALSE
