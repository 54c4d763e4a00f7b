SPECIFICATION FairSpec
CONSTANTS
    r1 = r1
    r2 = r2
    w1 = w1
    w2 = w2
    pv = pv
    app = app
    None = None
    Runs <- MCRuns
    Calls = {r1, r2, w1, w2}
    Fallible = {w1}
    Kind <- KindOf
    Path <- MCPath
    Text <- MCText
    Results = {"same"}
    Findings = {"missing"}
    MaxAttempts = 2
    MaxIdentical = 2
    MaxFailures = 2
    MaxOverflow = 1
    MaxRetries = 0
    WarnSteps = 2
    WarnRevisits = 1
    StopSteps = 3
    StopRevisits = 2
    StopWithoutChange = 4
    WarnRewrites = 2
    StopRewrites = 2
    MaxRewrites = 3
INVARIANTS
    FailureBudget
    ToldBeforeStopped
PROPERTIES
    NoProgressEnds
CHECK_DEADLOCK FALSE
