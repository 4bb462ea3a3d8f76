SPECIFICATION ExecutorSpec
CONSTANTS
    Vmms = {v1, v2, v3}
    None = None
    MaxUsage = 0
    MaxScore = 1
    ReadTimeout = 1
    BuildBudget = 1
    RunBudget = 1
    GuestDiagnostic = 2
    DomainDiagnostic = 1
    MaxAttempts = 2
    MaxCrashes = 0
PROPERTY OutputIsJudged
CHECK_DEADLOCK FALSE
