SPECIFICATION ExecutorSpec
CONSTANTS
    Vmms = {v1, v2, v3}
    None = None
    MaxUsage = 0
    MaxScore = 1
    ReadTimeout = 1
    BuildBudget = 1
    RunBudget = 1
    GuestDiagnostic = 1
    DomainDiagnostic = 0
    MaxAttempts = 2
    MaxCrashes = 1
INVARIANT RestartReconciles
CHECK_DEADLOCK FALSE
