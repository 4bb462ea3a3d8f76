SPECIFICATION ExecutorSpec
CONSTANTS
    Vmms = {v1, v2, v3}
    None = None
    MaxUsage = 0
    MaxScore = 1
    ReadTimeout = 1
    BuildBudget = 1
    RunBudget = 1
    GuestDiagnostic = 1
    DomainDiagnostic = 0
    MaxAttempts = 3
    MaxCrashes = 1
INVARIANTS NothingLeftBehind SessionOnOwnVm OutputIsOwn
PROPERTY AttemptReturns
CHECK_DEADLOCK FALSE
