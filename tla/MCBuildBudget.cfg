SPECIFICATION ExecutorSpec
CONSTANTS
    Vmms = {v1, v2, v3}
    None = None
    MaxUsage = 0
    MaxScore = 1
    ReadTimeout = 3
    BuildBudget = 6
    RunBudget = 2
    GuestDiagnostic = 1
    DomainDiagnostic = 0
    MaxAttempts = 2
    MaxCrashes = 0
PROPERTY BudgetIsGranted
CHECK_DEADLOCK FALSE
