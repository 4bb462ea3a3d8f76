SPECIFICATION Spec
CONSTANTS
    Evaluations = {e1}
    Attempts = {a1, a2, a3}
    Keys = {k1, k2, k3}
    ResultKeys = {rk1}
    Nodes = {n1}
    Tokens = {t1}
    Operations = {o1}
    References = {r1}
    Digests = {d1}
    CapabilityLists <- MCOneCapability
    MaxAttemptNumber = 3
    MaxTime = 4
    LeaseDuration = 1
    Null = Null
SYMMETRY Symmetry
INVARIANTS TypeOK RowsAgree AttemptHistory LeaseBeforeResult
PROPERTIES TerminalIsFinal LeasedOnce ImplementsLifecycle
