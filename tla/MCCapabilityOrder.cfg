SPECIFICATION Spec
CONSTANTS
    Evaluations = {e1}
    Attempts = {a1}
    Keys = {k1}
    ResultKeys = {rk1}
    Nodes = {n1}
    Tokens = {t1}
    Operations = {o1}
    References = {r1}
    Digests = {d1}
    CapabilityLists <- MCUnordered
    MaxAttemptNumber = 1
    MaxTime = 1
    LeaseDuration = 1
    Null = Null
PROPERTY CapabilityOrderIsImmaterial
