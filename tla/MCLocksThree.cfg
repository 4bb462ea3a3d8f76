SPECIFICATION TxSpec
CONSTANTS
    Evaluations = {e1, e2}
    Attempts = {a1, a2, a3}
    Keys = {k1, k2, k3}
    ResultKeys = {rk1}
    Nodes = {n1}
    Tokens = {t1}
    Operations = {o1}
    References = {r1}
    Digests = {d1}
    CapabilityLists <- MCOneCapability
    MaxAttemptNumber = 2
    MaxTime = 3
    LeaseDuration = 1
    Sessions = {s1, s2, s3}
    Commands <- MCOneEvaluation
    Null = Null
INVARIANTS TxTypeOK DecisionStands OnlyClaimsCross
PROPERTIES ImplementsStore
SYMMETRY SessionSymmetry
