SPECIFICATION FairTxSpec
CONSTANTS
    Evaluations = {e1, e2}
    Attempts = {a1, a2, a3}
    Keys = {k1, k2, k3}
    ResultKeys = {rk1}
    Nodes = {n1}
    Tokens = {t1}
    Operations = {o1}
    References = {r1}
    Digests = {d1, d2}
    CapabilityLists <- MCOneCapability
    MaxAttemptNumber = 2
    MaxTime = 3
    LeaseDuration = 1
    Sessions = {s1, s2}
    Commands <- MCCommands
    Null = Null
INVARIANTS TxTypeOK DecisionStands OnlyClaimsCross ReferencesAgree
PROPERTIES ImplementsStore EveryTransactionEnds
