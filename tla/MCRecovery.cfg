SPECIFICATION SystemSpec
CONSTANTS
    e1 = e1  e2 = e2  a1 = a1  a2 = a2  k1 = k1  k2 = k2  r1 = r1  d1 = d1  n1 = n1  n2 = n2
    Evaluations = {e1}
    Attempts = {a1, a2}
    Keys = {k1, k2}
    ResultKeys = {rk1, rk2, rk3}
    Nodes = {n1}
    Tokens = {t1, t2, t3, t4}
    Operations = {o1, o2, o3, o4}
    References = {r1}
    Digests = {d1}
    CapabilityLists <- MCOneCapability
    MaxAttemptNumber = 3
    MaxTime = 9
    LeaseDuration = 1
    Null = Null
    Calls = {c1, c2}
    Sweepers = {s1}
    Policy <- MCOneNode
    Submissions <- MCOne
    MaxCrashes = 1
PROPERTIES EvaluationEnds ExpiredLeaseIsFreed
CHECK_DEADLOCK FALSE
