SPECIFICATION ControlSpec
CONSTANTS
    e1 = e1  a1 = a1  k1 = k1  r1 = r1  d1 = d1  n1 = n1  n2 = n2
    Evaluations = {e1}
    Attempts = {a1, a2}
    Keys = {k1, k2}
    ResultKeys = {rk1}
    Nodes = {n1, n2}
    Tokens = {t1, t2}
    Operations = {o1, o2}
    References = {r1}
    Digests = {d1}
    CapabilityLists <- MCTwoCapabilities
    MaxAttemptNumber = 2
    MaxTime = 3
    LeaseDuration = 1
    Null = Null
    Calls = {c1, c2}
    Sweepers = {s1}
    Policy <- MCUnequalNodes
    Submissions <- MCEither
VIEW WithoutReply
SYMMETRY HandlerSymmetry
PROPERTY OldRenewalIsStale
