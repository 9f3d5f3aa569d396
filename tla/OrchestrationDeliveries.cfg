SPECIFICATION Spec
CONSTANTS
    None = None
    r1 = r1
    r2 = r2
    d1 = d1
    j1 = j1
    j2 = j2
    JobOf <- MCJobOf
    Runs = {r1}
    Intents = {d1}
    Keys = {k1, k2, k3, k4, k5}
    Workers = {w1}
    Inputs = {i1}
    Contents = {c1}
    RunOutcomes = {}
    DeliveryOutcomes = {"failed", "delivered"}
    Sessions = {s1, s2}
    LeaseSeconds = 1
    MaxAttempts = 2
    AttemptLimits = {2}
    MaxTime = 2
SYMMETRY Symmetry
INVARIANT TypeOK
INVARIANT AtMostOneExecutor
INVARIANT SendPermittedOncePerAttempt
INVARIANT AttemptsMatchCounter
CHECK_DEADLOCK FALSE
