SPECIFICATION Spec
CONSTANTS
    None = None
    r1 = r1
    r2 = r2
    d1 = d1
    j1 = j1
    j2 = j2
    JobOf <- MCJobOf
    Runs = {r1}
    Intents = {}
    Keys = {k1, k2, k3}
    Workers = {w1}
    Inputs = {i1}
    Contents = {c1}
    RunOutcomes = {"succeeded"}
    DeliveryOutcomes = {"failed"}
    Sessions = {s1, s2}
    LeaseSeconds = 1
    MaxAttempts = 1
    AttemptLimits = {1}
    MaxTime = 1
SYMMETRY Symmetry
INVARIANT AcknowledgedFinishHolds
CHECK_DEADLOCK FALSE
