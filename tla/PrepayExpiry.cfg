SPECIFICATION PrepayFairSpec
CONSTANTS
    None = None
    Batches = {b1}
    Positions = {1}
    Sessions = {s1}
    Executors = {e1}
    LeaseTicks = 1
    MaxLeases = 3
    MaxRepeats = 2
    MaxChanges = 1
    MaxLosses = 1
    WorkLimit = 1
    MaxDelays = 1
INVARIANTS
    PrepayTypeOK CompletedMeansClosed
PROPERTIES
    ReviewIsFinal ClosedIsCompleted
CHECK_DEADLOCK FALSE
