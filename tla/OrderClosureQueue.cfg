SPECIFICATION FairSpec
CONSTANTS
    None = None
    Batches = {b1}
    Positions = {1, 2}
    Sessions = {s1}
    Executors = {e1}
    LeaseTicks = 1
    MaxLeases = 6
    MaxRepeats = 2
    MaxChanges = 1
    MaxLosses = 1
INVARIANTS
    TypeOK ClosedAsConfirmed AppliedMeansClosed FailedMeansNothingClosed
    ClosedRowsWereChosen
PROPERTIES
    ConfirmedIsSettled
CHECK_DEADLOCK FALSE
