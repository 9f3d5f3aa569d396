SPECIFICATION Spec
CONSTANTS
    None = None
    ActionTypes = {"arrival_task", "storage_reminder_3d", "complete_return_task"}
    Workers = {w1, w2}
    Delays <- MCDelays
    MaxAttempts = 2
    LeaseTicks = 1
    ReminderDues = {1}
    ByHand = {}
    ManualRefs = {}
    Horizon = 2
    MaxCarrierEvents = 1
    MaxCrashes = 0
    MaxClaims = 2
    MaxTasks = 2
    MaxComments = 2
INVARIANTS
    CompletedMeansDelivered GivesUpOnlyWhenExhausted
SYMMETRY Symmetry
CHECK_DEADLOCK FALSE
