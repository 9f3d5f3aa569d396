SPECIFICATION FairSpec
CONSTANTS
    None = None
    ActionTypes = {"arrival_task", "complete_return_task", "onec_return_control"}
    ByHand = {"onec_return_control"}
    Workers = {w1}
    Delays <- MCOneDelay
    MaxAttempts = 2
    LeaseTicks = 1
    ReminderDues = {1}
    ManualRefs = {0, 1}
    Horizon = 1
    MaxCarrierEvents = 1
    MaxCrashes = 1
    MaxClaims = 4
    MaxTasks = 2
    MaxComments = 2
INVARIANTS
    TypeOK OneTaskPerShipment EachMessageOnce
PROPERTIES
    EveryActionSettles
CHECK_DEADLOCK FALSE
