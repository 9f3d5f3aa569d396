SPECIFICATION FairSpec
CONSTANTS
    None = None
    Workers = {w1, w2}
    Evidence <- MixedEvidence
    FirstStages = {"EXECUTING", "FINAL_INVOICE"}
    EditStages = {"WON"}
    BatchSize = 2
    MaxEvents = 2
    MaxEdits = 1
    MaxFailures = 1
    MaxCrashes = 1
INVARIANTS
    TypeOK CommentOnce SettledMeansTold
PROPERTIES
    OrderedRowsWriteAlone EveryRowSettles
CHECK_DEADLOCK FALSE
