SPECIFICATION Spec
CONSTANTS
    None = None
    Workers = {w1, w2}
    Evidence <- RacingEvidence
    FirstStages = {"EXECUTING"}
    EditStages = {}
    BatchSize = 2
    MaxEvents = 2
    MaxEdits = 0
    MaxFailures = 0
    MaxCrashes = 0
PROPERTIES
    FinalStaysFinal
CHECK_DEADLOCK FALSE
