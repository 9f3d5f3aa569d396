SPECIFICATION FairSpec
CONSTANTS
    None = None
    Agents = {a1, a2}
    Texts = {t1, t2}
    FirstTexts = {t1, None}
    ReplyTexts = {t1}
    LegacyFields = TRUE
    MaxCommands = 2
    MaxSaves = 1
    MaxRetries = 1
    MaxFaults = 1
    MaxLeases = 3
INVARIANTS
    TypeOK OneMessagePerCommand RecordedAsDelivered
PROPERTIES
    SendIsLostOnlySo ShownStatusIsCurrent EveryReplySettles
CHECK_DEADLOCK FALSE
