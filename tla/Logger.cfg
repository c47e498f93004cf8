SPECIFICATION FairLoggerSpec
CONSTANTS
    v1 = v1
    v2 = v2
    Values = {v1, v2}
    Unset = Unset
    Torn = Torn
    Capacity = 4
    MaxBacklog = 4
    ReleaseEarly = FALSE
    Messages <- MCMessages
    MaxMessages = 5
INVARIANTS FileIsLog
PROPERTIES CloseEnds
CHECK_DEADLOCK FALSE
