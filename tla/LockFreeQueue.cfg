SPECIFICATION FairSpec
CONSTANTS
    Capacity = 4
    MaxBacklog = 3
    ReleaseEarly = TRUE
    Values = {v1, v2}
    Unset = Unset
    Torn = Torn
INVARIANTS TypeOK CountAssert NoDataRace NoOverwrite
PROPERTIES RereadStable ImplementsFifo
