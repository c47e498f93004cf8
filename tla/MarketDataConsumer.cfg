SPECIFICATION FairSpec
CONSTANTS
    MaxUpdates = 4
    MaxStreamLosses = 2
    MaxSnapshotLosses = 1
    Reordering = TRUE
INVARIANTS TypeOK BookIsCurrent
PROPERTIES RecoveryEnds
