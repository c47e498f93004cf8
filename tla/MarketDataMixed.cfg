SPECIFICATION FairSpec
CONSTANTS
    MaxUpdates = 3
    MaxStreamLosses = 1
    MaxSnapshotLosses = 2
    Reordering = FALSE
INVARIANTS BookIsCurrent
