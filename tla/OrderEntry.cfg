SPECIFICATION FairSpec
CONSTANTS
    c1 = c1
    c2 = c2
    Clients = {c1, c2}
    Quota <- MCQuota
    MaxDeaths = 1
    StableUpTo = 16
    MayBlock = FALSE
INVARIANTS TypeOK NoSequenceGap OvertakenWithinPass
PROPERTIES RequestsInOrder EveryRequestAnswered
