SPECIFICATION FairSpec
CONSTANTS
    c1 = c1
    c2 = c2
    Clients = {c1, c2}
    Quota <- MCQuotaOnce
    MaxDeaths = 0
    StableUpTo = 16
    MayBlock = TRUE
INVARIANTS NoSequenceGap
