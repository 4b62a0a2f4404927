\* One task with the full retry loops: two credentials of which one does not
\* decrypt, two attempts, two tries, two media, two faults and a restart.
SPECIFICATION FairSpec
CONSTANTS
    u1 = u1
    t1 = t1
    t2 = t2
    c1 = c1
    c2 = c2
    Users <- OneUser
    Tasks <- OneTask
    Costs <- OneCost
    Amounts <- OneAmount
    Limits <- OnlyTwo
    NoUser = NoUser
    NoTask = NoTask
    MaxAdjusts = 1
    Creds <- TwoCreds
    Undecryptable <- BadCred
    NoCred = NoCred
    MediaCount = 2
    MaxAttempts = 2
    NetTries = 2
    CleanupBatch = 1
    PollBatch = 1
    TimeoutMayRace = FALSE
    MaxFaults = 2
    MaxCrashes = 1
    MaxToggles = 1
INVARIANTS
    SucceededHasStoredAll
    OneFinalizer
PROPERTIES
    KeepsPromiseFairly
