\* Two tasks of one user against one poller, with a failing statement and a
\* restart; queries return one row at a time.
SPECIFICATION Spec
CONSTANTS
    u1 = u1
    t1 = t1
    t2 = t2
    c1 = c1
    c2 = c2
    Users <- OneUser
    Tasks <- TwoTasks
    Costs <- OneCost
    Amounts <- OneAmount
    Limits <- OnlyTwo
    NoUser = NoUser
    NoTask = NoTask
    MaxAdjusts = 1
    Creds <- OneCred
    Undecryptable <- NoCreds
    NoCred = NoCred
    MediaCount = 1
    MaxAttempts = 1
    NetTries = 1
    CleanupBatch = 1
    PollBatch = 1
    TimeoutMayRace = FALSE
    MaxFaults = 1
    MaxCrashes = 1
    MaxToggles = 0
SYMMETRY TaskSymmetry
INVARIANTS
    SucceededKeepsCharge
    SoundOutcomes
PROPERTIES
    VerdictIsFinal
