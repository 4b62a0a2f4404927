\* A short task timeout lets the poller refund a task that then succeeds.
SPECIFICATION Spec
CONSTANTS
    u1 = u1
    t1 = t1
    t2 = t2
    c1 = c1
    c2 = c2
    Users <- OneUser
    Tasks <- OneTask
    Costs <- OneCost
    Amounts <- OneAmount
    Limits <- OnlyTwo
    NoUser = NoUser
    NoTask = NoTask
    MaxAdjusts = 1
    Creds <- OneCred
    Undecryptable <- NoCreds
    NoCred = NoCred
    MediaCount = 1
    MaxAttempts = 1
    NetTries = 1
    CleanupBatch = 1
    PollBatch = 1
    TimeoutMayRace = TRUE
    MaxFaults = 0
    MaxCrashes = 0
    MaxToggles = 0
INVARIANTS
    SucceededKeepsCharge
