\* Three tasks, of which one is stuck, and a batch of two.
SPECIFICATION Spec
CONSTANTS
    t1 = t1
    t2 = t2
    t3 = t3
    Tasks <- ThreeTasks
    Stuck <- OneStuck
    PollBatch = 2
    ProgressDelay = 1
    IdleDelay = 2
    Timeout = 5
    MaxCreate = 2
INVARIANTS
    AskedInTime

