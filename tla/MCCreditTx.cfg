\* Two sessions run the statements of any credit transactions on two users and
\* two tasks.
SPECIFICATION TxSpec
CONSTANTS
    u1 = u1
    u2 = u2
    t1 = t1
    t2 = t2
    s1 = s1
    s2 = s2
    Users <- TwoUsers
    Tasks <- TwoTasks
    Costs <- OneCost
    Amounts <- MCAmounts
    Limits <- MCLimits
    NoUser = NoUser
    NoTask = NoTask
    MaxAdjusts = 1
    Sessions <- TwoSess
    Free = Free
SYMMETRY TxSymmetry
INVARIANTS
    NoCircularWait
    ChargedExactlyOnce
    RefundedAtMostOnce
PROPERTIES
    TakesLedgerSteps
