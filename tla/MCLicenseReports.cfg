\* One machine with its heartbeats, two administrators.
SPECIFICATION Spec
\* A deleted licence whose only machine is blacklisted has nothing left to do.
CHECK_DEADLOCK FALSE
CONSTANTS
    m1 = m1
    m2 = m2
    o1 = o1
    o2 = o2
    Machines <- OneMachine
    Operators <- TwoOperators
    DeviceLimits <- JustOne
    UnbindLimit = 1
    Reports = TRUE
    Nobody = Nobody
    MaxUnbinds = 1
SYMMETRY OperatorSymmetry
INVARIANTS
    OneLiveSession
    RefusedIsListed
PROPERTIES
    RevocationEndsByOldCopies
