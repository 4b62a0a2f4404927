\* One machine that unbinds while its Verify is on the way; no administrator.
SPECIFICATION Spec
CONSTANTS
    m1 = m1
    m2 = m2
    o1 = o1
    o2 = o2
    Machines <- TwoMachines
    Operators <- NoOperators
    DeviceLimits <- JustOne
    UnbindLimit = 1
    Reports = TRUE
    Nobody = Nobody
    MaxUnbinds = 3
INVARIANTS
    UnbindsWithinLimit
