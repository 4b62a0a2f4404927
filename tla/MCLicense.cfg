\* Two machines, one administrator, limits of one and two devices.
SPECIFICATION OneReportSpec
\* A deleted licence whose machines are all blacklisted has nothing left to do.
CHECK_DEADLOCK FALSE
CONSTANTS
    m1 = m1
    m2 = m2
    o1 = o1
    o2 = o2
    Machines <- TwoMachines
    Operators <- OneOperator
    DeviceLimits <- OneOrTwo
    UnbindLimit = 1
    Reports = TRUE
    Nobody = Nobody
    MaxUnbinds = 0
SYMMETRY MachineSymmetry
PROPERTIES
    BoundWithinLimit
