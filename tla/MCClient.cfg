\* Two goroutines of one application; two devices that answer one instruction; two
\* machines at one subscription; two logins at a time.
SPECIFICATION MCSpec
CONSTANTS
    d1 = d1
    d2 = d2
    Callers <- Two
    MaxTokens = 3
    Devices <- Two
    All = all
    Machines <- Two
    Admins <- Two
    Subs = {1}
    SeatLimits = {1}
    MaxTime = 1
    Nobody = nobody
    Logins = {1, 2}
    MaxAttempts <- FewFailures
    LockTime <- LockTimes
    Limit = 2
    Window = 2
    LastMoment = 4
SYMMETRY Symmetry
CHECK_DEADLOCK FALSE
INVARIANTS
    TokensInStep
    ShowsTheResult
    CountsMissNobody
    GuessesBounded
    RequestsBounded
PROPERTIES
    SeatsWithinLimit
    UndoneByOldCopies
