\* Two channels, two routes and two administrators; formulas of up to five tokens; a team
\* of an owner and two members, with two requests at the same time; three tasks, of which
\* two are stuck and fill the batches of two.
SPECIFICATION MCSpec
CONSTANTS
    c1 = c1
    c2 = c2
    r1 = r1
    r2 = r2
    a1 = a1
    a2 = a2
    t1 = t1
    t2 = t2
    t3 = t3
    Credentials <- TwoCredentials
    Routes <- TwoRoutes
    Admins <- Two
    Providers = {"veo", "sora"}
    Shapes <- TwoShapes
    MaxUploads = 2
    MaxEdits = 2
    Numbers = {0, 2, 3}
    Params <- SevenOfN
    Names = {"n", "x"}
    MaxInt = 31
    MaxTokens = 5
    Members <- Two
    Clerks <- Two
    MaxAsks = 4
    Tasks <- ThreeTasks
    Stuck <- TwoStuck
    PollBatch = 2
    ProgressDelay = 1
    IdleDelay = 2
    Timeout = 5
    MaxCreate = 2
SYMMETRY Symmetry
CHECK_DEADLOCK FALSE
INVARIANTS
    AnnouncedIsServed
    UploadsRemoved
    ChargesWhatFormulaMeans
    OnlyOwnersMakeAdmins
    EndsInTime
