\* Two devices that change one item of any type; pages of one among four items;
\* two loops that synchronise one record; three backups kept of six; two requests and one
\* task on one package; one device that updates between two versions; one script that two
\* goroutines execute.
SPECIFICATION MCSpec
CONSTANTS
    d1 = d1
    d2 = d2
    Devices <- Two
    Kinds <- AllKinds
    MaxEdits = 3
    Items <- FourItems
    Spelling <- AsStrings
    Limit = 1
    TicksPerSec = 2
    MaxTick = 4
    MaxWrites = 1
    Records = {r1}
    Loops = {"l1", "l2"}
    SecondTicks = 2
    EndOfTime = 5
    Pushers <- Two
    MaxSyncVersions = 3
    MaxVersions = 6
    Requests <- Two
    Tasks = {t1}
    Machines = {m1}
    MaxFiles = 2
    N = 2
    Files <- Two
    Keep = 1
    MaxBackups = 2
    Admins <- Two
    Goroutines <- Two
    MaxContents = 2
    MaxDeliveries = 2
    MaxReports = 2
SYMMETRY Symmetry
CHECK_DEADLOCK FALSE
INVARIANTS
    PagesComplete
    NothingPassedOver
    OneCurrent
    OfferedIsServed
    CountersAgree
    VersionSurvives
    PublishedWasReviewed
PROPERTIES
    OverwritesKnown
