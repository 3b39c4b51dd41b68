SPECIFICATION MCSpec
CONSTANTS
    User = {u1, u2, u3}
    PoolMin = 1
    PoolMax = 5
    FirstSize = 2
    MaxFailures = 3
    Window = 2
    BaseDelay = 2
    MaxBurstDelay = 5
    MaxDeferral = 10
    BurstThreshold = 2
    Ramp = 3
    NoTimer = NoTimer
    MaxNow = 16
    MaxEdits = 2
    PoolSize = 2
    MaxTasks = 3
    MaxThreads = 5
    MaxCrashes = 1
    Directories = {1, 2}
    Names = {1, 2}
    MaxFiles = 2
    Lines = {"a", "b"}
    MaxLines = 3
    CONTEXT = 1
    Clients = {c1, c2}
    MaxItems = 3
    MaxFileLines = 7
    MaxCursors = 2
    MaxSnapshots = 2
    MaxSelects = 2
    MaxFrames = 4
    StepDivisor = 2
    MaxLoads = 2
    Owner = owner
    Guests = {guest}
    Targets = {"admin"}
    Pods = {p1}
    Requests = {r1, r2}
    MaxChanges = 1
    MaxFaults = 1
    MaxPanelChanges = 1
    Login <- DemoAndGithub
    Attempt <- ThreeLogins
    Files = {f1}
    MaxCalls = 1
    MaxFetches = 3
    MaxDrops = 1
    Sockets <- TwoSockets
    PodOf <- OnOnePod
    FileIds = {1}
    MaxSwitches = 1
    Tabs <- ThreeTabs
    NameOf <- TabNames
    MaxTyped = 3
    MaxLosses = 1
    MaxOpened = 2
    MaxValues = 2
    MaxReplacements = 1
    MaxVisits = 2
    MaxReads = 1
    MaxBroken = 1
SYMMETRY Alike
INVARIANTS
    TypesOK
    PoolIsSound
    DebouncerIsSound
    CalmPoolIsExact
    AlgorithmsAreRight
    HistoryViewsAreRight
    AccessIsCurrent
    TreeConverges
    PresenceIsCurrent
    EditorIsFaithful
    TextsAreFaithful
PROPERTIES
    FlushesAreApart
CHECK_DEADLOCK FALSE
