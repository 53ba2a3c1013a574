\* Two processes in each component, the record's slack covers a turn of the loop and the
\* wait for the readers; any of them may die with the registry's lock, a backend's
\* process may be stuck and its number be given to another one.
SPECIFICATION MCSpec
CONSTANTS
    Process = {k1, k2}
    Skill = {"docs", "auth"}
    Sensitive = {"auth"}
    Checks <- CheckList
    Mandatory = {"lint", "test"}
    Heads <- FixedOrNot
    InitRow <- Earlier
    MaxRuns = 2
    MaxClock = 1
    Role = {"worker", "worker_fallback"}
    Fallback <- FallsBack
    Attempts = 2
    MaxCost = 1
    DailyLimit = 3
    RunLimit = 1
    MaxSeries = 2
    Id = {i1, i2}
    Root = {"a", "b"}
    Authorised = {"a", "b"}
    MaxCommands = 4
    Ports = {1, 2}
    MaxPid = 3
    Op = {1, 2}
    Group <- OneGroup
    RingSize = 2
    QueueSize = 3
    MaxEvents = 4
    Total = 2
    FirstOutput = 1
    IdleOutput = 1
    Grace = 1
    Forced = 1
    Joining = 1
    Slack = 2
    MaxTime = 9
    N = 3
    Priority <- Same
    Chain <- Chains
    Local = {"ollama"}
    Active = 2
    Models = 2
    Heavy = 1
    PerBackend <- OneEach
    None = None
    Env = {"crash", "stuck", "reuse"}
SYMMETRY Symmetry
INVARIANTS HandedOver NewFailureFails SpendBounded RegistrySound ConsoleSound ProcessesEnded
           FleetSound
PROPERTY AutoIsEarned
CHECK_DEADLOCK FALSE
