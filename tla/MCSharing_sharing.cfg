\* Four processes of one project, deaths anywhere, one process at a time breaking a stale
\* lock; three projects, one tick after the other, cycles that outlive their slots and
\* ticks that die.
SPECIFICATION MCFairSpec
CONSTANTS
    None = None
    Proc = {p1, p2, p3, p4}
    LockEnv = {"crash"}
    N = 3
    Tick = {"timer"}
    Priority <- Same
    Chain <- Chains
    Local = {"ollama"}
    Active = 2
    Models = 2
    Heavy = 1
    PerBackend <- OneEach
    Env = {"overrun", "crash"}
PROPERTIES
    KeepsRunning
    EachGetsItsTurn
