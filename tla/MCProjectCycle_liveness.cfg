\* A process may die in a supervised call, records lag, so that a running cycle
\* may be reconciled as if it were dead; the project may be paused.
SPECIFICATION FairSpec
CONSTANTS
    p1 = p1
    p2 = p2
    p3 = p3
    t1 = t1
    t2 = t2
    None = None
    Proc = {p1, p2}
    Task = {t1}
    Deps <- Chain
    Overlap <- AllOverlap
    MaxCalls = 1
    Env = {"crash", "record_lag", "pause"}
INVARIANTS
    DoneIsMerged
PROPERTIES
    NoStuckTask
    NoStuckLock
