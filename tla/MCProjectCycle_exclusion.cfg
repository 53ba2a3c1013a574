\* Everything that may not break mutual exclusion: deaths and exceptions
\* anywhere, slow start-ups, `project recover` while a cycle is running.
SPECIFICATION Spec
CONSTANTS
    p1 = p1
    p2 = p2
    p3 = p3
    t1 = t1
    t2 = t2
    None = None
    Proc = {p1, p2}
    Task = {t1}
    Deps <- Chain
    Overlap <- AllOverlap
    MaxCalls = 1
    Env = {"untracked_crash", "exception", "slow_start", "live_recover", "candidate_wins"}
SYMMETRY Symmetry
INVARIANTS
    OneCycle
