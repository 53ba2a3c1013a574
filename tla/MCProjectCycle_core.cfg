\* Three processes and two dependent tasks; crashes during a supervised model
\* call, and the pause, resume and recover commands while nothing runs.
SPECIFICATION Spec
CONSTANTS
    p1 = p1
    p2 = p2
    p3 = p3
    t1 = t1
    t2 = t2
    None = None
    Proc = {p1, p2, p3}
    Task = {t1, t2}
    Deps <- Chain
    Overlap <- AllOverlap
    MaxCalls = 1
    Env = {"crash", "recover", "pause"}
SYMMETRY Symmetry
INVARIANTS
    TypeOK
    WorkIsOwned
    MergedOnce
    DoneIsSettled
    PauseRespected
PROPERTIES
    DoneIsFinal
    MeetsContract
