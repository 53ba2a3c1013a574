\* One task, one file; git refuses to merge without a conflict.
SPECIFICATION Spec
CONSTANTS
    None = None
    Task = {1}
    File = {1}
    Orders = {{1}}
    Risky = {}
    MaxWrites = 1
    MaxRounds = 1
    Env = {"merge_refused"}
INVARIANT CommittedIsKept
CHECK_DEADLOCK FALSE
