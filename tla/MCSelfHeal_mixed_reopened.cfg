\* An old project, one cycle, no deaths.
SPECIFICATION Spec
CONSTANTS
    Task = {1, 2}
    Deps <- SecondAfterFirst
    Kind <- OldKinds
    Known = {1}
    Text <- Aggregates
    Decision = {"account", "licence"}
    MaxCycles = 1
    None = None
    Env = {}
PROPERTY MixedStaysBlocked
CHECK_DEADLOCK FALSE
