\* The only backend reports a limit once; an hour passes.
SPECIFICATION FairSpec
CONSTANTS
    Backend = {1}
    Local = {}
    Excluded <- Nothing
    Able <- Anything
    Preferred <- NoWish
    Strength <- One
    Limits = {}
    Cost <- OneToken
    Envelope = 3
    Policy <- Lenient
    Faults = {"limit"}
    MaxHour = 2
    MaxWork = 1
    MaxCalls = 6
    None = None
PROPERTY WorkResumes
CHECK_DEADLOCK FALSE
