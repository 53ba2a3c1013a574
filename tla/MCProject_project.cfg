\* Processes die between two files and before the backlog is there, audits are run by hand,
\* prompts are assembled side by side, and calls fail in every way.
SPECIFICATION MCSpec
CONSTANTS
    None = None
    Env = {"crash", "early_death", "by_hand", "parallel"}
    Path <- Paths
    Output <- Outputs
    WorkOrder <- WorkOrders
    Protected <- ProtectedPaths
    Credential <- Credentials
    Manifest <- Manifests
    Repairs = 2
    Rounds = 2
    Task = {1, 2}
    File = {1, 2}
    Grants = {{1}}
    Risky = {2}
    MaxWrites = 2
    MaxRounds = 3
    Deps <- SecondAfterFirst
    TaskKind <- OldKinds
    Known = {1}
    Text <- Texts
    Decision = {"framework", "account", "licence"}
    MaxCycles = 2
    Proc = {"p", "q", "r"}
    Cap = {1, 2, 3, 4}
    Dependencies <- Needed
    Rivals <- InConflict
    Alternatives <- OtherThan
    Conditions <- OnlyWith
    Always = {}
    Confidence <- Certainty
    Risk <- Danger
    Checks = {1, 3}
    Sources <- TwoSources
    Command = {"cycle"}
    MaxOps = 5
    Skill = {"s"}
    MaxRev = 3
    RevisionKind <- Revisions
    Summed = {}
    MaxSkillOps = 6
    Owner = {"a", "b"}
    Server = {1, 2}
    Template <- Templates
    Suggested <- OneNeed
    Machine = "machine"
    Material <- Prompt
    ModelWindows = {8, 12, 16, 20}
    Reserve = 2
    Percent <- Allocation
    Title = 1
    Wrap = 1
    MinPiece = 3
    Factor = 150
    Marker = 1
    Caller = {1, 2}
    Version = {1}
    Sensitive <- Secret
    Backend = {1, 2}
    Local = {}
    Excluded <- NoneExcluded
    Able <- AllAble
    Preferred <- CoderOnFirst
    Strength <- Strengths
    Limits <- OwnLimits
    Cost <- Costs
    Envelope = 4
    Policy <- Configured
    Faults = {"limit", "outage", "auth", "malformed"}
    MaxHour = 1
    MaxWork = 2
    MaxCalls = 4
    TaskOrder <- InOrder
    Milestones <- OneByOne
    Covers <- Requirements
    Resolves <- ByCapability
    Decisions <- Asked
    Day = 6
    Windows <- DayAndNight
    CycleLength = 2
    Cool <- Cooldowns
    Recovery <- Recoveries
    MaxRecovery = 4
    Keep = 1
    Hints = {None, 0, 6}
    MaxTime = 7
    MaxStreak = 2
    MaxFails = 3
INVARIANTS ContractKept HealingSound CapabilitiesSound SourcesVetted PromptsSound RoutingSound
           CompletionEarned OneInside
PROPERTIES ReopenedOnSignature IsMutex
CHECK_DEADLOCK FALSE
