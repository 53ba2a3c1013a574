\* Two backends, two candidates, two deterministic attempts, one review round.
SPECIFICATION FairSpec
CONSTANTS
    clean = clean
    good = good
    risky = risky
    leak = leak
    wide = wide
    long = long
    Chain <- TwoBackends
    Candidates = 2
    MaxDet = 2
    MaxRounds = 1
    Tree <- Contents
    Clean = clean
    AllowedPaths <- InPaths
    WithinLimit <- InLimit
    Sensitive = {risky}
    Secret = {leak}
    Litter <- ChecksWrite
    Errors = {"red"}
    Ranks = {1, 2}
INVARIANTS
    TypeOK
    MergedIsChecked
    MergedIsApproved
    BestIsMerged
    CallsBounded
PROPERTIES
    BuildEnds
CHECK_DEADLOCK FALSE
