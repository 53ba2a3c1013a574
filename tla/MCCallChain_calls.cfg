\* Two roles, two backends; the operator acts between cycles and during them.
SPECIFICATION FairSpec
CONSTANTS
    codex = codex
    ollama = ollama
    Backend = {codex, ollama}
    Chains <- TwoChains
    Env = {"operator_race"}
INVARIANTS
    NeverRoutedAround
    ShutIsShut
PROPERTIES
    CallEnds
