\* The only departure: schema repairs are refused, denied or out of quota.
SPECIFICATION Spec
CONSTANTS
    codex = codex
    ollama = ollama
    Backend = {codex, ollama}
    Chains <- OneChain
    Env = {"repair_denied"}
INVARIANTS
    NeverRoutedAround
