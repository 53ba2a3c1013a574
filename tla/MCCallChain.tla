---------------------------- MODULE MCCallChain ----------------------------
(***************************************************************************)
(* Instances of CallChain for TLC.                                         *)
(***************************************************************************)
EXTENDS CallChain

CONSTANTS codex, ollama

\* One role is routed to codex with ollama as its fallback, another to ollama alone.
TwoChains == {<<codex, ollama>>, <<ollama>>}
OneChain  == {<<codex, ollama>>}
=============================================================================
