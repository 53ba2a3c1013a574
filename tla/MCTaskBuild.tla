---------------------------- MODULE MCTaskBuild ----------------------------
(***************************************************************************)
(* Instances of TaskBuild for TLC.                                         *)
(***************************************************************************)
EXTENDS TaskBuild

CONSTANTS clean, good, risky, leak, wide, long

TwoBackends == <<"codex", "ollama">>

\* Besides clean: one acceptable content, one that needs the security review,
\* one with a secret, one outside the allowed paths, one beyond the limit.
Contents  == {clean, good, risky, leak, wide, long}
InPaths   == Contents \ {wide}
InLimit   == Contents \ {long}

\* The checks of the acceptable content may leave a file with a secret.
ChecksWrite == [t \in Contents |-> IF t = good THEN {good, leak} ELSE {t}]
=============================================================================
