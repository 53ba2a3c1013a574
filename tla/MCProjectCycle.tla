--------------------------- MODULE MCProjectCycle ---------------------------
(***************************************************************************)
(* Instances of ProjectCycle for TLC.                                      *)
(***************************************************************************)
EXTENDS ProjectCycle, TLC

CONSTANTS p1, p2, p3, t1, t2

\* Processes are interchangeable; tasks are not, one may depend on another.
Symmetry == Permutations(Proc)

\* One task, or two of which the second depends on the first.
Chain == [t \in Task |-> IF t = t2 THEN {t1} ELSE {}]

\* Every two tasks claim intersecting paths.
AllOverlap == {{t, u} : t, u \in Task}
=============================================================================
