--------------------------- MODULE BuildContract ---------------------------
(***************************************************************************)
(* What the build loop of one project promises, without files, records or  *)
(* recovery: one builder at a time, which takes a task whose dependencies  *)
(* are built, and builds no task twice.  A builder may give up, or die, at *)
(* any point; what it has built stays.                                     *)
(***************************************************************************)
CONSTANTS Builder, Task, Nothing, Deps

VARIABLES builder, job, built

vars == <<builder, job, built>>

TypeOK ==
    /\ builder \in Builder \cup {Nothing}
    /\ job \in Task \cup {Nothing}
    /\ built \subseteq Task

Init ==
    /\ builder = Nothing
    /\ job = Nothing
    /\ built = {}

Enter ==
    /\ builder = Nothing
    /\ builder' \in Builder
    /\ UNCHANGED <<job, built>>

Take(t) ==
    /\ builder # Nothing
    /\ job = Nothing
    /\ t \notin built
    /\ Deps[t] \subseteq built
    /\ job' = t
    /\ UNCHANGED <<builder, built>>

\* The taken task becomes part of the product, for the only time.
Merge ==
    /\ job # Nothing
    /\ job \notin built
    /\ built' = built \cup {job}
    /\ UNCHANGED <<builder, job>>

Withdraw ==
    /\ builder # Nothing
    /\ builder' = Nothing
    /\ job' = Nothing
    /\ UNCHANGED built

Next == Enter \/ (\E t \in Task : Take(t)) \/ Merge \/ Withdraw

Spec == Init /\ [][Next]_vars
=============================================================================
