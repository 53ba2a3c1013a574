----------------------------- MODULE MCSharing -----------------------------
(***************************************************************************)
(* An instance of LockFiles and one of Fleet for TLC: processes that share *)
(* a project, and projects that share the slots.  They have no state in    *)
(* common, so a behaviour is one of either, chosen by `focus' in the       *)
(* initial state; fairness is that of the part which is explored.          *)
(***************************************************************************)
EXTENDS Fleet

CONSTANTS Proc, None, LockEnv

VARIABLES pc, file, old, lease, late, seen

L == INSTANCE LockFiles WITH Env <- LockEnv

ASSUME L!LockAssumption

\* Two projects share codex, of which the second may be routed to the local ollama; the
\* third runs on ollama only.
Same    == [p \in Project |-> 1]
Chains  == [p \in Project |-> CASE p = 1 -> {"codex"} [] p = 2 -> {"codex", "ollama"}
                                [] OTHER -> {"ollama"}]
OneEach == [b \in {"codex", "ollama"} |-> 1]

VARIABLE focus

lockVars == <<pc, file, old, lease, late, seen>>
allVars  == <<focus, vars, lockVars>>

\* One initial state is enough for the part that is not explored.
MCInit ==
    /\ focus \in {"locks", "fleet"}
    /\ Init /\ (focus # "fleet" => ready = {})
    /\ L!Init

MCNext ==
    /\ UNCHANGED focus
    /\ \/ focus = "locks" /\ L!Next /\ UNCHANGED vars
       \/ focus = "fleet" /\ Next /\ UNCHANGED lockVars

\* The conjuncts of L!Fairness and of FairSpec.
LocksFair ==
    /\ \A p \in Proc : WF_allVars(focus = "locks" /\ L!Step(p) /\ UNCHANGED <<focus, vars>>)
    /\ WF_allVars(focus = "locks" /\ L!FileAges /\ UNCHANGED <<focus, vars>>)
    /\ WF_allVars(focus = "locks" /\ L!LeaseExpires /\ UNCHANGED <<focus, vars>>)
FleetFair ==
    /\ \A t \in Tick :
        /\ SF_allVars(focus = "fleet" /\ Step(t) /\ UNCHANGED <<focus, lockVars>>)
        /\ WF_allVars(focus = "fleet" /\ Begin(t) /\ UNCHANGED <<focus, lockVars>>)
    /\ \A t \in Tick, p \in Project :
        WF_allVars(focus = "fleet" /\ Finish(t, p) /\ UNCHANGED <<focus, lockVars>>)

MCFairSpec == MCInit /\ [][MCNext]_allVars /\ LocksFair /\ FleetFair

\* Whatever died where, the project can always be entered again: some process gets in
\* again and again (core/projstate.py:78-79).
KeepsRunning == focus = "locks" => L!KeepsRunning

\* Each project of the highest priority that stays eligible gets its turn
\* (core/fleet.py:315-319), whatever outlives its slot.
EachGetsItsTurn == focus = "fleet" => NothingStarves
=============================================================================
