----------------------------- MODULE Workspace -----------------------------
(***************************************************************************)
(* The files of a project that its cycles change, side by side: the        *)
(* contract of a task and what is written under it, the worktrees, the     *)
(* state files and what heals them, the lock and the lease, and the        *)
(* beginning and the end of the project.  Which process runs a cycle is in *)
(* ProjectCycle, what it does to its task in TaskBuild.  The parts have no *)
(* state in common; the properties of each are collected here under names  *)
(* of their own.                                                           *)
(***************************************************************************)
EXTENDS Setting, Naturals, Sequences, FiniteSets

CONSTANTS
    Path, Output, WorkOrder, Protected, Credential, Manifest, Repairs, Rounds, \* TaskContract
    Task, File, Grants, Risky, MaxWrites, MaxRounds,                    \* Worktrees
    Deps, TaskKind, Known, Text, Decision, MaxCycles,                   \* SelfHeal
    TaskOrder, Milestones, Covers, Resolves, Decisions,                 \* Completion
    Proc                                                                \* LockFiles

VARIABLES
    phase, outputs, order, base, tree, bad, attempts, rounds, depsDone,
    done, tries, project, dirty, branch, wTree, wPhase, cur, at, wAllowed, index, survivors, tied,
    writes, wRounds, scanned, landed, committed,
    status, reason, kind, blockers, needed, decided, streak, log, heal, listed, cycles, torn,
    unlogged, written, starter, startCopy, aStatus, aBlockers, aProven, sched, cycle, audits, report,
    lPc, lFile, lOld, lease, late, seen

tvars == <<phase, outputs, order, base, tree, bad, attempts, rounds, depsDone>>
wvars == <<done, tries, project, dirty, branch, wTree, wPhase, cur, at, wAllowed, index, survivors,
           tied, writes, wRounds, scanned, landed, committed>>
hvars == <<status, reason, kind, blockers, needed, decided, streak, log, heal, listed,
           cycles, torn, unlogged>>
avars == <<written, starter, startCopy, aStatus, aBlockers, aProven, sched, cycle, audits,
           report>>
lvars == <<lPc, lFile, lOld, lease, late, seen>>
wsvars == <<tvars, wvars, hvars, avars, lvars>>

T == INSTANCE TaskContract WITH Order <- WorkOrder
W == INSTANCE Worktrees WITH
        Orders <- Grants, tree <- wTree, phase <- wPhase, rounds <- wRounds, allowed <- wAllowed
H == INSTANCE SelfHeal WITH Kind <- TaskKind
A == INSTANCE Completion WITH
        Order <- TaskOrder, Depends <- Deps, Decision <- Decisions, Reversible <- H!Reversible,
        status <- aStatus, blockers <- aBlockers, proven <- aProven
L == INSTANCE LockFiles WITH
        Env <- Env \cap {"crash", "overrun", "breakers"},
        pc <- lPc, file <- lFile, old <- lOld

Contracts == T!Next /\ UNCHANGED <<wvars, hvars, avars, lvars>>
Commits   == W!Next /\ UNCHANGED <<tvars, hvars, avars, lvars>>
Heals     == H!Next /\ UNCHANGED <<tvars, wvars, avars, lvars>>
Completes == A!Next /\ UNCHANGED <<tvars, wvars, hvars, lvars>>
Locks     == L!Next /\ UNCHANGED <<tvars, wvars, hvars, avars>>

WorkspaceInit == T!Init /\ W!Init /\ H!Init /\ A!Init /\ L!Init
WorkspaceNext == Contracts \/ Commits \/ Heals \/ Completes \/ Locks
WorkspaceSpec == WorkspaceInit /\ [][WorkspaceNext]_wsvars

-----------------------------------------------------------------------------
\* The properties of the parts with their types, under their own names.
\* What is merged meets its contract, and in git what was scanned lands and what was committed
\* stays.
ContractKept == /\ T!TypeOK /\ T!MergedMeetsContract /\ T!CallsAreWorthwhile
                /\ W!TypeOK /\ W!MergedIsScanned /\ W!CommittedIsKept

\* Recovery leaves no blocker behind, loses no genuine failure and reopens what it knows by a
\* signature of the platform.
HealingSound == H!TypeOK /\ H!BlockersMatch /\ H!StreakKept
ReopenedOnSignature == H!ReopenedOnSignature

\* A project is complete only on evidence.
CompletionEarned == A!TypeOK /\ A!CompletionEarned

\* One process at a time is in its cycle, whoever died where: the files are a mutex.
OneInside == L!TypeOK /\ L!OneInside
IsMutex == L!IsMutex
=============================================================================
