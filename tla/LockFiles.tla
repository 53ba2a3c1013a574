------------------------------ MODULE LockFiles ------------------------------
(***************************************************************************)
(* The two files that keep the cycles of one project apart, one system     *)
(* call at a time: project.lock (ProjectLock of core/projstate.py), which  *)
(* is created with O_EXCL and broken when it is older than stale_seconds,  *)
(* and lease.json (ProjectLease of core/taskspace.py), which is read and   *)
(* then written.  ProjectCycle takes each of them in one step.             *)
(*                                                                         *)
(* The pid is written into the file right after its creation; acquire and  *)
(* release never read it, so creation and writing are one step.            *)
(***************************************************************************)
CONSTANTS
    Proc,   \* processes that call run_cycle
    None,   \* no process
    Env     \* "crash": processes die; "overrun": a live one outlasts its lock
            \* or lease; "breakers": two find the same lock file stale at once

\* What they may be.
LockAssumption == None \notin Proc /\ Env \subseteq {"crash", "overrun", "breakers"}

VARIABLES
    pc,     \* where each process is in acquire and release
    file,   \* creator of project.lock, None when there is no such file
    old,    \* its mtime is more than stale_seconds ago
    lease,  \* pid of the active lease in lease.json, None when released
    late,   \* the lease is past expires_at
    seen    \* seen[p]: what holder() last returned to p

vars == <<pc, file, old, lease, late, seen>>

\* A process in one of these has created a lock file and not removed it.
Locking == {"look", "refuse", "acquire", "in", "unlease", "unlock"}
\* In one of these it has found one and may be about to remove it.
Breaking == {"stat", "break", "retry"}
Location == Locking \cup Breaking \cup {"out", "dead"}

Alive(p) == pc[p] # "dead"
Goto(p, l) == pc' = [pc EXCEPT ![p] = l]

\* The current unexpired lease, or None.
Holder == IF late THEN None ELSE lease

Init ==
    /\ pc = [p \in Proc |-> "out"]
    /\ file = None /\ old = FALSE
    /\ lease = None /\ late = FALSE
    /\ seen = [p \in Proc |-> None]

-----------------------------------------------------------------------------
(***************************************************************************)
(* ProjectLock.acquire.                                                    *)
(***************************************************************************)
\* Mutant: O_CREAT without O_EXCL.
CreateAnyway(p) ==
    /\ pc[p] \in {"out", "retry"}
    /\ file' = p
    /\ old' = FALSE
    /\ Goto(p, "look")
    /\ UNCHANGED <<lease, late, seen>>
\* os.open with O_CREAT and O_EXCL succeeds.
Create(p) ==
    /\ pc[p] \in {"out", "retry"}
    /\ file = None
    /\ file' = p
    /\ old' = FALSE
    /\ Goto(p, "look")
    /\ UNCHANGED <<lease, late, seen>>

\* FileExistsError.
Exists(p) ==
    /\ pc[p] \in {"out", "retry"}
    /\ file # None
    /\ "breakers" \in Env \/ \A q \in Proc \ {p} : pc[q] \notin Breaking
    /\ Goto(p, "stat")
    /\ UNCHANGED <<file, old, lease, late, seen>>

\* Mutant: the age of the file is not looked at.
NeverStale == FALSE
\* Mutant: any file is taken for stale.
AnyAge == file # None
Stale == file # None /\ old

\* os.path.getmtime: acquire fails when the file is gone or not stale.
Stat(p) ==
    /\ pc[p] = "stat"
    /\ Goto(p, IF Stale THEN "break" ELSE "out")
    /\ UNCHANGED <<file, old, lease, late, seen>>

\* os.remove takes away whatever file is there by now, and acquire starts over;
\* it fails when there is none.
Break(p) ==
    /\ pc[p] = "break"
    /\ Goto(p, IF file = None THEN "out" ELSE "retry")
    /\ file' = None
    /\ old' = FALSE
    /\ UNCHANGED <<lease, late, seen>>

(***************************************************************************)
(* ProjectLease.acquire, called with the lock held.                        *)
(***************************************************************************)
Look(p) ==
    /\ pc[p] = "look"
    /\ seen' = [seen EXCEPT ![p] = Holder]
    /\ Goto(p, IF Holder \in {None, p} THEN "acquire" ELSE "refuse")
    /\ UNCHANGED <<file, old, lease, late>>

\* The lease is written on the strength of what was read before.
Acquire(p) ==
    /\ pc[p] = "acquire"
    /\ lease' = p
    /\ late' = FALSE
    /\ Goto(p, "in")
    /\ UNCHANGED <<file, old, seen>>

\* "lease_held": the lock file is removed again, whoever created it.
Refuse(p) ==
    /\ pc[p] = "refuse"
    /\ file' = None
    /\ old' = FALSE
    /\ Goto(p, "out")
    /\ UNCHANGED <<lease, late, seen>>

(***************************************************************************)
(* The finally of run_cycle.                                               *)
(***************************************************************************)
\* The cycle is over; ProjectLease.release reads the holder.
Finish(p) ==
    /\ pc[p] = "in"
    /\ seen' = [seen EXCEPT ![p] = Holder]
    /\ Goto(p, IF Holder = p THEN "unlease" ELSE "unlock")
    /\ UNCHANGED <<file, old, lease, late>>

Unlease(p) ==
    /\ pc[p] = "unlease"
    /\ lease' = None
    /\ late' = FALSE
    /\ Goto(p, "unlock")
    /\ UNCHANGED <<file, old, seen>>

\* ProjectLock.release: os.remove, whoever created the file.
Unlock(p) ==
    /\ pc[p] = "unlock"
    /\ file' = None
    /\ old' = FALSE
    /\ Goto(p, "out")
    /\ UNCHANGED <<lease, late, seen>>

(***************************************************************************)
(* Deaths and time.                                                        *)
(***************************************************************************)
\* At least one process survives.
Crash(p) ==
    /\ "crash" \in Env
    /\ Alive(p)
    /\ \E q \in Proc \ {p} : Alive(q)
    /\ Goto(p, "dead")
    /\ UNCHANGED <<file, old, lease, late, seen>>

FileAges ==
    /\ file # None
    /\ "overrun" \in Env \/ ~Alive(file)
    /\ old' = TRUE
    /\ UNCHANGED <<pc, file, lease, late, seen>>

LeaseExpires ==
    /\ lease # None
    /\ "overrun" \in Env \/ ~Alive(lease)
    /\ late' = TRUE
    /\ UNCHANGED <<pc, file, old, lease, seen>>

Step(p) == \/ Create(p) \/ Exists(p) \/ Stat(p) \/ Break(p)
           \/ Look(p) \/ Acquire(p) \/ Refuse(p)
           \/ Finish(p) \/ Unlease(p) \/ Unlock(p)

Next == (\E p \in Proc : Step(p) \/ Crash(p)) \/ FileAges \/ LeaseExpires

Spec == Init /\ [][Next]_vars

\* A timer keeps calling run_cycle, cycles end, and time passes.
Fairness == /\ \A p \in Proc : WF_vars(Step(p))
            /\ WF_vars(FileAges)
            /\ WF_vars(LeaseExpires)

FairSpec == Spec /\ Fairness

-----------------------------------------------------------------------------
TypeOK ==
    /\ pc \in [Proc -> Location]
    /\ file \in Proc \cup {None} /\ old \in BOOLEAN
    /\ lease \in Proc \cup {None} /\ late \in BOOLEAN
    /\ seen \in [Proc -> Proc \cup {None}]

Inside(p) == pc[p] = "in"

\* "Machine+process execution lease with expiry.  Prevents the same project
\* from running in two processes" (core/taskspace.py:245-246).
OneInside == \A p, q \in Proc : Inside(p) /\ Inside(q) => p = q

\* Whatever died where, the project can always be entered again
\* (core/projstate.py:78-79, "so a crashed cycle cannot deadlock resume").
KeepsRunning == []<>(\E p \in Proc : Inside(p))

\* The files implement a mutex: one holder, which leaves before the next enters.
Exclusive == INSTANCE Mutex WITH
    Process <- Proc,
    Nobody  <- None,
    holder  <- IF \E p \in Proc : Inside(p) THEN CHOOSE p \in Proc : Inside(p) ELSE None

IsMutex == Exclusive!Spec
=============================================================================
