---------------------------- MODULE ProjectCycle ----------------------------
(***************************************************************************)
(* One project and the operating-system processes that run its build       *)
(* cycles: `agentic project-run` from a timer, the fleet, the dashboard.   *)
(* Each of them executes core/project.py run_cycle, sharing only files:    *)
(* project.lock, lease.json, scheduler.json, backlog.yaml, ownership.json, *)
(* the process records of core/supervisor.py and the agentic/project       *)
(* branch.  A step below is one operation on one of those files, so every  *)
(* interleaving of two cycles, of a cycle and a crash, and of a cycle and  *)
(* the operator's pause and recover commands is a behaviour.               *)
(*                                                                         *)
(* Time is two facts: the lock file is older than stale_seconds, and the   *)
(* lease is past expires_at.  A run_id is identified with its process,     *)
(* which has at most one cycle at a time.                                  *)
(***************************************************************************)
EXTENDS Naturals

CONSTANTS
    Proc,       \* processes that may call run_cycle; a restart is another process
    Task,       \* ids of the tasks of backlog.yaml
    None,       \* no process, no task
    Deps,       \* Deps[t]: the "dependencies" of task t
    Overlap,    \* sets {t, u} of tasks whose claimed paths intersect
    MaxCalls,   \* bound: model calls after the claim (repair and review loops)
    Env         \* what the environment does beyond normal operation, see below

(***************************************************************************)
(* The members of Env:                                                     *)
(*   "crash"           a process dies in a model call made for its task    *)
(*   "untracked_crash" a process dies anywhere else                        *)
(*   "exception"       a step of the locked part raises (git, disk, OS)    *)
(*   "record_lag"      other processes run between a model CLI's exit and  *)
(*                     the owner's last write of its process record        *)
(*   "overrun"         a cycle outlives stale_seconds or the lease's ttl   *)
(*   "slow_start"      other processes start, conductors answer, or hours  *)
(*                     pass between a process's list_records and its lease *)
(*   "recover"         `project recover` is used while nothing runs        *)
(*   "live_recover"    `project recover` is used while a cycle is running  *)
(*   "pause"           `project-pause` is used while nothing runs          *)
(*   "pause_race"      `project-pause` is used while a cycle is running    *)
(*   "candidate_wins"  a parallel candidate other than the primary wins    *)
(*   "merge_refused"   git refuses a merge without leaving unmerged paths  *)
(***************************************************************************)
EnvEvents == {"crash", "untracked_crash", "exception", "record_lag",
              "overrun", "slow_start", "recover", "live_recover", "pause",
              "pause_race", "candidate_wins", "merge_refused"}

ASSUME CycleAssumption ==
    /\ None \notin Proc
    /\ None \notin Task
    /\ Deps \in [Task -> SUBSET Task]
    /\ MaxCalls \in Nat
    /\ Env \subseteq EnvEvents

VARIABLES
    pc,         \* pc[p]: where p is in run_cycle
    job,        \* job[p]: the task p's cycle selected
    calls,      \* calls[p]: model calls p made since the claim
    snap,       \* snap[p]: the records p listed as running and still has to check
    target,     \* target[p]: the record p is reconciling
    mem,        \* mem[p]: p's Scheduler.state
    disk,       \* scheduler.json
    lock,       \* pid in project.lock, None when there is no file
    lockStale,  \* the file is older than stale_seconds
    lease,      \* pid of the active lease, None when released
    leaseLate,  \* the active lease is past expires_at
    rec,        \* rec[p]: p's latest process record
    child,      \* child[p]: the model CLI p started
    status,     \* status[t] in backlog.yaml
    claims,     \* tasks with an entry in ownership.json
    merges,     \* merges[t]: times t's work was merged into agentic/project
    paused,     \* the operator paused and has not resumed (history)
    sawPause    \* sawPause[p]: the pause held when p loaded the scheduler (history)

fileVars == <<lock, lockStale, lease, leaseLate>>
recVars  == <<rec, child>>
taskVars == <<status, claims, merges>>
histVars == <<paused, sawPause>>
vars == <<pc, job, calls, snap, target, mem, disk, lock, lockStale, lease,
          leaseLate, rec, child, status, claims, merges, paused, sawPause>>

(***************************************************************************)
(* Values.                                                                 *)
(***************************************************************************)
Recovering == {"recover", "recover_lease", "recover_lock", "recover_task",
               "recover_claim"}
Starting   == Recovering \cup {"eligible", "lease"}
InCall     == {"conduct", "work"}
Body       == {"heal", "select", "begun", "conduct", "claim", "work", "merge",
               "cleanup", "mark", "requeue", "block", "cool"}
Holding    == Body \cup {"lease", "release", "unlock"}
Location   == Recovering \cup Holding \cup {"idle", "eligible", "dead"}

SchedState == [state : {"idle", "running", "cooling", "paused", "complete"},
               cycle : Proc \cup {None}]
NoSched    == [state |-> "idle", cycle |-> None]
Record     == [state : {"none", "running", "final"}, task : Task \cup {None}]
NoRecord   == [state |-> "none", task |-> None]
\* A record as list_records read it; old once its owner has begun a later call.
Entry      == [owner : Proc, task : Task \cup {None}, old : BOOLEAN]
NoEntry    == [owner |-> None, task |-> None, old |-> FALSE]

Alive(p)  == pc[p] # "dead"
Quiet(p)  == pc[p] \in {"idle", "dead"}
InBody(p) == pc[p] \in Body

\* From list_records to the lease is a matter of milliseconds: unless start-up
\* is slow, no other process starts, no conductor answers and no lock grows old
\* meanwhile.
NobodyElseStarts(p) ==
    "slow_start" \in Env \/ \A q \in Proc \ {p} : pc[q] \notin Starting
NobodyStarts ==
    "slow_start" \in Env \/ \A q \in Proc : pc[q] \notin Starting

Goto(p, l) == pc' = [pc EXCEPT ![p] = l]

\* run_cycle is over, by return or by death: its locals are gone.
Leave(p, l) ==
    /\ Goto(p, l)
    /\ job'      = [job EXCEPT ![p] = None]
    /\ calls'    = [calls EXCEPT ![p] = 0]
    /\ snap'     = [snap EXCEPT ![p] = {}]
    /\ target'   = [target EXCEPT ![p] = NoEntry]
    /\ mem'      = [mem EXCEPT ![p] = NoSched]
    /\ sawPause' = [sawPause EXCEPT ![p] = FALSE]

\* Scheduler.save writes the whole in-memory state of the process.
SaveSched(p, s) == /\ mem'  = [mem EXCEPT ![p] = s]
                   /\ disk' = s

-----------------------------------------------------------------------------
Init ==
    /\ pc        = [p \in Proc |-> "idle"]
    /\ job       = [p \in Proc |-> None]
    /\ calls     = [p \in Proc |-> 0]
    /\ snap      = [p \in Proc |-> {}]
    /\ target    = [p \in Proc |-> NoEntry]
    /\ mem       = [p \in Proc |-> NoSched]
    /\ disk      = NoSched
    /\ lock      = None
    /\ lockStale = FALSE
    /\ lease     = None
    /\ leaseLate = FALSE
    /\ rec       = [p \in Proc |-> NoRecord]
    /\ child     = [p \in Proc |-> "none"]
    /\ status    = [t \in Task |-> "pending"]
    /\ claims    = {}
    /\ merges    = [t \in Task |-> 0]
    /\ paused    = FALSE
    /\ sawPause  = [p \in Proc |-> FALSE]

(***************************************************************************)
(* run_cycle before the lock: load the scheduler, list the process         *)
(* records, and reconcile those whose process is gone.                     *)
(***************************************************************************)
StartCycle(p) ==
    /\ pc[p] = "idle"
    /\ NobodyElseStarts(p)
    /\ Goto(p, "recover")
    /\ mem'      = [mem EXCEPT ![p] = disk]
    /\ snap'     = [snap EXCEPT ![p] =
                       {[owner |-> q, task |-> rec[q].task, old |-> FALSE] :
                            q \in {r \in Proc : rec[r].state = "running"}}]
    /\ sawPause' = [sawPause EXCEPT ![p] = paused]
    /\ UNCHANGED <<job, calls, target, disk, paused>>
    /\ UNCHANGED <<fileVars, recVars, taskVars>>

\* Mutant: the comparison of start times never succeeds.
MatchesNever(e) == ~e.old /\ child[e.owner] = "none"
\* identity_matches: the recorded pid still is the process of the record.
Matches(e) == ~e.old /\ child[e.owner] = "alive"

\* The recorded process runs and is not past its deadline: it is left alone.
LeaveRunning(p, e) ==
    /\ pc[p] = "recover"
    /\ e \in snap[p]
    /\ Matches(e)
    /\ snap' = [snap EXCEPT ![p] = @ \ {e}]
    /\ UNCHANGED <<pc, job, calls, target, mem, disk>>
    /\ UNCHANGED <<fileVars, recVars, taskVars, histVars>>

\* Mutant: the record stays "running" and is reconciled again and again.
LeftOpen(e) == rec
\* The record is closed, which is what keeps it from being reconciled again.
Closed(e) == IF e.old THEN rec ELSE [rec EXCEPT ![e.owner].state = "final"]

\* The recorded process is gone; or it is past deadline_at, which leaves its
\* own supervisor time to end it first, and is terminated.
ReconcileRecord(p, e) ==
    LET q == e.owner IN
    /\ pc[p] = "recover"
    /\ e \in snap[p]
    /\ ~Matches(e) \/ ~Alive(q)
    /\ Goto(p, "recover_lease")
    /\ target' = [target EXCEPT ![p] = e]
    /\ snap'   = [snap EXCEPT ![p] = @ \ {e}]
    /\ rec'    = Closed(e)
    /\ child'  = IF Matches(e) THEN [child EXCEPT ![q] = "exited"] ELSE child
    /\ UNCHANGED <<job, calls, mem, disk>>
    /\ UNCHANGED <<fileVars, taskVars, histVars>>

\* The lease goes, if it is current and names the record's parent_pid.
ReleaseStaleLease(p) ==
    /\ pc[p] = "recover_lease"
    /\ Goto(p, "recover_lock")
    /\ lease' = IF lease = target[p].owner /\ ~leaseLate THEN None ELSE lease
    /\ UNCHANGED <<job, calls, snap, target, mem, disk, lock, lockStale, leaseLate>>
    /\ UNCHANGED <<recVars, taskVars, histVars>>

\* project.lock is removed if it names the record's parent_pid.
ReleaseStaleLock(p) ==
    /\ pc[p] = "recover_lock"
    /\ Goto(p, "recover_task")
    /\ lock'      = IF lock = target[p].owner THEN None ELSE lock
    /\ lockStale' = IF lock = target[p].owner THEN FALSE ELSE lockStale
    /\ UNCHANGED <<job, calls, snap, target, mem, disk, lease, leaseLate>>
    /\ UNCHANGED <<recVars, taskVars, histVars>>

\* The record's task, if it names one, goes back to pending whatever its status.
ResetStaleTask(p) ==
    LET t == target[p].task IN
    /\ pc[p] = "recover_task"
    /\ IF t = None
       THEN /\ Goto(p, "recover")
            /\ target' = [target EXCEPT ![p] = NoEntry]
            /\ UNCHANGED status
       ELSE /\ Goto(p, "recover_claim")
            /\ status' = [status EXCEPT ![t] = "pending"]
            /\ UNCHANGED target
    /\ UNCHANGED <<job, calls, snap, mem, disk, claims, merges>>
    /\ UNCHANGED <<fileVars, recVars, histVars>>

\* Its claim is dropped, and a scheduler still "running" that cycle goes idle.
ReleaseStaleClaim(p) ==
    /\ pc[p] = "recover_claim"
    /\ Goto(p, "recover")
    /\ target' = [target EXCEPT ![p] = NoEntry]
    /\ claims' = claims \ {target[p].task}
    /\ IF mem[p].state = "running" /\ mem[p].cycle = target[p].owner
       THEN SaveSched(p, NoSched)
       ELSE UNCHANGED <<mem, disk>>
    /\ UNCHANGED <<job, calls, snap, status, merges>>
    /\ UNCHANGED <<fileVars, recVars, histVars>>

RecoveryDone(p) ==
    /\ pc[p] = "recover"
    /\ snap[p] = {}
    /\ Goto(p, "eligible")
    /\ UNCHANGED <<job, calls, snap, target, mem, disk>>
    /\ UNCHANGED <<fileVars, recVars, taskVars, histVars>>

(***************************************************************************)
(* Eligibility, lock and lease.                                            *)
(***************************************************************************)
\* Mutant: a paused project is not told from an idle one.
RunsPaused(p) == mem[p].state # "complete"
MayRun(p) == mem[p].state \notin {"paused", "complete"}

\* Cooling or a closed operating window make a cycle ineligible at any time.
NotEligible(p) ==
    /\ pc[p] = "eligible"
    /\ Leave(p, "idle")
    /\ UNCHANGED <<disk, paused>>
    /\ UNCHANGED <<fileVars, recVars, taskVars>>

\* ProjectLock.acquire: create the file, after removing it when it is stale.
TryLock(p) ==
    /\ pc[p] = "eligible"
    /\ MayRun(p)
    /\ lock = None \/ lockStale
    /\ Goto(p, "lease")
    /\ lock' = p
    /\ lockStale' = FALSE
    /\ UNCHANGED <<job, calls, snap, target, mem, disk, lease, leaseLate>>
    /\ UNCHANGED <<recVars, taskVars, histVars>>

\* Another cycle holds the lock: status "locked".
Locked(p) ==
    /\ pc[p] = "eligible"
    /\ MayRun(p)
    /\ lock # None /\ ~lockStale
    /\ Leave(p, "idle")
    /\ UNCHANGED <<disk, paused>>
    /\ UNCHANGED <<fileVars, recVars, taskVars>>

LeaseTaken(p) == lease \notin {None, p} /\ ~leaseLate

\* ProjectLease.acquire.
TryLease(p) ==
    /\ pc[p] = "lease"
    /\ ~LeaseTaken(p)
    /\ Goto(p, "heal")
    /\ lease' = p
    /\ leaseLate' = FALSE
    /\ UNCHANGED <<job, calls, snap, target, mem, disk, lock, lockStale>>
    /\ UNCHANGED <<recVars, taskVars, histVars>>

\* Mutant: run_cycle returns "lease_held" and keeps the lock.
LeaseRefusedKeepsLock(p) ==
    /\ pc[p] = "lease"
    /\ LeaseTaken(p)
    /\ Leave(p, "idle")
    /\ UNCHANGED <<disk, paused>>
    /\ UNCHANGED <<fileVars, recVars, taskVars>>
\* Another process has the lease: the lock is released, status "lease_held".
LeaseRefused(p) ==
    /\ pc[p] = "lease"
    /\ LeaseTaken(p)
    /\ Leave(p, "idle")
    /\ lock' = None
    /\ lockStale' = FALSE
    /\ UNCHANGED <<disk, lease, leaseLate, paused>>
    /\ UNCHANGED <<recVars, taskVars>>

(***************************************************************************)
(* _run_cycle_locked: repair persisted state, then choose the task.        *)
(***************************************************************************)
\* Self-healing: tasks blocked for a reason since recognised as the platform's
\* own go back to pending, and a "blocked_on_human" without a blocker left is
\* cleared, which saves the scheduler.
SelfHeal(p) ==
    /\ pc[p] = "heal"
    /\ Goto(p, "select")
    /\ \E healed \in SUBSET {t \in Task : status[t] = "blocked"} :
           status' = [t \in Task |-> IF t \in healed THEN "pending" ELSE status[t]]
    /\ SaveSched(p, mem[p]) \/ UNCHANGED <<mem, disk>>
    /\ UNCHANGED <<job, calls, snap, target, claims, merges>>
    /\ UNCHANGED <<fileVars, recVars, histVars>>

\* Mutants: dependencies are ignored; completed work is selected again.
ReadyEarly(t) == status[t] = "pending"
ReadyAgain(t) == /\ status[t] \in {"pending", "done"}
                 /\ \A d \in Deps[t] : status[d] = "done"
\* next_task; which of the ready tasks comes first is left open.
Ready(t) == /\ status[t] = "pending"
            /\ \A d \in Deps[t] : status[d] = "done"

\* A pending task is ready and the capacity gate lets it start.
SelectTask(p, t) ==
    /\ pc[p] = "select"
    /\ Ready(t)
    /\ Goto(p, "begun")
    /\ job' = [job EXCEPT ![p] = t]
    /\ SaveSched(p, [state |-> "running", cycle |-> p])
    /\ UNCHANGED <<calls, snap, target>>
    /\ UNCHANGED <<fileVars, recVars, taskVars, histVars>>

\* The capacity gate defers the cycle, or wants a human and leaves the
\* scheduler alone.
Defer(p) ==
    /\ pc[p] = "select"
    /\ \E t \in Task : Ready(t)
    /\ Goto(p, "release")
    /\ \/ SaveSched(p, [mem[p] EXCEPT !.state = "cooling"])
       \/ UNCHANGED <<mem, disk>>
    /\ UNCHANGED <<job, calls, snap, target>>
    /\ UNCHANGED <<fileVars, recVars, taskVars, histVars>>

\* No task is ready: the final audit completes the project or saves
\* "audit_failed", a human blocker saves "blocked_on_human", and otherwise the
\* backlog is blocked and nothing is saved.
NoTask(p) ==
    LET complete == \A t \in Task : status[t] = "done" IN
    /\ pc[p] = "select"
    /\ \A t \in Task : ~Ready(t)
    /\ Goto(p, "release")
    /\ \/ complete /\ SaveSched(p, [mem[p] EXCEPT !.state = "complete"])
       \/ SaveSched(p, mem[p])
       \/ ~complete /\ UNCHANGED <<mem, disk>>
    /\ UNCHANGED <<job, calls, snap, target>>
    /\ UNCHANGED <<fileVars, recVars, taskVars, histVars>>

MarkInProgress(p) ==
    /\ pc[p] = "begun"
    /\ Goto(p, "conduct")
    /\ calls'  = [calls EXCEPT ![p] = 0]
    /\ status' = [status EXCEPT ![job[p]] = "in_progress"]
    /\ UNCHANGED <<job, snap, target, mem, disk, claims, merges>>
    /\ UNCHANGED <<fileVars, recVars, histVars>>

(***************************************************************************)
(* Model calls.  run_supervised writes a "running" record when the CLI     *)
(* starts and a final one when it has observed the exit.  The run context  *)
(* names the task only after the claim.                                    *)
(***************************************************************************)
\* Mutant: the task is not in the run context when the coder is called.
NoRecordTask(p) == None
RecordTask(p) == IF pc[p] = "work" THEN job[p] ELSE None

\* Mutant: the number of repairs and reviews is not bounded.
MayAlwaysCall(p) == calls[p] <= MaxCalls
MayCall(p) == calls[p] < MaxCalls

StartCall(p) ==
    /\ pc[p] \in InCall
    /\ child[p] = "none"
    /\ MayCall(p)
    /\ calls' = [calls EXCEPT ![p] = @ + 1]
    /\ rec'   = [rec EXCEPT ![p] = [state |-> "running", task |-> RecordTask(p)]]
    /\ child' = [child EXCEPT ![p] = "alive"]
    /\ snap'  = [q \in Proc |->
                    {IF e.owner = p THEN [e EXCEPT !.old = TRUE] ELSE e :
                         e \in snap[q]}]
    /\ UNCHANGED <<pc, job, target, mem, disk>>
    /\ UNCHANGED <<fileVars, taskVars, histVars>>

\* The CLI ends, by itself or at its timeout.  Unless its record lags, the
\* owner closes the record before any other process looks.
ChildExits(p) ==
    /\ child[p] = "alive"
    /\ IF Alive(p) /\ "record_lag" \notin Env
       THEN /\ \A q \in Proc : \A e \in snap[q] : e.owner # p
            /\ child' = [child EXCEPT ![p] = "none"]
            /\ rec'   = [rec EXCEPT ![p].state = "final"]
       ELSE /\ child' = [child EXCEPT ![p] = "exited"]
            /\ UNCHANGED rec
    /\ UNCHANGED <<pc, job, calls, snap, target, mem, disk>>
    /\ UNCHANGED <<fileVars, taskVars, histVars>>

\* The owner's poll loop notices the exit and writes the final record.
CloseRecord(p) ==
    /\ pc[p] \in InCall
    /\ child[p] = "exited"
    /\ child' = [child EXCEPT ![p] = "none"]
    /\ rec'   = [rec EXCEPT ![p].state = "final"]
    /\ UNCHANGED <<pc, job, calls, snap, target, mem, disk>>
    /\ UNCHANGED <<fileVars, taskVars, histVars>>

(***************************************************************************)
(* From the work order to the merge.                                       *)
(***************************************************************************)
\* Mutant: the entry in ownership.json is kept.
KeepClaim(p) == claims
ReleaseClaim(p) == claims \ {job[p]}

\* fail() releases the claim, wherever the cycle is, before it updates the task.
Fail(p, next) ==
    /\ Goto(p, next)
    /\ claims' = ReleaseClaim(p)
    /\ UNCHANGED <<job, calls, snap, target, mem, disk, status, merges>>
    /\ UNCHANGED <<fileVars, recVars, histVars>>

\* A model call failed, or the work was rejected: try again later, or block.
ConductorFails(p) ==
    /\ pc[p] = "conduct" /\ child[p] = "none"
    /\ Fail(p, "requeue") \/ Fail(p, "block")
WorkFails(p) ==
    /\ pc[p] = "work" /\ child[p] = "none"
    /\ Fail(p, "requeue") \/ Fail(p, "block")
\* Mutant: the PolicyError of integrate_task is swallowed.
IntegrationSwallowed(p) ==
    /\ pc[p] = "merge"
    /\ Goto(p, "cleanup")
    /\ UNCHANGED <<job, calls, snap, target, mem, disk>>
    /\ UNCHANGED <<fileVars, recVars, taskVars, histVars>>
\* A dirty target or a merge conflict always blocks.
IntegrationFails(p) == pc[p] = "merge" /\ Fail(p, "block")

GiveBack(p) ==
    /\ pc[p] \in {"requeue", "block"}
    /\ Goto(p, "cool")
    /\ status' = [status EXCEPT ![job[p]] =
                      IF pc[p] = "requeue" THEN "pending" ELSE "blocked"]
    /\ UNCHANGED <<job, calls, snap, target, mem, disk, claims, merges>>
    /\ UNCHANGED <<fileVars, recVars, histVars>>

Conducted(p) ==
    /\ pc[p] = "conduct"
    /\ child[p] = "none"
    /\ NobodyElseStarts(p)
    /\ Goto(p, "claim")
    /\ UNCHANGED <<job, calls, snap, target, mem, disk>>
    /\ UNCHANGED <<fileVars, recVars, taskVars, histVars>>

\* claim_paths refuses paths that another task's claim intersects.
Claim(p) ==
    /\ pc[p] = "claim"
    /\ IF \E u \in claims \ {job[p]} : {job[p], u} \in Overlap
       THEN Fail(p, "block")
       ELSE /\ Goto(p, "work")
            /\ claims' = claims \cup {job[p]}
            /\ calls'  = [calls EXCEPT ![p] = 0]
            /\ UNCHANGED <<job, snap, target, mem, disk, status, merges>>
            /\ UNCHANGED <<fileVars, recVars, histVars>>

\* Checks, QA and security all pass.
WorkPasses(p) ==
    /\ pc[p] = "work"
    /\ child[p] = "none"
    /\ Goto(p, "merge")
    /\ UNCHANGED <<job, calls, snap, target, mem, disk>>
    /\ UNCHANGED <<fileVars, recVars, taskVars, histVars>>

\* integrate_task runs `git merge` unchecked and looks only for unmerged paths:
\* a merge refused for another reason counts as a success that changed nothing.
Integrate(p) ==
    /\ pc[p] = "merge"
    /\ Goto(p, "cleanup")
    /\ \/ merges[job[p]] < 2 /\ merges' = [merges EXCEPT ![job[p]] = @ + 1]
       \/ "merge_refused" \in Env /\ UNCHANGED merges
    /\ UNCHANGED <<job, calls, snap, target, mem, disk, status, claims>>
    /\ UNCHANGED <<fileVars, recVars, histVars>>

\* cleanup_task_worktree releases the claim of integration_task_id, which is
\* not the task's own id when another parallel candidate won.
CleanupWorktree(p) ==
    /\ pc[p] = "cleanup"
    /\ Goto(p, "mark")
    /\ \/ claims' = ReleaseClaim(p)
       \/ "candidate_wins" \in Env /\ UNCHANGED claims
    /\ UNCHANGED <<job, calls, snap, target, mem, disk, status, merges>>
    /\ UNCHANGED <<fileVars, recVars, histVars>>

MarkDone(p) ==
    /\ pc[p] = "mark"
    /\ Goto(p, "cool")
    /\ status' = [status EXCEPT ![job[p]] = "done"]
    /\ UNCHANGED <<job, calls, snap, target, mem, disk, claims, merges>>
    /\ UNCHANGED <<fileVars, recVars, histVars>>

StartCooling(p) ==
    /\ pc[p] = "cool"
    /\ Goto(p, "release")
    /\ SaveSched(p, [mem[p] EXCEPT !.state = "cooling"])
    /\ UNCHANGED <<job, calls, snap, target>>
    /\ UNCHANGED <<fileVars, recVars, taskVars, histVars>>

(***************************************************************************)
(* The finally of run_cycle.                                               *)
(***************************************************************************)
\* ProjectLease.release: only a current lease of this process is released.
ReleaseLease(p) ==
    /\ pc[p] = "release"
    /\ Goto(p, "unlock")
    /\ lease' = IF lease = p /\ ~leaseLate THEN None ELSE lease
    /\ UNCHANGED <<job, calls, snap, target, mem, disk, lock, lockStale, leaseLate>>
    /\ UNCHANGED <<recVars, taskVars, histVars>>

\* ProjectLock.release removes the file, whoever wrote it.
ReleaseLock(p) ==
    /\ pc[p] = "unlock"
    /\ Leave(p, "idle")
    /\ lock' = None
    /\ lockStale' = FALSE
    /\ UNCHANGED <<disk, lease, leaseLate, paused>>
    /\ UNCHANGED <<recVars, taskVars>>

(***************************************************************************)
(* The environment and the operator.                                       *)
(***************************************************************************)
\* The process is killed; files and a running CLI stay.  At least one
\* process survives, standing for the operator's next one.
Crash(p) ==
    /\ \/ "crash" \in Env /\ pc[p] = "work" /\ rec[p].state = "running"
       \/ "untracked_crash" \in Env /\ ~Quiet(p)
    /\ \E q \in Proc \ {p} : Alive(q)
    /\ Leave(p, "dead")
    /\ UNCHANGED <<disk, paused>>
    /\ UNCHANGED <<fileVars, recVars, taskVars>>

\* A step of the locked part raises: only the finally runs.
Raise(p) ==
    /\ "exception" \in Env
    /\ pc[p] \in Body \ {"select"}
    /\ child[p] = "none"
    /\ Goto(p, "release")
    /\ UNCHANGED <<job, calls, snap, target, mem, disk>>
    /\ UNCHANGED <<fileVars, recVars, taskVars, histVars>>

LockAges ==
    /\ lock # None
    /\ "overrun" \in Env \/ ~Alive(lock)
    /\ NobodyStarts
    /\ lockStale' = TRUE
    /\ UNCHANGED <<pc, job, calls, snap, target, mem, disk, lock, lease, leaseLate>>
    /\ UNCHANGED <<recVars, taskVars, histVars>>

LeaseExpires ==
    /\ lease # None
    /\ "overrun" \in Env \/ ~Alive(lease)
    /\ NobodyStarts
    /\ leaseLate' = TRUE
    /\ UNCHANGED <<pc, job, calls, snap, target, mem, disk, lock, lockStale, lease>>
    /\ UNCHANGED <<recVars, taskVars, histVars>>

\* project-pause and project-resume load, change and save scheduler.json.
Pause ==
    /\ \/ "pause" \in Env /\ \A p \in Proc : Quiet(p)
       \/ "pause_race" \in Env
    /\ disk'   = [disk EXCEPT !.state = "paused"]
    /\ paused' = TRUE
    /\ UNCHANGED <<pc, job, calls, snap, target, mem, sawPause>>
    /\ UNCHANGED <<fileVars, recVars, taskVars>>

Resume ==
    /\ paused \/ disk.state = "paused"
    /\ disk'   = IF disk.state = "paused" THEN [disk EXCEPT !.state = "idle"] ELSE disk
    /\ paused' = FALSE
    /\ UNCHANGED <<pc, job, calls, snap, target, mem, sawPause>>
    /\ UNCHANGED <<fileVars, recVars, taskVars>>

\* `project recover`: an expired lease is released, and an in_progress task
\* without a claim goes back to pending.
RecoverCommand ==
    /\ \/ "recover" \in Env /\ \A p \in Proc : pc[p] \notin Holding \cup Recovering
       \/ "live_recover" \in Env
    /\ lease'     = IF leaseLate THEN None ELSE lease
    /\ leaseLate' = FALSE
    /\ status'    = [t \in Task |-> IF status[t] = "in_progress" /\ t \notin claims
                                    THEN "pending" ELSE status[t]]
    /\ UNCHANGED <<pc, job, calls, snap, target, mem, disk, lock, lockStale,
                   claims, merges>>
    /\ UNCHANGED <<recVars, histVars>>

-----------------------------------------------------------------------------
Recovery(p) == \/ \E e \in snap[p] : LeaveRunning(p, e) \/ ReconcileRecord(p, e)
               \/ ReleaseStaleLease(p) \/ ReleaseStaleLock(p)
               \/ ResetStaleTask(p) \/ ReleaseStaleClaim(p) \/ RecoveryDone(p)

Enter(p)    == \/ NotEligible(p) \/ TryLock(p) \/ Locked(p)
               \/ TryLease(p) \/ LeaseRefused(p)

Choose(p)   == \/ SelfHeal(p) \/ \E t \in Task : SelectTask(p, t)
               \/ Defer(p) \/ NoTask(p) \/ MarkInProgress(p)

Build(p)    == \/ StartCall(p) \/ CloseRecord(p) \/ ConductorFails(p)
               \/ Conducted(p) \/ Claim(p) \/ WorkFails(p) \/ WorkPasses(p)
               \/ IntegrationFails(p) \/ GiveBack(p) \/ Integrate(p)
               \/ CleanupWorktree(p) \/ MarkDone(p) \/ StartCooling(p)

Finally(p)  == ReleaseLease(p) \/ ReleaseLock(p)

\* The steps a process takes once its cycle has started.
Step(p) == Recovery(p) \/ Enter(p) \/ Choose(p) \/ Build(p) \/ Finally(p)

Next ==
    \/ \E p \in Proc : \/ StartCycle(p) \/ Step(p) \/ ChildExits(p)
                       \/ Crash(p) \/ Raise(p)
    \/ LockAges \/ LeaseExpires
    \/ Pause \/ Resume \/ RecoverCommand

Spec == Init /\ [][Next]_vars

\* A live process takes its next step, a timer keeps starting cycles, every
\* CLI ends (its supervisor's timeout sees to that) and time passes.
Fairness ==
    /\ \A p \in Proc : /\ WF_vars(Step(p))
                       /\ WF_vars(StartCycle(p))
                       /\ SF_vars(ChildExits(p))
    /\ WF_vars(LockAges)
    /\ WF_vars(LeaseExpires)

FairSpec == Spec /\ Fairness

-----------------------------------------------------------------------------
(***************************************************************************)
(* Properties.                                                             *)
(***************************************************************************)
TypeOK ==
    /\ pc \in [Proc -> Location]
    /\ job \in [Proc -> Task \cup {None}]
    /\ calls \in [Proc -> 0..MaxCalls]
    /\ snap \in [Proc -> SUBSET Entry]
    /\ target \in [Proc -> Entry \cup {NoEntry}]
    /\ mem \in [Proc -> SchedState]
    /\ disk \in SchedState
    /\ lock \in Proc \cup {None} /\ lockStale \in BOOLEAN
    /\ lease \in Proc \cup {None} /\ leaseLate \in BOOLEAN
    /\ rec \in [Proc -> Record]
    /\ child \in [Proc -> {"none", "alive", "exited"}]
    /\ status \in [Task -> {"pending", "in_progress", "blocked", "done"}]
    /\ claims \subseteq Task
    /\ merges \in [Task -> 0..2]
    /\ paused \in BOOLEAN
    /\ sawPause \in [Proc -> BOOLEAN]

\* At most one process at a time executes _run_cycle_locked, and while it does
\* project.lock and the lease name it: the lease "prevents two
\* processes/machines from running the same project concurrently"
\* (core/taskspace.py:24-25).
OneCycle ==
    \A p \in Proc : InBody(p) =>
        /\ lock = p
        /\ lease = p
        /\ \A q \in Proc : InBody(q) => q = p

\* Nobody resets the task of a running cycle or takes its claim away while the
\* cycle still relies on them (update_task at project.py:601, claim_paths at 702).
WorkIsOwned ==
    \A p \in Proc :
        /\ pc[p] \in {"conduct", "claim", "work", "merge", "cleanup", "mark",
                     "requeue", "block"} =>
              status[job[p]] = "in_progress"
        /\ pc[p] \in {"work", "merge", "cleanup"} => job[p] \in claims

\* Completed work is not redone: no task is merged into agentic/project twice
\* (README.md:391-392, "never regenerates completed work").
MergedOnce == \A t \in Task : merges[t] <= 1

\* Whatever crashes, races or lags, a task is "done" only when its work is on
\* the agentic/project branch (project.py:1206 merges before 1218 marks), as
\* long as git does not refuse a merge unnoticed: run merge_lost of Worktrees
\* shows that departure.
DoneIsMerged == \A t \in Task : status[t] = "done" => merges[t] > 0

\* A done task's dependencies are done too, and it has given up its file
\* ownership, so that no later task is refused because of it.
DoneIsSettled ==
    \A t \in Task : status[t] = "done" =>
        /\ \A d \in Deps[t] : status[d] = "done"
        /\ t \notin claims

\* A cycle whose scheduler state was loaded after project-pause and before
\* project-resume never runs (README.md:463, "make project-pause stops cycles").
PauseRespected == \A p \in Proc : InBody(p) => ~sawPause[p]

\* A done task stays done: next_task "never re-selects completed work"
\* (core/projstate.py:158), and nothing else may put it back in the queue.
DoneIsFinal ==
    [][\A t \in Task : status[t] = "done" => status'[t] = "done"]_vars

\* The cycles of one project together behave as the single builder of
\* BuildContract: _run_cycle_locked is entered by one process at a time, takes
\* a task whose dependencies are merged, and merges it once.
Contract == INSTANCE BuildContract WITH
    Builder <- Proc,
    Nothing <- None,
    builder <- IF \E p \in Proc : InBody(p) THEN CHOOSE p \in Proc : InBody(p) ELSE None,
    job     <- IF \E p \in Proc : InBody(p)
               THEN job[CHOOSE p \in Proc : InBody(p)] ELSE None,
    built   <- {t \in Task : merges[t] > 0}

MeetsContract == Contract!Spec

\* A task never stays in_progress: the cycle that took it finishes or gives it
\* back, and when the process was killed a later start-up recovery does
\* (core/project.py:153-163, README.md:389-392).
NoStuckTask ==
    \A t \in Task : status[t] = "in_progress" ~> status[t] # "in_progress"

\* The project never stays locked: the holder's own finally, the start-up
\* recovery or the stale-lock break (core/projstate.py:78-79) frees it.
NoStuckLock ==
    \A p \in Proc : lock = p ~> lock # p
=============================================================================
