------------------------ MODULE ProjectCycle_proofs ------------------------
(***************************************************************************)
(* Theorems about ProjectCycle for every set of processes and tasks, every *)
(* dependency graph and every bound on model calls.                        *)
(***************************************************************************)
EXTENDS ProjectCycle, TLAPS

-----------------------------------------------------------------------------
(***************************************************************************)
(* Type correctness.  TypeOK alone is not inductive: a claim and a merge   *)
(* record the task of the cycle, so a cycle at work must have one.         *)
(***************************************************************************)
Working == {"begun", "conduct", "claim", "work", "merge", "cleanup", "mark",
            "requeue", "block", "cool"}

JobKnown == \A p \in Proc : pc[p] \in Working => job[p] \in Task

LEMMA InitTyped == Init => TypeOK
<1> SUFFICES ASSUME Init
             PROVE  TypeOK
  OBVIOUS
<1> USE DEF Init
<1>1. /\ pc \in [Proc -> Location]
      /\ child \in [Proc -> {"none", "alive", "exited"}]
      /\ sawPause \in [Proc -> BOOLEAN]
  BY DEF Location
<1>2. /\ job \in [Proc -> Task \cup {None}]
      /\ calls \in [Proc -> 0..MaxCalls]
      /\ snap \in [Proc -> SUBSET Entry]
      /\ target \in [Proc -> Entry \cup {NoEntry}]
  BY CycleAssumption DEF CycleAssumption
<1>3. NoSched \in SchedState /\ NoRecord \in Record
  BY DEF NoSched, SchedState, NoRecord, Record
<1>4. mem \in [Proc -> SchedState] /\ disk \in SchedState /\ rec \in [Proc -> Record]
  BY <1>3
<1>5. /\ status \in [Task -> {"pending", "in_progress", "blocked", "done"}]
      /\ merges \in [Task -> 0..2]
  OBVIOUS
<1> QED
  BY <1>1, <1>2, <1>4, <1>5 DEF TypeOK

\* What leaving run_cycle does to the locals keeps their types.
LEMMA LeaveTyped ==
    ASSUME TypeOK, NEW p \in Proc, NEW l \in {"idle", "dead"}, Leave(p, l)
    PROVE  /\ pc' \in [Proc -> Location]
           /\ job' \in [Proc -> Task \cup {None}]
           /\ calls' \in [Proc -> 0..MaxCalls]
           /\ snap' \in [Proc -> SUBSET Entry]
           /\ target' \in [Proc -> Entry \cup {NoEntry}]
           /\ mem' \in [Proc -> SchedState]
           /\ sawPause' \in [Proc -> BOOLEAN]
  BY CycleAssumption
  DEF CycleAssumption, TypeOK, Leave, Goto, Location, SchedState, NoSched

LEMMA StartTyped ==
    ASSUME TypeOK, NEW p \in Proc, StartCycle(p)
    PROVE  TypeOK'
<1> DEFINE running == {[owner |-> q, task |-> rec[q].task, old |-> FALSE] :
                          q \in {r \in Proc : rec[r].state = "running"}}
<1>1. snap' \in [Proc -> SUBSET Entry]
  <2>1. ASSUME NEW q \in Proc
        PROVE  [owner |-> q, task |-> rec[q].task, old |-> FALSE] \in Entry
    BY DEF TypeOK, Record, Entry
  <2>2. running \in SUBSET Entry
    BY <2>1
  <2>3. snap' = [snap EXCEPT ![p] = running]
    BY DEF StartCycle
  <2> HIDE DEF running
  <2> QED
    BY <2>2, <2>3 DEF TypeOK
<1>2. pc' \in [Proc -> Location]
  BY DEF TypeOK, StartCycle, Goto, Location, Recovering
<1>3. mem' \in [Proc -> SchedState] /\ sawPause' \in [Proc -> BOOLEAN]
  BY DEF TypeOK, StartCycle
<1> QED
  BY <1>1, <1>2, <1>3 DEF TypeOK, StartCycle, fileVars, recVars, taskVars

LEMMA RecoveryTyped ==
    ASSUME TypeOK, NEW p \in Proc, Recovery(p)
    PROVE  TypeOK'
<1> USE CycleAssumption DEF CycleAssumption, fileVars, recVars, taskVars, histVars, Goto
<1>1. ASSUME NEW e \in snap[p], LeaveRunning(p, e)
      PROVE  TypeOK'
  BY <1>1 DEF LeaveRunning, TypeOK
<1>2. ASSUME NEW e \in snap[p], ReconcileRecord(p, e)
      PROVE  TypeOK'
  BY <1>2, SMTT(40) DEF ReconcileRecord, Closed, TypeOK, Location, Recovering, Entry, Record
<1>3. ASSUME ReleaseStaleLease(p) \/ ReleaseStaleLock(p)
      PROVE  TypeOK'
  BY <1>3 DEF ReleaseStaleLease, ReleaseStaleLock, TypeOK, Location, Recovering
<1>4. ASSUME ResetStaleTask(p)
      PROVE  TypeOK'
  BY <1>4 DEF ResetStaleTask, TypeOK, Location, Recovering
<1>5. ASSUME ReleaseStaleClaim(p)
      PROVE  TypeOK'
  BY <1>5 DEF ReleaseStaleClaim, SaveSched, NoSched, SchedState, TypeOK, Location,
              Recovering
<1>6. ASSUME RecoveryDone(p)
      PROVE  TypeOK'
  BY <1>6 DEF RecoveryDone, TypeOK, Location
<1> QED
  BY <1>1, <1>2, <1>3, <1>4, <1>5, <1>6 DEF Recovery

LEMMA EnterTyped ==
    ASSUME TypeOK, NEW p \in Proc, Enter(p)
    PROVE  TypeOK'
<1> USE CycleAssumption DEF CycleAssumption, fileVars, recVars, taskVars
<1>1. ASSUME NotEligible(p)
      PROVE  TypeOK'
  BY <1>1, LeaveTyped DEF NotEligible, TypeOK
<1>2. ASSUME TryLock(p) \/ TryLease(p)
      PROVE  TypeOK'
  BY <1>2 DEF TryLock, TryLease, histVars, Goto, TypeOK, Location, Holding, Body
<1>3. ASSUME Locked(p) \/ LeaseRefused(p)
      PROVE  TypeOK'
  BY <1>3, LeaveTyped DEF Locked, LeaseRefused, TypeOK
<1> QED
  BY <1>1, <1>2, <1>3 DEF Enter

LEMMA ChooseTyped ==
    ASSUME TypeOK, NEW p \in Proc, Choose(p)
    PROVE  TypeOK'
<1> USE DEF fileVars, recVars, taskVars, histVars, Goto, Location, Holding, Body,
            SaveSched, SchedState
<1>1. ASSUME SelfHeal(p)
      PROVE  TypeOK'
  BY <1>1 DEF SelfHeal, TypeOK
<1>2. ASSUME NEW t \in Task, SelectTask(p, t)
      PROVE  TypeOK'
  BY <1>2 DEF SelectTask, TypeOK
<1>3. ASSUME Defer(p)
      PROVE  TypeOK'
  BY <1>3 DEF Defer, TypeOK
<1>4. ASSUME NoTask(p)
      PROVE  TypeOK'
  BY <1>4 DEF NoTask, TypeOK
<1>5. ASSUME MarkInProgress(p)
      PROVE  TypeOK'
  <2>1. calls' \in [Proc -> 0..MaxCalls]
    BY <1>5, CycleAssumption DEF CycleAssumption, MarkInProgress, TypeOK
  <2>2. status' \in [Task -> {"pending", "in_progress", "blocked", "done"}]
    BY <1>5 DEF MarkInProgress, TypeOK
  <2> QED
    BY <1>5, <2>1, <2>2 DEF MarkInProgress, TypeOK
<1> QED
  BY <1>1, <1>2, <1>3, <1>4, <1>5 DEF Choose

LEMMA CallTyped ==
    ASSUME TypeOK, NEW p \in Proc, StartCall(p) \/ CloseRecord(p) \/ ChildExits(p)
    PROVE  TypeOK'
<1> USE DEF fileVars, taskVars, histVars
<1>1. ASSUME StartCall(p)
      PROVE  TypeOK'
  <2> DEFINE aged(e) == IF e.owner = p THEN [e EXCEPT !.old = TRUE] ELSE e
  <2>1. calls' \in [Proc -> 0..MaxCalls]
    BY <1>1, CycleAssumption DEF CycleAssumption, StartCall, MayCall, TypeOK
  <2>2. rec' \in [Proc -> Record] /\ child' \in [Proc -> {"none", "alive", "exited"}]
    BY <1>1 DEF StartCall, RecordTask, TypeOK, Record
  <2>3. \A e \in Entry : aged(e) \in Entry
    BY DEF Entry
  <2>4. snap' = [q \in Proc |-> {aged(e) : e \in snap[q]}]
    BY <1>1 DEF StartCall
  <2> HIDE DEF aged
  <2>5. snap' \in [Proc -> SUBSET Entry]
    BY <2>3, <2>4 DEF TypeOK
  <2> QED
    BY <1>1, <2>1, <2>2, <2>5 DEF StartCall, TypeOK
<1>2. ASSUME CloseRecord(p)
      PROVE  TypeOK'
  BY <1>2, ZenonT(60) DEF CloseRecord, TypeOK, Record
<1>3. ASSUME ChildExits(p)
      PROVE  TypeOK'
  <2>1. [rec EXCEPT ![p].state = "final"] \in [Proc -> Record]
    BY DEF TypeOK, Record
  <2>2. rec' \in [Proc -> Record]
    BY <1>3, <2>1 DEF ChildExits, TypeOK
  <2>3. child' \in [Proc -> {"none", "alive", "exited"}]
    BY <1>3 DEF ChildExits, TypeOK
  <2> QED
    BY <1>3, <2>2, <2>3 DEF ChildExits, TypeOK
<1> QED
  BY <1>1, <1>2, <1>3

LEMMA BuildTyped ==
    ASSUME TypeOK, JobKnown, NEW p \in Proc, Build(p)
    PROVE  TypeOK'
<1> USE DEF fileVars, recVars, taskVars, histVars, Goto, Location, Holding, Body
<1>1. ASSUME NEW l \in {"requeue", "block"}, Fail(p, l)
      PROVE  TypeOK'
  BY <1>1 DEF Fail, ReleaseClaim, TypeOK
<1>2. ASSUME ConductorFails(p) \/ WorkFails(p) \/ IntegrationFails(p)
      PROVE  TypeOK'
  BY <1>1, <1>2 DEF ConductorFails, WorkFails, IntegrationFails
<1>3. ASSUME Conducted(p) \/ WorkPasses(p) \/ CleanupWorktree(p)
      PROVE  TypeOK'
  BY <1>3 DEF Conducted, WorkPasses, CleanupWorktree, ReleaseClaim, TypeOK
<1>4. ASSUME GiveBack(p) \/ MarkDone(p)
      PROVE  TypeOK'
  BY <1>4 DEF GiveBack, MarkDone, TypeOK
<1>5. ASSUME Claim(p)
      PROVE  TypeOK'
  <2>1. CASE Fail(p, "block")
    BY <1>1, <2>1
  <2>2. CASE ~Fail(p, "block")
    <3>1. calls' \in [Proc -> 0..MaxCalls]
      BY <1>5, <2>2, CycleAssumption DEF CycleAssumption, Claim, TypeOK
    <3>2. claims' \subseteq Task
      BY <1>5, <2>2 DEF Claim, TypeOK, JobKnown, Working
    <3> QED
      BY <1>5, <2>2, <3>1, <3>2 DEF Claim, TypeOK
  <2> QED
    BY <2>1, <2>2
<1>6. ASSUME Integrate(p)
      PROVE  TypeOK'
  <2>1. merges' \in [Task -> 0..2]
    <3>1. job[p] \in Task
      BY <1>6 DEF Integrate, JobKnown, Working
    <3>2. CASE merges[job[p]] < 2 /\ merges' = [merges EXCEPT ![job[p]] = @ + 1]
      <4>1. merges[job[p]] + 1 \in 0..2
        BY <3>1, <3>2 DEF TypeOK
      <4> QED
        BY <3>2, <4>1 DEF TypeOK
    <3>3. CASE UNCHANGED merges
      BY <3>3 DEF TypeOK
    <3> QED
      BY <1>6, <3>2, <3>3 DEF Integrate
  <2> QED
    BY <1>6, <2>1 DEF Integrate, TypeOK
<1>7. ASSUME StartCooling(p)
      PROVE  TypeOK'
  BY <1>7 DEF StartCooling, SaveSched, SchedState, TypeOK
<1> QED
  BY <1>2, <1>3, <1>4, <1>5, <1>6, <1>7, CallTyped DEF Build

LEMMA FinallyTyped ==
    ASSUME TypeOK, NEW p \in Proc, Finally(p)
    PROVE  TypeOK'
<1> USE DEF fileVars, recVars, taskVars, histVars
<1>1. ASSUME ReleaseLease(p)
      PROVE  TypeOK'
  BY <1>1 DEF ReleaseLease, Goto, TypeOK, Location, Holding
<1>2. ASSUME ReleaseLock(p)
      PROVE  TypeOK'
  BY <1>2, LeaveTyped DEF ReleaseLock, TypeOK
<1> QED
  BY <1>1, <1>2 DEF Finally

LEMMA EnvironmentTyped ==
    ASSUME TypeOK,
           \/ \E p \in Proc : Crash(p) \/ Raise(p)
           \/ LockAges \/ LeaseExpires
           \/ Pause \/ Resume \/ RecoverCommand
    PROVE  TypeOK'
<1> USE DEF fileVars, recVars, taskVars, histVars
<1>1. ASSUME NEW p \in Proc, Crash(p)
      PROVE  TypeOK'
  BY <1>1, LeaveTyped DEF Crash, TypeOK
<1>2. ASSUME NEW p \in Proc, Raise(p)
      PROVE  TypeOK'
  BY <1>2 DEF Raise, Goto, TypeOK, Location, Holding
<1>3. ASSUME LockAges \/ LeaseExpires
      PROVE  TypeOK'
  BY <1>3 DEF LockAges, LeaseExpires, TypeOK
<1>4. ASSUME Pause \/ Resume
      PROVE  TypeOK'
  BY <1>4 DEF Pause, Resume, TypeOK, SchedState
<1>5. ASSUME RecoverCommand
      PROVE  TypeOK'
  BY <1>5 DEF RecoverCommand, TypeOK
<1> QED
  BY <1>1, <1>2, <1>3, <1>4, <1>5

LEMMA JobKept ==
    ASSUME TypeOK, JobKnown, [Next]_vars
    PROVE  JobKnown'
<1> USE DEF TypeOK, JobKnown, Working, Goto
<1>1. CASE UNCHANGED vars
  BY <1>1 DEF vars
<1>2. ASSUME NEW p \in Proc, StartCycle(p) \/ Recovery(p)
      PROVE  JobKnown'
  <2>1. CASE StartCycle(p) \/ RecoveryDone(p)
    BY <2>1 DEF StartCycle, RecoveryDone
  <2>2. ASSUME NEW e \in snap[p], LeaveRunning(p, e) \/ ReconcileRecord(p, e)
        PROVE  JobKnown'
    BY <2>2 DEF LeaveRunning, ReconcileRecord
  <2>3. CASE ReleaseStaleLease(p) \/ ReleaseStaleLock(p)
    BY <2>3 DEF ReleaseStaleLease, ReleaseStaleLock
  <2>4. CASE ResetStaleTask(p) \/ ReleaseStaleClaim(p)
    BY <2>4 DEF ResetStaleTask, ReleaseStaleClaim
  <2> QED
    BY <1>2, <2>1, <2>2, <2>3, <2>4 DEF Recovery
<1>3. ASSUME NEW p \in Proc, NEW l \in {"idle", "dead"}, Leave(p, l)
      PROVE  JobKnown'
  BY <1>3 DEF Leave
<1>4. ASSUME NEW p \in Proc, Enter(p) \/ Finally(p)
      PROVE  JobKnown'
  <2>1. CASE \E l \in {"idle", "dead"} : Leave(p, l)
    BY <1>3, <2>1
  <2>2. CASE ~\E l \in {"idle", "dead"} : Leave(p, l)
    BY <1>4, <2>2 DEF Enter, Finally, NotEligible, TryLock, Locked, TryLease,
                LeaseRefused, ReleaseLease, ReleaseLock
  <2> QED
    BY <2>1, <2>2
<1>5. ASSUME NEW p \in Proc, Choose(p)
      PROVE  JobKnown'
  BY <1>5 DEF Choose, SelfHeal, SelectTask, Defer, NoTask, MarkInProgress
<1>6. ASSUME NEW p \in Proc, NEW l \in {"requeue", "block"}, pc[p] \in Working, Fail(p, l)
      PROVE  JobKnown'
  BY <1>6 DEF Fail
<1>7. ASSUME NEW p \in Proc, Build(p) \/ ChildExits(p)
      PROVE  JobKnown'
  <2>1. CASE \E l \in {"requeue", "block"} : pc[p] \in Working /\ Fail(p, l)
    BY <1>6, <2>1
  <2>2. CASE ~\E l \in {"requeue", "block"} : pc[p] \in Working /\ Fail(p, l)
    BY <1>7, <2>2
    DEF Build, ChildExits, StartCall, CloseRecord, ConductorFails, Conducted, Claim,
        WorkFails, WorkPasses, IntegrationFails, GiveBack, Integrate,
        CleanupWorktree, MarkDone, StartCooling
  <2> QED
    BY <2>1, <2>2
<1>8. ASSUME NEW p \in Proc, Crash(p) \/ Raise(p)
      PROVE  JobKnown'
  BY <1>3, <1>8 DEF Crash, Raise
<1>9. ASSUME LockAges \/ LeaseExpires \/ Pause \/ Resume \/ RecoverCommand
      PROVE  JobKnown'
  BY <1>9 DEF LockAges, LeaseExpires, Pause, Resume, RecoverCommand
<1> QED
  BY <1>1, <1>2, <1>4, <1>5, <1>7, <1>8, <1>9 DEF Next, Step

LEMMA NextTyped == TypeOK /\ JobKnown /\ [Next]_vars => TypeOK' /\ JobKnown'
<1> SUFFICES ASSUME TypeOK, JobKnown, [Next]_vars
             PROVE  TypeOK' /\ JobKnown'
  OBVIOUS
<1>1. CASE UNCHANGED vars
  BY <1>1, JobKept DEF vars, TypeOK
<1>2. ASSUME NEW p \in Proc, StartCycle(p) \/ Step(p) \/ ChildExits(p)
      PROVE  TypeOK'
  BY <1>2, StartTyped, RecoveryTyped, EnterTyped, ChooseTyped, BuildTyped,
     FinallyTyped, CallTyped DEF Step
<1> QED
  BY <1>1, <1>2, JobKept, EnvironmentTyped DEF Next

LEMMA Typed == Spec => [](TypeOK /\ JobKnown)
<1>1. Init => JobKnown
  BY DEF Init, JobKnown, Working
<1> QED
  BY <1>1, InitTyped, NextTyped, PTL DEF Spec

\* Every variable keeps its type: project.lock and the lease name processes,
\* the counters stay in their bounds, backlog.yaml only holds known statuses.
THEOREM TypeCorrect == Spec => []TypeOK
  BY Typed, PTL

-----------------------------------------------------------------------------
(***************************************************************************)
(* Mutual exclusion, when records never lag and no cycle overruns.         *)
(*                                                                         *)
(* OneCycle is not inductive: start-up recovery deletes the lock and the   *)
(* lease of the process a record names, so the argument needs that a       *)
(* record listed as running, whose owner is alive, still has its CLI       *)
(* running; a record then is reconciled only when its owner is dead.       *)
(***************************************************************************)
Reconciling == Recovering \ {"recover"}
Leasing     == Body \cup {"release"}

ListedRuns == \A p \in Proc : \A e \in snap[p] : Alive(e.owner) => Matches(e)
RecordRuns == \A q \in Proc : rec[q].state = "running" /\ Alive(q) => child[q] = "alive"
TargetGone == \A p \in Proc : pc[p] \in Reconciling =>
                  target[p].owner \in Proc /\ ~Alive(target[p].owner)
RecordInv  == ListedRuns /\ RecordRuns /\ TargetGone

LockHeld    == \A p \in Proc : pc[p] \in Holding => lock = p
LeaseHeld   == \A p \in Proc : pc[p] \in Leasing => lease = p
LateIsDead  == /\ lockStale => lock \in Proc /\ ~Alive(lock)
               /\ leaseLate => lease \in Proc /\ ~Alive(lease)
LockInv     == LockHeld /\ LeaseHeld /\ LateIsDead

\* A step that starts no call, closes no record and lists none.
LEMMA RecordFrame ==
    ASSUME TypeOK, RecordInv,
           UNCHANGED <<rec, child>>,
           \A q \in Proc : snap'[q] \subseteq snap[q],
           \A q \in Proc : pc[q] = "dead" => pc'[q] = "dead",
           \A q \in Proc : pc'[q] \in Reconciling =>
               pc[q] \in Reconciling /\ target'[q] = target[q]
    PROVE  RecordInv'
<1>1. ListedRuns'
  BY DEF RecordInv, ListedRuns, TypeOK, Entry, Alive, Matches
<1>2. RecordRuns'
  BY DEF RecordInv, RecordRuns, Alive
<1>3. TargetGone'
  BY DEF RecordInv, TargetGone, Alive
<1> QED
  BY <1>1, <1>2, <1>3 DEF RecordInv

\* A step that leaves the lock and the lease alone and enters nothing.
LEMMA LockFrame ==
    ASSUME TypeOK, LockInv,
           UNCHANGED fileVars,
           \A q \in Proc : pc[q] = "dead" => pc'[q] = "dead",
           \A q \in Proc : pc'[q] \in Holding => pc[q] \in Holding,
           \A q \in Proc : pc'[q] \in Leasing => pc[q] \in Leasing
    PROVE  LockInv'
<1>1. LockHeld'
  BY DEF LockInv, LockHeld, fileVars
<1>2. LeaseHeld'
  BY DEF LockInv, LeaseHeld, fileVars
<1>3. LateIsDead'
  BY DEF LockInv, LateIsDead, Alive, fileVars
<1> QED
  BY <1>1, <1>2, <1>3 DEF LockInv

LEMMA RecordStart ==
    ASSUME TypeOK, RecordInv, NEW p \in Proc, StartCycle(p)
    PROVE  RecordInv'
<1>1. ASSUME NEW q \in Proc, NEW e \in snap'[q], Alive(e.owner)'
      PROVE  Matches(e)'
  <2>1. CASE q = p
    <3>1. PICK r \in Proc : /\ rec[r].state = "running"
                            /\ e = [owner |-> r, task |-> rec[r].task, old |-> FALSE]
      BY <2>1, <1>1 DEF StartCycle, TypeOK
    <3>2. Alive(r)
      BY <3>1, <1>1 DEF StartCycle, Goto, Alive, TypeOK
    <3>3. child'[r] = "alive"
      BY <3>1, <3>2 DEF RecordInv, RecordRuns, StartCycle, recVars
    <3> QED
      BY <3>1, <3>3 DEF Matches
  <2>2. CASE q # p
    <3>1. e \in snap[q] /\ e \in Entry
      BY <2>2, <1>1 DEF StartCycle, TypeOK
    <3>2. Alive(e.owner)
      BY <3>1, <1>1 DEF StartCycle, Goto, Alive, TypeOK, Entry
    <3> QED
      BY <3>1, <3>2 DEF RecordInv, ListedRuns, Matches, StartCycle, recVars
  <2> QED
    BY <2>1, <2>2
<1>2. ListedRuns'
  BY <1>1 DEF ListedRuns
<1>3. RecordRuns'
  BY DEF RecordInv, RecordRuns, StartCycle, Goto, Alive, recVars, TypeOK
<1>4. TargetGone'
  BY DEF RecordInv, TargetGone, Reconciling, Recovering, StartCycle, Goto, Alive, TypeOK
<1> QED
  BY <1>2, <1>3, <1>4 DEF RecordInv

\* Without lag, the owner of a record that is reconciled is dead.
LEMMA ReconciledIsDead ==
    ASSUME TypeOK, RecordInv, NEW p \in Proc, NEW e \in snap[p], ReconcileRecord(p, e)
    PROVE  e.owner \in Proc /\ ~Alive(e.owner)
  BY DEF ReconcileRecord, RecordInv, ListedRuns, TypeOK, Entry

LEMMA RecordReconcile ==
    ASSUME TypeOK, RecordInv, NEW p \in Proc, NEW e \in snap[p], ReconcileRecord(p, e)
    PROVE  RecordInv'
<1> DEFINE q == e.owner
<1>1. q \in Proc /\ ~Alive(q)
  BY ReconciledIsDead
<1>2. \A r \in Proc : Alive(r)' <=> Alive(r)
  BY <1>1 DEF ReconcileRecord, Goto, Alive, TypeOK
<1>3. \A r \in Proc : Alive(r) => child'[r] = child[r] /\ rec'[r] = rec[r]
  BY <1>1 DEF ReconcileRecord, Closed, TypeOK
<1>4. \A r \in Proc : snap'[r] \subseteq snap[r]
  BY DEF ReconcileRecord, TypeOK
<1>5. ListedRuns'
  BY <1>2, <1>3, <1>4 DEF RecordInv, ListedRuns, Matches, TypeOK, Entry
<1>6. RecordRuns'
  BY <1>2, <1>3 DEF RecordInv, RecordRuns
<1>7. TargetGone'
  BY <1>1, <1>2 DEF RecordInv, TargetGone, ReconcileRecord, Goto, TypeOK
<1> QED
  BY <1>5, <1>6, <1>7 DEF RecordInv

LEMMA LeaveFrame ==
    ASSUME TypeOK, NEW p \in Proc, NEW l \in {"idle", "dead"}, Leave(p, l), Alive(p)
    PROVE  /\ \A q \in Proc : snap'[q] \subseteq snap[q]
           /\ \A q \in Proc : pc[q] = "dead" => pc'[q] = "dead"
           /\ \A q \in Proc : pc'[q] \in Reconciling =>
                  pc[q] \in Reconciling /\ target'[q] = target[q]
           /\ \A q \in Proc : pc'[q] \in Holding => pc[q] \in Holding /\ q # p
           /\ \A q \in Proc : pc'[q] \in Leasing => pc[q] \in Leasing /\ q # p
  BY DEF TypeOK, Leave, Goto, Alive, Reconciling, Recovering, Leasing, Holding, Body

LEMMA RecordRecovery ==
    ASSUME TypeOK, RecordInv, NEW p \in Proc, Recovery(p)
    PROVE  RecordInv'
<1> USE DEF Goto, TypeOK, Reconciling, Recovering, recVars
<1>1. ASSUME NEW e \in snap[p], LeaveRunning(p, e)
      PROVE  RecordInv'
  BY <1>1, RecordFrame DEF LeaveRunning
<1>2. ASSUME ReleaseStaleLease(p) \/ ReleaseStaleLock(p)
      PROVE  RecordInv'
  BY <1>2, RecordFrame DEF ReleaseStaleLease, ReleaseStaleLock
<1>3. ASSUME ResetStaleTask(p)
      PROVE  RecordInv'
  BY <1>3, RecordFrame DEF ResetStaleTask
<1>4. ASSUME ReleaseStaleClaim(p) \/ RecoveryDone(p)
      PROVE  RecordInv'
  BY <1>4, RecordFrame DEF ReleaseStaleClaim, RecoveryDone
<1> QED
  BY <1>1, <1>2, <1>3, <1>4, RecordReconcile DEF Recovery

LEMMA RecordCall ==
    ASSUME TypeOK, RecordInv, "record_lag" \notin Env, NEW p \in Proc,
           StartCall(p) \/ CloseRecord(p) \/ ChildExits(p)
    PROVE  RecordInv'
<1>1. pc' = pc /\ target' = target
  BY DEF StartCall, CloseRecord, ChildExits
<1>2. TargetGone'
  BY <1>1 DEF RecordInv, TargetGone, Alive
<1>3. \A r \in Proc \ {p} : child'[r] = child[r] /\ rec'[r] = rec[r]
  BY DEF StartCall, CloseRecord, ChildExits, TypeOK
<1>4. Alive(p) => /\ rec'[p].state = "running" => child'[p] = "alive"
                  /\ \A q \in Proc : \A e \in snap[q] : e.owner # p
  <2>1. CASE StartCall(p)
    BY <2>1 DEF StartCall, RecordInv, ListedRuns, Matches, TypeOK
  <2>2. CASE CloseRecord(p)
    BY <2>2 DEF CloseRecord, RecordInv, ListedRuns, Matches, TypeOK, Record
  <2>3. CASE ChildExits(p)
    BY <2>3 DEF ChildExits, TypeOK, Record
  <2> QED
    BY <2>1, <2>2, <2>3
<1>5. RecordRuns'
  BY <1>1, <1>3, <1>4 DEF RecordInv, RecordRuns, Alive
<1>6. ASSUME Alive(p)
      PROVE  snap' = snap
  <2>1. CASE StartCall(p)
    <3>1. \A q \in Proc : snap'[q] = snap[q]
      BY <1>4, <1>6, <2>1 DEF StartCall
    <3> QED
      BY <2>1, <3>1 DEF StartCall, TypeOK
  <2> QED
    BY <2>1 DEF CloseRecord, ChildExits
<1>7. ListedRuns'
  <2>1. CASE Alive(p)
    BY <1>1, <1>3, <1>4, <1>6, <2>1
    DEF RecordInv, ListedRuns, Matches, Alive, TypeOK, Entry
  <2>2. CASE ~Alive(p)
    <3>1. ChildExits(p)
      BY <2>2 DEF Alive, StartCall, CloseRecord, InCall
    <3> QED
      BY <1>1, <1>3, <2>2, <3>1
      DEF ChildExits, RecordInv, ListedRuns, Matches, Alive, TypeOK, Entry
  <2> QED
    BY <2>1, <2>2
<1> QED
  BY <1>2, <1>5, <1>7 DEF RecordInv

LEMMA RecordKept ==
    ASSUME TypeOK, RecordInv, [Next]_vars, "record_lag" \notin Env
    PROVE  RecordInv'
<1> USE DEF recVars
<1>1. CASE UNCHANGED vars
  BY <1>1, RecordFrame DEF vars
<1>2. ASSUME NEW p \in Proc, NEW l \in {"idle", "dead"}, Leave(p, l), Alive(p),
             UNCHANGED recVars
      PROVE  RecordInv'
  BY <1>2, LeaveFrame, RecordFrame
<1>3. ASSUME NEW p \in Proc, NEW l \in Holding, Goto(p, l), Alive(p),
             UNCHANGED <<snap, target>>, UNCHANGED recVars
      PROVE  RecordInv'
  <2>1. \A q \in Proc : pc'[q] \in Reconciling => pc[q] \in Reconciling
    BY <1>3 DEF Goto, TypeOK, Reconciling, Recovering, Holding, Body
  <2>2. \A q \in Proc : pc[q] = "dead" => pc'[q] = "dead"
    BY <1>3 DEF Goto, TypeOK, Alive
  <2> QED
    BY <1>3, <2>1, <2>2, RecordFrame
<1>4. ASSUME NEW p \in Proc, Enter(p) \/ Finally(p)
      PROVE  RecordInv'
  <2>1. Alive(p) /\ UNCHANGED recVars
    BY <1>4 DEF Enter, Finally, NotEligible, TryLock, Locked, TryLease,
                LeaseRefused, ReleaseLease, ReleaseLock, Alive
  <2>2. \/ \E l \in {"idle", "dead"} : Leave(p, l)
        \/ \E l \in Holding : Goto(p, l) /\ UNCHANGED <<snap, target>>
    BY <1>4 DEF Enter, Finally, NotEligible, TryLock, Locked, TryLease,
                LeaseRefused, ReleaseLease, ReleaseLock, Holding, Body
  <2> QED
    BY <1>2, <1>3, <2>1, <2>2
<1>5. ASSUME NEW p \in Proc, Choose(p)
      PROVE  RecordInv'
  <2>1. Alive(p) /\ UNCHANGED recVars /\ UNCHANGED <<snap, target>>
    BY <1>5 DEF Choose, SelfHeal, SelectTask, Defer, NoTask, MarkInProgress, Alive
  <2>2. \E l \in Holding : Goto(p, l)
    BY <1>5 DEF Choose, SelfHeal, SelectTask, Defer, NoTask, MarkInProgress, Holding, Body
  <2> QED
    BY <1>3, <2>1, <2>2
<1>6. ASSUME NEW p \in Proc, Build(p)
      PROVE  RecordInv'
  <2>1. CASE StartCall(p) \/ CloseRecord(p)
    BY <2>1, RecordCall
  <2>2. CASE ~(StartCall(p) \/ CloseRecord(p))
    <3>1. Alive(p) /\ UNCHANGED recVars /\ UNCHANGED <<snap, target>>
      BY <1>6, <2>2
      DEF Build, ConductorFails, Conducted, Claim, WorkFails, WorkPasses,
          IntegrationFails, GiveBack, Integrate, CleanupWorktree, MarkDone,
          StartCooling, Fail, Alive
    <3>2. \E l \in Holding : Goto(p, l)
      BY <1>6, <2>2
      DEF Build, ConductorFails, Conducted, Claim, WorkFails, WorkPasses,
          IntegrationFails, GiveBack, Integrate, CleanupWorktree, MarkDone,
          StartCooling, Fail, Holding, Body
    <3> QED
      BY <1>3, <3>1, <3>2
  <2> QED
    BY <2>1, <2>2
<1>7. ASSUME NEW p \in Proc, Crash(p)
      PROVE  RecordInv'
  BY <1>2, <1>7 DEF Crash, Quiet, Alive
<1>8. ASSUME NEW p \in Proc, Raise(p)
      PROVE  RecordInv'
  BY <1>3, <1>8 DEF Raise, Alive, Holding, Body
<1>9. ASSUME LockAges \/ LeaseExpires \/ Pause \/ Resume \/ RecoverCommand
      PROVE  RecordInv'
  BY <1>9, RecordFrame DEF LockAges, LeaseExpires, Pause, Resume, RecoverCommand
<1> QED
  BY <1>1, <1>4, <1>5, <1>6, <1>7, <1>8, <1>9, RecordStart, RecordRecovery, RecordCall
  DEF Next, Step

LEMMA LockRecovery ==
    ASSUME TypeOK, RecordInv, LockInv, NEW p \in Proc, StartCycle(p) \/ Recovery(p)
    PROVE  LockInv'
<1> USE DEF Goto, TypeOK, Recovering, Holding, Body, Leasing
<1>1. CASE StartCycle(p)
  BY <1>1, LockFrame DEF StartCycle
<1>2. ASSUME NEW e \in snap[p], LeaveRunning(p, e) \/ ReconcileRecord(p, e)
      PROVE  LockInv'
  <2>1. CASE LeaveRunning(p, e)
    BY <2>1, LockFrame DEF LeaveRunning
  <2>2. CASE ReconcileRecord(p, e)
    BY <2>2, LockFrame DEF ReconcileRecord
  <2> QED
    BY <1>2, <2>1, <2>2
<1>3. CASE ReleaseStaleLease(p)
  <2>1. ~Alive(target[p].owner)
    BY <1>3 DEF ReleaseStaleLease, RecordInv, TargetGone, Reconciling
  <2>2. \A q \in Proc : /\ pc'[q] \in Holding => pc[q] \in Holding
                        /\ pc'[q] \in Leasing => pc[q] \in Leasing
                        /\ Alive(q)' <=> Alive(q)
    BY <1>3 DEF ReleaseStaleLease, Alive
  <2>3. LeaseHeld'
    BY <1>3, <2>1, <2>2 DEF ReleaseStaleLease, LockInv, LeaseHeld, Alive
  <2> QED
    BY <1>3, <2>2, <2>3 DEF ReleaseStaleLease, LockInv, LockHeld, LateIsDead
<1>4. CASE ReleaseStaleLock(p)
  <2>1. ~Alive(target[p].owner)
    BY <1>4 DEF ReleaseStaleLock, RecordInv, TargetGone, Reconciling
  <2>2. \A q \in Proc : /\ pc'[q] \in Holding => pc[q] \in Holding
                        /\ pc'[q] \in Leasing => pc[q] \in Leasing
                        /\ Alive(q)' <=> Alive(q)
    BY <1>4 DEF ReleaseStaleLock, Alive
  <2>3. LockHeld'
    BY <1>4, <2>1, <2>2 DEF ReleaseStaleLock, LockInv, LockHeld, Alive
  <2> QED
    BY <1>4, <2>2, <2>3 DEF ReleaseStaleLock, LockInv, LeaseHeld, LateIsDead
<1>5. CASE ResetStaleTask(p)
  BY <1>5, LockFrame DEF ResetStaleTask
<1>6. CASE ReleaseStaleClaim(p) \/ RecoveryDone(p)
  BY <1>6, LockFrame DEF ReleaseStaleClaim, RecoveryDone
<1> QED
  BY <1>1, <1>2, <1>3, <1>4, <1>5, <1>6 DEF Recovery

\* The lock is taken when there is none or its holder is dead, and so is the
\* lease of the process that took the lock.
LEMMA LockEnter ==
    ASSUME TypeOK, LockInv, NEW p \in Proc, Enter(p)
    PROVE  LockInv'
<1> USE DEF Goto, TypeOK
<1>1. CASE NotEligible(p)
  BY <1>1, LeaveFrame, LockFrame DEF NotEligible, Alive
<1>2. CASE TryLock(p)
  <2>1. \A q \in Proc \ {p} : pc'[q] = pc[q] /\ pc[q] \notin Holding
    BY <1>2, CycleAssumption
    DEF CycleAssumption, TryLock, LockInv, LockHeld, LateIsDead, Alive, Holding, Body
  <2>2. pc'[p] = "lease" /\ pc[p] = "eligible"
    BY <1>2 DEF TryLock
  <2> QED
    BY <1>2, <2>1, <2>2
    DEF TryLock, LockInv, LockHeld, LeaseHeld, LateIsDead, Alive, Leasing, Holding, Body
<1>3. CASE Locked(p)
  BY <1>3, LeaveFrame, LockFrame DEF Locked, Alive
<1>4. ASSUME TryLease(p) \/ LeaseRefused(p)
      PROVE  \A q \in Proc \ {p} : pc'[q] = pc[q] /\ pc[q] \notin Holding
  BY <1>4 DEF TryLease, LeaseRefused, Leave, LockInv, LockHeld, Holding
<1>5. CASE TryLease(p)
  BY <1>4, <1>5
  DEF TryLease, LockInv, LockHeld, LeaseHeld, LateIsDead, Alive, Leasing, Holding, Body
<1>6. CASE LeaseRefused(p)
  BY <1>4, <1>6
  DEF LeaseRefused, Leave, LockInv, LockHeld, LeaseHeld, LateIsDead, Alive, Leasing,
      Holding, Body
<1> QED
  BY <1>1, <1>2, <1>3, <1>5, <1>6 DEF Enter

LEMMA LockFinally ==
    ASSUME TypeOK, LockInv, NEW p \in Proc, Finally(p)
    PROVE  LockInv'
<1> USE DEF Goto, TypeOK
<1>1. pc[p] \in Holding
  BY DEF Finally, ReleaseLease, ReleaseLock, Holding
<1>2. \A q \in Proc \ {p} : pc'[q] = pc[q] /\ pc[q] \notin Holding
  BY <1>1 DEF Finally, ReleaseLease, ReleaseLock, Leave, LockInv, LockHeld
<1>3. CASE ReleaseLease(p)
  BY <1>2, <1>3
  DEF ReleaseLease, LockInv, LockHeld, LeaseHeld, LateIsDead, Alive, Leasing, Holding, Body
<1>4. CASE ReleaseLock(p)
  BY <1>2, <1>4
  DEF ReleaseLock, Leave, LockInv, LockHeld, LeaseHeld, LateIsDead, Alive, Leasing,
      Holding, Body
<1> QED
  BY <1>3, <1>4 DEF Finally

LEMMA LockKept ==
    ASSUME TypeOK, RecordInv, LockInv, [Next]_vars, "overrun" \notin Env
    PROVE  LockInv'
<1>1. CASE UNCHANGED vars
  BY <1>1, LockFrame DEF vars, fileVars
<1>2. ASSUME NEW p \in Proc, NEW l \in Leasing, pc[p] \in Body, Goto(p, l),
             UNCHANGED fileVars
      PROVE  LockInv'
  <2>1. \A q \in Proc : /\ pc[q] = "dead" => pc'[q] = "dead"
                        /\ pc'[q] \in Holding => pc[q] \in Holding
                        /\ pc'[q] \in Leasing => pc[q] \in Leasing
    BY <1>2 DEF Goto, TypeOK, Leasing, Holding, Body
  <2> QED
    BY <1>2, <2>1, LockFrame
<1>3. ASSUME NEW p \in Proc, Choose(p)
      PROVE  LockInv'
  <2>1. pc[p] \in Body /\ UNCHANGED fileVars
    BY <1>3 DEF Choose, SelfHeal, SelectTask, Defer, NoTask, MarkInProgress, Body
  <2>2. \E l \in Leasing : Goto(p, l)
    BY <1>3 DEF Choose, SelfHeal, SelectTask, Defer, NoTask, MarkInProgress, Leasing, Body
  <2> QED
    BY <1>2, <2>1, <2>2
<1>4. ASSUME NEW p \in Proc, StartCall(p) \/ CloseRecord(p) \/ ChildExits(p)
      PROVE  LockInv'
  BY <1>4, LockFrame DEF StartCall, CloseRecord, ChildExits
<1>5. ASSUME NEW p \in Proc, Build(p)
      PROVE  LockInv'
  <2>1. CASE StartCall(p) \/ CloseRecord(p)
    BY <1>4, <2>1
  <2>2. CASE ~(StartCall(p) \/ CloseRecord(p))
    <3>1. pc[p] \in Body /\ UNCHANGED fileVars
      BY <1>5, <2>2
      DEF Build, ConductorFails, Conducted, Claim, WorkFails, WorkPasses,
          IntegrationFails, GiveBack, Integrate, CleanupWorktree, MarkDone,
          StartCooling, Fail, Body
    <3>2. \E l \in Leasing : Goto(p, l)
      BY <1>5, <2>2
      DEF Build, ConductorFails, Conducted, Claim, WorkFails, WorkPasses,
          IntegrationFails, GiveBack, Integrate, CleanupWorktree, MarkDone,
          StartCooling, Fail, Leasing, Body
    <3> QED
      BY <1>2, <3>1, <3>2
  <2> QED
    BY <2>1, <2>2
<1>6. ASSUME NEW p \in Proc, Crash(p)
      PROVE  LockInv'
  BY <1>6, LeaveFrame, LockFrame DEF Crash, Quiet, Alive
<1>7. ASSUME NEW p \in Proc, Raise(p)
      PROVE  LockInv'
  BY <1>2, <1>7 DEF Raise, Leasing
<1>8. CASE LockAges \/ LeaseExpires
  BY <1>8 DEF LockAges, LeaseExpires, TypeOK, LockInv, LockHeld, LeaseHeld, LateIsDead, Alive
<1>9. CASE Pause \/ Resume
  BY <1>9, LockFrame DEF Pause, Resume
<1>10. CASE RecoverCommand
  BY <1>10 DEF RecoverCommand, LockInv, LockHeld, LeaseHeld, LateIsDead, Alive, Leasing, Body
<1> QED
  BY <1>1, <1>3, <1>4, <1>5, <1>6, <1>7, <1>8, <1>9, <1>10, LockRecovery, LockEnter,
     LockFinally
  DEF Next, Step

\* At most one process executes _run_cycle_locked, and project.lock and the
\* lease are its own, whatever else the environment does: crashes anywhere,
\* exceptions, slow start-ups, pauses and `project recover` at any time.
THEOREM Exclusion ==
    ASSUME {"record_lag", "overrun"} \cap Env = {}
    PROVE  Spec => []OneCycle
<1> DEFINE IInv == TypeOK /\ JobKnown /\ RecordInv /\ LockInv
<1>1. Init => IInv
  <2>1. Init => RecordInv
    BY DEF Init, NoRecord, RecordInv, ListedRuns, RecordRuns, TargetGone,
           Reconciling, Recovering
  <2>2. Init => LockInv
    BY DEF Init, LockInv, LockHeld, LeaseHeld, LateIsDead, Leasing, Holding, Body
  <2>3. Init => JobKnown
    BY DEF Init, JobKnown, Working
  <2> QED
    BY <2>1, <2>2, <2>3, InitTyped
<1>2. IInv /\ [Next]_vars => IInv'
  BY NextTyped, RecordKept, LockKept
<1>3. IInv => OneCycle
  BY DEF OneCycle, InBody, LockInv, LockHeld, LeaseHeld, Holding, Leasing
<1> QED
  BY <1>1, <1>2, <1>3, PTL DEF Spec

-----------------------------------------------------------------------------
(***************************************************************************)
(* "done" means merged, unless git refuses a merge unnoticed.              *)
(***************************************************************************)
MergesTell == "merge_refused" \notin Env

Merged    == {"cleanup", "mark"}
MarkedMerged == \A p \in Proc : pc[p] \in Merged => merges[job[p]] > 0
MergeInv  == DoneIsMerged /\ MarkedMerged

\* A step that merges nothing and marks nothing done.
LEMMA MergeFrame ==
    ASSUME TypeOK, MergeInv, UNCHANGED merges,
           \A t \in Task : status'[t] = "done" => status[t] = "done",
           \A q \in Proc : pc'[q] \in Merged => pc[q] \in Merged /\ job'[q] = job[q]
    PROVE  MergeInv'
  BY DEF MergeInv, DoneIsMerged, MarkedMerged

LEMMA MergeKept ==
    ASSUME MergesTell, TypeOK, JobKnown, MergeInv, [Next]_vars
    PROVE  MergeInv'
<1> USE DEF TypeOK, Goto, Merged, taskVars
<1>1. CASE UNCHANGED vars
  BY <1>1, MergeFrame DEF vars
<1>2. ASSUME NEW p \in Proc, StartCycle(p) \/ Recovery(p)
      PROVE  MergeInv'
  <2>1. CASE StartCycle(p) \/ RecoveryDone(p)
    BY <2>1, MergeFrame DEF StartCycle, RecoveryDone
  <2>2. ASSUME NEW e \in snap[p], LeaveRunning(p, e) \/ ReconcileRecord(p, e)
        PROVE  MergeInv'
    BY <2>2, MergeFrame DEF LeaveRunning, ReconcileRecord
  <2>3. CASE ReleaseStaleLease(p) \/ ReleaseStaleLock(p)
    BY <2>3, MergeFrame DEF ReleaseStaleLease, ReleaseStaleLock
  <2>4. CASE ResetStaleTask(p)
    BY <2>4, MergeFrame DEF ResetStaleTask
  <2>5. CASE ReleaseStaleClaim(p)
    BY <2>5, MergeFrame DEF ReleaseStaleClaim
  <2> QED
    BY <1>2, <2>1, <2>2, <2>3, <2>4, <2>5 DEF Recovery
<1>3. ASSUME NEW p \in Proc, NEW l \in {"idle", "dead"}, Leave(p, l),
             UNCHANGED taskVars
      PROVE  MergeInv'
  BY <1>3, MergeFrame DEF Leave
<1>4. ASSUME NEW p \in Proc, NEW l \in Location \ Merged, Goto(p, l),
             UNCHANGED <<job, merges>>,
             \A t \in Task : status'[t] = "done" => status[t] = "done"
      PROVE  MergeInv'
  BY <1>4, MergeFrame
<1>5. ASSUME NEW p \in Proc, Enter(p) \/ Finally(p)
      PROVE  MergeInv'
  <2>1. UNCHANGED taskVars
    BY <1>5 DEF Enter, Finally, NotEligible, TryLock, Locked, TryLease,
                LeaseRefused, ReleaseLease, ReleaseLock
  <2>2. \/ \E l \in {"idle", "dead"} : Leave(p, l)
        \/ \E l \in Location \ Merged : Goto(p, l) /\ UNCHANGED job
    BY <1>5 DEF Enter, Finally, NotEligible, TryLock, Locked, TryLease,
                LeaseRefused, ReleaseLease, ReleaseLock, Location, Holding, Body
  <2> QED
    BY <1>3, <1>4, <2>1, <2>2
<1>6. ASSUME NEW p \in Proc, NEW t \in Task, SelectTask(p, t)
      PROVE  MergeInv'
  BY <1>6, MergeFrame DEF SelectTask
<1>7. ASSUME NEW p \in Proc, Defer(p) \/ NoTask(p) \/ SelfHeal(p) \/ MarkInProgress(p)
      PROVE  MergeInv'
  <2>1. UNCHANGED <<job, merges>>
    BY <1>7 DEF Defer, NoTask, SelfHeal, MarkInProgress
  <2>2. \A t \in Task : status'[t] = "done" => status[t] = "done"
    BY <1>7 DEF Defer, NoTask, SelfHeal, MarkInProgress
  <2>3. \E l \in Location \ Merged : Goto(p, l)
    BY <1>7 DEF Defer, NoTask, SelfHeal, MarkInProgress, Location, Holding, Body
  <2> QED
    BY <1>4, <2>1, <2>2, <2>3
<1>8. ASSUME NEW p \in Proc, StartCall(p) \/ CloseRecord(p) \/ ChildExits(p)
      PROVE  MergeInv'
  BY <1>8, MergeFrame DEF StartCall, CloseRecord, ChildExits
<1>9. ASSUME NEW p \in Proc, \/ ConductorFails(p) \/ Conducted(p) \/ Claim(p)
                            \/ WorkFails(p) \/ WorkPasses(p) \/ IntegrationFails(p)
                            \/ GiveBack(p) \/ StartCooling(p)
      PROVE  MergeInv'
  <2>1. UNCHANGED <<job, merges>>
    BY <1>9 DEF ConductorFails, Conducted, Claim, WorkFails, WorkPasses,
                IntegrationFails, GiveBack, StartCooling, Fail
  <2>2. \A t \in Task : status'[t] = "done" => status[t] = "done"
    BY <1>9 DEF ConductorFails, Conducted, Claim, WorkFails, WorkPasses,
                IntegrationFails, GiveBack, StartCooling, Fail
  <2>3. \E l \in Location \ Merged : Goto(p, l)
    BY <1>9 DEF ConductorFails, Conducted, Claim, WorkFails, WorkPasses,
                IntegrationFails, GiveBack, StartCooling, Fail, Location, Holding, Body
  <2> QED
    BY <1>4, <2>1, <2>2, <2>3
<1>10. ASSUME NEW p \in Proc, Integrate(p)
       PROVE  MergeInv'
  <2>1. job[p] \in Task
    BY <1>10 DEF Integrate, JobKnown, Working
  <2>2. \A t \in Task : merges[t] > 0 => merges'[t] > 0
    BY <1>10, <2>1 DEF Integrate
  <2>3. merges'[job[p]] > 0
    BY <1>10, <2>1 DEF Integrate, MergesTell
  <2>4. DoneIsMerged'
    BY <1>10, <2>2 DEF Integrate, MergeInv, DoneIsMerged
  <2>5. \A q \in Proc : pc[q] \in Merged => job[q] \in Task
    BY DEF JobKnown, Working
  <2>6. MarkedMerged'
    BY <1>10, <2>2, <2>3, <2>5 DEF Integrate, MergeInv, MarkedMerged
  <2> QED
    BY <2>4, <2>6 DEF MergeInv
<1>11. ASSUME NEW p \in Proc, CleanupWorktree(p) \/ MarkDone(p)
       PROVE  MergeInv'
  <2>1. \A t \in Task : status'[t] = "done" => status[t] = "done" \/ merges[t] > 0
    BY <1>11 DEF CleanupWorktree, MarkDone, MergeInv, MarkedMerged
  <2>2. \A q \in Proc : pc'[q] \in Merged => pc[q] \in Merged
    BY <1>11 DEF CleanupWorktree, MarkDone
  <2>3. UNCHANGED <<merges, job>>
    BY <1>11 DEF CleanupWorktree, MarkDone
  <2> QED
    BY <2>1, <2>2, <2>3 DEF MergeInv, DoneIsMerged, MarkedMerged
<1>12. ASSUME NEW p \in Proc, Crash(p)
       PROVE  MergeInv'
  BY <1>3, <1>12 DEF Crash
<1>13. ASSUME NEW p \in Proc, Raise(p)
       PROVE  MergeInv'
  BY <1>4, <1>13 DEF Raise, Location, Holding
<1>14. CASE LockAges \/ LeaseExpires \/ Pause \/ Resume \/ RecoverCommand
  BY <1>14, MergeFrame DEF LockAges, LeaseExpires, Pause, Resume, RecoverCommand
<1> QED
  BY <1>1, <1>2, <1>5, <1>6, <1>7, <1>8, <1>9, <1>10, <1>11, <1>12, <1>13, <1>14
  DEF Next, Step, Choose, Build

\* A task is "done" only when its work is on agentic/project: not even two
\* cycles at once, a crash or a recovery at the wrong moment can lose it.  Only
\* a merge that git refuses unnoticed can (Worktrees).
THEOREM NothingLost == ASSUME MergesTell PROVE Spec => []DoneIsMerged
<1>1. Init => MergeInv
  BY DEF Init, MergeInv, DoneIsMerged, MarkedMerged, Merged
<1>2. TypeOK /\ JobKnown /\ MergeInv /\ [Next]_vars => MergeInv'
  BY MergeKept
<1>3. MergeInv => DoneIsMerged
  BY DEF MergeInv
<1> QED
  BY <1>1, <1>2, <1>3, Typed, PTL DEF Spec
-----------------------------------------------------------------------------
(***************************************************************************)
(* What happens to the tasks, for any processes, tasks, dependencies and   *)
(* overlaps: a task that was taken stays with its cycle, a finished one is *)
(* never taken again, and the cycles together are the one builder of       *)
(* BuildContract.                                                          *)
(*                                                                         *)
(* The theorems below hold in an orderly environment: no record lags, no   *)
(* cycle outlives its lock or its lease, start-ups do not overlap, and     *)
(* `project recover` is not used while a cycle runs.  Deaths anywhere,     *)
(* exceptions, pauses and candidates stay possible unless a theorem says   *)
(* otherwise.                                                              *)
(***************************************************************************)
Orderly == {"record_lag", "overrun", "slow_start", "live_recover"} \cap Env = {}

-----------------------------------------------------------------------------
(***************************************************************************)
(* What a start-up has listed is still true: only one process starts at a  *)
(* time, and the records in its list are open and name the same task.      *)
(***************************************************************************)
OneStarts    == \A p, q \in Proc : pc[p] \in Starting /\ pc[q] \in Starting => p = q
ListOfStart  == \A p \in Proc : snap[p] # {} => pc[p] \in Recovering
ListedIsOpen == \A p \in Proc : \A e \in snap[p] :
                    /\ rec[e.owner].state = "running"
                    /\ rec[e.owner].task = e.task
                    /\ ~e.old
CallRecorded == \A q \in Proc : rec[q].state = "running" /\ Alive(q) =>
                    pc[q] \in InCall /\ rec[q].task = RecordTask(q)
StartInv     == OneStarts /\ ListOfStart /\ ListedIsOpen /\ CallRecorded

\* A step that writes no record, starts no cycle and lists nothing, and leaves
\* a process whose model CLI runs where it is, or dead.
LEMMA StartFrame ==
    ASSUME TypeOK, RecordInv, StartInv, UNCHANGED recVars,
           \A q \in Proc : pc'[q] \in Starting => pc[q] \in Starting,
           \A q \in Proc : snap'[q] \subseteq snap[q],
           \A q \in Proc : snap'[q] # {} /\ pc[q] \in Recovering => pc'[q] \in Recovering,
           \A q \in Proc : pc[q] = "dead" => pc'[q] = "dead",
           \A q \in Proc : child[q] = "alive" /\ pc[q] \in InCall =>
               pc'[q] = "dead" \/ (pc'[q] = pc[q] /\ job'[q] = job[q])
    PROVE  StartInv'
<1>1. OneStarts'
  BY DEF StartInv, OneStarts
<1>2. ListOfStart'
  BY DEF StartInv, ListOfStart
<1>3. ListedIsOpen'
  BY DEF StartInv, ListedIsOpen, recVars
<1>4. CallRecorded'
  <2> SUFFICES ASSUME NEW q \in Proc, rec[q].state = "running", pc'[q] # "dead"
               PROVE  pc'[q] \in InCall /\ rec[q].task = RecordTask(q)'
    BY DEF CallRecorded, Alive, recVars
  <2>1. /\ pc[q] \in InCall /\ rec[q].task = RecordTask(q)
        /\ child[q] = "alive"
    BY DEF StartInv, CallRecorded, RecordInv, RecordRuns, Alive
  <2>2. pc'[q] = pc[q] /\ job'[q] = job[q]
    BY <2>1
  <2> QED
    BY <2>1, <2>2 DEF RecordTask
<1> QED
  BY <1>1, <1>2, <1>3, <1>4 DEF StartInv

LEMMA StartOfStart ==
    ASSUME TypeOK, RecordInv, StartInv, Orderly, NEW p \in Proc, StartCycle(p)
    PROVE  StartInv'
<1>1. \A q \in Proc \ {p} : pc'[q] = pc[q] /\ snap'[q] = snap[q] /\ pc[q] \notin Starting
  BY DEF StartCycle, NobodyElseStarts, Goto, TypeOK, Orderly
<1>2. pc'[p] = "recover" /\ pc[p] = "idle" /\ UNCHANGED <<rec, child, job>>
  BY DEF StartCycle, Goto, TypeOK, recVars
<1>3. OneStarts'
  BY <1>1, <1>2 DEF StartInv, OneStarts
<1>4. ListOfStart'
  BY <1>1, <1>2 DEF StartInv, ListOfStart, Recovering
<1>5. ListedIsOpen'
  <2>1. ASSUME NEW e \in snap'[p]
        PROVE  rec[e.owner].state = "running" /\ rec[e.owner].task = e.task /\ ~e.old
    BY DEF StartCycle, TypeOK
  <2> QED
    BY <1>1, <1>2, <2>1 DEF StartInv, ListedIsOpen
<1>6. CallRecorded'
  BY <1>1, <1>2 DEF StartInv, CallRecorded, Alive, RecordTask, InCall
<1> QED
  BY <1>3, <1>4, <1>5, <1>6 DEF StartInv

LEMMA StartReconcile ==
    ASSUME TypeOK, RecordInv, StartInv, NEW p \in Proc, NEW e \in snap[p],
           ReconcileRecord(p, e)
    PROVE  StartInv'
<1> DEFINE q == e.owner
<1>1. q \in Proc /\ ~Alive(q)
  BY ReconciledIsDead
<1>2. /\ pc[p] = "recover" /\ pc'[p] = "recover_lease"
      /\ \A r \in Proc \ {p} : pc'[r] = pc[r]
      /\ snap'[p] = snap[p] \ {e} /\ \A r \in Proc \ {p} : snap'[r] = snap[r]
      /\ UNCHANGED job
  BY DEF ReconcileRecord, Goto, TypeOK
<1>3. \A r \in Proc \ {q} : rec'[r] = rec[r]
  BY <1>1 DEF ReconcileRecord, Closed, TypeOK
<1>4. OneStarts' /\ ListOfStart'
  BY <1>2 DEF StartInv, OneStarts, ListOfStart, Starting, Recovering
<1>5. \A r \in Proc \ {p} : snap[r] = {}
  BY <1>2 DEF StartInv, OneStarts, ListOfStart, Starting, Recovering
<1>6. \A f \in snap[p] : f # e => f.owner # q
  <2> SUFFICES ASSUME NEW f \in snap[p], f.owner = q
               PROVE  f = e
    OBVIOUS
  <2>1. f.task = e.task /\ ~e.old /\ ~f.old
    BY DEF StartInv, ListedIsOpen
  <2>2. e \in Entry /\ f \in Entry
    BY DEF TypeOK
  <2> QED
    BY <2>1, <2>2 DEF Entry
<1>7. ListedIsOpen'
  BY <1>2, <1>3, <1>5, <1>6 DEF StartInv, ListedIsOpen, TypeOK, Entry
<1>8. CallRecorded'
  BY <1>1, <1>2, <1>3 DEF StartInv, CallRecorded, Alive, RecordTask, InCall
<1> QED
  BY <1>4, <1>7, <1>8 DEF StartInv

LEMMA StartCalls ==
    ASSUME TypeOK, RecordInv, StartInv, "record_lag" \notin Env, NEW p \in Proc,
           StartCall(p) \/ CloseRecord(p) \/ ChildExits(p)
    PROVE  StartInv'
<1>1. UNCHANGED <<pc, job>>
  BY DEF StartCall, CloseRecord, ChildExits
<1>2. \A r \in Proc \ {p} : rec'[r] = rec[r]
  BY DEF StartCall, CloseRecord, ChildExits, TypeOK
<1>3. \/ rec' = rec
      \/ Alive(p) /\ \A q \in Proc : \A e \in snap[q] : e.owner # p
  BY DEF StartCall, CloseRecord, ChildExits, RecordInv, ListedRuns, Matches, InCall,
         Alive, TypeOK
<1>4. snap' = snap
  <2>1. CASE StartCall(p)
    <3>1. \A q \in Proc : \A e \in snap[q] : e.owner # p
      BY <2>1 DEF StartCall, RecordInv, ListedRuns, Matches, InCall, Alive, TypeOK
    <3>2. \A q \in Proc : snap'[q] = snap[q]
      BY <2>1, <3>1 DEF StartCall
    <3> QED
      BY <2>1, <3>2 DEF StartCall, TypeOK
  <2> QED
    BY <2>1 DEF CloseRecord, ChildExits
<1>5. OneStarts' /\ ListOfStart'
  BY <1>1, <1>4 DEF StartInv, OneStarts, ListOfStart
<1>6. ListedIsOpen'
  BY <1>2, <1>3, <1>4 DEF StartInv, ListedIsOpen, TypeOK, Entry
<1>7. CallRecorded'
  <2>1. \/ rec'[p] = rec[p]
        \/ rec'[p].state = "final"
        \/ pc[p] \in InCall /\ rec'[p].task = RecordTask(p)
    BY DEF StartCall, CloseRecord, ChildExits, TypeOK, Record
  <2> QED
    BY <1>1, <1>2, <2>1 DEF StartInv, CallRecorded, Alive, RecordTask
<1> QED
  BY <1>5, <1>6, <1>7 DEF StartInv

LEMMA StartKept ==
    ASSUME TypeOK, RecordInv, StartInv, Orderly, [Next]_vars
    PROVE  StartInv'
<1> USE DEF recVars
<1>1. CASE UNCHANGED vars
  BY <1>1, StartFrame DEF vars
<1>2. ASSUME NEW p \in Proc, NEW l \in {"idle", "dead"}, Leave(p, l), Alive(p),
             UNCHANGED recVars, l = "dead" \/ pc[p] \notin InCall
      PROVE  StartInv'
  BY <1>2, StartFrame DEF Leave, Goto, Alive, TypeOK, Starting, Recovering
<1>3. ASSUME NEW p \in Proc, NEW l \in Holding, Goto(p, l), UNCHANGED <<snap, job>>,
             UNCHANGED recVars,
             pc[p] \in Starting \/ (pc[p] \in Holding /\ l # "lease"),
             snap[p] = {} \/ pc[p] \notin Recovering,
             pc[p] \in InCall => child[p] # "alive"
      PROVE  StartInv'
  <2>1. \A q \in Proc : pc'[q] \in Starting => pc[q] \in Starting
    BY <1>3 DEF Goto, TypeOK, Starting, Recovering, Holding, Body
  <2>2. \A q \in Proc : pc[q] = "dead" => pc'[q] = "dead"
    BY <1>3 DEF Goto, TypeOK, Starting, Recovering, Holding, Body
  <2> QED
    BY <1>3, <2>1, <2>2, StartFrame DEF Goto, TypeOK
<1>4. ASSUME NEW p \in Proc, Enter(p)
      PROVE  StartInv'
  <2>1. pc[p] \in {"eligible", "lease"} /\ UNCHANGED recVars
    BY <1>4 DEF Enter, NotEligible, TryLock, Locked, TryLease, LeaseRefused
  <2>2. \/ Leave(p, "idle")
        \/ \E l \in Holding : Goto(p, l) /\ UNCHANGED <<snap, job>>
    BY <1>4 DEF Enter, NotEligible, TryLock, Locked, TryLease, LeaseRefused, Holding, Body
  <2> QED
    BY <1>2, <1>3, <2>1, <2>2 DEF Alive, InCall, Starting, Recovering
<1>5. ASSUME NEW p \in Proc, Choose(p)
      PROVE  StartInv'
  <2>1. pc[p] \in {"heal", "select", "begun"} /\ UNCHANGED <<rec, child, snap>>
    BY <1>5 DEF Choose, SelfHeal, SelectTask, Defer, NoTask, MarkInProgress
  <2>2. /\ \E l \in Body \cup {"release"} : Goto(p, l)
        /\ \A q \in Proc \ {p} : job'[q] = job[q]
    BY <1>5 DEF Choose, SelfHeal, SelectTask, Defer, NoTask, MarkInProgress, Body, TypeOK
  <2> QED
    BY <2>1, <2>2, StartFrame DEF Goto, TypeOK, Starting, Recovering, Body, InCall
<1>6. ASSUME NEW p \in Proc, \/ ConductorFails(p) \/ Conducted(p) \/ Claim(p)
                            \/ WorkFails(p) \/ WorkPasses(p) \/ IntegrationFails(p)
                            \/ GiveBack(p) \/ Integrate(p) \/ CleanupWorktree(p)
                            \/ MarkDone(p) \/ StartCooling(p) \/ ReleaseLease(p)
                            \/ Raise(p)
      PROVE  StartInv'
  <2>1. /\ pc[p] \in Body \cup {"release"} /\ UNCHANGED <<rec, child, snap, job>>
        /\ pc[p] \in InCall => child[p] # "alive"
    BY <1>6 DEF ConductorFails, Conducted, Claim, WorkFails, WorkPasses,
                IntegrationFails, GiveBack, Integrate, CleanupWorktree, MarkDone,
                StartCooling, ReleaseLease, Raise, Fail, Body, InCall
  <2>2. \E l \in Holding \ {"lease"} : Goto(p, l)
    BY <1>6 DEF ConductorFails, Conducted, Claim, WorkFails, WorkPasses,
                IntegrationFails, GiveBack, Integrate, CleanupWorktree, MarkDone,
                StartCooling, ReleaseLease, Raise, Fail, Holding, Body
  <2> QED
    BY <1>3, <2>1, <2>2 DEF Holding, Body, Recovering
<1>7. ASSUME NEW p \in Proc, ReleaseLock(p) \/ Crash(p)
      PROVE  StartInv'
  BY <1>2, <1>7 DEF ReleaseLock, Crash, Alive, Quiet, InCall
<1>8. ASSUME NEW p \in Proc, NEW e \in snap[p], LeaveRunning(p, e)
      PROVE  StartInv'
  BY <1>8, StartFrame DEF LeaveRunning, TypeOK
<1>9. ASSUME NEW p \in Proc, NEW l \in Recovering, pc[p] \in Recovering, Goto(p, l),
             UNCHANGED <<snap, job>>, UNCHANGED recVars
      PROVE  StartInv'
  BY <1>9, StartFrame DEF Goto, TypeOK, Starting, Recovering, InCall
<1>10. ASSUME NEW p \in Proc, ReleaseStaleLease(p) \/ ReleaseStaleLock(p)
                              \/ ResetStaleTask(p) \/ ReleaseStaleClaim(p)
       PROVE  StartInv'
  <2>1. pc[p] \in Recovering /\ UNCHANGED <<snap, job, rec, child>>
    BY <1>10 DEF ReleaseStaleLease, ReleaseStaleLock, ResetStaleTask, ReleaseStaleClaim,
                 Recovering
  <2>2. \E l \in Recovering : Goto(p, l)
    BY <1>10 DEF ReleaseStaleLease, ReleaseStaleLock, ResetStaleTask, ReleaseStaleClaim,
                 Recovering
  <2> QED
    BY <1>9, <2>1, <2>2
<1>11. ASSUME NEW p \in Proc, RecoveryDone(p)
       PROVE  StartInv'
  BY <1>11, StartFrame DEF RecoveryDone, Goto, TypeOK, Starting, Recovering, InCall
<1>12. CASE LockAges \/ LeaseExpires \/ Pause \/ Resume \/ RecoverCommand
  BY <1>12, StartFrame DEF LockAges, LeaseExpires, Pause, Resume, RecoverCommand
<1> QED
  BY <1>1, <1>4, <1>5, <1>6, <1>7, <1>8, <1>10, <1>11, <1>12, StartOfStart,
     StartReconcile, StartCalls
  DEF Next, Step, Recovery, Build, Finally, Orderly

-----------------------------------------------------------------------------
(***************************************************************************)
(* Who holds a task: the cycle that works on it, the dead process whose    *)
(* record names it, or the start-up that is about to give it back.  There  *)
(* is at most one, and meanwhile the task is in_progress, so that no other *)
(* cycle selects it.  WorkIsOwned is a part of that.                       *)
(***************************************************************************)
Owning == {"conduct", "claim", "work", "merge", "cleanup", "mark", "requeue", "block"}

WorksOn(p, t)  == pc[p] \in Owning /\ job[p] = t
Lost(p, t)     == pc[p] = "dead" /\ rec[p].state = "running" /\ rec[p].task = t
Resets(p, t)   == /\ pc[p] \in {"recover_lease", "recover_lock", "recover_task"}
                  /\ target[p].task = t
Holds(p, t)    == WorksOn(p, t) \/ Lost(p, t) \/ Resets(p, t)

\* p was begun; p relies on the claim; p has it or is about to take it; p is
\* about to drop it, on behalf of a dead process.
Begins(p, t)   == pc[p] = "begun" /\ job[p] = t
Claims(p, t)   == (pc[p] \in {"work", "merge", "cleanup"} /\ job[p] = t) \/ Lost(p, t)
MayClaim(p, t) == (pc[p] = "claim" /\ job[p] = t) \/ Claims(p, t)
Unclaims(p, t) == pc[p] = "recover_claim" /\ target[p].task = t

HeldInProgress == \A p \in Proc, t \in Task : Holds(p, t) => status[t] = "in_progress"
OneHolder      == \A p, q \in Proc, t \in Task : Holds(p, t) /\ Holds(q, t) => p = q
BegunPending   == \A p \in Proc, t \in Task : Begins(p, t) => status[t] = "pending"
ClaimKept      == \A p \in Proc, t \in Task : Claims(p, t) => t \in claims
DropUndisputed == \A p, q \in Proc, t \in Task : ~(Unclaims(p, t) /\ MayClaim(q, t))
WorkInv        == /\ HeldInProgress /\ OneHolder /\ BegunPending
                  /\ ClaimKept /\ DropUndisputed

\* What each step has to show about the standing of a process q with a task t.
HoldKept(q, t) ==
    Holds(q, t)' => \/ Holds(q, t) /\ status'[t] = status[t]
                    \/ /\ status'[t] = "in_progress"
                       /\ \A r \in Proc : Holds(r, t)' => r = q
BeginKept(q, t) ==
    Begins(q, t)' => (Begins(q, t) /\ status'[t] = status[t]) \/ status'[t] = "pending"
ClaimHeld(q, t) ==
    Claims(q, t)' => t \in claims' \/ (Claims(q, t) /\ claims' = claims)
DropKept(q, t) ==
    \A r \in Proc : Unclaims(r, t)' /\ MayClaim(q, t)' => Unclaims(r, t) /\ MayClaim(q, t)

LEMMA WorkFrame ==
    ASSUME WorkInv,
           \A q \in Proc, t \in Task : HoldKept(q, t),
           \A q \in Proc, t \in Task : BeginKept(q, t),
           \A q \in Proc, t \in Task : ClaimHeld(q, t),
           \A q \in Proc, t \in Task : DropKept(q, t)
    PROVE  WorkInv'
<1>1. HeldInProgress'
  BY DEF WorkInv, HeldInProgress, HoldKept
<1>2. OneHolder'
  BY DEF WorkInv, OneHolder, HoldKept
<1>3. BegunPending'
  BY DEF WorkInv, BegunPending, BeginKept
<1>4. ClaimKept'
  BY DEF WorkInv, ClaimKept, ClaimHeld
<1>5. DropUndisputed'
  BY DEF WorkInv, DropUndisputed, DropKept
<1> QED
  BY <1>1, <1>2, <1>3, <1>4, <1>5 DEF WorkInv

\* A process that does not move keeps its standing.
LEMMA SameStanding ==
    ASSUME NEW q \in Proc, NEW t \in Task,
           pc'[q] = pc[q], job'[q] = job[q], target'[q] = target[q], rec'[q] = rec[q]
    PROVE  /\ Holds(q, t)' <=> Holds(q, t)
           /\ Begins(q, t)' <=> Begins(q, t)
           /\ Claims(q, t)' <=> Claims(q, t)
           /\ MayClaim(q, t)' <=> MayClaim(q, t)
           /\ Unclaims(q, t)' <=> Unclaims(q, t)
  BY DEF Holds, WorksOn, Lost, Resets, Begins, Claims, MayClaim, Unclaims

\* Of two standings one excludes most others.
LEMMA OneStanding ==
    ASSUME NEW q \in Proc, NEW t \in Task
    PROVE  /\ MayClaim(q, t) => Holds(q, t) /\ ~Unclaims(q, t)
           /\ Begins(q, t) => ~Holds(q, t)
  BY DEF Holds, WorksOn, Lost, Resets, Begins, Claims, MayClaim, Unclaims, Owning

\* A step of p that gains p no standing and leaves the backlog and the claims
\* alone.
LEMMA WorkStill ==
    ASSUME WorkInv, UNCHANGED <<status, claims>>, NEW p \in Proc,
           \A q \in Proc \ {p} : /\ pc'[q] = pc[q] /\ job'[q] = job[q]
                                 /\ target'[q] = target[q] /\ rec'[q] = rec[q],
           \A t \in Task : /\ Holds(p, t)' => Holds(p, t)
                           /\ Begins(p, t)' => Begins(p, t)
                           /\ Claims(p, t)' => Claims(p, t)
                           /\ MayClaim(p, t)' => MayClaim(p, t)
                           /\ Unclaims(p, t)' => Unclaims(p, t)
    PROVE  WorkInv'
<1>1. ASSUME NEW q \in Proc, NEW t \in Task
      PROVE  /\ Holds(q, t)' => Holds(q, t)
             /\ Begins(q, t)' => Begins(q, t)
             /\ Claims(q, t)' => Claims(q, t)
             /\ MayClaim(q, t)' => MayClaim(q, t)
             /\ Unclaims(q, t)' => Unclaims(q, t)
  BY SameStanding
<1> QED
  BY <1>1, WorkFrame DEF HoldKept, BeginKept, ClaimHeld, DropKept

LEMMA WorkUnchanged ==
    ASSUME WorkInv, UNCHANGED <<pc, job, target, rec, status, claims>>
    PROVE  WorkInv'
  BY SameStanding, WorkFrame DEF HoldKept, BeginKept, ClaimHeld, DropKept

\* The record that start-up reconciles is its dead owner's: the task passes
\* from the owner to the process that starts up.
LEMMA WorkReconcile ==
    ASSUME TypeOK, RecordInv, StartInv, WorkInv, NEW p \in Proc, NEW e \in snap[p],
           ReconcileRecord(p, e)
    PROVE  WorkInv'
<1> DEFINE q == e.owner
<1>1. q \in Proc /\ pc[q] = "dead" /\ q # p
  BY ReconciledIsDead DEF Alive, ReconcileRecord
<1>2. /\ pc[p] = "recover" /\ pc'[p] = "recover_lease" /\ target'[p] = e
      /\ \A r \in Proc \ {p} : pc'[r] = pc[r] /\ target'[r] = target[r]
      /\ UNCHANGED <<job, status, claims>>
  BY DEF ReconcileRecord, Goto, TypeOK, taskVars
<1>3. ~e.old /\ rec[q].state = "running" /\ rec[q].task = e.task
  BY DEF StartInv, ListedIsOpen
<1>4. rec'[q].state = "final" /\ \A r \in Proc \ {q} : rec'[r] = rec[r]
  BY <1>1, <1>3 DEF ReconcileRecord, Closed, TypeOK, Record
<1>5. \A r \in Proc, t \in Task : /\ Begins(r, t)' <=> Begins(r, t)
                                  /\ Claims(r, t)' => Claims(r, t)
                                  /\ MayClaim(r, t)' => MayClaim(r, t)
                                  /\ Unclaims(r, t)' <=> Unclaims(r, t)
  BY <1>1, <1>2, <1>4 DEF Begins, Claims, MayClaim, Unclaims, Lost
<1>6. \A r \in Proc \ {p}, t \in Task : Holds(r, t)' => Holds(r, t) /\ r # q
  BY <1>1, <1>2, <1>4 DEF Holds, WorksOn, Lost, Resets, Owning
<1>7. \A t \in Task : Holds(p, t)' => Lost(q, t)
  BY <1>1, <1>2, <1>3, <1>4 DEF Holds, WorksOn, Lost, Resets, Owning
<1>8. \A r \in Proc, t \in Task : HoldKept(r, t)
  <2> SUFFICES ASSUME NEW r \in Proc, NEW t \in Task, Holds(r, t)'
               PROVE  HoldKept(r, t)
    BY DEF HoldKept
  <2>1. CASE r = p
    <3>1. Holds(q, t)
      BY <1>7, <2>1 DEF Holds
    <3>2. \A s \in Proc : Holds(s, t) => s = q
      BY <1>1, <3>1 DEF WorkInv, OneHolder
    <3>3. \A s \in Proc : Holds(s, t)' => s = p
      BY <1>6, <3>2
    <3> QED
      BY <1>1, <1>2, <2>1, <3>1, <3>3 DEF HoldKept, WorkInv, HeldInProgress
  <2>2. CASE r # p
    BY <1>2, <1>6, <2>2 DEF HoldKept
  <2> QED
    BY <2>1, <2>2
<1> QED
  BY <1>2, <1>5, <1>8, WorkFrame DEF BeginKept, ClaimHeld, DropKept

\* Giving the task back to the backlog ends the hold of p, its only holder.
LEMMA WorkReset ==
    ASSUME TypeOK, WorkInv, NEW p \in Proc, ResetStaleTask(p)
    PROVE  WorkInv'
<1>1. /\ pc[p] = "recover_task" /\ pc'[p] \in {"recover", "recover_claim"}
      /\ \A r \in Proc \ {p} : pc'[r] = pc[r] /\ target'[r] = target[r]
      /\ UNCHANGED <<job, rec, claims>>
  BY DEF ResetStaleTask, Goto, TypeOK, recVars
<1>2. \A r \in Proc \ {p}, t \in Task : /\ Holds(r, t)' <=> Holds(r, t)
                                        /\ Begins(r, t)' <=> Begins(r, t)
                                        /\ Claims(r, t)' <=> Claims(r, t)
                                        /\ MayClaim(r, t)' <=> MayClaim(r, t)
                                        /\ Unclaims(r, t)' <=> Unclaims(r, t)
  BY <1>1, SameStanding
<1>3. \A t \in Task : ~Holds(p, t)' /\ ~Begins(p, t)' /\ ~MayClaim(p, t)' /\ ~Claims(p, t)'
  BY <1>1 DEF Holds, WorksOn, Lost, Resets, Begins, Claims, MayClaim, Owning
<1>4. CASE target[p].task = None
  <2>1. pc'[p] = "recover" /\ status' = status
    BY <1>4 DEF ResetStaleTask, Goto, TypeOK
  <2>2. \A t \in Task : ~Unclaims(p, t)'
    BY <2>1 DEF Unclaims
  <2> QED
    BY <1>1, <1>2, <1>3, <2>1, <2>2, WorkFrame DEF HoldKept, BeginKept, ClaimHeld, DropKept
<1>5. CASE target[p].task # None
  <2>0. PICK u \in Task : u = target[p].task
    BY <1>1, <1>5 DEF TypeOK, Entry, NoEntry
  <2>1. /\ pc'[p] = "recover_claim" /\ target' = target
        /\ status' = [status EXCEPT ![u] = "pending"]
    BY <1>5, <2>0 DEF ResetStaleTask, Goto, TypeOK
  <2>2. Holds(p, u)
    BY <1>1, <2>0 DEF Holds, Resets
  <2>3. \A r \in Proc \ {p} : ~Holds(r, u)
    BY <2>2 DEF WorkInv, OneHolder
  <2>4. \A r \in Proc : ~Holds(r, u)' /\ ~MayClaim(r, u)'
    BY <1>2, <1>3, <2>3, OneStanding
  <2>5. \A t \in Task \ {u} : status'[t] = status[t] /\ ~Unclaims(p, t)'
    BY <2>0, <2>1 DEF TypeOK, Unclaims
  <2>6. status'[u] = "pending"
    BY <2>1 DEF TypeOK
  <2>7. \A r \in Proc, t \in Task : HoldKept(r, t)
    BY <1>2, <1>3, <2>4, <2>5 DEF HoldKept
  <2>8. \A r \in Proc, t \in Task : BeginKept(r, t)
    BY <1>2, <1>3, <2>5, <2>6 DEF BeginKept
  <2>9. \A r \in Proc, t \in Task : ClaimHeld(r, t) /\ DropKept(r, t)
    BY <1>1, <1>2, <1>3, <2>4, <2>5 DEF ClaimHeld, DropKept
  <2> QED
    BY <2>7, <2>8, <2>9, WorkFrame
<1> QED
  BY <1>4, <1>5

\* The claim that goes is nobody's.
LEMMA WorkUnclaim ==
    ASSUME TypeOK, WorkInv, NEW p \in Proc, ReleaseStaleClaim(p)
    PROVE  WorkInv'
<1> DEFINE u == target[p].task
<1>1. /\ pc[p] = "recover_claim" /\ pc'[p] = "recover"
      /\ \A r \in Proc \ {p} : pc'[r] = pc[r] /\ target'[r] = target[r]
      /\ UNCHANGED <<job, rec, status>> /\ claims' = claims \ {u}
  BY DEF ReleaseStaleClaim, Goto, TypeOK, recVars
<1>2. \A r \in Proc \ {p}, t \in Task : /\ Holds(r, t)' <=> Holds(r, t)
                                        /\ Begins(r, t)' <=> Begins(r, t)
                                        /\ Claims(r, t)' <=> Claims(r, t)
                                        /\ MayClaim(r, t)' <=> MayClaim(r, t)
                                        /\ Unclaims(r, t)' <=> Unclaims(r, t)
  BY <1>1, SameStanding
<1>3. \A t \in Task : /\ ~Holds(p, t)' /\ ~Begins(p, t)' /\ ~MayClaim(p, t)'
                      /\ ~Claims(p, t)' /\ ~Unclaims(p, t)'
  BY <1>1 DEF Holds, WorksOn, Lost, Resets, Begins, Claims, MayClaim, Unclaims, Owning
<1>4. ASSUME NEW r \in Proc, NEW t \in Task, Claims(r, t)'
      PROVE  t \in claims'
  <2>1. Claims(r, t) /\ MayClaim(r, t)
    BY <1>2, <1>3, <1>4 DEF MayClaim
  <2>2. ~Unclaims(p, t)
    BY <2>1 DEF WorkInv, DropUndisputed
  <2> QED
    BY <1>1, <2>1, <2>2 DEF WorkInv, ClaimKept, Unclaims
<1> QED
  BY <1>1, <1>2, <1>3, <1>4, WorkFrame DEF HoldKept, BeginKept, ClaimHeld, DropKept

LEMMA WorkRecovery ==
    ASSUME TypeOK, RecordInv, StartInv, WorkInv, NEW p \in Proc,
           StartCycle(p) \/ Recovery(p)
    PROVE  WorkInv'
<1> USE DEF Goto, TypeOK, Holds, WorksOn, Lost, Resets, Begins, Claims, MayClaim,
            Unclaims, Owning
<1>1. CASE StartCycle(p)
  BY <1>1, WorkStill DEF StartCycle, recVars, taskVars
<1>2. ASSUME NEW e \in snap[p], LeaveRunning(p, e)
      PROVE  WorkInv'
  BY <1>2, WorkUnchanged DEF LeaveRunning, recVars, taskVars
<1>3. CASE ReleaseStaleLease(p) \/ ReleaseStaleLock(p)
  BY <1>3, WorkStill, ZenonT(60) DEF ReleaseStaleLease, ReleaseStaleLock, recVars, taskVars
<1>4. CASE RecoveryDone(p)
  BY <1>4, WorkStill DEF RecoveryDone, recVars, taskVars
<1> QED
  BY <1>1, <1>2, <1>3, <1>4, WorkReconcile, WorkReset, WorkUnclaim DEF Recovery

\* A cycle that ends, or dies: a task it worked on with an open record is lost.
LEMMA WorkLeave ==
    ASSUME TypeOK, JobKnown, StartInv, WorkInv, NEW p \in Proc,
           NEW l \in {"idle", "dead"}, Leave(p, l), Alive(p),
           UNCHANGED <<rec, status, claims>>
    PROVE  WorkInv'
<1>1. \A r \in Proc \ {p} : pc'[r] = pc[r] /\ job'[r] = job[r] /\ target'[r] = target[r]
  BY DEF Leave, Goto, TypeOK
<1>2. pc'[p] \in {"idle", "dead"}
  BY DEF Leave, Goto, TypeOK
<1>3. ASSUME NEW t \in Task, Lost(p, t)'
      PROVE  pc[p] = "work" /\ job[p] = t
  BY <1>3, CycleAssumption
  DEF Lost, Alive, StartInv, CallRecorded, RecordTask, InCall, CycleAssumption
<1>4. ASSUME NEW t \in Task
      PROVE  /\ Holds(p, t)' => Holds(p, t)
             /\ Claims(p, t)' => Claims(p, t)
             /\ MayClaim(p, t)' => MayClaim(p, t)
             /\ ~Begins(p, t)' /\ ~Unclaims(p, t)'
  BY <1>2, <1>3 DEF Holds, WorksOn, Resets, Claims, MayClaim, Begins, Unclaims, Owning
<1> QED
  BY <1>1, <1>4, WorkStill

\* A step of p within its cycle that takes nothing.
LEMMA WorkGoto ==
    ASSUME TypeOK, WorkInv, NEW p \in Proc, NEW l \in Holding, Goto(p, l),
           UNCHANGED <<job, target, rec, status, claims>>,
           l \in Owning => pc[p] \in Owning,
           l # "begun",
           l \in {"work", "merge", "cleanup"} => pc[p] \in {"work", "merge", "cleanup"},
           l # "claim"
    PROVE  WorkInv'
  BY WorkStill DEF TypeOK, Goto, Holding, Body, Holds, WorksOn, Lost, Resets, Owning,
                   Begins, Claims, MayClaim, Unclaims

LEMMA WorkHeal ==
    ASSUME TypeOK, WorkInv, NEW p \in Proc, SelfHeal(p)
    PROVE  WorkInv'
<1>1. \A t \in Task : status'[t] = status[t] \/ (status[t] = "blocked" /\ status'[t] = "pending")
  BY DEF SelfHeal, TypeOK
<1>2. /\ \A r \in Proc \ {p} : pc'[r] = pc[r]
      /\ pc[p] = "heal" /\ pc'[p] = "select"
      /\ UNCHANGED <<job, target, rec, claims>>
  BY DEF SelfHeal, Goto, TypeOK, recVars
<1>3. \A r \in Proc, t \in Task : /\ Holds(r, t)' => Holds(r, t)
                                  /\ Begins(r, t)' => Begins(r, t)
                                  /\ Claims(r, t)' => Claims(r, t)
                                  /\ MayClaim(r, t)' => MayClaim(r, t)
                                  /\ Unclaims(r, t)' => Unclaims(r, t)
  BY <1>2 DEF Holds, WorksOn, Lost, Resets, Owning, Begins, Claims, MayClaim, Unclaims
<1>4. \A r \in Proc, t \in Task : HoldKept(r, t) /\ BeginKept(r, t)
  BY <1>1, <1>3 DEF HoldKept, BeginKept, WorkInv, HeldInProgress, BegunPending
<1> QED
  BY <1>2, <1>3, <1>4, WorkFrame DEF ClaimHeld, DropKept

LEMMA WorkSelect ==
    ASSUME TypeOK, WorkInv, NEW p \in Proc, NEW u \in Task, SelectTask(p, u)
    PROVE  WorkInv'
<1>1. /\ \A r \in Proc \ {p} : pc'[r] = pc[r] /\ job'[r] = job[r]
      /\ pc'[p] = "begun" /\ job'[p] = u /\ status[u] = "pending"
      /\ UNCHANGED <<target, rec, status, claims>>
  BY DEF SelectTask, Ready, Goto, TypeOK, recVars, taskVars
<1>2. \A r \in Proc, t \in Task : /\ Holds(r, t)' => Holds(r, t)
                                  /\ Begins(r, t)' => Begins(r, t) \/ t = u
                                  /\ Claims(r, t)' => Claims(r, t)
                                  /\ MayClaim(r, t)' => MayClaim(r, t)
                                  /\ Unclaims(r, t)' => Unclaims(r, t)
  BY <1>1 DEF Holds, WorksOn, Lost, Resets, Owning, Begins, Claims, MayClaim, Unclaims
<1> QED
  BY <1>1, <1>2, WorkFrame DEF HoldKept, BeginKept, ClaimHeld, DropKept

\* The task was pending, so nobody holds it; and no other cycle has begun it,
\* because only one executes the locked part.
LEMMA WorkTake ==
    ASSUME TypeOK, JobKnown, LockInv, WorkInv, NEW p \in Proc, MarkInProgress(p)
    PROVE  WorkInv'
<1>1. PICK u \in Task : u = job[p]
  BY DEF MarkInProgress, JobKnown, Working
<1>2. /\ \A r \in Proc \ {p} : pc'[r] = pc[r]
      /\ pc[p] = "begun" /\ pc'[p] = "conduct"
      /\ UNCHANGED <<job, target, rec, claims>>
      /\ status'[u] = "in_progress"
      /\ \A t \in Task \ {u} : status'[t] = status[t]
  BY <1>1 DEF MarkInProgress, Goto, TypeOK, recVars
<1>3. status[u] = "pending"
  BY <1>1, <1>2 DEF Begins, WorkInv, BegunPending
<1>4. \A r \in Proc : ~Holds(r, u)
  BY <1>3 DEF WorkInv, HeldInProgress
<1>5. \A r \in Proc \ {p} : pc[r] # "begun"
  BY <1>2 DEF LockInv, LockHeld, Holding, Body
<1>6. \A r \in Proc, t \in Task : /\ Holds(r, t)' => Holds(r, t) \/ (r = p /\ t = u)
                                  /\ ~Begins(r, t)'
                                  /\ Claims(r, t)' => Claims(r, t)
                                  /\ MayClaim(r, t)' => MayClaim(r, t)
                                  /\ Unclaims(r, t)' => Unclaims(r, t)
  BY <1>1, <1>2, <1>5
  DEF Holds, WorksOn, Lost, Resets, Owning, Begins, Claims, MayClaim, Unclaims
<1>7. \A r \in Proc, t \in Task : HoldKept(r, t)
  BY <1>2, <1>4, <1>6 DEF HoldKept
<1> QED
  BY <1>2, <1>6, <1>7, WorkFrame DEF BeginKept, ClaimHeld, DropKept

\* p drops the claim of the task it holds, and relies on it no more.
LEMMA WorkDrop ==
    ASSUME TypeOK, JobKnown, WorkInv, NEW p \in Proc, pc[p] \in Owning,
           NEW l \in {"requeue", "block", "mark"}, Goto(p, l),
           claims' \in {claims, claims \ {job[p]}},
           UNCHANGED <<job, target, rec, status>>
    PROVE  WorkInv'
<1>1. PICK u \in Task : u = job[p]
  BY DEF JobKnown, Working, Owning
<1>2. /\ \A r \in Proc \ {p} : pc'[r] = pc[r]
      /\ pc'[p] \in {"requeue", "block", "mark"}
  BY DEF Goto, TypeOK
<1>3. \A r \in Proc, t \in Task : /\ Holds(r, t)' => Holds(r, t)
                                  /\ Begins(r, t)' => Begins(r, t)
                                  /\ Claims(r, t)' => Claims(r, t) /\ r # p
                                  /\ MayClaim(r, t)' => MayClaim(r, t)
                                  /\ Unclaims(r, t)' => Unclaims(r, t)
  BY <1>2 DEF Holds, WorksOn, Lost, Resets, Owning, Begins, Claims, MayClaim, Unclaims
<1>4. ASSUME NEW r \in Proc, NEW t \in Task, Claims(r, t)'
      PROVE  t \in claims'
  <2>1. Claims(r, t) /\ r # p
    BY <1>3, <1>4
  <2>2. Holds(r, t)
    BY <2>1, OneStanding DEF MayClaim
  <2>3. t # u
    BY <1>1, <2>1, <2>2 DEF Holds, WorksOn, WorkInv, OneHolder
  <2> QED
    BY <1>1, <2>1, <2>3 DEF WorkInv, ClaimKept
<1> QED
  BY <1>3, <1>4, WorkFrame DEF HoldKept, BeginKept, ClaimHeld, DropKept

\* p gives its task a last status and holds it no more; nobody else holds it.
LEMMA WorkEnds ==
    ASSUME TypeOK, JobKnown, WorkInv, NEW p \in Proc, pc[p] \in Owning, Goto(p, "cool"),
           NEW s, status' = [status EXCEPT ![job[p]] = s],
           UNCHANGED <<job, target, rec, claims>>
    PROVE  WorkInv'
<1>1. PICK u \in Task : u = job[p]
  BY DEF JobKnown, Working, Owning
<1>2. /\ \A r \in Proc \ {p} : pc'[r] = pc[r]
      /\ pc'[p] = "cool"
      /\ \A t \in Task \ {u} : status'[t] = status[t]
  BY <1>1 DEF Goto, TypeOK
<1>3. \A r \in Proc, t \in Task : /\ Holds(r, t)' => Holds(r, t) /\ r # p
                                  /\ Begins(r, t)' => Begins(r, t)
                                  /\ Claims(r, t)' => Claims(r, t)
                                  /\ MayClaim(r, t)' => MayClaim(r, t)
                                  /\ Unclaims(r, t)' => Unclaims(r, t)
  BY <1>2 DEF Holds, WorksOn, Lost, Resets, Owning, Begins, Claims, MayClaim, Unclaims
<1>4. Holds(p, u) /\ status[u] = "in_progress"
  BY <1>1 DEF Holds, WorksOn, WorkInv, HeldInProgress
<1>5. \A r \in Proc : ~Holds(r, u)' /\ ~Begins(r, u)'
  BY <1>3, <1>4 DEF WorkInv, OneHolder, BegunPending
<1>6. \A r \in Proc, t \in Task : HoldKept(r, t) /\ BeginKept(r, t)
  BY <1>2, <1>3, <1>5 DEF HoldKept, BeginKept
<1> QED
  BY <1>3, <1>6, WorkFrame DEF ClaimHeld, DropKept

\* The conductor answers while nobody starts up, so nobody is about to drop
\* the claim that p is about to take.
LEMMA WorkConducted ==
    ASSUME TypeOK, WorkInv, Orderly, NEW p \in Proc, Conducted(p)
    PROVE  WorkInv'
<1>1. /\ \A r \in Proc \ {p} : pc'[r] = pc[r] /\ pc[r] # "recover_claim"
      /\ pc[p] = "conduct" /\ pc'[p] = "claim"
      /\ UNCHANGED <<job, target, rec, status, claims>>
  BY DEF Conducted, NobodyElseStarts, Starting, Recovering, Goto, TypeOK, Orderly,
         recVars, taskVars
<1>2. \A r \in Proc, t \in Task : /\ Holds(r, t)' => Holds(r, t)
                                  /\ Begins(r, t)' => Begins(r, t)
                                  /\ Claims(r, t)' => Claims(r, t)
                                  /\ ~Unclaims(r, t)'
  BY <1>1 DEF Holds, WorksOn, Lost, Resets, Owning, Begins, Claims, Unclaims
<1> QED
  BY <1>1, <1>2, WorkFrame DEF HoldKept, BeginKept, ClaimHeld, DropKept

LEMMA WorkClaim ==
    ASSUME TypeOK, JobKnown, WorkInv, NEW p \in Proc, pc[p] = "claim", Goto(p, "work"),
           claims' = claims \cup {job[p]}, UNCHANGED <<job, target, rec, status>>
    PROVE  WorkInv'
<1>1. \A r \in Proc \ {p} : pc'[r] = pc[r]
  BY DEF Goto, TypeOK
<1>2. pc'[p] = "work"
  BY DEF Goto, TypeOK
<1>3. \A r \in Proc, t \in Task : /\ Holds(r, t)' => Holds(r, t)
                                  /\ Begins(r, t)' => Begins(r, t)
                                  /\ Claims(r, t)' => Claims(r, t) \/ t = job[p]
                                  /\ MayClaim(r, t)' => MayClaim(r, t)
                                  /\ Unclaims(r, t)' => Unclaims(r, t)
  BY <1>1, <1>2 DEF Holds, WorksOn, Lost, Resets, Owning, Begins, Claims, MayClaim, Unclaims
<1> QED
  BY <1>3, WorkFrame DEF HoldKept, BeginKept, ClaimHeld, DropKept, WorkInv, ClaimKept

\* Only dead processes lose a task, and their records do not change here.
LEMMA WorkCalls ==
    ASSUME TypeOK, WorkInv, "record_lag" \notin Env, NEW p \in Proc,
           StartCall(p) \/ CloseRecord(p) \/ ChildExits(p)
    PROVE  WorkInv'
<1>1. UNCHANGED <<pc, job, target, status, claims>>
  BY DEF StartCall, CloseRecord, ChildExits, taskVars
<1>2. \A r \in Proc : rec'[r] = rec[r] \/ (r = p /\ pc[p] # "dead")
  BY DEF StartCall, CloseRecord, ChildExits, InCall, Alive, TypeOK
<1>3. \A t \in Task : /\ Holds(p, t)' <=> Holds(p, t)
                      /\ Begins(p, t)' <=> Begins(p, t)
                      /\ Claims(p, t)' <=> Claims(p, t)
                      /\ MayClaim(p, t)' <=> MayClaim(p, t)
                      /\ Unclaims(p, t)' <=> Unclaims(p, t)
  BY <1>1, <1>2 DEF Holds, WorksOn, Lost, Resets, Begins, Claims, MayClaim, Unclaims
<1> QED
  BY <1>1, <1>2, <1>3, WorkStill

\* `project recover` while no cycle runs: only dead processes hold tasks then,
\* and their claims still stand.
LEMMA WorkRecover ==
    ASSUME TypeOK, WorkInv, Orderly, RecoverCommand
    PROVE  WorkInv'
<1>1. \A r \in Proc : pc[r] \notin Holding \cup Recovering
  BY DEF RecoverCommand, Orderly
<1>2. UNCHANGED <<pc, job, target, rec, claims>>
  BY DEF RecoverCommand, recVars
<1>3. \A r \in Proc, t \in Task : /\ Holds(r, t)' <=> Holds(r, t)
                                  /\ ~Begins(r, t)'
                                  /\ Claims(r, t)' <=> Claims(r, t)
                                  /\ MayClaim(r, t)' <=> MayClaim(r, t)
                                  /\ Unclaims(r, t)' <=> Unclaims(r, t)
  BY <1>1, <1>2, SameStanding DEF Begins, Holding, Body
<1>4. \A r \in Proc, t \in Task : Holds(r, t) => t \in claims
  BY <1>1 DEF Holds, WorksOn, Resets, Owning, Holding, Body, Recovering, Claims,
              WorkInv, ClaimKept
<1>5. \A t \in Task : t \in claims => status'[t] = status[t]
  BY DEF RecoverCommand, TypeOK
<1> QED
  BY <1>2, <1>3, <1>4, <1>5, WorkFrame DEF HoldKept, BeginKept, ClaimHeld, DropKept

LEMMA WorkBuild ==
    ASSUME TypeOK, JobKnown, WorkInv, Orderly, NEW p \in Proc, Build(p)
    PROVE  WorkInv'
<1> USE DEF recVars, taskVars
<1>1. CASE StartCall(p) \/ CloseRecord(p)
  BY <1>1, WorkCalls DEF Orderly
<1>2. ASSUME NEW l \in {"requeue", "block"}, pc[p] \in Owning, Fail(p, l)
      PROVE  WorkInv'
  BY <1>2, WorkDrop DEF Fail, ReleaseClaim
<1>3. CASE ConductorFails(p) \/ WorkFails(p) \/ IntegrationFails(p)
  BY <1>2, <1>3 DEF ConductorFails, WorkFails, IntegrationFails, Owning
<1>4. CASE Claim(p)
  <2>1. CASE Fail(p, "block")
    BY <1>2, <1>4, <2>1 DEF Claim, Owning
  <2>2. CASE ~Fail(p, "block")
    BY <1>4, <2>2, WorkClaim DEF Claim
  <2> QED
    BY <2>1, <2>2
<1>5. CASE GiveBack(p) \/ MarkDone(p)
  <2>1. pc[p] \in Owning /\ Goto(p, "cool") /\ UNCHANGED <<job, target, rec, claims>>
    BY <1>5 DEF GiveBack, MarkDone, Owning
  <2>2. PICK s : status' = [status EXCEPT ![job[p]] = s]
    BY <1>5 DEF GiveBack, MarkDone
  <2> QED
    BY <2>1, <2>2, WorkEnds
<1>6. CASE WorkPasses(p)
  BY <1>6, WorkGoto DEF WorkPasses, Owning, Holding, Body
<1>7. CASE Integrate(p)
  BY <1>7, WorkGoto DEF Integrate, Owning, Holding, Body
<1>8. CASE StartCooling(p)
  BY <1>8, WorkGoto DEF StartCooling, Owning, Holding, Body
<1>9. CASE CleanupWorktree(p)
  BY <1>9, WorkDrop DEF CleanupWorktree, ReleaseClaim, Owning
<1> QED
  BY <1>1, <1>3, <1>4, <1>5, <1>6, <1>7, <1>8, <1>9, WorkConducted DEF Build

LEMMA WorkKept ==
    ASSUME TypeOK, JobKnown, RecordInv, LockInv, StartInv, WorkInv, Orderly, [Next]_vars
    PROVE  WorkInv'
<1> USE DEF recVars, taskVars
<1>1. CASE UNCHANGED vars
  BY <1>1, WorkUnchanged DEF vars
<1>2. ASSUME NEW p \in Proc, Enter(p)
      PROVE  WorkInv'
  <2>1. CASE NotEligible(p) \/ Locked(p) \/ LeaseRefused(p)
    BY <2>1, WorkLeave DEF NotEligible, Locked, LeaseRefused, Alive
  <2>2. CASE TryLock(p)
    BY <2>2, WorkGoto DEF TryLock, Owning, Holding
  <2>3. CASE TryLease(p)
    BY <2>3, WorkGoto DEF TryLease, Owning, Holding, Body
  <2> QED
    BY <1>2, <2>1, <2>2, <2>3 DEF Enter
<1>3. ASSUME NEW p \in Proc, Choose(p)
      PROVE  WorkInv'
  <2>1. CASE Defer(p) \/ NoTask(p)
    <3>1. Goto(p, "release") /\ UNCHANGED <<job, target, rec, status, claims>>
      BY <2>1 DEF Defer, NoTask
    <3> QED
      BY <3>1, WorkGoto DEF Owning, Holding
  <2> QED
    BY <1>3, <2>1, WorkHeal, WorkSelect, WorkTake DEF Choose
<1>4. ASSUME NEW p \in Proc, Finally(p)
      PROVE  WorkInv'
  <2>1. CASE ReleaseLease(p)
    BY <2>1, WorkGoto DEF ReleaseLease, Owning, Holding
  <2>2. CASE ReleaseLock(p)
    BY <2>2, WorkLeave DEF ReleaseLock, Alive
  <2> QED
    BY <1>4, <2>1, <2>2 DEF Finally
<1>5. ASSUME NEW p \in Proc, ChildExits(p)
      PROVE  WorkInv'
  BY <1>5, WorkCalls DEF Orderly
<1>6. ASSUME NEW p \in Proc, Crash(p)
      PROVE  WorkInv'
  BY <1>6, WorkLeave DEF Crash, Alive, Quiet
<1>7. ASSUME NEW p \in Proc, Raise(p)
      PROVE  WorkInv'
  BY <1>7, WorkGoto DEF Raise, Owning, Holding
<1>8. CASE LockAges \/ LeaseExpires \/ Pause \/ Resume
  BY <1>8, WorkUnchanged DEF LockAges, LeaseExpires, Pause, Resume
<1> QED
  BY <1>1, <1>2, <1>3, <1>4, <1>5, <1>6, <1>7, <1>8, WorkRecovery, WorkBuild, WorkRecover
  DEF Next, Step

IInv == TypeOK /\ JobKnown /\ RecordInv /\ LockInv /\ StartInv /\ WorkInv

LEMMA InvHolds == ASSUME Orderly PROVE Spec => []IInv
<1> USE DEF IInv
<1>1. Init => RecordInv
  BY DEF Init, NoRecord, RecordInv, ListedRuns, RecordRuns, TargetGone,
         Reconciling, Recovering
<1>2. Init => LockInv
  BY DEF Init, LockInv, LockHeld, LeaseHeld, LateIsDead, Leasing, Holding, Body
<1>3. Init => JobKnown
  BY DEF Init, JobKnown, Working
<1>4. Init => StartInv
  BY DEF Init, NoRecord, StartInv, OneStarts, ListOfStart, ListedIsOpen, CallRecorded,
         Starting, Recovering
<1>5. Init => WorkInv
  BY DEF Init, WorkInv, HeldInProgress, OneHolder, BegunPending, ClaimKept,
         DropUndisputed, Holds, WorksOn, Lost, Resets, Owning, Begins, Claims, Unclaims
<1>6. IInv /\ [Next]_vars => IInv'
  BY NextTyped, RecordKept, LockKept, StartKept, WorkKept DEF Orderly
<1> QED
  BY <1>1, <1>2, <1>3, <1>4, <1>5, <1>6, InitTyped, PTL DEF Spec

\* While a cycle works on a task, nobody resets the task or takes its claim
\* away: not the start-up that cleans up after a death, not another cycle, not
\* `project recover` between two cycles.
THEOREM WorkStaysOwned == ASSUME Orderly PROVE Spec => []WorkIsOwned
<1>1. IInv => WorkIsOwned
  <2> SUFFICES ASSUME IInv, NEW p \in Proc
               PROVE  /\ pc[p] \in Owning => status[job[p]] = "in_progress"
                      /\ pc[p] \in {"work", "merge", "cleanup"} => job[p] \in claims
    BY DEF WorkIsOwned, Owning
  <2>1. pc[p] \in Owning => job[p] \in Task
    BY DEF IInv, JobKnown, Working, Owning
  <2>2. pc[p] \in Owning => status[job[p]] = "in_progress"
    BY <2>1 DEF IInv, WorkInv, HeldInProgress, Holds, WorksOn
  <2>3. pc[p] \in {"work", "merge", "cleanup"} => job[p] \in claims
    BY <2>1 DEF IInv, WorkInv, ClaimKept, Claims, Owning
  <2> QED
    BY <2>2, <2>3
<1> QED
  BY <1>1, InvHolds, PTL

\* The steps that write a status in backlog.yaml.
WritesStatus(p) ==
    ResetStaleTask(p) \/ MarkInProgress(p) \/ GiveBack(p) \/ SelfHeal(p) \/ MarkDone(p)

LEMMA StatusWriters ==
    ASSUME [Next]_vars
    PROVE  (\E p \in Proc : WritesStatus(p)) \/ RecoverCommand \/ UNCHANGED status
<1> USE DEF taskVars
<1>1. ASSUME NEW p \in Proc, StartCycle(p) \/ Recovery(p)
      PROVE  WritesStatus(p) \/ UNCHANGED status
  BY <1>1 DEF StartCycle, Recovery, LeaveRunning, ReconcileRecord, ReleaseStaleLease,
              ReleaseStaleLock, ReleaseStaleClaim, RecoveryDone, WritesStatus
<1>2. ASSUME NEW p \in Proc, Enter(p) \/ Finally(p) \/ Crash(p) \/ Raise(p) \/ ChildExits(p)
      PROVE  UNCHANGED status
  BY <1>2 DEF Enter, Finally, NotEligible, TryLock, Locked, TryLease, LeaseRefused,
              ReleaseLease, ReleaseLock, Crash, Raise, ChildExits
<1>3. ASSUME NEW p \in Proc, Choose(p)
      PROVE  WritesStatus(p) \/ UNCHANGED status
  BY <1>3 DEF Choose, SelectTask, Defer, NoTask, WritesStatus
<1>4. ASSUME NEW p \in Proc, Build(p)
      PROVE  WritesStatus(p) \/ UNCHANGED status
  BY <1>4 DEF Build, StartCall, CloseRecord, ConductorFails, Conducted, Claim, WorkFails,
              WorkPasses, IntegrationFails, Fail, Integrate, CleanupWorktree,
              StartCooling, WritesStatus
<1>5. CASE LockAges \/ LeaseExpires \/ Pause \/ Resume \/ UNCHANGED vars
  BY <1>5 DEF LockAges, LeaseExpires, Pause, Resume, vars
<1> QED
  BY <1>1, <1>2, <1>3, <1>4, <1>5 DEF Next, Step

\* The only step that merges.
LEMMA MergeWriters ==
    ASSUME [Next]_vars
    PROVE  (\E p \in Proc : Integrate(p)) \/ UNCHANGED merges
<1> USE DEF taskVars
<1>1. ASSUME NEW p \in Proc, StartCycle(p) \/ Recovery(p)
      PROVE  UNCHANGED merges
  BY <1>1 DEF StartCycle, Recovery, LeaveRunning, ReconcileRecord, ReleaseStaleLease,
              ReleaseStaleLock, ResetStaleTask, ReleaseStaleClaim, RecoveryDone
<1>2. ASSUME NEW p \in Proc, Enter(p) \/ Finally(p) \/ Crash(p) \/ Raise(p) \/ ChildExits(p)
      PROVE  UNCHANGED merges
  BY <1>2 DEF Enter, Finally, NotEligible, TryLock, Locked, TryLease, LeaseRefused,
              ReleaseLease, ReleaseLock, Crash, Raise, ChildExits
<1>3. ASSUME NEW p \in Proc, Choose(p)
      PROVE  UNCHANGED merges
  BY <1>3 DEF Choose, SelfHeal, SelectTask, Defer, NoTask, MarkInProgress
<1>4. ASSUME NEW p \in Proc, Build(p)
      PROVE  Integrate(p) \/ UNCHANGED merges
  BY <1>4 DEF Build, StartCall, CloseRecord, ConductorFails, Conducted, Claim, WorkFails,
              WorkPasses, IntegrationFails, Fail, GiveBack, CleanupWorktree, MarkDone,
              StartCooling
<1>5. CASE LockAges \/ LeaseExpires \/ Pause \/ Resume \/ RecoverCommand \/ UNCHANGED vars
  BY <1>5 DEF LockAges, LeaseExpires, Pause, Resume, RecoverCommand, vars
<1> QED
  BY <1>1, <1>2, <1>3, <1>4, <1>5 DEF Next, Step

LEMMA DoneStep ==
    ASSUME IInv, [Next]_vars, NEW t \in Task, status[t] = "done"
    PROVE  status'[t] = "done"
<1> USE DEF IInv, TypeOK
<1>1. \A p \in Proc : ~Holds(p, t) /\ ~Begins(p, t)
  BY DEF WorkInv, HeldInProgress, BegunPending
<1>2. ASSUME NEW p \in Proc, ResetStaleTask(p)
      PROVE  status'[t] = "done"
  BY <1>1, <1>2 DEF ResetStaleTask, Holds, Resets
<1>3. ASSUME NEW p \in Proc, MarkInProgress(p)
      PROVE  status'[t] = "done"
  BY <1>1, <1>3 DEF MarkInProgress, Begins
<1>4. ASSUME NEW p \in Proc, GiveBack(p)
      PROVE  status'[t] = "done"
  BY <1>1, <1>4 DEF GiveBack, Holds, WorksOn, Owning
<1>5. ASSUME NEW p \in Proc, SelfHeal(p) \/ MarkDone(p)
      PROVE  status'[t] = "done"
  BY <1>5 DEF SelfHeal, MarkDone
<1>6. CASE RecoverCommand
  BY <1>6 DEF RecoverCommand
<1> QED
  BY <1>2, <1>3, <1>4, <1>5, <1>6, StatusWriters DEF WritesStatus

\* A done task stays done: what changes a status is a cycle at its own task, a
\* start-up at a task that a dead process left, the healing of blocked tasks or
\* `project recover`, and none of them finds the task done.
THEOREM DoneStaysDone == ASSUME Orderly PROVE Spec => DoneIsFinal
<1>1. IInv /\ [Next]_vars =>
          [\A t \in Task : status[t] = "done" => status'[t] = "done"]_vars
  BY DoneStep
<1> QED
  BY <1>1, InvHolds, PTL DEF Spec, DoneIsFinal

-----------------------------------------------------------------------------
(***************************************************************************)
(* What is done is settled: its dependencies are done, its claim is gone.  *)
(***************************************************************************)
\* Only the process that takes a step moves, and it keeps its job while it
\* works.
LEMMA Moves ==
    ASSUME TypeOK, [Next]_vars, NEW q \in Proc
    PROVE  \/ pc'[q] = pc[q] /\ job'[q] = job[q]
           \/ StartCycle(q) \/ Step(q) \/ Crash(q) \/ Raise(q)
<1> USE DEF TypeOK, Goto, Leave
<1>1. ASSUME NEW p \in Proc \ {q}, StartCycle(p) \/ Recovery(p)
      PROVE  pc'[q] = pc[q] /\ job'[q] = job[q]
  BY <1>1 DEF StartCycle, Recovery, LeaveRunning, ReconcileRecord, ReleaseStaleLease,
              ReleaseStaleLock, ResetStaleTask, ReleaseStaleClaim, RecoveryDone
<1>2. ASSUME NEW p \in Proc \ {q}, Enter(p) \/ Finally(p) \/ Crash(p) \/ Raise(p)
      PROVE  pc'[q] = pc[q] /\ job'[q] = job[q]
  BY <1>2 DEF Enter, Finally, NotEligible, TryLock, Locked, TryLease, LeaseRefused,
              ReleaseLease, ReleaseLock, Crash, Raise
<1>3. ASSUME NEW p \in Proc \ {q}, Choose(p)
      PROVE  pc'[q] = pc[q] /\ job'[q] = job[q]
  BY <1>3 DEF Choose, SelfHeal, SelectTask, Defer, NoTask, MarkInProgress
<1>4. ASSUME NEW p \in Proc \ {q}, Build(p)
      PROVE  pc'[q] = pc[q] /\ job'[q] = job[q]
  BY <1>4 DEF Build, StartCall, CloseRecord, ConductorFails, Conducted, Claim, WorkFails,
              WorkPasses, IntegrationFails, Fail, GiveBack, Integrate, CleanupWorktree,
              MarkDone, StartCooling
<1>5. ASSUME NEW p \in Proc, ChildExits(p)
      PROVE  pc'[q] = pc[q] /\ job'[q] = job[q]
  BY <1>5 DEF ChildExits
<1>6. CASE LockAges \/ LeaseExpires \/ Pause \/ Resume \/ RecoverCommand \/ UNCHANGED vars
  BY <1>6 DEF LockAges, LeaseExpires, Pause, Resume, RecoverCommand, vars
<1> QED
  BY <1>1, <1>2, <1>3, <1>4, <1>5, <1>6 DEF Next, Step

\* A process takes a task by selecting it, and reaches "mark" by cleaning up.
LEMMA TakesBySelecting ==
    ASSUME TypeOK, [Next]_vars, NEW q \in Proc, pc'[q] \in Owning \cup {"begun"}
    PROVE  \/ pc[q] \in Owning \cup {"begun"} /\ job'[q] = job[q]
           \/ \E t \in Task : SelectTask(q, t)
<1> USE DEF TypeOK, Goto, Leave, Owning
<1>1. CASE StartCycle(q) \/ Recovery(q)
  BY <1>1, ZenonT(60) DEF StartCycle, Recovery, LeaveRunning, ReconcileRecord, ReleaseStaleLease,
              ReleaseStaleLock, ResetStaleTask, ReleaseStaleClaim, RecoveryDone
<1>2. CASE Enter(q) \/ Finally(q) \/ Crash(q) \/ Raise(q)
  BY <1>2 DEF Enter, Finally, NotEligible, TryLock, Locked, TryLease, LeaseRefused,
              ReleaseLease, ReleaseLock, Crash, Raise
<1>3. CASE Choose(q)
  BY <1>3 DEF Choose, SelfHeal, Defer, NoTask, MarkInProgress
<1>4. CASE Build(q)
  BY <1>4 DEF Build, StartCall, CloseRecord, ConductorFails, Conducted, Claim, WorkFails,
              WorkPasses, IntegrationFails, Fail, GiveBack, Integrate, CleanupWorktree,
              MarkDone, StartCooling, InCall
<1> QED
  BY <1>1, <1>2, <1>3, <1>4, Moves DEF Step

LEMMA MarksAfterCleanup ==
    ASSUME TypeOK, [Next]_vars, NEW q \in Proc, pc'[q] = "mark"
    PROVE  (pc[q] = "mark" /\ job'[q] = job[q]) \/ CleanupWorktree(q)
<1> USE DEF TypeOK, Goto, Leave
<1>1. CASE StartCycle(q) \/ Recovery(q)
  BY <1>1 DEF StartCycle, Recovery, LeaveRunning, ReconcileRecord, ReleaseStaleLease,
              ReleaseStaleLock, ResetStaleTask, ReleaseStaleClaim, RecoveryDone
<1>2. CASE Enter(q) \/ Finally(q) \/ Crash(q) \/ Raise(q)
  BY <1>2 DEF Enter, Finally, NotEligible, TryLock, Locked, TryLease, LeaseRefused,
              ReleaseLease, ReleaseLock, Crash, Raise
<1>3. CASE Choose(q)
  BY <1>3 DEF Choose, SelfHeal, SelectTask, Defer, NoTask, MarkInProgress
<1>4. CASE Build(q)
  BY <1>4 DEF Build, StartCall, CloseRecord, ConductorFails, Conducted, Claim, WorkFails,
              WorkPasses, IntegrationFails, Fail, GiveBack, Integrate,
              MarkDone, StartCooling, InCall
<1> QED
  BY <1>1, <1>2, <1>3, <1>4, Moves DEF Step

LEMMA ClaimWriters ==
    ASSUME [Next]_vars, NEW t \in claims'
    PROVE  t \in claims \/ \E p \in Proc : pc[p] = "claim" /\ job[p] = t
<1> USE DEF taskVars
<1>1. ASSUME NEW p \in Proc, StartCycle(p) \/ Recovery(p)
      PROVE  claims' \subseteq claims
  BY <1>1 DEF StartCycle, Recovery, LeaveRunning, ReconcileRecord, ReleaseStaleLease,
              ReleaseStaleLock, ResetStaleTask, ReleaseStaleClaim, RecoveryDone
<1>2. ASSUME NEW p \in Proc, Enter(p) \/ Finally(p) \/ Crash(p) \/ Raise(p) \/ ChildExits(p)
      PROVE  claims' \subseteq claims
  BY <1>2 DEF Enter, Finally, NotEligible, TryLock, Locked, TryLease, LeaseRefused,
              ReleaseLease, ReleaseLock, Crash, Raise, ChildExits
<1>3. ASSUME NEW p \in Proc, Choose(p)
      PROVE  claims' \subseteq claims
  BY <1>3 DEF Choose, SelfHeal, SelectTask, Defer, NoTask, MarkInProgress
<1>4. ASSUME NEW p \in Proc, Build(p)
      PROVE  claims' \subseteq claims \/ (pc[p] = "claim" /\ claims' = claims \cup {job[p]})
  BY <1>4 DEF Build, StartCall, CloseRecord, ConductorFails, Conducted, Claim, WorkFails,
              WorkPasses, IntegrationFails, Fail, GiveBack, Integrate, CleanupWorktree,
              MarkDone, StartCooling, ReleaseClaim
<1>5. CASE LockAges \/ LeaseExpires \/ Pause \/ Resume \/ RecoverCommand \/ UNCHANGED vars
  BY <1>5 DEF LockAges, LeaseExpires, Pause, Resume, RecoverCommand, vars
<1> QED
  BY <1>1, <1>2, <1>3, <1>4, <1>5 DEF Next, Step

DepsDone   == \A p \in Proc : pc[p] \in Owning \cup {"begun"} =>
                  \A d \in Deps[job[p]] : status[d] = "done"
Unclaimed  == \A p \in Proc : pc[p] = "mark" => job[p] \notin claims
SettledInv == DepsDone /\ Unclaimed /\ DoneIsSettled

LEMMA SettledKept ==
    ASSUME IInv, SettledInv, Orderly, "candidate_wins" \notin Env, [Next]_vars
    PROVE  SettledInv'
<1> USE DEF IInv
<1>1. \A p \in Proc : pc[p] \in Owning \cup {"begun"} => job[p] \in Task
  BY DEF JobKnown, Working, Owning
<1>2. \A t \in Task : Deps[t] \subseteq Task
  BY CycleAssumption DEF CycleAssumption
<1>3. DepsDone'
  <2> SUFFICES ASSUME NEW p \in Proc, pc'[p] \in Owning \cup {"begun"}
               PROVE  \A d \in Deps[job'[p]] : status'[d] = "done"
    BY DEF DepsDone
  <2>1. CASE pc[p] \in Owning \cup {"begun"} /\ job'[p] = job[p]
    BY <1>1, <1>2, <2>1, DoneStep DEF SettledInv, DepsDone
  <2>2. ASSUME NEW t \in Task, SelectTask(p, t)
        PROVE  \A d \in Deps[job'[p]] : status'[d] = "done"
    BY <1>2, <2>2, DoneStep DEF SelectTask, Ready, TypeOK
  <2> QED
    BY <2>1, <2>2, TakesBySelecting
<1>4. Unclaimed'
  <2> SUFFICES ASSUME NEW p \in Proc, pc'[p] = "mark"
               PROVE  job'[p] \notin claims'
    BY DEF Unclaimed
  <2>1. CASE CleanupWorktree(p)
    BY <2>1 DEF CleanupWorktree, ReleaseClaim
  <2>2. CASE pc[p] = "mark" /\ job'[p] = job[p]
    <3>1. PICK t \in Task : t = job[p]
      BY <1>1, <2>2 DEF Owning
    <3>2. Holds(p, t) /\ t \notin claims
      BY <2>2, <3>1 DEF Holds, WorksOn, Owning, SettledInv, Unclaimed
    <3>3. \A q \in Proc : ~(pc[q] = "claim" /\ job[q] = t)
      BY <2>2, <3>2 DEF Holds, WorksOn, Owning, WorkInv, OneHolder
    <3> QED
      BY <2>2, <3>1, <3>2, <3>3, ClaimWriters
  <2> QED
    BY <2>1, <2>2, MarksAfterCleanup
<1>5. DoneIsSettled'
  <2> SUFFICES ASSUME NEW t \in Task, status'[t] = "done"
               PROVE  (\A d \in Deps[t] : status'[d] = "done") /\ t \notin claims'
    BY DEF DoneIsSettled
  <2>1. CASE status[t] = "done"
    <3>1. \A q \in Proc : ~(pc[q] = "claim" /\ job[q] = t)
      BY <2>1 DEF Holds, WorksOn, Owning, WorkInv, HeldInProgress
    <3> QED
      BY <1>2, <2>1, <3>1, ClaimWriters, DoneStep DEF SettledInv, DoneIsSettled
  <2>2. ASSUME NEW p \in Proc, MarkDone(p), t = job[p]
        PROVE  (\A d \in Deps[t] : status'[d] = "done") /\ t \notin claims'
    BY <1>2, <2>2, DoneStep DEF MarkDone, Owning, SettledInv, DepsDone, Unclaimed
  <2>3. status[t] = "done" \/ \E p \in Proc : MarkDone(p) /\ t = job[p]
    BY StatusWriters, ZenonT(60) DEF WritesStatus, ResetStaleTask, MarkInProgress, GiveBack, SelfHeal,
       MarkDone, RecoverCommand, TypeOK
  <2> QED
    BY <2>1, <2>2, <2>3
<1> QED
  BY <1>3, <1>4, <1>5 DEF SettledInv

\* A finished task leaves nothing behind that could hold up another: its
\* dependencies are done and its paths are free.  Without parallel candidates,
\* whose clean-up may release another candidate's claim.
THEOREM DoneStaysSettled ==
    ASSUME Orderly, "candidate_wins" \notin Env
    PROVE  Spec => []DoneIsSettled
<1>1. Init => SettledInv
  BY DEF Init, SettledInv, DepsDone, Unclaimed, DoneIsSettled, Owning
<1>2. IInv /\ SettledInv /\ [Next]_vars => SettledInv'
  BY SettledKept
<1>3. SettledInv => DoneIsSettled
  BY DEF SettledInv
<1> QED
  BY <1>1, <1>2, <1>3, InvHolds, PTL DEF Spec

-----------------------------------------------------------------------------
(***************************************************************************)
(* Work is merged once.  A cycle that merged and then dies or raises       *)
(* before it marks the task done leaves the task in_progress without a     *)
(* claim: the `project recover` command would make it pending again, so    *)
(* that either that command or those deaths are left out.                  *)
(***************************************************************************)
NoRedo == "recover" \in Env => {"untracked_crash", "exception"} \cap Env = {}

MergedSettles ==
    \A t \in Task : merges[t] > 0 =>
        /\ merges[t] = 1
        /\ status[t] \in {"in_progress", "done"}
        /\ \A p \in Proc : Holds(p, t) => pc[p] \in Merged
        /\ "recover" \in Env /\ status[t] = "in_progress" =>
               \E p \in Proc : pc[p] \in Merged /\ job[p] = t

\* From the merge, a cycle goes on to mark its task done, or does not go on.
LEMMA MergedMoves ==
    ASSUME TypeOK, [Next]_vars, NEW q \in Proc, pc[q] \in Merged
    PROVE  \/ pc'[q] \in Merged /\ job'[q] = job[q]
           \/ MarkDone(q) \/ Raise(q) \/ Crash(q)
<1> USE DEF Merged
<1>1. ~(StartCycle(q) \/ Recovery(q))
  BY DEF StartCycle, Recovery, LeaveRunning, ReconcileRecord, ReleaseStaleLease,
         ReleaseStaleLock, ResetStaleTask, ReleaseStaleClaim, RecoveryDone
<1>2. ~(Enter(q) \/ Finally(q))
  BY DEF Enter, Finally, NotEligible, TryLock, Locked, TryLease, LeaseRefused,
         ReleaseLease, ReleaseLock
<1>3. ~Choose(q)
  BY DEF Choose, SelfHeal, SelectTask, Defer, NoTask, MarkInProgress
<1>4. Build(q) => CleanupWorktree(q) \/ MarkDone(q)
  BY DEF Build, StartCall, CloseRecord, ConductorFails, Conducted, Claim, WorkFails,
         WorkPasses, IntegrationFails, Fail, GiveBack, Integrate, StartCooling, InCall
<1>5. CleanupWorktree(q) => pc'[q] \in Merged /\ job'[q] = job[q]
  BY DEF CleanupWorktree, Goto, TypeOK
<1> QED
  BY <1>1, <1>2, <1>3, <1>4, <1>5, Moves DEF Step

\* Every new hold of an unmerged task comes from another one, or from the
\* selection of the task.
LEMMA HoldComesFrom ==
    ASSUME IInv, IInv', [Next]_vars, NEW q \in Proc, NEW t \in Task,
           Holds(q, t)', pc'[q] \notin Merged
    PROVE  \E r \in Proc : (Holds(r, t) /\ pc[r] \notin Merged) \/ Begins(r, t)
<1> USE DEF IInv
<1>1. CASE WorksOn(q, t)'
  <2>1. job'[q] = t /\ pc'[q] \in Owning
    BY <1>1 DEF WorksOn
  <2>2. ~ \E u \in Task : SelectTask(q, u)
    BY <2>1 DEF SelectTask, Goto, TypeOK, Owning
  <2>3. pc[q] \in Owning \cup {"begun"} /\ job[q] = t
    BY <2>1, <2>2, TakesBySelecting
  <2>4. CASE pc[q] \in Merged
    <3>1. pc'[q] \in {"cool", "release", "dead"}
      BY <2>4, MergedMoves DEF MarkDone, Raise, Crash, Leave, Goto, TypeOK
    <3> QED
      BY <2>1, <3>1 DEF Owning
  <2> QED
    BY <2>3, <2>4 DEF Holds, WorksOn, Begins
<1>2. CASE Lost(q, t)'
  <2>1. rec'[q].state = "running" /\ rec'[q].task = t /\ pc'[q] = "dead"
    BY <1>2 DEF Lost
  <2>2. CASE pc[q] = "dead"
    <3>1. rec'[q] = rec[q] \/ rec'[q].state = "final"
      <4>1. ASSUME NEW p \in Proc, StartCycle(p) \/ Recovery(p)
            PROVE  rec'[q] = rec[q] \/ rec'[q].state = "final"
        <5>1. ASSUME NEW e \in snap[p], ReconcileRecord(p, e)
              PROVE  rec'[q] = rec[q] \/ rec'[q].state = "final"
          BY <5>1 DEF ReconcileRecord, Closed, TypeOK, Record, Entry
        <5>2. CASE ~ \E e \in snap[p] : ReconcileRecord(p, e)
          BY <4>1, <5>2 DEF StartCycle, Recovery, LeaveRunning, ReleaseStaleLease,
                 ReleaseStaleLock, ResetStaleTask, ReleaseStaleClaim, RecoveryDone, recVars
        <5> QED
          BY <5>1, <5>2
      <4>2. ASSUME NEW p \in Proc, Enter(p) \/ Finally(p) \/ Crash(p) \/ Raise(p)
            PROVE  rec' = rec
        BY <4>2 DEF Enter, Finally, NotEligible, TryLock, Locked, TryLease, LeaseRefused,
                    ReleaseLease, ReleaseLock, Crash, Raise, recVars
      <4>3. ASSUME NEW p \in Proc, Choose(p)
            PROVE  rec' = rec
        BY <4>3 DEF Choose, SelfHeal, SelectTask, Defer, NoTask, MarkInProgress, recVars
      <4>4. ASSUME NEW p \in Proc, Build(p)
            PROVE  rec'[q] = rec[q]
        BY <2>2, <4>4
        DEF Build, StartCall, CloseRecord, ConductorFails, Conducted, Claim, WorkFails,
            WorkPasses, IntegrationFails, Fail, GiveBack, Integrate, CleanupWorktree,
            MarkDone, StartCooling, InCall, recVars, TypeOK
      <4>5. ASSUME NEW p \in Proc, ChildExits(p)
            PROVE  rec'[q] = rec[q]
        BY <2>2, <4>5 DEF ChildExits, Alive, TypeOK
      <4>6. CASE \/ LockAges \/ LeaseExpires \/ Pause \/ Resume \/ RecoverCommand
                 \/ UNCHANGED vars
        BY <4>6 DEF LockAges, LeaseExpires, Pause, Resume, RecoverCommand, vars, recVars
      <4> QED
        BY <4>1, <4>2, <4>3, <4>4, <4>5, <4>6 DEF Next, Step
    <3> QED
      BY <2>1, <2>2, <3>1 DEF Holds, Lost, Merged
  <2>3. CASE pc[q] # "dead"
    <3>1. Crash(q)
      <4>1. ~(StartCycle(q) \/ Recovery(q) \/ Raise(q))
        BY <2>1 DEF StartCycle, Recovery, LeaveRunning, ReconcileRecord, ReleaseStaleLease,
               ReleaseStaleLock, ResetStaleTask, ReleaseStaleClaim, RecoveryDone, Raise,
               Goto, TypeOK
      <4>2. ~(Enter(q) \/ Finally(q))
        BY <2>1 DEF Enter, Finally, NotEligible, TryLock, Locked, TryLease, LeaseRefused,
               ReleaseLease, ReleaseLock, Leave, Goto, TypeOK
      <4>3. ~Choose(q)
        BY <2>1 DEF Choose, SelfHeal, SelectTask, Defer, NoTask, MarkInProgress, Goto, TypeOK
      <4>4. ~Build(q)
        BY <2>1, <2>3 DEF Build, StartCall, CloseRecord, ConductorFails, Conducted, Claim,
               WorkFails, WorkPasses, IntegrationFails, Fail, GiveBack, Integrate,
               CleanupWorktree, MarkDone, StartCooling, Goto, TypeOK
      <4> QED
        BY <2>1, <2>3, <4>1, <4>2, <4>3, <4>4, Moves DEF Step
    <3>2. rec' = rec
      BY <3>1 DEF Crash, recVars
    <3>3. pc[q] = "work" /\ job[q] = t
      BY <2>1, <2>3, <3>2, CycleAssumption
      DEF StartInv, CallRecorded, RecordTask, InCall, Alive, CycleAssumption
    <3> QED
      BY <3>3 DEF Holds, WorksOn, Owning, Merged
  <2> QED
    BY <2>2, <2>3
<1>3. CASE Resets(q, t)'
  <2>1. pc'[q] \in {"recover_lease", "recover_lock", "recover_task"} /\ target'[q].task = t
    BY <1>3 DEF Resets
  <2>2. CASE Resets(q, t)
    BY <2>2 DEF Holds, Resets, Merged
  <2>3. CASE ~Resets(q, t)
    <3>1. \E e \in snap[q] : ReconcileRecord(q, e)
      <4> USE DEF Goto, TypeOK, Resets
      <4>1. ASSUME NEW p \in Proc, StartCycle(p) \/ RecoveryDone(p) \/ Raise(p)
            PROVE  FALSE
        BY <2>1, <2>3, <4>1 DEF StartCycle, RecoveryDone, Raise
      <4>2. ASSUME NEW p \in Proc, Enter(p) \/ Finally(p) \/ Crash(p)
            PROVE  FALSE
        BY <2>1, <2>3, <4>2 DEF Enter, Finally, NotEligible, TryLock, Locked, TryLease,
               LeaseRefused, ReleaseLease, ReleaseLock, Crash, Leave
      <4>3. ASSUME NEW p \in Proc, Choose(p)
            PROVE  FALSE
        BY <2>1, <2>3, <4>3 DEF Choose, SelfHeal, SelectTask, Defer, NoTask, MarkInProgress
      <4>4. ASSUME NEW p \in Proc, Build(p)
            PROVE  FALSE
        <5>1. UNCHANGED target
          BY <4>4 DEF Build, StartCall, CloseRecord, ConductorFails, Conducted, Claim,
                 WorkFails, WorkPasses, IntegrationFails, Fail, GiveBack, Integrate,
                 CleanupWorktree, MarkDone, StartCooling
        <5>2. UNCHANGED pc \/ \E l \in Holding : Goto(p, l)
          BY <4>4 DEF Build, StartCall, CloseRecord, ConductorFails, Conducted, Claim,
                 WorkFails, WorkPasses, IntegrationFails, Fail, GiveBack, Integrate,
                 CleanupWorktree, MarkDone, StartCooling, Holding, Body
        <5> QED
          BY <2>1, <2>3, <5>1, <5>2 DEF Holding, Body
      <4>5. ASSUME NEW p \in Proc, ChildExits(p)
            PROVE  FALSE
        BY <2>1, <2>3, <4>5 DEF ChildExits
      <4>6. CASE \/ LockAges \/ LeaseExpires \/ Pause \/ Resume \/ RecoverCommand
                 \/ UNCHANGED vars
        BY <2>1, <2>3, <4>6 DEF LockAges, LeaseExpires, Pause, Resume, RecoverCommand, vars
      <4>7. ASSUME NEW p \in Proc, \/ ReleaseStaleLease(p) \/ ReleaseStaleLock(p)
                                   \/ ResetStaleTask(p) \/ ReleaseStaleClaim(p)
            PROVE  FALSE
        BY <2>1, <2>3, <4>7, ZenonT(60) DEF ReleaseStaleLease, ReleaseStaleLock, ResetStaleTask,
               ReleaseStaleClaim
      <4>8. ASSUME NEW p \in Proc, NEW e \in snap[p], LeaveRunning(p, e)
            PROVE  FALSE
        BY <2>1, <2>3, <4>8 DEF LeaveRunning
      <4>9. ASSUME NEW p \in Proc, NEW e \in snap[p], ReconcileRecord(p, e)
            PROVE  p = q
        BY <2>1, <2>3, <4>9 DEF ReconcileRecord
      <4> QED
        BY <4>1, <4>2, <4>3, <4>4, <4>5, <4>6, <4>7, <4>8, <4>9 DEF Next, Step, Recovery
    <3>2. PICK e \in snap[q] : ReconcileRecord(q, e)
      BY <3>1
    <3>3. e.owner \in Proc /\ pc[e.owner] = "dead" /\ e.task = t
      BY <2>1, <3>2, ReconciledIsDead DEF Alive, ReconcileRecord, TypeOK
    <3> QED
      BY <3>3 DEF Holds, Lost, StartInv, ListedIsOpen, Merged
  <2> QED
    BY <2>2, <2>3
<1> QED
  BY <1>1, <1>2, <1>3 DEF Holds

\* Nobody but a cycle past its merge holds a merged task, so no step of
\* another takes it up again.
LEMMA MergedStays ==
    ASSUME IInv, IInv', MergedSettles, Orderly, NoRedo, [Next]_vars,
           NEW t \in Task, merges[t] > 0
    PROVE  /\ status'[t] \in {"in_progress", "done"}
           /\ \A q \in Proc : Holds(q, t)' => pc'[q] \in Merged
           /\ "recover" \in Env /\ status'[t] = "in_progress" =>
                  \E p \in Proc : pc'[p] \in Merged /\ job'[p] = t
<1> USE DEF IInv
<1>1. /\ status[t] \in {"in_progress", "done"}
      /\ \A p \in Proc : Holds(p, t) => pc[p] \in Merged
      /\ \A p \in Proc : ~Begins(p, t)
  BY DEF MergedSettles, WorkInv, BegunPending
<1>2. ~(RecoverCommand /\ status[t] = "in_progress")
  <2> SUFFICES ASSUME RecoverCommand, status[t] = "in_progress"
               PROVE  FALSE
    OBVIOUS
  <2>1. "recover" \in Env /\ \A p \in Proc : pc[p] \notin Holding
    BY DEF RecoverCommand, Orderly
  <2>2. \A p \in Proc : pc[p] \notin Merged
    BY <2>1 DEF Merged, Holding, Body
  <2> QED
    BY <2>1, <2>2 DEF MergedSettles
<1>3. status'[t] = status[t] \/ status'[t] = "done"
  <2>1. ASSUME NEW p \in Proc, WritesStatus(p)
        PROVE  status'[t] = status[t] \/ status'[t] = "done"
    <3>1. CASE ResetStaleTask(p)
      BY <1>1, <3>1 DEF ResetStaleTask, Holds, Resets, Merged, TypeOK
    <3>2. CASE MarkInProgress(p)
      BY <1>1, <3>2 DEF MarkInProgress, Begins, TypeOK
    <3>3. CASE GiveBack(p)
      BY <1>1, <3>3 DEF GiveBack, Holds, WorksOn, Owning, Merged, TypeOK
    <3>4. CASE SelfHeal(p) \/ MarkDone(p)
      BY <1>1, <3>4 DEF SelfHeal, MarkDone, TypeOK
    <3> QED
      BY <2>1, <3>1, <3>2, <3>3, <3>4 DEF WritesStatus
  <2>2. ASSUME RecoverCommand
        PROVE  status'[t] = status[t]
    BY <1>1, <1>2, <2>2 DEF RecoverCommand, TypeOK
  <2> QED
    BY <2>1, <2>2, StatusWriters
<1>4. \A q \in Proc : Holds(q, t)' => pc'[q] \in Merged
  BY <1>1, HoldComesFrom
<1>5. ASSUME "recover" \in Env, status'[t] = "in_progress"
      PROVE  \E p \in Proc : pc'[p] \in Merged /\ job'[p] = t
  <2>1. status[t] = "in_progress"
    BY <1>3, <1>5
  <2>2. PICK p \in Proc : pc[p] \in Merged /\ job[p] = t
    BY <1>5, <2>1 DEF MergedSettles
  <2>3. ~MarkDone(p)
    BY <1>5, <2>2 DEF MarkDone, TypeOK
  <2>4. ~Raise(p)
    BY <1>5 DEF Raise, NoRedo
  <2>5. ~Crash(p)
    BY <1>5, <2>2 DEF Crash, NoRedo, Merged
  <2> QED
    BY <2>2, <2>3, <2>4, <2>5, MergedMoves
<1> QED
  BY <1>1, <1>3, <1>4, <1>5

LEMMA MergedKept ==
    ASSUME IInv, MergedSettles, Orderly, NoRedo, [Next]_vars
    PROVE  MergedSettles'
<1>1. IInv'
  BY NextTyped, RecordKept, LockKept, StartKept, WorkKept DEF Orderly, IInv
<1>2. CASE UNCHANGED merges
  BY <1>1, <1>2, MergedStays DEF MergedSettles
<1>3. ASSUME NEW p \in Proc, Integrate(p), merges' # merges
      PROVE  MergedSettles'
  <2>1. PICK u \in Task : u = job[p]
    BY <1>3 DEF Integrate, IInv, JobKnown, Working
  <2>2. Holds(p, u) /\ pc[p] \notin Merged
    BY <1>3, <2>1 DEF Integrate, Holds, WorksOn, Owning, Merged
  <2>3. merges[u] = 0
    BY <2>2 DEF MergedSettles, IInv, TypeOK
  <2>4. /\ merges'[u] = 1
        /\ \A t \in Task \ {u} : merges'[t] = merges[t]
        /\ pc'[p] = "cleanup" /\ job'[p] = u /\ status'[u] = status[u]
    BY <1>3, <2>1, <2>3 DEF Integrate, Goto, IInv, TypeOK
  <2>5. status[u] = "in_progress"
    BY <2>2 DEF IInv, WorkInv, HeldInProgress
  <2>6. Holds(p, u)'
    BY <2>4 DEF Holds, WorksOn, Owning
  <2>7. \A q \in Proc : Holds(q, u)' => q = p
    BY <1>1, <2>6 DEF IInv, WorkInv, OneHolder
  <2> QED
    BY <1>1, <2>4, <2>5, <2>7, MergedStays DEF MergedSettles, Merged
<1> QED
  BY <1>2, <1>3, MergeWriters

LEMMA MergedHolds == ASSUME Orderly, NoRedo PROVE Spec => []MergedSettles
<1>1. Init => MergedSettles
  BY DEF Init, MergedSettles
<1>2. IInv /\ MergedSettles /\ [Next]_vars => MergedSettles'
  BY MergedKept
<1> QED
  BY <1>1, <1>2, InvHolds, PTL DEF Spec

\* No task is merged into agentic/project twice, through any sequence of
\* cycles, deaths in a model call, recoveries and commands.
THEOREM WorkMergedOnce == ASSUME Orderly, NoRedo PROVE Spec => []MergedOnce
<1>1. TypeOK /\ MergedSettles => MergedOnce
  BY DEF MergedOnce, MergedSettles, TypeOK
<1> QED
  BY <1>1, MergedHolds, Typed, PTL

-----------------------------------------------------------------------------
(***************************************************************************)
(* The pause.  While it holds, scheduler.json says so and every process    *)
(* that starts has seen it; and a process that has seen it never gets      *)
(* past "eligible", even when the operator resumes meanwhile.              *)
(***************************************************************************)
PauseKept == /\ paused => /\ disk.state = "paused"
                          /\ \A p \in Proc : ~Quiet(p) => sawPause[p]
             /\ \A p \in Proc : sawPause[p] => /\ mem[p].state = "paused"
                                               /\ pc[p] \in Recovering \cup {"eligible"}

\* A step of p that neither leaves nor enters and does not save the scheduler,
\* unless p has not seen a pause.
LEMMA PauseFrame ==
    ASSUME TypeOK, PauseKept, UNCHANGED <<paused, sawPause>>, NEW p \in Proc, ~Quiet(p),
           \A q \in Proc \ {p} : pc'[q] = pc[q] /\ mem'[q] = mem[q],
           sawPause[p] => /\ UNCHANGED <<mem, disk>>
                          /\ pc'[p] \in Recovering \cup {"eligible"}
    PROVE  PauseKept'
  BY DEF PauseKept, Quiet

LEMMA PauseLeave ==
    ASSUME TypeOK, PauseKept, UNCHANGED <<disk, paused>>, NEW p \in Proc,
           NEW l \in {"idle", "dead"}, Leave(p, l)
    PROVE  PauseKept'
  BY DEF PauseKept, Quiet, Leave, Goto, TypeOK

LEMMA PauseStep ==
    ASSUME TypeOK, PauseKept, "pause_race" \notin Env, [Next]_vars
    PROVE  PauseKept'
<1> USE DEF Goto, TypeOK, histVars, SaveSched
<1>1. ASSUME NEW p \in Proc, StartCycle(p)
      PROVE  PauseKept'
  BY <1>1 DEF StartCycle, PauseKept, Quiet, Recovering
<1>2. ASSUME NEW p \in Proc, Recovery(p)
      PROVE  PauseKept'
  <2> USE DEF Quiet, Recovering
  <2>1. ASSUME NEW e \in snap[p], LeaveRunning(p, e) \/ ReconcileRecord(p, e)
        PROVE  PauseKept'
    BY <2>1, PauseFrame DEF LeaveRunning, ReconcileRecord
  <2>2. CASE ReleaseStaleLease(p) \/ ReleaseStaleLock(p) \/ ResetStaleTask(p) \/ RecoveryDone(p)
    BY <2>2, PauseFrame
    DEF ReleaseStaleLease, ReleaseStaleLock, ResetStaleTask, RecoveryDone
  <2>3. CASE ReleaseStaleClaim(p)
    BY <2>3, PauseFrame DEF ReleaseStaleClaim, PauseKept
  <2> QED
    BY <1>2, <2>1, <2>2, <2>3 DEF Recovery
<1>3. ASSUME NEW p \in Proc, NotEligible(p) \/ Locked(p) \/ LeaseRefused(p) \/ ReleaseLock(p)
                            \/ Crash(p)
      PROVE  PauseKept'
  BY <1>3, PauseLeave DEF NotEligible, Locked, LeaseRefused, ReleaseLock, Crash
<1>4. ASSUME NEW p \in Proc, TryLock(p)
      PROVE  PauseKept'
  BY <1>4, PauseFrame DEF TryLock, MayRun, PauseKept, Quiet
<1>5. ASSUME NEW p \in Proc, pc[p] \in Holding, UNCHANGED <<paused, sawPause>>,
             \A q \in Proc \ {p} : pc'[q] = pc[q] /\ mem'[q] = mem[q]
      PROVE  PauseKept'
  BY <1>5, PauseFrame DEF Holding, Body, PauseKept, Quiet, Recovering
<1>6. ASSUME NEW p \in Proc, TryLease(p) \/ ReleaseLease(p) \/ Raise(p) \/ Choose(p)
      PROVE  PauseKept'
  BY <1>5, <1>6 DEF TryLease, ReleaseLease, Raise, Choose, SelfHeal, SelectTask, Defer,
                    NoTask, MarkInProgress, Holding, Body
<1>7. ASSUME NEW p \in Proc, Build(p)
      PROVE  PauseKept'
  BY <1>5, <1>7 DEF Build, StartCall, CloseRecord, ConductorFails, Conducted, Claim,
                    WorkFails, WorkPasses, IntegrationFails, Fail, GiveBack, Integrate,
                    CleanupWorktree, MarkDone, StartCooling, InCall, Holding, Body
<1>8. ASSUME NEW p \in Proc, ChildExits(p)
      PROVE  PauseKept'
  BY <1>8 DEF ChildExits, PauseKept, Quiet
<1>9. CASE LockAges \/ LeaseExpires \/ RecoverCommand \/ UNCHANGED vars
  BY <1>9 DEF LockAges, LeaseExpires, RecoverCommand, vars, PauseKept, Quiet
<1>10. CASE Pause
  BY <1>10 DEF Pause, PauseKept, Quiet, SchedState
<1>11. CASE Resume
  BY <1>11 DEF Resume, PauseKept, Quiet
<1> QED
  BY <1>1, <1>2, <1>3, <1>4, <1>6, <1>7, <1>8, <1>9, <1>10, <1>11
  DEF Next, Step, Enter, Finally

\* A process that loaded the scheduler while the project was paused never runs
\* a cycle, whatever crashes, lags or overruns, and even if the operator
\* resumes before it checks: for a pause that no running cycle overwrites.
THEOREM PauseIsRespected == ASSUME "pause_race" \notin Env PROVE Spec => []PauseRespected
<1>1. Init => PauseKept
  BY DEF Init, PauseKept
<1>2. TypeOK /\ PauseKept /\ [Next]_vars => PauseKept'
  BY PauseStep
<1>3. PauseKept => PauseRespected
  BY DEF PauseKept, PauseRespected, InBody, Body, Recovering
<1> QED
  BY <1>1, <1>2, <1>3, Typed, PTL DEF Spec

-----------------------------------------------------------------------------
(***************************************************************************)
(* The cycles together implement BuildContract: the builder is the process *)
(* in the locked part, its job is the task it selected, and what is built  *)
(* is what was merged.                                                     *)
(***************************************************************************)
theBuilder == IF \E p \in Proc : InBody(p) THEN CHOOSE p \in Proc : InBody(p) ELSE None
theJob     == IF \E p \in Proc : InBody(p)
              THEN job[CHOOSE p \in Proc : InBody(p)] ELSE None
theBuilt   == {t \in Task : merges[t] > 0}

\* A cycle has a job from its selection to its end, and no other process has.
JobIdle == \A p \in Proc : job[p] # None => pc[p] \in Working \cup {"release", "unlock"}

LEMMA JobIdleKept ==
    ASSUME TypeOK, JobIdle, [Next]_vars
    PROVE  JobIdle'
<1> SUFFICES ASSUME NEW q \in Proc, job'[q] # None
             PROVE  pc'[q] \in Working \cup {"release", "unlock"}
  BY DEF JobIdle
<1> USE DEF TypeOK, Goto, Leave, Working, JobIdle
<1>1. CASE StartCycle(q) \/ Recovery(q)
  BY <1>1 DEF StartCycle, Recovery, LeaveRunning, ReconcileRecord, ReleaseStaleLease,
              ReleaseStaleLock, ResetStaleTask, ReleaseStaleClaim, RecoveryDone
<1>2. CASE Enter(q) \/ Finally(q) \/ Crash(q) \/ Raise(q)
  BY <1>2 DEF Enter, Finally, NotEligible, TryLock, Locked, TryLease, LeaseRefused,
              ReleaseLease, ReleaseLock, Crash, Raise
<1>3. CASE Choose(q)
  BY <1>3 DEF Choose, SelfHeal, SelectTask, Defer, NoTask, MarkInProgress
<1>4. CASE Build(q)
  BY <1>4 DEF Build, StartCall, CloseRecord, ConductorFails, Conducted, Claim, WorkFails,
              WorkPasses, IntegrationFails, Fail, GiveBack, Integrate, CleanupWorktree,
              MarkDone, StartCooling, InCall
<1> QED
  BY <1>1, <1>2, <1>3, <1>4, Moves DEF Step

\* The locked part is entered with the lease, and left for good.
LEMMA EntersWithLease ==
    ASSUME TypeOK, [Next]_vars, NEW q \in Proc, ~InBody(q), InBody(q)'
    PROVE  TryLease(q)
<1> USE DEF TypeOK, Goto, Leave, InBody, Body
<1>1. CASE StartCycle(q) \/ Recovery(q)
  BY <1>1, ZenonT(60) DEF StartCycle, Recovery, LeaveRunning, ReconcileRecord, ReleaseStaleLease,
              ReleaseStaleLock, ResetStaleTask, ReleaseStaleClaim, RecoveryDone
<1>2. CASE Enter(q) \/ Finally(q) \/ Crash(q) \/ Raise(q)
  BY <1>2 DEF Enter, Finally, NotEligible, TryLock, Locked, LeaseRefused,
              ReleaseLease, ReleaseLock, Crash, Raise
<1>3. CASE Choose(q)
  BY <1>3 DEF Choose, SelfHeal, SelectTask, Defer, NoTask, MarkInProgress
<1>4. CASE Build(q)
  BY <1>4 DEF Build, StartCall, CloseRecord, ConductorFails, Conducted, Claim, WorkFails,
              WorkPasses, IntegrationFails, Fail, GiveBack, Integrate, CleanupWorktree,
              MarkDone, StartCooling, InCall
<1> QED
  BY <1>1, <1>2, <1>3, <1>4, Moves DEF Step

LEMMA KeepsJob ==
    ASSUME TypeOK, [Next]_vars, NEW q \in Proc, InBody(q), InBody(q)'
    PROVE  job'[q] = job[q] \/ \E t \in Task : SelectTask(q, t)
<1> USE DEF TypeOK, Goto, Leave, InBody, Body
<1>1. CASE StartCycle(q) \/ Recovery(q) \/ Raise(q)
  BY <1>1 DEF StartCycle, Recovery, LeaveRunning, ReconcileRecord, ReleaseStaleLease,
              ReleaseStaleLock, ResetStaleTask, ReleaseStaleClaim, RecoveryDone, Raise
<1>2. CASE Enter(q) \/ Finally(q) \/ Crash(q)
  BY <1>2 DEF Enter, Finally, NotEligible, TryLock, Locked, TryLease, LeaseRefused,
              ReleaseLease, ReleaseLock, Crash
<1>3. CASE Choose(q)
  BY <1>3 DEF Choose, SelfHeal, Defer, NoTask, MarkInProgress
<1>4. CASE Build(q)
  BY <1>4 DEF Build, StartCall, CloseRecord, ConductorFails, Conducted, Claim, WorkFails,
              WorkPasses, IntegrationFails, Fail, GiveBack, Integrate, CleanupWorktree,
              MarkDone, StartCooling
<1> QED
  BY <1>1, <1>2, <1>3, <1>4, Moves DEF Step

\* Every step of the cycles is a step of the one builder, or none.
LEMMA ContractStep ==
    ASSUME MergesTell, IInv, IInv', MergedSettles, MergeInv, JobIdle, [Next]_vars
    PROVE  [Contract!Next]_(Contract!vars)
<1> USE DEF IInv
<1>1. OneCycle /\ OneCycle'
  BY DEF OneCycle, InBody, LockInv, LockHeld, LeaseHeld, Holding, Leasing
<1>2. ASSUME NEW p \in Proc, InBody(p)
      PROVE  theBuilder = p /\ theJob = job[p]
  <2>1. (CHOOSE q \in Proc : InBody(q)) = p
    BY <1>1, <1>2 DEF OneCycle
  <2> QED
    BY <1>2, <2>1 DEF theBuilder, theJob
<1>3. ASSUME NEW p \in Proc, InBody(p)'
      PROVE  theBuilder' = p /\ theJob' = job'[p]
  <2>1. (CHOOSE q \in Proc : InBody(q)') = p
    BY <1>1, <1>3 DEF OneCycle
  <2> QED
    BY <1>3, <2>1 DEF theBuilder, theJob
<1>4. (\A p \in Proc : ~InBody(p)) => theBuilder = None /\ theJob = None
  BY DEF theBuilder, theJob
<1>5. (\A p \in Proc : ~InBody(p)') => theBuilder' = None /\ theJob' = None
  BY DEF theBuilder, theJob
<1>6. merges' = merges => theBuilt' = theBuilt
  BY DEF theBuilt
<1>7. ASSUME NEW p \in Proc, Integrate(p)
      PROVE  InBody(p) /\ InBody(p)'
  BY <1>7 DEF Integrate, InBody, Body, Goto, TypeOK
<1>8. \A p \in Proc : InBody(p) => p # None
  BY CycleAssumption DEF CycleAssumption
<1>9. CASE \E p \in Proc : InBody(p) /\ InBody(p)'
  <2>1. PICK p \in Proc : InBody(p) /\ InBody(p)'
    BY <1>9
  <2>2. theBuilder = p /\ theBuilder' = p /\ theJob = job[p] /\ theJob' = job'[p]
    BY <1>2, <1>3, <2>1
  <2>3. ASSUME NEW t \in Task, SelectTask(p, t)
        PROVE  Contract!Take(t)
    <3>1. job[p] = None
      BY <2>3 DEF SelectTask, JobIdle, Working
    <3>2. job'[p] = t /\ merges' = merges
      BY <2>3 DEF SelectTask, taskVars, TypeOK
    <3>3. t \notin theBuilt
      BY <2>3 DEF SelectTask, Ready, theBuilt, MergedSettles
    <3>4. Deps[t] \subseteq theBuilt
      BY <2>3, CycleAssumption
      DEF SelectTask, Ready, theBuilt, MergeInv, DoneIsMerged, CycleAssumption
    <3> QED
      BY <1>6, <1>8, <2>1, <2>2, <3>1, <3>2, <3>3, <3>4
      DEF Contract!Take, theBuilder, theJob, theBuilt
  <2>4. CASE Integrate(p)
    <3>1. PICK u \in Task : u = job[p]
      BY <2>4 DEF Integrate, JobKnown, Working
    <3>2. u \notin theBuilt
      BY <2>4, <3>1 DEF Integrate, theBuilt, MergedSettles, Holds, WorksOn, Owning, Merged
    <3>3. job' = job /\ merges' = [merges EXCEPT ![u] = @ + 1] /\ merges[u] = 0
      BY <2>4, <3>1, <3>2 DEF Integrate, theBuilt, MergesTell, TypeOK
    <3>4. theBuilt' = theBuilt \cup {u}
      BY <3>3 DEF theBuilt, TypeOK
    <3>5. u # None
      BY CycleAssumption DEF CycleAssumption
    <3> QED
      BY <2>2, <3>1, <3>2, <3>3, <3>4, <3>5
      DEF Contract!Merge, Contract!Next, theBuilder, theJob, theBuilt
  <2>5. CASE job'[p] = job[p] /\ merges' = merges
    BY <1>6, <2>2, <2>5 DEF Contract!vars, theBuilder, theJob, theBuilt
  <2>6. ASSUME NEW q \in Proc, Integrate(q)
        PROVE  q = p
    BY <1>1, <1>7, <2>1, <2>6 DEF OneCycle
  <2> QED
    BY <2>1, <2>3, <2>4, <2>5, <2>6, KeepsJob, MergeWriters DEF Contract!Next
<1>10. CASE \E p \in Proc : ~InBody(p) /\ InBody(p)'
  <2>1. PICK p \in Proc : ~InBody(p) /\ InBody(p)'
    BY <1>10
  <2>2. TryLease(p)
    BY <2>1, EntersWithLease
  <2>3. \A q \in Proc : ~InBody(q)
    BY <2>1, <2>2 DEF TryLease, LockInv, LockHeld, Holding, InBody
  <2>4. job' = job /\ job[p] = None /\ merges' = merges
    BY <2>2 DEF TryLease, JobIdle, Working, taskVars
  <2> QED
    BY <1>3, <1>4, <1>6, <2>1, <2>3, <2>4
    DEF Contract!Next, Contract!Enter, theBuilder, theJob, theBuilt
<1>11. CASE (\A p \in Proc : ~InBody(p)) /\ (\A p \in Proc : ~InBody(p)')
  <2>1. merges' = merges
    BY <1>7, <1>11, MergeWriters
  <2> QED
    BY <1>4, <1>5, <1>6, <1>11, <2>1 DEF Contract!vars, theBuilder, theJob, theBuilt
<1>12. CASE (\E p \in Proc : InBody(p)) /\ (\A p \in Proc : ~InBody(p)')
  <2>1. PICK p \in Proc : InBody(p)
    BY <1>12
  <2>2. merges' = merges
    BY <1>7, <1>12, MergeWriters
  <2> QED
    BY <1>2, <1>5, <1>6, <1>8, <1>12, <2>1, <2>2
    DEF Contract!Next, Contract!Withdraw, theBuilder, theJob, theBuilt
<1> QED
  BY <1>9, <1>10, <1>11, <1>12

\* The cycles of one project, with their files, records and recoveries, are one
\* builder that takes a task whose dependencies are built and builds it once.
THEOREM CyclesMeetContract ==
    ASSUME Orderly, NoRedo, MergesTell PROVE Spec => MeetsContract
<1>1. Init => Contract!Init
  BY DEF Init, Contract!Init, InBody, Body
<1>2. Init => JobIdle /\ MergeInv
  BY DEF Init, JobIdle, MergeInv, DoneIsMerged, MarkedMerged, Merged
<1>3. IInv /\ JobIdle /\ MergeInv /\ [Next]_vars => JobIdle' /\ MergeInv'
  BY JobIdleKept, MergeKept DEF IInv
<1>4. IInv /\ IInv' /\ MergedSettles /\ MergeInv /\ JobIdle /\ [Next]_vars
          => [Contract!Next]_(Contract!vars)
  BY ContractStep
<1> QED
  BY <1>1, <1>2, <1>3, <1>4, InvHolds, MergedHolds, PTL
  DEF Spec, MeetsContract, Contract!Spec
=============================================================================
