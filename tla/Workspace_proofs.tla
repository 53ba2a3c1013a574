-------------------------- MODULE Workspace_proofs --------------------------
(***************************************************************************)
(* Theorems about the files of a project for every value of the constants: *)
(* what each part promises holds in every behaviour of all of them         *)
(* together.  Each part has a section, with the assumptions on its         *)
(* constants, its inductive invariant and the theorem.                     *)
(***************************************************************************)
EXTENDS Workspace, Integers, FiniteSetTheorems, SequenceTheorems, WellFoundedInduction, TLAPS

\* Each part goes its own way: a behaviour of all of them is one of each.
LEMMA EachOnItsOwn ==
    WorkspaceSpec => T!Spec /\ W!Spec /\ H!Spec /\ A!Spec /\ L!Spec
<1> USE DEF WorkspaceNext, wsvars, Contracts, Commits, Heals, Completes, Locks
<1>1. WorkspaceInit => T!Init /\ W!Init /\ H!Init /\ A!Init /\ L!Init
  BY DEF WorkspaceInit
<1>2. [WorkspaceNext]_wsvars => [T!Next]_(T!tvars)
  BY DEF tvars, T!tvars
<1>3. [WorkspaceNext]_wsvars => [W!Next]_(W!wvars)
  BY DEF wvars, W!wvars, W!taskVars, W!gitVars, W!cycleVars, W!orderVars, W!seenVars
<1>4. [WorkspaceNext]_wsvars => [H!Next]_(H!hvars)
  BY DEF hvars, H!hvars
<1>5. [WorkspaceNext]_wsvars => [A!Next]_(A!cvars)
  BY DEF avars, A!cvars
<1>6. [WorkspaceNext]_wsvars => [L!Next]_(L!vars)
  BY DEF lvars, L!vars
<1> QED
  BY <1>1, <1>2, <1>3, <1>4, <1>5, <1>6, PTL
     DEF WorkspaceSpec, T!Spec, W!Spec, H!Spec, A!Spec, L!Spec

-----------------------------------------------------------------------------
(***************************************************************************)
(* Natural numbers: induction, and functions defined by recursion.         *)
(***************************************************************************)
\* Of the indices at which something holds there is a first one.
LEMMA FirstIndex ==
    ASSUME NEW S \in SUBSET Nat, S # {}
    PROVE  \E i \in S : \A j \in S : i <= j
<1> DEFINE R == {ss \in Nat \X Nat : ss[1] < ss[2]}
<1>1. IsWellFoundedOn(R, Nat)
  BY NatLessThanWellFounded DEF OpToRel
<1>2. PICK x \in S : \A y \in S : <<y, x>> \notin R
  <2> HIDE DEF R
  <2> QED
    BY <1>1, WFMin
<1>3. ASSUME NEW y \in S PROVE x <= y
  <2>1. y < x => <<y, x>> \in R
    OBVIOUS
  <2> QED
    BY <2>1, <1>2
<1> QED
  BY <1>3

\* What is defined from one number to the next has a value at every number.
Stepwise(n, S, a, F) == n \in Nat /\ a \in S /\ F \in [1..n -> [S -> S]]
Follows(g, n, S, a, F) == /\ g \in [0..n -> S] /\ g[0] = a
                          /\ \A i \in 1..n : g[i] = F[i][g[i - 1]]

\* There is a function that is defined from one number to the next.
LEMMA RecursionExists ==
    ASSUME NEW n, NEW S, NEW a, NEW F, Stepwise(n, S, a, F)
    PROVE  \E g : Follows(g, n, S, a, F)
<1>0. n \in Nat /\ a \in S /\ F \in [1..n -> [S -> S]]
  BY DEF Stepwise
<1> DEFINE Upto(m) == \E g \in [0..m -> S] : g[0] = a /\ \A i \in 1..m : g[i] = F[i][g[i - 1]]
           Missing == {m \in 0..n : ~Upto(m)}
<1>1. Upto(0)
  <2>1. PICK g : g = [i \in 0..0 |-> a]
    OBVIOUS
  <2> QED
    BY <1>0, <2>1
<1>2. ASSUME NEW m \in 1..n, Upto(m - 1) PROVE Upto(m)
  <2>1. PICK g \in [0..(m - 1) -> S] : g[0] = a /\ \A i \in 1..(m - 1) : g[i] = F[i][g[i - 1]]
    BY <1>2
  <2>2. PICK y : y = F[m][g[m - 1]]
    OBVIOUS
  <2>3. y \in S
    BY <1>0, <2>1, <2>2
  <2>4. PICK h : h = [i \in 0..m |-> IF i = m THEN y ELSE g[i]]
    OBVIOUS
  <2>5. h \in [0..m -> S] /\ h[0] = a
    BY <2>1, <2>3, <2>4
  <2>6. ASSUME NEW i \in 1..m PROVE h[i] = F[i][h[i - 1]]
    <3>1. CASE i = m
      <4>1. i \in 0..m /\ i - 1 \in 0..m /\ i - 1 # m
        BY <3>1
      <4> QED
        BY <2>2, <2>4, <3>1, <4>1
    <3>2. CASE i # m
      <4>1. i \in 1..(m - 1) /\ i \in 0..m /\ i - 1 \in 0..m /\ i - 1 # m
        BY <3>2
      <4> QED
        BY <2>1, <2>4, <4>1
    <3> QED
      BY <3>1, <3>2
  <2> QED
    BY <2>5, <2>6
<1> HIDE DEF Upto
<1>3. Missing = {}
  <2>1. SUFFICES ASSUME Missing # {} PROVE FALSE
    OBVIOUS
  <2>2. PICK M : M = Missing
    OBVIOUS
  <2>3. M \in SUBSET Nat /\ M # {}
    BY <2>1, <2>2
  <2>4. PICK m \in M : \A k \in M : m <= k
    BY <2>3, FirstIndex
  <2>5. m \in 1..n /\ m - 1 \in 0..n /\ m - 1 \notin M
    BY <1>0, <1>1, <2>2, <2>4
  <2> QED
    BY <1>2, <2>2, <2>4, <2>5
<1>4. Upto(n)
  BY <1>0, <1>3
<1> QED
  BY <1>4 DEF Upto, Follows

\* What passes from one number to the next holds at every number.
LEMMA Induction ==
    ASSUME NEW n \in Nat, NEW S, NEW f, f[0] \in S, \A i \in 1..n : f[i - 1] \in S => f[i] \in S
    PROVE  \A i \in 0..n : f[i] \in S
<1>1. PICK odd : odd = {i \in 0..n : f[i] \notin S}
  OBVIOUS
<1>2. odd = {}
  <2>1. SUFFICES ASSUME odd # {} PROVE FALSE
    OBVIOUS
  <2>2. odd \in SUBSET Nat
    BY <1>1
  <2>3. PICK i \in odd : \A j \in odd : i <= j
    BY <2>1, <2>2, FirstIndex
  <2>4. i \in 1..n /\ i - 1 \in 0..n /\ i - 1 \notin odd
    BY <1>1, <2>3
  <2> QED
    BY <1>1, <2>3, <2>4
<1> QED
  BY <1>1, <1>2

-----------------------------------------------------------------------------
(***************************************************************************)
(* The lock and the lease.                                                 *)
(***************************************************************************)
\* No live process outlasts stale_seconds, and stale files are broken by one at a time.
Lockable == None \notin Proc /\ Env \cap {"overrun", "breakers"} = {}

\* The file belongs to the process that holds the lock; a stale one belongs to
\* a dead process, and stays until the only process that found it removes it.
FileIsHolders == \A p \in Proc : lPc[p] \in L!Locking => lFile = p
StaleIsDead   == lOld => lFile \in Proc /\ lPc[lFile] = "dead"
OneBreaker    == \A p, q \in Proc : lPc[p] \in L!Breaking /\ lPc[q] \in L!Breaking => p = q
StillStale    == \A p \in Proc : lPc[p] = "break" => lOld

LockInv == L!TypeOK /\ FileIsHolders /\ StaleIsDead /\ OneBreaker /\ StillStale

\* In the first state nobody has looked for the lock.
LEMMA InitLock == Lockable /\ L!Init => LockInv
  BY DEF L!Init, LockInv, L!TypeOK, FileIsHolders, StaleIsDead,
       OneBreaker, StillStale,
      L!Location, L!Locking, L!Breaking, Lockable

\* One step per action: whoever removes the file holds it, or found it stale.
LEMMA StepLock ==
    ASSUME Lockable, LockInv, [L!Next]_(L!vars)
    PROVE  LockInv'
<1> USE DEF Lockable, L!Goto, L!Location, L!Locking, L!Breaking, L!Alive
<1>1. ASSUME NEW p \in Proc, L!Create(p)
      PROVE  LockInv'
  BY <1>1 DEF L!Create, LockInv, L!TypeOK, FileIsHolders, StaleIsDead,
       OneBreaker, StillStale
<1>2. ASSUME NEW p \in Proc, L!Exists(p)
      PROVE  LockInv'
  BY <1>2 DEF L!Exists, LockInv, L!TypeOK, FileIsHolders, StaleIsDead,
       OneBreaker, StillStale
<1>3. ASSUME NEW p \in Proc, L!Stat(p)
      PROVE  LockInv'
  BY <1>3 DEF L!Stat, L!Stale, LockInv, L!TypeOK, FileIsHolders, StaleIsDead,
       OneBreaker, StillStale
<1>4. ASSUME NEW p \in Proc, L!Break(p)
      PROVE  LockInv'
  BY <1>4 DEF L!Break, LockInv, L!TypeOK, FileIsHolders, StaleIsDead,
       OneBreaker, StillStale
<1>5a. ASSUME NEW p \in Proc, L!Look(p)
      PROVE  LockInv'
  BY <1>5a DEF L!Look, L!Holder, LockInv, L!TypeOK, FileIsHolders, StaleIsDead,
       OneBreaker, StillStale
<1>5b. ASSUME NEW p \in Proc, L!Acquire(p)
      PROVE  LockInv'
  BY <1>5b DEF L!Acquire, LockInv, L!TypeOK, FileIsHolders, StaleIsDead,
       OneBreaker, StillStale
<1>5c. ASSUME NEW p \in Proc, L!Finish(p)
      PROVE  LockInv'
  BY <1>5c DEF L!Finish, L!Holder, LockInv, L!TypeOK, FileIsHolders, StaleIsDead,
       OneBreaker, StillStale
<1>5d. ASSUME NEW p \in Proc, L!Unlease(p)
      PROVE  LockInv'
  BY <1>5d DEF L!Unlease, LockInv, L!TypeOK, FileIsHolders, StaleIsDead,
       OneBreaker, StillStale
<1>6. ASSUME NEW p \in Proc, L!Refuse(p) \/ L!Unlock(p)
      PROVE  LockInv'
  BY <1>6, ZenonT(60) DEF L!Refuse, L!Unlock, LockInv, L!TypeOK, FileIsHolders,
      StaleIsDead, OneBreaker,
              StillStale
<1>7. ASSUME NEW p \in Proc, L!Crash(p)
      PROVE  LockInv'
  BY <1>7 DEF L!Crash, LockInv, L!TypeOK, FileIsHolders, StaleIsDead,
       OneBreaker, StillStale
<1>8a. ASSUME L!FileAges
       PROVE  LockInv'
  <2>1. lFile \in Proc /\ lPc[lFile] = "dead" /\ UNCHANGED <<lPc, lFile, lease, late, seen>>
    BY <1>8a DEF L!FileAges, LockInv, L!TypeOK
  <2>2. L!TypeOK'
    BY <1>8a, <2>1 DEF L!FileAges, LockInv, L!TypeOK
  <2> QED
    BY <1>8a, <2>1, <2>2
    DEF L!FileAges, LockInv, FileIsHolders, StaleIsDead,
       OneBreaker, StillStale
<1>8b. ASSUME L!LeaseExpires
       PROVE  LockInv'
  <2>1. L!TypeOK'
    BY <1>8b DEF L!LeaseExpires, LockInv, L!TypeOK
  <2> QED
    BY <1>8b, <2>1
    DEF L!LeaseExpires, LockInv, FileIsHolders, StaleIsDead,
       OneBreaker, StillStale
<1>9. ASSUME UNCHANGED L!vars
      PROVE  LockInv'
  BY <1>9 DEF L!vars, LockInv, L!TypeOK, FileIsHolders, StaleIsDead,
       OneBreaker, StillStale
<1> QED
  BY <1>1, <1>2, <1>3, <1>4, <1>5a, <1>5b, <1>5c, <1>5d, <1>6, <1>7,
     <1>8a, <1>8b, <1>9 DEF L!Next, L!Step

\* A lock file says who holds the lock, unless it is stale, in every state.
LEMMA LockHolds == Lockable /\ WorkspaceSpec => []LockInv
<1> SUFFICES ASSUME Lockable
             PROVE  WorkspaceSpec => []LockInv
  OBVIOUS
<1>1. L!Init => LockInv
  BY InitLock
<1>2. LockInv /\ [L!Next]_(L!vars) => LockInv'
  BY StepLock
<1> QED
  BY <1>1, <1>2, EachOnItsOwn, PTL DEF L!Spec

\* At most one process is between ProjectLease.acquire and the finally of run_cycle, if no live
\* process outlasts stale_seconds and stale files are broken by one process at a time
\* (core/project.py:406-423).
THEOREM FileExclusion == Lockable /\ WorkspaceSpec => []OneInside
<1>1. LockInv => OneInside
  BY DEF LockInv, FileIsHolders, OneInside, L!OneInside, L!Inside, L!Locking
<1> QED
  BY <1>1, LockHolds, PTL

\* The lock and lease files implement the abstract mutex: every step of the
\* files is a step of the mutex or leaves its holder alone.
THEOREM FilesAreMutex == Lockable /\ WorkspaceSpec => IsMutex
<1> SUFFICES ASSUME Lockable
             PROVE  WorkspaceSpec => IsMutex
  OBVIOUS
<1> DEFINE holder == IF \E p \in Proc : L!Inside(p) THEN CHOOSE p \in Proc : L!Inside(p) ELSE None
<1>1. L!Init => L!Exclusive!Init
  BY DEF L!Init, L!Exclusive!Init, L!Inside
<1>2. LockInv /\ LockInv' /\ [L!Next]_(L!vars) => [L!Exclusive!Next]_holder
  <2> SUFFICES ASSUME LockInv, LockInv', [L!Next]_(L!vars)
               PROVE  [L!Exclusive!Next]_holder
    OBVIOUS
  <2>a. L!OneInside /\ L!OneInside'
    BY DEF LockInv, FileIsHolders, L!OneInside, L!Inside, L!Locking
  <2>1. ASSUME NEW p \in Proc, L!Inside(p)
        PROVE  holder = p
    BY <2>1, <2>a DEF L!OneInside
  <2>2. ASSUME NEW p \in Proc, L!Inside(p)'
        PROVE  holder' = p
    BY <2>2, <2>a DEF L!OneInside
  <2>3. ASSUME \A p \in Proc : ~L!Inside(p)
        PROVE  holder = None
    BY <2>3
  <2>4. ASSUME \A p \in Proc : ~L!Inside(p)'
        PROVE  holder' = None
    BY <2>4
  <2> HIDE DEF holder
  <2>5. CASE \E p \in Proc : L!Inside(p) /\ L!Inside(p)'
    <3> PICK p \in Proc : L!Inside(p) /\ L!Inside(p)'
      BY <2>5
    <3> QED
      BY <2>1, <2>2
  <2>6. CASE (\A p \in Proc : ~L!Inside(p)) /\ (\A p \in Proc : ~L!Inside(p)')
    BY <2>6, <2>3, <2>4
  <2>7. CASE \E p \in Proc : ~L!Inside(p) /\ L!Inside(p)'
    <3> PICK p \in Proc : ~L!Inside(p) /\ L!Inside(p)'
      BY <2>7
    <3>1. lFile = p /\ lPc[p] = "acquire"
      BY DEF Lockable, LockInv, L!TypeOK, FileIsHolders, L!Inside, L!Locking, L!Next,
          L!Step, L!vars, L!Goto,
          L!Create, L!Exists, L!Stat, L!Break, L!Look, L!Acquire, L!Refuse, L!Finish, L!Unlease,
          L!Unlock, L!Crash,
          L!FileAges, L!LeaseExpires
    <3>2. \A q \in Proc : ~L!Inside(q)
      BY <3>1 DEF LockInv, FileIsHolders, L!Inside, L!Locking
    <3> QED
      BY <3>2, <2>2, <2>3 DEF L!Exclusive!Next, L!Exclusive!Acquire
  <2>8. CASE (\E p \in Proc : L!Inside(p)) /\ (\A p \in Proc : ~L!Inside(p)')
    <3> PICK p \in Proc : L!Inside(p)
      BY <2>8
    <3>1. holder = p /\ holder' = None
      BY <2>1, <2>4, <2>8
    <3> QED
      BY <3>1, Lockable DEF L!Exclusive!Next, L!Exclusive!Release, Lockable, holder
  <2> QED
    BY <2>5, <2>6, <2>7, <2>8
<1> QED
  BY <1>1, <1>2, LockHolds, EachOnItsOwn, PTL DEF L!Spec, IsMutex, L!IsMutex, L!Exclusive!Spec

-----------------------------------------------------------------------------
(***************************************************************************)
(* Completion.                                                             *)
(***************************************************************************)
\* Every task has a place in the order of the backlog; a start that wrote the backlog writes the
\* rest before anything looks at it, and the contract of an audit can be built.
Ordered == /\ TaskOrder \in Seq(Task)
           /\ \A t \in Task : \E i \in DOMAIN TaskOrder : TaskOrder[i] = t
           /\ {"late_death", "start_overlaps", "contract_error"} \cap Env = {}

SchedFile == [state : {"idle", "running", "cooling", "complete"},
              project : {"none", "in_progress", "blocked_on_human", "audit_failed", "complete"}]
AuditSteps == {"loaded", "looked", "traced", "passed", "failed"}
AuditRecord == [step : AuditSteps, copy : SchedFile, facts : BOOLEAN, contract : BOOLEAN]

\* What scheduler.json, a cycle and an audit hold; a cycle that works has a task in progress.
FilesTyped ==
    /\ sched \in SchedFile /\ startCopy \in SchedFile
    /\ written \in 0..A!Started /\ starter \in {"none", "alive", "gone"}
    /\ aStatus \in [Task -> {"pending", "in_progress", "done", "blocked", "abandoned"}]
    /\ cycle # None => /\ cycle \in [task : Task, step : {"working", "settled"}, copy : SchedFile]
                       /\ cycle.step = "working" => aStatus[cycle.task] = "in_progress"
    /\ audits \in [A!Auditor -> AuditRecord \cup {None}]

\* Before a start has written all of its files nothing was worked on.
StartInv ==
    /\ starter = "gone" => written = A!Started
    /\ starter = "none" => written < 4
    /\ starter # "gone" => /\ cycle = None /\ audits["cycle"] = None
                           /\ aStatus = [t \in Task |-> "pending"]
                           /\ sched.state = "idle" /\ startCopy.state = "idle"
                           /\ \A who \in A!Auditor :
                                  audits[who] # None => audits[who].copy.state = "idle"

\* What an audit has found stays true, so what it saves is.
Facts  == starter = "gone" /\ A!FactsHold
Earned == Facts /\ \A r \in A!Requirements : A!Verified(r)
AuditInv ==
    /\ sched.state = "complete" => Earned
    /\ \A who \in A!Auditor : audits[who] # None =>
           /\ audits[who].copy.state = "complete" => Earned
           /\ audits[who].facts => Facts
           /\ audits[who].facts /\ audits[who].contract => Earned
           /\ audits[who].step \in {"loaded", "looked"} => ~audits[who].contract
           /\ audits[who].step = "passed" => audits[who].facts /\ audits[who].contract

EndInv == FilesTyped /\ StartInv /\ AuditInv

\* The start writes its files in an order: the backlog is there before the criteria.
LEMMA WrittenFiles ==
    /\ A!Exists <=> 4 <= written
    /\ A!Written("acceptance-criteria.yaml") <=> 5 <= written
    /\ A!Started = 10
<1>1. /\ A!Files = <<"PROJECT.md", "architecture.md", "milestones.yaml", "backlog.yaml",
                     "acceptance-criteria.yaml", "decisions.yaml", "blockers.yaml",
                     "progress.yaml">>
      /\ Len(A!Files) = 8 /\ DOMAIN A!Files = 1..8
  BY DEF A!Files
<1>2. \A i \in 1..8 : /\ A!Files[i] = "backlog.yaml" <=> i = 4
                    /\ A!Files[i] = "acceptance-criteria.yaml" <=> i = 5
  BY DEF A!Files
<1> QED
  BY <1>1, <1>2 DEF A!Exists, A!Written, A!Started

\* next_task names a task that is ready.
LEMMA NextIsReady ==
    ASSUME Ordered
    PROVE  /\ A!NextTask # None => A!NextTask \in Task /\ A!Ready(A!NextTask)
           /\ (\A t \in Task : ~A!Ready(t)) => A!NextTask = None
<1> DEFINE S == {i \in DOMAIN TaskOrder : A!Ready(TaskOrder[i])}
           First(i) == A!Ready(TaskOrder[i]) /\ \A j \in 1..(i - 1) : ~A!Ready(TaskOrder[j])
<1>1. DOMAIN TaskOrder = 1..Len(TaskOrder) /\ Len(TaskOrder) \in Nat
      /\ \A i \in DOMAIN TaskOrder : TaskOrder[i] \in Task
  BY DEF Ordered
<1>2. ASSUME NEW t \in Task, A!Ready(t)
      PROVE  A!NextTask \in Task /\ A!Ready(A!NextTask)
  <2>1. S # {} /\ S \in SUBSET Nat
    BY <1>1, <1>2 DEF Ordered
  <2>2. PICK i \in S : \A j \in S : i <= j
    BY <2>1, FirstIndex
  <2>3. i \in DOMAIN TaskOrder /\ First(i)
    <3>1. ASSUME NEW j \in 1..(i - 1), A!Ready(TaskOrder[j]) PROVE FALSE
      <4>1. j \in S
        BY <1>1, <2>2, <3>1
      <4> QED
        BY <4>1, <2>2, <1>1
    <3> QED
      BY <2>2, <3>1
  <2> DEFINE k == CHOOSE x \in DOMAIN TaskOrder : First(x)
  <2>4. k \in DOMAIN TaskOrder /\ First(k)
    <3> HIDE DEF First
    <3> QED
      BY <2>3
  <2>5. A!NextTask = TaskOrder[k]
    BY <1>2 DEF A!NextTask
  <2> QED
    BY <2>4, <2>5, <1>1
<1> QED
  BY <1>2 DEF A!NextTask

\* Once an audit has seen that everything is settled, no start, cycle or edit changes it.
LEMMA FactsStay ==
    ASSUME Ordered, EndInv, A!Next, Facts
    PROVE  UNCHANGED <<aStatus, aBlockers, starter, written>> /\ aProven \subseteq aProven'
<1> USE DEF EndInv, Facts
<1>1. A!BacklogComplete /\ aBlockers = {} /\ starter = "gone" /\ A!Exists
  BY WrittenFiles DEF A!FactsHold, StartInv
<1>2. \A t \in Task : ~A!Ready(t) /\ aStatus[t] \notin {"pending", "blocked", "in_progress"}
  BY <1>1 DEF A!BacklogComplete, A!Ready
<1>3. A!NextTask = None
  BY <1>2, NextIsReady
<1>4. cycle # None => cycle.step # "working"
  BY <1>2 DEF FilesTyped
<1>5. ~A!ProjectStart /\ ~A!WriteFile /\ ~A!InProgress /\ ~A!AskHuman /\ ~A!StartDies
  BY <1>1 DEF A!ProjectStart, A!WriteFile, A!InProgress, A!AskHuman, A!StartDies
<1>6. ~A!BeginCycle /\ ~A!Settle
  BY <1>3, <1>4 DEF A!BeginCycle, A!Settle
<1>7. (\A b \in aBlockers : ~A!Lift(b)) /\ (\A t \in Task : ~A!Abandon(t))
  BY <1>1, <1>2 DEF A!Abandon
<1> QED
  BY <1>5, <1>6, <1>7
     DEF A!Next, A!EndCycle, A!NoTask, A!Prove, A!ReviewByHand, A!LookAtFacts, A!LookAtContract,
         A!Reviewed, A!SaveVerdict

\* What completion rests on stays true.
LEMMA EarnedStays ==
    ASSUME Ordered, EndInv, A!Next
    PROVE  (Facts => Facts') /\ (Earned => Earned')
<1>1. ASSUME Facts PROVE Facts'
  BY <1>1, FactsStay DEF Facts, A!FactsHold, A!BacklogComplete, A!MilestoneDone
<1>2. ASSUME Earned, NEW r \in A!Requirements PROVE A!Verified(r)'
  BY <1>2, FactsStay DEF Earned, A!Verified, A!TasksDone
<1> QED
  BY <1>1, <1>2 DEF Earned, A!Requirements

\* A project begins without files, and nobody audits it.
LEMMA EndInit == ASSUME Ordered, A!Init PROVE EndInv
<1>1. FilesTyped
  BY WrittenFiles DEF A!Init, FilesTyped, SchedFile
<1>2. StartInv
  BY DEF A!Init, StartInv, A!Auditor
<1>3. AuditInv
  BY DEF A!Init, AuditInv, A!Auditor
<1> QED
  BY <1>1, <1>2, <1>3 DEF EndInv

\* Files and audits keep their types.
LEMMA EndTyped == ASSUME Ordered, EndInv, A!Next PROVE FilesTyped'
<1> USE DEF EndInv, FilesTyped
<1>1. CASE A!ProjectStart
  BY <1>1, WrittenFiles DEF A!ProjectStart
<1>2. CASE A!WriteFile
  BY <1>2, WrittenFiles DEF A!WriteFile, A!Files
<1>3. CASE A!InProgress
  BY <1>3, WrittenFiles DEF A!InProgress, A!Files, SchedFile
<1>4. CASE A!AskHuman
  BY <1>4, WrittenFiles DEF A!AskHuman, A!Files
<1>5. CASE A!StartDies
  BY <1>5 DEF A!StartDies
<1>6. CASE A!BeginCycle
  <2>1. A!NextTask \in Task
    BY <1>6, NextIsReady DEF A!BeginCycle
  <2>2. sched' \in SchedFile
    BY <1>6 DEF A!BeginCycle, SchedFile
  <2>3. aStatus'[A!NextTask] = "in_progress"
    BY <1>6, <2>1 DEF A!BeginCycle
  <2> HIDE DEF SchedFile
  <2> QED
    BY <1>6, <2>1, <2>2, <2>3 DEF A!BeginCycle
<1>7. CASE A!Settle
  BY <1>7 DEF A!Settle
<1>8. CASE A!EndCycle
  BY <1>8 DEF A!EndCycle, SchedFile
<1>9. CASE A!NoTask
  <2>1. sched' \in SchedFile
    BY <1>9 DEF A!NoTask, SchedFile
  <2>2. audits' \in [A!Auditor -> AuditRecord \cup {None}]
    <3> DEFINE new == [step |-> "loaded", copy |-> sched, facts |-> FALSE, contract |-> FALSE]
    <3>1. new \in AuditRecord
      BY DEF AuditRecord, AuditSteps
    <3>2. audits' = audits \/ audits' = [audits EXCEPT !["cycle"] = new]
      BY <1>9 DEF A!NoTask
    <3> HIDE DEF new
    <3> QED
      BY <3>1, <3>2 DEF A!Auditor
  <2> QED
    BY <1>9, <2>1, <2>2 DEF A!NoTask
<1>10. CASE \E b \in aBlockers : A!Lift(b)
  BY <1>10 DEF A!Lift, A!Idle
<1>11. CASE \E t \in Task : A!Abandon(t)
  BY <1>11 DEF A!Abandon, A!Idle
<1>12. CASE \E c \in A!Capability : A!Prove(c)
  BY <1>12 DEF A!Prove
<1>13. CASE A!ReviewByHand
  BY <1>13 DEF A!ReviewByHand, AuditRecord, A!Auditor, AuditSteps
<1>14. ASSUME NEW who \in A!Auditor, A!LookAtFacts(who) PROVE FilesTyped'
  <2>1. audits[who] \in AuditRecord
    BY <1>14 DEF A!LookAtFacts, A!Audit
  <2>2. audits'[who] \in AuditRecord
    BY <1>14, <2>1 DEF A!LookAtFacts, AuditRecord, AuditSteps, A!FactsHold, A!BacklogComplete
  <2> QED
    BY <1>14, <2>2 DEF A!LookAtFacts
<1>15. ASSUME NEW who \in A!Auditor, A!LookAtContract(who) PROVE FilesTyped'
  <2>1. audits[who] \in AuditRecord
    BY <1>15 DEF A!LookAtContract, A!Audit
  <2>2. PICK b \in BOOLEAN : audits' = [audits EXCEPT ![who].step = "traced", ![who].contract = b]
    <3>1. PICK green \in BOOLEAN, raised \in BOOLEAN :
             audits' = [audits EXCEPT ![who].step = "traced",
                                      ![who].contract = green /\ (raised \/ A!ContractComplete)]
      BY <1>15 DEF A!LookAtContract
    <3>2. PICK b : b = (green /\ (raised \/ A!ContractComplete))
      OBVIOUS
    <3>3. b \in BOOLEAN
      BY <3>2
    <3> QED
      BY <3>1, <3>2, <3>3
  <2>3. audits'[who] \in AuditRecord
    BY <2>1, <2>2 DEF AuditRecord, AuditSteps
  <2> QED
    BY <1>15, <2>2, <2>3 DEF A!LookAtContract
<1>16. ASSUME NEW who \in A!Auditor, A!Reviewed(who) PROVE FilesTyped'
  <2>1. audits[who] \in AuditRecord
    BY <1>16 DEF A!Reviewed, A!Audit
  <2>2. audits'[who] \in AuditRecord
    BY <1>16, <2>1 DEF A!Reviewed, AuditRecord, AuditSteps
  <2> QED
    BY <1>16, <2>2 DEF A!Reviewed
<1>17. ASSUME NEW who \in A!Auditor, A!SaveVerdict(who) PROVE FilesTyped'
  BY <1>17 DEF A!SaveVerdict, A!Audit, AuditRecord, SchedFile
<1> QED
  BY <1>1, <1>2, <1>3, <1>4, <1>5, <1>6, <1>7, <1>8, <1>9, <1>10, <1>11, <1>12, <1>13, <1>14,
     <1>15, <1>16, <1>17 DEF A!Next

\* The start writes what it says, also when it is repeated.
LEMMA StartNext == ASSUME Ordered, EndInv, A!Next PROVE StartInv'
<1> USE DEF EndInv, FilesTyped, StartInv, A!Auditor
<1>1. CASE A!ProjectStart
  BY <1>1 DEF A!ProjectStart
<1>2. CASE A!WriteFile
  BY <1>2, WrittenFiles DEF A!WriteFile, A!Files
<1>3. CASE A!InProgress
  BY <1>3, WrittenFiles DEF A!InProgress, A!Files, SchedFile
<1>4. CASE A!AskHuman
  BY <1>4, WrittenFiles DEF A!AskHuman, A!Files
<1>5. CASE A!StartDies
  BY <1>5, WrittenFiles DEF A!StartDies, Ordered
<1>6. ASSUME A!Idle PROVE starter = "gone"
  BY <1>6, WrittenFiles DEF A!Idle, Ordered
<1>7. CASE \/ A!BeginCycle \/ A!NoTask \/ (\E b \in aBlockers : A!Lift(b))
           \/ \E t \in Task : A!Abandon(t)
  BY <1>6, <1>7 DEF A!BeginCycle, A!NoTask, A!Lift, A!Abandon
<1>8. CASE A!Settle \/ A!EndCycle \/ \E c \in A!Capability : A!Prove(c)
  BY <1>8 DEF A!Settle, A!EndCycle, A!Prove
<1>9. CASE A!ReviewByHand
  BY <1>9 DEF A!ReviewByHand
<1>10. ASSUME NEW who \in A!Auditor, A!LookAtFacts(who) PROVE StartInv'
  BY <1>10 DEF A!LookAtFacts, A!Audit, AuditRecord
<1>11. ASSUME NEW who \in A!Auditor, A!LookAtContract(who) PROVE StartInv'
  BY <1>11 DEF A!LookAtContract, A!Audit, AuditRecord
<1>12. ASSUME NEW who \in A!Auditor, A!Reviewed(who) PROVE StartInv'
  BY <1>12 DEF A!Reviewed, A!Audit, AuditRecord
<1>13. ASSUME NEW who \in A!Auditor, A!SaveVerdict(who) PROVE StartInv'
  <2>1. starter # "gone" => ~A!Audit(who, "passed")
    <3>1. ASSUME starter # "gone", A!Audit(who, "passed") PROVE FALSE
      BY <3>1 DEF AuditInv, Facts, A!Audit
    <3> QED
      BY <3>1
  <2> QED
    BY <1>13, <2>1 DEF A!SaveVerdict, A!Audit, AuditRecord, SchedFile
<1> QED
  BY <1>1, <1>2, <1>3, <1>4, <1>5, <1>7, <1>8, <1>9, <1>10, <1>11, <1>12, <1>13 DEF A!Next

\* An audit that has got somewhere has seen the facts.
LEMMA AuditNext == ASSUME Ordered, EndInv, A!Next PROVE AuditInv'
<1> USE DEF EndInv, FilesTyped
<1>0. (Facts => Facts') /\ (Earned => Earned')
  BY EarnedStays
<1>1. CASE UNCHANGED <<audits, sched>>
  BY <1>0, <1>1 DEF AuditInv
<1>2. CASE A!InProgress
  BY <1>0, <1>2 DEF A!InProgress, AuditInv, StartInv, SchedFile
<1>3. CASE A!BeginCycle
  BY <1>0, <1>3 DEF A!BeginCycle, AuditInv, SchedFile
<1>4. CASE A!EndCycle
  BY <1>0, <1>4 DEF A!EndCycle, AuditInv, SchedFile
<1>5. CASE A!NoTask
  BY <1>0, <1>5 DEF A!NoTask, A!Idle, AuditInv, SchedFile, A!Auditor
<1>6. CASE A!ReviewByHand
  BY <1>0, <1>6 DEF A!ReviewByHand, AuditInv, A!Auditor
<1>7. ASSUME NEW who \in A!Auditor, A!LookAtFacts(who) PROVE AuditInv'
  <2>1. audits[who] \in AuditRecord /\ audits[who].step = "loaded"
    BY <1>7 DEF A!LookAtFacts, A!Audit
  <2>2. A!FactsHold => Facts
    BY WrittenFiles DEF Facts, A!FactsHold, A!BacklogComplete, StartInv
  <2>3. /\ audits'[who].facts = A!FactsHold /\ audits'[who].contract = audits[who].contract
        /\ audits'[who].step = "looked" /\ audits'[who].copy = audits[who].copy
        /\ \A a \in A!Auditor : a # who => audits'[a] = audits[a]
        /\ sched' = sched
    BY <1>7, <2>1 DEF A!LookAtFacts, AuditRecord
  <2> QED
    BY <1>0, <1>7, <2>1, <2>2, <2>3 DEF AuditInv, A!Audit, A!LookAtFacts
<1>8. ASSUME NEW who \in A!Auditor, A!LookAtContract(who) PROVE AuditInv'
  <2>1. audits[who] \in AuditRecord /\ audits[who].step = "looked" /\ audits[who] # None
    BY <1>8 DEF A!LookAtContract, A!Audit
  <2>2. PICK green \in BOOLEAN :
           audits' = [audits EXCEPT ![who].step = "traced",
                                    ![who].contract = green /\ A!ContractComplete]
    <3>1. PICK green \in BOOLEAN, raised \in BOOLEAN :
             /\ raised => "contract_error" \in Env
             /\ audits' = [audits EXCEPT ![who].step = "traced",
                             ![who].contract = green /\ (raised \/ A!ContractComplete)]
      BY <1>8 DEF A!LookAtContract
    <3>2. ~raised
      BY <3>1 DEF Ordered
    <3>3. (green /\ (raised \/ A!ContractComplete)) = (green /\ A!ContractComplete)
      BY <3>2
    <3> QED
      BY <3>1, <3>3
  <2>3. /\ audits'[who].facts = audits[who].facts
        /\ audits'[who].contract = (green /\ A!ContractComplete)
        /\ audits'[who].step = "traced" /\ audits'[who].copy = audits[who].copy
        /\ \A a \in A!Auditor : a # who => audits'[a] = audits[a]
        /\ sched' = sched
    BY <1>8, <2>1, <2>2 DEF A!LookAtContract, AuditRecord
  <2>4. Facts /\ A!ContractComplete => Earned
    BY WrittenFiles DEF Facts, Earned, StartInv, A!ContractComplete
  <2>5. /\ audits'[who].copy.state = "complete" => Earned'
        /\ audits'[who].facts => Facts'
        /\ audits'[who].facts /\ audits'[who].contract => Earned'
    BY <1>0, <2>1, <2>3, <2>4 DEF AuditInv
  <2>6. ASSUME NEW a \in A!Auditor, a # who, audits[a] # None
        PROVE  /\ audits[a].copy.state = "complete" => Earned'
               /\ audits[a].facts => Facts'
               /\ audits[a].facts /\ audits[a].contract => Earned'
               /\ audits[a].step \in {"loaded", "looked"} => ~audits[a].contract
               /\ audits[a].step = "passed" => audits[a].facts /\ audits[a].contract
    BY <1>0, <2>6 DEF AuditInv
  <2>7. sched.state = "complete" => Earned'
    BY <1>0 DEF AuditInv
  <2> QED
    BY <2>3, <2>5, <2>6, <2>7 DEF AuditInv
<1>9. ASSUME NEW who \in A!Auditor, A!Reviewed(who) PROVE AuditInv'
  <2>1. audits[who] \in AuditRecord /\ audits[who].step = "traced" /\ audits[who] # None
    BY <1>9 DEF A!Reviewed, A!Audit
  <2>2. /\ audits'[who].facts = audits[who].facts
        /\ audits'[who].contract = audits[who].contract
        /\ audits'[who].step \in {"passed", "failed"} /\ audits'[who].copy = audits[who].copy
        /\ audits'[who].step = "passed" => audits[who].facts /\ audits[who].contract
        /\ \A a \in A!Auditor : a # who => audits'[a] = audits[a]
        /\ sched' = sched
    BY <1>9, <2>1 DEF A!Reviewed, AuditRecord
  <2> QED
    BY <1>0, <1>9, <2>1, <2>2 DEF AuditInv
<1>10. ASSUME NEW who \in A!Auditor, A!SaveVerdict(who) PROVE AuditInv'
  <2>1. audits[who] \in AuditRecord /\ audits[who] # None
    BY <1>10 DEF A!SaveVerdict, A!Audit
  <2>2. sched'.state = "complete" => Earned
    BY <1>10, <2>1 DEF A!SaveVerdict, A!Audit, AuditInv, AuditRecord, SchedFile
  <2> QED
    BY <1>0, <1>10, <2>1, <2>2 DEF A!SaveVerdict, AuditInv
<1> QED
  BY <1>1, <1>2, <1>3, <1>4, <1>5, <1>6, <1>7, <1>8, <1>9, <1>10
     DEF A!Next, A!ProjectStart, A!WriteFile, A!AskHuman, A!StartDies, A!Settle,
         A!Lift, A!Abandon, A!Prove

\* A project that is complete has every requirement verified, every milestone done and nobody
\* waiting, whatever audits run by hand beside cycles and whatever copies of scheduler.json
\* are saved late, as long as a start neither dies after the backlog nor overlaps a cycle and the
\* contract of an audit can be built, without which an empty one is taken
\* (project.py final_audit, completion.py build_completion_contract).
THEOREM CompletionIsEarned == Ordered /\ WorkspaceSpec => []CompletionEarned
<1> SUFFICES ASSUME Ordered PROVE WorkspaceSpec => []CompletionEarned
  OBVIOUS
<1>1. A!Init => EndInv
  BY EndInit
<1>2. EndInv /\ [A!Next]_(A!cvars) => EndInv'
  <2> SUFFICES ASSUME EndInv, [A!Next]_(A!cvars) PROVE EndInv'
    OBVIOUS
  <2>1. CASE A!Next
    BY <2>1, EndTyped, StartNext, AuditNext DEF EndInv
  <2>2. CASE UNCHANGED A!cvars
    BY <2>2 DEF A!cvars, EndInv, FilesTyped, StartInv, AuditInv, Facts, Earned, A!FactsHold,
       A!BacklogComplete, A!MilestoneDone, A!Verified, A!TasksDone, A!Requirements
  <2> QED
    BY <2>1, <2>2
<1>3. EndInv => CompletionEarned
  <2> SUFFICES ASSUME EndInv PROVE CompletionEarned
    OBVIOUS
  <2>1. A!TypeOK
    BY DEF EndInv, FilesTyped, A!TypeOK, SchedFile
  <2>2. A!CompletionEarned
    BY DEF EndInv, AuditInv, Earned, Facts, A!CompletionEarned, A!Verified,
           A!TasksDone, A!FactsHold,
       A!Requirements
  <2> QED
    BY <2>1, <2>2 DEF CompletionEarned
<1> QED
  BY <1>1, <1>2, <1>3, EachOnItsOwn, PTL DEF A!Spec

-----------------------------------------------------------------------------
(***************************************************************************)
(* The contract of a task.                                                 *)
(***************************************************************************)
\* The paths that outputs require are among those that matter.
Contracted == Repairs \in Nat /\ Rounds \in Nat /\ \A e \in Output : e.path \in Path

Phases == {"idle", "preflight", "work", "gate", "merge", "done"}

ContractInv ==
    /\ phase \in Phases /\ outputs \subseteq Output
    /\ tree \in [Path -> T!Content] /\ base = [p \in Path |-> "none"]
    /\ attempts \in 0..Repairs + 1 /\ rounds \in 0..Rounds /\ bad \in BOOLEAN
    /\ phase \in {"preflight", "work", "gate"} => attempts <= Repairs
    \* What is kept from an earlier cycle, and what is handed in, is within the order.
    /\ phase \in {"preflight", "gate", "merge"} => T!Violations(order, T!Changed) = {}
    /\ phase = "merge" => T!GateOk
    /\ T!MergedMeetsContract
    /\ T!CallsAreWorthwhile

\* What contents there are, and which of them are files.
LEMMA ContractTypes ==
    /\ T!Content = {"none", "empty", "text", "broken", "dir"}
    /\ \A c \in T!Content : T!IsFile(c) <=> c \in {"empty", "text", "broken"}
    /\ ContractInv => T!Changed = {p \in Path : T!IsFile(tree[p])}
  BY DEF T!Content, T!IsFile, T!Changed, ContractInv

\* Before the work order there is no contract.
LEMMA ContractInit == Contracted /\ T!Init => ContractInv
<1> SUFFICES ASSUME Contracted, T!Init PROVE ContractInv
  OBVIOUS
<1>1. phase = "idle" /\ outputs \subseteq Output
  BY DEF T!Init
<1>2. /\ tree \in [Path -> T!Content] /\ base = [p \in Path |-> "none"] /\ bad \in BOOLEAN
      /\ attempts \in 0..Repairs + 1 /\ rounds \in 0..Rounds
  <2>1. base = [p \in Path |-> "none"] /\ tree = base /\ bad \in BOOLEAN
    BY DEF T!Init
  <2>2. tree \in [Path -> T!Content]
    BY <2>1 DEF T!Content
  <2>3. attempts = 0 /\ rounds = 0
    BY DEF T!Init
  <2> QED
    BY <2>1, <2>2, <2>3 DEF Contracted
<1> QED
  BY <1>1, <1>2 DEF Phases, ContractInv, T!MergedMeetsContract, T!CallsAreWorthwhile

\* A write stays a state of the worktree.
LEMMA PutIsContent ==
    ASSUME ContractInv, NEW p \in Path, NEW c \in T!Content, T!Put(p, c)
    PROVE  tree' \in [Path -> T!Content]
  BY ContractTypes DEF T!Put, ContractInv

\* Another attempt, or the end of them: the worktree is as it was or as the branch.
LEMMA TryAgainKeeps ==
    ASSUME Contracted, ContractInv, phase \in {"work", "gate"}, bad' \in BOOLEAN,
           T!TryAgain \/ (T!GiveUp /\ UNCHANGED attempts),
           UNCHANGED <<outputs, order, base, rounds, depsDone>>
    PROVE  ContractInv'
<1>1. phase' = "idle" \/ (phase' = "work" /\ attempts' <= Repairs)
  BY DEF T!TryAgain, T!GiveUp, Contracted, ContractInv
<1>2. attempts' \in 0..Repairs + 1
  BY DEF T!TryAgain, T!GiveUp, Contracted, ContractInv
<1>3. tree' \in [Path -> T!Content]
  BY ContractTypes DEF T!TryAgain, T!GiveUp, ContractInv
<1>4. T!CallsAreWorthwhile'
  BY <1>1 DEF T!CallsAreWorthwhile, ContractInv, T!Contradicts, T!Diverges, T!MatchesAny, T!Match,
     T!Below
<1> QED
  BY <1>1, <1>2, <1>3, <1>4 DEF ContractInv, Phases, T!MergedMeetsContract

\* Every step from the work order to the merge keeps what is known of the tree.
LEMMA ContractNext == Contracted /\ ContractInv /\ [T!Next]_(T!tvars) => ContractInv'
<1> SUFFICES ASSUME Contracted, ContractInv, [T!Next]_(T!tvars) PROVE ContractInv'
  OBVIOUS
<1>1. CASE T!Conduct
  <2>1. PICK o \in WorkOrder :
          /\ phase = "idle" /\ rounds < Rounds
          /\ rounds' = rounds + 1 /\ order' = o
          /\ IF \E pat \in o.allowed : T!GrantsProtected(pat)
             THEN phase' = "idle" /\ UNCHANGED tree
             ELSE /\ phase' = "preflight"
                  /\ tree' = IF T!Violations(o, T!Changed) # {} THEN base ELSE tree
          /\ bad' = FALSE /\ attempts' = 0 /\ UNCHANGED <<outputs, base, depsDone>>
    BY <1>1 DEF T!Conduct
  <2>2. phase' \in {"idle", "preflight"} /\ tree' \in {base, tree}
    BY <2>1
  <2>3. rounds' \in 0..Rounds /\ attempts' <= Repairs /\ attempts' \in 0..Repairs + 1
    BY <2>1 DEF Contracted, ContractInv
  <2>4. tree' \in [Path -> T!Content]
    BY <2>2, ContractTypes DEF ContractInv
  <2>5. phase' = "preflight" => T!Violations(order', T!Changed') = {}
    <3> SUFFICES ASSUME phase' = "preflight" PROVE T!Violations(o, T!Changed') = {}
      BY <2>1
    <3>1. CASE T!Violations(o, T!Changed) # {}
      <4>1. T!Changed' = {}
        BY <2>1, <3>1 DEF T!Changed
      <4> QED
        BY <4>1 DEF T!Violations
    <3>2. CASE T!Violations(o, T!Changed) = {}
      <4>1. T!Changed' = T!Changed
        BY <2>1, <3>2 DEF T!Changed
      <4> QED
        BY <3>2, <4>1
    <3> QED
      BY <3>1, <3>2
  <2> QED
    BY <2>1, <2>2, <2>3, <2>4, <2>5
       DEF ContractInv, Phases, T!MergedMeetsContract, T!CallsAreWorthwhile, T!Violations
<1>2. CASE T!Check
  <2>1. phase = "preflight" /\ UNCHANGED <<outputs, order, base, tree, bad, attempts, rounds,
                                           depsDone>>
    BY <1>2 DEF T!Check
  <2>2. phase' \in {"idle", "gate", "work"}
    BY <1>2 DEF T!Check
  <2>3. phase' \in {"gate", "work"} => depsDone /\ ~T!Contradicts /\ ~T!Diverges
    BY <1>2 DEF T!Check, T!Preflight
  <2>4. T!Changed' = T!Changed
    BY <2>1 DEF T!Changed
  <2>5. T!CallsAreWorthwhile'
    BY <2>1, <2>2, <2>3 DEF T!CallsAreWorthwhile, T!Contradicts, T!Diverges
  <2>6. T!Violations(order, T!Changed) = {}
    BY <2>1 DEF ContractInv
  <2> QED
    BY <2>1, <2>2, <2>4, <2>5, <2>6 DEF ContractInv, Phases, T!MergedMeetsContract, T!Violations
\* What a worker does keeps it at work.
<1>3. ASSUME phase = "work", phase' = "work", tree' \in [Path -> T!Content], bad' \in BOOLEAN,
             UNCHANGED <<outputs, order, base, attempts, rounds, depsDone>> PROVE ContractInv'
  BY <1>3 DEF ContractInv, Phases, T!MergedMeetsContract, T!CallsAreWorthwhile,
           T!Contradicts,
     T!Diverges
<1>4. CASE T!Edit
  <2>1. PICK p \in Path, c \in {"none", "empty", "text", "broken"} :
          IF T!Violations(order, {p}) # {} THEN bad' = TRUE /\ UNCHANGED tree
          ELSE T!Put(p, c) /\ UNCHANGED bad
    BY <1>4 DEF T!Edit
  <2>2. tree' \in [Path -> T!Content] /\ bad' \in BOOLEAN
    BY <2>1, PutIsContent, ContractTypes DEF ContractInv
  <2> QED
    BY <1>3, <1>4, <2>2 DEF T!Edit
<1>5. CASE T!MakeDir
  <2>1. PICK p \in Path :
          \/ bad' = TRUE /\ UNCHANGED tree
          \/ T!Put(p, "dir") /\ UNCHANGED bad
    BY <1>5 DEF T!MakeDir
  <2>2. tree' \in [Path -> T!Content] /\ bad' \in BOOLEAN
    BY <2>1, PutIsContent, ContractTypes DEF ContractInv
  <2> QED
    BY <1>3, <1>5, <2>2 DEF T!MakeDir
<1>6. CASE T!NativeWrite
  <2>1. tree' \in [Path -> T!Content] /\ bad' \in BOOLEAN
    BY <1>6, PutIsContent, ContractTypes DEF T!NativeWrite, ContractInv
  <2> QED
    BY <1>3, <1>6, <2>1 DEF T!NativeWrite
<1>7. CASE T!Submit
  <2>1. CASE bad \/ T!Violations(order, T!Changed) # {}
    BY <1>7, <2>1, TryAgainKeeps DEF T!Submit
  <2>2. CASE ~bad /\ T!Violations(order, T!Changed) = {}
    <3>1. phase = "work" /\ phase' = "gate" /\ bad' = FALSE
          /\ UNCHANGED <<tree, attempts, outputs, order, base, rounds, depsDone>>
      BY <1>7, <2>2 DEF T!Submit
    <3>2. T!Changed' = T!Changed
      BY <3>1 DEF T!Changed
    <3>3. T!Violations(order, T!Changed)' = {}
      BY <2>2, <3>1, <3>2 DEF T!Violations
    <3>4. T!CallsAreWorthwhile'
      BY <3>1 DEF T!CallsAreWorthwhile, T!Contradicts, T!Diverges, ContractInv
    <3> QED
      BY <3>1, <3>3, <3>4 DEF ContractInv, Phases, T!MergedMeetsContract
  <2> QED
    BY <2>1, <2>2
<1>8. CASE T!Contradicted
  <2>1. CASE attempts < Repairs
    <3>1. /\ phase = "work" /\ phase' = "work" /\ bad' = FALSE /\ attempts' = attempts + 1
          /\ UNCHANGED <<tree, outputs, order, base, rounds, depsDone>>
      BY <1>8, <2>1 DEF T!Contradicted
    <3>2. attempts' \in 0..Repairs + 1 /\ attempts' <= Repairs
      BY <2>1, <3>1 DEF ContractInv, Contracted
    <3>3. T!CallsAreWorthwhile'
      BY <3>1 DEF T!CallsAreWorthwhile, T!Contradicts, T!Diverges, ContractInv
    <3> QED
      BY <3>1, <3>2, <3>3 DEF ContractInv, Phases, T!MergedMeetsContract
  <2>2. CASE ~(attempts < Repairs)
    BY <1>8, <2>2, TryAgainKeeps DEF T!Contradicted
  <2> QED
    BY <2>1, <2>2
<1>9. CASE T!Preserve
  BY <1>9 DEF T!Preserve, ContractInv, Phases, T!MergedMeetsContract, T!CallsAreWorthwhile
<1>10. CASE T!GatePasses
  <2>1. phase = "gate" /\ phase' = "merge" /\ T!GateOk
        /\ UNCHANGED <<outputs, order, base, tree, bad, attempts, rounds,
                                           depsDone>>
    BY <1>10 DEF T!GatePasses
  <2>2. T!Changed' = T!Changed
    BY <2>1 DEF T!Changed
  <2>3. T!GateOk'
    BY <2>1, <2>2 DEF T!GateOk, T!Satisfied, T!IsFile
  <2>4. T!Violations(order, T!Changed)' = {}
    BY <2>1, <2>2 DEF T!Violations, ContractInv
  <2>5. T!CallsAreWorthwhile'
    BY <2>1 DEF T!CallsAreWorthwhile, T!Contradicts, T!Diverges, ContractInv
  <2> QED
    BY <2>1, <2>3, <2>4, <2>5 DEF ContractInv, Phases, T!MergedMeetsContract
<1>11. CASE T!GateFails
  BY <1>11, TryAgainKeeps DEF T!GateFails, ContractInv
<1>12. CASE T!Merge
  <2>1. phase = "merge" /\ phase' = "done" /\ tree' = T!Committed
        /\ UNCHANGED <<outputs, order, base, bad, attempts, rounds, depsDone>>
    BY <1>12 DEF T!Merge
  <2>2. \A p \in Path : tree'[p] = tree[p] \/ (tree[p] = "dir" /\ tree'[p] = "none")
    BY <2>1 DEF T!Committed
  <2>3. tree' \in [Path -> T!Content]
    BY <2>1, <2>2, ContractTypes DEF T!Committed, ContractInv
  <2>4. T!GateOk /\ T!Violations(order, T!Changed) = {}
    BY <2>1 DEF ContractInv
  <2>5. T!Changed' \subseteq T!Changed /\ \A p \in Path : T!IsFile(tree[p]) => tree'[p] = tree[p]
    BY <2>1, <2>2 DEF T!Changed, T!IsFile, ContractInv
  <2>6. ASSUME NEW p \in T!Changed' PROVE /\ T!MatchesAny(p, order.allowed)
                                          /\ ~T!MatchesAny(p, order.forbidden)
                                          /\ ~T!MatchesAny(p, Protected) /\ p \notin Credential
    BY <2>4, <2>5 DEF T!Violations, T!GateOk
  <2>7. ASSUME NEW e \in outputs, e.required, e.type = "file"
        PROVE  T!IsFile(tree'[e.path]) /\ (e.nonEmpty => tree'[e.path] = "text")
    <3>1. e.path \in Path
      BY DEF Contracted, ContractInv
    <3>2. T!Satisfied(e)
      BY <2>4 DEF T!GateOk
    <3>3. T!IsFile(tree[e.path])
      BY <2>7, <3>2 DEF T!Satisfied
    <3>4. e.path \in T!Changed
      BY <3>1, <3>3, ContractTypes
    <3>5. tree[e.path] \in {"text", "none"}
      BY <2>4, <3>4 DEF T!GateOk
    <3> QED
      BY <2>5, <3>1, <3>3, <3>5 DEF T!IsFile
  <2>8. T!MergedMeetsContract'
    BY <2>1, <2>6, <2>7 DEF T!MergedMeetsContract
  <2> QED
    BY <2>1, <2>3, <2>8 DEF ContractInv, Phases, T!CallsAreWorthwhile
<1>13. CASE UNCHANGED T!tvars
  <2>1. T!Changed' = T!Changed
    BY <1>13 DEF T!Changed, T!tvars
  <2> QED
    BY <1>13, <2>1 DEF T!tvars, ContractInv, T!MergedMeetsContract, T!CallsAreWorthwhile,
           T!Contradicts,
       T!Diverges, T!GateOk, T!Satisfied, T!Violations
<1> QED
  BY <1>1, <1>2, <1>4, <1>5, <1>6, <1>7, <1>8, <1>9, <1>10, <1>11, <1>12, <1>13 DEF T!Next

\* A merged tree meets the contract of its task, and no model is called in vain.
LEMMA ContractHolds ==
    Contracted /\ WorkspaceSpec => [](T!TypeOK /\ T!MergedMeetsContract /\ T!CallsAreWorthwhile)
<1> SUFFICES ASSUME Contracted
             PROVE  WorkspaceSpec => [](T!TypeOK /\ T!MergedMeetsContract /\ T!CallsAreWorthwhile)
  OBVIOUS
<1>1. T!Init => ContractInv
  BY ContractInit
<1>2. ContractInv /\ [T!Next]_(T!tvars) => ContractInv'
  BY ContractNext
<1>3. ContractInv => T!TypeOK /\ T!MergedMeetsContract /\ T!CallsAreWorthwhile
  BY ContractTypes DEF ContractInv, Phases, T!TypeOK
<1> QED
  BY <1>1, <1>2, <1>3, EachOnItsOwn, PTL DEF T!Spec

-----------------------------------------------------------------------------
(***************************************************************************)
(* Worktrees.                                                              *)
(***************************************************************************)
Branches == [base : W!Content, tip : W!Content]

\* Nothing writes behind the coder's back, and git merges what is not in conflict.
Committing == /\ MaxWrites \in Nat /\ MaxRounds \in Nat
              /\ None \notin W!Content \cup Branches \cup Task
              /\ "checks_write" \notin Env /\ "merge_refused" \notin Env

\* All that a branch has added was scanned, and what it has changed is a version of its own.
BranchInv(n) == branch[n] # None =>
    /\ W!Changes(branch[n].tip, branch[n].base) \subseteq scanned
    /\ \A f \in File : branch[n].tip[f] # branch[n].base[f] => branch[n].tip[f] # 0
\* A worktree is its branch with further versions.
TreeInv(n) == wTree[n] # None =>
    /\ branch[n] # None
    /\ \A f \in File : wTree[n][f] # branch[n].tip[f] => wTree[n][f] # 0

GitInv ==
    /\ project \in W!Content \cup {None} /\ dirty \in BOOLEAN
    /\ branch \in [W!Name -> Branches \cup {None}]
    /\ wTree \in [W!Name -> W!Content \cup {None}]
    /\ writes \in 0..MaxWrites
    /\ \A n \in W!Name : BranchInv(n) /\ TreeInv(n)
    /\ landed \subseteq scanned
    /\ project # None => \A f \in File : project[f] # 0 => <<f, project[f]>> \in landed
    /\ committed \in [W!Name -> SUBSET (File \X Nat)]
    /\ W!CommittedIsKept

\* The candidates of a task, and what the cycle knows of the one it is working on.
Attempting == {"code", "check", "review", "commit", "merge"}
CycleInv ==
    /\ done \subseteq Task /\ tries \in [Task -> 0..2] /\ tied \in BOOLEAN
    /\ index \in [W!Name -> W!Content \cup {None}]
    /\ survivors \subseteq W!Name
    /\ wPhase \in {"idle", "pick", "cleanup", "drop", "mark"} \cup Attempting
    /\ wPhase = "idle" => survivors = {}
    /\ wPhase # "idle" => /\ cur \in Task /\ at \in {<<cur, 1>>, <<cur, 2>>} /\ project # None
    /\ wPhase \in Attempting => branch[at] # None /\ wTree[at] # None
    /\ wPhase \in {"code", "check"} => at \notin survivors /\ survivors \subseteq {<<cur, 1>>}
    /\ wPhase = "pick" => survivors \subseteq {<<cur, 1>>, <<cur, 2>>}
    /\ wPhase \in {"code", "check", "pick"} => \A n \in survivors :
           branch[n] # None /\ wTree[n] # None /\ index[n] = wTree[n]
    /\ wPhase \in {"check", "review"} => index[at] = wTree[at]
    /\ wPhase = "commit" => W!Changes(wTree[at], branch[at].base) \subseteq scanned
    /\ wPhase = "merge" => committed[at] = W!Changes(branch[at].tip, branch[at].base)
    /\ wPhase \in {"cleanup", "drop"} => committed[at] \subseteq landed
    /\ wPhase = "drop" => wTree[at] = None

WorkInv == GitInv /\ CycleInv

\* What is new over the tip or in the tip over the base is all that is new over the base.
LEMMA ChangesAddUp ==
    ASSUME NEW a, NEW b, NEW c
    PROVE  /\ W!Changes(a, c) \subseteq W!Changes(a, b) \cup W!Changes(b, c)
           /\ W!Changes(a, a) = {}
           /\ \A f \in File : <<f, a[f]>> \in W!Changes(a, b) <=> a[f] # b[f]
           /\ \A x \in W!Changes(a, b) : \E f \in File : x = <<f, a[f]>> /\ a[f] # b[f]
<1>1. \A x, y : W!Changes(x, y) = {<<f, x[f]>> : f \in {g \in File : x[g] # y[g]}}
  BY DEF W!Changes
<1> QED
  BY <1>1

\* The first commit is a content like any other.
LEMMA HeadIsContent == Committing => W!HEAD \in W!Content /\ \A f \in File : W!HEAD[f] = 0
  BY DEF Committing, W!HEAD, W!Content

LEMMA WorkInit == Committing /\ W!Init => WorkInv
<1> SUFFICES ASSUME Committing, W!Init PROVE WorkInv
  OBVIOUS
<1>1. /\ project = None /\ dirty = FALSE /\ writes = 0 /\ landed = {} /\ scanned = {}
      /\ branch = [n \in W!Name |-> None] /\ wTree = [n \in W!Name |-> None]
      /\ index = [n \in W!Name |-> None] /\ committed = [n \in W!Name |-> {}]
  BY DEF W!Init
<1>2. /\ done = {} /\ tries = [t \in Task |-> 0] /\ tied = FALSE
      /\ survivors = {} /\ wPhase = "idle"
  BY DEF W!Init
<1>3. W!CommittedIsKept /\ \A n \in W!Name : BranchInv(n) /\ TreeInv(n)
  BY <1>1 DEF BranchInv, TreeInv, W!CommittedIsKept
<1>4. /\ \A S : branch \in [W!Name -> S \cup {None}] /\ wTree \in [W!Name -> S \cup {None}]
             /\ index \in [W!Name -> S \cup {None}]
      /\ \A S : committed \in [W!Name -> SUBSET S]
      /\ tries \in [Task -> 0..2] /\ writes \in 0..MaxWrites
  BY <1>1, <1>2 DEF Committing
<1> HIDE DEF W!Init
<1>5. GitInv
  BY <1>1, <1>3, <1>4, Zenon DEF GitInv
<1>6. CycleInv
  BY <1>1, <1>2, <1>4 DEF CycleInv, Attempting
<1> QED
  BY <1>5, <1>6 DEF WorkInv

\* A worktree that is opened, as it was left or as a branch has it.
LEMMA OpenedIsKnown ==
    ASSUME Committing, GitInv, NEW n \in W!Name
    PROVE  LET b == W!BranchOf(n) IN
           /\ W!ProjectTip \in W!Content /\ b \in Branches /\ b # None
           /\ branch[n] # None => b = branch[n]
           /\ branch[n] = None => W!Changes(b.tip, b.base) = {} /\ b.tip = b.base
           /\ W!TreeOf(n) \in W!Content /\ W!TreeOf(n) # None
           /\ \A f \in File : W!TreeOf(n)[f] # b.tip[f] => W!TreeOf(n)[f] # 0
<1>1. W!ProjectTip \in W!Content
  BY HeadIsContent DEF W!ProjectTip, GitInv
<1>2. CASE branch[n] # None
  BY <1>1, <1>2 DEF W!BranchOf, W!TreeOf, GitInv, TreeInv, Branches, Committing
<1>3. CASE branch[n] = None
  <2>1. PICK b : b = [base |-> W!ProjectTip, tip |-> W!ProjectTip]
    OBVIOUS
  <2>2. b \in Branches /\ b.tip = W!ProjectTip /\ b.base = W!ProjectTip
    BY <1>1, <2>1 DEF Branches
  <2>3. W!BranchOf(n) = b /\ wTree[n] = None
    BY <1>3, <2>1 DEF W!BranchOf, GitInv, TreeInv
  <2>4. W!TreeOf(n) = b.tip
    BY <2>3 DEF W!TreeOf
  <2> QED
    BY <1>1, <1>3, <2>2, <2>3, <2>4, ChangesAddUp DEF Committing
<1> QED
  BY <1>2, <1>3

\* Opening a branch for a candidate with some content that differs from its tip in further
\* versions keeps git in order.
LEMMA OpenKeeps ==
    ASSUME Committing, GitInv, NEW n \in W!Name, NEW content \in W!Content,
           \A f \in File : content[f] # W!BranchOf(n).tip[f] => content[f] # 0,
           branch' = [branch EXCEPT ![n] = W!BranchOf(n)],
           wTree' = [wTree EXCEPT ![n] = content],
           project' \in {project, W!ProjectTip},
           UNCHANGED <<dirty, writes, scanned, landed, committed>>
    PROVE  GitInv'
<1> DEFINE b == W!BranchOf(n)
<1>1. /\ W!ProjectTip \in W!Content /\ b \in Branches /\ b # None
      /\ branch[n] # None => b = branch[n]
      /\ branch[n] = None => W!Changes(b.tip, b.base) = {} /\ b.tip = b.base
  BY OpenedIsKnown
<1> HIDE DEF b
<1>2. branch' = [branch EXCEPT ![n] = b]
  BY DEF b
<1>3. \A f \in File : content[f] # b.tip[f] => content[f] # 0
  BY DEF b
<1>4. BranchInv(n)'
  BY <1>1, <1>2 DEF BranchInv, GitInv
<1>5. TreeInv(n)'
  BY <1>1, <1>2, <1>3 DEF TreeInv, GitInv
<1>6. \A m \in W!Name : BranchInv(m)' /\ TreeInv(m)'
  BY <1>2, <1>4, <1>5 DEF BranchInv, TreeInv, GitInv
<1>7. W!CommittedIsKept'
  BY <1>1, <1>2 DEF W!CommittedIsKept, GitInv
<1>8. project' # None => \A f \in File : project'[f] # 0 => <<f, project'[f]>> \in landed
  BY HeadIsContent DEF GitInv, W!ProjectTip
<1>9. project' \in W!Content \cup {None}
  BY <1>1 DEF GitInv
<1> QED
  BY <1>1, <1>2, <1>6, <1>7, <1>8, <1>9 DEF GitInv

\* A worktree that is thrown back to its branch.
LEMMA RevertKeeps ==
    ASSUME Committing, GitInv, NEW n \in W!Name, branch[n] # None, wTree' = W!Reverted(n),
           UNCHANGED <<project, dirty, branch, writes, scanned, landed, committed>>
    PROVE  GitInv'
<1>1. branch[n].tip \in W!Content /\ branch[n].tip # None
  BY DEF GitInv, Branches, Committing
<1>2. wTree' = [wTree EXCEPT ![n] = branch[n].tip]
  BY DEF W!Reverted
<1>3. \A m \in W!Name : BranchInv(m)' /\ TreeInv(m)'
  BY <1>1, <1>2 DEF BranchInv, TreeInv, GitInv
<1> QED
  BY <1>1, <1>2, <1>3 DEF GitInv, W!CommittedIsKept

\* A task that fails takes its branches and worktrees with it.
LEMMA FailKeeps ==
    ASSUME Committing, CycleInv, wPhase # "idle", W!Fail PROVE CycleInv'
<1>1. tries' \in [Task -> 0..2]
  BY DEF W!Fail, CycleInv
<1> QED
  BY <1>1 DEF W!Fail, W!Idle, CycleInv, Attempting

\* The names of the two candidates of a task.
LEMMA CandidatesOf ==
    \A t \in Task : /\ <<t, 1>> \in W!Name /\ <<t, 2>> \in W!Name /\ <<t, 1>> # <<t, 2>>
                    /\ <<t, 1>>[2] = 1 /\ <<t, 2>>[2] = 2
  BY DEF W!Name

\* The next candidate, or the choice among those that are left.
LEMMA NextCandidateKeeps ==
    ASSUME Committing, WorkInv, wPhase \in {"code", "check"}, NEW valid \in BOOLEAN,
           W!NextCandidate(valid), index' \in [W!Name -> W!Content \cup {None}],
           \A n \in survivors : index'[n] = index[n], valid => index'[at] = wTree[at],
           UNCHANGED <<project, dirty, writes, scanned, landed, committed>>
    PROVE  WorkInv'
<1> USE DEF WorkInv
<1>0. cur \in Task /\ at \in {<<cur, 1>>, <<cur, 2>>} /\ branch[at] # None /\ wTree[at] # None
      /\ at \notin survivors /\ survivors \subseteq {<<cur, 1>>} /\ project # None
  BY DEF CycleInv, Attempting
<1>1. survivors' \subseteq W!Name /\ \A n \in survivors' :
          branch[n] # None /\ wTree[n] # None /\ index'[n] = wTree[n]
  <2>1. survivors' \subseteq survivors \cup {at} /\ (~valid => survivors' = survivors)
    BY DEF W!NextCandidate
  <2>2. \A n \in survivors : branch[n] # None /\ wTree[n] # None /\ index'[n] = wTree[n]
    BY DEF CycleInv
  <2>3. at \in survivors' => valid
    BY <1>0, <2>1
  <2>4. survivors' \subseteq W!Name
    BY <1>0, <2>1, CandidatesOf
  <2>5. ASSUME NEW n \in survivors'
        PROVE  branch[n] # None /\ wTree[n] # None /\ index'[n] = wTree[n]
    <3>1. CASE n = at
      BY <1>0, <2>3, <2>5, <3>1
    <3>2. CASE n # at
      <4>1. n \in survivors
        BY <2>1, <2>5, <3>2
      <4> QED
        BY <2>2, <4>1
    <3> QED
      BY <3>1, <3>2
  <2> QED
    BY <2>4, <2>5
<1>2. UNCHANGED <<done, tries, cur, wAllowed, tied>>
  BY DEF W!NextCandidate, W!taskVars, W!orderVars
<1>3. CASE at = <<cur, 1>>
  <2>1. PICK n \in W!Name : n = <<cur, 2>>
    BY <1>0, CandidatesOf
  <2>2. /\ at' = n /\ wPhase' = "code"
        /\ branch' = [branch EXCEPT ![n] = W!BranchOf(n)]
        /\ wTree' = [wTree EXCEPT ![n] = W!TreeOf(n)]
    BY <1>0, <1>3, <2>1, CandidatesOf DEF W!NextCandidate
  <2>3. GitInv'
    BY <2>2, OpenedIsKnown, OpenKeeps
  <2>4. survivors' \subseteq {<<cur, 1>>} /\ n \notin survivors'
    <3>1. survivors' \subseteq survivors \cup {at}
      BY DEF W!NextCandidate
    <3> QED
      BY <1>0, <1>3, <2>1, <3>1, CandidatesOf
  <2>5. branch'[n] # None /\ wTree'[n] # None
    BY <2>2, OpenedIsKnown DEF GitInv
  <2>6. \A m \in survivors' : branch'[m] # None /\ wTree'[m] # None /\ index'[m] = wTree'[m]
    BY <1>1, <2>2, <2>4 DEF GitInv
  <2>7. CycleInv'
    BY <1>0, <1>1, <1>2, <2>1, <2>2, <2>4, <2>5, <2>6 DEF CycleInv, Attempting
  <2> QED
    BY <2>3, <2>7
<1>4. CASE at = <<cur, 2>>
  <2>1. wPhase' = "pick" /\ UNCHANGED <<at, branch, wTree>>
    BY <1>0, <1>4, CandidatesOf DEF W!NextCandidate
  <2>2. GitInv'
    BY <2>1 DEF GitInv, BranchInv, TreeInv, W!CommittedIsKept
  <2>3. survivors' \subseteq {<<cur, 1>>, <<cur, 2>>}
    BY <1>0, <1>4 DEF W!NextCandidate
  <2>4. CycleInv'
    BY <1>0, <1>1, <1>2, <2>1, <2>3 DEF CycleInv, Attempting
  <2> QED
    BY <2>2, <2>4
<1> QED
  BY <1>0, <1>3, <1>4

\* Steps that leave git as it is.
LEMMA GitStays ==
    ASSUME GitInv, UNCHANGED <<project, branch, wTree, writes, landed, committed>>,
           dirty' \in BOOLEAN, scanned \subseteq scanned'
    PROVE  GitInv'
  BY DEF GitInv, BranchInv, TreeInv, W!CommittedIsKept

\* Every step of a cycle in git keeps what is known of branches and worktrees.
LEMMA WorkNext == Committing /\ WorkInv /\ [W!Next]_(W!wvars) => WorkInv'
<1> SUFFICES ASSUME Committing, WorkInv, [W!Next]_(W!wvars) PROVE WorkInv'
  OBVIOUS
<1> USE DEF WorkInv, W!taskVars, W!gitVars, W!orderVars, W!cycleVars, W!seenVars
<1>0. /\ None \notin W!Content /\ None \notin Branches /\ MaxWrites \in Nat
      /\ wPhase # "idle" =>
            /\ cur \in Task /\ at \in {<<cur, 1>>, <<cur, 2>>} /\ at \in W!Name /\ project # None
      /\ wPhase \in Attempting => /\ branch[at] \in Branches /\ branch[at] # None
                                  /\ wTree[at] \in W!Content /\ wTree[at] # None
  <2>1. wPhase # "idle" => at \in W!Name
    BY CandidatesOf DEF CycleInv
  <2>2. wPhase \in Attempting => wPhase # "idle"
    BY DEF Attempting
  <2>3. wPhase \in Attempting => branch[at] # None /\ wTree[at] # None
    BY DEF CycleInv
  <2>4. \A n \in W!Name : /\ branch[n] \in Branches \/ branch[n] = None
                          /\ wTree[n] \in W!Content \/ wTree[n] = None
    BY DEF GitInv
  <2>5. None \notin W!Content /\ None \notin Branches /\ MaxWrites \in Nat
    BY DEF Committing
  <2> QED
    BY <2>1, <2>2, <2>3, <2>4, <2>5 DEF CycleInv
<1>1. ASSUME NEW t \in Task, W!Begin(t) PROVE WorkInv'
  <2>1. PICK n \in W!Name : n = <<t, 1>>
    BY CandidatesOf
  <2>2. PICK paths \in Grants :
            /\ wPhase = "idle" /\ project' = W!ProjectTip
            /\ branch' = [branch EXCEPT ![n] = W!BranchOf(n)]
            /\ wTree' = [wTree EXCEPT ![n] = W!Revalidated(n, paths)]
            /\ index' = [index EXCEPT ![n] = W!Revalidated(n, paths)]
            /\ cur' = t /\ at' = n /\ wPhase' \in {"code", "check"}
            /\ UNCHANGED <<done, tries, dirty, survivors, tied, writes, scanned, landed, committed>>
    BY <1>1, <2>1 DEF W!Begin
  <2>3. PICK content : content = W!Revalidated(n, paths)
    OBVIOUS
  <2>4. /\ content \in W!Content /\ content # None
        /\ \A f \in File : content[f] # W!BranchOf(n).tip[f] => content[f] # 0
    BY <1>0, <2>3, OpenedIsKnown DEF W!Revalidated, Branches
  <2>5. GitInv'
    BY <2>2, <2>3, <2>4, OpenKeeps
  <2>6. branch'[n] # None /\ wTree'[n] = content /\ index'[n] = content /\ project' # None
    BY <1>0, <2>2, <2>3, OpenedIsKnown DEF GitInv, CycleInv
  <2>7. index' \in [W!Name -> W!Content \cup {None}]
    BY <2>2, <2>3, <2>4 DEF CycleInv
  <2>8. CycleInv'
    BY <2>1, <2>2, <2>4, <2>6, <2>7 DEF CycleInv, Attempting
  <2> QED
    BY <2>5, <2>8
<1>2. CASE W!Write
  <2>1. wPhase = "code" /\ writes' = writes + 1 /\ writes < MaxWrites
        /\ UNCHANGED <<done, tries, project, dirty, branch, wPhase, at, index, survivors, cur,
                       wAllowed, tied, scanned, landed, committed>>
    BY <1>2 DEF W!Write
  <2>2. PICK f \in File : wTree' = [wTree EXCEPT ![at] = [wTree[at] EXCEPT ![f] = writes']]
    BY <1>2 DEF W!Write
  <2>3. writes' \in 0..MaxWrites /\ writes' # 0
    BY <2>1, <1>0 DEF GitInv
  <2>4. PICK content : content = [wTree[at] EXCEPT ![f] = writes']
    OBVIOUS
  <2>5. wPhase \in Attempting /\ wTree[at] \in W!Content
    BY <1>0, <2>1 DEF Attempting
  <2>6. content \in W!Content /\ content # None
        /\ \A g \in File : content[g] = IF g = f THEN writes' ELSE wTree[at][g]
    BY <1>0, <2>3, <2>4, <2>5 DEF W!Content
  <2>7. wTree' = [wTree EXCEPT ![at] = content]
    BY <2>2, <2>4
  <2>8. TreeInv(at)' /\ at' = at
    BY <1>0, <2>1, <2>3, <2>5, <2>6, <2>7 DEF TreeInv, GitInv, Attempting
  <2>9. \A n \in W!Name : BranchInv(n)' /\ TreeInv(n)'
    BY <2>1, <2>7, <2>8 DEF BranchInv, TreeInv, GitInv
  <2>10. GitInv'
    BY <2>1, <2>3, <2>6, <2>7, <2>9 DEF GitInv, W!CommittedIsKept
  <2>11. CycleInv'
    BY <1>0, <2>1, <2>6, <2>7 DEF CycleInv, Attempting, GitInv
  <2> QED
    BY <2>10, <2>11
<1>3. CASE W!CoderFails
  <2>1. CASE W!Alone
    BY <1>3, <2>1, FailKeeps, GitStays DEF W!CoderFails, GitInv
  <2>2. CASE ~W!Alone
    BY <1>3, <2>2, NextCandidateKeeps DEF W!CoderFails, CycleInv
  <2> QED
    BY <2>1, <2>2
<1>4. CASE W!Submit
  <2>1. wPhase = "code" /\ index' = [index EXCEPT ![at] = wTree[at]]
        /\ UNCHANGED <<project, dirty, writes, scanned, landed, committed>>
    BY <1>4 DEF W!Submit
  <2>2. index' \in [W!Name -> W!Content \cup {None}] /\ index'[at] = wTree[at]
        /\ \A n \in survivors : index'[n] = index[n]
    BY <1>0, <2>1 DEF CycleInv, GitInv
  <2>3. CASE W!NextCandidate(FALSE)
    BY <2>1, <2>2, <2>3, NextCandidateKeeps
  <2>4. CASE W!GoTo("check") \/ W!GoTo("code")
    <3>1. wPhase' \in {"check", "code"}
          /\ UNCHANGED <<done, tries, at, survivors, cur, wAllowed, tied, branch, wTree>>
      BY <2>4 DEF W!GoTo
    <3>2. GitInv'
      BY <2>1, <3>1, GitStays DEF GitInv
    <3>3. CycleInv'
      BY <1>0, <2>1, <2>2, <3>1 DEF CycleInv, Attempting
    <3> QED
      BY <3>2, <3>3
  <2> QED
    BY <1>4, <2>3, <2>4 DEF W!Submit
<1>5. CASE W!GiveUp
  <2>1. GitInv'
    BY <1>0, <1>5, RevertKeeps DEF W!GiveUp, Attempting
  <2> QED
    BY <1>5, <2>1, FailKeeps DEF W!GiveUp
<1>6. CASE W!CheckFails
  <2>1. wPhase = "check" /\ UNCHANGED <<project, dirty, index, writes, scanned, landed, committed>>
    BY <1>6 DEF W!CheckFails
  <2>2. CASE W!GoTo("code")
    <3>1. wPhase' = "code"
          /\ UNCHANGED <<done, tries, at, survivors, cur, wAllowed, tied, branch, wTree>>
      BY <2>2 DEF W!GoTo
    <3>2. GitInv'
      BY <2>1, <3>1, GitStays DEF GitInv
    <3>3. CycleInv'
      BY <1>0, <2>1, <3>1 DEF CycleInv, Attempting
    <3> QED
      BY <3>2, <3>3
  <2>3. CASE W!NextCandidate(FALSE)
    BY <2>1, <2>3, NextCandidateKeeps DEF CycleInv
  <2> QED
    BY <1>6, <2>2, <2>3 DEF W!CheckFails
<1>7. CASE W!CheckPasses
  <2>1. wPhase = "check" /\ UNCHANGED <<project, dirty, index, writes, scanned, landed, committed>>
        /\ index[at] = wTree[at]
    BY <1>7 DEF W!CheckPasses, CycleInv
  <2>2. CASE W!GoTo("review")
    <3>1. wPhase' = "review"
          /\ UNCHANGED <<done, tries, at, survivors, cur, wAllowed, tied, branch, wTree>>
      BY <2>2 DEF W!GoTo
    <3>2. GitInv'
      BY <2>1, <3>1, GitStays DEF GitInv
    <3>3. CycleInv'
      BY <1>0, <2>1, <3>1 DEF CycleInv, Attempting
    <3> QED
      BY <3>2, <3>3
  <2>3. CASE W!NextCandidate(TRUE)
    BY <2>1, <2>3, NextCandidateKeeps DEF CycleInv
  <2> QED
    BY <1>7, <2>2, <2>3 DEF W!CheckPasses
<1>8. CASE W!Pick
  <2>1. wPhase = "pick" /\ wPhase' = "review" /\ at' \in survivors /\ tied' \in BOOLEAN
        /\ UNCHANGED <<done, tries, project, dirty, branch, wTree, cur, wAllowed, index, survivors,
                       writes, scanned, landed, committed>>
    BY <1>8 DEF W!Pick
  <2>2. GitInv'
    BY <2>1, GitStays DEF GitInv
  <2>3. CycleInv'
    BY <1>0, <2>1 DEF CycleInv, Attempting
  <2> QED
    BY <2>2, <2>3
<1>9. CASE W!NoneSurvives
  BY <1>9, FailKeeps, GitStays DEF W!NoneSurvives, GitInv
<1>10. CASE W!Approve
  <2>1. wPhase = "review" /\ scanned' = scanned \cup W!Staged
        /\ UNCHANGED <<project, dirty, writes, landed, committed, branch, wTree>>
    BY <1>10 DEF W!Approve, W!GoTo
  <2>2. GitInv'
    BY <2>1, GitStays DEF GitInv
  <2>3. CASE tied
    BY <1>10, <2>1, <2>2, <2>3, FailKeeps DEF W!Approve
  <2>4. CASE ~tied
    <3>1. wPhase' = "commit" /\ UNCHANGED <<done, tries, at, survivors, cur, wAllowed, tied, index>>
      BY <1>10, <2>4 DEF W!Approve, W!GoTo
    <3>2. index[at] = wTree[at] /\ branch[at] # None /\ BranchInv(at)
      BY <1>0, <2>1 DEF CycleInv, GitInv, Attempting
    <3>3. W!Changes(wTree[at], branch[at].base) \subseteq scanned'
      BY <2>1, <3>2, ChangesAddUp DEF W!Staged, BranchInv
    <3>4. CycleInv'
      BY <1>0, <2>1, <3>1, <3>3 DEF CycleInv, Attempting
    <3> QED
      BY <2>2, <3>4
  <2> QED
    BY <2>3, <2>4
<1>11. CASE W!Reject
  <2>1. GitInv'
    BY <1>0, <1>11, RevertKeeps DEF W!Reject, Attempting
  <2> QED
    BY <1>11, <2>1, FailKeeps DEF W!Reject
<1>12. CASE W!Commit
  <2>1. /\ wPhase = "commit" /\ wPhase' = "merge" /\ at' = at
        /\ wTree' = [wTree EXCEPT ![at] = wTree[at]]
        /\ branch' = [branch EXCEPT ![at].tip = wTree[at]]
        /\ committed' = [committed EXCEPT ![at] = W!Changes(wTree[at], branch[at].base)]
        /\ writes' = writes /\ index' = [m \in W!Name |-> None]
        /\ UNCHANGED <<done, tries, project, dirty, survivors, cur, wAllowed, tied, scanned,
                       landed>>
    BY <1>12 DEF W!Commit, W!CommitIn, Committing
  <2>2. /\ branch[at] \in Branches /\ branch[at] # None /\ wTree[at] \in W!Content
        /\ wTree[at] # None /\ BranchInv(at) /\ TreeInv(at)
        /\ W!Changes(wTree[at], branch[at].base) \subseteq scanned
    BY <1>0, <2>1 DEF Attempting, GitInv, CycleInv
  <2>3. PICK b : b = [branch[at] EXCEPT !.tip = wTree[at]]
    OBVIOUS
  <2>4. b \in Branches /\ b # None /\ b.tip = wTree[at] /\ b.base = branch[at].base
    BY <1>0, <2>2, <2>3 DEF Branches
  <2>5. branch' = [branch EXCEPT ![at] = b] /\ wTree' = wTree
    BY <2>1, <2>3 DEF GitInv
  <2>6. BranchInv(at)' /\ TreeInv(at)'
    BY <1>0, <2>1, <2>2, <2>4, <2>5 DEF BranchInv, TreeInv, GitInv
  <2>7. \A n \in W!Name : BranchInv(n)' /\ TreeInv(n)'
    BY <2>1, <2>5, <2>6 DEF BranchInv, TreeInv, GitInv
  <2>8. PICK changes : changes = W!Changes(wTree[at], branch[at].base)
    OBVIOUS
  <2>9. /\ changes \subseteq File \X Nat
        /\ \A x \in changes : \E f \in File : x = <<f, wTree[at][f]>>
    <3>1. \A f \in File : wTree[at][f] \in Nat
      BY <2>2, <1>0 DEF W!Content
    <3>2. ASSUME NEW x \in changes PROVE \E f \in File : x = <<f, wTree[at][f]>>
      <4>1. x \in W!Changes(wTree[at], branch[at].base)
        BY <2>8
      <4> QED
        BY <4>1 DEF W!Changes
    <3> QED
      BY <3>1, <3>2
  <2>10. committed' = [committed EXCEPT ![at] = changes]
    BY <2>1, <2>8
  <2>11. W!CommittedIsKept'
    BY <1>0, <2>1, <2>4, <2>5, <2>9, <2>10 DEF W!CommittedIsKept, GitInv
  <2>12. GitInv'
    BY <1>0, <2>1, <2>4, <2>5, <2>7, <2>9, <2>10, <2>11 DEF GitInv
  <2>13. committed'[at] = W!Changes(b.tip, b.base) /\ branch'[at] = b
    BY <1>0, <2>1, <2>4, <2>5, <2>8, <2>10 DEF GitInv
  <2>14. CycleInv'
    BY <1>0, <2>1, <2>2, <2>4, <2>5, <2>13 DEF CycleInv, Attempting
  <2> QED
    BY <2>12, <2>14
<1>13. CASE W!Integrate
  <2>1. PICK tip : tip = W!Merged(branch[at])
    OBVIOUS
  <2>2. PICK old : old = branch[at]
    OBVIOUS
  <2>3. PICK b : b = [old EXCEPT !.base = old.tip]
    OBVIOUS
  <2>4. /\ wPhase = "merge" /\ wPhase' = "cleanup" /\ W!Conflicts(old) = {}
        /\ project' = tip /\ dirty' = FALSE /\ branch' = [branch EXCEPT ![at] = b]
        /\ landed' = landed \cup W!Changes(tip, project)
        /\ UNCHANGED <<done, tries, wTree, at, index, survivors, cur, wAllowed, tied, writes,
                       scanned, committed>>
    <3>1. W!Outcomes(old) = {[tip |-> tip, base |-> old.tip, dirty |-> FALSE]}
      BY <2>1, <2>2 DEF W!Outcomes, Committing
    <3>2. PICK result \in W!Outcomes(old) :
              /\ project' = result.tip /\ dirty' = result.dirty
              /\ branch' = [branch EXCEPT ![at].base = result.base]
      BY <1>13, <2>2 DEF W!Integrate
    <3>3. project' = tip /\ dirty' = FALSE /\ branch' = [branch EXCEPT ![at].base = old.tip]
      <4>1. result = [tip |-> tip, base |-> old.tip, dirty |-> FALSE]
        BY <3>1
      <4>2. result.tip = tip /\ result.base = old.tip /\ result.dirty = FALSE
        BY <4>1
      <4> QED
        BY <3>2, <4>2
    <3>4. branch' = [branch EXCEPT ![at] = b]
      BY <2>2, <2>3, <3>3 DEF GitInv
    <3> HIDE DEF W!Conflicts
    <3> QED
      BY <1>13, <2>2, <3>3, <3>4 DEF W!Integrate
  <2>5. /\ old \in Branches /\ old # None /\ BranchInv(at) /\ project # None
        /\ project \in W!Content
        /\ committed[at] = W!Changes(old.tip, old.base)
    BY <1>0, <2>2, <2>4 DEF Attempting, GitInv, CycleInv
  <2>6. b \in Branches /\ b # None /\ b.tip = old.tip /\ b.base = old.tip
    BY <1>0, <2>3, <2>5 DEF Branches
  <2>7. /\ tip \in W!Content
        /\ \A f \in File : tip[f] = IF project[f] = old.base[f] THEN old.tip[f] ELSE project[f]
    BY <2>1, <2>2, <2>5 DEF W!Merged, W!Content, Branches
  <2>8. W!Changes(tip, project) \subseteq W!Changes(old.tip, old.base)
    <3>1. ASSUME NEW x \in W!Changes(tip, project) PROVE x \in W!Changes(old.tip, old.base)
      <4>1. PICK f \in File : x = <<f, tip[f]>> /\ tip[f] # project[f]
        BY <3>1, ChangesAddUp
      <4>2. tip[f] = old.tip[f] /\ old.tip[f] # old.base[f]
        BY <2>7, <4>1
      <4>3. <<f, old.tip[f]>> \in W!Changes(old.tip, old.base)
        BY <4>2, ChangesAddUp
      <4> QED
        BY <4>1, <4>2, <4>3
    <3> QED
      BY <3>1
  <2>9. landed' \subseteq scanned
    BY <2>2, <2>4, <2>5, <2>8 DEF BranchInv, GitInv
  <2>10. \A f \in File : tip[f] # 0 => <<f, tip[f]>> \in landed'
    <3>1. \A f \in File : tip[f] # project[f] => <<f, tip[f]>> \in W!Changes(tip, project)
      BY ChangesAddUp
    <3> QED
      BY <2>4, <2>5, <3>1 DEF GitInv
  <2>11. committed[at] \subseteq landed'
    <3>1. ASSUME NEW x \in committed[at] PROVE x \in landed'
      <4>1. PICK f \in File : x = <<f, old.tip[f]>> /\ old.tip[f] # old.base[f]
        <5>1. x \in W!Changes(old.tip, old.base)
          BY <2>5, <3>1
        <5> QED
          BY <5>1, ChangesAddUp
      <4>2. tip[f] = old.tip[f]
        BY <2>4, <2>7, <4>1 DEF W!Conflicts
      <4>3. tip[f] # 0
        BY <2>2, <2>5, <4>1, <4>2 DEF BranchInv
      <4> QED
        BY <2>10, <4>1, <4>2, <4>3
    <3> QED
      BY <3>1
  <2>12. BranchInv(at)' /\ TreeInv(at)'
    <3>1. W!Changes(b.tip, b.base) = {}
      BY <2>6, ChangesAddUp
    <3> QED
      BY <1>0, <2>2, <2>4, <2>6, <3>1 DEF BranchInv, TreeInv, GitInv
  <2>13. \A n \in W!Name : BranchInv(n)' /\ TreeInv(n)'
    BY <2>4, <2>12 DEF BranchInv, TreeInv, GitInv
  <2>14. W!CommittedIsKept'
    BY <1>0, <2>4, <2>11 DEF W!CommittedIsKept, GitInv
  <2>15. GitInv'
    BY <1>0, <2>4, <2>6, <2>7, <2>9, <2>10, <2>13, <2>14 DEF GitInv
  <2>16. project' # None
    BY <1>0, <2>4, <2>7
  <2>17. CycleInv'
    BY <1>0, <2>4, <2>11, <2>16 DEF CycleInv, Attempting
  <2> QED
    BY <2>15, <2>17
<1>14. CASE W!Refuse
  BY <1>14, FailKeeps, GitStays DEF W!Refuse, GitInv
<1>15. CASE W!RemoveTree
  <2>1. wPhase = "cleanup" /\ wPhase' = "drop" /\ wTree' = [wTree EXCEPT ![at] = None]
        /\ UNCHANGED <<done, tries, project, dirty, branch, at, index, survivors, cur, wAllowed,
                       tied, writes, scanned, landed, committed>>
    BY <1>15 DEF W!RemoveTree
  <2>2. \A n \in W!Name : BranchInv(n)' /\ TreeInv(n)'
    BY <2>1 DEF BranchInv, TreeInv, GitInv
  <2>3. GitInv'
    BY <2>1, <2>2 DEF GitInv, W!CommittedIsKept
  <2>4. wTree'[at] = None
    BY <1>0, <2>1 DEF GitInv
  <2>5. CycleInv'
    BY <1>0, <2>1, <2>4 DEF CycleInv, Attempting
  <2> QED
    BY <2>3, <2>5
<1>16. CASE W!DropBranch
  <2>1. wPhase = "drop" /\ wPhase' = "mark" /\ branch' = [branch EXCEPT ![at] = None]
        /\ UNCHANGED <<done, tries, project, dirty, wTree, at, index, survivors, cur, wAllowed,
                       tied, writes, scanned, landed, committed>>
    BY <1>16 DEF W!DropBranch
  <2>2. wTree[at] = None /\ committed[at] \subseteq landed
    BY <2>1 DEF CycleInv
  <2>3. \A n \in W!Name : BranchInv(n)' /\ TreeInv(n)'
    BY <2>1, <2>2 DEF BranchInv, TreeInv, GitInv
  <2>4. W!CommittedIsKept'
    BY <1>0, <2>1, <2>2 DEF W!CommittedIsKept, GitInv
  <2>5. GitInv'
    BY <2>1, <2>3, <2>4 DEF GitInv
  <2>6. CycleInv'
    BY <1>0, <2>1 DEF CycleInv, Attempting
  <2> QED
    BY <2>5, <2>6
<1>17. CASE W!MarkDone
  <2>1. GitInv'
    BY <1>17, GitStays DEF W!MarkDone, GitInv
  <2>2. CycleInv'
    BY <1>0, <1>17 DEF W!MarkDone, W!Idle, CycleInv, Attempting
  <2> QED
    BY <2>1, <2>2
<1>18. CASE W!Crash
  <2>1. GitInv'
    <3>1. dirty' \in BOOLEAN
      BY <1>18 DEF W!Crash, GitInv
    <3> QED
      BY <1>18, <3>1, GitStays DEF W!Crash
  <2>2. CycleInv'
    BY <1>18 DEF W!Crash, W!Idle, CycleInv, Attempting
  <2> QED
    BY <2>1, <2>2
<1>19. CASE UNCHANGED W!wvars
  <2>1. GitInv'
    BY <1>19, GitStays DEF W!wvars, GitInv
  <2>2. CycleInv'
    BY <1>19 DEF W!wvars, CycleInv, Attempting
  <2> QED
    BY <2>1, <2>2
<1> QED
  BY <1>1, <1>2, <1>3, <1>4, <1>5, <1>6, <1>7, <1>8, <1>9, <1>10, <1>11, <1>12, <1>13, <1>14,
     <1>15, <1>16, <1>17, <1>18, <1>19 DEF W!Next

\* What Worktrees.tla promises of git holds whatever the cycles do, if nothing writes into the
\* worktrees behind the coder and git does not refuse what is not in conflict.
LEMMA WorktreesHold ==
    Committing /\ WorkspaceSpec => [](W!TypeOK /\ W!MergedIsScanned /\ W!CommittedIsKept)
<1> SUFFICES ASSUME Committing
             PROVE  WorkspaceSpec => [](W!TypeOK /\ W!MergedIsScanned /\ W!CommittedIsKept)
  OBVIOUS
<1>1. W!Init => WorkInv
  BY WorkInit
<1>2. WorkInv /\ [W!Next]_(W!wvars) => WorkInv'
  BY WorkNext
<1>3. WorkInv => W!TypeOK /\ W!MergedIsScanned /\ W!CommittedIsKept
  BY DEF WorkInv, GitInv, CycleInv, Branches, Attempting, W!TypeOK, W!MergedIsScanned
<1> QED
  BY <1>1, <1>2, <1>3, EachOnItsOwn, PTL DEF W!Spec

-----------------------------------------------------------------------------
(***************************************************************************)
(* Healing.                                                                *)
(***************************************************************************)
\* The failure streak after one more event of the log.
Counted(count, e) ==
    IF e.outcome = "success" THEN 0
    ELSE IF \/ e.outcome = "limit"
            \/ IF e.class # None THEN e.class = "platform" ELSE H!IsPlatformCycle(e.text)
         THEN count
    ELSE count + 1

\* Genuine counts from the beginning of the log.
LEMMA GenuineCounts ==
    ASSUME NEW E, NEW events \in Seq(E)
    PROVE  \E g \in [0..Len(events) -> Nat] :
               /\ g[0] = 0 /\ \A i \in 1..Len(events) : g[i] = Counted(g[i - 1], events[i])
               /\ H!Genuine(events) = g[Len(events)]
<1> DEFINE n == Len(events)
           Is(g) == g = [i \in 0..n |->
                           IF i = 0 THEN 0
                           ELSE IF events[i].outcome = "success" THEN 0
                           ELSE IF \/ events[i].outcome = "limit"
                                   \/ IF events[i].class # None THEN events[i].class = "platform"
                                      ELSE H!IsPlatformCycle(events[i].text) THEN g[i - 1]
                           ELSE g[i - 1] + 1]
<1>1. n \in Nat
  OBVIOUS
<1>2. H!Genuine(events) = (CHOOSE g : Is(g))[n]
  BY Zenon DEF H!Genuine
<1>3. PICK F : F = [i \in 1..n |-> [c \in Nat |-> Counted(c, events[i])]]
  OBVIOUS
<1>4. F \in [1..n -> [Nat -> Nat]]
  <2>1. \A c \in Nat : \A e : Counted(c, e) \in Nat
    BY DEF Counted
  <2> QED
    BY <1>3, <2>1
<1>5. PICK g \in [0..n -> Nat] : g[0] = 0 /\ \A i \in 1..n : g[i] = F[i][g[i - 1]]
  <2>1. Stepwise(n, Nat, 0, F)
    BY <1>1, <1>4 DEF Stepwise
  <2>2. PICK g : Follows(g, n, Nat, 0, F)
    BY <2>1, RecursionExists
  <2> QED
    BY <2>2 DEF Follows
<1>6. \A i \in 1..n : g[i] = Counted(g[i - 1], events[i])
  <2>1. \A i \in 1..n : g[i - 1] \in Nat
    BY <1>1
  <2> QED
    BY <1>3, <1>5, <2>1
<1>7. \E f : Is(f)
  <2>1. g = [i \in 0..n |-> IF i = 0 THEN 0 ELSE Counted(g[i - 1], events[i])]
    <3>1. \A i \in 0..n : g[i] = IF i = 0 THEN 0 ELSE Counted(g[i - 1], events[i])
      BY <1>1, <1>5, <1>6
    <3> QED
      BY <3>1
  <2> QED
    BY <2>1 DEF Counted
<1>8. PICK f : f = CHOOSE h : Is(h)
  OBVIOUS
<1>9. Is(f)
  BY <1>7, <1>8
<1>10. f = [i \in 0..n |-> IF i = 0 THEN 0 ELSE Counted(f[i - 1], events[i])]
  BY <1>9 DEF Counted
<1>11. f[0] = 0 /\ \A i \in 1..n : f[i] = Counted(f[i - 1], events[i])
  BY <1>1, <1>10
<1>12. f \in [0..n -> Nat]
  <2>1. \A i \in 1..n : f[i - 1] \in Nat => f[i] \in Nat
    BY <1>11 DEF Counted
  <2>2. f[0] \in Nat
    BY <1>11
  <2>3. \A i \in 0..n : f[i] \in Nat
    <3> HIDE DEF n
    <3> QED
      BY <1>1, <2>1, <2>2, Induction
  <2>4. PICK body : body = [i \in 0..n |-> IF i = 0 THEN 0 ELSE Counted(f[i - 1], events[i])]
    OBVIOUS
  <2>5. f = body /\ DOMAIN body = 0..n
    BY <1>10, <2>4
  <2> QED
    BY <1>10, <2>3
<1>13. H!Genuine(events) = f[n]
  BY <1>2, <1>8
<1> HIDE DEF Is
<1> QED
  BY <1>11, <1>12, <1>13

\* The streak after one more event follows from the streak before it.
LEMMA GenuineOfOneMore ==
    ASSUME NEW E, NEW events \in Seq(E), NEW e \in E
    PROVE  /\ H!Genuine(events) \in Nat
           /\ H!Genuine(Append(events, e)) = Counted(H!Genuine(events), e)
<1>1. PICK more : more = Append(events, e)
  OBVIOUS
<1>2. /\ more \in Seq(E) /\ Len(more) = Len(events) + 1 /\ Len(events) \in Nat
      /\ more[Len(events) + 1] = e /\ \A i \in 1..Len(events) : more[i] = events[i]
  BY <1>1
<1>3. PICK f \in [0..Len(events) -> Nat] :
          /\ f[0] = 0 /\ \A i \in 1..Len(events) : f[i] = Counted(f[i - 1], events[i])
          /\ H!Genuine(events) = f[Len(events)]
  BY GenuineCounts
<1>4. PICK g \in [0..Len(more) -> Nat] :
          /\ g[0] = 0 /\ \A i \in 1..Len(more) : g[i] = Counted(g[i - 1], more[i])
          /\ H!Genuine(more) = g[Len(more)]
  BY <1>2, GenuineCounts
<1>5. PICK apart : apart = {i \in 0..Len(events) : f[i] # g[i]}
  OBVIOUS
<1>6. apart = {}
  <2>1. SUFFICES ASSUME apart # {} PROVE FALSE
    OBVIOUS
  <2>0. apart \in SUBSET Nat
    BY <1>2, <1>5
  <2>2. PICK i \in apart : \A j \in apart : i <= j
    BY <2>0, <2>1, FirstIndex
  <2>3. i \in 1..Len(events) /\ i - 1 \in 0..Len(events) /\ i - 1 \notin apart
    BY <1>2, <1>3, <1>4, <1>5, <2>2
  <2>4. f[i - 1] = g[i - 1] /\ more[i] = events[i] /\ i \in 1..Len(more)
    BY <1>2, <1>5, <2>3
  <2>5. f[i] = g[i]
    BY <1>3, <1>4, <2>3, <2>4
  <2> QED
    BY <1>5, <2>2, <2>5
<1>7. f[Len(events)] = g[Len(events)]
  BY <1>2, <1>5, <1>6
<1>8. g[Len(more)] = Counted(g[Len(events)], e)
  BY <1>2, <1>4
<1> QED
  BY <1>1, <1>2, <1>3, <1>4, <1>7, <1>8

\* An empty log has no streak.
LEMMA GenuineOfNothing == H!Genuine(<<>>) = 0
<1>1. <<>> \in Seq({}) /\ Len(<<>>) = 0
  OBVIOUS
<1> QED
  BY <1>1, GenuineCounts

-----------------------------------------------------------------------------
Stage == {"idle", "deadlock", "contract", "aggregate", "divergence", "tasks", "streak", "decide",
          "pick", "work", "record", "cool", "log"}
Texts == Text \cup {H!NoText} \cup {[wrapped |-> FALSE, causes |-> {d}] : d \in Decision}
Entry == [task : Task \cup {None}, text : Texts, open : BOOLEAN,
          code : {None, "decision", "exhausted", "no_checks"}]
Event == [outcome : {"success", "failure", "limit"}, class : {None, "platform"},
          text : Text \cup {H!NoText}]
Doing == [stage : Stage, todo : SUBSET Task, doc : Seq(Entry), done : SUBSET Task,
          task : Task \cup {None}, end : Event \cup {None}]

\* No recovery beside a cycle; what TLC takes for granted of the constants.
Healable == /\ "race" \notin Env
            /\ Task \subseteq Nat /\ IsFiniteSet(Decision)
            /\ TaskKind \in [Task -> {None, "bootstrap", "test_setup"}]
            /\ None \notin Task \cup {"platform", "test_setup"} \cup (SUBSET Decision)
                             \cup (SUBSET H!Reversible)

HasOpen(t) == \E i \in DOMAIN blockers : blockers[i].open /\ blockers[i].task = t

HealTypes ==
    /\ status \in [Task -> {"pending", "in_progress", "blocked", "done"}]
    /\ reason \in [Task -> Text \cup {H!NoText}]
    /\ kind \in [Task -> {None, "bootstrap", "test_setup"}]
    /\ blockers \in Seq(Entry) /\ needed \cap decided = {}
    /\ heal \in [H!Process -> Doing] /\ heal["cycle"].stage # "tasks"
    /\ log \in Seq(Event) /\ streak \in Nat
    /\ torn \in BOOLEAN /\ unlogged \in BOOLEAN
    /\ listed = None => /\ \A p \in H!Process : heal[p] = H!Idle
                        /\ \A t \in Task : status[t] = "pending"
                        /\ blockers = <<>>

\* What a process holds goes with its stage.
StageOf(p) == LET h == heal[p] IN
    /\ h.stage = "idle" => h = H!Idle
    /\ h.stage \notin H!Healing => h.todo = {} /\ h.done = {}
    /\ h.stage \in {"work", "record"} => h.task \in Task
    /\ h.stage \notin {"deadlock", "contract", "work", "record"} => h.task = None
    /\ h.stage \in {"cool", "log"} => h.end \in Event
    /\ h.stage = "work" => status[h.task] = "in_progress"

\* What a stage has found to reopen.
Reopens(st, t) ==
    /\ st = "deadlock" => status[t] = "blocked" /\ H!ZeroChecks(reason[t]) /\ H!Eligible(t)
    /\ st = "contract" => status[t] = "blocked" /\ H!Scope(reason[t])
    /\ st \in H!ByBlocker =>
         /\ status[t] = "blocked"
         /\ \E i \in DOMAIN blockers :
                blockers[i].open /\ blockers[i].task = t /\ H!Fixable(st, blockers[i])
    /\ st = "tasks" => status[t] = "in_progress"

\* The tasks that a process has reopened and whose blockers it has not resolved yet.
Closing(p) == LET h == heal[p] IN
    {t \in Task : \/ h.stage \in {"deadlock", "contract"} /\ h.task = t
                  \/ h.stage \in H!ByBlocker /\ t \in h.done}

\* ... and the one that it has blocked, and not recorded yet.
Held(p) == Closing(p) \cup IF heal[p].stage = "record" THEN {heal[p].task} ELSE {}

LinkOf(p) == LET h == heal[p] IN
    /\ h.stage = "record" => status[h.task] = "blocked" /\ ~HasOpen(h.task)
    /\ \A t \in Closing(p) :
         /\ status[t] = "pending"
         /\ \A i \in DOMAIN blockers : blockers[i].open /\ blockers[i].task = t =>
                IF h.stage \in H!ByBlocker THEN H!Fixable(h.stage, blockers[i])
                ELSE H!Matches(h.stage, blockers[i])
    /\ \A t \in h.todo : Reopens(h.stage, t)
    /\ h.stage \in H!ByBlocker /\ h.todo \cup h.done # {} => h.doc = blockers

\* The open blockers of a task are the same, and say why it is blocked.
Speaks ==
    /\ \A i \in DOMAIN blockers : LET t == blockers[i].task IN
           blockers[i].open /\ t \in Task /\ status[t] = "blocked" => blockers[i].text = reason[t]
    /\ \A i, j \in DOMAIN blockers : LET t == blockers[i].task IN
           blockers[i].open /\ blockers[j].open /\ t \in Task /\ blockers[j].task = t
               => blockers[i] = blockers[j]

Agrees(p) == \A t \in Task : t \notin Held(p) => (status[t] = "blocked" <=> HasOpen(t))

\* The streak covers the log, and what is about to be logged, unless a success was not logged.
StreakOf(p) == LET h == heal[p] IN ~unlogged =>
    /\ h.stage = "log" => streak >= H!Genuine(Append(log, h.end))
    /\ h.stage # "log" \/ h.end.outcome # "success" => streak >= H!Genuine(log)

\* One process at most is at work; the files agree but for what it holds.
Others(p) == \A q \in H!Process : q # p => heal[q] = H!Idle
Acting(p) == Others(p) /\ StageOf(p) /\ StreakOf(p) /\ (~torn => Speaks /\ LinkOf(p) /\ Agrees(p))

HealInv == HealTypes /\ \E p \in H!Process : Acting(p)

\* Who is idle has nothing to do.
LEMMA IdleIs ==
    /\ H!Idle \in Doing /\ H!Idle.stage = "idle" /\ H!Idle.todo = {} /\ H!Idle.done = {}
    /\ H!Idle.task = None /\ H!Idle.doc = <<>> /\ H!Idle.end = None
<1>1. <<>> \in Seq(Entry)
  OBVIOUS
<1> QED
  BY <1>1 DEF H!Idle, Doing, Stage

\* Nothing is held by a process that is idle.
LEMMA IdleActs ==
    ASSUME NEW p \in H!Process, heal[p] = H!Idle
    PROVE  Held(p) = {} /\ StageOf(p) /\ LinkOf(p)
<1>1. Closing(p) = {} /\ heal[p].stage = "idle" /\ heal[p].todo = {}
  BY IdleIs DEF Closing, H!ByBlocker
<1> QED
  BY <1>1, IdleIs DEF Held, StageOf, LinkOf, H!ByBlocker

\* Who is not idle, or may begin, is the only one who acts.
LEMMA ActsAlone ==
    ASSUME Healable, HealInv, NEW p \in H!Process, heal[p].stage # "idle" \/ H!Quiet(p)
    PROVE  Acting(p)
<1>1. PICK q \in H!Process : Acting(q)
  BY DEF HealInv
<1>2. CASE q = p
  BY <1>1, <1>2
<1>3. CASE q # p
  <2>1. heal[p] = H!Idle /\ H!Idle.stage = "idle"
    BY <1>1, <1>3, IdleIs DEF Acting, Others
  <2>2. \A r \in H!Process : r # p => heal[r].stage = "idle"
    BY <2>1 DEF H!Quiet, Healable
  <2>3. heal[q] = H!Idle
    BY <1>1, <1>3, <2>2 DEF Acting, StageOf
  <2>4. Others(p)
    BY <1>1, <2>3 DEF Others, Acting
  <2>5. StageOf(p) /\ LinkOf(p) /\ Held(p) = {} /\ Held(q) = {}
    BY <2>1, <2>3, IdleActs
  <2>6. ~torn => Agrees(p) /\ Speaks
    BY <1>1, <2>5 DEF Acting, Agrees
  <2>7. StreakOf(p)
    BY <1>1, <2>1, <2>3 DEF Acting, StreakOf
  <2> QED
    BY <2>4, <2>5, <2>6, <2>7 DEF Acting
<1> QED
  BY <1>2, <1>3

\* In the first state no task is blocked and no blocker is open.
LEMMA HealInit == Healable /\ H!Init => HealInv
<1> SUFFICES ASSUME Healable, H!Init PROVE HealInv
  OBVIOUS
<1>1. /\ status = [t \in Task |-> "pending"] /\ reason = [t \in Task |-> H!NoText]
      /\ kind = TaskKind /\ blockers = <<>> /\ needed = {} /\ decided = {}
      /\ streak = 0 /\ log = <<>> /\ heal = [p \in H!Process |-> H!Idle]
      /\ torn = FALSE /\ unlogged = FALSE
  BY DEF H!Init
<1>2. heal \in [H!Process -> Doing] /\ heal["cycle"] = H!Idle
  BY <1>1, IdleIs DEF H!Process
<1>3. blockers \in Seq(Entry) /\ log \in Seq(Event) /\ DOMAIN blockers = {}
  BY <1>1
<1>4. /\ status \in [Task -> {"pending", "in_progress", "blocked", "done"}]
      /\ reason \in [Task -> Text \cup {H!NoText}]
      /\ kind \in [Task -> {None, "bootstrap", "test_setup"}]
  BY <1>1 DEF Healable
<1>5. \A p \in H!Process : heal[p] = H!Idle
  BY <1>1
<1>6. heal["cycle"].stage # "tasks" /\ streak \in Nat /\ streak >= H!Genuine(log)
      /\ \A t \in Task : status[t] = "pending"
  BY <1>1, <1>2, IdleIs, GenuineOfNothing
<1> HIDE DEF H!Init
<1>7. HealTypes
  BY <1>1, <1>2, <1>3, <1>4, <1>5, <1>6 DEF HealTypes
<1>8. "cycle" \in H!Process /\ Others("cycle")
  BY <1>1 DEF Others, H!Process
<1>9. Speaks /\ Agrees("cycle")
  BY <1>1, <1>3 DEF Speaks, Agrees, HasOpen
<1>10. StreakOf("cycle")
  BY <1>2, <1>6, IdleIs DEF StreakOf
<1> QED
  BY <1>2, <1>7, <1>8, <1>9, <1>10, IdleActs DEF HealInv, Acting

\* A process goes on; the others stay as they are.
LEMMA OneMoves ==
    ASSUME HealTypes, NEW p \in H!Process, Others(p), NEW h \in Doing,
           p = "cycle" => h.stage # "tasks", heal' = [heal EXCEPT ![p] = h]
    PROVE  /\ Others(p)' /\ heal'[p] = h
           /\ heal' \in [H!Process -> Doing] /\ heal'["cycle"].stage # "tasks"
  BY DEF HealTypes, Others, H!Process

\* What a stage has to do are tasks it may reopen.
LEMMA TodoIs ==
    ASSUME HealTypes, NEW st \in Stage, NEW t \in H!Todo(st)
    PROVE  t \in Task /\ Reopens(st, t) /\ st \in H!Healing
<1>1. CASE st \in {"deadlock", "contract", "tasks"}
  BY <1>1 DEF H!Todo, Reopens, H!ByBlocker, H!Healing
<1>2. CASE st \in H!ByBlocker
  <2>1. t \in Task /\ status[t] = "blocked"
        /\ \E b \in H!OpenBlockers : b.task = t /\ H!Fixable(st, b)
    BY <1>2 DEF H!Todo, H!ByBlocker
  <2>2. \A b \in H!OpenBlockers : \E i \in DOMAIN blockers : blockers[i].open /\ b = blockers[i]
    BY DEF H!OpenBlockers
  <2> QED
    BY <1>2, <2>1, <2>2 DEF Reopens, H!ByBlocker, H!Healing
<1>3. CASE st \notin {"deadlock", "contract", "tasks"} \cup H!ByBlocker
  BY <1>3 DEF H!Todo, H!ByBlocker
<1> QED
  BY <1>1, <1>2, <1>3

\* A stage stagearts with nothing reopened.
LEMMA AtIs ==
    ASSUME HealTypes, NEW st \in Stage
    PROVE  LET h == H!At(st) IN
           /\ h \in Doing /\ h.stage = st /\ h.todo = H!Todo(st) /\ h.done = {}
           /\ h.task = None /\ (st \in H!ByBlocker => h.doc = blockers)
           /\ st = "idle" => h = H!Idle
<1>1. H!Todo(st) \in SUBSET Task
  BY TodoIs
<1>2. H!Idle = [stage |-> "idle", todo |-> {}, doc |-> <<>>, done |-> {}, task |-> None,
                end |-> None]
  BY DEF H!Idle
<1>3. blockers \in Seq(Entry) /\ <<>> \in Seq(Entry)
  BY DEF HealTypes
<1>4. st = "idle" => H!Todo(st) = {} /\ st \notin H!ByBlocker
  BY TodoIs DEF H!Healing, H!ByBlocker
<1>5. PICK doc, h : /\ doc = (IF st \in H!ByBlocker THEN blockers ELSE <<>>)
                    /\ h = [stage |-> st, todo |-> H!Todo(st), doc |-> doc, done |-> {},
                            task |-> None, end |-> None]
  OBVIOUS
<1>6. H!At(st) = h
  BY <1>5 DEF H!At
<1>7. doc \in Seq(Entry)
  BY <1>3, <1>5
<1>8. h \in Doing
  BY <1>1, <1>5, <1>7 DEF Doing
<1>9. st = "idle" => h = H!Idle
  BY <1>2, <1>4, <1>5
<1> QED
  BY <1>5, <1>6, <1>8, <1>9

\* The stages follow one another.
LEMMA AfterIs ==
    ASSUME NEW p \in H!Process, NEW st \in H!Healing, p = "cycle" => st # "tasks"
    PROVE  /\ H!After(p, st) \in {"contract", "aggregate", "divergence", "tasks", "streak",
                                     "decide"}
           /\ p = "cycle" => H!After(p, st) # "tasks"
<1>1. PICK s : s = H!Stages(p)
  OBVIOUS
<1>2. /\ Len(s) = 6 /\ s[1] = "deadlock" /\ s[2] = "contract" /\ s[3] = "aggregate"
      /\ s[4] = "divergence" /\ s[5] = (IF p = "recover" THEN "tasks" ELSE "decide")
      /\ s[6] = (IF p = "recover" THEN "streak" ELSE "pick")
  BY <1>1 DEF H!Stages
<1>3. \E i \in 1..6 : s[i] = st
  BY <1>2 DEF H!Healing, H!Process
<1>4. PICK i : i = CHOOSE j \in 1..6 : H!Stages(p)[j] = st
  OBVIOUS
<1>5. i \in 1..6 /\ s[i] = st
  BY <1>1, <1>3, <1>4
<1>6. i \in 1..5 /\ (p = "cycle" => i \in 1..4)
  BY <1>2, <1>5 DEF H!Healing, H!Process
<1>7. H!After(p, st) = IF i = 6 THEN "idle" ELSE H!Stages(p)[i + 1]
  BY <1>4 DEF H!After
<1>8. H!After(p, st) = s[i + 1]
  BY <1>1, <1>6, <1>7
<1> HIDE DEF H!After
<1> QED
  BY <1>2, <1>6, <1>8 DEF H!Process

\* Resolving some entries of the list leaves the others as they were.
LEMMA ResolvedIs ==
    ASSUME NEW doc \in Seq(Entry), NEW S
    PROVE  LET r == H!Resolved(doc, S) IN
           /\ r \in Seq(Entry) /\ DOMAIN r = DOMAIN doc
           /\ \A i \in DOMAIN doc : /\ r[i].open <=> doc[i].open /\ doc[i] \notin S
                                    /\ r[i].open => r[i] = doc[i]
<1>1. PICK r : r = H!Resolved(doc, S)
  OBVIOUS
<1>2. /\ DOMAIN r = DOMAIN doc
      /\ \A i \in DOMAIN doc : r[i] = IF doc[i].open /\ doc[i] \in S
                                      THEN [doc[i] EXCEPT !.open = FALSE] ELSE doc[i]
  BY <1>1 DEF H!Resolved
<1>3. \A i \in DOMAIN doc : doc[i] \in Entry
  OBVIOUS
<1>4. ASSUME NEW b \in Entry
      PROVE  [b EXCEPT !.open = FALSE] \in Entry /\ [b EXCEPT !.open = FALSE].open = FALSE
  BY DEF Entry
<1>5. \A i \in DOMAIN doc : r[i] \in Entry
  BY <1>2, <1>3, <1>4
<1>6. r \in Seq(Entry)
  <2>1. DOMAIN doc = 1..Len(doc) /\ Len(doc) \in Nat
    OBVIOUS
  <2>2. r = [i \in 1..Len(doc) |-> r[i]]
    BY <1>1, <2>1 DEF H!Resolved
  <2> QED
    BY <1>5, <2>1, <2>2
<1>7. \A i \in DOMAIN doc : doc[i].open \in BOOLEAN
  BY <1>3 DEF Entry
<1> QED
  BY <1>1, <1>2, <1>3, <1>4, <1>6, <1>7

\* Resolving entries leaves the others as they are.
LEMMA ResolvingKeeps ==
    ASSUME HealTypes, Speaks, NEW S, blockers' = H!Resolved(blockers, S),
           UNCHANGED <<status, reason>>
    PROVE  /\ blockers' \in Seq(Entry) /\ Speaks'
           /\ \A t : HasOpen(t)' <=> \E i \in DOMAIN blockers :
                  blockers[i].open /\ blockers[i].task = t /\ blockers[i] \notin S
<1>1. /\ blockers' \in Seq(Entry) /\ DOMAIN blockers' = DOMAIN blockers
      /\ \A i \in DOMAIN blockers :
             /\ blockers'[i].open <=> blockers[i].open /\ blockers[i] \notin S
             /\ blockers'[i].open => blockers'[i] = blockers[i]
  BY ResolvedIs DEF HealTypes
<1>2. Speaks'
  BY <1>1 DEF Speaks
<1>3. \A t : HasOpen(t)' <=> \E i \in DOMAIN blockers :
          blockers[i].open /\ blockers[i].task = t /\ blockers[i] \notin S
  BY <1>1 DEF HasOpen
<1> QED
  BY <1>1, <1>2, <1>3

\* What project_start records are blockers of the project.
LEMMA StartKeeps ==
    ASSUME Healable, HealInv, H!ProjectStart
    PROVE  HealInv'
<1> DEFINE Decided == {H!Blocker(None, [wrapped |-> FALSE, causes |-> {d}], "decision") :
                           d \in Decision}
<1>1. /\ listed = None /\ heal = heal' /\ blockers = <<>> /\ torn' = torn
      /\ \A p \in H!Process : heal[p] = H!Idle
      /\ \A t \in Task : status[t] = "pending"
      /\ UNCHANGED <<status, reason, kind, streak, log, unlogged>>
  BY DEF H!ProjectStart, HealInv, HealTypes
<1>2. PICK chosen \in SUBSET Decision :
          LET asked == H!SetToSeq(chosen \ H!Reversible)
              recorded[i \in 0..Len(asked)] ==
                  IF i = 0 THEN <<>>
                  ELSE H!Added(recorded[i - 1],
                          H!Blocker(None, [wrapped |-> FALSE, causes |-> {asked[i]}], "decision"))
          IN  /\ listed' = chosen
              /\ needed' = chosen \ H!Reversible /\ decided' = chosen \cap H!Reversible
              /\ blockers' = recorded[Len(asked)]
  BY Zenon DEF H!ProjectStart
<1>3. PICK asked : asked = H!SetToSeq(chosen \ H!Reversible)
  OBVIOUS
<1>4. asked \in Seq(Decision)
  <2>1. PICK rest : rest = chosen \ H!Reversible
    OBVIOUS
  <2>2. IsFiniteSet(rest) /\ rest \subseteq Decision
    BY <2>1, FS_Subset DEF Healable
  <2>3. PICK n \in Nat : n = Cardinality(rest) /\ ExistsBijection(1..n, rest)
    BY <2>2, FS_CardinalityType
  <2>4. \E f \in [1..n -> rest] : H!IsInjective(f)
    BY <2>3 DEF ExistsBijection, Bijection, Injection, IsInjective, H!IsInjective
  <2>5. asked \in [1..n -> rest]
    <3>1. H!Cardinality(rest) = Cardinality(rest)
      BY DEF Cardinality, H!Cardinality, IsFiniteSet, H!IsFiniteSet
    <3>2. asked = CHOOSE f \in [1..n -> rest] : H!IsInjective(f)
      BY <1>3, <2>1, <2>3, <3>1 DEF H!SetToSeq
    <3> QED
      BY <2>4, <3>2
  <2> QED
    BY <2>2, <2>5
<1>5. PICK n \in Nat : n = Len(asked)
  BY <1>4
<1>6. PICK entry1 : entry1 = [i \in 1..n |->
          H!Blocker(None, [wrapped |-> FALSE, causes |-> {asked[i]}], "decision")]
  OBVIOUS
<1>7. \A i \in 1..n : entry1[i] \in Decided
  <2>1. \A i \in 1..n : asked[i] \in Decision
    BY <1>4, <1>5
  <2>2. \A d \in Decision :
            H!Blocker(None, [wrapped |-> FALSE, causes |-> {d}], "decision") \in Decided
    OBVIOUS
  <2> HIDE DEF Decided
  <2> QED
    BY <1>6, <2>1, <2>2
<1> DEFINE Is(g) == g = [i \in 0..Len(asked) |->
                           IF i = 0 THEN <<>>
                           ELSE H!Added(g[i - 1],
                                   H!Blocker(None, [wrapped |-> FALSE, causes |-> {asked[i]}],
                                             "decision"))]
<1>8. PICK f : f = CHOOSE g : Is(g)
  OBVIOUS
<1>9. listed' = chosen /\ needed' = chosen \ H!Reversible /\ decided' = chosen \cap H!Reversible
      /\ blockers' = f[n]
  BY <1>2, <1>3, <1>5, <1>8
<1>10. \A doc \in Seq(Decided), b \in Decided : H!Added(doc, b) \in Seq(Decided)
  <2> HIDE DEF Decided
  <2> QED
    BY DEF H!Added
<1>11. \E g : Is(g)
  <2>1. PICK F : F = [i \in 1..n |-> [doc \in Seq(Decided) |-> H!Added(doc, entry1[i])]]
    OBVIOUS
  <2>2. <<>> \in Seq(Decided)
    OBVIOUS
  <2> HIDE DEF Decided
  <2>3. F \in [1..n -> [Seq(Decided) -> Seq(Decided)]]
    BY <1>7, <1>10, <2>1
  <2>4. Stepwise(n, Seq(Decided), <<>>, F)
    BY <2>2, <2>3 DEF Stepwise
  <2>5. PICK g : Follows(g, n, Seq(Decided), <<>>, F)
    BY <2>4, RecursionExists
  <2>6. /\ g \in [0..n -> Seq(Decided)] /\ g[0] = <<>>
        /\ \A i \in 1..n : g[i] = F[i][g[i - 1]]
    BY <2>5 DEF Follows
  <2>7. \A i \in 1..n : g[i] = H!Added(g[i - 1], entry1[i])
    <3>1. \A i \in 1..n : g[i - 1] \in Seq(Decided)
      BY <2>6
    <3> QED
      BY <2>1, <2>6, <3>1
  <2>8. \A i \in 0..Len(asked) :
            g[i] = IF i = 0 THEN <<>>
                   ELSE H!Added(g[i - 1],
                           H!Blocker(None, [wrapped |-> FALSE, causes |-> {asked[i]}], "decision"))
    <3>1. \A i \in 1..n : entry1[i] = H!Blocker(None, [wrapped |-> FALSE, causes |-> {asked[i]}],
                                                "decision")
      BY <1>6
    <3> QED
      BY <1>5, <2>6, <2>7, <3>1
  <2>9. DOMAIN g = 0..Len(asked) /\ g = [i \in 0..Len(asked) |-> g[i]]
    BY <1>5, <2>6
  <2>10. Is(g)
    BY <2>8, <2>9
  <2> QED
    BY <2>10
<1>12. Is(f)
  BY <1>8, <1>11
<1>13. f[0] = <<>> /\ \A i \in 1..n : f[i] = H!Added(f[i - 1], entry1[i])
  <2>1. \A i \in 0..Len(asked) :
            f[i] = IF i = 0 THEN <<>>
                   ELSE H!Added(f[i - 1],
                           H!Blocker(None, [wrapped |-> FALSE, causes |-> {asked[i]}], "decision"))
    BY <1>12
  <2>2. n \in Nat /\ n = Len(asked)
    BY <1>5
  <2>3. f[0] = <<>>
    <3>1. 0 \in 0..Len(asked)
      BY <2>2
    <3> QED
      BY <2>1, <3>1, Zenon
  <2>4. ASSUME NEW i \in 1..n
        PROVE  f[i] = H!Added(f[i - 1], entry1[i])
    <3>1. i \in 0..Len(asked) /\ i # 0
      BY <2>2
    <3>2. entry1[i] = H!Blocker(None, [wrapped |-> FALSE, causes |-> {asked[i]}], "decision")
      BY <1>6
    <3> QED
      BY <2>1, <3>1, <3>2
  <2> QED
    BY <2>3, <2>4
<1> HIDE DEF Is, Decided
<1>14. f[n] \in Seq(Decided)
  <2>1. <<>> \in Seq(Decided)
    OBVIOUS
  <2>2. \A i \in 1..n : f[i - 1] \in Seq(Decided) => f[i] \in Seq(Decided)
    BY <1>7, <1>10, <1>13
  <2>3. f[0] \in Seq(Decided)
    BY <1>13, <2>1
  <2>4. \A i \in 0..n : f[i] \in Seq(Decided)
    BY <2>2, <2>3, Induction
  <2> QED
    BY <2>4
<1>15. \A b \in Decided : b \in Entry /\ b.task = None
  <2>1. ASSUME NEW d \in Decision
        PROVE  LET b == H!Blocker(None, [wrapped |-> FALSE, causes |-> {d}], "decision") IN
               b \in Entry /\ b.task = None
    <3>1. PICK words \in Texts : words = [wrapped |-> FALSE, causes |-> {d}]
      BY DEF Texts
    <3> QED
      BY <3>1 DEF H!Blocker, Entry
  <2> QED
    BY <2>1 DEF Decided
<1>16. blockers' \in Seq(Entry) /\ \A i \in DOMAIN blockers' : blockers'[i].task \notin Task
  BY <1>9, <1>14, <1>15 DEF Healable
<1>17. HealTypes'
  <2>1. listed' # None /\ needed' \cap decided' = {}
    BY <1>9 DEF Healable
  <2> QED
    BY <1>1, <1>16, <2>1 DEF HealInv, HealTypes
<1>18. PICK p \in H!Process : Acting(p)
  BY DEF HealInv
<1>19. heal'[p] = H!Idle /\ Others(p)'
  BY <1>1 DEF Others
<1>20. Speaks' /\ Agrees(p)'
  BY <1>1, <1>16 DEF Speaks, Agrees, HasOpen
<1>21. StageOf(p)' /\ LinkOf(p)'
  BY <1>19, IdleIs DEF StageOf, LinkOf, Closing, H!ByBlocker
<1>22. StreakOf(p)'
  BY <1>1, <1>18 DEF Acting, StreakOf
<1> QED
  BY <1>17, <1>18, <1>19, <1>20, <1>21, <1>22 DEF HealInv, Acting

\* A project of an old version gets its list of blockers from its backlog.
LEMMA LegacyKeeps ==
    ASSUME Healable, HealInv, H!LegacyProject
    PROVE  HealInv'
<1>1. /\ listed = None /\ heal = heal' /\ blockers = <<>> /\ UNCHANGED <<torn, unlogged, kind>>
      /\ \A p \in H!Process : heal[p] = H!Idle
      /\ \A t \in Task : status[t] = "pending"
  BY DEF H!LegacyProject, HealInv, HealTypes
<1>2. PICK t \in Task, words \in Text, twice \in BOOLEAN, chosen \in SUBSET H!Reversible :
          /\ listed' = chosen /\ needed' = chosen /\ decided' = {}
          /\ status' = [status EXCEPT ![t] = "blocked"]
          /\ reason' = [reason EXCEPT ![t] = words]
          /\ LET b == H!Blocker(t, words, None) IN blockers' = IF twice THEN <<b, b>> ELSE <<b>>
          /\ streak' = 1 /\ log' = <<[outcome |-> "failure", class |-> None, text |-> words]>>
  BY DEF H!LegacyProject
<1>3. PICK b : b = H!Blocker(t, words, None)
  OBVIOUS
<1>4. b \in Entry /\ b.task = t /\ b.text = words /\ b.open
  BY <1>3 DEF H!Blocker, Entry, Texts
<1>5. blockers' \in Seq(Entry) /\ 1 \in DOMAIN blockers'
      /\ \A i \in DOMAIN blockers' : blockers'[i] = b
  BY <1>2, <1>3, <1>4
<1>6. PICK e : e = [outcome |-> "failure", class |-> None, text |-> words]
  OBVIOUS
<1>7. e \in Event /\ e.outcome = "failure" /\ e.class = None
  BY <1>6 DEF Event
<1>8. log' \in Seq(Event) /\ H!Genuine(log') \in Nat /\ H!Genuine(log') <= 1
  <2>1. <<>> \in Seq(Event) /\ Append(<<>>, e) = <<e>>
    OBVIOUS
  <2>2. H!Genuine(<<e>>) = Counted(0, e)
    BY <1>7, <2>1, GenuineOfOneMore, GenuineOfNothing
  <2>3. Counted(0, e) \in {0, 1}
    BY DEF Counted
  <2>4. log' = <<e>> /\ <<e>> \in Seq(Event)
    BY <1>2, <1>6, <1>7
  <2> QED
    BY <2>2, <2>3, <2>4
<1>9. /\ status' \in [Task -> {"pending", "in_progress", "blocked", "done"}]
      /\ reason' \in [Task -> Text \cup {H!NoText}]
  BY <1>2 DEF HealInv, HealTypes
<1>10. listed' # None /\ needed' \cap decided' = {} /\ streak' \in Nat /\ streak' >= H!Genuine(log')
  BY <1>2, <1>8 DEF Healable
<1>11. HealTypes'
  BY <1>1, <1>5, <1>8, <1>9, <1>10 DEF HealInv, HealTypes
<1>12. PICK p \in H!Process : TRUE
  BY DEF H!Process
<1>13. heal'[p] = H!Idle /\ Others(p)'
  BY <1>1 DEF Others
<1>14. \A u \in Task : HasOpen(u)' <=> u = t
  BY <1>4, <1>5 DEF HasOpen
<1>15. \A u \in Task : status'[u] = "blocked" <=> u = t
  BY <1>1, <1>2 DEF HealInv, HealTypes
<1>16. Agrees(p)'
  BY <1>14, <1>15 DEF Agrees
<1>17. reason'[t] = words
  BY <1>2 DEF HealInv, HealTypes
<1>18. Speaks'
  BY <1>4, <1>5, <1>17 DEF Speaks
<1>19. StageOf(p)' /\ LinkOf(p)'
  BY <1>13, IdleIs DEF StageOf, LinkOf, Closing, H!ByBlocker
<1>20. StreakOf(p)'
  BY <1>10, <1>13, IdleIs DEF StreakOf
<1> QED
  BY <1>11, <1>12, <1>13, <1>16, <1>18, <1>19, <1>20 DEF HealInv, Acting

\* A step of one process keeps the invariant if it keeps its own part of it.
LEMMA ActingIsEnough ==
    ASSUME NEW p \in H!Process, HealTypes', Acting(p)' PROVE HealInv'
  BY DEF HealInv

\* With nothing held before and after, and no task blocked or unblocked, the files agree.
LEMMA AgreeStill ==
    ASSUME NEW p \in H!Process, Speaks, Agrees(p), Held(p) = {}, Held(p)' = {},
           \A t \in Task : status'[t] = "blocked" <=> status[t] = "blocked",
           UNCHANGED <<reason, blockers>>
    PROVE  Speaks' /\ Agrees(p)'
  BY DEF Speaks, Agrees, HasOpen

\* Between other stages the streak stays.
LEMMA StreakStill ==
    ASSUME NEW p \in H!Process, Acting(p), heal[p].stage # "log", heal'[p].stage # "log",
           UNCHANGED <<streak, log, unlogged>>
    PROVE  StreakOf(p)'
  BY DEF Acting, StreakOf

\* A cycle or a command begins with nothing in its hands.
LEMMA BeginKeeps ==
    ASSUME Healable, HealInv, NEW p \in H!Process, H!Begin(p)
    PROVE  HealInv'
<1>1. HealTypes /\ Acting(p) /\ heal[p].stage = "idle" /\ listed # None
      /\ heal' = [heal EXCEPT ![p] = H!At("deadlock")]
      /\ UNCHANGED <<status, reason, kind, blockers, needed, decided, streak, log, listed, torn,
                     unlogged>>
  BY ActsAlone DEF H!Begin, HealInv
<1>2. PICK h : h = H!At("deadlock")
  OBVIOUS
<1>3. h \in Doing /\ h.stage = "deadlock" /\ h.todo = H!Todo("deadlock") /\ h.done = {}
      /\ h.task = None
  BY <1>1, <1>2, AtIs DEF Stage
<1>4. Others(p)' /\ heal'[p] = h /\ heal' \in [H!Process -> Doing] /\ heal'["cycle"].stage # "tasks"
  BY <1>1, <1>2, <1>3, OneMoves DEF Acting
<1>5. HealTypes'
  BY <1>1, <1>4 DEF HealTypes
<1>6. StageOf(p)'
  BY <1>3, <1>4 DEF StageOf, H!Healing
<1>7. Held(p) = {} /\ Held(p)' = {} /\ Closing(p)' = {}
  <2>1. heal[p] = H!Idle
    BY <1>1 DEF Acting, StageOf
  <2>2. Closing(p)' = {}
    BY <1>3, <1>4 DEF Closing, Healable, H!ByBlocker
  <2> QED
    BY <1>3, <1>4, <2>1, <2>2, IdleActs DEF Held
<1>8. \A t \in H!Todo("deadlock") : Reopens("deadlock", t)
  BY <1>1, TodoIs DEF Stage
<1>9. LinkOf(p)'
  <2>1. \A t \in h.todo : Reopens("deadlock", t)'
    BY <1>1, <1>3, <1>8 DEF Reopens, H!ByBlocker, H!Eligible, H!Scheduled
  <2> QED
    BY <1>3, <1>4, <1>7, <2>1 DEF LinkOf, H!ByBlocker
<1>10. ~torn' => Speaks' /\ Agrees(p)'
  BY <1>1, <1>7, AgreeStill DEF Acting
<1>11. StreakOf(p)'
  BY <1>1, <1>3, <1>4, StreakStill
<1> QED
  BY <1>4, <1>5, <1>6, <1>9, <1>10, <1>11, ActingIsEnough DEF Acting

\* A process with nothing held goes on to a stage at which it holds nothing.
LEMMA GoesOn ==
    ASSUME Healable, HealTypes, NEW p \in H!Process, Acting(p), NEW h \in Doing,
           h.stage \in {"idle", "pick", "cool", "log"}, h.todo = {}, h.done = {}, h.task = None,
           h.stage = "idle" => h = H!Idle, h.stage \in {"cool", "log"} => h.end \in Event,
           listed # None,
           Held(p) = {} \/ torn', blockers' \in Seq(Entry),
           heal' = [heal EXCEPT ![p] = h], listed' = listed, torn' \in BOOLEAN,
           \A t \in Task : status'[t] = "blocked" <=> status[t] = "blocked",
           status' \in [Task -> {"pending", "in_progress", "blocked", "done"}],
           needed' \cap decided' = {}, log' \in Seq(Event), streak' \in Nat,
           unlogged' \in BOOLEAN, heal'[p] = h => StreakOf(p)', torn => torn',
           ~torn' => Speaks' /\ \A t \in Task : HasOpen(t)' <=> HasOpen(t),
           UNCHANGED <<reason, kind>>
    PROVE  HealInv'
<1>1. p = "cycle" => h.stage # "tasks"
  OBVIOUS
<1>2. Others(p)' /\ heal'[p] = h /\ heal' \in [H!Process -> Doing] /\ heal'["cycle"].stage # "tasks"
  BY <1>1, OneMoves DEF Acting
<1>3. HealTypes'
  BY <1>2 DEF HealTypes
<1>4. StageOf(p)'
  BY <1>2 DEF StageOf, H!Healing
<1>5. Closing(p)' = {} /\ Held(p)' = {}
  BY <1>2 DEF Closing, Held, H!ByBlocker
<1>6. LinkOf(p)'
  BY <1>2, <1>5 DEF LinkOf, H!ByBlocker
<1>7. ~torn' => Agrees(p)'
  BY <1>5 DEF Agrees, Acting
<1> QED
  BY <1>2, <1>3, <1>4, <1>6, <1>7, ActingIsEnough DEF Acting

\* Outside the stages that reopen or record nobody holds a task.
LEMMA EarlyStagesHoldNothing ==
    ASSUME HealTypes, NEW p \in H!Process, Acting(p),
           heal[p].stage \in {"idle", "tasks", "streak", "decide", "pick", "work", "cool", "log"}
    PROVE  Held(p) = {}
  BY DEF Held, Closing, H!ByBlocker

\* A cycle ends without a task.
LEMMA NoTaskKeeps ==
    ASSUME Healable, HealInv, NEW p \in H!Process, H!NoTask(p)
    PROVE  HealInv'
<1>1. HealTypes /\ Acting(p) /\ heal[p].stage = "pick" /\ heal' = [heal EXCEPT ![p] = H!Idle]
      /\ UNCHANGED <<status, reason, kind, blockers, needed, decided, streak, log, listed, torn,
                     unlogged>>
  BY ActsAlone DEF H!NoTask, HealInv
<1>2. Held(p) = {} /\ listed # None
  BY <1>1, IdleIs, EarlyStagesHoldNothing DEF HealTypes
<1>3. \A t \in Task : HasOpen(t)' <=> HasOpen(t)
  BY <1>1 DEF HasOpen
<1>4. ~torn' => Speaks'
  BY <1>1 DEF Acting, Speaks
<1>5. heal'[p] = H!Idle => StreakOf(p)'
  BY <1>1, IdleIs, StreakStill
<1> QED
  BY <1>1, <1>2, <1>3, <1>4, <1>5, IdleIs, GoesOn DEF HealTypes

\* The streak is read from the log again.
LEMMA StreakKeeps ==
    ASSUME Healable, HealInv, NEW p \in H!Process, H!ReconstructStreak(p)
    PROVE  HealInv'
<1>1. HealTypes /\ Acting(p) /\ heal[p].stage = "streak" /\ heal' = [heal EXCEPT ![p] = H!Idle]
      /\ streak' = H!Genuine(log) /\ unlogged' = FALSE
      /\ UNCHANGED <<status, reason, kind, blockers, needed, decided, log, listed, torn>>
  BY ActsAlone DEF H!ReconstructStreak, HealInv
<1>2. Held(p) = {} /\ listed # None
  BY <1>1, IdleIs, EarlyStagesHoldNothing DEF HealTypes
<1>3. \A t \in Task : HasOpen(t)' <=> HasOpen(t)
  BY <1>1 DEF HasOpen
<1>4. ~torn' => Speaks'
  BY <1>1 DEF Acting, Speaks
<1>5. H!Genuine(log) \in Nat
  <2>1. log \in Seq(Event)
    BY <1>1 DEF HealTypes
  <2>2. PICK g \in [0..Len(log) -> Nat] : H!Genuine(log) = g[Len(log)]
    BY <2>1, GenuineCounts
  <2> QED
    BY <2>1, <2>2
<1>6. streak' \in Nat /\ streak' >= H!Genuine(log') /\ (heal'[p] = H!Idle => StreakOf(p)')
  BY <1>1, <1>5, IdleIs DEF StreakOf
<1> QED
  BY <1>1, <1>2, <1>3, <1>4, <1>6, IdleIs, GoesOn DEF HealTypes

\* A blocker whose decision is there is resolved.
LEMMA AutoResolveKeeps ==
    ASSUME Healable, HealInv, NEW p \in H!Process, H!AutoResolve(p)
    PROVE  HealInv'
<1>1. PICK h : h = [H!Idle EXCEPT !.stage = "pick"]
  OBVIOUS
<1>2. PICK S : S = {b \in H!OpenBlockers :
                        b.task = None /\ b.text.causes \subseteq needed \cap H!Reversible}
  OBVIOUS
<1>3. HealTypes /\ Acting(p) /\ heal[p].stage = "decide" /\ heal' = [heal EXCEPT ![p] = h]
      /\ blockers' = H!Resolved(blockers, S)
      /\ needed' = needed \ H!Reversible /\ decided' = decided \cup (needed \cap H!Reversible)
      /\ UNCHANGED <<status, reason, kind, streak, log, listed, torn, unlogged>>
  BY <1>1, <1>2, ActsAlone DEF H!AutoResolve, HealInv
<1>4. h \in Doing /\ h.stage = "pick" /\ h.todo = {} /\ h.done = {} /\ h.task = None
  BY <1>1, IdleIs DEF Doing, Stage, H!Idle
<1>5. Held(p) = {} /\ listed # None
  BY <1>3, IdleIs, EarlyStagesHoldNothing DEF HealTypes
<1>6. \A b \in S : b.task \notin Task
  BY <1>2 DEF Healable
<1>7. blockers' \in Seq(Entry)
  BY <1>3, ResolvedIs DEF HealTypes
<1>8. ~torn' => Speaks' /\ \A t \in Task : HasOpen(t)' <=> HasOpen(t)
  <2>1. SUFFICES ASSUME ~torn' PROVE Speaks' /\ \A t \in Task : HasOpen(t)' <=> HasOpen(t)
    OBVIOUS
  <2>2. Speaks' /\ \A t : HasOpen(t)' <=> \E i \in DOMAIN blockers :
            blockers[i].open /\ blockers[i].task = t /\ blockers[i] \notin S
    BY <1>3, <2>1, ResolvingKeeps DEF Acting
  <2> QED
    BY <1>6, <2>2 DEF HasOpen
<1>9. needed' \cap decided' = {}
  BY <1>3 DEF HealTypes
<1>10. heal'[p] = h => StreakOf(p)'
  BY <1>3, <1>4, StreakStill
<1> QED
  BY <1>3, <1>4, <1>5, <1>7, <1>8, <1>9, <1>10, GoesOn DEF HealTypes

\* What a stage has found carries a signature.
LEMMA ReopenedIsKnown ==
    ASSUME HealTypes, NEW st \in H!Healing, NEW t \in Task, Reopens(st, t), Speaks
    PROVE  /\ status[t] = (IF st = "tasks" THEN "in_progress" ELSE "blocked")
           /\ st # "tasks" => H!Signature(t)
<1>1. CASE st = "deadlock"
  BY <1>1 DEF Reopens, H!Signature
<1>2. CASE st = "contract"
  BY <1>2 DEF Reopens, H!Signature
<1>3. CASE st = "tasks"
  BY <1>3 DEF Reopens
<1>4. CASE st \in H!ByBlocker
  <2>1. PICK i \in DOMAIN blockers :
            blockers[i].open /\ blockers[i].task = t /\ H!Fixable(st, blockers[i])
    BY <1>4 DEF Reopens
  <2>2. status[t] = "blocked" /\ blockers[i].text = reason[t]
    BY <1>4, <2>1 DEF Reopens, Speaks
  <2>3. CASE st = "aggregate"
    BY <2>1, <2>2, <2>3 DEF H!Fixable, H!Signature
  <2>4. CASE st = "divergence"
    BY <2>1, <2>2, <2>4 DEF H!Fixable, H!Signature
  <2> QED
    BY <1>4, <2>2, <2>3, <2>4 DEF H!ByBlocker
<1> QED
  BY <1>1, <1>2, <1>3, <1>4 DEF H!Healing, H!ByBlocker

\* A task is reopened, and only one with a signature.
LEMMA ReopenKeeps ==
    ASSUME Healable, HealInv, NEW p \in H!Process, H!Reopen(p)
    PROVE  /\ HealInv'
           /\ ~torn => \A t \in Task : status[t] = "blocked" /\ status'[t] # "blocked" =>
                  status'[t] = "pending" /\ H!Signature(t)
<1>1. HealTypes /\ Acting(p) /\ heal[p].stage \in H!Healing /\ heal[p].todo # {}
      /\ heal[p].task = None
      /\ UNCHANGED <<blockers, needed, decided, streak, log, listed, torn, unlogged>>
  BY ActsAlone DEF H!Reopen, HealInv, H!Healing
<1>2. PICK h : h = heal[p]
  OBVIOUS
<1>3. h \in Doing /\ h.todo \subseteq Task /\ h.done \subseteq Task /\ h.stage \in H!Healing
      /\ listed # None
  BY <1>1, <1>2, IdleIs DEF HealTypes, Doing, H!Healing
<1>4. PICK t : t = CHOOSE u \in h.todo : \A v \in h.todo : u <= v
  OBVIOUS
<1>5. t \in h.todo /\ t \in Task
  <2>1. h.todo \in SUBSET Nat /\ h.todo # {}
    BY <1>1, <1>2, <1>3 DEF Healable
  <2>2. \E u \in h.todo : \A v \in h.todo : u <= v
    BY <2>1, FirstIndex
  <2> QED
    BY <1>3, <1>4, <2>2
<1>6. PICK mine : mine = IF h.stage \in {"deadlock", "contract"} THEN t ELSE None
  OBVIOUS
<1>7. PICK k : k = [h EXCEPT !.todo = h.todo \ {t}, !.done = h.done \cup {t}, !.task = mine]
  OBVIOUS
<1>8. k \in Doing /\ k.stage = h.stage /\ k.todo = h.todo \ {t} /\ k.done = h.done \cup {t}
      /\ k.task = mine /\ k.doc = h.doc /\ k.end = h.end
  BY <1>3, <1>5, <1>6, <1>7 DEF Doing
<1>9. /\ status' = [status EXCEPT ![t] = "pending"]
      /\ reason' = IF h.stage = "tasks" THEN reason ELSE [reason EXCEPT ![t] = H!NoText]
      /\ kind' = IF h.stage = "deadlock" THEN [kind EXCEPT ![t] = "bootstrap"] ELSE kind
      /\ heal' = [heal EXCEPT ![p] = k]
  BY <1>2, <1>4, <1>6, <1>7 DEF H!Reopen
<1>10. Others(p)' /\ heal'[p] = k /\ heal' \in [H!Process -> Doing]
       /\ heal'["cycle"].stage # "tasks"
  <2>1. p = "cycle" => k.stage # "tasks"
    BY <1>1, <1>2, <1>8 DEF HealTypes
  <2> QED
    BY <1>1, <1>8, <1>9, <2>1, OneMoves DEF Acting
<1>11. HealTypes'
  <2>1. /\ status' \in [Task -> {"pending", "in_progress", "blocked", "done"}]
        /\ reason' \in [Task -> Text \cup {H!NoText}]
        /\ kind' \in [Task -> {None, "bootstrap", "test_setup"}]
    BY <1>1, <1>5, <1>9 DEF HealTypes
  <2> QED
    BY <1>1, <1>3, <1>10, <2>1 DEF HealTypes
<1>12. StageOf(p)'
  BY <1>3, <1>6, <1>8, <1>10 DEF StageOf, H!Healing
<1>13. /\ \A u \in Task : status'[u] = IF u = t THEN "pending" ELSE status[u]
       /\ \A u \in Task : u # t => reason'[u] = reason[u]
       /\ \A u : HasOpen(u)' <=> HasOpen(u)
  BY <1>1, <1>9 DEF HealTypes, HasOpen
<1>14. ~torn => Reopens(h.stage, t) /\ Speaks
  BY <1>1, <1>2, <1>5 DEF Acting, LinkOf
<1>15. ASSUME ~torn
       PROVE  Speaks' /\ LinkOf(p)' /\ Agrees(p)'
  <2>1. Speaks /\ LinkOf(p) /\ Agrees(p) /\ Reopens(h.stage, t)
    BY <1>1, <1>14, <1>15 DEF Acting
  <2>2. Speaks'
    BY <1>1, <1>13, <2>1 DEF Speaks
  <2>3. /\ h.stage \in H!ByBlocker => Closing(p) = h.done /\ Closing(p)' = h.done \cup {t}
        /\ h.stage \in {"deadlock", "contract"} => Closing(p) = {} /\ Closing(p)' = {t}
        /\ h.stage = "tasks" => Closing(p) = {} /\ Closing(p)' = {}
        /\ Held(p) = Closing(p) /\ Held(p)' = Closing(p)'
    <3>1. None \notin Task
      BY DEF Healable
    <3> QED
      BY <1>1, <1>2, <1>3, <1>5, <1>6, <1>8, <1>10, <3>1 DEF Closing, Held, H!ByBlocker, H!Healing
  <2>4. \A i \in DOMAIN blockers : blockers[i].open /\ blockers[i].task = t =>
            /\ h.stage \in H!ByBlocker => H!Fixable(h.stage, blockers[i])
            /\ h.stage \in {"deadlock", "contract"} => H!Matches(h.stage, blockers[i])
    <3>1. ASSUME NEW i \in DOMAIN blockers, blockers[i].open, blockers[i].task = t
          PROVE  /\ h.stage \in H!ByBlocker => H!Fixable(h.stage, blockers[i])
                 /\ h.stage \in {"deadlock", "contract"} => H!Matches(h.stage, blockers[i])
      <4>1. CASE h.stage \in H!ByBlocker
        <5>1. PICK j \in DOMAIN blockers :
                  blockers[j].open /\ blockers[j].task = t /\ H!Fixable(h.stage, blockers[j])
          BY <2>1, <4>1 DEF Reopens
        <5>2. blockers[i] = blockers[j]
          BY <1>5, <2>1, <3>1, <5>1 DEF Speaks
        <5> QED
          BY <4>1, <5>1, <5>2 DEF H!ByBlocker
      <4>2. CASE h.stage \in {"deadlock", "contract"}
        <5>1. blockers[i].text = reason[t]
          BY <1>5, <2>1, <3>1, <4>2 DEF Speaks, Reopens
        <5> QED
          BY <2>1, <4>2, <5>1 DEF Reopens, H!Matches, H!ByBlocker
      <4> QED
        BY <4>1, <4>2
    <3> QED
      BY <3>1
  <2>5. \A u \in h.done : h.stage \in H!ByBlocker => status[u] = "pending" /\ u # t
    BY <1>2, <2>1, <2>3 DEF LinkOf, Reopens
  <2>6. \A u \in h.todo \ {t} : Reopens(h.stage, u)'
    <3>1. ASSUME h.stage = "deadlock", NEW u \in h.todo \ {t} PROVE H!Eligible(u)'
      <4>1. H!Eligible(u) /\ H!Eligible(t)
        BY <1>2, <1>5, <2>1, <3>1 DEF LinkOf, Reopens
      <4>2. kind[t] # "test_setup" /\ u \in Task
        BY <1>3, <3>1, <4>1 DEF H!Eligible, Healable
      <4>3. \A v \in Task : kind'[v] = IF v = t THEN "bootstrap" ELSE kind[v]
        BY <1>1, <1>9, <3>1 DEF HealTypes
      <4>4. H!Scheduled => H!Scheduled'
        BY <1>1, <4>2, <4>3 DEF H!Scheduled
      <4> QED
        BY <3>1, <4>1, <4>2, <4>3, <4>4 DEF H!Eligible
    <3>2. \A u \in h.todo \ {t} : Reopens(h.stage, u)
      BY <1>2, <2>1 DEF LinkOf
    <3> QED
      BY <1>1, <1>3, <1>13, <3>1, <3>2 DEF Reopens, H!ByBlocker
  <2>7. LinkOf(p)'
    <3>1. h.stage # "record" /\ (h.stage \in H!ByBlocker => k.doc = blockers)
      BY <1>1, <1>2, <1>3, <1>8, <2>1 DEF LinkOf, H!Healing
    <3>2. ASSUME NEW u \in Closing(p)'
          PROVE  /\ status'[u] = "pending"
                 /\ \A i \in DOMAIN blockers : blockers[i].open /\ blockers[i].task = u =>
                        IF h.stage \in H!ByBlocker THEN H!Fixable(h.stage, blockers[i])
                        ELSE H!Matches(h.stage, blockers[i])
      <4>1. u \in Task /\ (u = t \/ (h.stage \in H!ByBlocker /\ u \in Closing(p)))
        BY <1>3, <1>5, <2>3, <3>2 DEF H!Healing, H!ByBlocker
      <4>2. CASE u = t
        BY <1>3, <1>5, <1>13, <2>3, <2>4, <3>2, <4>2 DEF H!Healing, H!ByBlocker
      <4>3. CASE u # t
        <5>1. status[u] = "pending" /\ \A i \in DOMAIN blockers :
                  blockers[i].open /\ blockers[i].task = u => H!Fixable(h.stage, blockers[i])
          BY <1>2, <2>1, <4>1, <4>3 DEF LinkOf
        <5> QED
          BY <1>13, <4>1, <4>3, <5>1
      <4> QED
        BY <4>2, <4>3
    <3> QED
      BY <1>1, <1>8, <1>10, <2>6, <3>1, <3>2 DEF LinkOf
  <2>8. Agrees(p)'
    <3>1. ASSUME NEW u \in Task, u \notin Held(p)'
          PROVE  status'[u] = "blocked" <=> HasOpen(u)'
      <4>1. CASE u # t
        BY <1>3, <1>13, <2>1, <2>3, <3>1, <4>1 DEF Agrees, H!Healing, H!ByBlocker
      <4>2. CASE u = t
        <5>1. h.stage = "tasks"
          BY <1>3, <2>3, <3>1, <4>2 DEF H!Healing, H!ByBlocker
        <5>2. status[t] = "in_progress"
          BY <2>1, <5>1 DEF Reopens
        <5> QED
          BY <1>5, <1>13, <2>1, <2>3, <4>2, <5>1, <5>2 DEF Agrees
      <4> QED
        BY <4>1, <4>2
    <3> QED
      BY <3>1 DEF Agrees
  <2> QED
    BY <2>2, <2>7, <2>8
<1>16. HealInv'
  <2>1. StreakOf(p)'
    BY <1>1, <1>2, <1>3, <1>8, <1>10, StreakStill DEF H!Healing
  <2> QED
    BY <1>1, <1>10, <1>11, <1>12, <1>15, <2>1, ActingIsEnough DEF Acting
<1>17. ~torn => \A u \in Task : status[u] = "blocked" /\ status'[u] # "blocked" =>
           status'[u] = "pending" /\ H!Signature(u)
  BY <1>1, <1>3, <1>5, <1>13, <1>14, ReopenedIsKnown
<1> QED
  BY <1>16, <1>17

\* The blocker of a reopened task is closed.
LEMMA CloseKeeps ==
    ASSUME Healable, HealInv, NEW p \in H!Process, H!Close(p)
    PROVE  HealInv'
<1>1. HealTypes /\ Acting(p) /\ heal[p].stage \in H!Healing /\ heal[p].task # None
      /\ UNCHANGED <<status, reason, kind, needed, decided, streak, log, listed, torn, unlogged>>
  BY ActsAlone DEF H!Close, HealInv, H!Healing
<1>2. PICK h, k : h = heal[p] /\ k = [h EXCEPT !.task = None]
  OBVIOUS
<1>3. h \in Doing /\ listed # None /\ h.stage \in {"deadlock", "contract"} /\ h.task \in Task
  BY <1>1, <1>2, IdleIs DEF HealTypes, Doing, Acting, StageOf, H!Healing
<1>4. /\ k \in Doing /\ k.stage = h.stage /\ k.todo = h.todo /\ k.done = h.done /\ k.task = None
  BY <1>2, <1>3 DEF Doing
<1>5. PICK S : S = {b \in H!OpenBlockers : b.task = h.task /\ H!Matches(h.stage, b)}
  OBVIOUS
<1>6. blockers' = H!Resolved(blockers, S) /\ heal' = [heal EXCEPT ![p] = k]
  BY <1>1, <1>2, <1>5 DEF H!Close, HealTypes
<1>7. Others(p)' /\ heal'[p] = k /\ heal' \in [H!Process -> Doing] /\ heal'["cycle"].stage # "tasks"
  BY <1>1, <1>3, <1>4, <1>6, OneMoves DEF Acting
<1>8. HealTypes'
  <2>1. blockers' \in Seq(Entry)
    BY <1>1, <1>6, ResolvedIs DEF HealTypes
  <2> QED
    BY <1>1, <1>3, <1>7, <2>1 DEF HealTypes
<1>9. StageOf(p)'
  BY <1>3, <1>4, <1>7 DEF StageOf, H!Healing
<1>10. ASSUME ~torn PROVE Speaks' /\ LinkOf(p)' /\ Agrees(p)'
  <2>1. Speaks /\ LinkOf(p) /\ Agrees(p)
    BY <1>1, <1>10 DEF Acting
  <2>2. Speaks' /\ \A t : HasOpen(t)' <=> \E i \in DOMAIN blockers :
            blockers[i].open /\ blockers[i].task = t /\ blockers[i] \notin S
    BY <1>1, <1>6, <2>1, ResolvingKeeps
  <2>3. Closing(p) = {h.task} /\ Held(p) = {h.task} /\ Closing(p)' = {} /\ Held(p)' = {}
    BY <1>2, <1>3, <1>4, <1>7 DEF Closing, Held, H!ByBlocker, Healable
  <2>4. status[h.task] = "pending" /\ ~HasOpen(h.task)'
    <3>1. status[h.task] = "pending" /\ \A i \in DOMAIN blockers :
              blockers[i].open /\ blockers[i].task = h.task => H!Matches(h.stage, blockers[i])
      BY <1>2, <1>3, <2>1, <2>3 DEF LinkOf, H!ByBlocker
    <3>2. \A i \in DOMAIN blockers : blockers[i].open => blockers[i] \in H!OpenBlockers
      BY DEF H!OpenBlockers
    <3> QED
      BY <1>5, <2>2, <3>1, <3>2
  <2>5. \A t \in Task : t # h.task => (HasOpen(t)' <=> HasOpen(t))
    BY <1>5, <2>2 DEF HasOpen
  <2>6. Agrees(p)'
    BY <1>1, <2>1, <2>3, <2>4, <2>5 DEF Agrees
  <2>7. LinkOf(p)'
    BY <1>1, <1>2, <1>3, <1>4, <1>7, <2>1, <2>3
       DEF LinkOf, Reopens, H!ByBlocker, H!Eligible, H!Scheduled
  <2> QED
    BY <2>2, <2>6, <2>7
<1>11. StreakOf(p)'
  BY <1>1, <1>2, <1>3, <1>4, <1>7, StreakStill
<1> QED
  BY <1>1, <1>7, <1>8, <1>9, <1>10, <1>11, ActingIsEnough DEF Acting

\* The list that was worked on is written back.
LEMMA WriteDocKeeps ==
    ASSUME Healable, HealInv, NEW p \in H!Process, H!WriteDoc(p)
    PROVE  HealInv'
<1>1. HealTypes /\ Acting(p) /\ heal[p].stage \in H!ByBlocker /\ heal[p].todo = {}
      /\ UNCHANGED <<status, reason, kind, needed, decided, streak, log, listed, torn, unlogged>>
  BY ActsAlone DEF H!WriteDoc, HealInv, H!ByBlocker
<1>2. PICK h, k : h = heal[p] /\ k = [h EXCEPT !.done = {}]
  OBVIOUS
<1>3. h \in Doing /\ listed # None /\ h.stage \in H!ByBlocker /\ h.task = None
  BY <1>1, <1>2, IdleIs DEF HealTypes, Doing, Acting, StageOf, H!ByBlocker
<1>4. k \in Doing /\ k.stage = h.stage /\ k.todo = {} /\ k.done = {} /\ k.task = None
      /\ k.doc = h.doc
  BY <1>1, <1>2, <1>3 DEF Doing
<1>5. PICK S : S = {b \in H!Range(h.doc) : b.task \in h.done /\ H!Fixable(h.stage, b)}
  OBVIOUS
<1>6. blockers' = H!Resolved(h.doc, S) /\ heal' = [heal EXCEPT ![p] = k]
  BY <1>1, <1>2, <1>5 DEF H!WriteDoc, HealTypes
<1>7. Others(p)' /\ heal'[p] = k /\ heal' \in [H!Process -> Doing] /\ heal'["cycle"].stage # "tasks"
  BY <1>1, <1>3, <1>4, <1>6, OneMoves DEF Acting, H!ByBlocker
<1>8. HealTypes'
  <2>1. blockers' \in Seq(Entry)
    BY <1>3, <1>6, ResolvedIs DEF Doing
  <2> QED
    BY <1>1, <1>3, <1>7, <2>1 DEF HealTypes
<1>9. StageOf(p)'
  BY <1>3, <1>4, <1>7 DEF StageOf, H!Healing, H!ByBlocker
<1>10. ASSUME ~torn PROVE Speaks' /\ LinkOf(p)' /\ Agrees(p)'
  <2>1. Speaks /\ LinkOf(p) /\ Agrees(p) /\ h.doc = blockers
    BY <1>1, <1>2, <1>10 DEF Acting, LinkOf, H!WriteDoc
  <2>2. Speaks' /\ \A t : HasOpen(t)' <=> \E i \in DOMAIN blockers :
            blockers[i].open /\ blockers[i].task = t /\ blockers[i] \notin S
    BY <1>1, <1>6, <2>1, ResolvingKeeps
  <2>3. Closing(p) = h.done /\ Held(p) = h.done /\ Closing(p)' = {} /\ Held(p)' = {}
    BY <1>2, <1>3, <1>4, <1>7 DEF Closing, Held, H!ByBlocker, Healable, Doing
  <2>4. \A t \in h.done : status[t] = "pending" /\ ~HasOpen(t)'
    <3>1. \A t \in h.done : status[t] = "pending" /\ \A i \in DOMAIN blockers :
              blockers[i].open /\ blockers[i].task = t => H!Fixable(h.stage, blockers[i])
      BY <1>2, <1>3, <2>1, <2>3 DEF LinkOf
    <3>2. \A i \in DOMAIN blockers : blockers[i] \in H!Range(h.doc)
      BY <2>1 DEF H!Range
    <3> QED
      BY <1>5, <2>2, <3>1, <3>2
  <2>5. \A t \in Task : t \notin h.done => (HasOpen(t)' <=> HasOpen(t))
    BY <1>5, <2>2 DEF HasOpen
  <2>6. Agrees(p)'
    BY <1>1, <2>1, <2>3, <2>4, <2>5 DEF Agrees
  <2>7. LinkOf(p)'
    BY <1>1, <1>3, <1>4, <1>7, <2>3 DEF LinkOf, H!ByBlocker
  <2> QED
    BY <2>2, <2>6, <2>7
<1>11. StreakOf(p)'
  BY <1>1, <1>2, <1>3, <1>4, <1>7, StreakStill DEF H!ByBlocker
<1> QED
  BY <1>1, <1>7, <1>8, <1>9, <1>10, <1>11, ActingIsEnough DEF Acting

\* The next stage looks at backlog and list anew.
LEMMA NextStageKeeps ==
    ASSUME Healable, HealInv, NEW p \in H!Process, H!NextStage(p)
    PROVE  HealInv'
<1>1. HealTypes /\ Acting(p) /\ heal[p].stage \in H!Healing /\ heal[p].todo = {}
      /\ heal[p].task = None /\ (heal[p].stage \in H!ByBlocker => heal[p].done = {})
      /\ heal' = [heal EXCEPT ![p] = H!At(H!After(p, heal[p].stage))]
      /\ UNCHANGED <<status, reason, kind, blockers, needed, decided, streak, log, listed, torn,
                     unlogged>>
  BY ActsAlone DEF H!NextStage, HealInv, H!Healing
<1>2. PICK st : st = H!After(p, heal[p].stage)
  OBVIOUS
<1>3. st \in {"contract", "aggregate", "divergence", "tasks", "streak", "decide"}
      /\ (p = "cycle" => st # "tasks") /\ st \in Stage
  BY <1>1, <1>2, AfterIs DEF HealTypes, Stage
<1>4. PICK h : h = H!At(st)
  OBVIOUS
<1>5. h \in Doing /\ h.stage = st /\ h.todo = H!Todo(st) /\ h.done = {} /\ h.task = None
      /\ (st \in H!ByBlocker => h.doc = blockers)
  BY <1>1, <1>3, <1>4, AtIs
<1>6. Others(p)' /\ heal'[p] = h /\ heal' \in [H!Process -> Doing] /\ heal'["cycle"].stage # "tasks"
  BY <1>1, <1>2, <1>3, <1>4, <1>5, OneMoves DEF Acting
<1>7. HealTypes'
  <2>1. listed # None
    BY <1>1, IdleIs DEF HealTypes, H!Healing
  <2> QED
    BY <1>1, <1>6, <2>1 DEF HealTypes
<1>8. \A t \in H!Todo(st) : Reopens(st, t) /\ st \in H!Healing
  BY <1>1, <1>3, TodoIs
<1>9. StageOf(p)'
  BY <1>3, <1>5, <1>6, <1>8 DEF StageOf
<1>10. Held(p) = {} /\ Held(p)' = {} /\ Closing(p)' = {}
  BY <1>1, <1>3, <1>5, <1>6 DEF Closing, Held, H!ByBlocker, H!Healing, Healable
<1>11. LinkOf(p)'
  BY <1>1, <1>3, <1>5, <1>6, <1>8, <1>10 DEF LinkOf, Reopens
<1>13. StreakOf(p)'
  BY <1>1, <1>3, <1>5, <1>6, StreakStill DEF H!Healing
<1>12. ~torn' => Speaks' /\ Agrees(p)'
  BY <1>1, <1>10, AgreeStill DEF Acting
<1> QED
  BY <1>6, <1>7, <1>9, <1>11, <1>12, <1>13, ActingIsEnough DEF Acting

\* A cycle takes a task that is ready.
LEMMA PickKeeps ==
    ASSUME Healable, HealInv, NEW p \in H!Process, H!Pick(p)
    PROVE  HealInv' /\ \A t \in Task : status[t] = "blocked" => status'[t] = "blocked"
<1>1. HealTypes /\ Acting(p) /\ heal[p].stage = "pick"
      /\ UNCHANGED <<reason, kind, blockers, needed, decided, streak, log, listed, torn, unlogged>>
  BY ActsAlone DEF H!Pick, HealInv
<1>2. PICK t \in Task : /\ status[t] = "pending"
                        /\ status' = [status EXCEPT ![t] = "in_progress"]
                        /\ heal' = [heal EXCEPT ![p] = [H!Idle EXCEPT !.stage = "work", !.task = t]]
  BY DEF H!Pick, H!Ready
<1>3. PICK h : h = [H!Idle EXCEPT !.stage = "work", !.task = t]
  OBVIOUS
<1>4. h \in Doing /\ h.stage = "work" /\ h.task = t /\ h.todo = {} /\ h.done = {}
  BY <1>3, IdleIs DEF Doing, Stage
<1>5. Others(p)' /\ heal'[p] = h /\ heal' \in [H!Process -> Doing] /\ heal'["cycle"].stage # "tasks"
  BY <1>1, <1>2, <1>3, <1>4, OneMoves DEF Acting
<1>6. \A u \in Task : status'[u] = IF u = t THEN "in_progress" ELSE status[u]
  BY <1>1, <1>2 DEF HealTypes
<1>7. HealTypes'
  <2>1. listed # None
    BY <1>1, IdleIs DEF HealTypes
  <2>2. status' \in [Task -> {"pending", "in_progress", "blocked", "done"}]
    BY <1>1, <1>2 DEF HealTypes
  <2> QED
    BY <1>1, <1>5, <2>1, <2>2 DEF HealTypes
<1>8. StageOf(p)'
  BY <1>4, <1>5, <1>6 DEF StageOf, H!Healing
<1>9. Held(p) = {} /\ Held(p)' = {} /\ Closing(p)' = {}
  BY <1>1, <1>4, <1>5 DEF Closing, Held, H!ByBlocker
<1>10. LinkOf(p)'
  BY <1>4, <1>5, <1>9 DEF LinkOf, H!ByBlocker
<1>11. ~torn' => Speaks' /\ Agrees(p)'
  BY <1>1, <1>2, <1>6, <1>9, AgreeStill DEF Acting
<1>12. StreakOf(p)'
  BY <1>1, <1>4, <1>5, StreakStill
<1> QED
  BY <1>2, <1>5, <1>6, <1>7, <1>8, <1>10, <1>11, <1>12, ActingIsEnough DEF Acting

\* What a cycle ends with.
LEMMA EndsIn ==
    ASSUME HealTypes, NEW p \in H!Process, NEW outcome \in {"success", "failure", "limit"},
           NEW class \in {None, "platform"}, NEW words \in Text \cup {H!NoText},
           H!Ends(p, outcome, class, words)
    PROVE  \E h : /\ h \in Doing /\ h.stage = "cool" /\ h.todo = {} /\ h.done = {} /\ h.task = None
                  /\ h.end \in Event /\ heal' = [heal EXCEPT ![p] = h]
<1>1. PICK e : e = [outcome |-> outcome, class |-> class, text |-> words]
  OBVIOUS
<1>2. PICK h : h = [H!Idle EXCEPT !.stage = "cool", !.end = e]
  OBVIOUS
<1>3. e \in Event
  BY <1>1 DEF Event
<1>4. /\ h \in Doing /\ h.stage = "cool" /\ h.todo = {} /\ h.done = {} /\ h.task = None
      /\ h.end \in Event
  BY <1>2, <1>3, IdleIs DEF Doing, Stage, H!Idle
<1>5. heal' = [heal EXCEPT ![p] = h]
  BY <1>1, <1>2 DEF H!Ends
<1> QED
  BY <1>4, <1>5

\* A task is completed or given back.
LEMMA WorkEnds ==
    ASSUME Healable, HealInv, NEW p \in H!Process, H!Succeed(p) \/ H!GiveBack(p)
    PROVE  HealInv' /\ \A t \in Task : status[t] = "blocked" => status'[t] = "blocked"
<1>1. HealTypes /\ Acting(p) /\ heal[p].stage = "work"
      /\ UNCHANGED <<reason, kind, blockers, needed, decided, streak, log, listed, torn, unlogged>>
  BY ActsAlone DEF H!Succeed, H!GiveBack, HealInv
<1>2. PICK t : t = heal[p].task
  OBVIOUS
<1>3. t \in Task /\ status[t] = "in_progress" /\ listed # None
  BY <1>1, <1>2, IdleIs DEF HealTypes, Acting, StageOf
<1>4. PICK ends \in {"done", "pending"} : status' = [status EXCEPT ![t] = ends]
  BY <1>2 DEF H!Succeed, H!GiveBack
<1>5. PICK outcome \in {"success", "failure", "limit"}, class \in {None, "platform"} :
          H!Ends(p, outcome, class, H!NoText)
  BY DEF H!Succeed, H!GiveBack
<1>6. \A u \in Task : status'[u] = IF u = t THEN ends ELSE status[u]
  BY <1>1, <1>4 DEF HealTypes
<1>7. status' \in [Task -> {"pending", "in_progress", "blocked", "done"}]
  BY <1>1, <1>4 DEF HealTypes
<1>8. Held(p) = {}
  BY <1>1, EarlyStagesHoldNothing
<1>9. ~torn' => Speaks' /\ \A u \in Task : HasOpen(u)' <=> HasOpen(u)
  BY <1>1, <1>3, <1>6 DEF Acting, Speaks, HasOpen
<1>10. PICK h : /\ h \in Doing /\ h.stage = "cool" /\ h.todo = {} /\ h.done = {} /\ h.task = None
                /\ h.end \in Event /\ heal' = [heal EXCEPT ![p] = h]
  <2>1. PICK words : words = H!NoText
    OBVIOUS
  <2>2. words \in Text \cup {H!NoText} /\ H!Ends(p, outcome, class, words)
    BY <1>5, <2>1
  <2>3. HealTypes
    BY <1>1
  <2> QED
    BY <2>2, <2>3, EndsIn, Zenon
<1>11. heal'[p] = h => StreakOf(p)'
  BY <1>1, <1>10, StreakStill
<1>12. HealInv'
  BY <1>1, <1>3, <1>6, <1>7, <1>8, <1>9, <1>10, <1>11, GoesOn DEF HealTypes
<1> QED
  BY <1>3, <1>6, <1>12

\* The streak is saved.
LEMMA CoolKeeps ==
    ASSUME Healable, HealInv, NEW p \in H!Process, H!CoolDown(p)
    PROVE  HealInv'
<1>1. HealTypes /\ Acting(p) /\ heal[p].stage = "cool"
      /\ UNCHANGED <<status, reason, kind, blockers, needed, decided, log, listed, torn, unlogged>>
  BY ActsAlone DEF H!CoolDown, HealInv
<1>2. PICK e, h : e = heal[p].end /\ h = [heal[p] EXCEPT !.stage = "log"]
  OBVIOUS
<1>3. /\ h \in Doing /\ h.stage = "log" /\ h.todo = {} /\ h.done = {} /\ h.task = None
      /\ h.end = e /\ e \in Event /\ listed # None
  BY <1>1, <1>2, IdleIs DEF HealTypes, Acting, StageOf, Doing, Stage, H!Healing
<1>4. heal' = [heal EXCEPT ![p] = h] /\ streak' = H!Cooled(e.outcome, e.class)
  BY <1>1, <1>2 DEF H!CoolDown, HealTypes
<1>5. log \in Seq(Event) /\ streak \in Nat
  BY <1>1 DEF HealTypes
<1>6. H!Genuine(log) \in Nat /\ H!Genuine(Append(log, e)) = Counted(H!Genuine(log), e)
  BY <1>3, <1>5, GenuineOfOneMore
<1>7. streak' \in Nat
  BY <1>4, <1>5 DEF H!Cooled
<1>8. None # "platform"
  BY DEF Healable
<1>9. ~unlogged => streak >= H!Genuine(log)
  BY <1>1 DEF Acting, StreakOf
<1>10. ~unlogged => /\ streak' >= H!Genuine(Append(log, e))
                    /\ e.outcome # "success" => streak' >= H!Genuine(log)
  BY <1>4, <1>5, <1>6, <1>8, <1>9 DEF H!Cooled, Counted
<1>11. heal'[p] = h => StreakOf(p)'
  BY <1>1, <1>3, <1>10 DEF StreakOf
<1>12. Held(p) = {}
  BY <1>1, EarlyStagesHoldNothing
<1>13. ~torn' => Speaks' /\ \A u \in Task : HasOpen(u)' <=> HasOpen(u)
  BY <1>1 DEF Acting, Speaks, HasOpen
<1> QED
  BY <1>1, <1>3, <1>4, <1>7, <1>11, <1>12, <1>13, GoesOn DEF HealTypes

\* The cycle is logged.
LEMMA LogKeeps ==
    ASSUME Healable, HealInv, NEW p \in H!Process, H!Log(p)
    PROVE  HealInv'
<1>1. HealTypes /\ Acting(p) /\ heal[p].stage = "log" /\ heal' = [heal EXCEPT ![p] = H!Idle]
      /\ UNCHANGED <<status, reason, kind, blockers, needed, decided, streak, listed, torn>>
  BY ActsAlone DEF H!Log, HealInv
<1>2. PICK e : e = heal[p].end
  OBVIOUS
<1>3. e \in Event /\ listed # None
  BY <1>1, <1>2, IdleIs DEF HealTypes, Acting, StageOf
<1>4. log' = Append(log, e) /\ unlogged' = (unlogged /\ e.outcome # "success")
  BY <1>2 DEF H!Log
<1>5. log \in Seq(Event) /\ streak \in Nat /\ unlogged \in BOOLEAN
  BY <1>1 DEF HealTypes
<1>6. log' \in Seq(Event) /\ unlogged' \in BOOLEAN
  BY <1>3, <1>4, <1>5
<1>7. ~unlogged' => streak' >= H!Genuine(log')
  <2>1. CASE e.outcome = "success"
    <3>1. H!Genuine(log') = 0
      BY <1>3, <1>4, <1>5, <2>1, GenuineOfOneMore DEF Counted
    <3> QED
      BY <1>1, <1>5, <3>1
  <2>2. CASE e.outcome # "success"
    BY <1>1, <1>2, <1>4, <2>2 DEF Acting, StreakOf
  <2> QED
    BY <2>1, <2>2
<1>8. heal'[p] = H!Idle => StreakOf(p)'
  BY <1>7, IdleIs DEF StreakOf
<1>9. Held(p) = {}
  BY <1>1, EarlyStagesHoldNothing
<1>10. ~torn' => Speaks' /\ \A u \in Task : HasOpen(u)' <=> HasOpen(u)
  BY <1>1 DEF Acting, Speaks, HasOpen
<1> QED
  BY <1>1, <1>3, <1>5, <1>6, <1>8, <1>9, <1>10, IdleIs, GoesOn DEF HealTypes

\* A task is blocked before its blocker is recorded.
LEMMA BlockKeeps ==
    ASSUME Healable, HealInv, NEW p \in H!Process, H!Block(p)
    PROVE  HealInv' /\ \A t \in Task : status[t] = "blocked" => status'[t] = "blocked"
<1>1. HealTypes /\ Acting(p) /\ heal[p].stage = "work"
      /\ UNCHANGED <<kind, blockers, needed, decided, streak, log, listed, torn, unlogged>>
  BY ActsAlone DEF H!Block, HealInv
<1>2. PICK h, k, t : h = heal[p] /\ k = [h EXCEPT !.stage = "record"] /\ t = h.task
  OBVIOUS
<1>3. h \in Doing /\ t \in Task /\ status[t] = "in_progress" /\ listed # None
      /\ h.todo = {} /\ h.done = {}
  BY <1>1, <1>2, IdleIs DEF HealTypes, Acting, StageOf, H!Healing
<1>4. k \in Doing /\ k.stage = "record" /\ k.task = t /\ k.todo = {} /\ k.done = {}
  BY <1>2, <1>3 DEF Doing, Stage
<1>5. PICK words \in Text : /\ status' = [status EXCEPT ![t] = "blocked"]
                            /\ reason' = [reason EXCEPT ![t] = words]
  BY <1>2 DEF H!Block
<1>6. heal' = [heal EXCEPT ![p] = k]
  BY <1>1, <1>2 DEF H!Block, HealTypes
<1>7. Others(p)' /\ heal'[p] = k /\ heal' \in [H!Process -> Doing] /\ heal'["cycle"].stage # "tasks"
  BY <1>1, <1>4, <1>6, OneMoves DEF Acting
<1>8. /\ \A u \in Task : status'[u] = IF u = t THEN "blocked" ELSE status[u]
      /\ \A u \in Task : u # t => reason'[u] = reason[u]
  BY <1>1, <1>5 DEF HealTypes
<1>9. HealTypes'
  <2>1. /\ status' \in [Task -> {"pending", "in_progress", "blocked", "done"}]
        /\ reason' \in [Task -> Text \cup {H!NoText}]
    BY <1>1, <1>5 DEF HealTypes
  <2> QED
    BY <1>1, <1>3, <1>7, <2>1 DEF HealTypes
<1>10. StageOf(p)'
  BY <1>3, <1>4, <1>7 DEF StageOf, H!Healing
<1>11. Held(p) = {} /\ Held(p)' = {t} /\ Closing(p)' = {}
  BY <1>1, <1>4, <1>7, EarlyStagesHoldNothing DEF Closing, Held, H!ByBlocker
<1>12. ASSUME ~torn PROVE Speaks' /\ LinkOf(p)' /\ Agrees(p)'
  <2>1. ~HasOpen(t) /\ Speaks /\ Agrees(p)
    BY <1>1, <1>3, <1>11, <1>12 DEF Acting, Agrees
  <2>2. \A i \in DOMAIN blockers : blockers[i].open => blockers[i].task # t
    BY <2>1 DEF HasOpen
  <2>3. Speaks'
    BY <1>1, <1>8, <2>1, <2>2 DEF Speaks
  <2>4. LinkOf(p)'
    BY <1>1, <1>3, <1>4, <1>7, <1>8, <1>11, <2>1 DEF LinkOf, HasOpen, H!ByBlocker
  <2>5. Agrees(p)'
    BY <1>1, <1>8, <1>11, <2>1 DEF Agrees, HasOpen
  <2> QED
    BY <2>3, <2>4, <2>5
<1>13. HealInv'
  <2>1. StreakOf(p)'
    BY <1>1, <1>4, <1>7, StreakStill
  <2> QED
    BY <1>1, <1>7, <1>9, <1>10, <1>12, <2>1, ActingIsEnough DEF Acting
<1> QED
  BY <1>8, <1>13

\* The blocker of a task that was blocked is recorded.
LEMMA RecordKeeps ==
    ASSUME Healable, HealInv, NEW p \in H!Process, H!RecordBlocker(p)
    PROVE  HealInv'
<1>1. HealTypes /\ Acting(p) /\ heal[p].stage = "record"
      /\ UNCHANGED <<status, reason, kind, needed, decided, streak, log, listed, torn, unlogged>>
  BY ActsAlone DEF H!RecordBlocker, HealInv
<1>2. PICK t : t = heal[p].task
  OBVIOUS
<1>3. t \in Task /\ listed # None
  BY <1>1, <1>2, IdleIs DEF HealTypes, Acting, StageOf
<1>4. PICK code \in {None, "decision", "exhausted", "no_checks"} :
          /\ blockers' = H!Added(blockers, H!Blocker(t, reason[t], code))
          /\ H!Ends(p, "failure",
                    IF code = "no_checks" \/ (code = "exhausted" /\ H!AllPlatform(reason[t]))
                    THEN "platform" ELSE None, reason[t])
  BY <1>2 DEF H!RecordBlocker
<1>5. reason[t] \in Text \cup {H!NoText}
  BY <1>1, <1>3 DEF HealTypes
<1>6. PICK h : /\ h \in Doing /\ h.stage = "cool" /\ h.todo = {} /\ h.done = {} /\ h.task = None
               /\ h.end \in Event /\ heal' = [heal EXCEPT ![p] = h]
  BY <1>1, <1>4, <1>5, EndsIn
<1>7. PICK b : b = H!Blocker(t, reason[t], code)
  OBVIOUS
<1>8. b \in Entry /\ b.task = t /\ b.text = reason[t] /\ b.open
  BY <1>3, <1>5, <1>7 DEF H!Blocker, Entry, Texts
<1>9. blockers \in Seq(Entry) /\ blockers' \in {blockers, Append(blockers, b)}
  BY <1>1, <1>4, <1>7 DEF H!Added, HealTypes
<1>10. blockers' \in Seq(Entry)
  BY <1>8, <1>9
<1>11. heal'[p] = h /\ Others(p)' /\ heal' \in [H!Process -> Doing]
       /\ heal'["cycle"].stage # "tasks"
  BY <1>1, <1>6, OneMoves DEF Acting
<1>12. HealTypes'
  BY <1>1, <1>3, <1>10, <1>11 DEF HealTypes
<1>13. StageOf(p)' /\ StreakOf(p)' /\ LinkOf(p)' /\ Held(p)' = {}
  <2>1. StreakOf(p)'
    BY <1>1, <1>6, <1>11, StreakStill
  <2>2. Held(p)' = {} /\ Closing(p)' = {}
    BY <1>6, <1>11 DEF Held, Closing, H!ByBlocker
  <2> QED
    BY <1>6, <1>11, <2>1, <2>2 DEF StageOf, LinkOf, H!ByBlocker, H!Healing
<1>14. ASSUME ~torn PROVE Speaks' /\ Agrees(p)'
  <2>1. status[t] = "blocked" /\ ~HasOpen(t) /\ Speaks /\ Agrees(p) /\ Held(p) = {t}
    BY <1>1, <1>2, <1>14 DEF Acting, LinkOf, Held, Closing, H!ByBlocker
  <2>2. \A i \in DOMAIN blockers : blockers[i].open => blockers[i].task # t
    BY <2>1 DEF HasOpen
  <2>3. blockers' = Append(blockers, b)
    BY <1>1, <1>4, <1>7, <1>8, <2>2 DEF H!Added
  <2>4. PICK n \in Nat : n = Len(blockers)
    BY <1>9
  <2>5. /\ DOMAIN blockers = 1..n /\ DOMAIN blockers' = 1..(n + 1)
        /\ blockers'[n + 1] = b /\ \A i \in 1..n : blockers'[i] = blockers[i]
    BY <1>9, <2>3, <2>4
  <2>6. \A i \in DOMAIN blockers' : i = n + 1 \/ i \in DOMAIN blockers
    BY <2>5
  <2>7. Speaks'
    BY <1>1, <1>8, <2>1, <2>2, <2>5, <2>6 DEF Speaks
  <2>8. \A u \in Task : HasOpen(u)' <=> u = t \/ HasOpen(u)
    BY <1>8, <2>5, <2>6 DEF HasOpen
  <2>9. Agrees(p)'
    BY <1>1, <2>1, <2>8 DEF Agrees
  <2> QED
    BY <2>7, <2>9
<1> QED
  BY <1>1, <1>11, <1>12, <1>13, <1>14, ActingIsEnough DEF Acting

\* A crash leaves the files as they are.
LEMMA CrashKeeps ==
    ASSUME Healable, HealInv, NEW p \in H!Process, H!Crash(p)
    PROVE  HealInv'
<1>1. HealTypes /\ Acting(p) /\ heal[p].stage # "idle" /\ heal' = [heal EXCEPT ![p] = H!Idle]
      /\ torn' = (torn \/ heal[p].stage = "record" \/ heal[p].done # {}
                  \/ (heal[p].stage \in H!Healing /\ heal[p].task # None))
      /\ unlogged' = (unlogged \/ (heal[p].stage = "log" /\ heal[p].end.outcome = "success"))
      /\ UNCHANGED <<status, reason, kind, blockers, needed, decided, streak, log, listed>>
  BY ActsAlone DEF H!Crash, HealInv
<1>2. listed # None /\ torn' \in BOOLEAN /\ (torn => torn')
  BY <1>1, IdleIs DEF HealTypes
<1>3. Held(p) = {} \/ torn'
  BY <1>1 DEF Held, Closing, H!Healing, Healable
<1>4. \A t \in Task : HasOpen(t)' <=> HasOpen(t)
  BY <1>1 DEF HasOpen
<1>5. ~torn' => Speaks'
  BY <1>1, <1>2 DEF Acting, Speaks
<1>6. unlogged' \in BOOLEAN /\ (heal'[p] = H!Idle => StreakOf(p)')
  BY <1>1, IdleIs DEF Acting, StreakOf, HealTypes
<1> QED
  BY <1>1, <1>2, <1>3, <1>4, <1>5, <1>6, IdleIs, GoesOn DEF HealTypes

\* A task is unblocked only on a signature.
Unblocks == \A t \in Task :
    ~torn /\ status[t] = "blocked" /\ status'[t] # "blocked" =>
        status'[t] = "pending" /\ H!Signature(t)

\* Every step keeps the agreement of backlog and list, and reopens on a signature.
LEMMA HealNext == Healable /\ HealInv /\ [H!Next]_(H!hvars) => HealInv' /\ Unblocks
<1> SUFFICES ASSUME Healable, HealInv, [H!Next]_(H!hvars) PROVE HealInv' /\ Unblocks
  OBVIOUS
<1>1. CASE H!ProjectStart
  BY <1>1, StartKeeps DEF H!ProjectStart, Unblocks
<1>2. CASE H!LegacyProject
  <2>1. \A t \in Task : status[t] = "pending"
    BY <1>2 DEF H!LegacyProject, HealInv, HealTypes
  <2> QED
    BY <1>2, <2>1, LegacyKeeps DEF Unblocks
<1>3. ASSUME NEW p \in H!Process, H!Begin(p) PROVE HealInv' /\ Unblocks
  BY <1>3, BeginKeeps DEF H!Begin, Unblocks
<1>4. ASSUME NEW p \in H!Process, H!Reopen(p) PROVE HealInv' /\ Unblocks
  BY <1>4, ReopenKeeps DEF Unblocks
<1>5. ASSUME NEW p \in H!Process, H!Close(p) PROVE HealInv' /\ Unblocks
  BY <1>5, CloseKeeps DEF H!Close, Unblocks
<1>6. ASSUME NEW p \in H!Process, H!WriteDoc(p) PROVE HealInv' /\ Unblocks
  BY <1>6, WriteDocKeeps DEF H!WriteDoc, Unblocks
<1>7. ASSUME NEW p \in H!Process, H!NextStage(p) PROVE HealInv' /\ Unblocks
  BY <1>7, NextStageKeeps DEF H!NextStage, Unblocks
<1>8. ASSUME NEW p \in H!Process, H!ReconstructStreak(p) PROVE HealInv' /\ Unblocks
  BY <1>8, StreakKeeps DEF H!ReconstructStreak, Unblocks
<1>9. ASSUME NEW p \in H!Process, H!AutoResolve(p) PROVE HealInv' /\ Unblocks
  BY <1>9, AutoResolveKeeps DEF H!AutoResolve, Unblocks
<1>10. ASSUME NEW p \in H!Process, H!NoTask(p) PROVE HealInv' /\ Unblocks
  BY <1>10, NoTaskKeeps DEF H!NoTask, Unblocks
<1>11. ASSUME NEW p \in H!Process, H!Pick(p) PROVE HealInv' /\ Unblocks
  BY <1>11, PickKeeps DEF Unblocks
<1>12. ASSUME NEW p \in H!Process, H!Succeed(p) \/ H!GiveBack(p) PROVE HealInv' /\ Unblocks
  BY <1>12, WorkEnds DEF Unblocks
<1>13. ASSUME NEW p \in H!Process, H!Block(p) PROVE HealInv' /\ Unblocks
  BY <1>13, BlockKeeps DEF Unblocks
<1>14. ASSUME NEW p \in H!Process, H!RecordBlocker(p) PROVE HealInv' /\ Unblocks
  BY <1>14, RecordKeeps DEF H!RecordBlocker, Unblocks
<1>15. ASSUME NEW p \in H!Process, H!Crash(p) PROVE HealInv' /\ Unblocks
  BY <1>15, CrashKeeps DEF H!Crash, Unblocks
<1>17. ASSUME NEW p \in H!Process, H!CoolDown(p) PROVE HealInv' /\ Unblocks
  BY <1>17, CoolKeeps DEF H!CoolDown, Unblocks
<1>18. ASSUME NEW p \in H!Process, H!Log(p) PROVE HealInv' /\ Unblocks
  BY <1>18, LogKeeps DEF H!Log, Unblocks
<1>16. CASE UNCHANGED H!hvars
  <2>1. UNCHANGED <<status, reason, kind, blockers, needed, decided, streak, log, heal, listed,
                    torn, unlogged>>
    BY <1>16 DEF H!hvars
  <2>2. HealTypes'
    BY <2>1 DEF HealInv, HealTypes
  <2>3. ASSUME NEW p \in H!Process, Acting(p) PROVE Acting(p)'
    BY <2>1, <2>3 DEF Acting, Others, StageOf, Speaks, LinkOf, Agrees, HasOpen, Reopens, Closing,
                      Held, StreakOf, H!Eligible, H!Scheduled
  <2> QED
    BY <2>1, <2>2, <2>3 DEF HealInv, Unblocks
<1> QED
  BY <1>1, <1>2, <1>3, <1>4, <1>5, <1>6, <1>7, <1>8, <1>9, <1>10, <1>11, <1>12, <1>13, <1>14, <1>15,
     <1>16, <1>17, <1>18 DEF H!Next

\* What the invariant says is enough.
LEMMA HealingFollows == Healable /\ HealInv => HealingSound
<1> SUFFICES ASSUME Healable, HealInv PROVE HealingSound
  OBVIOUS
<1>3. H!StreakKept
  <2>1. SUFFICES ASSUME H!AllQuiet, ~unlogged PROVE streak >= H!Genuine(log)
    BY DEF H!StreakKept
  <2>2. PICK p \in H!Process : Acting(p)
    BY DEF HealInv
  <2> QED
    BY <2>1, <2>2 DEF H!AllQuiet, Acting, StreakOf
<1>1. H!TypeOK
  <2>1. \A p \in H!Process : heal[p].todo \cup heal[p].done \subseteq Task
    BY DEF HealInv, HealTypes, Doing
  <2>2. \A t \in Task : reason[t] \in Text \cup {H!NoText}
    BY DEF HealInv, HealTypes
  <2> QED
    BY <2>1, <2>2 DEF HealInv, HealTypes, H!TypeOK
<1>2. H!BlockersMatch
  <2>1. SUFFICES ASSUME H!AllQuiet, ~torn, NEW t \in Task
                 PROVE  status[t] = "blocked" <=> \E b \in H!OpenBlockers : b.task = t
    BY DEF H!BlockersMatch
  <2>2. PICK p \in H!Process : Acting(p)
    BY DEF HealInv
  <2>3. heal[p] = H!Idle
    BY <2>1, <2>2 DEF H!AllQuiet, Acting, StageOf
  <2>4. Held(p) = {} /\ Agrees(p)
    BY <2>1, <2>2, <2>3, IdleActs DEF Acting
  <2>5. HasOpen(t) <=> \E b \in H!OpenBlockers : b.task = t
    BY DEF HasOpen, H!OpenBlockers
  <2> QED
    BY <2>4, <2>5 DEF Agrees
<1> QED
  BY <1>1, <1>2, <1>3 DEF HealingSound

\* After recovery, or a cycle, a task is blocked exactly while an open blocker says why, unless
\* a process has died between the two files, and no genuine failure in the log is missing from
\* the streak, unless one has died between counting a success and logging it; as long as nobody
\* recovers a project beside its cycle.
THEOREM HealingIsSound == Healable /\ WorkspaceSpec => []HealingSound
<1> SUFFICES ASSUME Healable PROVE WorkspaceSpec => []HealingSound
  OBVIOUS
<1>1. H!Init => HealInv
  BY HealInit
<1>2. HealInv /\ [H!Next]_(H!hvars) => HealInv'
  BY HealNext
<1>3. HealInv => HealingSound
  BY HealingFollows
<1> QED
  BY <1>1, <1>2, <1>3, EachOnItsOwn, PTL DEF H!Spec

\* The recovery stages reopen a task only on a signature of theirs, and never complete one.
THEOREM ReopenedOnASignature == Healable /\ WorkspaceSpec => ReopenedOnSignature
<1> SUFFICES ASSUME Healable PROVE WorkspaceSpec => ReopenedOnSignature
  OBVIOUS
<1>1. H!Init => HealInv
  BY HealInit
<1>2. HealInv /\ [H!Next]_(H!hvars) => HealInv' /\ Unblocks
  BY HealNext
<1>3. [Unblocks]_(H!hvars) => [\A t \in Task :
          ~torn /\ status[t] = "blocked" /\ status'[t] # "blocked" =>
              status'[t] = "pending" /\ H!Signature(t)]_(H!hvars)
  BY DEF Unblocks
<1> QED
  BY <1>1, <1>2, <1>3, EachOnItsOwn, PTL DEF H!Spec, ReopenedOnSignature, H!ReopenedOnSignature

-----------------------------------------------------------------------------
\* What is merged meets the contract of its task, in git it was scanned, and what was
\* committed stays (preflight.py, worktrees.py).
THEOREM ContractIsKept == Contracted /\ Committing /\ WorkspaceSpec => []ContractKept
BY ContractHolds, WorktreesHold, PTL DEF ContractKept
=============================================================================
