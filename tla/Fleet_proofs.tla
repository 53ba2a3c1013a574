---------------------------- MODULE Fleet_proofs ----------------------------
(***************************************************************************)
(* Theorems about Fleet for every number of projects, every set of ticks,  *)
(* every assignment of priorities and chains and every size of the pools.  *)
(***************************************************************************)
EXTENDS Fleet, FiniteSetTheorems, TLAPS

(***************************************************************************)
(* The inductive invariant.  What TypeOK leaves open of a tick: it begins  *)
(* projects while it plans, has cycles and slots to release while it runs, *)
(* and reads slots.json only with a purpose.                               *)
(***************************************************************************)
PhaseInv == \A t \in Tick :
    /\ phase[t] # "plan" => begun[t] = {}
    /\ phase[t] # "run" => running[t] = {} /\ finished[t] = {}
    /\ view[t] # NotRead => \/ phase[t] = "plan" /\ todo[t] # <<>>
                            \/ phase[t] = "run" /\ finished[t] # {}

\* Two processes are never in SlotManager.acquire or release at once.
OneView == \A t, u \in Tick : t # u => view[t] = NotRead \/ view[u] = NotRead

\* What has been read is what the file says, but for the allocations of dead processes.
ViewTrue == \A t \in Tick : view[t] # NotRead =>
    \A p \in Project : \/ view[t][p] = slots[p]
                       \/ slots[p].by = Dead /\ view[t][p] = Free

\* A tick holds the slot of every project it runs, or is about to run, on its backend; and
\* the slots it has to release are its own.
Held == \A t \in Tick :
    /\ \A e \in Uses(t) : slots[e[1]] = [by |-> t, on |-> e[2], old |-> FALSE]
    /\ \A p \in finished[t] : slots[p].by = t

NothingOld == \A p \in Project : ~slots[p].old

\* The allocations of a file stay within every pool.
Within(s) == /\ Cardinality(Holders(s)) <= Active
             /\ Cardinality(Holders(s)) <= Models
             /\ \A b \in DOMAIN PerBackend : Cardinality(Users(s, {b})) <= PerBackend[b]
             /\ Cardinality(Users(s, Local)) <= Heavy

\* No two processes in the slot file at once, and no cycle that outlives its slot.
Timely == {"race", "overrun"} \cap Env = {}

SlotInv == OneView /\ ViewTrue /\ Held /\ NothingOld /\ Within(slots)
IInv == TypeOK /\ PhaseInv /\ SlotInv

-----------------------------------------------------------------------------
(***************************************************************************)
(* The order of a plan.                                                    *)
(***************************************************************************)
LEMMA ProjectsFinite == IsFiniteSet(Project) /\ Cardinality(Project) = N
  BY FleetAssumption, FS_Interval DEF FleetAssumption, Project

LEMMA BeforeIsStrictOrder ==
    ASSUME stamp \in [Project -> 0..N]
    PROVE  /\ \A p \in Project : ~Before(p, p)
           /\ \A p, q \in Project : p # q => Before(p, q) \/ Before(q, p)
           /\ \A p, q, r \in Project : Before(p, q) /\ Before(q, r) => Before(p, r)
<1>1. \A p \in Project : Priority[p] \in Nat /\ stamp[p] \in Nat /\ p \in Nat
  BY FleetAssumption DEF FleetAssumption, Project
<1>2. \A p \in Project : ~Before(p, p)
  BY <1>1 DEF Before
<1>3. \A p, q \in Project : p # q => Before(p, q) \/ Before(q, p)
  BY <1>1 DEF Before
<1>4. ASSUME NEW p \in Project, NEW q \in Project, NEW r \in Project, Before(p, q), Before(q, r)
      PROVE  Before(p, r)
  <2>1. /\ Priority[p] \in Nat /\ Priority[q] \in Nat /\ Priority[r] \in Nat
        /\ stamp[p] \in Nat /\ stamp[q] \in Nat /\ stamp[r] \in Nat
        /\ p \in Nat /\ q \in Nat /\ r \in Nat
    BY <1>1
  <2>2. CASE Priority[p] = Priority[q] /\ Priority[q] = Priority[r]
    BY <1>4, <2>1, <2>2 DEF Before
  <2>3. CASE Priority[p] # Priority[q] \/ Priority[q] # Priority[r]
    <3>1. Priority[p] > Priority[r]
      BY <1>4, <2>1, <2>3 DEF Before
    <3> QED
      BY <3>1 DEF Before
  <2> QED
    BY <2>2, <2>3
<1> QED
  BY <1>2, <1>3, <1>4

\* How many projects go first.
Place(p) == Cardinality({q \in Project : Before(q, p)}) + 1

LEMMA PlaceFollowsOrder ==
    ASSUME stamp \in [Project -> 0..N]
    PROVE  /\ \A p \in Project : Place(p) \in Project
           /\ \A p, q \in Project : Before(p, q) => Place(p) < Place(q)
<1> DEFINE S(p) == {q \in Project : Before(q, p)}
<1>1. \A p \in Project : S(p) \in SUBSET (Project \ {p})
  BY BeforeIsStrictOrder
<1>2. \A p \in Project : IsFiniteSet(Project \ {p}) /\ Cardinality(Project \ {p}) = N - 1
  BY ProjectsFinite, FS_RemoveElement
<1>3. \A p \in Project : IsFiniteSet(S(p)) /\ Cardinality(S(p)) \in 0..(N - 1)
  <2> TAKE p \in Project
  <2> HIDE DEF S
  <2>1. IsFiniteSet(S(p)) /\ Cardinality(S(p)) <= N - 1
    <3>1. S(p) \in SUBSET (Project \ {p})
      BY <1>1
    <3>2. IsFiniteSet(Project \ {p}) /\ Cardinality(Project \ {p}) = N - 1
      BY <1>2
    <3>3. IsFiniteSet(S(p)) /\ Cardinality(S(p)) <= Cardinality(Project \ {p})
      BY <3>1, <3>2, FS_Subset
    <3> QED
      BY <3>2, <3>3
  <2> QED
    BY <2>1, FS_CardinalityType, FleetAssumption DEF FleetAssumption
<1>4. \A p \in Project : Place(p) \in Project
  <2> TAKE p \in Project
  <2>1. Place(p) = Cardinality(S(p)) + 1
    BY DEF Place
  <2> HIDE DEF S
  <2> QED
    BY <1>3, <2>1, FleetAssumption DEF FleetAssumption, Project
<1>5. ASSUME NEW p \in Project, NEW q \in Project, Before(p, q)
      PROVE  Place(p) < Place(q)
  <2>1. S(p) \in SUBSET S(q)
    BY <1>5, BeforeIsStrictOrder
  <2>2. p \in S(q) /\ p \notin S(p)
    BY <1>5, BeforeIsStrictOrder
  <2>3. Place(p) = Cardinality(S(p)) + 1 /\ Place(q) = Cardinality(S(q)) + 1
    BY DEF Place
  <2> HIDE DEF S
  <2>4. Cardinality(S(p)) <= Cardinality(S(q)) /\ Cardinality(S(p)) # Cardinality(S(q))
    BY <1>3, <2>1, <2>2, FS_Subset
  <2> QED
    BY <1>3, <2>3, <2>4
<1> QED
  BY <1>4, <1>5

\* A plan looks at every project once, in the order of fairness_key: the sort of the code
\* never drops or repeats one, whatever the priorities and stamps are.
THEOREM PlanIsComplete ==
    ASSUME stamp \in [Project -> 0..N]
    PROVE  /\ Sorted \in [Project -> Project]
           /\ \A i, j \in Project : i < j => Before(Sorted[i], Sorted[j])
           /\ \A p \in Project : \E i \in Project : Sorted[i] = p
<1> DEFINE g == [p \in Project |-> Place(p)]
           s == [i \in Project |-> CHOOSE p \in Project : Place(p) = i]
<1>1. g \in Injection(Project, Project)
  <2>1. \A p, q \in Project : Place(p) = Place(q) => p = q
    <3> SUFFICES ASSUME NEW p \in Project, NEW q \in Project, p # q
                 PROVE  Place(p) # Place(q)
      OBVIOUS
    <3>1. Place(p) \in Nat /\ Place(q) \in Nat
      BY PlaceFollowsOrder, SMTT(30) DEF Project
    <3> QED
      BY <3>1, BeforeIsStrictOrder, PlaceFollowsOrder
  <2> QED
    BY <2>1, PlaceFollowsOrder DEF Injection, IsInjective
<1>2. g \in Surjection(Project, Project)
  BY <1>1, ProjectsFinite, FS_Injection
<1>3. \A i \in Project : \E p \in Project : Place(p) = i
  BY <1>2 DEF Surjection
<1>4. \A i \in Project : s[i] \in Project /\ Place(s[i]) = i
  BY <1>3
<1>5. s \in [Project -> Project]
  BY <1>4
<1>6. ASSUME NEW i \in Project, NEW j \in Project, i < j
      PROVE  Before(s[i], s[j])
  <2>1. s[i] # s[j]
    BY <1>4, <1>6 DEF Project
  <2>2. ~Before(s[j], s[i])
    BY <1>4, <1>6, PlaceFollowsOrder, SMTT(30) DEF Project
  <2> HIDE DEF s
  <2> QED
    BY <1>4, <2>1, <2>2, BeforeIsStrictOrder
<1>7. \E f \in [Project -> Project] : \A i, j \in Project : i < j => Before(f[i], f[j])
  BY <1>5, <1>6
<1>8. /\ Sorted \in [Project -> Project]
      /\ \A i, j \in Project : i < j => Before(Sorted[i], Sorted[j])
  BY <1>7 DEF Sorted
<1>9. Sorted \in Injection(Project, Project)
  <2>1. \A i, j \in Project : i # j => i < j \/ j < i
    BY DEF Project
  <2> QED
    BY <1>8, <2>1, BeforeIsStrictOrder DEF Injection, IsInjective
<1>10. Sorted \in Surjection(Project, Project)
  BY <1>9, ProjectsFinite, FS_Injection
<1> QED
  BY <1>8, <1>10 DEF Surjection

\* Ranks without gaps stay below the number of projects.
LEMMA RestampedRange ==
    ASSUME stamp \in [Project -> 0..N], NEW p \in Project, NEW new \in BOOLEAN
    PROVE  Restamped(p, new) \in [Project -> 0..N]
<1> DEFINE others == {stamp[q] : q \in Project \ {p}}
           rank == [q \in Project |-> Cardinality({n \in others : n < stamp[q]})]
           last == IF new \/ others = {} THEN Cardinality(others) ELSE Cardinality(others) - 1
           f == [q \in Project \ {p} |-> stamp[q]]
<1>1. IsFiniteSet(Project \ {p}) /\ Cardinality(Project \ {p}) = N - 1
  BY ProjectsFinite, FS_RemoveElement
<1>2. f \in Surjection(Project \ {p}, others)
  BY DEF Surjection
<1>3. IsFiniteSet(others) /\ Cardinality(others) <= N - 1
  <2> HIDE DEF others, f
  <2> QED
    BY <1>1, <1>2, FS_Surjection
<1>4. Cardinality(others) \in 0..(N - 1)
  <2> HIDE DEF others
  <2> QED
    BY <1>3, FS_CardinalityType, FleetAssumption DEF FleetAssumption
<1>5. ASSUME NEW q \in Project
      PROVE  Cardinality({n \in others : n < stamp[q]}) \in 0..N
  <2> DEFINE T == {n \in others : n < stamp[q]}
  <2>1. T \in SUBSET others
    OBVIOUS
  <2> HIDE DEF T, others
  <2>2. IsFiniteSet(T) /\ Cardinality(T) <= Cardinality(others)
    BY <1>3, <2>1, FS_Subset
  <2>3. Cardinality(T) \in 0..N
    BY <1>4, <2>2, FS_CardinalityType, FleetAssumption DEF FleetAssumption
  <2> QED
    BY <2>3 DEF T
<1>6. rank \in [Project -> 0..N]
  BY <1>5
<1>7. last \in 0..N
  <2>1. others # {} => Cardinality(others) # 0
    <3> HIDE DEF others
    <3> QED
      BY <1>3, FS_EmptySet
  <2> HIDE DEF others
  <2> QED
    BY <1>4, <2>1, FleetAssumption DEF FleetAssumption
<1>8. Restamped(p, new) = [rank EXCEPT ![p] = last]
  BY DEF Restamped
<1> HIDE DEF rank, last
<1> QED
  BY <1>6, <1>7, <1>8

-----------------------------------------------------------------------------
(***************************************************************************)
(* The values of slots.json.                                               *)
(***************************************************************************)
Record == [by : Tick \cup {Nobody, Dead}, on : DOMAIN PerBackend \cup {Nobody}, old : BOOLEAN]

LEMMA FreeIsRecord == Free \in Record
  BY DEF Free, Record

LEMMA AllocationsAre == Allocations = [Project -> Record]
  BY DEF Allocations, Record

LEMMA NotReadIsNone == NotRead \notin Allocations
<1>1. \A s \in Allocations : DOMAIN s = Project
  BY DEF Allocations
<1>2. 1 \in Project
  BY FleetAssumption DEF FleetAssumption, Project
<1>3. 1 \notin DOMAIN NotRead
  BY DEF NotRead
<1> QED
  BY <1>1, <1>2, <1>3

LEMMA ReapedIsFile == ASSUME NEW s \in Allocations PROVE Reaped(s) \in Allocations
  BY FreeIsRecord, AllocationsAre DEF Reaped

LEMMA SavedIsFile ==
    ASSUME NEW s \in Allocations, NEW p \in Project, NEW r \in Record
    PROVE  [s EXCEPT ![p] = r] \in Allocations
  BY AllocationsAre

LEMMA DiedIsFile == ASSUME NEW s \in Allocations, NEW t PROVE Died(s, t) \in Allocations
<1>1. \A r \in Record : [r EXCEPT !.by = Dead] \in Record
  BY DEF Record
<1> QED
  BY <1>1, AllocationsAre DEF Died

LEMMA ExpiredIsFile ==
    ASSUME NEW s \in Allocations, NEW p \in Project PROVE Expired(s, p) \in Allocations
<1>1. \A r \in Record, b \in BOOLEAN : [r EXCEPT !.old = b] \in Record
  BY DEF Record
<1> DEFINE held == s[p] # Free
<1>2. Expired(s, p) = [s EXCEPT ![p] = [s[p] EXCEPT !.old = held]]
  BY DEF Expired
<1>3. held \in BOOLEAN /\ s[p] \in Record
  BY AllocationsAre
<1> HIDE DEF held
<1>4. [s[p] EXCEPT !.old = held] \in Record
  BY <1>1, <1>3
<1> QED
  BY <1>2, <1>4, SavedIsFile, ZenonT(60)

-----------------------------------------------------------------------------
(***************************************************************************)
(* Types.                                                                  *)
(***************************************************************************)
TypeInv == TypeOK /\ PhaseInv

LEMMA TypeInit == Init => TypeInv
<1> SUFFICES ASSUME Init PROVE TypeInv
  OBVIOUS
<1>1. slots \in Allocations
  BY FreeIsRecord, AllocationsAre DEF Init
<1>2. stamp \in [Project -> 0..N]
  BY FleetAssumption DEF Init, FleetAssumption
<1>3. /\ todo \in [Tick -> Seq(Project)] /\ view \in [Tick -> Allocations \cup {NotRead}]
      /\ begun \in [Tick -> SUBSET Entries] /\ running \in [Tick -> SUBSET Entries]
      /\ finished \in [Tick -> SUBSET Project]
      /\ phase \in [Tick -> {"off", "plan", "run"}]
  BY DEF Init
<1>4. \A t \in Tick : view[t] = NotRead /\ finished[t] = {} /\ running[t] = {} /\ begun[t] = {}
                      /\ phase[t] = "off"
  BY DEF Init
<1>5. paused \in BOOLEAN /\ ready \subseteq Project
  BY DEF Init
<1> QED
  BY <1>1, <1>2, <1>3, <1>4, <1>5 DEF TypeInv, TypeOK, PhaseInv

\* The steps of a plan.
LEMMA PlanTypes ==
    ASSUME TypeInv, NEW t \in Tick, NEW p \in Project
    PROVE  /\ Begin(t) \/ Skip(t, p) \/ LoadForAcquire(t, p) => TypeInv'
           /\ \A b \in Chain[p] : Refuse(t, p, b) \/ Acquire(t, p, b) => TypeInv'
<1> USE DEF TypeInv
<1>1. ASSUME Begin(t) PROVE TypeInv'
  <2>1. Sorted \in Seq(Project)
    <3>1. Sorted \in [1..N -> Project]
      BY PlanIsComplete DEF TypeOK, Project
    <3> QED
      BY <3>1, FleetAssumption, SMTT(30) DEF FleetAssumption
  <2>2. TypeOK'
    BY <1>1, <2>1 DEF Begin, TypeOK, PhaseInv
  <2>3. PhaseInv'
    BY <1>1 DEF Begin, TypeOK, PhaseInv
  <2> QED
    BY <2>2, <2>3
<1>2. ASSUME Skip(t, p) PROVE TypeInv'
  <2>1. Tail(todo[t]) \in Seq(Project)
    BY <1>2 DEF Skip, Considers, TypeOK
  <2>2. TypeOK'
    BY <1>2, <2>1 DEF Skip, Done, TypeOK
  <2>3. PhaseInv'
    BY <1>2 DEF Skip, Considers, Done, TypeOK, PhaseInv
  <2> QED
    BY <2>2, <2>3
<1>3. ASSUME LoadForAcquire(t, p) PROVE TypeInv'
  <2>1. Reaped(slots) \in Allocations
    BY ReapedIsFile DEF TypeOK
  <2>2. TypeOK'
    BY <1>3, <2>1 DEF LoadForAcquire, Considers, Load, TypeOK
  <2>3. PhaseInv'
    BY <1>3 DEF LoadForAcquire, Considers, Load, TypeOK, PhaseInv
  <2> QED
    BY <2>2, <2>3
<1>4. ASSUME NEW b \in Chain[p], Refuse(t, p, b) PROVE TypeInv'
  <2>1. Tail(todo[t]) \in Seq(Project)
    BY <1>4 DEF Refuse, Considers, TypeOK
  <2>2. TypeOK'
    BY <1>4, <2>1 DEF Refuse, Done, TypeOK
  <2>3. PhaseInv'
    BY <1>4 DEF Refuse, Considers, Done, TypeOK, PhaseInv
  <2> QED
    BY <2>2, <2>3
<1>5. ASSUME NEW b \in Chain[p], Acquire(t, p, b) PROVE TypeInv'
  <2>1. Tail(todo[t]) \in Seq(Project)
    BY <1>5 DEF Acquire, Considers, TypeOK
  <2>2. stamp' \in [Project -> 0..N]
    <3>1. PICK new \in BOOLEAN : stamp' = Restamped(p, new)
      BY <1>5 DEF Acquire
    <3> QED
      BY <3>1, RestampedRange DEF TypeOK
  <2>3. slots' \in Allocations
    <3>1. view[t] \in Allocations
      BY <1>5 DEF Acquire, TypeOK
    <3>2. b \in DOMAIN PerBackend
      BY FleetAssumption DEF FleetAssumption
    <3>3. [by |-> t, on |-> b, old |-> FALSE] \in Record
      BY <3>2 DEF Record
    <3> QED
      BY <1>5, <3>1, <3>3, SavedIsFile DEF Acquire, Save
  <2>4. <<p, b>> \in Entries
    BY DEF Entries
  <2>5. TypeOK'
    BY <1>5, <2>1, <2>2, <2>3, <2>4 DEF Acquire, Save, Done, TypeOK
  <2>6. PhaseInv'
    BY <1>5 DEF Acquire, Considers, Save, Done, TypeOK, PhaseInv
  <2> QED
    BY <2>5, <2>6
<1> QED
  BY <1>1, <1>2, <1>3, <1>4, <1>5

\* The steps of a tick's cycles.
LEMMA RunTypes ==
    ASSUME TypeInv, NEW t \in Tick
    PROVE  /\ Submit(t) \/ LoadForRelease(t) \/ End(t) => TypeInv'
           /\ \A p \in Project : Finish(t, p) \/ Release(t, p) => TypeInv'
<1> USE DEF TypeInv
<1>1. ASSUME Submit(t) PROVE TypeInv'
  <2>1. finished[t] = {} /\ running[t] = {} /\ view[t] = NotRead
    BY <1>1 DEF Submit, TypeOK, PhaseInv
  <2>2. ready' \subseteq Project
    BY <1>1 DEF Submit, TypeOK
  <2>3. TypeOK'
    BY <1>1, <2>1, <2>2 DEF Submit, TypeOK
  <2>4. PhaseInv'
    BY <1>1, <2>1 DEF Submit, TypeOK, PhaseInv
  <2> QED
    BY <2>3, <2>4
<1>2. ASSUME LoadForRelease(t) PROVE TypeInv'
  <2>1. Reaped(slots) \in Allocations
    BY ReapedIsFile DEF TypeOK
  <2>2. TypeOK'
    BY <1>2, <2>1 DEF LoadForRelease, Load, TypeOK
  <2>3. PhaseInv'
    BY <1>2 DEF LoadForRelease, Load, TypeOK, PhaseInv
  <2> QED
    BY <2>2, <2>3
<1>3. ASSUME End(t) PROVE TypeInv'
  <2>1. view[t] = NotRead /\ begun[t] = {}
    BY <1>3 DEF End, PhaseInv
  <2>2. TypeOK'
    BY <1>3, <2>1 DEF End, TypeOK
  <2>3. PhaseInv'
    BY <1>3, <2>1 DEF End, TypeOK, PhaseInv
  <2> QED
    BY <2>2, <2>3
<1>4. ASSUME NEW p \in Project, Finish(t, p) PROVE TypeInv'
  <2>1. phase[t] = "run"
    BY <1>4 DEF Finish, PhaseInv, Projects
  <2>2. /\ running' \in [Tick -> SUBSET Entries]
        /\ finished' \in [Tick -> SUBSET Project]
        /\ \A u \in Tick : finished'[u] \cap Projects(running'[u]) = {}
    BY <1>4 DEF Finish, TypeOK, Projects
  <2>3. TypeOK'
    BY <1>4, <2>2 DEF Finish, TypeOK
  <2>4. PhaseInv'
    BY <1>4, <2>1 DEF Finish, TypeOK, PhaseInv
  <2> QED
    BY <2>3, <2>4
<1>5. ASSUME NEW p \in Project, Release(t, p) PROVE TypeInv'
  <2>1. slots' \in Allocations
    BY <1>5, FreeIsRecord, SavedIsFile DEF Release, Save, TypeOK
  <2>2. TypeOK'
    BY <1>5, <2>1 DEF Release, Save, TypeOK
  <2>3. PhaseInv'
    BY <1>5 DEF Release, Save, TypeOK, PhaseInv
  <2> QED
    BY <2>2, <2>3
<1> QED
  BY <1>1, <1>2, <1>3, <1>4, <1>5

\* What happens around the ticks.
LEMMA AroundTypes ==
    ASSUME TypeInv
    PROVE  /\ \A t \in Tick : Crash(t) => TypeInv'
           /\ \A p \in Project : Queue(p) \/ Withdraw(p) \/ Expire(p) => TypeInv'
           /\ SetGlobalPause \/ UNCHANGED vars => TypeInv'
<1> USE DEF TypeInv
<1>1. ASSUME NEW t \in Tick, Crash(t) PROVE TypeInv'
  <2>1. slots' \in Allocations
    BY <1>1, DiedIsFile DEF Crash, TypeOK
  <2>2. view' \in [Tick -> Allocations \cup {NotRead}]
    <3>1. \A u \in Tick : view[u] # NotRead => Died(view[u], t) \in Allocations
      BY DiedIsFile DEF TypeOK
    <3> QED
      BY <1>1, <3>1 DEF Crash
  <2>3. \A u \in Tick : /\ view'[u] # NotRead => view[u] # NotRead /\ u # t
                        /\ todo'[u] = (IF u = t THEN <<>> ELSE todo[u])
    BY <1>1 DEF Crash, TypeOK
  <2>4. todo' \in [Tick -> Seq(Project)]
    BY <1>1 DEF Crash, TypeOK
  <2>5. TypeOK'
    BY <1>1, <2>1, <2>2, <2>3, <2>4 DEF Crash, TypeOK, Projects
  <2>6. PhaseInv'
    BY <1>1, <2>3 DEF Crash, TypeOK, PhaseInv
  <2> QED
    BY <2>5, <2>6
<1>2. ASSUME NEW p \in Project, Expire(p) PROVE TypeInv'
  <2>1. slots' \in Allocations
    BY <1>2, ExpiredIsFile DEF Expire, TypeOK
  <2>2. view' \in [Tick -> Allocations \cup {NotRead}]
    <3>1. \A u \in Tick : view[u] # NotRead => Expired(view[u], p) \in Allocations
      BY ExpiredIsFile DEF TypeOK
    <3> QED
      BY <1>2, <3>1 DEF Expire
  <2>3. \A u \in Tick : view'[u] # NotRead => view[u] # NotRead
    BY <1>2 DEF Expire
  <2>4. TypeOK'
    BY <1>2, <2>1, <2>2, <2>3 DEF Expire, TypeOK
  <2>5. PhaseInv'
    BY <1>2, <2>3 DEF Expire, PhaseInv
  <2> QED
    BY <2>4, <2>5
<1>3. ASSUME NEW p \in Project, Queue(p) \/ Withdraw(p) PROVE TypeInv'
  <2>1. TypeOK'
    BY <1>3 DEF Queue, Withdraw, TypeOK
  <2>2. PhaseInv'
    BY <1>3 DEF Queue, Withdraw, PhaseInv
  <2> QED
    BY <2>1, <2>2
<1>4. ASSUME SetGlobalPause \/ UNCHANGED vars PROVE TypeInv'
  <2>1. TypeOK'
    BY <1>4 DEF SetGlobalPause, vars, TypeOK
  <2>2. PhaseInv'
    BY <1>4 DEF SetGlobalPause, vars, PhaseInv
  <2> QED
    BY <2>1, <2>2
<1> QED
  BY <1>1, <1>2, <1>3, <1>4

LEMMA TypeKept == TypeInv /\ [Next]_vars => TypeInv'
<1> SUFFICES ASSUME TypeInv, [Next]_vars PROVE TypeInv'
  OBVIOUS
<1>1. 1 \in Project
  BY FleetAssumption DEF FleetAssumption, Project
<1>2. CASE \E t \in Tick : Begin(t)
  BY <1>1, <1>2, PlanTypes
<1>3. CASE \E t \in Tick : Step(t)
  <2> PICK t \in Tick : Step(t)
    BY <1>3
  <2>1. CASE \E p \in Project : \/ Skip(t, p) \/ LoadForAcquire(t, p)
                                \/ \E b \in Chain[p] : Refuse(t, p, b) \/ Acquire(t, p, b)
    BY <2>1, PlanTypes
  <2>2. CASE \/ Submit(t) \/ LoadForRelease(t) \/ End(t)
             \/ \E p \in Project : Release(t, p)
    BY <2>2, RunTypes
  <2> QED
    BY <2>1, <2>2 DEF Step
<1>4. CASE \E t \in Tick, p \in Project : Finish(t, p)
  BY <1>4, RunTypes
<1>5. CASE \/ \E t \in Tick : Crash(t)
           \/ \E p \in Project : Queue(p) \/ Withdraw(p) \/ Expire(p)
           \/ SetGlobalPause \/ UNCHANGED vars
  BY <1>5, AroundTypes
<1> QED
  BY <1>2, <1>3, <1>4, <1>5 DEF Next

\* The types hold however the ticks race, crash and overrun.
THEOREM TypeAlways == Spec => []TypeOK
<1>1. Spec => []TypeInv
  BY TypeInit, TypeKept, PTL DEF Spec
<1>2. TypeInv => TypeOK
  BY DEF TypeInv
<1> QED
  BY <1>1, <1>2, PTL

-----------------------------------------------------------------------------
(***************************************************************************)
(* The pools, as the file has them.                                        *)
(***************************************************************************)
LEMMA SomeProjects ==
    ASSUME NEW S \in SUBSET Project
    PROVE  IsFiniteSet(S) /\ Cardinality(S) \in Nat
           /\ \A T \in SUBSET S : Cardinality(T) \in Nat /\ Cardinality(T) <= Cardinality(S)
<1>1. IsFiniteSet(S)
  BY ProjectsFinite, FS_Subset
<1>2. \A T \in SUBSET S : IsFiniteSet(T) /\ Cardinality(T) <= Cardinality(S)
  BY <1>1, FS_Subset
<1> QED
  BY <1>1, <1>2, FS_CardinalityType

\* Allocations that go, or change hands, leave the pools respected.
LEMMA FewerWithin ==
    ASSUME NEW s, NEW r, Within(s),
           \A p \in Project : r[p] # Free => s[p] # Free /\ r[p].on = s[p].on
    PROVE  Within(r)
<1>1. Holders(r) \subseteq Holders(s) /\ Holders(s) \subseteq Project
  BY DEF Holders
<1>2. \A B : Users(r, B) \subseteq Users(s, B) /\ Users(s, B) \subseteq Project
  BY <1>1 DEF Users, Holders
<1>3. Cardinality(Holders(r)) \in Nat /\ Cardinality(Holders(s)) \in Nat
      /\ Cardinality(Holders(r)) <= Cardinality(Holders(s))
  BY <1>1, SomeProjects
<1>4. \A B : Cardinality(Users(r, B)) \in Nat /\ Cardinality(Users(s, B)) \in Nat
             /\ Cardinality(Users(r, B)) <= Cardinality(Users(s, B))
  BY <1>2, SomeProjects
<1>5. Active \in Nat /\ Models \in Nat /\ Heavy \in Nat
      /\ \A b \in DOMAIN PerBackend : PerBackend[b] \in Nat
  BY FleetAssumption DEF FleetAssumption
<1>6. Cardinality(Holders(r)) <= Active /\ Cardinality(Holders(r)) <= Models
  BY <1>3, <1>5 DEF Within
<1>7. \A b \in DOMAIN PerBackend : Cardinality(Users(r, {b})) <= PerBackend[b]
  <2> TAKE b \in DOMAIN PerBackend
  <2>1. Cardinality(Users(s, {b})) <= PerBackend[b] /\ PerBackend[b] \in Nat
    BY <1>5 DEF Within
  <2>2. Cardinality(Users(r, {b})) \in Nat /\ Cardinality(Users(s, {b})) \in Nat
        /\ Cardinality(Users(r, {b})) <= Cardinality(Users(s, {b}))
    BY <1>4
  <2> QED
    BY <2>1, <2>2
<1>8. Cardinality(Users(r, Local)) <= Heavy
  BY <1>4, <1>5 DEF Within
<1> QED
  BY <1>6, <1>7, <1>8 DEF Within

\* An allocation that fits.
LEMMA OneMoreWithin ==
    ASSUME NEW s \in Allocations, Within(s), NEW p \in Project, NEW c \in DOMAIN PerBackend,
           Fits(s, p, c), NEW t \in Tick
    PROVE  Within([s EXCEPT ![p] = [by |-> t, on |-> c, old |-> FALSE]])
<1> DEFINE a == [by |-> t, on |-> c, old |-> FALSE]
           r == [s EXCEPT ![p] = a]
<1>1. a # Free /\ a.on = c
  <2>1. a.by = t /\ Free.by = Nobody /\ t # Nobody
    BY FleetAssumption DEF FleetAssumption, Free
  <2> QED
    BY <2>1
<1> HIDE DEF a
<1>2. \A q \in Project : r[q] = IF q = p THEN a ELSE s[q]
  BY DEF Allocations
<1>3. s[p] = Free /\ p \notin Holders(s)
  BY DEF Fits, Holders
<1>4. Holders(r) = Holders(s) \cup {p} /\ Holders(s) \in SUBSET Project
  BY <1>1, <1>2, <1>3 DEF Holders
<1>5. \A B : Users(s, B) \in SUBSET Project /\ p \notin Users(s, B)
             /\ Users(r, B) = IF c \in B THEN Users(s, B) \cup {p} ELSE Users(s, B)
  BY <1>1, <1>2, <1>3, <1>4 DEF Users
<1>6. \A S \in SUBSET Project : p \notin S => /\ Cardinality(S) \in Nat
                                               /\ Cardinality(S \cup {p}) = Cardinality(S) + 1
  BY SomeProjects, FS_AddElement
<1>7. Active \in Nat /\ Models \in Nat /\ Heavy \in Nat
      /\ \A b \in DOMAIN PerBackend : PerBackend[b] \in Nat
  BY FleetAssumption DEF FleetAssumption
<1> HIDE DEF r
<1>8. Cardinality(Holders(r)) <= Active /\ Cardinality(Holders(r)) <= Models
  BY <1>3, <1>4, <1>6, <1>7 DEF Fits
<1>9. \A b \in DOMAIN PerBackend : Cardinality(Users(r, {b})) <= PerBackend[b]
  <2> TAKE b \in DOMAIN PerBackend
  <2>1. CASE b = c
    <3>1. Cardinality(Users(s, {c})) < PerBackend[c]
      BY DEF Fits
    <3>2. Cardinality(Users(r, {c})) = Cardinality(Users(s, {c})) + 1
          /\ Cardinality(Users(s, {c})) \in Nat
      BY <1>5, <1>6
    <3> QED
      BY <1>7, <2>1, <3>1, <3>2
  <2>2. CASE b # c
    BY <1>5, <2>2 DEF Within
  <2> QED
    BY <2>1, <2>2
<1>10. Cardinality(Users(r, Local)) <= Heavy
  <2>1. CASE c \in Local
    <3>1. Cardinality(Users(s, Local)) < Heavy
      BY <2>1 DEF Fits
    <3>2. Cardinality(Users(r, Local)) = Cardinality(Users(s, Local)) + 1
          /\ Cardinality(Users(s, Local)) \in Nat
      BY <1>5, <1>6, <2>1
    <3> QED
      BY <1>7, <3>1, <3>2
  <2>2. CASE c \notin Local
    BY <1>5, <2>2 DEF Within
  <2> QED
    BY <2>1, <2>2
<1>11. Within(r)
  BY <1>8, <1>9, <1>10 DEF Within
<1> QED
  BY <1>11 DEF r, a

-----------------------------------------------------------------------------
(***************************************************************************)
(* The slots.                                                              *)
(***************************************************************************)
LEMMA SlotInit == Init => SlotInv
<1> SUFFICES ASSUME Init PROVE SlotInv
  OBVIOUS
<1>1. OneView /\ ViewTrue
  BY DEF Init, OneView, ViewTrue
<1>2. Held
  BY DEF Init, Held, Uses
<1>3. NothingOld
  BY DEF Init, NothingOld, Free
<1>4. Within(slots)
  <2>1. Holders(slots) = {}
    BY DEF Init, Holders
  <2>2. \A B : Users(slots, B) = {}
    BY <2>1 DEF Users
  <2>3. Cardinality({}) = 0
    BY FS_EmptySet
  <2> QED
    BY <2>1, <2>2, <2>3, FleetAssumption DEF Within, FleetAssumption
<1> QED
  BY <1>1, <1>2, <1>3, <1>4 DEF SlotInv

\* What touches neither the file nor what is read of it, and starts nothing.
LEMMA SlotFrame ==
    SlotInv /\ UNCHANGED <<slots, view>>
            /\ (\A t \in Tick : Uses(t)' \subseteq Uses(t) /\ finished'[t] \subseteq finished[t])
        => SlotInv'
<1> SUFFICES ASSUME SlotInv, UNCHANGED <<slots, view>>,
                    \A t \in Tick : Uses(t)' \subseteq Uses(t) /\ finished'[t] \subseteq finished[t]
             PROVE  SlotInv'
  OBVIOUS
<1>1. OneView' /\ ViewTrue' /\ NothingOld'
  BY DEF SlotInv, OneView, ViewTrue, NothingOld
<1>2. Held'
  BY DEF SlotInv, Held
<1>3. Within(slots)'
  BY DEF SlotInv, Within, Holders, Users
<1> QED
  BY <1>1, <1>2, <1>3 DEF SlotInv

LEMMA QuietSteps ==
    ASSUME TypeInv, SlotInv
    PROVE  /\ \A t \in Tick : Begin(t) \/ Submit(t) \/ End(t) => SlotInv'
           /\ \A t \in Tick, p \in Project : Skip(t, p) \/ Finish(t, p) => SlotInv'
           /\ \A p \in Project : Queue(p) \/ Withdraw(p) => SlotInv'
           /\ SetGlobalPause \/ UNCHANGED vars => SlotInv'
<1>1. ASSUME NEW t \in Tick, Begin(t) \/ Submit(t) \/ End(t) PROVE SlotInv'
  <2>1. \A u \in Tick : Uses(u)' \subseteq Uses(u) /\ finished'[u] \subseteq finished[u]
    <3>1. CASE Begin(t)
      BY <3>1, SMTT(30) DEF Begin, Uses, TypeInv, TypeOK
    <3>2. CASE Submit(t)
      BY <3>2, SMTT(30) DEF Submit, Uses, TypeInv, TypeOK
    <3>3. CASE End(t)
      BY <3>3, SMTT(30) DEF End, Uses, TypeInv, TypeOK
    <3> QED
      BY <1>1, <3>1, <3>2, <3>3
  <2> QED
    BY <1>1, <2>1, SlotFrame DEF Begin, Submit, End
<1>2. ASSUME NEW t \in Tick, NEW p \in Project, Skip(t, p) PROVE SlotInv'
  <2>1. \A u \in Tick : Uses(u)' \subseteq Uses(u) /\ finished'[u] \subseteq finished[u]
    BY <1>2 DEF Skip, Uses
  <2> QED
    BY <1>2, <2>1, SlotFrame DEF Skip
<1>3. ASSUME NEW t \in Tick, NEW p \in Project, Finish(t, p) PROVE SlotInv'
  <2>1. \A u \in Tick : Uses(u)' \subseteq Uses(u)
    BY <1>3 DEF Finish, Uses, TypeInv, TypeOK
  <2>2. slots[p].by = t
    <3>1. PICK e \in running[t] : e[1] = p
      BY <1>3 DEF Finish, Projects
    <3>2. slots[p] = [by |-> t, on |-> e[2], old |-> FALSE]
      BY <3>1 DEF SlotInv, Held, Uses
    <3> QED
      BY <3>2
  <2>3. \A u \in Tick : \A q \in finished'[u] : q \in finished[u] \/ (u = t /\ q = p)
    BY <1>3 DEF Finish, TypeInv, TypeOK
  <2>4. Held'
    BY <1>3, <2>1, <2>2, <2>3 DEF Finish, SlotInv, Held
  <2>5. OneView' /\ ViewTrue' /\ NothingOld'
    BY <1>3 DEF Finish, SlotInv, OneView, ViewTrue, NothingOld
  <2>6. Within(slots)'
    BY <1>3 DEF Finish, SlotInv, Within, Holders, Users
  <2> QED
    BY <2>4, <2>5, <2>6 DEF SlotInv
<1>4. ASSUME NEW p \in Project, Queue(p) \/ Withdraw(p) PROVE SlotInv'
  BY <1>4, SlotFrame DEF Queue, Withdraw, Uses
<1>5. ASSUME SetGlobalPause \/ UNCHANGED vars PROVE SlotInv'
  BY <1>5, SlotFrame DEF SetGlobalPause, vars, Uses
<1> QED
  BY <1>1, <1>2, <1>3, <1>4, <1>5

\* Reading the file: nothing is old, so only what dead processes hold is dropped.
LEMMA ReadSteps ==
    ASSUME Timely, TypeInv, SlotInv, NEW t \in Tick, NEW p \in Project
    PROVE  /\ LoadForAcquire(t, p) \/ LoadForRelease(t) => SlotInv'
           /\ \A b \in Chain[p] : Refuse(t, p, b) => SlotInv'
<1>1. ASSUME LoadForAcquire(t, p) \/ LoadForRelease(t) PROVE SlotInv'
  <2>1. /\ \A u \in Tick : view[u] = NotRead
        /\ view' = [view EXCEPT ![t] = Reaped(slots)]
    BY <1>1 DEF LoadForAcquire, LoadForRelease, Load, Timely
  <2>2. UNCHANGED <<slots, begun, running, finished>>
    BY <1>1 DEF LoadForAcquire, LoadForRelease
  <2>3. OneView'
    BY <2>1 DEF OneView
  <2>4. \A q \in Project : \/ Reaped(slots)[q] = slots[q]
                           \/ slots[q].by = Dead /\ Reaped(slots)[q] = Free
    BY DEF Reaped, SlotInv, NothingOld
  <2>5. ViewTrue'
    BY <2>1, <2>2, <2>4 DEF ViewTrue, TypeInv, TypeOK
  <2>6. Held' /\ NothingOld'
    BY <2>2 DEF SlotInv, Held, Uses, NothingOld
  <2>7. Within(slots)'
    BY <2>2 DEF SlotInv, Within, Holders, Users
  <2> QED
    BY <2>3, <2>5, <2>6, <2>7 DEF SlotInv
<1>2. ASSUME NEW b \in Chain[p], Refuse(t, p, b) PROVE SlotInv'
  <2>1. /\ view' = [view EXCEPT ![t] = NotRead]
        /\ UNCHANGED <<slots, begun, running, finished>>
    BY <1>2 DEF Refuse
  <2>2. OneView' /\ ViewTrue'
    BY <2>1 DEF SlotInv, OneView, ViewTrue, TypeInv, TypeOK
  <2>3. Held' /\ NothingOld'
    BY <2>1 DEF SlotInv, Held, Uses, NothingOld
  <2>4. Within(slots)'
    BY <2>1 DEF SlotInv, Within, Holders, Users
  <2> QED
    BY <2>2, <2>3, <2>4 DEF SlotInv
<1> QED
  BY <1>1, <1>2

\* What a live tick holds is in what any tick has read.
LEMMA HeldIsRead ==
    ASSUME SlotInv, NEW t \in Tick, view[t] # NotRead
    PROVE  /\ \A u \in Tick, p \in Project : slots[p].by = u => view[t][p] = slots[p]
           /\ \A p \in Project : ~view[t][p].old
<1>1. Dead \notin Tick
  BY FleetAssumption DEF FleetAssumption
<1>2. \A u \in Tick, p \in Project : slots[p].by = u => view[t][p] = slots[p]
  BY <1>1 DEF SlotInv, ViewTrue
<1>3. ~Free.old
  BY DEF Free
<1>4. \A p \in Project : ~view[t][p].old
  BY <1>3 DEF SlotInv, ViewTrue, NothingOld
<1> QED
  BY <1>2, <1>4

\* Everything a tick saves is within the pools.
LEMMA ViewWithin ==
    ASSUME SlotInv, NEW t \in Tick, view[t] # NotRead PROVE Within(view[t])
<1>1. \A p \in Project : view[t][p] # Free => slots[p] # Free /\ view[t][p].on = slots[p].on
  BY DEF SlotInv, ViewTrue
<1> QED
  BY <1>1, FewerWithin DEF SlotInv

LEMMA AcquireStep ==
    ASSUME TypeInv, SlotInv, NEW t \in Tick, NEW p \in Project, NEW b \in Chain[p],
           Acquire(t, p, b)
    PROVE  SlotInv'
<1> DEFINE a == [by |-> t, on |-> b, old |-> FALSE]
<1>1. /\ view[t] # NotRead /\ Fits(view[t], p, b) /\ view[t][p] = Free
      /\ slots' = [view[t] EXCEPT ![p] = a]
      /\ view' = [view EXCEPT ![t] = NotRead]
  BY DEF Acquire, Save, Fits
<1>2. /\ \A u \in Tick : view'[u] = NotRead
      /\ view[t] \in Allocations
  BY <1>1 DEF SlotInv, OneView, TypeInv, TypeOK
<1>3. OneView' /\ ViewTrue'
  BY <1>2 DEF OneView, ViewTrue
<1>4. a.by = t /\ a.old = FALSE
  OBVIOUS
<1>5. \A q \in Project : slots'[q] = IF q = p THEN a ELSE view[t][q]
  BY <1>1, <1>2 DEF Allocations
<1>6. \A u \in Tick, q \in Project : slots[q].by = u => q # p /\ slots'[q] = slots[q]
  <2>1. Free.by = Nobody /\ Nobody \notin Tick
    BY FleetAssumption DEF FleetAssumption, Free
  <2> QED
    BY <1>1, <1>5, <2>1, HeldIsRead
<1> HIDE DEF a
<1>7. NothingOld'
  BY <1>1, <1>4, <1>5, HeldIsRead DEF NothingOld
<1>8. Held'
  <2>1. \A u \in Tick : \A e \in Uses(u)' : e \in Uses(u) \/ (u = t /\ e = <<p, b>>)
    BY DEF Acquire, Uses, TypeInv, TypeOK
  <2>2. \A u \in Tick : finished'[u] = finished[u]
    BY DEF Acquire
  <2>3. \A u \in Tick : Uses(u) \subseteq Entries /\ finished[u] \subseteq Project
    BY DEF Uses, TypeInv, TypeOK
  <2>4. \A e \in Entries : e[1] \in Project
    BY DEF Entries
  <2>5. \A u \in Tick : \A e \in Uses(u) :
            slots'[e[1]] = [by |-> u, on |-> e[2], old |-> FALSE]
    <3> TAKE u \in Tick
    <3> TAKE e \in Uses(u)
    <3>1. e[1] \in Project /\ slots[e[1]] = [by |-> u, on |-> e[2], old |-> FALSE]
      BY <2>3, <2>4 DEF SlotInv, Held
    <3>2. slots[e[1]].by = u
      BY <3>1
    <3> QED
      BY <1>6, <3>1, <3>2
  <2>6. slots'[<<p, b>>[1]] = [by |-> t, on |-> <<p, b>>[2], old |-> FALSE]
    BY <1>5 DEF a
  <2>7. \A u \in Tick : \A q \in finished[u] : slots'[q].by = u
    BY <1>6, <2>3 DEF SlotInv, Held
  <2> QED
    BY <2>1, <2>2, <2>5, <2>6, <2>7 DEF Held
<1>9. Within(slots)'
  <2>1. Within(view[t])
    BY <1>1, ViewWithin
  <2>2. b \in DOMAIN PerBackend
    BY FleetAssumption DEF FleetAssumption
  <2>3. Within([view[t] EXCEPT ![p] = a])
    BY <1>1, <1>2, <2>1, <2>2, OneMoreWithin DEF a
  <2>4. Within(slots')
    BY <1>1, <2>3
  <2> QED
    BY <2>4 DEF Within, Holders, Users
<1> QED
  BY <1>3, <1>7, <1>8, <1>9 DEF SlotInv

LEMMA ReleaseStep ==
    ASSUME TypeInv, SlotInv, NEW t \in Tick, NEW p \in Project, Release(t, p)
    PROVE  SlotInv'
<1>1. /\ view[t] # NotRead /\ p \in finished[t]
      /\ slots' = [view[t] EXCEPT ![p] = Free]
      /\ view' = [view EXCEPT ![t] = NotRead]
      /\ finished' = [finished EXCEPT ![t] = @ \ {p}]
      /\ UNCHANGED <<begun, running>>
  BY DEF Release, Save
<1>2. /\ \A u \in Tick : view'[u] = NotRead
      /\ view[t] \in Allocations
  BY <1>1 DEF SlotInv, OneView, TypeInv, TypeOK
<1>3. OneView' /\ ViewTrue'
  BY <1>2 DEF OneView, ViewTrue
<1>4. \A q \in Project : slots'[q] = IF q = p THEN Free ELSE view[t][q]
  BY <1>1, <1>2 DEF Allocations
<1>5. NothingOld'
  BY <1>1, <1>4, HeldIsRead DEF NothingOld, Free
<1>6. slots[p].by = t
  BY <1>1 DEF SlotInv, Held
<1>7. Held'
  <2>1. \A u \in Tick : Uses(u)' = Uses(u) /\ Uses(u) \subseteq Entries
    BY <1>1 DEF Uses, TypeInv, TypeOK
  <2>2. \A e \in Entries : e[1] \in Project
    BY DEF Entries
  <2>3. p \notin Projects(Uses(t))
    BY <1>1 DEF Uses, Projects, TypeInv, TypeOK, PhaseInv
  <2>4. \A u \in Tick : \A e \in Uses(u) :
            slots'[e[1]] = [by |-> u, on |-> e[2], old |-> FALSE]
    <3> TAKE u \in Tick
    <3> TAKE e \in Uses(u)
    <3>1. e[1] \in Project /\ slots[e[1]] = [by |-> u, on |-> e[2], old |-> FALSE]
      BY <2>1, <2>2 DEF SlotInv, Held
    <3>2. slots[e[1]].by = u
      BY <3>1
    <3>3. e[1] # p
      BY <1>6, <2>3, <3>2 DEF Projects
    <3> QED
      BY <1>1, <1>4, <3>1, <3>2, <3>3, HeldIsRead
  <2>5. \A u \in Tick : \A q \in finished'[u] : q \in finished[u] /\ q \in Project /\ q # p
    BY <1>1, <1>6 DEF SlotInv, Held, TypeInv, TypeOK
  <2>6. \A u \in Tick : \A q \in finished'[u] : slots'[q].by = u
    BY <1>1, <1>4, <2>5, HeldIsRead DEF SlotInv, Held
  <2> QED
    BY <2>1, <2>4, <2>6 DEF Held
<1>8. Within(slots)'
  <2>1. Within(view[t])
    BY <1>1, ViewWithin
  <2>2. Within(slots')
    BY <1>4, <2>1, FewerWithin
  <2> QED
    BY <2>2 DEF Within, Holders, Users
<1> QED
  BY <1>3, <1>5, <1>7, <1>8 DEF SlotInv

LEMMA CrashStep ==
    ASSUME TypeInv, SlotInv, NEW t \in Tick, Crash(t)
    PROVE  SlotInv'
<1>1. /\ slots' = Died(slots, t)
      /\ view' = [u \in Tick |-> IF u = t \/ view[u] = NotRead THEN NotRead ELSE Died(view[u], t)]
      /\ begun' = [begun EXCEPT ![t] = {}] /\ running' = [running EXCEPT ![t] = {}]
      /\ finished' = [finished EXCEPT ![t] = {}]
  BY DEF Crash
<1>2. /\ Nobody # t /\ Dead # t /\ Free.by = Nobody /\ Free.old = FALSE
  BY FleetAssumption DEF FleetAssumption, Free
<1>3. ASSUME NEW s \in Allocations, NEW p \in Project
      PROVE  /\ s[p].by # t => Died(s, t)[p] = s[p]
             /\ s[p].by = t => Died(s, t)[p] = [s[p] EXCEPT !.by = Dead]
             /\ s[p] \in Record
  BY AllocationsAre DEF Died
<1>4. ASSUME NEW s \in Allocations, NEW p \in Project
      PROVE  /\ Died(s, t)[p].old = s[p].old /\ Died(s, t)[p].on = s[p].on
             /\ s[p] = Free => Died(s, t)[p] = Free
             /\ s[p].by = Dead => Died(s, t)[p].by = Dead
  <2>1. CASE s[p].by # t
    BY <1>2, <1>3, <2>1
  <2>2. CASE s[p].by = t
    <3>1. s[p] \in Record /\ Died(s, t)[p] = [s[p] EXCEPT !.by = Dead]
      BY <1>3, <2>2
    <3> QED
      BY <1>2, <2>2, <3>1, SMTT(30) DEF Record
  <2> QED
    BY <2>1, <2>2
<1>5. slots \in Allocations /\ \A u \in Tick : view[u] # NotRead => view[u] \in Allocations
  BY DEF TypeInv, TypeOK
<1>6. OneView'
  BY <1>1 DEF SlotInv, OneView
<1>7. ViewTrue'
  <2> SUFFICES ASSUME NEW u \in Tick, view'[u] # NotRead, NEW p \in Project
               PROVE  \/ view'[u][p] = slots'[p]
                      \/ slots'[p].by = Dead /\ view'[u][p] = Free
    BY DEF ViewTrue
  <2>1. view[u] # NotRead /\ view'[u] = Died(view[u], t)
    BY <1>1
  <2>2. CASE view[u][p] = slots[p]
    <3>1. Died(view[u], t)[p] = Died(slots, t)[p]
      BY <2>2 DEF Died
    <3> QED
      BY <1>1, <2>1, <3>1
  <2>3. CASE slots[p].by = Dead /\ view[u][p] = Free
    BY <1>1, <1>4, <1>5, <2>1, <2>3
  <2> QED
    BY <2>1, <2>2, <2>3 DEF SlotInv, ViewTrue
<1>8. NothingOld'
  BY <1>1, <1>4, <1>5 DEF SlotInv, NothingOld
<1>9. Held'
  <2>1. Uses(t)' = {} /\ finished'[t] = {}
    BY <1>1 DEF Uses, TypeInv, TypeOK
  <2>2. \A u \in Tick \ {t} : Uses(u)' = Uses(u) /\ finished'[u] = finished[u]
    BY <1>1 DEF Uses, TypeInv, TypeOK
  <2>3. \A u \in Tick : Uses(u) \subseteq Entries /\ finished[u] \subseteq Project
    BY DEF Uses, TypeInv, TypeOK
  <2>4. \A e \in Entries : e[1] \in Project
    BY DEF Entries
  <2>5. \A u \in Tick \ {t}, p \in Project : slots[p].by = u => slots'[p] = slots[p]
    BY <1>1, <1>3, <1>5
  <2>6. \A u \in Tick \ {t} : \A e \in Uses(u) :
            slots'[e[1]] = [by |-> u, on |-> e[2], old |-> FALSE]
    <3> TAKE u \in Tick \ {t}
    <3> TAKE e \in Uses(u)
    <3>1. e[1] \in Project /\ slots[e[1]] = [by |-> u, on |-> e[2], old |-> FALSE]
      BY <2>3, <2>4 DEF SlotInv, Held
    <3>2. slots[e[1]].by = u
      BY <3>1
    <3> QED
      BY <2>5, <3>1, <3>2
  <2>7. \A u \in Tick \ {t} : \A q \in finished[u] : slots'[q].by = u
    BY <2>3, <2>5 DEF SlotInv, Held
  <2> QED
    BY <2>1, <2>2, <2>6, <2>7 DEF Held
<1>10. Within(slots)'
  <2>1. \A p \in Project : slots'[p] # Free => slots[p] # Free /\ slots'[p].on = slots[p].on
    BY <1>1, <1>4, <1>5
  <2>2. Within(slots')
    BY <2>1, FewerWithin DEF SlotInv
  <2> QED
    BY <2>2 DEF Within, Holders, Users
<1> QED
  BY <1>6, <1>7, <1>8, <1>9, <1>10 DEF SlotInv

LEMMA SlotKept == Timely /\ IInv /\ [Next]_vars => SlotInv'
<1> SUFFICES ASSUME Timely, TypeInv, SlotInv, [Next]_vars PROVE SlotInv'
  BY DEF IInv, TypeInv
<1>1. 1 \in Project
  BY FleetAssumption DEF FleetAssumption, Project
<1>2. CASE \/ \E t \in Tick : Begin(t)
           \/ \E t \in Tick, p \in Project : Finish(t, p)
           \/ \E p \in Project : Queue(p) \/ Withdraw(p)
           \/ SetGlobalPause \/ UNCHANGED vars
  BY <1>2, QuietSteps
<1>3. CASE \E t \in Tick : Step(t)
  <2> PICK t \in Tick : Step(t)
    BY <1>3
  <2>1. CASE \E p \in Project : Skip(t, p) \/ LoadForAcquire(t, p)
    BY <2>1, QuietSteps, ReadSteps
  <2>2. CASE \E p \in Project : \E b \in Chain[p] : Refuse(t, p, b)
    BY <2>2, ReadSteps
  <2>3. CASE \E p \in Project : \E b \in Chain[p] : Acquire(t, p, b)
    BY <2>3, AcquireStep
  <2>4. CASE Submit(t) \/ End(t)
    BY <2>4, QuietSteps
  <2>5. CASE LoadForRelease(t)
    BY <1>1, <2>5, ReadSteps
  <2>6. CASE \E p \in Project : Release(t, p)
    BY <2>6, ReleaseStep
  <2> QED
    BY <2>1, <2>2, <2>3, <2>4, <2>5, <2>6 DEF Step
<1>4. CASE \E t \in Tick : Crash(t)
  BY <1>4, CrashStep
<1>5. CASE \E p \in Project : Expire(p)
  BY <1>5 DEF Expire, Timely
<1> QED
  BY <1>2, <1>3, <1>4, <1>5 DEF Next

THEOREM InvHolds == Timely /\ Spec => []IInv
<1>1. Init => IInv
  BY TypeInit, SlotInit DEF TypeInv, IInv
<1>2. Timely /\ IInv /\ [Next]_vars => IInv'
  BY TypeKept, SlotKept DEF TypeInv, IInv
<1>3. Timely => Timely'
  BY DEF Timely
<1> QED
  BY <1>1, <1>2, <1>3, PTL DEF Spec

-----------------------------------------------------------------------------
(***************************************************************************)
(* What runs is what the file says.                                        *)
(***************************************************************************)
\* No more runs of a set of backends than allocations there are of it.
LEMMA UsesWithin ==
    ASSUME IInv
    PROVE  /\ Cardinality(InUse) \in Nat /\ Cardinality(InUse) <= Cardinality(Holders(slots))
           /\ \A B : /\ Cardinality({e \in InUse : e[2] \in B}) \in Nat
                     /\ Cardinality({e \in InUse : e[2] \in B}) <= Cardinality(Users(slots, B))
<1> DEFINE H == Holders(slots)
           f == [e \in InUse |-> e[1]]
<1>1. \A e \in InUse : /\ e \in Entries
                       /\ \E t \in Tick : slots[e[1]] = [by |-> t, on |-> e[2], old |-> FALSE]
  BY DEF InUse, IInv, SlotInv, Held, Uses, TypeOK
<1>2. \A e \in Entries : e[1] \in Project /\ e = <<e[1], e[2]>>
  BY DEF Entries
<1>3. \A e \in InUse : e[1] \in H /\ slots[e[1]].on = e[2]
  <2> TAKE e \in InUse
  <2>1. PICK t \in Tick : slots[e[1]] = [by |-> t, on |-> e[2], old |-> FALSE]
    BY <1>1
  <2>2. slots[e[1]].by = t /\ slots[e[1]].on = e[2]
    BY <2>1
  <2>3. Free.by = Nobody /\ t # Nobody
    BY FleetAssumption DEF FleetAssumption, Free
  <2> QED
    BY <1>1, <1>2, <2>2, <2>3 DEF Holders
<1>4. \A e, d \in InUse : e[1] = d[1] => e = d
  BY <1>1, <1>2, <1>3
<1>5. H \in SUBSET Project /\ \A B : Users(slots, B) \in SUBSET Project
  BY DEF Holders, Users
<1>6. ASSUME NEW S \in SUBSET InUse, NEW T \in SUBSET Project, \A e \in S : e[1] \in T
      PROVE  Cardinality(S) \in Nat /\ Cardinality(S) <= Cardinality(T)
  <2> DEFINE g == [e \in S |-> e[1]]
  <2>1. g \in Injection(S, T)
    BY <1>4, <1>6 DEF Injection, IsInjective
  <2>2. IsFiniteSet(T)
    BY SomeProjects
  <2> HIDE DEF g
  <2>3. IsFiniteSet(S) /\ Cardinality(S) <= Cardinality(T)
    BY <2>1, <2>2, FS_Injection
  <2> QED
    BY <2>3, FS_CardinalityType
<1>7. Cardinality(InUse) \in Nat /\ Cardinality(InUse) <= Cardinality(H)
  BY <1>3, <1>5, <1>6
<1>8. ASSUME NEW B
      PROVE  /\ Cardinality({e \in InUse : e[2] \in B}) \in Nat
             /\ Cardinality({e \in InUse : e[2] \in B}) <= Cardinality(Users(slots, B))
  <2> DEFINE S == {e \in InUse : e[2] \in B}
  <2>1. S \in SUBSET InUse
    OBVIOUS
  <2>2. \A e \in S : e[1] \in Users(slots, B)
    BY <1>3 DEF Users
  <2> HIDE DEF S
  <2>3. Cardinality(S) \in Nat /\ Cardinality(S) <= Cardinality(Users(slots, B))
    BY <1>5, <1>6, <2>1, <2>2
  <2> QED
    BY <2>3 DEF S
<1> QED
  BY <1>7, <1>8

\* However many ticks overlap and die, what they run stays within every pool, provided
\* they do not write slots.json over one another and no cycle outlives its slot.
THEOREM PoolsAreRespected == Timely /\ Spec => []PoolsRespected
<1>1. IInv => PoolsRespected
  <2> SUFFICES ASSUME IInv PROVE PoolsRespected
    OBVIOUS
  <2>1. Active \in Nat /\ Models \in Nat /\ Heavy \in Nat
        /\ \A b \in DOMAIN PerBackend : PerBackend[b] \in Nat
    BY FleetAssumption DEF FleetAssumption
  <2>2. Within(slots)
    BY DEF IInv, SlotInv
  <2>3. Cardinality(Holders(slots)) \in Nat /\ \A B : Cardinality(Users(slots, B)) \in Nat
    <3>1. Holders(slots) \in SUBSET Project /\ \A B : Users(slots, B) \in SUBSET Project
      BY DEF Holders, Users
    <3> QED
      BY <3>1, SomeProjects
  <2>4. Cardinality(InUse) <= Active /\ Cardinality(InUse) <= Models
    BY <2>1, <2>2, <2>3, UsesWithin DEF Within
  <2>5. \A b \in DOMAIN PerBackend : Cardinality({e \in InUse : e[2] = b}) <= PerBackend[b]
    <3> TAKE b \in DOMAIN PerBackend
    <3>1. {e \in InUse : e[2] = b} = {e \in InUse : e[2] \in {b}}
      OBVIOUS
    <3>2. Cardinality(Users(slots, {b})) <= PerBackend[b]
      BY <2>2 DEF Within
    <3>3. /\ Cardinality({e \in InUse : e[2] \in {b}}) \in Nat
          /\ Cardinality({e \in InUse : e[2] \in {b}}) <= Cardinality(Users(slots, {b}))
      BY UsesWithin
    <3>4. Cardinality({e \in InUse : e[2] \in {b}}) <= PerBackend[b]
      BY <2>1, <2>3, <3>2, <3>3
    <3> QED
      BY <3>1, <3>4
  <2>6. Cardinality({e \in InUse : e[2] \in Local}) <= Heavy
    <3>1. Cardinality(Users(slots, Local)) <= Heavy
      BY <2>2 DEF Within
    <3>2. /\ Cardinality({e \in InUse : e[2] \in Local}) \in Nat
          /\ Cardinality({e \in InUse : e[2] \in Local}) <= Cardinality(Users(slots, Local))
      BY UsesWithin
    <3> QED
      BY <2>1, <2>3, <3>1, <3>2
  <2> QED
    BY <2>4, <2>5, <2>6 DEF PoolsRespected, IInv
<1> QED
  BY <1>1, InvHolds, PTL

\* Under the same conditions no project is in the hands of two ticks: the slot of one is in
\* what the other reads before it starts anything.
THEOREM NoProjectRunsTwice == Timely /\ Spec => []NothingRunsTwice
<1>1. IInv => NothingRunsTwice
  <2> SUFFICES ASSUME IInv, NEW t \in Tick, NEW u \in Tick, t # u
               PROVE  Projects(Uses(t)) \cap Projects(Uses(u)) = {}
    BY DEF NothingRunsTwice
  <2>1. \A v \in Tick : \A e \in Uses(v) : slots[e[1]].by = v
    <3> TAKE v \in Tick
    <3> TAKE e \in Uses(v)
    <3>1. slots[e[1]] = [by |-> v, on |-> e[2], old |-> FALSE]
      BY DEF IInv, SlotInv, Held
    <3> QED
      BY <3>1
  <2> QED
    BY <2>1 DEF Projects
<1> QED
  BY <1>1, InvHolds, PTL
=============================================================================
