------------------------------- MODULE Fleet -------------------------------
(***************************************************************************)
(* The fleet scheduler of core/fleet.py: `fleet tick` processes, started   *)
(* by a timer and by hand, plan which projects run, claim slots for them   *)
(* in slots.json, run one cycle of each and release the slots.  slots.json *)
(* is read and written whole, without a lock between processes             *)
(* (SlotManager._lock is a lock of threads); an allocation whose process   *)
(* is dead, or that has expired, is dropped by whoever reads it.           *)
(*                                                                         *)
(* A project is in "ready" when classify_project would call it queued and  *)
(* decide_start finds capacity on its backend; a project whose cycle runs  *)
(* is not, because the cycle holds the project's lease.  A timestamp of    *)
(* one second's resolution is a rank; a plan stamps later than the last    *)
(* one, its own stamps may be equal.                                       *)
(***************************************************************************)
EXTENDS Naturals, FiniteSets, Sequences

CONSTANTS
    N,              \* how many projects are registered, 1..N in the order of their ids
    Tick,           \* processes that run `fleet tick`
    Priority,       \* Priority[p]: the higher goes first
    Chain,          \* Chain[p]: the backends decide_start may select for p
    Local,          \* backends that run on this machine
    Active,         \* concurrency.maximum_active_projects
    Models,         \* concurrency.maximum_model_calls
    Heavy,          \* concurrency.maximum_heavy_local_models
    PerBackend,     \* concurrency.per_backend
    Env             \* what happens beyond normal operation, see below

Project == 1..N

Dead == "dead"      \* the pid of a process that is gone
Nobody == "none"

(***************************************************************************)
(* The members of Env:                                                     *)
(*   "crash"    a tick dies, with the cycles it runs                        *)
(*   "overrun"  a cycle takes longer than SLOT_TTL_SECONDS                 *)
(*   "race"     two processes are in SlotManager.acquire or release at once*)
(***************************************************************************)
ASSUME FleetAssumption ==
    /\ N \in Nat \ {0}
    /\ Priority \in [Project -> Nat]
    /\ Chain \in [Project -> SUBSET DOMAIN PerBackend]
    /\ \A p \in Project : Chain[p] # {}
    /\ PerBackend \in [DOMAIN PerBackend -> Nat]
    /\ Active \in Nat /\ Models \in Nat /\ Heavy \in Nat
    /\ {Dead, Nobody} \cap Tick = {}
    /\ Env \subseteq {"crash", "overrun", "race"}

VARIABLES
    slots,      \* slots.json: slots[p] is free or the allocation of p
    stamp,      \* last_scheduled_at of each project, as a rank
    paused,     \* global_pause in fleet.json
    ready,      \* projects that may run a cycle
    phase,      \* phase[t]: "off", "plan" or "run"
    todo,       \* todo[t]: candidates of the plan that are left, in order
    view,       \* view[t]: what t has read of slots.json, NotRead between accesses
    begun,      \* begun[t]: decisions["start"], pairs of a project and its backend
    running,    \* running[t]: those of them whose runner has not returned
    finished    \* finished[t]: projects whose slots t has to release

vars == <<slots, stamp, paused, ready, phase, todo, view, begun, running, finished>>

Projects(entries) == {e[1] : e \in entries}

NotRead == <<>>
Free == [by |-> Nobody, on |-> Nobody, old |-> FALSE]

Init ==
    /\ slots = [p \in Project |-> Free]
    /\ stamp = [p \in Project |-> 0]
    /\ paused = FALSE
    /\ ready \in SUBSET Project
    /\ phase = [t \in Tick |-> "off"]
    /\ todo = [t \in Tick |-> <<>>]
    /\ view = [t \in Tick |-> NotRead]
    /\ begun = [t \in Tick |-> {}]
    /\ running = [t \in Tick |-> {}]
    /\ finished = [t \in Tick |-> {}]

-----------------------------------------------------------------------------
(***************************************************************************)
(* SlotManager.                                                            *)
(***************************************************************************)
\* _reap
Reaped(s) == [p \in Project |-> IF s[p].by = Dead \/ s[p].old THEN Free ELSE s[p]]

Holders(s) == {p \in Project : s[p] # Free}

Users(s, B) == {p \in Holders(s) : s[p].on \in B}

\* Mutant: the limit of the backend is compared with what is in use before.
FitsLoosely(s, p, b) ==
    /\ s[p] = Free
    /\ Cardinality(Holders(s)) < Active
    /\ Cardinality(Holders(s)) < Models
    /\ Cardinality(Users(s, {b})) <= PerBackend[b]
    /\ b \in Local => Cardinality(Users(s, Local)) < Heavy
\* Mutant: the project's own allocation is not looked at.
FitsAgain(s, p, b) ==
    /\ Cardinality(Holders(s) \ {p}) < Active
    /\ Cardinality(Holders(s) \ {p}) < Models
    /\ Cardinality(Users(s, {b}) \ {p}) < PerBackend[b]
    /\ b \in Local => Cardinality(Users(s, Local) \ {p}) < Heavy
\* Every allocation takes a model slot and one of its backend, on a local backend
\* also one for a heavy local model.
Fits(s, p, b) ==
    /\ s[p] = Free
    /\ Cardinality(Holders(s)) < Active
    /\ Cardinality(Holders(s)) < Models
    /\ Cardinality(Users(s, {b})) < PerBackend[b]
    /\ b \in Local => Cardinality(Users(s, Local)) < Heavy

\* _load, at the beginning of acquire and release.
Load(t) == /\ view[t] = NotRead
           /\ "race" \in Env \/ \A u \in Tick : view[u] = NotRead
           /\ view' = [view EXCEPT ![t] = Reaped(slots)]

\* _save of what was read, with the entry of p changed.
Save(t, p, entry) == /\ slots' = [view[t] EXCEPT ![p] = entry]
                     /\ view' = [view EXCEPT ![t] = NotRead]

-----------------------------------------------------------------------------
(***************************************************************************)
(* plan                                                                    *)
(***************************************************************************)
\* fairness_key
Before(p, q) ==
    \/ Priority[p] > Priority[q]
    \/ Priority[p] = Priority[q] /\ stamp[p] < stamp[q]
    \/ Priority[p] = Priority[q] /\ stamp[p] = stamp[q] /\ p < q

\* Mutant: projects are taken in the order of priority and id.
ById == CHOOSE s \in [Project -> Project] :
            \A i, j \in Project : i < j =>
                \/ Priority[s[i]] > Priority[s[j]]
                \/ Priority[s[i]] = Priority[s[j]] /\ s[i] < s[j]
Sorted == CHOOSE s \in [Project -> Project] :
              \A i, j \in Project : i < j => Before(s[i], s[j])

\* The tick reads the registry and its order once.
Begin(t) ==
    /\ phase[t] = "off"
    /\ ~paused
    /\ phase' = [phase EXCEPT ![t] = "plan"]
    /\ todo' = [todo EXCEPT ![t] = Sorted]
    /\ begun' = [begun EXCEPT ![t] = {}]
    /\ UNCHANGED <<slots, stamp, paused, ready, view, running, finished>>

Considers(t, p) == /\ phase[t] = "plan"
                   /\ todo[t] # <<>>
                   /\ p = Head(todo[t])

Done(t) == todo' = [todo EXCEPT ![t] = Tail(@)]

\* Not queued, or this plan has started its share.
Skip(t, p) ==
    /\ Considers(t, p)
    /\ view[t] = NotRead
    /\ p \notin ready \/ Cardinality(begun[t]) >= Active
    /\ Done(t)
    /\ UNCHANGED <<slots, stamp, paused, ready, phase, view, begun, running, finished>>

LoadForAcquire(t, p) ==
    /\ Considers(t, p)
    /\ p \in ready
    /\ Cardinality(begun[t]) < Active
    /\ Load(t)
    /\ UNCHANGED <<slots, stamp, paused, ready, phase, todo, begun, running, finished>>

\* Waiting for a slot.
Refuse(t, p, b) ==
    /\ Considers(t, p)
    /\ view[t] # NotRead
    /\ ~Fits(view[t], p, b)
    /\ view' = [view EXCEPT ![t] = NotRead]
    /\ Done(t)
    /\ UNCHANGED <<slots, stamp, paused, ready, phase, begun, running, finished>>

\* Ranks without gaps, p's the last, alone or with those of the same second.
Restamped(p, new) ==
    LET others == {stamp[q] : q \in Project \ {p}}
        rank   == [q \in Project |-> Cardinality({n \in others : n < stamp[q]})]
    IN [rank EXCEPT ![p] = IF new \/ others = {} THEN Cardinality(others)
                                                ELSE Cardinality(others) - 1]

Acquire(t, p, b) ==
    /\ Considers(t, p)
    /\ view[t] # NotRead
    /\ Fits(view[t], p, b)
    /\ Save(t, p, [by |-> t, on |-> b, old |-> FALSE])
    /\ \E new \in IF begun[t] = {} THEN {TRUE} ELSE BOOLEAN : stamp' = Restamped(p, new)
    /\ begun' = [begun EXCEPT ![t] = @ \cup {<<p, b>>}]
    /\ Done(t)
    /\ UNCHANGED <<paused, ready, phase, running, finished>>

-----------------------------------------------------------------------------
(***************************************************************************)
(* run_tick                                                                *)
(***************************************************************************)
Submit(t) ==
    /\ phase[t] = "plan"
    /\ todo[t] = <<>>
    /\ phase' = [phase EXCEPT ![t] = IF begun[t] = {} THEN "off" ELSE "run"]
    /\ running' = [running EXCEPT ![t] = begun[t]]
    /\ begun' = [begun EXCEPT ![t] = {}]
    /\ ready' = ready \ Projects(begun[t])
    /\ UNCHANGED <<slots, stamp, paused, todo, view, finished>>

\* The runner returns or raises.
Finish(t, p) ==
    /\ p \in Projects(running[t])
    /\ running' = [running EXCEPT ![t] = {e \in @ : e[1] # p}]
    /\ finished' = [finished EXCEPT ![t] = @ \cup {p}]
    /\ UNCHANGED <<slots, stamp, paused, ready, phase, todo, view, begun>>

LoadForRelease(t) ==
    /\ phase[t] = "run"
    /\ finished[t] # {}
    /\ Load(t)
    /\ UNCHANGED <<slots, stamp, paused, ready, phase, todo, begun, running, finished>>

\* The slots of p are released, whoever holds them.
Release(t, p) ==
    /\ view[t] # NotRead
    /\ p \in finished[t]
    /\ Save(t, p, Free)
    /\ finished' = [finished EXCEPT ![t] = @ \ {p}]
    /\ UNCHANGED <<stamp, paused, ready, phase, todo, begun, running>>

\* The tick is over when every cycle is.
End(t) ==
    /\ phase[t] = "run"
    /\ running[t] = {} /\ finished[t] = {}
    /\ phase' = [phase EXCEPT ![t] = "off"]
    /\ UNCHANGED <<slots, stamp, paused, ready, todo, view, begun, running, finished>>

-----------------------------------------------------------------------------
(***************************************************************************)
(* What happens around the ticks.                                          *)
(***************************************************************************)
\* Some time after its cycle a project may run again.
Queue(p) ==
    /\ p \notin ready
    /\ \A t \in Tick : p \notin Projects(running[t])
    /\ ready' = ready \cup {p}
    /\ UNCHANGED <<slots, stamp, paused, phase, todo, view, begun, running, finished>>

\* The operator pauses it, a blocker needs a human, or its backend has no capacity.
Withdraw(p) ==
    /\ p \in ready
    /\ ready' = ready \ {p}
    /\ UNCHANGED <<slots, stamp, paused, phase, todo, view, begun, running, finished>>

\* `fleet pause` and `fleet resume`.
SetGlobalPause ==
    /\ paused' = ~paused
    /\ UNCHANGED <<slots, stamp, ready, phase, todo, view, begun, running, finished>>

\* A process that is gone, and an expired allocation, are so in what others have read, too.
Died(s, t) == [p \in Project |-> IF s[p].by = t THEN [s[p] EXCEPT !.by = Dead] ELSE s[p]]
Expired(s, p) == [s EXCEPT ![p].old = (s[p] # Free)]

\* The process dies, with its threads and their cycles.
Crash(t) ==
    /\ "crash" \in Env
    /\ phase[t] # "off"
    /\ phase' = [phase EXCEPT ![t] = "off"]
    /\ todo' = [todo EXCEPT ![t] = <<>>]
    /\ begun' = [begun EXCEPT ![t] = {}]
    /\ running' = [running EXCEPT ![t] = {}]
    /\ finished' = [finished EXCEPT ![t] = {}]
    /\ slots' = Died(slots, t)
    /\ view' = [u \in Tick |-> IF u = t \/ view[u] = NotRead THEN NotRead ELSE Died(view[u], t)]
    /\ UNCHANGED <<stamp, paused, ready>>

\* expires_at passes while the cycle runs.
Expire(p) ==
    /\ "overrun" \in Env
    /\ \E t \in Tick : slots[p].by = t /\ p \in Projects(running[t])
    /\ ~slots[p].old
    /\ slots' = Expired(slots, p)
    /\ view' = [u \in Tick |-> IF view[u] = NotRead THEN NotRead ELSE Expired(view[u], p)]
    /\ UNCHANGED <<stamp, paused, ready, phase, todo, begun, running, finished>>

-----------------------------------------------------------------------------
Step(t) == \/ \E p \in Project : \/ Skip(t, p) \/ LoadForAcquire(t, p)
                                \/ \E b \in Chain[p] : Refuse(t, p, b) \/ Acquire(t, p, b)
           \/ Submit(t)
           \/ LoadForRelease(t) \/ (\E p \in Project : Release(t, p)) \/ End(t)

Next == \/ \E t \in Tick : \/ Begin(t) \/ Step(t) \/ Crash(t)
                           \/ \E p \in Project : Finish(t, p)
        \/ \E p \in Project : Queue(p) \/ Withdraw(p) \/ Expire(p)
        \/ SetGlobalPause

Spec == Init /\ [][Next]_vars

\* A tick that runs goes on (no process can keep another one from a file: only the
\* absence of races makes Load wait), a cycle ends by its timeouts, and the timer starts a
\* tick again and again.
FairSpec == /\ Spec
            /\ \A t \in Tick : SF_vars(Step(t)) /\ WF_vars(Begin(t))
            /\ \A t \in Tick, p \in Project : WF_vars(Finish(t, p))

-----------------------------------------------------------------------------
Allocations == [Project -> [by : Tick \cup {Nobody, Dead}, on : DOMAIN PerBackend \cup {Nobody}, old : BOOLEAN]]

Entries == UNION {{p} \X Chain[p] : p \in Project}

TypeOK ==
    /\ slots \in Allocations
    /\ stamp \in [Project -> 0..N]
    /\ paused \in BOOLEAN
    /\ ready \subseteq Project
    /\ phase \in [Tick -> {"off", "plan", "run"}]
    /\ todo \in [Tick -> Seq(Project)]
    /\ view \in [Tick -> Allocations \cup {NotRead}]
    /\ \A t \in Tick : /\ view[t] # NotRead => phase[t] # "off"
                       /\ finished[t] \cap Projects(running[t]) = {}
    /\ begun \in [Tick -> SUBSET Entries]
    /\ running \in [Tick -> SUBSET Entries]
    /\ finished \in [Tick -> SUBSET Project]

\* What ticks that are alive run, or are about to run.
Uses(t) == begun[t] \cup running[t]
InUse == UNION {Uses(t) : t \in Tick}

\* However ticks overlap and die, what they run stays within every pool: "without ever
\* exceeding the configured resource pools" (core/fleet.py:4).  With the types.
PoolsRespected ==
    /\ TypeOK
    /\ Cardinality(InUse) <= Active
    /\ Cardinality(InUse) <= Models
    /\ \A b \in DOMAIN PerBackend : Cardinality({e \in InUse : e[2] = b}) <= PerBackend[b]
    /\ Cardinality({e \in InUse : e[2] \in Local}) <= Heavy

\* Two ticks never start the same project: "Nothing runs twice" (docs/fleet.md:36).
NothingRunsTwice ==
    \A t, u \in Tick : t # u => Projects(Uses(t)) \cap Projects(Uses(u)) = {}

DiesPlanning == \E t \in Tick :
    phase[t] = "plan" /\ phase'[t] = "off" /\ (todo[t] # <<>> \/ begun[t] # {})

\* Cycles may outlive their slots and ticks die with what they run: unless they go on dying
\* while they plan, a project of the highest priority that stays eligible is started:
\* "least-recently-scheduled rotation so nothing starves" (docs/fleet.md:28-29).
NothingStarves ==
    <>[][~DiesPlanning]_vars =>
        \A p \in Project :
            (\A q \in Project : Priority[q] <= Priority[p]) =>
                (p \in ready /\ ~paused ~> p \in Projects(InUse) \/ p \notin ready \/ paused)
=============================================================================
