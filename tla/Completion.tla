---------------------------- MODULE Completion ----------------------------
(***************************************************************************)
(* How a project begins and ends (core/project.py project_start and        *)
(* final_audit, core/projstate.py, core/completion.py): the plan's files   *)
(* are written one after the other, cycles settle the tasks, and the final *)
(* audit asks for evidence.  An audit runs inside a cycle, or by hand from *)
(* the dashboard, then without the cycle's lock.  Every process saves the  *)
(* whole scheduler state it loaded.  What a cycle does to a task is in     *)
(* ProjectCycle and TaskBuild, how blockers are lifted in SelfHeal.        *)
(***************************************************************************)
EXTENDS Naturals, Sequences, FiniteSets, Functions

CONSTANTS
    Task,
    Order,        \* the tasks in the order of milestones and names
    Milestones,   \* milestone -> its tasks
    Depends,      \* task -> tasks
    Covers,       \* requirement -> names of tasks
    Resolves,     \* requirement -> the capabilities it resolves to
    Decision,     \* sequence of the decisions the architect leaves to a human
    Reversible,   \* those that the platform may take
    Env,          \* subset of {"early_death", "late_death", "start_overlaps", "by_hand",
                  \* "contract_error"}
    None

VARIABLES
    written,      \* how many steps of project_start are done
    starter,      \* the process of project_start: "none", "alive", "gone"
    startCopy,    \* its scheduler state
    status,       \* task -> status in the backlog
    blockers,     \* the open ones: [about, human, reason]
    proven,       \* capabilities satisfied or waived
    sched,        \* scheduler.json: [state, project]
    cycle,        \* [task, step, copy], or None
    audits,       \* auditor -> [step, copy, facts, contract], or None
    report        \* final-audit.yaml: whether complete, or None

cvars == <<written, starter, startCopy, status, blockers, proven, sched, cycle, audits, report>>

Requirements == DOMAIN Covers
Capability == UNION Range(Resolves)
Auditor == {"cycle", "hand"}

-----------------------------------------------------------------------------
(***************************************************************************)
(* projstate.py and completion.py, over the files as they are.             *)
(***************************************************************************)
Files == <<"PROJECT.md", "architecture.md", "milestones.yaml", "backlog.yaml",
           "acceptance-criteria.yaml", "decisions.yaml", "blockers.yaml", "progress.yaml">>
Written(f) == \E i \in DOMAIN Files : Files[i] = f /\ i <= written
Exists     == Written("backlog.yaml")

\* next_task.
Ready(t) == status[t] = "pending" /\ \A d \in Depends[t] : status[d] = "done"
NextTask == IF \E t \in Task : Ready(t)
            THEN Order[CHOOSE i \in DOMAIN Order :
                           Ready(Order[i]) /\ \A j \in 1..(i - 1) : ~Ready(Order[j])]
            ELSE None

\* refresh_progress.
BacklogComplete  == Task # {} /\ \A t \in Task : status[t] \in {"done", "abandoned"}
MilestoneDone(m) == Milestones[m] # {} /\ \A t \in Milestones[m] : status[t] = "done"

HumanBlockers == {b \in blockers : b.human}

\* add_blocker: one open blocker for a task and a code.
Blocked(about, human, reason) ==
    IF \E b \in blockers : b.about = about /\ b.human = human THEN blockers
    ELSE blockers \cup {[about |-> about, human |-> human, reason |-> reason]}

\* Mutant: names that are not in the backlog are passed over.
KnownTasksDone(r) == \A t \in Covers[r] \cap Task : status[t] = "done"

\* A requirement of tasks is verified by all of them, each of which must be in the backlog.
TasksDone(r) == Covers[r] # {} /\ \A t \in Covers[r] : t \in Task /\ status[t] = "done"
Verified(r)  == TasksDone(r) \/ (Resolves[r] # {} /\ Resolves[r] \subseteq proven)

\* build_completion_contract; without the criteria there is nothing to verify.
ContractComplete == Written("acceptance-criteria.yaml") => \A r \in Requirements : Verified(r)

-----------------------------------------------------------------------------
(***************************************************************************)
(* project_start, after the architect has answered.                        *)
(***************************************************************************)
Started == Len(Files) + 2

ProjectStart ==
    /\ ~Exists /\ starter = "none"
    /\ starter' = "alive" /\ startCopy' = sched /\ written' = 0
    /\ UNCHANGED <<status, blockers, proven, sched, cycle, audits, report>>

WriteFile ==
    /\ starter = "alive" /\ written < Len(Files)
    /\ written' = written + 1
    /\ blockers' = IF Files[written'] = "blockers.yaml" THEN {} ELSE blockers
    /\ UNCHANGED <<starter, startCopy, status, proven, sched, cycle, audits, report>>

InProgress ==
    /\ starter = "alive" /\ written = Len(Files)
    /\ written' = written + 1
    /\ sched' = [startCopy EXCEPT !.project = "in_progress"]
    /\ UNCHANGED <<starter, startCopy, status, blockers, proven, cycle, audits, report>>

\* The platform takes the reversible decisions; the first of the others blocks the project,
\* and the next ones have its task and its code.
AskHuman ==
    /\ starter = "alive" /\ written = Len(Files) + 1
    /\ written' = written + 1 /\ starter' = "gone"
    /\ LET left == SelectSeq(Decision, LAMBDA d : d \notin Reversible) IN
       blockers' = IF left = <<>> THEN blockers ELSE Blocked(None, TRUE, left[1])
    /\ UNCHANGED <<startCopy, status, proven, sched, cycle, audits, report>>

\* The process ends in between; the next project_start says "already_started" if there is a
\* backlog, and begins anew if there is none.
StartDies ==
    /\ starter = "alive" /\ (IF Exists THEN "late_death" ELSE "early_death") \in Env
    /\ starter' = IF Exists THEN "gone" ELSE "none"
    /\ UNCHANGED <<written, startCopy, status, blockers, proven, sched, cycle, audits, report>>

-----------------------------------------------------------------------------
(***************************************************************************)
(* Cycles, one at a time under the lock.                                   *)
(***************************************************************************)
Idle == /\ cycle = None /\ audits["cycle"] = None /\ Exists
        /\ sched.state \notin {"paused", "complete"}
        /\ "start_overlaps" \in Env \/ starter # "alive"

BeginCycle ==
    /\ Idle /\ NextTask # None
    /\ sched' = [sched EXCEPT !.state = "running"]
    /\ cycle' = [task |-> NextTask, step |-> "working", copy |-> sched']
    /\ status' = [status EXCEPT ![NextTask] = "in_progress"]
    /\ UNCHANGED <<written, starter, startCopy, blockers, proven, audits, report>>

\* The task is done, or goes back, or is blocked with a blocker.
Settle ==
    /\ cycle # None /\ cycle.step = "working"
    /\ cycle' = [cycle EXCEPT !.step = "settled"]
    /\ \/ \E s \in {"done", "pending"} :
             status' = [status EXCEPT ![cycle.task] = s] /\ UNCHANGED blockers
       \/ \E human \in BOOLEAN :
             /\ status' = [status EXCEPT ![cycle.task] = "blocked"]
             /\ blockers' = Blocked(cycle.task, human, "failed")
    /\ UNCHANGED <<written, starter, startCopy, proven, sched, audits, report>>

EndCycle ==
    /\ cycle # None /\ cycle.step = "settled"
    /\ sched' = [cycle.copy EXCEPT !.state = "cooling"]
    /\ cycle' = None
    /\ UNCHANGED <<written, starter, startCopy, status, blockers, proven, audits, report>>

\* No task is left to do: an audit, or the project waits for a human.
NoTask ==
    /\ Idle /\ NextTask = None
    /\ IF BacklogComplete
       THEN /\ audits' = [audits EXCEPT !["cycle"] =
                   [step |-> "loaded", copy |-> sched, facts |-> FALSE, contract |-> FALSE]]
            /\ UNCHANGED sched
       ELSE /\ HumanBlockers # {}
            /\ sched' = [sched EXCEPT !.project = "blocked_on_human"]
            /\ UNCHANGED audits
    /\ UNCHANGED <<written, starter, startCopy, status, blockers, proven, cycle, report>>

\* Recovery before a cycle, or a human in the files: a blocker goes, its task is tried again.
Lift(b) ==
    /\ Idle /\ blockers' = blockers \ {b}
    /\ status' = [t \in Task |-> IF t = b.about /\ status[t] = "blocked" THEN "pending"
                                 ELSE status[t]]
    /\ UNCHANGED <<written, starter, startCopy, proven, sched, cycle, audits, report>>

\* A human gives a task up in backlog.yaml.
Abandon(t) ==
    /\ Idle /\ status[t] = "blocked"
    /\ status' = [status EXCEPT ![t] = "abandoned"]
    /\ UNCHANGED <<written, starter, startCopy, blockers, proven, sched, cycle, audits, report>>

Prove(c) ==
    /\ cycle # None /\ proven' = proven \cup {c}
    /\ UNCHANGED <<written, starter, startCopy, status, blockers, sched, cycle, audits, report>>

-----------------------------------------------------------------------------
(***************************************************************************)
(* final_audit.                                                            *)
(***************************************************************************)
Audit(who, step) == audits[who] # None /\ audits[who].step = step

ReviewByHand ==
    /\ "by_hand" \in Env /\ audits["hand"] = None /\ Exists
    /\ audits' = [audits EXCEPT !["hand"] =
           [step |-> "loaded", copy |-> sched, facts |-> FALSE, contract |-> FALSE]]
    /\ UNCHANGED <<written, starter, startCopy, status, blockers, proven, sched, cycle, report>>

\* Mutant: an audit is content with the backlog.
BacklogOnly == BacklogComplete /\ blockers = {}

\* backlog_complete, all_milestones_done, no_open_blockers.
FactsHold == /\ BacklogComplete /\ blockers = {}
             /\ DOMAIN Milestones # {} /\ \A m \in DOMAIN Milestones : MilestoneDone(m)

LookAtFacts(who) ==
    /\ Audit(who, "loaded")
    /\ audits' = [audits EXCEPT ![who].step = "looked", ![who].facts = FactsHold]
    /\ UNCHANGED <<written, starter, startCopy, status, blockers, proven, sched, cycle, report>>

\* The deterministic checks have run in between.  A contract that cannot be built, as from a
\* damaged capability graph, is an empty one, which is complete.
LookAtContract(who) ==
    /\ Audit(who, "looked")
    /\ \E green, raised \in BOOLEAN :
       /\ raised => "contract_error" \in Env
       /\ audits' = [audits EXCEPT ![who].step = "traced",
                                   ![who].contract = green /\ (raised \/ ContractComplete)]
    /\ UNCHANGED <<written, starter, startCopy, status, blockers, proven, sched, cycle, report>>

\* The reviewer is asked only if everything holds.
Reviewed(who) ==
    /\ Audit(who, "traced")
    /\ \E verdict \in BOOLEAN :
       LET complete == verdict /\ audits[who].facts /\ audits[who].contract IN
       /\ verdict => audits[who].facts /\ audits[who].contract
       /\ report' = complete
       /\ audits' = [audits EXCEPT ![who].step = IF complete THEN "passed" ELSE "failed"]
    /\ UNCHANGED <<written, starter, startCopy, status, blockers, proven, sched, cycle>>

\* mark_complete or set_project_status.
SaveVerdict(who) ==
    /\ Audit(who, "passed") \/ Audit(who, "failed")
    /\ sched' = IF Audit(who, "passed") THEN [state |-> "complete", project |-> "complete"]
                ELSE [audits[who].copy EXCEPT !.project = "audit_failed"]
    /\ audits' = [audits EXCEPT ![who] = None]
    /\ UNCHANGED <<written, starter, startCopy, status, blockers, proven, cycle, report>>

Init ==
    /\ written = 0 /\ starter = "none"
    /\ sched = [state |-> "idle", project |-> "none"] /\ startCopy = sched
    /\ status = [t \in Task |-> "pending"] /\ blockers = {} /\ proven = {}
    /\ cycle = None /\ audits = [who \in Auditor |-> None] /\ report = None

Next ==
    \/ ProjectStart \/ WriteFile \/ InProgress \/ AskHuman \/ StartDies
    \/ BeginCycle \/ Settle \/ EndCycle \/ NoTask
    \/ \E b \in blockers : Lift(b)
    \/ \E t \in Task : Abandon(t)
    \/ \E c \in Capability : Prove(c)
    \/ ReviewByHand
    \/ \E who \in Auditor : \/ LookAtFacts(who) \/ LookAtContract(who)
                           \/ Reviewed(who) \/ SaveVerdict(who)

Spec == Init /\ [][Next]_cvars

-----------------------------------------------------------------------------
TypeOK ==
    /\ written \in 0..Started /\ starter \in {"none", "alive", "gone"}
    /\ status \in [Task -> {"pending", "in_progress", "done", "blocked", "abandoned"}]
    /\ sched.state \in {"idle", "running", "cooling", "complete"}

\* project.py 1527: "Completion requires evidence, not an empty backlog".  A complete project
\* has every requirement of its plan verified, every milestone done and nobody waiting.
CompletionEarned ==
    sched.state = "complete" =>
        /\ \A r \in Requirements :
               \/ Covers[r] # {} /\ Covers[r] \subseteq {t \in Task : status[t] = "done"}
               \/ Resolves[r] # {} /\ Resolves[r] \subseteq proven
        /\ \A m \in DOMAIN Milestones : MilestoneDone(m)
        /\ blockers = {}

(***************************************************************************)
(* What does not hold.  CompletionEarned itself fails with "late_death",   *)
(* between the backlog and the criteria, and with "contract_error".        *)
(***************************************************************************)
\* A project with nothing left to wait for is worked on again: fleet.py 280 has it "failed"
\* for good after an audit with a decision open.
AuditIsRepeated ==
    ~(/\ sched.project = "audit_failed" /\ blockers = {} /\ audits["cycle"] = None
      /\ FactsHold /\ ContractComplete)

\* Nothing but a cycle holds the project in "running".
RunningIsRun == sched.state = "running" => cycle # None

\* A completed project stays complete.
CompleteStays == [][sched.state = "complete" => sched'.state = "complete"]_cvars

\* A blocker goes only when it is lifted.
BlockersStay == [][\A b \in blockers \ blockers' : Lift(b)]_cvars
=============================================================================
