---------------------------- MODULE Maintenance ----------------------------
(***************************************************************************)
(* The maintenance tick (core/orchestrator.py): triage, conductor, policy  *)
(* gate, worktree, baseline, worker, deterministic gate, verifier, trust   *)
(* ledger, and at the end a draft in the queue or an autonomous            *)
(* completion.  Ticks are processes of their own and nothing keeps two of  *)
(* them apart; they share trust.tsv, baseline.json, disagreements.json and *)
(* the queue directory, each read and written whole.                       *)
(*                                                                         *)
(* A run is one call of run_tick; run[t] is the one process t executes.    *)
(***************************************************************************)
EXTENDS Naturals, Sequences, FiniteSets, Functions

CONSTANTS
    Tick,        \* processes that run ticks
    Skill,
    Sensitive,   \* trust.sensitive_skills, none of them in sensitive_auto_allowed
    Checks,      \* verification.commands, in order
    Mandatory,   \* those with mandatory: true
    Heads,       \* sets of checks that fail on a HEAD of the repository
    InitRow,     \* ledger rows earlier runs may have left
    MaxRuns,     \* runs of run_tick in a behaviour
    MaxClock,    \* seconds that pass
    None,
    Env          \* departures: "race"

VARIABLES
    pc, run, skill,     \* where t is, its run, the skill of its work order
    rows,               \* the ledger t loaded when it started
    base, fails,        \* checks that fail on the HEAD of t's worktree (history), and on
                        \* its content
    verdict,            \* the gate's vote, and what the verifier said: "pass", "hollow",
                        \* "fail", "uncertain"
    item,               \* the queue item t is about to write, with its file name
    ledger, baseline, disagree, queue, worktrees,   \* files
    clock, failFast,                                \* time, configuration
    started, outcome,   \* runs begun, and how each one ended
    hist, overlapped,   \* history: what really was recorded; two ticks at once
    excused             \* history: what failed where a baseline was recorded

mvars == <<pc, run, skill, rows, base, fails, verdict, item, ledger, baseline, disagree,
           queue, worktrees, clock, failFast, started, outcome, hist, overlapped, excused>>
local == <<skill, rows, base, fails, verdict>>
files == <<ledger, baseline, disagree, queue, worktrees>>
world == <<clock, failFast, started>>
past == <<hist, overlapped, excused>>

Run == 1..MaxRuns

(***************************************************************************)
(* The trust ledger.                                                       *)
(***************************************************************************)
\* The pass rate as the file keeps it: four decimals, rounded.
Rate(row) == (20000 * row.passes + row.runs) \div (2 * row.runs)

Tier(row, s) ==
    IF row.streak >= 2 THEN "watch"
    ELSE IF row.runs < 10 \/ Rate(row) < 9000 THEN "watch"
    ELSE IF row.runs >= 20 /\ Rate(row) >= 9500 /\ s \notin Sensitive THEN "auto" ELSE "queue"

Recorded(row, passed) ==
    [runs |-> row.runs + 1,
     passes |-> row.passes + (IF passed THEN 1 ELSE 0),
     streak |-> IF passed THEN 0 ELSE row.streak + 1]

\* record: the row in memory changes, and all rows in memory become the file.
Record(t, passed) ==
    /\ rows' = [rows EXCEPT ![t][skill[t]] = Recorded(@, passed)]
    /\ ledger' = rows'[t]
    /\ hist' = [hist EXCEPT ![skill[t]] = Recorded(@, passed)]

(***************************************************************************)
(* The deterministic gate.                                                 *)
(***************************************************************************)
\* run_checks: with fail_fast nothing runs after a mandatory check that failed.
Ran(f) == {Checks[i] : i \in {i \in DOMAIN Checks :
              ~failFast \/ \A j \in 1..(i - 1) : Checks[j] \notin f \cap Mandatory}}

BaselineOf(f) == [c \in Ran(f) |-> c \notin f]

Tolerated(c) == baseline # None /\ c \in DOMAIN baseline /\ ~baseline[c]

\* Mutant: failures are counted, not compared.
RegressionsByCount(f) ==
    IF Cardinality(Ran(f) \cap f) <= Cardinality({c \in Range(Checks) : Tolerated(c)})
    THEN {} ELSE {c \in Ran(f) \cap f \cap Mandatory : ~Tolerated(c)}
Regressions(f) == {c \in Ran(f) \cap f \cap Mandatory : ~Tolerated(c)}

GateOk(f) == Checks # <<>> /\ Regressions(f) = {}

(***************************************************************************)
(* apply_policy: a work order is flawed when its risk is high, nothing     *)
(* verifiable is to be done, no path or a protected path or a dependency   *)
(* manifest is allowed, it may change too much, or it holds a secret.      *)
(***************************************************************************)
WorkOrder == [action : {"execute", "queue", "stop"}, skill : Skill, flawed : BOOLEAN]

Policy(o) == IF o.action = "execute" /\ (o.flawed \/ o.skill \in Sensitive)
             THEN "queue" ELSE o.action

-----------------------------------------------------------------------------
Init ==
    /\ pc = [t \in Tick |-> "idle"]
    /\ run = [t \in Tick |-> None]
    /\ skill = [t \in Tick |-> None]
    /\ rows = [t \in Tick |-> None]
    /\ base = [t \in Tick |-> {}]
    /\ fails = [t \in Tick |-> {}]
    /\ verdict = [t \in Tick |-> None]
    /\ item = [t \in Tick |-> None]
    /\ ledger \in [Skill -> InitRow]
    /\ hist = ledger
    /\ baseline = None
    /\ disagree = [s \in Skill |-> 0]
    /\ queue = <<>>
    /\ worktrees = {}
    /\ clock = 0
    /\ failFast \in BOOLEAN
    /\ started = 0
    /\ outcome = [r \in Run |-> None]
    /\ overlapped = FALSE
    /\ excused = {}

Step(t, from, to) == pc[t] = from /\ pc' = [pc EXCEPT ![t] = to] /\ UNCHANGED <<run, outcome>>

\* finish: the result is written and the process, with all it knows, ends.
Finish(t, from, status) ==
    /\ pc[t] = from
    /\ pc' = [pc EXCEPT ![t] = "idle"]
    /\ outcome' = [outcome EXCEPT ![run[t]] = status]
    /\ run' = [run EXCEPT ![t] = None]
    /\ skill' = [skill EXCEPT ![t] = None]
    /\ rows' = [rows EXCEPT ![t] = None]
    /\ base' = [base EXCEPT ![t] = {}]
    /\ fails' = [fails EXCEPT ![t] = {}]
    /\ verdict' = [verdict EXCEPT ![t] = None]
    /\ item' = [item EXCEPT ![t] = None]

\* A step after which an item is to be written to the queue.
StepToQueue(t, from, type) == Step(t, from, "name") /\ item' = [item EXCEPT ![t] = type]

Discard(t) == worktrees' = worktrees \ {run[t]}

\* The run begins: its budget and the trust ledger are loaded.
Start(t) ==
    /\ pc[t] = "idle"
    /\ pc' = [pc EXCEPT ![t] = "triage"]
    /\ started < MaxRuns
    /\ started' = started + 1
    /\ run' = [run EXCEPT ![t] = started']
    /\ rows' = [rows EXCEPT ![t] = ledger]
    /\ overlapped' = (overlapped \/ \E u \in Tick : pc[u] # "idle")
    /\ UNCHANGED <<skill, base, fails, verdict, item, files, clock, failFast, outcome, hist,
                   excused>>

\* The daily budget is spent, triage fails, finds nothing to do, or finds work.
Triage(t) ==
    /\ \/ Finish(t, "triage", "nothing")
       \/ Step(t, "triage", "conduct") /\ UNCHANGED <<local, item>>
    /\ UNCHANGED <<files, world, past>>

\* The conductor's work order, and what apply_policy lets it do.
Conduct(t) == \E o \in WorkOrder :
    /\ \/ Policy(o) = "stop" /\ Finish(t, "conduct", "nothing")
       \/ /\ Policy(o) = "queue"
          /\ StepToQueue(t, "conduct", "queued")
          /\ skill' = [skill EXCEPT ![t] = o.skill]
          /\ UNCHANGED <<rows, base, fails, verdict>>
       \/ /\ Policy(o) = "execute"
          /\ Step(t, "conduct", "worktree")
          /\ skill' = [skill EXCEPT ![t] = o.skill]
          /\ UNCHANGED <<rows, base, fails, verdict, item>>
    /\ UNCHANGED <<files, world, past>>

\* A dry run and a failed conductor end here too, and so does a worktree that git refuses.
NoWorktree(t) == Finish(t, "worktree", "nothing") /\ UNCHANGED <<files, world, past>>

\* The worktree of a branch of HEAD, on which the checks of f fail.  People commit while
\* ticks run: no two worktrees need have the same HEAD.
BranchOf(t, f) == /\ base' = [base EXCEPT ![t] = f]
                  /\ fails' = [fails EXCEPT ![t] = f]

\* Mutant: the branch is made and the worktree is not.
CreateBranchOnly(t) == \E f \in Heads :
    /\ Step(t, "worktree", "baseline")
    /\ BranchOf(t, f)
    /\ UNCHANGED <<skill, rows, verdict, item, files, world, past>>
CreateWorktree(t) == \E f \in Heads :
    /\ Step(t, "worktree", "baseline")
    /\ worktrees' = worktrees \cup {run[t]}
    /\ BranchOf(t, f)
    /\ UNCHANGED <<skill, rows, verdict, item, ledger, baseline, disagree, queue, world, past>>

\* A baseline is there, or the checks run on the unedited worktree.
FindBaseline(t) ==
    /\ Step(t, "baseline", IF baseline = None THEN "record" ELSE "work")
    /\ UNCHANGED <<local, item, files, world, past>>

\* The result is written, over that of a tick that found no baseline either.
RecordBaseline(t) ==
    /\ Step(t, "record", "work")
    /\ baseline' = BaselineOf(fails[t])
    /\ excused' = excused \cup (Ran(fails[t]) \cap fails[t])
    /\ UNCHANGED <<local, item, ledger, disagree, queue, worktrees, world, hist, overlapped>>

WorkerFails(t) ==
    /\ Discard(t)
    /\ Finish(t, "work", "nothing")
    /\ UNCHANGED <<ledger, baseline, disagree, queue, world, past>>

\* A worker that reports a blocker: its worktree goes after the item is written.
Blocked(t) ==
    /\ StepToQueue(t, "work", "blocked")
    /\ UNCHANGED <<local, files, world, past>>

\* Edits within the policy, or none, are applied and staged.
Work(t) == \E f \in SUBSET Range(Checks) :
    /\ Step(t, "work", "gate")
    /\ fails' = [fails EXCEPT ![t] = f]
    /\ UNCHANGED <<skill, rows, base, verdict, item, files, world, past>>

\* An edit that is outside the allowed paths, forbidden, protected, escapes the worktree
\* or embeds a secret, or a diff above the limits: nothing of it is kept.
Violate(t) ==
    /\ StepToQueue(t, "work", "policy_violation")
    /\ Record(t, FALSE)
    /\ Discard(t)
    /\ UNCHANGED <<skill, base, fails, verdict, baseline, disagree, queue, world, overlapped,
                   excused>>

\* The gate votes, with the baseline of that moment; the verifier sees its result and
\* answers, which nobody else notices before trust is recorded.  A failed call is
\* "uncertain", verdict pass without test_integrity_preserved is "hollow".
Verify(t) == \E v \in {"pass", "hollow", "fail", "uncertain"} :
    /\ Step(t, "gate", "trust")
    /\ verdict' = [verdict EXCEPT ![t] = [gate |-> GateOk(fails[t]), says |-> v]]
    /\ UNCHANGED <<skill, rows, base, fails, item, files, world, past>>

\* Mutant: test_integrity_preserved is not looked at.
PassedHollow(t) == verdict[t].gate /\ verdict[t].says \in {"pass", "hollow"}

Passed(t) == verdict[t].gate /\ verdict[t].says = "pass"

\* Trust is recorded, and a disagreement of gate and verifier is counted (up to two, where
\* it is reported).
RecordTrust(t) ==
    LET s == skill[t]
        disputed == verdict[t].gate /\ verdict[t].says \in {"fail", "uncertain"} IN
    /\ Step(t, "trust", "decide")
    /\ Record(t, Passed(t))
    /\ disagree' = [disagree EXCEPT ![s] = IF disputed THEN (IF @ = 2 THEN 2 ELSE @ + 1)
                                           ELSE IF Passed(t) THEN 0 ELSE @]
    /\ UNCHANGED <<skill, base, fails, verdict, item, baseline, queue, worktrees, world,
                   overlapped, excused>>

\* The draft is committed.  What failed or is disputed waits for a human, and so does what
\* passed, unless the mode and the skill's tier are auto.
Complete(t) ==
    /\ Finish(t, "decide", "autonomous_complete")
    /\ Passed(t)
    /\ Tier(rows[t][skill[t]], skill[t]) = "auto"
    /\ UNCHANGED <<files, world, past>>

Draft(t) ==
    /\ pc[t] = "decide"
    /\ ~(Passed(t) /\ Tier(rows[t][skill[t]], skill[t]) = "auto")
    /\ StepToQueue(t, "decide", IF Passed(t) THEN "draft_ready"
                                ELSE IF verdict[t].gate THEN "needs_human" ELSE "failed")
    /\ UNCHANGED <<local, files, world, past>>

(***************************************************************************)
(* enqueue: the first free name of this second and skill, then the write.  *)
(***************************************************************************)
\* Mutant: the name is not checked against the directory.
FreeAlways(s) == <<clock, s, 1>>
Free(s) ==
    LET taken == {f[3] : f \in {f \in DOMAIN queue : f[1] = clock /\ f[2] = s}}
    IN  <<clock, s, CHOOSE n \in Run : n \notin taken /\ \A m \in Run \ taken : n <= m>>

PickName(t) ==
    /\ "race" \in Env \/ \A u \in Tick : pc[u] # "enqueue"
    /\ Step(t, "name", "enqueue")
    /\ item' = [item EXCEPT ![t] = [file |-> Free(skill[t]), type |-> @]]
    /\ UNCHANGED <<local, files, world, past>>

Enqueue(t) ==
    /\ pc[t] = "enqueue"
    /\ queue' = [f \in DOMAIN queue \cup {item[t].file} |->
                    IF f = item[t].file THEN [type |-> item[t].type, run |-> run[t]]
                    ELSE queue[f]]
    /\ IF item[t].type = "blocked" THEN Discard(t) ELSE UNCHANGED worktrees
    /\ Finish(t, "enqueue", item[t].type)
    /\ UNCHANGED <<ledger, baseline, disagree, world, past>>

TimePasses ==
    /\ clock < MaxClock
    /\ clock' = clock + 1
    /\ UNCHANGED <<pc, run, local, item, files, failFast, started, outcome, past>>

Next ==
    \/ \E t \in Tick :
        \/ Start(t) \/ Triage(t) \/ Conduct(t) \/ NoWorktree(t) \/ CreateWorktree(t)
        \/ FindBaseline(t) \/ RecordBaseline(t) \/ WorkerFails(t) \/ Blocked(t) \/ Work(t)
        \/ Violate(t) \/ Verify(t) \/ RecordTrust(t) \/ Complete(t) \/ Draft(t)
        \/ PickName(t) \/ Enqueue(t)
    \/ TimePasses

Spec == Init /\ [][Next]_mvars

-----------------------------------------------------------------------------
(***************************************************************************)
(* Properties.                                                             *)
(***************************************************************************)
\* Each variable has its type; a tick past the conductor has a skill.
TypeOK ==
    /\ pc \in [Tick -> {"idle", "triage", "conduct", "worktree", "baseline", "record", "work",
                        "gate", "trust", "decide", "name", "enqueue"}]
    /\ run \in [Tick -> Run \cup {None}]
    /\ \A t \in Tick : pc[t] \in {"work", "gate", "trust", "decide"} =>
                           skill[t] \in Skill /\ run[t] \in worktrees
    /\ worktrees \subseteq Run
    /\ \A f \in DOMAIN queue : queue[f].run \in Run

\* "trust.py": no run completes on its own unless the skill, counting every attempt that
\* was recorded and this one, has run 20 times with 95 percent passed, is not sensitive,
\* and gate and verifier passed this very content.  Holds for ticks one after the other: two
\* at once each save the ledger they loaded (trust.py:47), so a failure can be lost.
AutoIsEarned ==
    [][\A t \in Tick : pc[t] = "decide" /\ pc'[t] = "idle" /\ ~overlapped =>
            /\ skill[t] \notin Sensitive
            /\ hist[skill[t]].runs >= 20
            /\ 100 * hist[skill[t]].passes >= 95 * hist[skill[t]].runs
            /\ verdict[t].gate /\ verdict[t].says = "pass"]_mvars

\* What a run leaves behind: those that need a human have their item in the queue, with the
\* worktree it points to exactly when there is a draft to look at, and no other run leaves
\* a worktree, however ticks overlap (queueing.enqueue, gitops.remove_worktree).
HandedOver ==
    \A r \in Run : outcome[r] # None =>
        /\ outcome[r] \in {"queued", "blocked", "policy_violation", "failed", "needs_human",
                           "draft_ready"} =>
               \E f \in DOMAIN queue : queue[f] = [type |-> outcome[r], run |-> r]
        /\ r \in worktrees <=>
               outcome[r] \in {"failed", "needs_human", "draft_ready", "autonomous_complete"}

Voted(t) == pc[t] \in {"trust", "decide"} /\ verdict[t].gate

\* However ticks record their baselines, a mandatory check fails on what the gate lets
\* pass only if it failed where a baseline was recorded; fail_fast lets a failure after
\* such a one pass unseen (gate.py:185-188 and 221-225).
NewFailureFails ==
    \A t \in Tick : Voted(t) =>
        \A i \in DOMAIN Checks : Checks[i] \in fails[t] \cap Mandatory =>
            \/ Checks[i] \in excused
            \/ /\ failFast
               /\ \E j \in 1..(i - 1) : Checks[j] \in fails[t] \cap Mandatory \cap excused

\* gate.py:3-4, "A pre-existing baseline failure is not a regression, but it is reported
\* honestly; a NEW failure always fails the gate": what passes adds no failing mandatory
\* check to those of the HEAD it was branched from.
AddedFailureFails ==
    \A t \in Tick : Voted(t) => fails[t] \cap Mandatory \subseteq base[t]
=============================================================================
