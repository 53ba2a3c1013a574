------------------------------ MODULE SelfHeal ------------------------------
(***************************************************************************)
(* The state files of one project and what heals them: project_start       *)
(* writes them, a cycle works on a task and blocks it with a blocker, and  *)
(* before it, or on `project recover', the recovery stages reopen tasks    *)
(* that a since-repaired defect of the platform has blocked                *)
(* (bootstrap_gate.py, parallel_recovery.py, contract_recovery.py,         *)
(* recovery.py, decision_policy.py, projstate.py).                         *)
(*                                                                         *)
(* A reason is free text that the stages recognise by patterns; here it is *)
(* the set of causes it names and whether it is the wrapper that used to   *)
(* be written around the candidates of a parallel attempt.                 *)
(***************************************************************************)
EXTENDS Naturals, Sequences, FiniteSets, SequencesExt

CONSTANTS
    Task,        \* numbers, in the order of next_task
    Deps,        \* task -> the tasks it depends on
    Kind,        \* task -> its kind in the backlog, None in an old project
    Known,       \* tasks with a built-in migration of their contract
    Text,        \* reasons a task may be blocked for, [wrapped, causes]
    Decision,    \* human decisions the architect may list
    MaxCycles,
    None,
    Env          \* departures: "crash" between two writes, "race" (recover beside a cycle)

VARIABLES
    \* backlog.yaml
    status, reason, kind,
    \* blockers.yaml and decisions.yaml
    blockers, needed, decided,
    \* scheduler.json and decisions.jsonl
    streak, log,
    heal,        \* process -> [stage, todo, doc, done, task, end]
    listed,      \* the decisions of the plan; None before project_start
    cycles,
    torn,        \* history: a process died between a task and its blocker
    unlogged     \* history: a success ended the streak and died before its line

hvars == <<status, reason, kind, blockers, needed, decided, streak, log, heal, listed,
           cycles, torn, unlogged>>

Process    == {"cycle", "recover"}
Reversible == {"framework"}    \* decision_policy: the documented rules
NoText     == [wrapped |-> FALSE, causes |-> {}]
Idle       == [stage |-> "idle", todo |-> {}, doc |-> <<>>, done |-> {}, task |-> None,
               end |-> None]

(***************************************************************************)
(* The patterns.                                                           *)
(***************************************************************************)
ZeroChecks(text) == "zero_checks" \in text.causes
Scope(text)      == "scope" \in text.causes
Diverged(text)   == text.causes \cap {"gitignore", "contradicted"} # {}

\* legacy_platform_signature: what a candidate's failure or a logged cycle is known by.
Recognised == {"gitignore", "scope", "capability"}

\* classify_aggregate of the reconstructed candidates.
AllPlatform(text) == text.causes # {} /\ text.causes \subseteq Recognised

IsPlatformCycle(text) ==
    text.causes \cap (Recognised \cup {"zero_checks"}) # {}

\* test_framework_scheduled and bootstrap_eligible; only the first task may be tagged late.
Scheduled == "framework" \in needed \cup decided \/ \E t \in Task : kind[t] = "test_setup"
Eligible(t) == Scheduled /\ (kind[t] = "bootstrap" \/ (kind[t] = None /\ t = 1))

(***************************************************************************)
(* Blockers.                                                               *)
(***************************************************************************)
Blocker(t, text, code) == [task |-> t, text |-> text, code |-> code, open |-> TRUE]

\* add_blocker: one code is recorded once for a task.
Added(doc, b) ==
    IF /\ b.code # None
       /\ \E i \in DOMAIN doc : doc[i].open /\ doc[i].task = b.task /\ doc[i].code = b.code
    THEN doc ELSE Append(doc, b)

OpenBlockers == {blockers[i] : i \in {j \in DOMAIN blockers : blockers[j].open}}

\* resolve_blocker, for each of a set of entries.
Resolved(doc, entries) ==
    [i \in DOMAIN doc |-> IF doc[i].open /\ doc[i] \in entries THEN [doc[i] EXCEPT !.open = FALSE]
                          ELSE doc[i]]

(***************************************************************************)
(* project_start                                                           *)
(***************************************************************************)
Init ==
    /\ status = [t \in Task |-> "pending"] /\ reason = [t \in Task |-> NoText]
    /\ kind = Kind
    /\ blockers = <<>> /\ needed = {} /\ decided = {}
    /\ streak = 0 /\ log = <<>>
    /\ heal = [p \in Process |-> Idle]
    /\ listed = None
    /\ cycles = 0 /\ torn = FALSE /\ unlogged = FALSE

\* What is not auto-resolved becomes a blocker of the project, one decision at a time.
ProjectStart == listed = None /\ \E D \in SUBSET Decision :
    LET asked == SetToSeq(D \ Reversible)
        recorded[i \in 0..Len(asked)] ==
            IF i = 0 THEN <<>>
            ELSE Added(recorded[i - 1],
                       Blocker(None, [wrapped |-> FALSE, causes |-> {asked[i]}], "decision"))
    IN  /\ listed' = D
        /\ needed' = D \ Reversible /\ decided' = D \cap Reversible
        /\ blockers' = recorded[Len(asked)]
        /\ UNCHANGED <<status, reason, kind, streak, log, heal, cycles, torn, unlogged>>

\* An old project: a task was blocked, in one record or two, before the repair.
LegacyProject == listed = None /\
    \E t \in Task, text \in Text, twice \in BOOLEAN, D \in SUBSET Reversible :
    /\ listed' = D /\ needed' = D /\ decided' = {}
    /\ status' = [status EXCEPT ![t] = "blocked"]
    /\ reason' = [reason EXCEPT ![t] = text]
    /\ LET b == Blocker(t, text, None) IN blockers' = IF twice THEN <<b, b>> ELSE <<b>>
    /\ streak' = 1 /\ log' = <<[outcome |-> "failure", class |-> None, text |-> text]>>
    /\ UNCHANGED <<kind, heal, cycles, torn, unlogged>>

(***************************************************************************)
(* The recovery stages.                                                    *)
(***************************************************************************)
Stages(p) == <<"deadlock", "contract", "aggregate", "divergence">>
             \o IF p = "recover" THEN <<"tasks", "streak">> ELSE <<"decide", "pick">>

After(p, stage) == LET i == CHOOSE i \in 1..6 : Stages(p)[i] = stage IN
    IF i = 6 THEN "idle" ELSE Stages(p)[i + 1]

\* Mutant: an aggregate is known by its wrapper alone.
FixableByWrapper(stage, b) == /\ b.open /\ b.code = None
                              /\ CASE stage = "aggregate" -> b.text.wrapped
                                   [] stage = "divergence" -> Diverged(b.text) /\ b.task \in Known
                                   [] OTHER -> FALSE

\* A blocker that the stages working from blockers.yaml act upon.
Fixable(stage, b) == /\ b.open /\ b.code = None
                     /\ CASE stage = "aggregate" -> b.text.wrapped /\ AllPlatform(b.text)
                          [] stage = "divergence" -> Diverged(b.text) /\ b.task \in Known
                          [] OTHER -> FALSE

ByBlocker == {"aggregate", "divergence"}

\* A blocker that goes with its task in the stages that work from the backlog.
Matches(stage, b) == CASE stage = "deadlock" -> b.code = "no_checks" \/ ZeroChecks(b.text)
                       [] stage = "contract" -> b.code = "contract" \/ Scope(b.text)
                       [] OTHER -> FALSE

Todo(stage) ==
    CASE stage = "deadlock" ->
           {t \in Task : status[t] = "blocked" /\ ZeroChecks(reason[t]) /\ Eligible(t)}
      [] stage = "contract" -> {t \in Task : status[t] = "blocked" /\ Scope(reason[t])}
      [] stage \in ByBlocker ->
           {t \in Task : status[t] = "blocked"
                         /\ \E b \in OpenBlockers : b.task = t /\ Fixable(stage, b)}
      [] stage = "tasks" -> {t \in Task : status[t] = "in_progress"}
      [] OTHER -> {}

Quiet(p) == "race" \in Env \/ \A q \in Process \ {p} : heal[q].stage = "idle"

\* Every stage loads the files anew.
At(stage) == [stage |-> stage, todo |-> Todo(stage), done |-> {}, task |-> None, end |-> None,
              doc |-> IF stage \in ByBlocker THEN blockers ELSE <<>>]

Begin(p) ==
    /\ listed # None
    /\ heal[p].stage = "idle" /\ Quiet(p)
    /\ cycles < MaxCycles /\ cycles' = cycles + 1
    /\ heal' = [heal EXCEPT ![p] = At("deadlock")]
    /\ UNCHANGED <<status, reason, kind, blockers, needed, decided, streak, log, listed, torn,
                   unlogged>>

Healing == {"deadlock", "contract", "aggregate", "divergence", "tasks"}

\* update_task: back to pending; the kind is set on a task that is tagged late.
Reopen(p) == LET h == heal[p] IN
    /\ h.stage \in Healing /\ h.todo # {} /\ h.task = None
    /\ LET t == CHOOSE t \in h.todo : \A u \in h.todo : t <= u IN
       /\ status' = [status EXCEPT ![t] = "pending"]
       /\ reason' = IF h.stage = "tasks" THEN reason ELSE [reason EXCEPT ![t] = NoText]
       /\ kind' = IF h.stage = "deadlock" THEN [kind EXCEPT ![t] = "bootstrap"] ELSE kind
       /\ heal' = [heal EXCEPT ![p] =
             [h EXCEPT !.todo = @ \ {t}, !.done = @ \cup {t},
                       !.task = IF h.stage \in {"deadlock", "contract"} THEN t ELSE None]]
    /\ UNCHANGED <<blockers, needed, decided, streak, log, listed, cycles, torn, unlogged>>

\* Mutant: the first blocker of the task is resolved, not every one of them.
CloseFirst(p) == LET h == heal[p] IN
    /\ h.task # None /\ h.stage \in Healing
    /\ blockers' = LET mine == {i \in DOMAIN blockers : blockers[i].task = h.task /\ blockers[i].open}
                   IN  IF mine = {} THEN blockers
                       ELSE [blockers EXCEPT ![CHOOSE i \in mine : \A j \in mine : i <= j].open = FALSE]
    /\ heal' = [heal EXCEPT ![p].task = None]
    /\ UNCHANGED <<status, reason, kind, needed, decided, streak, log, listed, cycles, torn,
                   unlogged>>

\* The blockers of the task that carry the code or match the pattern are resolved.
Close(p) == LET h == heal[p] IN
    /\ h.task # None /\ h.stage \in Healing
    /\ blockers' = Resolved(blockers, {b \in OpenBlockers : b.task = h.task /\ Matches(h.stage, b)})
    /\ heal' = [heal EXCEPT ![p].task = None]
    /\ UNCHANGED <<status, reason, kind, needed, decided, streak, log, listed, cycles, torn,
                   unlogged>>

\* The stages that work from blockers.yaml write the document they loaded, in the end.
WriteDoc(p) == LET h == heal[p] IN
    /\ h.stage \in ByBlocker /\ h.todo = {} /\ h.done # {}
    /\ blockers' = Resolved(h.doc, {b \in Range(h.doc) : b.task \in h.done /\ Fixable(h.stage, b)})
    /\ heal' = [heal EXCEPT ![p].done = {}]
    /\ UNCHANGED <<status, reason, kind, needed, decided, streak, log, listed, cycles, torn,
                   unlogged>>

NextStage(p) == LET h == heal[p] IN
    /\ h.stage \in Healing /\ h.todo = {} /\ h.task = None
    /\ h.stage \in ByBlocker => h.done = {}
    /\ heal' = [heal EXCEPT ![p] = At(After(p, h.stage))]
    /\ UNCHANGED <<status, reason, kind, blockers, needed, decided, streak, log, listed,
                   cycles, torn, unlogged>>

\* reconstruct_failure_streak: back to the last success, without limits and the platform's
\* own failures.
Genuine(events) ==
    LET f[i \in 0..Len(events)] ==
            IF i = 0 THEN 0
            ELSE IF events[i].outcome = "success" THEN 0
            ELSE IF \/ events[i].outcome = "limit"
                    \/ IF events[i].class # None THEN events[i].class = "platform"
                       ELSE IsPlatformCycle(events[i].text) THEN f[i - 1]
            ELSE f[i - 1] + 1
    IN  f[Len(events)]

ReconstructStreak(p) ==
    /\ heal[p].stage = "streak"
    /\ streak' = Genuine(log)
    /\ heal' = [heal EXCEPT ![p] = Idle]
    /\ unlogged' = FALSE
    /\ UNCHANGED <<status, reason, kind, blockers, needed, decided, log, listed, cycles, torn>>

\* auto_resolve_reversible_decisions, and the blockers recorded for them.
AutoResolve(p) ==
    /\ heal[p].stage = "decide"
    /\ needed' = needed \ Reversible
    /\ decided' = decided \cup (needed \cap Reversible)
    /\ blockers' = Resolved(blockers, {b \in OpenBlockers :
           b.task = None /\ b.text.causes \subseteq needed \cap Reversible})
    /\ heal' = [heal EXCEPT ![p] = [Idle EXCEPT !.stage = "pick"]]
    /\ UNCHANGED <<status, reason, kind, streak, log, listed, cycles, torn, unlogged>>

(***************************************************************************)
(* The cycle.                                                              *)
(***************************************************************************)
Ready(t) == status[t] = "pending" /\ \A d \in Deps[t] : status[d] = "done"

NoTask(p) ==
    /\ heal[p].stage = "pick" /\ \A t \in Task : ~Ready(t)
    /\ heal' = [heal EXCEPT ![p] = Idle]
    /\ UNCHANGED <<status, reason, kind, blockers, needed, decided, streak, log, listed,
                   cycles, torn, unlogged>>

Pick(p) ==
    /\ heal[p].stage = "pick"
    /\ \E t \in Task :
         /\ Ready(t) /\ \A u \in Task : Ready(u) => t <= u
         /\ status' = [status EXCEPT ![t] = "in_progress"]
         /\ heal' = [heal EXCEPT ![p] = [Idle EXCEPT !.stage = "work", !.task = t]]
    /\ UNCHANGED <<reason, kind, blockers, needed, decided, streak, log, listed, cycles, torn,
                   unlogged>>

\* Mutant: a limit ends the streak.
CooledByLimit(outcome, class) == IF outcome \in {"success", "limit"} THEN 0
                                 ELSE IF class = "platform" THEN streak ELSE streak + 1

\* _finish_cycle: a platform failure and a limit leave the streak alone.
Cooled(outcome, class) == IF outcome = "success" THEN 0
                          ELSE IF outcome = "limit" \/ class = "platform" THEN streak
                          ELSE streak + 1

\* _finish_cycle comes last, with the outcome the cycle has.
Ends(p, outcome, class, text) ==
    heal' = [heal EXCEPT ![p] = [Idle EXCEPT !.stage = "cool",
                !.end = [outcome |-> outcome, class |-> class, text |-> text]]]

Succeed(p) == LET t == heal[p].task IN
    /\ heal[p].stage = "work"
    /\ status' = [status EXCEPT ![t] = "done"]
    /\ Ends(p, "success", None, NoText)
    /\ UNCHANGED <<reason, kind, blockers, needed, decided, streak, log, listed, cycles, torn,
                   unlogged>>

\* fail(block=False)
GiveBack(p) == LET t == heal[p].task IN
    /\ heal[p].stage = "work"
    /\ status' = [status EXCEPT ![t] = "pending"]
    /\ \E outcome \in {"failure", "limit"}, class \in {None, "platform"} :
           Ends(p, outcome, class, NoText)
    /\ UNCHANGED <<reason, kind, blockers, needed, decided, streak, log, listed, cycles, torn,
                   unlogged>>

\* fail(block=True): the task first, its blocker next.  The model's own words are recorded
\* without a code; the platform's reasons carry one.
Block(p) == LET t == heal[p].task IN
    /\ heal[p].stage = "work"
    /\ \E text \in Text :
         /\ status' = [status EXCEPT ![t] = "blocked"]
         /\ reason' = [reason EXCEPT ![t] = text]
    /\ heal' = [heal EXCEPT ![p].stage = "record"]
    /\ UNCHANGED <<kind, blockers, needed, decided, streak, log, listed, cycles, torn, unlogged>>

RecordBlocker(p) == LET t == heal[p].task IN
    /\ heal[p].stage = "record"
    /\ \E code \in IF reason[t].wrapped THEN {"exhausted"}
                   ELSE IF ZeroChecks(reason[t]) THEN {None, "no_checks"} ELSE {None, "decision"} :
         /\ blockers' = Added(blockers, Blocker(t, reason[t], code))
         /\ Ends(p, "failure",
                 IF code = "no_checks" \/ (code = "exhausted" /\ AllPlatform(reason[t]))
                 THEN "platform" ELSE None, reason[t])
    /\ UNCHANGED <<status, reason, kind, needed, decided, streak, log, listed, cycles, torn,
                   unlogged>>

\* start_cooling saves the streak, ...
CoolDown(p) ==
    /\ heal[p].stage = "cool"
    /\ streak' = Cooled(heal[p].end.outcome, heal[p].end.class)
    /\ heal' = [heal EXCEPT ![p].stage = "log"]
    /\ UNCHANGED <<status, reason, kind, blockers, needed, decided, log, listed, cycles, torn,
                   unlogged>>

\* ... and only then the cycle is logged as finished.
Log(p) ==
    /\ heal[p].stage = "log"
    /\ log' = Append(log, heal[p].end)
    /\ unlogged' = (unlogged /\ heal[p].end.outcome # "success")
    /\ heal' = [heal EXCEPT ![p] = Idle]
    /\ UNCHANGED <<status, reason, kind, blockers, needed, decided, streak, listed, cycles, torn>>

\* The process dies.  What it holds in memory is gone; a task stays as it was recorded.
Crash(p) ==
    /\ "crash" \in Env /\ heal[p].stage # "idle"
    /\ torn' = (torn \/ heal[p].stage = "record" \/ heal[p].done # {}
                     \/ (heal[p].stage \in Healing /\ heal[p].task # None))
    /\ unlogged' = (unlogged \/ (heal[p].stage = "log" /\ heal[p].end.outcome = "success"))
    /\ heal' = [heal EXCEPT ![p] = Idle]
    /\ UNCHANGED <<status, reason, kind, blockers, needed, decided, streak, log, listed, cycles>>

Next ==
    \/ ProjectStart \/ LegacyProject
    \/ \E p \in Process :
         \/ Begin(p) \/ Reopen(p) \/ Close(p) \/ WriteDoc(p) \/ NextStage(p)
         \/ ReconstructStreak(p) \/ AutoResolve(p) \/ NoTask(p) \/ Pick(p)
         \/ Succeed(p) \/ GiveBack(p) \/ Block(p) \/ RecordBlocker(p)
         \/ CoolDown(p) \/ Log(p) \/ Crash(p)

Spec == Init /\ [][Next]_hvars

-----------------------------------------------------------------------------
AllQuiet == \A p \in Process : heal[p].stage = "idle"

TypeOK ==
    /\ status \in [Task -> {"pending", "in_progress", "blocked", "done"}]
    /\ \A t \in Task : reason[t] \in Text \cup {NoText}
    /\ kind \in [Task -> {None, "bootstrap", "test_setup"}]
    /\ \A p \in Process : heal[p].todo \cup heal[p].done \subseteq Task
    /\ needed \cap decided = {}

\* A task is blocked exactly while an open blocker says why: recovery leaves no blocker
\* behind that would fail the final audit for ever, and no task blocked without a record
\* that status or recovery could find.  A death between the two files breaks it.
BlockersMatch == AllQuiet /\ ~torn =>
    \A t \in Task : status[t] = "blocked" <=> \E b \in OpenBlockers : b.task = t

\* recovery.py: "every genuine model/provider failure in the window is always retained".  A
\* success that is counted but not logged keeps the log above the streak, until `project
\* recover' or the next success.
StreakKept == AllQuiet /\ ~unlogged => streak >= Genuine(log)

\* What a stage may reopen a task for.  The first two read the reason of the task and know it by
\* one signature in it, whatever else it names; only the third looks at every candidate.
Signature(t) ==
    \/ ZeroChecks(reason[t]) /\ Eligible(t)
    \/ Scope(reason[t])
    \/ reason[t].wrapped /\ AllPlatform(reason[t])
    \/ Diverged(reason[t]) /\ t \in Known

\* Recovery reopens, and never completes, tasks: one without a signature stays blocked until a
\* human acts.  After a death between the two files a blocker left open speaks for a later
\* failure of the same task, and reopens that too.
ReopenedOnSignature == [][\A t \in Task :
    ~torn /\ status[t] = "blocked" /\ status'[t] # "blocked" =>
        status'[t] = "pending" /\ Signature(t)]_hvars

(***************************************************************************)
(* What the documentation says and the code does not do.                   *)
(***************************************************************************)
\* decision_policy.py 214-215: a blocker was "recorded verbatim for each" decision.
\* They share one code, under which only the first is recorded.
EveryDecisionAsked == AllQuiet /\ listed # None =>
    \A d \in needed : \E b \in OpenBlockers : b.task = None /\ b.text.causes = {d}

\* test_parallel_recovery.py 250-252: a mixed aggregate "stays blocked rather than being
\* silently unblocked on partial evidence".  The stage for aggregates leaves it alone, but an
\* earlier one knows the task by one cause in the text of the whole.
MixedStaysBlocked == [][\A t \in Task :
    /\ status[t] = "blocked" /\ status'[t] # "blocked"
    /\ reason[t].wrapped
    => AllPlatform(reason[t])]_hvars
=============================================================================
