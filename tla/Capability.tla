----------------------------- MODULE Capability -----------------------------
(***************************************************************************)
(* Capabilities of a project: the plan that the requirements engine draws  *)
(* from the specification and the taxonomy (capability/requirements.py,    *)
(* taxonomy.py), the graph built from it (graph.py), the resolver that     *)
(* finds a source for each capability (resolver.py), and the evidence that *)
(* cycles record (workorder.py) and the completion contract reads          *)
(* (core/completion.py).  capability-graph.json is read and written whole, *)
(* by commands and cycles that share no lock.                              *)
(*                                                                         *)
(* Capabilities are numbers, in the order of their ids.                    *)
(***************************************************************************)
EXTENDS Naturals, Sequences, FiniteSets, SequencesExt

CONSTANTS
    Cap,
    Dependencies,    \* cap -> the caps it depends on
    Conflicts,       \* cap -> the caps it names as conflicting
    Alternatives,    \* cap -> a sequence of caps
    Conditions,      \* cap -> the caps whose presence makes it mandatory
    Always,          \* caps that the project type makes mandatory
    Confidence,      \* cap -> the confidence of a match of its triggers, in percent
    Risk,            \* cap -> "low", "medium", "high"
    Checks,          \* caps with validation checks
    Candidates,      \* cap -> candidates [id, type, risk, reviewed]
    Process,         \* commands and cycles of the project
    MaxOps,
    None,
    Env              \* departures: "race" (operations at the same time)

VARIABLES
    plan,       \* capability-plan.yaml, or None
    graph,      \* capability-graph.json: cap -> its node, None outside the plan
    usable,     \* candidates that are enabled, verified and authenticated now
    view,       \* the graph a process has loaded, None when it is idle
    ops,
    proven      \* history: caps of which this graph was given verified evidence

cvars == <<plan, graph, usable, view, ops, proven>>

(***************************************************************************)
(* The plan.                                                               *)
(***************************************************************************)
\* Mutant: the dependencies of a dependency are left out.
ClosureOnce(seed) == seed \cup UNION {Dependencies[c] : c \in seed}

Closure(seed) ==
    LET f[n \in 0..Cardinality(Cap)] ==
            IF n = 0 THEN seed ELSE f[n - 1] \cup UNION {Dependencies[c] : c \in f[n - 1]}
    IN  f[Cardinality(Cap)]

MandatoryIn(selected) == {c \in Cap : c \in Always \/ Conditions[c] \cap selected # {}}

\* What is mandatory given what was selected is selected too, until nothing changes.
Selected(matched) ==
    LET f[n \in 0..Cardinality(Cap)] ==
            IF n = 0 THEN matched ELSE f[n - 1] \cup MandatoryIn(f[n - 1])
    IN  f[Cardinality(Cap)]

ConflictsOf(c) == Conflicts[c] \cup {d \in Cap : c \in Conflicts[d]}

Ordered(S) == SetToSortSeq(S, <)

\* Of two capabilities in conflict the mandatory one stays, then the more confident one,
\* then the first.  Once a capability has come to its turn it meets all of its rivals, even
\* when it loses to one of them.
PlanOf(matched) ==
    LET selected  == Selected(matched)
        mandatory == MandatoryIn(selected)
        all       == Closure(selected)
        required  == Closure(mandatory)
        base(c)   == IF c \in matched THEN Confidence[c] ELSE IF c \in mandatory THEN 70 ELSE 60
        beats(c, d) == IF (c \in required) = (d \in required) THEN base(c) >= base(d)
                       ELSE c \in required
        meet(c, out, d) ==
            IF <<c, d>> \in out \/ <<d, c>> \in out THEN out
            ELSE out \cup {IF beats(c, d) THEN <<c, d>> ELSE <<d, c>>}
        gone(pairs) == {r[2] : r \in pairs}
        turn(pairs, c) ==
            IF c \in gone(pairs) THEN pairs
            ELSE FoldLeft(LAMBDA acc, d : IF d \in gone(acc) THEN acc ELSE meet(c, acc, d),
                          pairs, Ordered(ConflictsOf(c) \cap all))
        rejected  == FoldLeft(turn, {}, Ordered(all))
    IN  [matched |-> matched, selected |-> all \ gone(rejected),
         mandatory |-> required \ gone(rejected), rejected |-> rejected]

(***************************************************************************)
(* The graph and the sources of a capability.                              *)
(***************************************************************************)
Node == [state : {"unresolved", "available", "satisfied", "blocked", "waived"},
         attempts : 0..3, by : {None} \cup UNION {{k.id : k \in Candidates[c]} : c \in Cap},
         evidence : SUBSET {"expected", "deterministic_check"}]
Graph == [Cap -> Node \cup {None}]

\* build_graph: whatever was resolved or proved before is gone.
Build(p) == [c \in Cap |-> IF c \notin p.selected THEN None ELSE
    [state |-> "unresolved", attempts |-> 0, by |-> None,
     evidence |-> IF c \in Checks THEN {"expected"} ELSE {}]]

Level(r) == CASE r = "low" -> 0 [] r = "medium" -> 1 [] OTHER -> 2

\* The score in ten-thousandths: trust, compatibility, quality, maintenance, risk.
Score(k) ==
    LET penalty == CASE k.risk = "low" -> 0 [] k.risk = "medium" -> 1500 [] OTHER -> 4000
        sum == CASE k.type = "deterministic_tool" -> 8500
                 [] k.type = "agent_competence" -> 8100
                 [] k.type = "skill" -> IF k.reviewed THEN 7300 ELSE 5500
                 [] OTHER -> IF k.reviewed THEN 7100 ELSE 5000
    IN  IF sum > penalty THEN sum - penalty ELSE 0

Safe(k, c) == k.id \in usable /\ Risk[c] # "high" /\ Level(k.risk) <= Level(Risk[c])

Chosen(c) == LET safe == {k \in Candidates[c] : Safe(k, c)} IN
    CHOOSE k \in safe : \A j \in safe :
        Score(j) < Score(k) \/ (Score(j) = Score(k) /\ j.id >= k.id)

\* resolve_capability: the best safe candidate, or an alternative that resolves, each
\* capability entered once on the way down and three times in the life of the graph.
Resolve(start, required) ==
    LET r[c \in Cap, visiting \in SUBSET Cap, g \in Graph] ==
        IF c \in visiting \/ g[c].attempts >= 3 THEN [ok |-> FALSE, graph |-> g]
        ELSE LET g1 == [g EXCEPT ![c].attempts = @ + 1, ![c].state = "unresolved"]
                 try(acc, a) ==
                     IF acc.ok \/ acc.graph[a] = None THEN acc
                     ELSE r[a, visiting \cup {c}, acc.graph]
                 other == FoldLeft(try, [ok |-> FALSE, graph |-> g1], Alternatives[c])
             IN  CASE \E k \in Candidates[c] : Safe(k, c) ->
                        [ok |-> TRUE, graph |-> [g1 EXCEPT ![c].state = "available",
                                                           ![c].by = Chosen(c).id]]
                   [] OTHER ->
                        [ok |-> other.ok,
                         graph |-> [other.graph EXCEPT ![c].state =
                                      IF other.ok THEN "waived"
                                      ELSE IF c \in required THEN "blocked" ELSE "unresolved"]]
    IN  r[start[1], {}, start[2]]

Open(g) == {c \in Cap : IF g[c] = None THEN FALSE ELSE g[c].state \in {"unresolved", "blocked"}}

ResolveAll(g) ==
    FoldLeft(LAMBDA acc, c : Resolve(<<c, acc>>, plan.mandatory).graph, g, Ordered(Open(g)))

\* record_capability_evidence: evidence hangs on the checks of a capability, and
\* mark_satisfied wants some of it that is verified.
Evidence(g, c) ==
    IF c \in Checks THEN g[c].evidence \cup {"deterministic_check"} ELSE g[c].evidence

Proves(evidence) == "deterministic_check" \in evidence

\* Mutant: the checks have passed, so every capability of the task is satisfied.
ProvedUnchecked(g, caps) == [c \in Cap |-> IF c \notin caps THEN g[c] ELSE
    [g[c] EXCEPT !.evidence = Evidence(g, c), !.state = "satisfied"]]

Proved(g, caps) == [c \in Cap |-> IF c \notin caps THEN g[c] ELSE
    [g[c] EXCEPT !.evidence = Evidence(g, c),
                 !.state = IF Proves(Evidence(g, c)) THEN "satisfied" ELSE @]]

(***************************************************************************)
(* Commands and cycles.                                                    *)
(***************************************************************************)
Init ==
    /\ plan = None
    /\ graph = [c \in Cap |-> None]
    /\ usable \in SUBSET {k.id : k \in UNION {Candidates[c] : c \in Cap}}
    /\ view = [p \in Process |-> None]
    /\ ops = 0
    /\ proven = {}

Quiet == "race" \in Env \/ \A p \in Process : view[p] = None

Refresh == \E matched \in SUBSET Cap :
    /\ Quiet
    /\ ops < MaxOps /\ ops' = ops + 1
    /\ plan' = PlanOf(matched)
    /\ graph' = Build(plan')
    /\ proven' = {}
    /\ UNCHANGED <<usable, view>>

Load(p) ==
    /\ plan # None
    /\ ops < MaxOps /\ ops' = ops + 1
    /\ view[p] = None
    /\ Quiet
    /\ view' = [view EXCEPT ![p] = graph]
    /\ UNCHANGED <<plan, graph, usable, proven>>

Save(p, g) ==
    /\ view[p] # None
    /\ graph' = g
    /\ view' = [view EXCEPT ![p] = None]
    /\ UNCHANGED <<plan, usable, ops>>

ResolveProject(p) == view[p] # None /\ Save(p, ResolveAll(view[p])) /\ UNCHANGED proven

RetryOne(p) == view[p] # None /\ \E c \in plan.selected :
    /\ view[p][c] # None
    /\ Save(p, Resolve(<<c, view[p]>>, plan.mandatory).graph)
    /\ UNCHANGED proven

\* A task that touches some capabilities has passed its checks; what it satisfies is saved.
RecordEvidence(p) == view[p] # None /\ \E caps \in SUBSET plan.selected :
    /\ \A c \in caps : view[p][c] # None
    /\ \E c \in caps : Proves(Evidence(view[p], c))
    /\ Save(p, Proved(view[p], caps))
    /\ proven' = proven \cup (caps \cap Checks)

\* A skill or a server is enabled, or disabled, or fails its verification.
Toggle(k) ==
    /\ ops < MaxOps /\ ops' = ops + 1
    /\ usable' = IF k \in usable THEN usable \ {k} ELSE usable \cup {k}
    /\ UNCHANGED <<plan, graph, view, proven>>

Next ==
    \/ Refresh
    \/ \E p \in Process : Load(p) \/ ResolveProject(p) \/ RetryOne(p) \/ RecordEvidence(p)
    \/ \E k \in {k.id : k \in UNION {Candidates[c] : c \in Cap}} : Toggle(k)

Spec == Init /\ [][Next]_cvars

-----------------------------------------------------------------------------
TypeOK ==
    /\ graph \in Graph
    /\ view \in [Process -> Graph \cup {None}]
    /\ plan # None => plan.mandatory \subseteq plan.selected /\ plan.selected \subseteq Cap

\* requirements.py: the plan holds no two capabilities in conflict, nothing that matched is
\* dropped without a rejection, no mandatory capability yields to an optional one, and a
\* dependency is missing only when it was rejected.
PlanIsSound == plan # None =>
    LET gone == {r[2] : r \in plan.rejected} IN
    /\ \A c \in plan.selected : ConflictsOf(c) \cap plan.selected = {}
    /\ plan.matched \cup Always \subseteq plan.selected \cup gone
    /\ \A c \in plan.selected : Dependencies[c] \subseteq plan.selected \cup gone
    /\ \A r \in plan.rejected :
           r[2] \in Closure(MandatoryIn(Selected(plan.matched))) =>
               r[1] \in Closure(MandatoryIn(Selected(plan.matched)))

\* graph.py: "a capability is satisfied" only on verified evidence, and what this graph was
\* proved it keeps.  Two processes at once lose evidence: each saves the graph it loaded.
SatisfiedIsProven == plan # None =>
    \A c \in plan.selected :
        /\ graph[c] # None
        /\ graph[c].state = "satisfied" \/ c \in proven => Proves(graph[c].evidence)

(***************************************************************************)
(* What the documentation says and the code does not do.                   *)
(***************************************************************************)
\* completion.py: a requirement that a single capability carries counts as verified.
Verified(c) == graph[c].state \in {"satisfied", "waived"}

\* completion.py 11-14: "satisfied/waived state, which itself can only be reached through
\* mark_satisfied()'s own verified-evidence requirement".
VerifiedIsProven == plan # None =>
    \A c \in plan.selected : Verified(c) => Proves(graph[c].evidence)

\* taxonomy.yaml 16-17: a capability is mandatory once one of its conditions has been
\* selected, "dependency-driven".
ConditionsHold == plan # None =>
    \A c \in Cap : Conditions[c] \cap plan.selected # {} =>
        c \in plan.mandatory \cup {r[2] : r \in plan.rejected}

\* requirements.py: what is rejected "conflicts with selected capability" it names.
RejectedForSelected == plan # None => \A r \in plan.rejected : r[1] \in plan.selected
=============================================================================
