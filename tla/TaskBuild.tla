----------------------------- MODULE TaskBuild -----------------------------
(***************************************************************************)
(* The part of a cycle between the preflight and the merge: the coder loop *)
(* of _run_cycle_locked (core/project.py) with its deterministic repairs,  *)
(* review rounds and handoffs, or the parallel candidates of               *)
(* core/parallel.py, and then the security review, the secret scan and the *)
(* integration that both share.                                            *)
(*                                                                         *)
(* A worktree's content is a member of Tree; the sets of constants below   *)
(* say what the deterministic tests make of it.  What models and checks    *)
(* answer is nondeterministic.  A coder call walks its chain as            *)
(* CallChain.tla describes: of the breaker only the backends it keeps shut *)
(* for a limit remain (limited), and error kinds are "limit", "denied"     *)
(* (authentication, policy, refusal) and "outage" (all the others).        *)
(***************************************************************************)
EXTENDS Integers, Sequences, FiniteSets

CONSTANTS
    Chain,          \* the coder's chain of backends
    Candidates,     \* how many parallel candidates a risky task gets
    MaxDet,         \* repair.maximum_attempts_per_task
    MaxRounds,      \* cycle.maximum_review_rounds
    Tree,           \* contents of a worktree, relative to its branch
    Clean,          \* no change at all
    AllowedPaths,   \* contents that change allowed paths only
    WithinLimit,    \* contents within the limit of changed lines
    Sensitive,      \* contents the security reviewer must see
    Secret,         \* contents that look like they hold a secret
    Litter,         \* Litter[t]: contents the checks, run on t, may leave behind
    Errors,         \* what failing checks report
    Ranks           \* acceptance coverage and size of a diff, as one number

ASSUME BuildAssumption ==
    /\ Chain \in Seq(STRING) /\ Len(Chain) > 0
    /\ Candidates \in Nat \ {0, 1}
    /\ MaxDet \in Nat /\ MaxRounds \in Nat
    /\ Clean \in AllowedPaths \cap WithinLimit
    /\ AllowedPaths \subseteq Tree /\ WithinLimit \subseteq Tree
    /\ Sensitive \subseteq Tree /\ Secret \subseteq Tree
    /\ Litter \in [Tree -> SUBSET Tree] /\ \A t \in Tree : t \in Litter[t]
    /\ Ranks \subseteq Nat

VARIABLES
    mode,       \* "single" or "parallel"
    trees,      \* trees[w]: content of worktree w; 1 is the task's own
    staged,     \* staged[w]: content of its index, which every diff is taken of
    at,         \* the worktree being built, later the winner's
    phase,      \* what the cycle does next
    left,       \* backends of the current call not tried yet
    lastErr,    \* last_err of the current call
    handoff,    \* handoff_chain, {} when the feedback holds none
    failedBackends,
    limited,    \* backends the breaker keeps shut
    det, rounds, calls,     \* det_attempts, review_rounds, coder_calls
    seen,       \* seen_fingerprints
    cands,      \* results of the candidates so far
    tied,       \* integration_requires_human
    outcome,
    checked,    \* content of each worktree when its checks passed (history)
    reviewed,   \* content QA approved, or security passed (history)
    claims      \* contradicted capability claims answered by a retry (history)

callVars  == <<left, lastErr, limited>>
routeVars == <<handoff, failedBackends>>
loopVars  == <<det, rounds, seen, claims>>
candVars  == <<cands, tied>>
seenVars  == <<checked, reviewed>>
treeVars  == <<trees, staged>>
vars == <<mode, treeVars, at, phase, callVars, routeVars, calls, loopVars,
          candVars, outcome, seenVars>>

Backends == {Chain[i] : i \in 1..Len(Chain)}
Worktree == 1..Candidates

\* Candidate k starts its walk at the k-th backend.
Nth(i) == Chain[((i + at - 2) % Len(Chain)) + 1]

\* The preserved changes of an earlier attempt stay when their paths still fit;
\* the worktrees of other candidates are taken as they are.
Init ==
    /\ mode \in {"single", "parallel"}
    /\ trees \in [Worktree -> Tree]
    /\ trees[1] \in AllowedPaths
    /\ mode = "single" => \A w \in Worktree \ {1} : trees[w] = Clean
    /\ staged = trees
    /\ at = 1
    /\ phase = "launch"
    /\ left = {} /\ lastErr = "outage"
    /\ handoff = {} /\ failedBackends = {}
    /\ limited \in SUBSET Backends
    /\ det = 0 /\ rounds = 0 /\ calls = 0 /\ claims = 0
    /\ seen = {}
    /\ cands = [w \in Worktree |-> [state |-> "out", qa |-> 0, rank |-> 0]]
    /\ tied = FALSE
    /\ outcome = "none"
    /\ checked = [w \in Worktree |-> {}]
    /\ reviewed = [qa |-> {}, security |-> {}]

-----------------------------------------------------------------------------
(***************************************************************************)
(* How an attempt ends.                                                    *)
(***************************************************************************)
\* fail(): the task is blocked, or goes back to pending ("limit", "failure").
End(how) == /\ phase' = "done"
            /\ outcome' = how

\* The worktree and its index hold t.
Stage(t) == /\ trees' = [trees EXCEPT ![at] = t]
            /\ staged' = [staged EXCEPT ![at] = t]

\* _revert_worktree.
Revert == Stage(Clean)

\* Feedback for the coder; it replaces that of an earlier handoff.
Repair == /\ phase' = "launch"
          /\ handoff' = {}
          /\ UNCHANGED outcome

\* Mutant: one candidate too many.
RecordPastEnd(result) ==
    /\ cands' = [cands EXCEPT ![at] = result]
    /\ at' = at + 1
    /\ phase' = IF at < Candidates THEN "launch" ELSE "select"
    /\ UNCHANGED outcome
\* A candidate's result; the next one starts, or the winner is chosen.
Record(result) ==
    /\ cands' = [cands EXCEPT ![at] = result]
    /\ at' = IF at < Candidates THEN at + 1 ELSE at
    /\ phase' = IF at < Candidates THEN "launch" ELSE "select"
    /\ UNCHANGED outcome

Disqualify(capacity) ==
    Record([state |-> IF capacity THEN "capacity" ELSE "out", qa |-> 0, rank |-> 0])

-----------------------------------------------------------------------------
(***************************************************************************)
(* The coder's call.                                                       *)
(***************************************************************************)
Revalidates == mode = "single" /\ calls = 0 /\ trees[1] # Clean

Launch ==
    /\ phase = "launch"
    /\ ~Revalidates
    /\ calls' = calls + 1
    /\ left' = IF handoff # {} THEN handoff ELSE Backends
    /\ lastErr' = "outage"
    /\ phase' = "ask"
    /\ UNCHANGED <<mode, treeVars, at, limited, routeVars, loopVars, candVars, outcome, seenVars>>

\* It is the turn of backend b in the walk of the chain.
Turn(b) ==
    /\ phase = "ask"
    /\ b \in left
    /\ \E i \in 1..Len(Chain) : /\ Nth(i) = b
                                /\ \A j \in 1..(i - 1) : Nth(j) \notin left

\* Mutant: the handoff starts the chain again.
HandsToAll(b) == Backends
\* The chain that remains when b reported the limit.
Remaining(b) == Backends \ (failedBackends \cup {b})

\* The result names backend b, the last one of the chain.
CallFails(b, kind) ==
    IF mode = "parallel"
    THEN /\ Disqualify(kind = "limit")
         /\ UNCHANGED routeVars
    ELSE IF kind # "limit"
    THEN /\ End("failure")
         /\ UNCHANGED <<routeVars, at, cands>>
    ELSE /\ failedBackends' = failedBackends \cup {b}
         /\ handoff' = Remaining(b)
         /\ IF Remaining(b) # {} THEN phase' = "launch" /\ UNCHANGED outcome
                                 ELSE End("limit")
         /\ UNCHANGED <<at, cands>>

\* Mutant: the walk stays at the backend that failed.
StaysAt(b, kind) ==
    /\ left' = left
    /\ lastErr' = kind
    /\ UNCHANGED <<phase, outcome, routeVars, at, cands>>
\* The walk goes on, or the call fails with the last error.
GoesOn(b, kind) ==
    /\ left' = left \ {b}
    /\ lastErr' = kind
    /\ IF left' # {}
       THEN UNCHANGED <<phase, outcome, routeVars, at, cands>>
       ELSE CallFails(b, kind)

Skipped(b) ==
    /\ Turn(b)
    /\ b \in limited
    /\ GoesOn(b, lastErr)
    /\ UNCHANGED <<mode, treeVars, limited, calls, loopVars, tied, seenVars>>

Limit(b) ==
    /\ Turn(b)
    /\ b \notin limited
    /\ limited' = limited \cup {b}
    /\ GoesOn(b, "limit")
    /\ UNCHANGED <<mode, treeVars, calls, loopVars, tied, seenVars>>

Outage(b) ==
    /\ Turn(b)
    /\ b \notin limited
    /\ GoesOn(b, "outage")
    /\ UNCHANGED <<mode, treeVars, limited, calls, loopVars, tied, seenVars>>

Denies(b) ==
    /\ Turn(b)
    /\ b \notin limited
    /\ CallFails(b, "denied")
    /\ UNCHANGED <<mode, treeVars, callVars, calls, loopVars, tied, seenVars>>

Answers(b) ==
    /\ Turn(b)
    /\ b \notin limited
    /\ phase' = "answer"
    /\ UNCHANGED <<mode, treeVars, at, callVars, routeVars, calls, loopVars, candVars,
                   outcome, seenVars>>

\* A CLI coder edits the worktree itself, also in a call that fails in the end.
Writes(t) ==
    /\ phase = "ask"
    /\ t # trees[at]
    /\ trees' = [trees EXCEPT ![at] = t]
    /\ UNCHANGED <<mode, staged, at, phase, callVars, routeVars, calls, loopVars, candVars,
                   outcome, seenVars>>

\* The wait of a limited backend is over.
WaitOver(b) ==
    /\ phase # "done"
    /\ b \in limited
    /\ limited' = limited \ {b}
    /\ UNCHANGED <<mode, treeVars, at, phase, left, lastErr, routeVars, calls, loopVars,
                   candVars, outcome, seenVars>>

-----------------------------------------------------------------------------
(***************************************************************************)
(* What the coder answers, and the checks of it.                           *)
(***************************************************************************)
\* The coder says it is blocked, for a reason the platform can contradict.
ClaimsBlocked(contradicted) ==
    /\ phase = "answer"
    /\ IF mode = "parallel"
       THEN Disqualify(FALSE) /\ UNCHANGED <<treeVars, handoff, det, claims>>
       ELSE IF contradicted /\ det < MaxDet
       THEN /\ Repair
            /\ det' = det + 1
            /\ claims' = claims + 1
            /\ UNCHANGED <<treeVars, at, cands>>
       ELSE /\ End("blocked")
            /\ IF contradicted THEN Revert ELSE UNCHANGED treeVars
            /\ UNCHANGED <<handoff, at, cands, det, claims>>
    /\ UNCHANGED <<mode, callVars, failedBackends, calls, rounds, seen, tied, seenVars>>

\* Mutant: only the edits are looked at, not the diff of the worktree.
EditsOnly(t, refused) == refused
\* apply_edits refuses an edit, or the worktree's diff is out of scope.
Violates(t, refused) == refused \/ t \notin AllowedPaths \/ t \notin WithinLimit

\* _apply_and_check_paths, and what follows a violation.
Apply(t, refused) ==
    LET last == det + 1 >= MaxDet IN
    IF ~Violates(t, refused)
    THEN /\ Stage(t)
         /\ phase' = "gate"
         /\ UNCHANGED <<outcome, handoff, at, cands, det>>
    ELSE IF mode = "parallel"
    THEN /\ Stage(t)
         /\ Disqualify(FALSE)
         /\ UNCHANGED <<handoff, det>>
    ELSE /\ det' = det + 1
         /\ Stage(IF last THEN Clean ELSE t)
         /\ IF last THEN End("blocked") /\ UNCHANGED handoff ELSE Repair
         /\ UNCHANGED <<at, cands>>

\* No execution engine is there, and falling back to the native one is disabled.
NoEngine ==
    /\ phase = "launch"
    /\ calls = 0
    /\ End("blocked")
    /\ UNCHANGED <<mode, treeVars, at, callVars, routeVars, calls, loopVars, candVars, seenVars>>

\* The first pass over preserved work has no coder call and no edits.
Revalidate ==
    /\ phase = "launch"
    /\ Revalidates
    /\ calls' = 1
    /\ Apply(trees[1], FALSE)
    /\ UNCHANGED <<mode, callVars, failedBackends, rounds, seen, claims, tied, seenVars>>

Edits(t, refused) ==
    /\ phase = "answer"
    /\ Apply(t, refused)
    /\ UNCHANGED <<mode, callVars, failedBackends, calls, rounds, seen, claims, tied, seenVars>>

\* There are no commands to run, and the structural gate of bootstrap tasks does
\* not apply; a candidate never gets that one.
FindsNoChecks ==
    /\ phase = "gate"
    /\ IF mode = "parallel"
       THEN Disqualify(FALSE) /\ UNCHANGED treeVars
       ELSE End("blocked") /\ Revert /\ UNCHANGED <<at, cands>>
    /\ UNCHANGED <<mode, callVars, routeVars, calls, loopVars, tied, seenVars>>

\* The checks run in the worktree, after its content was staged.
ChecksRun == /\ \E t \in Litter[trees[at]] : trees' = [trees EXCEPT ![at] = t]
             /\ UNCHANGED staged

\* The mandatory checks, or those of the structural gate.
ChecksPass ==
    /\ phase = "gate"
    /\ phase' = "review"
    /\ ChecksRun
    /\ checked' = [checked EXCEPT ![at] = {trees[at]}]
    /\ UNCHANGED <<mode, at, callVars, routeVars, calls, loopVars, candVars,
                   outcome, reviewed>>

\* An identical failure of an identical diff ends the loop.
ChecksFail(e) ==
    LET again == <<e, staged[at]>> \in seen
        last  == again \/ det + 1 >= MaxDet
    IN
    /\ phase = "gate"
    /\ IF mode = "parallel"
       THEN Disqualify(FALSE) /\ ChecksRun /\ UNCHANGED <<handoff, det, seen>>
       ELSE /\ seen' = seen \cup {<<e, staged[at]>>}
            /\ det' = IF again THEN det ELSE det + 1
            /\ IF last THEN End("blocked") /\ Revert /\ UNCHANGED handoff
                       ELSE Repair /\ ChecksRun
            /\ UNCHANGED <<at, cands>>
    /\ UNCHANGED <<mode, callVars, failedBackends, calls, rounds, claims, tied, seenVars>>

\* QA passes the diff and finds test integrity preserved.
Approves ==
    /\ phase = "review"
    /\ mode = "single"
    /\ phase' = "security"
    /\ reviewed' = [reviewed EXCEPT !.qa = {staged[at]}]
    /\ UNCHANGED <<mode, treeVars, at, callVars, routeVars, calls, loopVars, candVars,
                   outcome, checked>>

\* Mutant: a failed or uncertain review counts as approval.
LetsPass ==
    /\ phase = "review"
    /\ mode = "single"
    /\ phase' = "security"
    /\ UNCHANGED <<mode, treeVars, at, callVars, routeVars, calls, loopVars, candVars,
                   outcome, seenVars>>
\* Any other verdict, and a review that fails.
Objects ==
    /\ phase = "review"
    /\ mode = "single"
    /\ rounds' = rounds + 1
    /\ IF rounds + 1 > MaxRounds THEN End("blocked") /\ Revert /\ UNCHANGED handoff
                                 ELSE Repair /\ UNCHANGED treeVars
    /\ UNCHANGED <<mode, at, callVars, failedBackends, calls, det, seen, claims,
                   candVars, seenVars>>

\* The verdict on a candidate is evidence for the selection.
Survives(qa, rank) ==
    /\ phase = "review"
    /\ mode = "parallel"
    /\ Record([state |-> "survived", qa |-> qa, rank |-> rank])
    /\ UNCHANGED <<mode, treeVars, callVars, routeVars, calls, loopVars, tied, seenVars>>

-----------------------------------------------------------------------------
(***************************************************************************)
(* The winner, the security review and the integration.                    *)
(***************************************************************************)
Survivors == {w \in Worktree : cands[w].state = "survived"}

Better(v, w) == \/ cands[v].qa > cands[w].qa
                \/ cands[v].qa = cands[w].qa /\ cands[v].rank > cands[w].rank

\* Mutant: size and coverage first.
RankFirst(v, w) == \/ cands[v].rank > cands[w].rank
                   \/ cands[v].rank = cands[w].rank /\ cands[v].qa > cands[w].qa

\* Of equal survivors the first is the winner, and the merge is held.
Wins(w) == /\ w \in Survivors
           /\ \A v \in Survivors : ~Better(v, w)
           /\ \A v \in Survivors : v < w => Better(w, v)

\* Mutant: ties are broken by guessing.
NeverTied(w) == FALSE
Ambiguous(w) == \E v \in Survivors \ {w} : ~Better(w, v)

Select(w) ==
    /\ phase = "select"
    /\ Wins(w)
    /\ at' = w
    /\ tied' = Ambiguous(w)
    /\ phase' = "security"
    /\ UNCHANGED <<mode, treeVars, callVars, routeVars, calls, loopVars, cands, outcome, seenVars>>

\* classify_aggregate: only a fan-out that failed for capacity alone is not blocked.
Deferred == \A w \in Worktree : cands[w].state = "capacity"

NoneSurvives ==
    /\ phase = "select"
    /\ Survivors = {}
    /\ IF Deferred THEN End("failure") ELSE End("blocked")
    /\ UNCHANGED <<mode, treeVars, at, callVars, routeVars, calls, loopVars, candVars, seenVars>>

SecurityPasses ==
    /\ phase = "security"
    /\ phase' = "commit"
    /\ reviewed' = IF staged[at] \in Sensitive
                   THEN [reviewed EXCEPT !.security = {staged[at]}] ELSE reviewed
    /\ UNCHANGED <<mode, treeVars, at, callVars, routeVars, calls, loopVars, candVars,
                   outcome, checked>>

SecurityObjects ==
    /\ phase = "security"
    /\ staged[at] \in Sensitive
    /\ Revert
    /\ End("blocked")
    /\ UNCHANGED <<mode, at, callVars, routeVars, calls, loopVars, candVars, seenVars>>

FindsSecret ==
    /\ phase = "commit"
    /\ staged[at] \in Secret
    /\ Revert
    /\ End("blocked")
    /\ UNCHANGED <<mode, at, callVars, routeVars, calls, loopVars, candVars, seenVars>>

\* Held for a human, merged, or kept after a conflict or on a dirty target.
\* commit_all stages once more: what is merged is trees[at].
Integrate ==
    /\ phase = "commit"
    /\ staged[at] \notin Secret
    /\ IF tied THEN End("held") ELSE End("merged") \/ End("blocked")
    /\ UNCHANGED <<mode, treeVars, at, callVars, routeVars, calls, loopVars, candVars, seenVars>>

-----------------------------------------------------------------------------
Call(b) == Skipped(b) \/ Limit(b) \/ Outage(b) \/ Denies(b) \/ Answers(b)

Step == \/ NoEngine \/ Launch \/ Revalidate
        \/ \E b \in Backends : Call(b)
        \/ \E c \in BOOLEAN : ClaimsBlocked(c)
        \/ \E t \in Tree, refused \in BOOLEAN : Edits(t, refused)
        \/ FindsNoChecks \/ ChecksPass
        \/ \E e \in Errors : ChecksFail(e)
        \/ Approves \/ Objects
        \/ \E qa \in 0..1, rank \in Ranks : Survives(qa, rank)
        \/ (\E w \in Worktree : Select(w)) \/ NoneSurvives
        \/ SecurityPasses \/ SecurityObjects \/ FindsSecret \/ Integrate

Next == \/ Step
        \/ \E t \in Tree : Writes(t)
        \/ \E b \in Backends : WaitOver(b)

Spec == Init /\ [][Next]_vars

\* Every model call and every check has a timeout.
FairSpec == Spec /\ WF_vars(Step)

-----------------------------------------------------------------------------
TypeOK ==
    /\ mode \in {"single", "parallel"}
    /\ trees \in [Worktree -> Tree] /\ staged \in [Worktree -> Tree]
    /\ at \in Worktree
    /\ phase \in {"launch", "ask", "answer", "gate", "review", "select", "security",
                  "commit", "done"}
    /\ left \subseteq Backends
    /\ lastErr \in {"limit", "outage"}
    /\ handoff \subseteq Backends
    /\ failedBackends \subseteq Backends
    /\ limited \subseteq Backends
    /\ det \in Nat /\ rounds \in Nat /\ calls \in Nat /\ claims \in Nat
    /\ seen \subseteq Errors \X Tree
    /\ cands \in [Worktree -> [state : {"out", "capacity", "survived"}, qa : 0..1,
                               rank : Ranks \cup {0}]]
    /\ tied \in BOOLEAN
    /\ outcome \in {"none", "merged", "limit", "failure", "blocked", "held"}
    /\ checked \in [Worktree -> SUBSET Tree]
    /\ reviewed \in [qa : SUBSET Tree, security : SUBSET Tree]

\* What is merged was, when its diff was taken, within scope and limit and free
\* of secrets, passed the mandatory checks, and the security review where one is
\* due, after however many repairs, handoffs and candidates; since then only the
\* checks have written to it (core/project.py:978-1207).
MergedIsChecked ==
    outcome = "merged" =>
        \E t \in (AllowedPaths \cap WithinLimit) \ Secret :
            /\ checked[at] = {t}
            /\ t \in Sensitive => reviewed.security = {t}
            /\ trees[at] \in Litter[t]

\* In the coder loop QA has approved the content that is merged, up to what the
\* checks wrote since; a candidate's verdict is only one of the ranking signals.
MergedIsApproved ==
    outcome = "merged" /\ mode = "single" =>
        \E t \in Tree : /\ reviewed.qa = {t} /\ checked[at] = {t}
                       /\ trees[at] \in Litter[t]

\* No secret is merged: "secret-shaped diffs block the cycle"
\* (docs/security-model.md:16-17).
SecretsBlock == outcome = "merged" => trees[at] \notin Secret

\* A merged candidate is strictly better than every other survivor, the QA
\* verdict first (core/parallel.py:221-268).
BestIsMerged ==
    outcome = "merged" /\ mode = "parallel" =>
        \A w \in Survivors \ {at} :
            \/ cands[w].qa < cands[at].qa
            \/ cands[w].qa = cands[at].qa /\ cands[w].rank < cands[at].rank

\* The coder is called a bounded number of times, whatever sequence of repairs,
\* contradicted claims, objections and handoffs a cycle goes through.
CallsBounded ==
    calls <= IF mode = "parallel" THEN Candidates
             ELSE Cardinality(Backends) * (MaxDet + MaxRounds + 1)

\* Every build ends.
BuildEnds == <>(phase = "done")

\* When the coder reported a limit and every backend of the chain is limited, the
\* cycle ends as limited, so that the wait the provider asked for is kept (docs/capacity.md:31-32,
\* "rate/usage limits -> explicit retry-after").
LimitReported ==
    outcome = "failure" /\ failedBackends # {} => \E b \in Backends : b \notin limited

\* "One corrective repair round is permitted before this actually blocks the
\* task" (core/project.py:937-939).
OneCorrectiveRound == claims <= 1
=============================================================================
