----------------------------- MODULE Worktrees -----------------------------
(***************************************************************************)
(* What the cycles of a project leave in git: the branch agentic/project   *)
(* with its worktree, and for every task, and every further candidate of a *)
(* risky one, a branch of its own with a worktree that survives failed     *)
(* cycles (core/taskspace.py, core/gitops.py, core/parallel.py, and        *)
(* _run_cycle_locked of core/project.py).  ProjectCycle.tla is about which *)
(* process works on a task, TaskBuild.tla about what is checked and by     *)
(* whom: here it matters which content the git commands pick up.           *)
(*                                                                         *)
(* A content gives each file a version; every write is a new version, 0 is *)
(* what the user's branch holds.  A merge is the three-way merge of whole  *)
(* files: it is in conflict where both sides have changed one.             *)
(***************************************************************************)
EXTENDS Naturals, FiniteSets

CONSTANTS
    Task, File,
    Orders,      \* sets of files that a work order may allow
    Risky,       \* tasks with a risk signal of their own
    MaxWrites,   \* bound on the writes
    MaxRounds,   \* bound on the cycles
    Env,         \* what happens beyond normal operation, see below
    None

(***************************************************************************)
(* The members of Env:                                                     *)
(*   "crash"          a cycle dies and is recovered                        *)
(*   "checks_write"   the deterministic checks write into the worktree     *)
(*   "merge_refused"  git merge fails without a conflict: no identity to   *)
(*                    commit with, or a hook of the repository             *)
(***************************************************************************)

VARIABLES
    done, tries,         \* tasks with the status done; attempts of each task
    project, dirty,      \* tip of agentic/project; its worktree has changes
    branch, tree,        \* of each candidate: its branch, the files of its worktree
    phase, cur, at,      \* the cycle, its task and the candidate it is working on
    allowed,             \* allowed_paths of its work order
    index,               \* what each candidate has staged in this cycle
    survivors, tied,     \* candidates that were not disqualified; integration_requires_human
    writes, rounds,
    scanned,             \* <<file, version>> that a reviewed and scanned diff held (history)
    landed,              \* <<file, version>> that agentic/project has held (history)
    committed            \* what the last commit of each candidate was to bring (history)

taskVars == <<done, tries>>
gitVars == <<project, dirty, branch, tree>>
orderVars == <<cur, allowed, tied>>
cycleVars == <<phase, at, index, survivors, orderVars>>
seenVars == <<scanned, landed, committed>>
wvars == <<taskVars, gitVars, cycleVars, writes, rounds, seenVars>>

\* The first candidate has the task's id, the second one <id>--c2.
Name == Task \X {1, 2}

Content == [File -> 0..MaxWrites]
HEAD == [f \in File |-> 0]

\* What the first content has that the second has not.
Changes(new, old) == {<<f, new[f]>> : f \in {g \in File : new[g] # old[g]}}
FilesOf(changes) == {c[1] : c \in changes}

(***************************************************************************)
(* Worktrees.                                                              *)
(***************************************************************************)
\* ensure_project_worktree
ProjectTip == IF project = None THEN HEAD ELSE project

\* create_task_worktree: as it was left, or on the task's branch, or on a new one.
BranchOf(n) == IF branch[n] # None THEN branch[n] ELSE [base |-> ProjectTip, tip |-> ProjectTip]
TreeOf(n) == IF tree[n] # None THEN tree[n] ELSE BranchOf(n).tip

\* What is preserved is staged; out of the new order's scope, it is thrown away.
Revalidated(n, paths) ==
    IF FilesOf(Changes(TreeOf(n), BranchOf(n).tip)) \subseteq paths THEN TreeOf(n)
    ELSE BranchOf(n).tip

\* The diff of the index, which is what the reviewers and the scanner see.
Staged == Changes(index[at], branch[at].tip)

\* _revert_worktree
Reverted(n) == [tree EXCEPT ![n] = branch[n].tip]

(***************************************************************************)
(* The cycle.                                                              *)
(***************************************************************************)
Init ==
    /\ done = {} /\ tries = [t \in Task |-> 0]
    /\ project = None /\ dirty = FALSE
    /\ branch = [n \in Name |-> None] /\ tree = branch /\ index = branch
    /\ phase = "idle" /\ cur = None /\ at = None /\ allowed = {}
    /\ survivors = {} /\ tied = FALSE
    /\ writes = 0 /\ rounds = 0
    /\ scanned = {} /\ landed = {} /\ committed = [n \in Name |-> {}]

\* decide_agent_count: a risk signal, of which failed attempts are one, asks for two.
Fanout(t) == IF t \in Risky \/ tries[t] >= 2 THEN 2 ELSE 1

Idle == /\ phase' = "idle" /\ cur' = None /\ at' = None /\ allowed' = {}
        /\ survivors' = {} /\ tied' = FALSE
        /\ index' = [n \in Name |-> None]     \* staged anew before it is looked at

\* fail: the task is tried again, at once or when it is no longer blocked; its worktree stays
\* as it is.
Fail == /\ Idle
        /\ tries' = [tries EXCEPT ![cur] = IF @ < 2 THEN @ + 1 ELSE @]
        /\ UNCHANGED done

Begin(t) == \E paths \in Orders :
    /\ phase = "idle" /\ t \notin done /\ rounds < MaxRounds
    /\ rounds' = rounds + 1
    /\ project' = ProjectTip
    /\ LET n == <<t, 1>>
           content == Revalidated(n, paths)
       IN  /\ branch' = [branch EXCEPT ![n] = BranchOf(n)]
           /\ tree' = [tree EXCEPT ![n] = content]
           /\ index' = [index EXCEPT ![n] = content]
           /\ cur' = t /\ at' = n /\ allowed' = paths
           \* Preserved work is checked before the coder is asked again.
           /\ phase' = IF Fanout(t) = 1 /\ content # BranchOf(n).tip THEN "check" ELSE "code"
    /\ UNCHANGED <<taskVars, dirty, survivors, tied, writes, seenVars>>

\* The coder writes what it likes.
Write ==
    /\ phase = "code" /\ writes < MaxWrites
    /\ writes' = writes + 1
    /\ \E f \in File : tree' = [tree EXCEPT ![at][f] = writes']
    /\ UNCHANGED <<taskVars, project, dirty, branch, cycleVars, rounds, seenVars>>

\* run_candidates: the next candidate in a worktree of its own, as an earlier cycle left it.
NextCandidate(valid) ==
    /\ survivors' = IF valid THEN survivors \cup {at} ELSE survivors
    /\ IF at[2] = 1
       THEN LET n == <<cur, 2>> IN
            /\ at' = n /\ phase' = "code"
            /\ branch' = [branch EXCEPT ![n] = BranchOf(n)]
            /\ tree' = [tree EXCEPT ![n] = TreeOf(n)]
       ELSE phase' = "pick" /\ UNCHANGED <<at, branch, tree>>
    /\ UNCHANGED <<taskVars, orderVars>>

Alone == Fanout(cur) = 1

GoTo(next) == phase' = next /\ UNCHANGED <<taskVars, at, survivors, orderVars, branch, tree>>

\* The coder fails or is blocked: what it has written stays in the worktree.
CoderFails ==
    /\ phase = "code"
    /\ IF Alone THEN Fail /\ UNCHANGED <<branch, tree>>
       ELSE NextCandidate(FALSE) /\ UNCHANGED index
    /\ UNCHANGED <<project, dirty, writes, rounds, seenVars>>

\* _apply_and_check_paths; a single coder is asked again.
Submit ==
    /\ phase = "code"
    /\ index' = [index EXCEPT ![at] = tree[at]]
    /\ IF FilesOf(Changes(tree[at], branch[at].tip)) \subseteq allowed THEN GoTo("check")
       ELSE IF Alone THEN GoTo("code")
       ELSE NextCandidate(FALSE)
    /\ UNCHANGED <<project, dirty, writes, rounds, seenVars>>

\* The attempts are used up: the work is thrown away.
GiveUp ==
    /\ phase \in {"code", "check"} /\ Alone
    /\ tree' = Reverted(at) /\ Fail
    /\ UNCHANGED <<project, dirty, branch, writes, rounds, seenVars>>

\* The checks or QA fail: a single coder is asked again.
CheckFails ==
    /\ phase = "check"
    /\ IF Alone THEN GoTo("code") ELSE NextCandidate(FALSE)
    /\ UNCHANGED <<project, dirty, index, writes, rounds, seenVars>>

CheckPasses ==
    /\ phase = "check"
    /\ IF Alone THEN GoTo("review") ELSE NextCandidate(TRUE)
    /\ UNCHANGED <<project, dirty, index, writes, rounds, seenVars>>

\* select_winner and decide_integration: of equals the first one goes on, up to the merge.
Pick ==
    /\ phase = "pick" /\ survivors # {}
    /\ phase' = "review"
    /\ \E winner \in survivors :
        /\ at' = winner
        /\ tied' \in IF Cardinality(survivors) = 2 /\ winner[2] = 1 THEN BOOLEAN ELSE {FALSE}
    /\ UNCHANGED <<taskVars, gitVars, cur, allowed, index, survivors, writes, rounds, seenVars>>

NoneSurvives ==
    /\ phase = "pick" /\ survivors = {} /\ Fail
    /\ UNCHANGED <<gitVars, writes, rounds, seenVars>>

\* Security review and secret scan of the staged diff; a tie waits for a human.
Approve ==
    /\ phase = "review"
    /\ scanned' = scanned \cup Staged
    /\ IF tied THEN Fail /\ UNCHANGED <<branch, tree>> ELSE GoTo("commit") /\ UNCHANGED index
    /\ UNCHANGED <<project, dirty, writes, rounds, landed, committed>>

Reject ==
    /\ phase = "review"
    /\ tree' = Reverted(at) /\ Fail
    /\ UNCHANGED <<project, dirty, branch, writes, rounds, seenVars>>

\* commit_all stages once more, with what the checks have left behind.
CommitIn(n) ==
    /\ phase = "commit" /\ phase' = "merge" /\ at' = n
    /\ \E content \in {tree[n]} \cup
                       IF "checks_write" \in Env /\ writes < MaxWrites
                       THEN {[tree[n] EXCEPT ![f] = writes + 1] : f \in File} ELSE {} :
        /\ tree' = [tree EXCEPT ![n] = content]
        /\ branch' = [branch EXCEPT ![n].tip = content]
        /\ committed' = [committed EXCEPT ![n] = Changes(content, branch[n].base)]
        /\ writes' = IF content = tree[n] THEN writes ELSE writes + 1
    /\ index' = [m \in Name |-> None]
    /\ UNCHANGED <<taskVars, project, dirty, survivors, orderVars, rounds, scanned, landed>>

\* Mutant: whoever wins, the task's own worktree is committed.
CommitOwn == CommitIn(<<cur, 1>>)

Commit == CommitIn(at)

(***************************************************************************)
(* Integration.                                                            *)
(***************************************************************************)
\* Mutant: what git could not merge is left out.
NoConflict(b) == {}

\* Files that the task and the project have both changed, each in its own way.
Conflicts(b) == {f \in File : /\ b.tip[f] # b.base[f] /\ project[f] # b.base[f]
                              /\ b.tip[f] # project[f]}

Merged(b) == [f \in File |-> IF project[f] = b.base[f] THEN b.tip[f] ELSE project[f]]

\* What git merge leaves without a conflict: the merge; or, failing otherwise, nothing or the
\* half of it, which the caller does not tell from a success.  A branch's base is the merge base.
Outcomes(b) ==
    {[tip |-> Merged(b), base |-> b.tip, dirty |-> FALSE]} \cup
    IF "merge_refused" \in Env
    THEN {[tip |-> project, base |-> b.base, dirty |-> d] : d \in BOOLEAN} ELSE {}

\* integrate_task
Integrate ==
    /\ phase = "merge" /\ ~dirty /\ Conflicts(branch[at]) = {}
    /\ phase' = "cleanup"
    /\ \E result \in Outcomes(branch[at]) :
        /\ project' = result.tip /\ dirty' = result.dirty
        /\ branch' = [branch EXCEPT ![at].base = result.base]
    /\ landed' = landed \cup Changes(project', project)
    /\ UNCHANGED <<taskVars, tree, at, index, survivors, orderVars, writes, rounds, scanned,
                   committed>>

\* Mutant: a failed integration is cleaned up after like a successful one.
RefuseAndRemove ==
    /\ phase = "merge" /\ (dirty \/ Conflicts(branch[at]) # {}) /\ Fail
    /\ branch' = [branch EXCEPT ![at] = None] /\ tree' = [tree EXCEPT ![at] = None]
    /\ UNCHANGED <<project, dirty, writes, rounds, seenVars>>

\* A dirty target or a conflict: branch and worktree are kept.
Refuse ==
    /\ phase = "merge" /\ (dirty \/ Conflicts(branch[at]) # {}) /\ Fail
    /\ UNCHANGED <<gitVars, writes, rounds, seenVars>>

\* cleanup_task_worktree, in two commands; the losers keep what they have.
RemoveTree ==
    /\ phase = "cleanup" /\ phase' = "drop"
    /\ tree' = [tree EXCEPT ![at] = None]
    /\ UNCHANGED <<taskVars, project, dirty, branch, at, index, survivors, orderVars, writes,
                   rounds, seenVars>>

DropBranch ==
    /\ phase = "drop" /\ phase' = "mark"
    /\ branch' = [branch EXCEPT ![at] = None]
    /\ UNCHANGED <<taskVars, project, dirty, tree, at, index, survivors, orderVars, writes, rounds,
                   seenVars>>

MarkDone ==
    /\ phase = "mark" /\ Idle
    /\ done' = done \cup {cur}
    /\ UNCHANGED <<tries, gitVars, writes, rounds, seenVars>>

\* The cycle dies, in the middle of a merge perhaps; the next one reconciles its task.  Before
\* the commit it leaves in git what CoderFails leaves there.
Crash ==
    /\ "crash" \in Env /\ phase \in {"commit", "merge", "cleanup", "drop", "mark"}
    /\ Idle
    /\ dirty' \in IF phase = "merge" THEN BOOLEAN ELSE {dirty}
    /\ UNCHANGED <<taskVars, project, branch, tree, writes, rounds, seenVars>>

Next == \/ \E t \in Task : Begin(t)
        \/ Write \/ CoderFails \/ Submit \/ GiveUp \/ CheckFails \/ CheckPasses
        \/ Pick \/ NoneSurvives \/ Approve \/ Reject \/ Commit
        \/ Integrate \/ Refuse \/ RemoveTree \/ DropBranch \/ MarkDone \/ Crash

Spec == Init /\ [][Next]_wvars

-----------------------------------------------------------------------------
TypeOK ==
    /\ done \subseteq Task
    /\ tries \in [Task -> 0..2] /\ dirty \in BOOLEAN /\ tied \in BOOLEAN
    /\ project \in Content \cup {None}
    /\ tree \in [Name -> Content \cup {None}] /\ index \in [Name -> Content \cup {None}]
    /\ branch \in [Name -> [base : Content, tip : Content] \cup {None}]
    /\ phase \in {"idle", "code", "check", "pick", "review", "commit", "merge", "cleanup",
                  "drop", "mark"}
    /\ survivors \subseteq Name

\* Whatever earlier cycles, other candidates and refused merges left in the worktrees, all
\* that ever reaches agentic/project was in a diff that the security review and the secret
\* scan have seen.
MergedIsScanned == landed \subseteq scanned

\* What a task has committed reaches agentic/project or stays on its branch, after conflicts,
\* crashes and other candidates: "failed ones are preserved" (taskspace.py:20-21).
CommittedIsKept == \A n \in Name : \A c \in committed[n] :
    c \in landed \/ (branch[n] # None /\ branch[n].tip[c[1]] = c[2])

(***************************************************************************)
(* What the documentation says and the code does not do.                   *)
(***************************************************************************)
\* A cycle merges only what its own work order allows: after a refused merge the branch still
\* holds what an earlier order allowed.
MergedInScope == phase = "commit" =>
    FilesOf(Changes(tree[at], branch[at].base)) \subseteq allowed

\* taskspace.py:16-17: "checks/review run inside the task worktree; only passing work is ...
\* merged": what was checked is not what the project is after the merge.
MergedIsChecked == phase = "cleanup" => project = tree[at]

\* Nothing cleans the integration target after a crash in the middle of a merge.
TargetIsClean == phase = "idle" => ~dirty
=============================================================================
