---------------------------- MODULE TaskContract ----------------------------
(***************************************************************************)
(* The contract of one scaffolding task: the outputs the backlog requires  *)
(* and the work order of the conductor are compiled into it                *)
(* (core/contract.py), the preflight decides in code whether a model call  *)
(* may be spent on it (core/preflight.py), the worker's writes are kept    *)
(* inside its paths (core/gitops.py, orchestrator.apply_edits) and the     *)
(* structural gate decides whether the outputs are there                   *)
(* (core/bootstrap_gate.py) before git takes the work over.                *)
(*                                                                         *)
(* A path is the sequence of its names.                                    *)
(***************************************************************************)
EXTENDS Naturals, Sequences, FiniteSets, SequencesExt

CONSTANTS
    Path,        \* the paths of the worktree that matter, closed under parents
    Output,      \* entries of expected_paths, [path, type, required, nonEmpty]
    Order,       \* work orders, [allowed, forbidden, inputs, expected]
    Protected,   \* patterns of guardrails/protected-paths.txt
    Credential,  \* paths that look like credentials
    Manifest,    \* package.json and its like
    Repairs,     \* repair.maximum_attempts_per_task
    Rounds,      \* cycles on the task
    None

VARIABLES
    phase,       \* where the cycle is
    outputs, order,
    base, tree,  \* the project branch and the task's worktree: path -> content
    bad,         \* apply_edits reported a violation
    attempts, rounds,
    depsDone

tvars == <<phase, outputs, order, base, tree, bad, attempts, rounds, depsDone>>

Content == {"none", "empty", "text", "broken", "dir"}
IsFile(c) == c \in {"empty", "text", "broken"}

(***************************************************************************)
(* The path policy.  A pattern is a literal path, or everything below one. *)
(***************************************************************************)
Below(p, d) == Len(p) > Len(d) /\ SubSeq(p, 1, Len(d)) = d

\* match_pattern: a literal name without a separator matches in every directory.
Match(p, pat) == IF pat.deep THEN Below(p, pat.dir)
                 ELSE p = pat.dir \/ (Len(pat.dir) = 1 /\ Last(p) = pat.dir[1])

MatchesAny(p, pats) == \E pat \in pats : Match(p, pat)

\* pattern_is_protected, for a work order's pattern.
GrantsProtected(pat) ==
    \E pp \in Protected : Match(pp.dir, pat) \/ (pat.dir # <<>> /\ Match(pat.dir, pp))

\* directory_is_allowed: a file in it would be, or it is listed itself; the root always is.
DirAllowed(d, allowed) ==
    d = <<>> \/ MatchesAny(Append(d, "probe"), allowed) \/ MatchesAny(d, allowed)

\* check_paths
Violations(o, paths) == {p \in paths : \/ MatchesAny(p, Protected)
                                       \/ MatchesAny(p, o.forbidden)
                                       \/ ~MatchesAny(p, o.allowed)}

\* What git reports: files that differ, never directories.
Changed == {p \in Path : (IsFile(tree[p]) \/ IsFile(base[p])) /\ tree[p] # base[p]}

(***************************************************************************)
(* The contract and the preflight.                                         *)
(***************************************************************************)
\* validate_task_contract
Coverable(e) == \/ MatchesAny(e.path, order.allowed)
                \/ DirAllowed(e.path, order.allowed)
                \/ DirAllowed(Front(e.path), order.allowed)

Literal == {e \in outputs : e.required /\ e.type # "glob"}

Contradicts == \E e \in outputs : MatchesAny(e.path, order.forbidden)

\* find_work_order_divergences: the order expects only what the contract requires.
Diverges == \E x \in order.expected : ~\E e \in outputs :
                e.path = x \/ (e.type = "glob" /\ Below(x, e.path))

\* run_preflight up to the checks on backends, capacity and decisions, which may find
\* anything.
Preflight ==
    IF ~depsDone \/ \E p \in order.inputs : tree[p] = "none" THEN {"wait"}
    ELSE IF ~(\A e \in Literal : Coverable(e)) \/ Contradicts \/ Diverges
    THEN {"invalid"}
    ELSE {"feasible", "wait", "human"}

(***************************************************************************)
(* The structural gate.                                                    *)
(***************************************************************************)
\* Mutant: a required file need only exist.
SatisfiedByName(e) == tree[e.path] # "none" \/ ~e.required

\* _check_expected_outputs
Satisfied(e) ==
    CASE e.type = "glob"      -> e.required => \E p \in Changed : Below(p, e.path)
      [] e.type = "directory" -> tree[e.path] = "dir" \/ (tree[e.path] = "none" /\ ~e.required)
      [] e.type = "file"      -> \/ IsFile(tree[e.path]) /\ (e.nonEmpty => tree[e.path] # "empty")
                                 \/ tree[e.path] = "none" /\ ~e.required
      [] OTHER                -> tree[e.path] # "none" \/ ~e.required

\* run_structural_checks: what changed is not empty and not a credential, parses, and every
\* manifest of the project does.
GateOk ==
    /\ Changed # {}
    /\ \A p \in Changed : tree[p] \in {"text", "none"} /\ p \notin Credential
    /\ \A e \in outputs : Satisfied(e)
    /\ \A p \in Manifest : tree[p] \in {"none", "text"}

(***************************************************************************)
(* The cycles of the task.                                                 *)
(***************************************************************************)
Init ==
    /\ phase = "idle"
    /\ outputs \in {O \in SUBSET Output : \A e, f \in O : e.path = f.path => e = f}
    /\ order = None
    /\ base = [p \in Path |-> "none"] /\ tree = base
    /\ bad = FALSE /\ attempts = 0 /\ rounds = 0
    /\ depsDone \in BOOLEAN

\* The conductor's order; preserved work that it does not cover is thrown away.
Conduct == \E o \in Order :
    /\ phase = "idle" /\ rounds < Rounds
    /\ rounds' = rounds + 1
    /\ order' = o
    /\ IF \E pat \in o.allowed : GrantsProtected(pat) THEN phase' = "idle" /\ UNCHANGED tree
       ELSE /\ phase' = "preflight"
            /\ tree' = IF Violations(o, Changed) # {} THEN base ELSE tree
    /\ bad' = FALSE /\ attempts' = 0
    /\ UNCHANGED <<outputs, base, depsDone>>

\* Mutant: the verdict is logged and the worker is called anyway.
CheckAnyway ==
    /\ phase = "preflight" /\ phase' = "work"
    /\ UNCHANGED <<outputs, order, base, tree, bad, attempts, rounds, depsDone>>

\* Only a feasible task goes on: preserved work to the gate at once, else to the worker.
Check ==
    /\ phase = "preflight"
    /\ \E verdict \in Preflight :
        phase' = IF verdict # "feasible" THEN "idle" ELSE IF Changed # {} THEN "gate" ELSE "work"
    /\ UNCHANGED <<outputs, order, base, tree, bad, attempts, rounds, depsDone>>

\* A file needs its parent to be a directory, which is made on the way.
Put(p, c) ==
    /\ tree[p] \notin {"dir", c}
    /\ Len(p) > 1 => ~IsFile(tree[Front(p)])
    /\ tree' = [q \in Path |-> IF q = p THEN c
                               ELSE IF Len(p) > 1 /\ q = Front(p) THEN "dir" ELSE tree[q]]

\* apply_edits: a write or a deletion outside the paths is a violation and is not applied.
Edit == phase = "work" /\ \E p \in Path, c \in {"none", "empty", "text", "broken"} :
    /\ IF Violations(order, {p}) # {} THEN bad' = TRUE /\ UNCHANGED tree
       ELSE Put(p, c) /\ UNCHANGED bad
    /\ UNCHANGED <<phase, outputs, order, base, attempts, rounds, depsDone>>

\* safe_makedirs
MakeDir == phase = "work" /\ \E p \in Path :
    /\ IF MatchesAny(p, Protected) \/ ~DirAllowed(p, order.allowed)
       THEN bad' = TRUE /\ UNCHANGED tree
       ELSE tree[p] = "none" /\ Put(p, "dir") /\ UNCHANGED bad
    /\ UNCHANGED <<phase, outputs, order, base, attempts, rounds, depsDone>>

\* A coder of the command-line kind writes into the worktree by itself.
NativeWrite == phase = "work" /\ \E p \in Path, c \in {"none", "text"} :
    /\ Put(p, c)
    /\ UNCHANGED <<phase, outputs, order, base, bad, attempts, rounds, depsDone>>

\* _revert_worktree
GiveUp == phase' = "idle" /\ tree' = base

\* Another attempt, or the end of them.
TryAgain ==
    /\ attempts' = attempts + 1
    /\ IF attempts' >= Repairs THEN GiveUp ELSE phase' = "work" /\ UNCHANGED tree

\* Mutant: each edit was checked when it was applied, so the worktree is not.
SubmitUnchecked == phase = "work" /\
    /\ IF bad THEN TryAgain ELSE phase' = "gate" /\ UNCHANGED <<tree, attempts>>
    /\ bad' = FALSE
    /\ UNCHANGED <<outputs, order, base, rounds, depsDone>>

\* The worktree itself is checked, whoever wrote it.
Submit == phase = "work" /\
    /\ IF bad \/ Violations(order, Changed) # {} THEN TryAgain
       ELSE phase' = "gate" /\ UNCHANGED <<tree, attempts>>
    /\ bad' = FALSE
    /\ UNCHANGED <<outputs, order, base, rounds, depsDone>>

\* A claim that the platform lacks what it has costs an attempt, one more than the others.
Contradicted == phase = "work" /\
    /\ IF attempts < Repairs THEN attempts' = attempts + 1 /\ UNCHANGED <<phase, tree>>
       ELSE GiveUp /\ UNCHANGED attempts
    /\ bad' = FALSE
    /\ UNCHANGED <<outputs, order, base, rounds, depsDone>>

\* The coder fails or is blocked: its work is preserved for a later cycle.
Preserve == phase = "work" /\
    /\ phase' = "idle"
    /\ UNCHANGED <<outputs, order, base, tree, bad, attempts, rounds, depsDone>>

GatePasses ==
    /\ phase = "gate" /\ GateOk
    /\ phase' = "merge"
    /\ UNCHANGED <<outputs, order, base, tree, bad, attempts, rounds, depsDone>>

\* The same failure twice ends the attempts early.
GateFails ==
    /\ phase = "gate" /\ ~GateOk
    /\ TryAgain \/ (attempts > 0 /\ GiveUp /\ UNCHANGED attempts)
    /\ UNCHANGED <<outputs, order, base, bad, rounds, depsDone>>

\* A commit holds files; a directory without any is not part of it.
Committed == [p \in Path |->
    IF tree[p] = "dir" /\ ~\E q \in Path : Below(q, p) /\ IsFile(tree[q]) THEN "none" ELSE tree[p]]

Merge ==
    /\ phase = "merge"
    /\ phase' = "done" /\ tree' = Committed
    /\ UNCHANGED <<outputs, order, base, bad, attempts, rounds, depsDone>>

Next == \/ Conduct \/ Check \/ Edit \/ MakeDir \/ NativeWrite \/ Submit \/ Contradicted
        \/ Preserve \/ GatePasses \/ GateFails \/ Merge

Spec == Init /\ [][Next]_tvars

-----------------------------------------------------------------------------
TypeOK ==
    /\ phase \in {"idle", "preflight", "work", "gate", "merge", "done"}
    /\ tree \in [Path -> Content] /\ base \in [Path -> Content]
    /\ attempts \in 0..Repairs + 1 /\ rounds \in 0..Rounds /\ bad \in BOOLEAN

\* What is merged stays inside the work order of the last cycle, whatever earlier cycles
\* and native coders left in the worktree, holds no credential, and has every required file.
MergedMeetsContract == phase = "done" =>
    /\ \A p \in Changed : /\ MatchesAny(p, order.allowed) /\ ~MatchesAny(p, order.forbidden)
                          /\ ~MatchesAny(p, Protected) /\ p \notin Credential
    /\ \A e \in outputs : e.required /\ e.type = "file" =>
           IsFile(tree[e.path]) /\ (e.nonEmpty => tree[e.path] = "text")

\* preflight.py: no model call is spent on a task that waits for another one, whose order
\* forbids what the task requires, or whose order expects what the task does not.
CallsAreWorthwhile == phase \in {"work", "gate", "merge"} =>
    depsDone /\ ~Contradicts /\ ~Diverges

(***************************************************************************)
(* What the documentation says and the code does not do.                   *)
(***************************************************************************)
\* bootstrap_gate.py 329-331: "every required, non-glob expected output must be creatable
\* given allowed_paths".
Creatable(e) == IF e.type = "directory" THEN DirAllowed(e.path, order.allowed)
                ELSE Violations(order, {e.path}) = {} \/ (e.type = "unknown" /\ DirAllowed(e.path, order.allowed))

FeasibleIsCreatable == phase = "work" => \A e \in Literal : Creatable(e)

\* The gate has seen every required output; git takes no empty directory over.
MergedHasOutputs == phase = "done" =>
    \A e \in Literal : tree[e.path] # "none"
=============================================================================
