# Verification of the agentic build loop

AgenticOS builds software projects without a human at the keyboard. A project has a
backlog of tasks; a *cycle* (`core/project.py`, `run_cycle`) takes the next task, has
models plan, write and review it in a git worktree of its own, checks the result
deterministically, merges it into the branch `agentic/project`, and cools down. Cycles
are started by a timer, by the fleet scheduler, by the dashboard or by hand, in
operating-system processes that share nothing but files.

This directory holds TLA+ specifications of that program, configurations with which TLC
checks them on small instances, and theorems that TLAPS proves for every instance. Paths
below are relative to `.agentic/` unless they start with `docs/` or `README.md`.

    tlc -config MCProjectCycle_core.cfg MCProjectCycle      # a run
    tlapm ProjectCycle_proofs.tla                           # the proofs of a module

## 1. Inventory

### 1.1 What a cycle is made of

| component | state | operations | correct when | module |
| --- | --- | --- | --- | --- |
| Build cycles of a project: `core/project.py` `run_cycle`, `_run_cycle_locked`; `core/recovery.py` | `backlog.yaml`, branch `agentic/project`, worktrees | start-up recovery, lock, lease, self-heal, select, conduct, claim, work, merge, mark done, cool, release | one cycle at a time; a task is merged once, done only when merged, and never stuck; a crash loses nothing and repeats nothing | `ProjectCycle` |
| Lock and lease: `core/projstate.py` `ProjectLock`, `core/taskspace.py` `ProjectLease` | `project.lock` (O_EXCL file, stale after 7200 s), `lease.json` (TTL 3600 s) | acquire, break a stale lock, holder, release | mutual exclusion; a dead holder does not keep the project shut | `LockFiles` |
| Ownership claims: `core/taskspace.py` | `ownership.json` | claim, release, conflict | a running task owns its paths, a done one owns nothing | `ProjectCycle` |
| Scheduler of a project: `core/scheduler.py` | `scheduler.json` (idle, running, cooling, paused, complete), loaded once per process and saved whole | begin_cycle, start_cooling, pause, resume, eligible | a paused project does not run; a cycle fits into the operating window | `ProjectCycle`, `Cooling` |
| Process supervisor: `core/supervisor.py` | a record per supervised child, with pids, deadline and task | run_supervised, terminate_tree, identity_matches, recover_stale_owned_processes | a backend's process is ended in time, with what it started; nobody else's is | `Supervisor`, `ProjectCycle` |
| Model calls: `core/backends.py`, `core/breaker.py` | the breaker's `backends.json`, one entry per backend | invoke_backend's walk over a chain, schema repair, trip, cool, verify, reset | a refusal is final; a limited backend is left alone; each call ends | `CallChain`, `Cooling` |
| Capacity and routing: `core/capacity.py`, `core/routing.py` | `capacity.tsv`, `cycles.tsv` | decide_start, capability_chain, reviewer independence, record_call | limits are kept; a cycle that starts has room for its review; waiting ends | `Routing` |
| Contract of a task: `core/contract.py`, `core/preflight.py`, `core/gitops.py`, `core/bootstrap_gate.py` | the worktree's paths | compile, preflight, path checks, structural gate, repair | no call for an impossible task; what is merged is inside the order and has its outputs | `TaskContract` |
| Coder loop: `core/project.py`, `core/gate.py`, `apply_edits` of `core/orchestrator.py` | the worktree's content, attempts, rounds, handoff chain, fingerprints of failures | call, scope check, checks, repair, QA, security review, secret scan, integrate | only content that passed everything, as it is, is merged; bounded calls | `TaskBuild` |
| Parallel candidates: `core/parallel.py` | a worktree, a result and a rank per candidate | fan-out, disqualify, rank, tie | the best survivor wins; a tie is not merged | `TaskBuild`, `Worktrees` |
| Branches and worktrees: `core/taskspace.py`, `core/gitops.py` | `agentic/project` and its worktree; a branch, a worktree and an index per candidate | create or resume, revalidate, stage, revert, commit, merge, clean up | what is merged was scanned; what is committed is merged or kept | `Worktrees` |
| State and self-healing: `core/projstate.py`, `core/bootstrap_gate.py`, `core/contract_recovery.py`, `core/parallel_recovery.py`, `core/recovery.py`, `core/decision_policy.py` | `backlog.yaml`, `blockers.yaml`, `decisions.yaml`, the failure streak | the stages that reopen what a defect of the platform blocked, in their order | only that is reopened; blockers and blocked tasks match | `SelfHeal` |
| Start, audit and completion: `core/project.py`, `core/completion.py` | the plan's six files, `final-audit.yaml` | project_start, refresh_progress, final_audit | complete only on evidence | `Completion` |
| Capabilities: `core/capability/` | `capability-graph.json` | analyse, resolve, record evidence | closed and free of conflicts; satisfied only when proven | `Capability` |
| Skills: `core/skillmarket.py`, `core/skillacquire.py`, `core/skillreg.py` | catalogue, registry, quarantine, installed and backed-up directories | discover, quarantine, evaluate, approve, update, roll back, remove | nothing unvetted is listed, no version is lost | `Skills` |
| MCP servers: `core/mcp.py`, `core/mcpresolve.py` | `mcp.json`, setup actions | add, review, enable, resolve | enabled only when trusted; a human is asked once | `Mcp` |
| Prompts: `core/context/`, `core/cachestore.py` | candidate items; the artifact cache | deduplicate, admit, truncate, render, evict; hash, look up, store | mandatory items stay, the budget holds, the policy is that of the moment | `Context`, `Cache` |

### 1.2 What surrounds it

| component | state | operations | correct when | module |
| --- | --- | --- | --- | --- |
| Fleet: `core/fleet.py` | `slots.json`, `fleet.json`, `last_scheduled_at` per project | plan, acquire, run, release, reap, global pause | pools are respected, no project twice, none starves | `Fleet` |
| Maintenance tick: `core/orchestrator.py`, `core/trust.py`, `core/queueing.py`, `core/gate.py` | `trust.tsv`, `queue/*.json`, disagreement counts, baseline | triage, conduct, policy gate, work, gate, verify, record trust, queue or complete | nothing acts on its own below tier "auto"; what needs a human is queued; a new failure fails the gate | `Maintenance` |
| Budget and API calls: `core/budget.py`, `core/invoke.py` | `usage.tsv`, run counters, exhausted_reason | gate before each call, settle after it, retry, fall back, repair | a run stops at its limits | `ApiCall` |
| Registry: `core/registry.py` | `registry.json`, `registry.lock` | add, update, relink, archive, remove | roots are unique, no update is lost | `Registry` |
| Service: `core/service.py` | `service.json`, dashboard processes | start, stop | one known instance | `Service` |
| Dashboard: `ui/ops.py`, `ui/bus.py`, `ui/watch.py`, the event stream of `ui/app.py` | operations, ring buffer, subscribers | start, run, publish, subscribe, replay | one operation per group, no event lost after a reconnect | `Dashboard` |
| Model hierarchy, execution engines, providers, pre-dispatch detectors | - | run or describe external programs | - | their results are choices of the models |
| Knowledge, memory, code intelligence, inventory, project specification | documents and indexes | write, search | - | none: they inform prompts, no decision of a cycle waits for them |
| Configuration, set-up, doctor, logs, notifications, command line, front end | - | read once or output only | - | none |

### 1.3 How they interact, and what is hard

A cycle runs in one process, but nothing makes it the only one: each process first
reconciles the records of processes it takes for dead, *before* it has the lock, then takes
lock and lease, then loads and saves the scheduler state, the backlog, the claims, the
capability graph and the breaker's board as whole files. The operator's commands
(`project-pause`, `resume`, `project recover`, `backends smoke`, `reset-breaker`, `fleet
pause`, skill, server and capability commands) and the dashboard's audit change the same
files from processes of their own. What is hard is

* interleaving of cycles, of a cycle and a start-up recovery, of a cycle and a command;
* state read before a lock is taken, or loaded once and saved later over newer state;
* death at any step, which leaves lock, lease, record, claim and status behind in any mix,
  or half of an operation on several files: a task and its blocker, a skill and its entry, a
  branch and its worktree;
* loops with several counters (repairs, rounds, handoffs, contradicted claims, fallbacks);
* stages of recovery that tell a task's own failure from the platform's by its wording;
* answers of models: limits, refusals, half-finished edits, malformed output, at any call;
* time: locks, leases, slots and cooldowns expire while their holders still run, process
  ids are given away, operating windows end.

`PROJECT.json` lists these hazards at their lines, with the properties that are about each and
what they leave out.

## 2. Modules

| module | models | source |
| --- | --- | --- |
| `ProjectCycle` | the cycles of one project in any number of processes, one action per file operation | `core/project.py` 382-757 and 1206-1220, start-up recovery of `core/supervisor.py`, `core/recovery.py`, `core/scheduler.py` |
| `BuildContract` | what those cycles promise together: one builder, tasks in order of dependency, each built once | abstract |
| `LockFiles` | the lock and the lease one system call at a time | `ProjectLock`, `ProjectLease` |
| `Mutex` | what lock and lease are for | abstract |
| `CallChain` | one call of a model through a chain of backends, with the breaker of the cycle's process and the one on disk | `core/backends.py`, `core/breaker.py` |
| `TaskBuild` | from the preflight to the merge: coder loop or candidates, reviews, integration | `core/project.py` 740-1212, `core/parallel.py` |
| `Fleet` | ticks, plans and slots | `core/fleet.py` |
| `Supervisor` | one supervised process with a descendant, its owner, and the recovery of another cycle, in time | `core/supervisor.py` |
| `Maintenance` | ticks of the maintenance loop that overlap | `core/orchestrator.py`, `core/gate.py`, `core/trust.py`, `core/queueing.py` |
| `ApiCall` | calls of several runs under one daily budget | `core/invoke.py`, `core/budget.py` |
| `Registry` | commands of several clients, with the file lock | `core/registry.py` |
| `Service` | service commands and the dashboards they spawn | `core/service.py` |
| `Dashboard` | operations in threads, event bus, a browser | `ui/ops.py`, `ui/bus.py`, `ui/watch.py` |
| `TaskContract` | a scaffolding task from its contract to its merge | `core/contract.py`, `core/preflight.py`, `core/gitops.py`, `core/bootstrap_gate.py` |
| `Worktrees` | what the cycles of a project leave in git, command by command | `core/taskspace.py`, `core/gitops.py`, `core/parallel.py`, `core/project.py` 699-1220 |
| `SelfHeal` | what blocks tasks and what reopens them, file by file | `core/bootstrap_gate.py`, `core/contract_recovery.py`, `core/parallel_recovery.py`, `core/recovery.py`, `core/decision_policy.py` |
| `Capability` | plan, graph, resolver, evidence | `core/capability/` |
| `Skills` | the life of a skill, one directory or file at a time | `core/skillmarket.py`, `core/skillreg.py`, `core/skillacquire.py` |
| `Mcp` | servers of several projects and the resolution through them | `core/mcp.py`, `core/mcpresolve.py` |
| `Context` | assembly of one prompt under its budget | `core/context/broker.py`, `compose.py`, `items.py` |
| `Cache` | the artifact cache under the policy text of prompts | `core/cachestore.py`, `core/context/compose.py` |
| `Routing` | who works in a cycle, and when one may start | `core/capacity.py`, `core/routing.py`, `core/project.py` |
| `Cooling` | arithmetic of cooldowns, windows and breakers | `core/scheduler.py`, `core/breaker.py` |
| `Completion` | beginning and end of a project | `core/project.py`, `core/projstate.py`, `core/completion.py` |
| `Platform` | the parts around the build cycles side by side: `Maintenance`, `ApiCall`, `Registry`, `Service`, `Dashboard`, `Supervisor`, `Fleet` | - |
| `Workspace` | the files of a project that its cycles change, side by side: `TaskContract`, `Worktrees`, `SelfHeal`, `Completion`, `LockFiles` | - |
| `Supply` | what the cycles of a project draw on, side by side: `Skills`, `Mcp`, `Context`, `Cache`, `Routing`, `Cooling` | - |
| `Setting` | the constants that `Workspace` and `Supply` share | - |
| `MC*` | instances for TLC | |
| `*_proofs` | theorems about the module they extend | |

They describe one system at different grain. `ProjectCycle` takes the lock in one step:
`LockFiles` opens that step and is shown to implement `Mutex`. `ProjectCycle` treats the
work on a task as a bounded number of model calls that end in success or failure:
`TaskBuild` opens that, and takes from a call only how it ends: `CallChain` opens the call,
`Routing` says which chain it walks, `Cooling` how long the breaker waits, `Supervisor` what
becomes of its process, `Context` and `Cache` what is in its prompt. `SelfHeal` opens the
step of the same name in `ProjectCycle`, `TaskContract` the paths behind `TaskBuild`'s
contents, `Worktrees` the git commands behind the commit, the merge and the clean-up of both. A
project that runs in `Fleet` is one whose `ProjectCycle` is entered, and what `ProjectCycle`
leaves is where `Completion` begins. `MeetsContract` (`ProjectCycle` implements
`BuildContract`) and `IsMutex` (`LockFiles` implements `Mutex`) are checked as refinements,
through mappings given with INSTANCE.

`Platform`, `Workspace` and `Supply` each put several modules side by side. Those modules have
no state in common. `Platform!Spec`, `WorkspaceSpec` and `SupplySpec` interleave all of them, and
the theorems are about these; the properties are conjunctions of the modules' own under one
name. For TLC `MCPlatform` restricts the platform to one module at a time, chosen in the initial
state by `focus`, and `MCProject` does the same to `Workspace`, `Supply` and `Capability`: a run
is the union of the modules' state spaces, not the product. Nothing is lost by that, since each
property is of one module: `EachOnItsOwn` (in each of the three proof modules) proves that a
behaviour of the whole is one of each part.
`MCSharing` puts `LockFiles` and `Fleet` side by side in the same way, for their liveness;
fairness there is that of the part under `focus`.

### 2.1 ProjectCycle

`pc[p]` is where a process is in `run_cycle`: recovery, lock, lease, the body and the
finally blocks. `mem[p]` is the `Scheduler.state` it loaded, `disk` the file. `rec[p]` and
`child[p]` are its latest process record and the model CLI it supervises; `snap[p]` and
`target[p]` are the records it listed and the one it reconciles. `lock`, `lease`,
`lockStale` and `leaseLate` are the two files and the two facts about time that the code
looks at; `status`, `claims` and `merges` the backlog, the ownership file and the branch.
`paused` and `sawPause` are history. A cycle makes at most `MaxCalls` model calls after the
claim; the bound stands for the loops of `TaskBuild`, which end (`BuildEnds`).

Actions are named for the code's steps: `StartCycle`, `ReconcileRecord`, `ReleaseStaleLease`,
`ReleaseStaleLock`, `ResetStaleTask`, `ReleaseStaleClaim`, `TryLock`, `TryLease`, `SelfHeal`,
`SelectTask`, `MarkInProgress`, `StartCall`, `CloseRecord`, `Claim`, `Integrate` (which with
`merge_refused` reports a success although git has merged nothing), `CleanupWorktree`, `MarkDone`,
`StartCooling`, `ReleaseLease`, `ReleaseLock`; `Crash`, `Raise`, `LockAges` and `LeaseExpires` are
the environment; `Pause`, `Resume` and `RecoverCommand` the operator. A run_id is identified with
its process, and a restarted process is a new one.

### 2.2 LockFiles

Each action is one system call of `ProjectLock.acquire` and `release`, or one read or write
of `lease.json`: the file's age is looked at in one step (`Stat`) and the file removed by
name in the next (`Break`). `file` is who created the lock file that is there.

### 2.3 CallChain

`phase` is where `invoke_backend` is for the backend `chain[pos]`: at the breaker (`gate`),
at the limits the operator set, in the call, at the answer, in the schema repair. `board` is
the breaker of the cycle's process, `disk` what is saved; the operator's commands load,
change and save the latter. Error kinds are grouped by what the code does with them. `barred`,
`shut`, `failed` and `verified` are history, kept from what backends and the operator said and
not from the breaker, so that the properties compare the two.

### 2.4 TaskBuild

The content of a worktree is a member of `Tree`, and sets of contents say what the deterministic
tests make of it: allowed paths, limit on lines, sensitive, secret. `staged` is the index a diff
is taken of; `Litter[t]` is what the checks may leave when they run on `t`, which `commit_all`
stages and the merge takes up. Every answer of the coder, the checks, QA and the security reviewer
is a choice. The counters `det`, `rounds`, `calls` and the sets `handoff`, `failedBackends` and
`seen` are those of the loop. `checked` and `reviewed` record which content passed; what is merged
is one of these, or what the checks made of it, and the properties say so. A candidate's build is
one pass of the same actions in its own worktree, its verdict a survivor's `qa` and `rank`.

### 2.5 Fleet

A plan walks the projects in `fairness_key` order. `view[t]` is what a tick read of
`slots.json` at the beginning of `acquire` or `release` and writes back at its end. An
allocation names its tick, its backend, and whether it has expired. `ready` are the projects
`classify_project` calls queued and `decide_start` finds capacity for, on a backend of
`Chain[p]`; a project whose cycle runs holds its lease and is not ready. A timestamp is a
rank, since only its order is used; stamps of one plan may be equal (they have a resolution of
a second). A dry plan of the dashboard changes nothing and has no action; the docker and
test-job pools have no claimant in the code.

### 2.6 Supervisor

The unit of time is the poll interval, within which a process that runs does what is due
(`Tick` is guarded by `Due`). `owner` is where `run_supervised` is; `child` and `kin` are the
backend's process and one it has started, which may outlive it and hold its pipes; `pid` is
whose the child's number is. `record` is the file, `rescue` the recovery of another process,
which looks at deadline and identity, waits, and kills. The owner measures with a monotonic
clock, the record's deadline is a time of day, and a suspended machine tells the two apart.
`hit` is history: whom recovery has signalled.

### 2.7 Maintenance, ApiCall

`pc[t]` is where a tick is in `run_tick`. trust.tsv, the baseline and the disagreement counts are
each one variable, loaded into the tick (`rows`) and written whole; the queue is a function from
file names to items, since names can collide. `Heads` are what people commit: each worktree has a
HEAD of its own, `base[t]` are the checks that fail on it, and a tick that finds no baseline
(`FindBaseline`) writes one later (`RecordBaseline`), over that of another one. `excused` is what
failed where a baseline was recorded; `hist` and `overlapped` are history like it. In `ApiCall`,
`phase` is where `invoke_model` is for the role `role[c]` of caller `c`; `seen` are the roles it
has walked, `runCost` and `spent` the counters of the run and of the day.

### 2.8 Registry, Service, Dashboard

In `Registry` a command is its action and arguments, `view` what the client loaded, and `expected`
what the successful commands make of an empty file; a client that finds the lock old (`FindOld`)
removes, in its next step, whatever file is there (`BreakLock`). In `Service`, `at[c]` is where a
command is, `state` is service.json, `proc` and `listens` the dashboards and the port each has;
`abandoned` are those a start gave up. In `Dashboard`, `stage[o]` is where an operation is in its
thread, `ring` the bus's buffer, `inFlight` events with a number that have not been delivered,
`inbox` the queue of the browser's connection and `last` the id it will send on reconnecting.

### 2.9 TaskContract, SelfHeal

A path is the sequence of its names, a pattern a directory with or without what is below. The
constants give the outputs a backlog may require and the orders a conductor may issue; the
contract, the divergence and contradiction tests, the creation of files and directories and
the structural gate are operators over them, `tree` the worktree and `base` the branch.

A blocked task's reason is text that several stages match against patterns; in `SelfHeal` it is
the set of causes it names, and whether it is wrapped as that of a parallel attempt. `heal[p]`
is the stage a process is in and the tasks it has left; tasks and blockers are written by
separate actions, because they are separate files. `log` are the cycles so far, from which the
failure streak is reconstructed; a cycle that ends saves the streak in one step (`CoolDown`) and logs
itself in another (`Log`), and `unlogged` remembers a success whose process died in between.

### 2.10 Worktrees

`TaskBuild` is about one cycle and what it looks at; `Worktrees` about many cycles and what git
does. A content gives each file a version, and each write is a new one. `branch[n]` and
`tree[n]` are the branch and the worktree of a candidate, a task's own or its second one; they
outlive the cycle, and `Begin` takes them up again as `create_task_worktree` and the
revalidation do. `index[n]` is what `git add -A` last staged, which is what the reviewers and
the scanner see, while `Commit` stages once more. A branch knows its merge base; a merge is the
three-way merge of whole files, coarser than git's, which joins changes of separate lines
of a file. `scanned`, `landed` and `committed` are history. Diffs are taken whole: `diff_text` cuts
them at 60,000 characters (`core/gitops.py`:86-90), which the limit on changed lines keeps
most orders away from.

### 2.11 Capability, Skills, Mcp

`Capability` holds one project's plan and graph; `view[p]` is a graph a process has loaded and
will save. `Skills` has one variable per file or directory (`catalog`, `registry`, `quarantine`,
`installed`, `backup`), and the content of a skill is the revision it came from. `Mcp` has
mcp.json as a function of names, so that two projects meet on one; `job[p]` is what is left of a
resolution that configures a server; a template asks for no login, for a key of the environment
(such a server is added and enabled, as far as the resolver is concerned), or for OAuth.
`approved`, `refused`, `owned`, `vetted`, `found` are history.

### 2.12 Context, Cache

An item carries what the broker sorts and tests it by. `Context` runs deduplication, admission
of mandatory and of optional items and rendering as steps of one assembly; `budget` is the
model's window less the reserve. An item that is cut keeps up to three characters for each token
allowed and gets a note of `Marker` characters; `Estimate` turns them back into tokens by
`Factor`, the configured safety_multiplier in percent. `CutLeast` and `CutMost` are the bounds of
what that comes to. `Cache` follows one caller through hash, lookup, read, write of
the temporary file and replacement.

### 2.13 Routing, Cooling, Completion

`Routing` has the capacity ledger as its calls by hour (`used`), the board of breakers, and a
cycle of three roles; `Starts` is `decide_start`, `Ordered` is `capability_chain`. `Cooling` has one
project and one backend on one clock. In `Completion`, `written` counts the files of
`project_start` that are there, `sched` is the scheduler's file, `cycle` and `audits` hold the copy
each process loaded; `proven` are capabilities with evidence.

## 3. Environment

Most modules have a constant `Env`: the departures from normal operation an instance allows.
A run's configuration names them, so a result always says under which departures it
holds.

| module | member | meaning |
| --- | --- | --- |
| `ProjectCycle` | `crash` | a process dies in a supervised model call for its task |
| | `untracked_crash` | it dies anywhere else |
| | `exception` | a step under the lock raises |
| | `record_lag` | other processes run between a CLI's exit and the owner's last write of its record |
| | `overrun` | a cycle outlives the lock's stale_seconds or the lease's TTL |
| | `slow_start` | others start, or hours pass, between a process's listing of records and its lease |
| | `recover`, `live_recover` | `project recover` while nothing runs, or at any time |
| | `pause`, `pause_race` | `project-pause` while nothing runs, or at any time |
| | `candidate_wins` | a candidate other than the first wins |
| | `merge_refused` | `git merge` fails without leaving unmerged paths, which counts as a success |
| `LockFiles` | `crash`, `overrun`, `breakers` | deaths; a live process outlasts its files; two find a lock stale at once |
| `CallChain` | `repair_denied`, `operator_race` | a schema repair is refused, denied or limited; commands while a cycle runs |
| `Fleet` | `crash`, `overrun`, `race` | a tick dies; a cycle outlives its slots; two processes inside `acquire` or `release` |
| `Supervisor` | `stuck` | the backend's process survives a forced kill |
| | `reuse`, `reuse_in_grace` | its number is given to another process; also while recovery waits |
| | `suspend` | the machine sleeps: the time of day passes and the monotonic clock does not |
| | `no_token` | no start time of a live process can be had (ps missing or slow) |
| `Maintenance` | `race` | two ticks between looking for a free queue name and writing it |
| `ApiCall` | `repair_denied` | a schema repair is refused |
| `Registry` | `crash`, `overrun`, `breakers` | a client dies with the lock; it outlives it; two find it old at once |
| | `revive` | an archived project is initialised again |
| `Service` | `together` | commands at the same time |
| `Dashboard` | `reorder`, `overflow` | two publishers past the lock at once; more events than a queue holds |
| | `same_page` | a page outlives a restart of the server |
| `Worktrees` | `crash` | a cycle dies between two git commands, or in the middle of a merge |
| | `checks_write` | the deterministic checks write files into the worktree |
| | `merge_refused` | `git merge` fails without a conflict: no identity, or a hook |
| `SelfHeal` | `crash`, `race` | death between two files; `project recover` beside a cycle |
| `Capability` | `race` | operations at the same time |
| `Skills` | `crash`, `race` | death between two files; an acquisition of a cycle beside a command |
| `Mcp` | `crash`, `race` | death between two writes; a command during a resolution |
| `Cache` | `parallel`, `edit_during` | callers at the same time; a policy file is edited during a call |
| `Completion` | `early_death` | `project_start` dies before the backlog is written |
| | `late_death` | it dies after the backlog and before the criteria |
| | `start_overlaps` | cycles begin while it is still writing |
| | `by_hand` | the dashboard's review runs an audit without the cycle's lock |
| | `contract_error` | building the completion contract raises, as from a damaged capability graph |

`TaskBuild`, `TaskContract`, `Context`, `Routing` and `Cooling` have none: failures of calls and
checks, worktrees left by earlier attempts, what checks leave behind (`Litter`), multipliers that
make a cut too long, limits and outages are part of every run.

## 4. Runs

### 4.1 Runs that pass

| run | instance | properties | what it shows |
| --- | --- | --- | --- |
| `core` | 3 processes, 2 dependent tasks, 1 call; crash, recover, pause | `TypeOK` `WorkIsOwned` `MergedOnce` `DoneIsSettled` `PauseRespected` `DoneIsFinal` `MeetsContract` | with deaths in model calls and the operator between cycles, tasks are owned while they are worked on, merged once and in order; a pause holds; the contract is implemented |
| `exclusion` | 2 processes, 1 task; deaths and exceptions anywhere, slow start-ups, live recover, other winners | `OneCycle` | none of these lets two cycles run at once |
| `liveness` | 2 processes, 1 task; crash, record lag, pause | `NoStuckTask` `NoStuckLock` `DoneIsMerged` | what a dead cycle held comes back; even with two cycles at once "done" means merged, where git refuses no merge unnoticed |
| `sharing` | 4 processes of a project, crash; 3 projects, ticks one after the other; crash, overrun | `KeepsRunning` `EachGetsItsTurn` | whoever died where, processes get in again and again; each project that stays eligible gets its turn, unless ticks go on dying while they plan |
| `calls` | 2 backends, chains of length 2 and 1; operator race | `NeverRoutedAround` `ShutIsShut` `CallEnds` | refusals end a call, shut backends are left alone |
| `build` | 2 backends, 2 candidates, 2 attempts, 1 round, 6 contents | `TypeOK` `MergedIsChecked` `MergedIsApproved` `BestIsMerged` `CallsBounded` `BuildEnds` | what is merged passed everything, up to what the checks wrote afterwards; the loop ends |
| `platform` | see `MCPlatform`; crash, stuck, reuse | the eight below | the parts around the build cycles, in turn |
| `project` | see `MCProject`; crash, early_death, by_hand, parallel | the ten below | what a project's cycles work with, in turn |

`platform` checks, each with the types of its modules:

* `AutoIsEarned` (`Maintenance`): no tick completes work on its own unless the skill, counting
  every recorded attempt, has 20 runs and 95 percent passed, is not sensitive, and the
  verifier passed this content; for ticks one after the other.
* `HandedOver`: however ticks overlap, a run that needs a human has its item in the queue, with
  the worktree it points to; no other run leaves a worktree.
* `NewFailureFails`: a mandatory check that fails on what the gate lets pass failed where a baseline
  was recorded, whenever and by whichever tick, or comes after such a one under fail_fast. That
  it failed on the HEAD of the worktree, as the comment of the gate has it, is not so
  (`AddedFailureFails`, section 4.3).
* `SpendBounded` (`ApiCall`): retries, repairs and fallbacks of concurrent runs overshoot a
  limit by one answer each at most, and nothing goes around a refusal.
* `RegistrySound` (`Registry`): no two live projects have one root, and the file is what the
  successful commands make of an empty one, although any client may die with the lock and a
  waiting one reads its age before it removes the file.
* `ConsoleSound` (`Service`, `Dashboard`): a dashboard that lives is known or was given up for
  dead; one operation of a group at a time; a browser that reconnects misses nothing the
  ring still holds and receives nothing twice.
* `ProcessesEnded` (`Supervisor`): the owner returns in time whatever holds the pipes; what
  is killed is killed with what it started; recovery touches no other process, none whose
  owner will end it, and settles only what does not run.
* `FleetSound` (`Fleet`): ticks that overlap and die stay within the
  pools of cycles, models and heavy backends, and start no project twice.

`project` checks:

* `ContractKept` (`TaskContract`, `Worktrees`): what is merged is inside the last work order,
  holds no credential and has every required file, whatever earlier cycles left in the worktree;
  no call is spent on an order that cannot be fulfilled. All that reaches `agentic/project` was in
  a diff that security review and secret scan have seen, and what a task has committed is merged
  or still on its branch, through conflicts, ties, deaths between git commands and worktrees that
  later cycles take up (`MergedIsScanned`, `CommittedIsKept`).
* `HealingSound` (`SelfHeal`): a task is blocked exactly while an open blocker says why, and the
  reconstructed streak keeps each genuine failure, although processes die between any two files,
  and between the counting of a cycle's outcome and its line in the log.
* `ReopenedOnSignature`: recovery completes nothing, and reopens only a task whose reason has the
  signature of a stage. For the aggregate of a parallel attempt the stage of that name asks that
  every cause is the platform's; the stages before it ask for one (`mixed_reopened` below).
* `CapabilitiesSound` (`Capability`): a plan is closed and free of conflicts, satisfied means
  proven and what was proven is kept.
* `SourcesVetted` (`Skills`, `Mcp`): nothing unvetted is listed, no version is lost to an
  interrupted installation; a server is enabled only when trusted, serves its project only, and a
  human is asked once.
* `PromptsSound` (`Context`, `Cache`): the budget holds, and each category's allocation but for
  what one cut may exceed it by (the run has a multiplier of 1.5); mandatory items are there
  unabridged, each item is accounted for; the policy text is that of the files, and nothing
  sensitive is stored.
* `RoutingSound` (`Routing`, `Cooling`): a limit is passed by the call that reaches it only; a
  cycle that starts has room up to the end of its first review; none reaches past the operating
  window; a backend is not called before the time it stated.
* `CompletionEarned` (`Completion`): complete means each requirement verified, each milestone done
  and nobody waiting, where audits can build the contract they look at.
* `OneInside`, `IsMutex` (`LockFiles`): three processes that die anywhere are in the project one
  at a time, and the two files implement `Mutex` step by step.

### 4.2 Runs that show a disagreement of the code with what is written about it

| run | departure | property | what happens |
| --- | --- | --- | --- |
| `repair_refused` | repair_denied | `NeverRoutedAround` | a refusal during the schema repair is followed by the next backend, against `core/backends.py`:11-12 |
| `waits_forever` | none | `WorkResumes` | `decide_start` takes a breaker that is half-open for unavailable and waits until a time already past; the health check that would close it runs only inside `invoke_backend`, which a deferred cycle never reaches. A project whose whole coder chain was limited once is never worked on again, against README.md:434-437 and `core/breaker.py`:71-72 |
| `merge_lost` | merge_refused | `CommittedIsKept` | `integrate_task` does not look at the exit code of `git merge` (`core/taskspace.py`:183), only for unmerged paths. The commit of the task is given an identity and skips hooks, the merge is not: on a machine without an identity git refuses the merge commit, with a hook it may. The cycle then deletes worktree and branch and marks the task done; its work is on no branch, against `core/taskspace.py`:20-21 |
| `mixed_reopened` | none | `MixedStaysBlocked` | the contract stage finds one candidate's known defect in the text of the whole aggregate and reopens the task, against `core/parallel_recovery.py`:261-263 and tests/test_parallel_recovery.py:250-252 |

### 4.3 Other known counterexamples

These are found by the same modules when a departure is added to a configuration or a
property replaced; they are kept here and not as runs. The first table is about departures
from normal operation.

| configuration | change | property that fails | why |
| --- | --- | --- | --- |
| `exclusion` | Env with `record_lag` | `OneCycle` | `recover_stale_owned_processes` compares the *child's* identity (`core/supervisor.py`:649). Between the CLI's exit and the owner's last write of the record, a second process takes the record for stale and releases lock, lease and claim of a cycle that is alive, against `core/taskspace.py`:24-25 |
| `core` | Env with `untracked_crash` and `recover` | `MergedOnce` | a process dies between the merge and the backlog update (`core/project.py`:1218); `project recover` puts the task back (`core/recovery.py`:50-63), and it is built and merged again, against README.md:389-392 |
| `core` | Env with `overrun` | `OneCycle` | the lease is never renewed and the lock is stale after 7200 s |
| `core` | Env with `live_recover` | `WorkIsOwned` | `project recover` resets a task that is in_progress and not claimed yet |
| `core` | Env with `pause_race` | `PauseRespected` | a cycle saves the state it loaded before the pause |
| `core` | Env with `candidate_wins` | `DoneIsSettled` | the claim is released under the winner's id, and the task's stays |
| `core` | Env with `slow_start` | `DoneIsFinal` | recovery resets the task of a listed record after another process has finished it |
| `core` | Env with `merge_refused` | `MeetsContract` | a merge that git refused is a success to `integrate_task`, and the task is done |
| `liveness` | Env with `merge_refused` | `DoneIsMerged` | the same: done, and not merged (run `merge_lost` shows what becomes of the work) |
| `liveness` | Env with `untracked_crash` | `NoStuckTask` | no record names the task, and start-up recovery leaves it in_progress |
| `project` | Env of `LockFiles` with `breakers` | `OneInside` | two processes find the same lock stale; the second removes the fresh lock of the first (`core/projstate.py`:105), and both get in, against `core/taskspace.py`:245-246 |
| `calls` | Env with `repair_denied` | `ShutIsShut` | the breaker is not told of what a repair ended with |
| `platform` | Env with `race` | `FleetSound` | `acquire` locks threads, not processes: the later write drops the earlier allocation |
| `platform` | Env with `overrun` | `FleetSound` | an expired allocation is dropped while its cycle runs, and `release` then drops that of whoever came next |
| `sharing` | two ticks | `EachGetsItsTurn` | a tick that overlaps the other ones may always come too late for the same project |
| `platform` | `MaxRuns` beyond a thousand | `AutoIsEarned` | the stored pass rate is rounded (section 5, `FewRuns`); found by the proof |
| `platform` | Env with `race` | `HandedOver` | two ticks of one second and skill choose the same free file name, and the later item replaces the earlier one |
| `platform` | Env with `repair_denied` | `SpendBounded` | a refusal of the repair is followed by the fallback role |
| `platform` | Env with `revive`, `overrun` or `breakers` | `RegistrySound` | an archived project comes back under a root registered since; a slow client saves over a later update; a waiting client removes the fresh lock of another one (`core/registry.py`:339-342), and two work on the file |
| `platform` | Env with `together` | `ConsoleSound` | two starts leave a dashboard no command finds again |
| `platform` | Env with `reorder`, `overflow` or `same_page` | `ConsoleSound` | events that overtake one another, or do not fit a queue, are never asked for again; a page that outlives the server asks from an id of the old one |
| `platform` | Env with `reuse_in_grace` | `ProcessesEnded` | the identity is not looked at again before the forced kill |
| `platform` | Env with `suspend` | `ProcessesEnded` | the record's deadline passes while the machine sleeps, and recovery ends a process whose owner lives |
| `platform` | Env with `no_token` | `ProcessesEnded` | a process whose start time cannot be had counts as gone |
| `project` | Env with `race` | `HealingSound`, `CapabilitiesSound` | `project recover` beside a cycle saves an old document; two processes save the graphs they loaded |
| `project` | Env with `checks_write` | `ContractKept` | `commit_all` stages once more (`core/gitops.py`:94), so that what the checks wrote is committed and merged though no reviewer or scanner has seen it |
| `project` | Env with `edit_during` | `PromptsSound` | files edited between hash and read are stored under the old hashes |
| `project` | Env with `late_death` or `start_overlaps` | `CompletionEarned` | a project without its criteria file has nothing left to verify |
| `project` | Env with `contract_error` | `CompletionEarned` | a contract that cannot be built is replaced by an empty one, which counts as complete (`core/project.py`:1326-1350; its docstring says so) |

The second is about properties that the modules state, next to those the runs check, because
a document, a comment or a test says so, and that fail in the same instance (add the
property in the module's `MC*`; those marked * need the member of Env that is named).

| module | property | says | what happens |
| --- | --- | --- | --- |
| `CallChain` | `VerifiedStays` | - | the cycle's process saves its old board over a verification |
| `TaskBuild` | `LimitReported` | - | an exhausted chain reports the error of its last backend, and the provider's wait is lost |
| `TaskBuild` | `OneCorrectiveRound` | - | a contradicted claim is retried until the repair attempts are used up |
| | `SecretsBlock` | docs/security-model.md:16-17 | the checks run after the content was staged; what they write is staged by `commit_all` (`core/gitops.py`:93-97) and merged, while the secret scan read the earlier diff |
| `Maintenance` | `AddedFailureFails` | `core/gate.py`:3-4 | the baseline is recorded once: what HEAD has mended since may be broken again, and with fail_fast a new failure behind a tolerated one is not seen |
| `Supervisor` | `TreeStopped` | `core/supervisor.py`:30-32 | a child that ends on the first signal leaves its descendants running: only the child is waited for |
| | `OrphanIsKnown` | - | an owner that dies between starting a process and recording it leaves one no recovery finds |
| `SelfHeal` | `EveryDecisionAsked` | `core/decision_policy.py`:214-215 | all decisions of `project_start` have one code, and `add_blocker` records only the first (`core/projstate.py`:252-255) |
| `TaskContract` | `FeasibleIsCreatable` | `core/bootstrap_gate.py`:329-331 | the preflight accepts an output as soon as its folder may be created; the path policy then refuses the file itself |
| | `MergedHasOutputs` | - | an empty directory passes the gate, and git does not commit it |
| `Worktrees` | `MergedInScope` | - | a commit that was not merged, because of a conflict or a death, stays on the branch, and the next cycle checks only what is on top of it: what an earlier, wider order allowed is merged under a narrower one (* crash; two orders) |
| | `MergedIsChecked` | `core/taskspace.py`:16-17 | when the project has moved on since the branch was made, what was checked is not what the project is after the merge, and nobody checks that |
| | `TargetIsClean` | - | nothing resets the project's worktree after a death in the middle of a merge; every later integration is refused (* crash) |
| `Capability` | `VerifiedIsProven` | `core/completion.py`:11-14 | a capability waived for an alternative that was merely found needs no evidence of either |
| | `ConditionsHold` | taxonomy.yaml:16-17 | conditions are looked at before the closure adds the capabilities they name |
| | `RejectedForSelected` | `core/capability/requirements.py` | the winner of one conflict may lose the next one, and what it beat stays rejected |
| `Skills` | `RejectedStays` | `core/skillacquire.py`:28 | quarantining a rejected candidate again makes it pending |
| | `PinnedIsContent` | `core/skillmarket.py`:165 | the mirror may have moved on between discovery and quarantine |
| | `Reinstallable` | - | a death between copying and listing leaves a directory that refuses the next copy (* crash) |
| `Mcp` | `NeverRaises` | `core/capability/resolver.py`:306-307 | a name another project holds makes `add` raise out of the resolution |
| | `OneActionPerServer` | `core/mcpresolve.py`:12-13 | a server that needs two things is asked for twice |
| `Context` | `CapsBound` | `core/context/broker.py`:274 | three characters a token are kept whatever the multiplier: at 1.5 a cut item exceeds the allocation of its category |
| | `FailsForContent` | `core/context/broker.py`:348 | titles and fences of mandatory items count only when rendering, and then the build fails |
| | `DuplicatesRepresented` | - | an item is dropped as the duplicate of one that is not admitted, or evicted, afterwards |
| `Cache` | `NeverRaises` | `core/context/compose.py`:79 | two callers share the name of a temporary file, and the loser's replace fails (* parallel) |
| `Routing` | `AuthorReviewsLast` | docs/model-routing.md:23-24 | what goes last is the head of the coder's chain, not the backend that wrote the code after a fallback |
| | `HumanIsNeeded` | `core/capacity.py`:269 | backends that are only over a rolling limit count as unusable, without a time |
| `Completion` | `AuditIsRepeated` | `core/fleet.py`:280 | an audit that failed over an open decision is "failed" for the fleet for good |
| | `RunningIsRun`, `CompleteStays` | - | an audit by hand saves an old scheduler state (* by_hand) |
| | `BlockersStay` | - | `project_start` writes its blockers over those of a cycle (* start_overlaps) |

Further observations made while modelling: the call limits of a user are not part of
`decide_start`'s envelope; the estimate's record of a cycle counts the coder's tokens only; a
cycle that fails records none; the coder's chain is built without `memory_dir`, so that a
verified CLI excluded by default is never a coder; `reset_at` of a CLI is parsed without its
time zone (`providers/cli_base.py`:30); losing candidates are "preserved as evidence under
their own branch" (docs/phase1-5-final-report.md) only as staged files of a worktree, since
nobody commits them; a requirement that names a task which is not in the
backlog, and a milestone without tasks, fail the audit for ever; `service.py` speaks of a
single-instance lock that it does not have.

### 4.4 Bounds, and why they are enough

* Processes: two cycles and one that dies or recovers are what the interleavings need; `core` has
  the three, as has `LockFiles` in `project`; `sharing` has a fourth that waits. The proofs have
  no bound.
* Tasks: one task that depends on another makes order, selection and overlapping claims matter.
  `exclusion` and `liveness` are about files shared by all tasks and have one.
* `MaxCalls = 1` in `core`: a second call repeats the first one's steps on the same record.
* `merges[t]` is capped at two, the first value that breaks `MergedOnce`.
* Backends: a chain of two has a first, a last and a next; the second chain makes two roles share
  a backend.
* Outages in a row are capped at three, where the breaker opens.
* `build`: two repairs let a repeated failure be recognised, one round is the default path and its
  end; the contents are one for each verdict of the deterministic tests; two ranks give better,
  worse and equal.
* `platform`: two of each kind of process, the least that interferes. `Fleet`: three projects for
  two slots, so that one waits; one backend is contended by two projects, one project may go to
  either, and one pool is that of the local models. `Maintenance`: a skill one run short of its
  tier and a sensitive one, two runs in all, file names of two seconds (`MaxClock`), two HEADs, in
  one of which a check fails. `ApiCall`: two roles that fall back on each other, two attempts,
  limits of three for the day and one for a run, two series of calls. `Registry`: four commands on
  two ids and two roots register, archive, move and register again. `Service`: three dashboards on
  two ports. `Dashboard`: four events, a ring of two that forgets, a queue of three. `Supervisor`:
  deadlines of one and two, `MaxTime = 9` lies past every bound of the owner, of the record and of
  the recovery that begins when the record's has passed.
* `project`: `Worktrees` has two tasks, one of them risky, two files of which the order allows
  one, two writes and three cycles: enough for work that is left behind, out of scope, in conflict
  or committed twice. `TaskContract` has one output of each kind and orders that grant everything,
  too little, just enough and with exceptions; `SelfHeal` two dependent tasks, two cycles, and a
  reason for each family of patterns, wrapped, mixed or plain; `Capability` a chain of three
  dependencies with a conflict, five operations; `Skills` three revisions of a skill, clean,
  hooked and with scripts, six operations; `Mcp` two projects, two templates, five operations;
  `Context` ten items of eight categories under four windows, with a multiplier of 1.5; `Cache`
  two callers and two files; `Routing` two backends, three roles, four calls over two hours, a
  repair after QA; `Completion` two milestones and a requirement that only a capability can
  verify; `Cooling` a day of six units and `MaxTime = 7`, so that windows open, close and open
  again.

### 4.5 Fairness, and what justifies it

* `ProjectCycle`: each live process takes its next step (it is a program that runs); `StartCycle`
  is fair because a timer invokes `project-run` again and again (`core/scheduler.py` docstring); a
  child exits because `run_supervised` enforces a timeout (`ReturnsInTime` of `Supervisor`); locks
  and leases of dead processes age. Nothing is assumed of the operator, of crashes or of model
  answers.
* `LockFiles` in `sharing`: the same. `CallChain`: a supervised call ends. `TaskBuild`: model
  calls and checks have timeouts; writes of a failing CLI coder and the end of a wait are not
  fair.
* `Fleet` in `sharing`: a tick goes on and each cycle ends by its timeouts; the timer
  (docs/fleet.md) starts ticks again. `Step` is strongly fair because `Load` waits in the
  instances without `race`, where another process may be inside `slots.json`.
* `Routing` (`FairSpec`, used by `waits_forever`): the timer invokes cycles again and again, so
  `Decide` is fair; a call of a cycle ends and the next one is made; time passes. With all this
  the work still does not resume.
* `MCPlatform` and `MCProject` check safety only and state no fairness. `Supervisor` needs none:
  its clock does not advance past what is due, so "in time" is a safety property.

Deadlock is checked in every passing run but `build`, `platform` and `project`: a build ends,
operations and time are bounded in the other two. Of the runs that show a violation
`repair_refused` checks it.

## 5. Proofs

| module | theorem | statement | departures it excludes |
| --- | --- | --- | --- |
| `ProjectCycle_proofs` | `TypeCorrect` | `Spec => []TypeOK` | none |
| | `Exclusion` | `Spec => []OneCycle` | record_lag, overrun |
| | `NothingLost` | `Spec => []DoneIsMerged` | merge_refused (`MergesTell`) |
| | `WorkStaysOwned` | `Spec => []WorkIsOwned` | `Orderly` |
| | `DoneStaysDone` | `Spec => DoneIsFinal` | `Orderly` |
| | `DoneStaysSettled` | `Spec => []DoneIsSettled` | `Orderly`, candidate_wins |
| | `WorkMergedOnce` | `Spec => []MergedOnce` | `Orderly`, `NoRedo` |
| | `PauseIsRespected` | `Spec => []PauseRespected` | pause_race |
| | `CyclesMeetContract` | `Spec => MeetsContract` | `Orderly`, `NoRedo`, merge_refused |
| `CallChain_proofs` | `RefusalEndsTheCall` | `Spec => []NeverRoutedAround` | repair_denied |
| | `ShutStaysShut` | `Spec => []ShutIsShut` | repair_denied |
| | `VerificationLasts` | `Spec => []VerifiedStays` | operator_race |
| `TaskBuild_proofs` | `TypeCorrect` | `Spec => []TypeOK` | none |
| | `CallsAreBounded` | `Spec => []CallsBounded` | none |
| | `OnlyCheckedIsMerged` | `Spec => []MergedIsChecked` | none |
| | `OnlyApprovedIsMerged` | `Spec => []MergedIsApproved` | none |
| | `NoSecretIsMerged` | `Spec => []SecretsBlock` | checks that write secrets |
| | `OnlyBestIsMerged` | `Spec => []BestIsMerged` | none |
| `Fleet_proofs` | `PlanIsComplete` | `Sorted` is a bijection in the order of `Before` | - |
| | `PoolsAreRespected`, `NoProjectRunsTwice` | `Spec => []PoolsRespected`, `[]NothingRunsTwice` | race, overrun |
| `Maintenance_proofs` | `RunsStayApart` | `Spec => []TypeOK`, each tick's worktree is its own | none |
| | `EveryRunIsHandedOver` | `Spec => []HandedOver` | race |
| | `GateCatchesNewFailures` | `Spec => []NewFailureFails` | none |
| | `AutonomyIsEarned` | `Spec /\ []FewRuns => AutoIsEarned` | none |
| `Platform_proofs` | `TrustIsEarned`, `MaintenanceIsSound`, `FleetIsSound` | the above, of the platform | as above |
| | `SpendingIsBounded` | `Spec => []SpendBounded` | repair_denied |
| | `RegistryStaysSound` | `Spec => []RegistrySound` | overrun, breakers, revive |
| | `ConsoleStaysSound` | `Spec => []ConsoleSound` | together, reorder, overflow, same_page |
| | `BackendsAreEnded` | `Spec => []ProcessesEnded` | suspend, no_token, reuse_in_grace |
| `Workspace_proofs` | `FileExclusion` | `WorkspaceSpec => []L!OneInside` | overrun, breakers (`Lockable`) |
| | `FilesAreMutex` | `WorkspaceSpec => L!IsMutex` | overrun, breakers |
| | `ContractIsKept` | `WorkspaceSpec => []ContractKept` | checks_write, merge_refused (`Committing`) |
| | `HealingIsSound` | `WorkspaceSpec => []HealingSound` | race (`Healable`) |
| | `ReopenedOnASignature` | `WorkspaceSpec => ReopenedOnSignature` | race |
| | `CompletionIsEarned` | `WorkspaceSpec => []CompletionEarned` | late_death, start_overlaps, contract_error (`Ordered`) |
| `Supply_proofs` | `SourcesAreVetted` | `SupplySpec => []SourcesVetted` | race (`Mirrored`, `Suggesting`) |
| | `PromptsAreSound` | `SupplySpec => []PromptsSound` | edit_during (`Filing`) |
| | `AllocationsAreKept` | `SupplySpec => []CapsBound` | multipliers above 4/3 (`CutsFit`) |
| | `RoutingIsSound` | `SupplySpec => []RoutingSound` | none |

They hold for any number of processes, tasks, backends, candidates, attempts, contents, ids,
roots, events and deadlines. What they assume are the conditions on the constants
(`CycleAssumption`, `LockAssumption`, `BuildAssumption` and the like, and the named
hypotheses below) and on `Env`. The latter cannot be dropped: sections 4.2 and 4.3
name the configurations that violate the properties without them.

* `Orderly` excludes record_lag, overrun, slow_start and live_recover, the four departures in
  which another process interferes with a cycle that lives. `NoRedo`: `project recover` is
  not used where a cycle may die, or raise, without a record of its task, for that command
  cannot know whether the work was merged.
* `FewRuns`: no skill has a thousand runs. trust.tsv keeps the pass rate with four decimals
  (`core/trust.py`:85) and the tier is computed from the rounded rate: 968 of 1,019 runs are less
  than 95 percent and are stored as 0.9500. The theorem found this; no instance that TLC can
  explore would have.
* `Configured`, `Registering`, `Serving`, `Showing`, `Timed`, `Sane`, `FleetConfigured`: amounts
  are natural numbers, a fallback role is a role, `None` is no id, root, record or event. They
  also name the departures excluded. `Showing` says besides that the ring is not longer than a
  queue, so that a replay fits; they have 400 and 1000 entries (`ui/bus.py`).
* `Lockable`, `Ordered`, `Contracted`, `Committing`, `Healable`, `Mirrored`, `Suggesting`, `Filing`,
  `Clocked`, `Priced`: types of the constants and the departures named above. `Ordered` says
  besides that each task is in the backlog's list, `Contracted` that the paths an output
  requires are among those modelled, `Filing` that there is some policy text, `Suggesting`
  that a capability suggests at least one server. `Clocked` has windows within a day and the
  shortest cooldown not above the longest.
* `Composed`: ids of a prompt's items are distinct; an item with the content of a mandatory one
  is mandatory itself, which `core/context/compose.py` provides by the fence or key it puts
  around each input; each optional category has an allocation. Without the second the
  deduplication could drop a mandatory item for a piece of code, which might be evicted.
* `Covered`: the estimate of a cycle with its safety factor of 1.35 covers one call of each role.
  No estimate from the past can promise that, so that part of `RoutingSound` says what a good
  one is worth; `LimitsKept` does not rest on it except by being in the same theorem.
* The instance of the run `project` satisfies all of these hypotheses.
* `SlackSuffices`: what the record's deadline adds to the bounds covers the wait for the
  readers and a poll. It adds 30 seconds, they take 4 and a fraction of one.

**Exclusion.** `OneCycle` is not inductive: the start-up recovery runs before the lock, with
records listed earlier. The strengthening has two parts. `RecordInv`: a listed record
whose owner lives still matches its child, and a record that is being reconciled belongs to
a dead process, so recovery never dismantles a live cycle. `LockInv`: the lock and the
lease name the process that is between taking and releasing them, a stale lock or an
expired lease belongs to a dead one, and what recovery removes is that of its dead target.
Each action preserves each part; most do so by a frame lemma (what it leaves alone).

**NothingLost** follows from where a task's status may become done, with the fact that a
cycle at `cleanup` or `mark` has merged its task; no lock is needed for it, which is why it
survives every departure but the one in which git has refused the merge and `integrate_task` says
that all is well (`MergesTell` excludes it, run `merge_lost` shows it).

**FileExclusion.** The file is that of the one process between `Create` and `Unlock`; an old
file belongs to a dead process; at most one process is about to remove a file, and the
file it is about to remove is still the stale one. **FilesAreMutex** maps the holder to the
process inside and shows that each step enters, leaves or stutters.

**CallsAreBounded.** A counter argument cannot be made on `calls` alone, since a handoff
continues a walk with the backends that are left. `CallInv` pays in advance: `Due` grants as
many calls as there are backends to the first walk and to each one that a repair or an
objection starts, `Open` is what the walk under way may still need (only `handoff`, once there
is one), calls made and open never exceed `Due`, and `Due` never exceeds the limits' `Total`.

**OnlyCheckedIsMerged, OnlyApprovedIsMerged, OnlyBestIsMerged, NoSecretIsMerged** share
`MergeInv`: before the decision nothing is merged; in each later phase the content that will be
merged is the one that was checked (and, in the coder loop, approved), or what the checks have
made of it; each survivor's worktree is what its checks left, and nothing writes to it after them;
the selected candidate is a best survivor, and the only best one unless the result is tied.

**WorkStaysOwned, DoneStaysDone, DoneStaysSettled** rest on what a start-up has listed being
still true when it acts on it. `OneStarts`, `ListOfStart` and `ListedIsOpen` say so: one process
starts at a time, and the records on its list are open and name the task that their owner left.
With them a task that recovery resets, or whose claim it releases, is the dead owner's and not
done; between claim and release the claim names the cycle that works on the task.

**WorkMergedOnce.** `MergedSettles`: a merged task is merged once, is in progress or done, and
whoever still has it as its job is past the merge; where `project recover` exists, somebody is.

**PauseIsRespected.** A process that has loaded the scheduler's file before the pause either
is gone or saves nothing that says otherwise.

**CyclesMeetContract** maps the tasks in work to the contract's and goes through the actions:
select, integrate, give up and settle are steps of `BuildContract`, all others stutter.

**ShutStaysShut.** Two boards make this hard: the cycle's copy and the file. The invariant says
of each backend that its answers forbid that the file's entry keeps calls away, and so does
the copy's unless the operator has changed the file since; and that each counts at least the
outages in a row.

**PoolsAreRespected.** With one process in slots.json at a time, whoever is inside has a view
equal to the file (`ViewTrue`); every running cycle's allocation is in the file (`Held`) and is
not expired (`NothingOld`); and the file fits every pool (`Within`). `NoProjectRunsTwice` adds
that an allocation names the tick that runs the project.

**EveryRunIsHandedOver, GateCatchesNewFailures, AutonomyIsEarned.** The first follows each run
from its worktree to the item that points to it, through the choice of a free name. The second needs
only that whatever the baseline tolerates has failed where one was recorded, which no tick takes
back, however HEAD moves; a check that was not run comes, under fail_fast, after one that failed
and was tolerated. The third keeps, for ticks one after the other, the row of a skill equal to its
history, and needs `Rate` to be monotone up to rounding.

**SpendingIsBounded.** A sum over concurrent callers is not inductive by itself: `MoneyInv`
bounds what is spent by the limit and one maximal answer for each caller that is *asking*, by
cardinality; a caller starts to ask only below the limit.

**RegistryStaysSound.** The lock's holder is the one client between taking and dropping it; an old
lock is a dead one's, and so is the one that the only breaker is about to remove; a loaded view
equals the file while the lock is held; the file equals `expected` except between a holder's save
and its return.

**BackendsAreEnded.** `WatchInv` bounds the clock by the phase the owner is in: each phase adds
its own bound to that of the phase before. `RescueInv` carries the other process: its copy of
the record is overdue only if the owner is gone, and the number it will kill is still the
child's, or nobody's.

**ConsoleStaysSound.** `ServiceInv`: the dashboard that lives is the one in service.json or
the one that the only command under way has just spawned. `EventInv`: the ring holds
consecutive numbers; queue and what is on its way are ascending and later than the last event
received; each event of the ring since the browser's first one was seen, or will come, or is
asked for on reconnecting.

**ContractIsKept.** `ContractInv`: what an earlier cycle left and what is handed to the merge is
within the order, and at the merge the gate has passed; the rest is about what an attempt leaves
in the tree. `GitInv`: all that a branch adds to its merge base was scanned, what it changes is a
version of its own and not the base's, and a worktree is its branch with further versions, so that
a merge can only bring scanned versions. What a branch has committed is landed or on it until the
merge; after that (`CycleInv`) it has landed, and only then worktree and branch go.

**HealingIsSound, ReopenedOnASignature.** The backlog and the list of blockers agree but for what
the one process that works holds: `Held(p)` are the task whose status it has written and whose
blocker it has not, and those it has reopened and whose blockers it will close. `LinkOf` says
that the rest of the stage finishes exactly these, `Speaks` that open blockers of a task say what
its status says; with that a stage that goes by a blocker's text goes by the task's. A death leaves
`torn`, from which the property makes no claim. `StreakOf` compares the saved streak with the
genuine failures of the log and, between the two writes, of the log with the event to come;
`unlogged` is the death between the two writes after a success, which leaves a streak of 0 and a
log that ends in failures. The number of genuine failures is a fold over the log, of which
`GenuineOfOneMore` gives the step; the existence of such folds is proved once
(`RecursionExists`), and cited by the counts and sums of both modules.

**CompletionIsEarned.** What an audit looks at is checked in two steps and saved in a third, while
others work. `AuditInv` holds since what counts as evidence does not go back: a requirement
verified stays so, a milestone done stays done, nothing asks a human when all is done
(`FactsStay`, `EarnedStays`). `StartInv` keeps audits from seeing a plan of which only some files
are written; without it, or where the contract cannot be built, nothing is left to verify.

**SourcesAreVetted.** `StockInv`: what is listed is what its directory holds and was approved or
harmless; what was installed is listed or kept for the rollback. `Underway` carries that through
the steps of an installation, at each of which the process may die. `GatewayInv` does the same to a
resolution: what it is about to enable is its own, and its template asks for nothing a human
must decide.

**PromptsAreSound, AllocationsAreKept.** `Admission`: whatever is in the package comes from an item
of the call with at most its tokens changed, nothing mandatory is missing, and every item is in the
package, waiting or omitted. `Allotted` is the bound that survives the cut: a category takes no
more than its allocation, or one of its items was cut to what was left and takes what
`CutMost` makes of it; as `CutMost` grows, that is preserved by whatever comes after. Under
`CutsFit` (multipliers up to 4/3, and a note that fits) the bound is the allocation itself, which
is the second theorem. For `Cache`, whatever is stored under a key is the text with that key, and
a caller's hashes and text are those of the files as far as it has come.

**RoutingIsSound.** `Ledger` and `BoardTypes` describe the ledger and the board, `LimitsKept` is
inductive once a call is known to start below its limits; `RoomLeft` pays for the calls of a cycle in
advance, from `Covered` and what `Starts` has compared. `WaitInv` bounds each cooldown and each
wait by what the configuration and the backend have said.

## 6. Only model-checked

Liveness (`NoStuckTask`, `NoStuckLock`, `KeepsRunning`, `CallEnds`, `BuildEnds`,
`EachGetsItsTurn`) needs fairness and ENABLED, which the prover does not handle.
`CapabilitiesSound` is the one safety property that is checked and not proved: the plan is a
closure computed over the registry's dependencies, and what the resolver does with it is checked
over the bounded inputs of the run. So are, within what is proved, the definitions that the
theorems take as they are: which texts a stage of the recovery recognises, the rates and ranks by
which a chain is ordered, the tests of a contract. What fails is in sections 4.2 and 4.3; no
theorem says anything of it beyond its hypotheses.

## 7. Not modelled

* In what is modelled: the knowledge, memory and evidence files a cycle writes; the
  temporary files of atomic writes, except in `Cache`; `renew` of the lease, which nothing
  calls; heartbeats and output limits of the supervisor; which commands the deterministic
  checks run; update_task as a read and a write of the whole backlog in `ProjectCycle`.
* Parts without a module, each with its reason under "components" in `PROJECT.json`: which
  model a backend uses (tables that are resolved before routing); execution engines,
  providers and detectors (external programs, whose results are choices of the models);
  the knowledge vault, code intelligence, inventory and the specification (documents for
  prompts); configuration, set-up, logging, notification, the command line and the front end.
* Memory (`core/memsvc.py`): an item is superseded or expires, but no decision of a cycle
  depends on one; what a prompt does with superseded items is in `Context`.
* `Mcp`: the JSON-RPC transport and the per-call tool policy. `Cache`: `invalidate_dependents`,
  whose dependency names nothing in production records. `Cooling`: breaker_wait_seconds of
  `cooldown_breakdown`, which nothing in production passes.
* Machines other than this one are processes.

## 8. Plan

1. `ProjectCycle`, `LockFiles`, `CallChain`, `TaskBuild`, `Fleet`, the parts that processes share
   most, with the proofs of section 5 - done.
2. `Supervisor`, `Maintenance`, `ApiCall`, `Registry`, `Service`, `Dashboard` around them, and
   `TaskContract`, `SelfHeal`, `Worktrees`, `Capability`, `Skills`, `Mcp`, `Context`, `Cache`,
   `Routing`, `Cooling`, `Completion` inside a project - done.
3. Proofs: ownership, single merge, pause and contract of `ProjectCycle`, `CallChain`, `Fleet`,
   everything `platform` checks, and everything `project` checks but `CapabilitiesSound` - done.
4. Composition: `Supervisor`'s records in the place of `ProjectCycle`'s, with time, to state when
   exactly a record lags; `Completion`'s files under `SelfHeal`.
