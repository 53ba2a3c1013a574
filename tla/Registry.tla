------------------------------ MODULE Registry ------------------------------
(***************************************************************************)
(* The central registry of projects (core/registry.py): commands of        *)
(* several processes that take registry.lock, load registry.json, change   *)
(* it and replace it.  The lock is a file created exclusively, removed by  *)
(* name on exit, and removed by whoever finds it older than its            *)
(* stale_seconds; a command that waits longer than its timeout gives up.   *)
(*                                                                         *)
(* A record is reduced to its root, its status and whether it is enabled.  *)
(***************************************************************************)
EXTENDS Naturals, FiniteSets, Functions

CONSTANTS
    Client,       \* processes that run a command
    Id,           \* project ids that may be assigned
    Root,         \* canonical roots
    Authorised,   \* those below registry.authorised_roots
    MaxCommands,
    None,
    Env           \* departures: "crash", "overrun" (a client outlives its lock), "breakers"
                  \* (two find the same lock old), "revive"

VARIABLES
    at,         \* where a client is: "idle", "wait", "breaking", "locked", "loaded"
    command,    \* what it was asked to do
    view,       \* the registry it loaded
    file,       \* registry.json: a function from some ids to records
    lock,       \* the client that created registry.lock, or None
    old,        \* the lock file is older than stale_seconds
    issued,
    expected    \* history: the registry as the commands that succeeded, in turn, make it

gvars == <<at, command, view, file, lock, old, issued, expected>>

Record == [root : Root, status : {"registered", "initialised", "archived"}, enabled : BOOLEAN]

Command ==
    [op : {"add", "relink"}, id : Id, root : Root]
        \cup [op : {"enable", "archive", "remove", "init"}, id : Id, root : {None}]

Init ==
    /\ at = [c \in Client |-> "idle"]
    /\ command = [c \in Client |-> None]
    /\ view = [c \in Client |-> None]
    /\ file = <<>>
    /\ lock = None
    /\ old = FALSE
    /\ issued = 0
    /\ expected = <<>>

(***************************************************************************)
(* What a command makes of a registry, or None when it raises.             *)
(***************************************************************************)
With(reg, i, record) == [j \in DOMAIN reg \cup {i} |-> IF j = i THEN record ELSE reg[j]]

\* Some other project that is not archived lives at this root.
Taken(reg, root, i) ==
    \E j \in DOMAIN reg \ {i} : reg[j].root = root /\ reg[j].status # "archived"

\* add: the id is fresh, the root authorised and not taken.
Added(reg, i, root) ==
    IF root \notin Authorised \/ Taken(reg, root, None) \/ i \in DOMAIN reg THEN None
    ELSE With(reg, i, [root |-> root, status |-> "registered", enabled |-> FALSE])

\* Mutant: whose root it is is not asked.
RelinkedAnywhere(reg, i, root) ==
    IF i \notin DOMAIN reg \/ root \notin Authorised THEN None
    ELSE With(reg, i, [reg[i] EXCEPT !.root = root])
Relinked(reg, i, root) ==
    IF i \notin DOMAIN reg \/ root \notin Authorised \/ Taken(reg, root, i) THEN None
    ELSE With(reg, i, [reg[i] EXCEPT !.root = root])

\* update, as enabling, archive and the end of project_init call it.  None of them looks
\* at the record's status; without "revive" an archived project is not initialised again.
Updated(reg, i, op) ==
    IF i \notin DOMAIN reg THEN None
    ELSE CASE op = "enable" -> With(reg, i, [reg[i] EXCEPT !.enabled = TRUE])
           [] op = "archive" -> With(reg, i, [reg[i] EXCEPT !.status = "archived",
                                                            !.enabled = FALSE])
           [] OTHER -> IF reg[i].status = "archived" /\ "revive" \notin Env THEN None
                       ELSE With(reg, i, [reg[i] EXCEPT !.status = "initialised"])

Removed(reg, i) == IF i \notin DOMAIN reg THEN None ELSE Restrict(reg, DOMAIN reg \ {i})

Outcome(reg, cmd) ==
    CASE cmd.op = "add" -> Added(reg, cmd.id, cmd.root)
      [] cmd.op = "relink" -> Relinked(reg, cmd.id, cmd.root)
      [] cmd.op = "remove" -> Removed(reg, cmd.id)
      [] OTHER -> Updated(reg, cmd.id, cmd.op)

-----------------------------------------------------------------------------
Goto(c, from, to) == at[c] = from /\ at' = [at EXCEPT ![c] = to]

Forget(c) ==
    /\ command' = [command EXCEPT ![c] = None]
    /\ view' = [view EXCEPT ![c] = None]

Issue(c, cmd) ==
    /\ Goto(c, "idle", "wait")
    /\ issued < MaxCommands
    /\ issued' = issued + 1
    /\ command' = [command EXCEPT ![c] = cmd]
    /\ UNCHANGED <<view, file, lock, old, expected>>

Lock(c) ==
    /\ Goto(c, "wait", "locked")
    /\ lock = None
    /\ lock' = c
    /\ old' = FALSE
    /\ UNCHANGED <<command, view, file, issued, expected>>

\* A waiting client finds the file older than stale_seconds, and removes what file is there
\* by then, if any.
FindOld(c) ==
    /\ Goto(c, "wait", "breaking")
    /\ "breakers" \in Env \/ \A d \in Client : at[d] # "breaking"
    /\ lock # None /\ old
    /\ UNCHANGED <<command, view, file, lock, old, issued, expected>>

BreakLock(c) ==
    /\ Goto(c, "breaking", "wait")
    /\ lock' = None
    /\ old' = FALSE
    /\ UNCHANGED <<command, view, file, issued, expected>>

GiveUp(c) ==
    /\ Goto(c, "wait", "idle")
    /\ lock # None
    /\ Forget(c)
    /\ UNCHANGED <<file, lock, old, issued, expected>>

Load(c) ==
    /\ Goto(c, "locked", "loaded")
    /\ view' = [view EXCEPT ![c] = file]
    /\ UNCHANGED <<command, file, lock, old, issued, expected>>

\* The registry is replaced, or the command raises; either way the lock file goes, whoever
\* has created it.
Save(c) ==
    /\ Goto(c, "loaded", "idle")
    /\ LET new == Outcome(view[c], command[c]) IN
       /\ file' = IF new = None THEN file ELSE new
       /\ expected' = IF new = None \/ Outcome(expected, command[c]) = None THEN expected
                      ELSE Outcome(expected, command[c])
    /\ lock' = None
    /\ old' = FALSE
    /\ Forget(c)
    /\ UNCHANGED issued

\* The process dies with what it holds; another one takes its place.
Crash(c) ==
    /\ "crash" \in Env
    /\ at[c] \in {"breaking", "locked", "loaded"}
    /\ at' = [at EXCEPT ![c] = "idle"]
    /\ Forget(c)
    /\ UNCHANGED <<file, lock, old, issued, expected>>

LockAges ==
    /\ lock # None /\ ~old
    /\ "overrun" \in Env \/ at[lock] \notin {"locked", "loaded"}
    /\ old' = TRUE
    /\ UNCHANGED <<at, command, view, file, lock, issued, expected>>

Next ==
    \/ \E c \in Client :
        \/ \E cmd \in Command : Issue(c, cmd)
        \/ Lock(c) \/ FindOld(c) \/ BreakLock(c) \/ GiveUp(c)
        \/ Load(c) \/ Save(c) \/ Crash(c)
    \/ LockAges

Spec == Init /\ [][Next]_gvars

-----------------------------------------------------------------------------
TypeOK ==
    /\ at \in [Client -> {"idle", "wait", "breaking", "locked", "loaded"}]
    /\ \A i \in DOMAIN file : i \in Id /\ file[i] \in Record
    /\ lock \in Client \cup {None}

\* registry.py: "duplicate canonical roots are rejected", whoever adds, moves, archives and
\* initialises what in which order.
RootsAreUnique ==
    \A i, j \in DOMAIN file :
        i # j /\ file[i].status # "archived" /\ file[j].status # "archived"
            => file[i].root # file[j].root

\* No update is lost: the file is what the commands that succeeded make of an empty one,
\* although each of them writes the whole file and any of them may die with the lock.
\* Holds while no client outlives its lock and no two break it at once (registry.py:339-342).
NoUpdateLost == file = expected
=============================================================================
