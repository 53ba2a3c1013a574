------------------------------ MODULE Service ------------------------------
(***************************************************************************)
(* The local service (core/service.py): start, stop and status commands    *)
(* that share service.json and no lock, and the detached dashboard         *)
(* processes they spawn.  A dashboard listens on the port it was given     *)
(* unless another one has it, in which case it exits; it answers the       *)
(* health check once it listens, and may hang or die.                      *)
(***************************************************************************)
EXTENDS Naturals, FiniteSets, FiniteSetsExt

CONSTANTS
    Command,    \* processes that run a command
    Ports,      \* ports pick_port may choose, in order from 1
    MaxPid,     \* dashboards spawned
    None,
    Env         \* departures: "together" (commands at the same time)

VARIABLES
    at,        \* where a command is: "idle", "look", "spawn", "wait", "write", "ask", "force"
    pid,       \* the dashboard a command has spawned or wants to stop
    port,      \* the port it chose
    state,     \* service.json: [pid, port] or None
    proc,      \* pid -> "none", "starting", "up", "hung", "dead"
    listens,   \* pid -> its port
    abandoned  \* history: dashboards given up for dead while they were alive

svars == <<at, pid, port, state, proc, listens, abandoned>>
Pid == 1..MaxPid

Init ==
    /\ at = [c \in Command |-> "idle"]
    /\ pid = [c \in Command |-> None]
    /\ port = [c \in Command |-> None]
    /\ state = None
    /\ proc = [p \in Pid |-> "none"]
    /\ listens = [p \in Pid |-> None]
    /\ abandoned = {}

Alive(p) == proc[p] \in {"starting", "up", "hung"}
Bound == {listens[p] : p \in {p \in Pid : proc[p] \in {"up", "hung"}}}

\* GET /health: some dashboard answers on this port.
Healthy(n) == \E p \in Pid : proc[p] = "up" /\ listens[p] = n

Goto(c, from, to) ==
    /\ at[c] = from
    /\ at' = [at EXCEPT ![c] = to]

Report(c, from) ==
    /\ Goto(c, from, "idle")
    /\ pid' = [pid EXCEPT ![c] = None]
    /\ port' = [port EXCEPT ![c] = None]

\* service.json names a process that lives; and one that answers, too.
Recorded == IF state = None THEN FALSE ELSE Alive(state.pid)
Running  == IF Recorded THEN Healthy(state.port) ELSE FALSE

Begins(c) == "together" \in Env \/ \A d \in Command : at[d] = "idle"

(***************************************************************************)
(* start.                                                                  *)
(***************************************************************************)
\* running_service: a healthy dashboard is attached to, a dead pid clears service.json,
\* and one that lives but does not answer is passed over; then pick_port.
StartCommand(c) ==
    /\ Begins(c)
    /\ at[c] = "idle"
    /\ ~Running
    /\ Ports \ Bound # {}
    /\ at' = [at EXCEPT ![c] = "spawn"]
    /\ port' = [port EXCEPT ![c] = Min(Ports \ Bound)]
    /\ state' = IF Recorded THEN state ELSE None
    /\ abandoned' = IF Recorded THEN abandoned \cup {state.pid} ELSE abandoned
    /\ UNCHANGED <<pid, proc, listens>>

Spawn(c) == \E p \in Pid :
    /\ Goto(c, "spawn", "wait")
    /\ proc[p] = "none" /\ \A q \in Pid : q < p => proc[q] # "none"
    /\ proc' = [proc EXCEPT ![p] = "starting"]
    /\ listens' = [listens EXCEPT ![p] = port[c]]
    /\ pid' = [pid EXCEPT ![c] = p]
    /\ UNCHANGED <<port, state, abandoned>>

\* The wait for the health check ends: with an answer, with the death of the process, or
\* (the process answers too late) with the time that is over.
SeesHealthy(c) ==
    /\ Goto(c, "wait", "write")
    /\ Healthy(port[c])
    /\ UNCHANGED <<pid, port, state, proc, listens, abandoned>>

SeesDeath(c) ==
    /\ at[c] = "wait"
    /\ ~Healthy(port[c]) /\ ~Alive(pid[c])
    /\ Report(c, "wait")
    /\ UNCHANGED <<state, proc, listens, abandoned>>

TimesOut(c) ==
    /\ at[c] = "wait"
    /\ ~Healthy(port[c])
    /\ Report(c, "wait")
    /\ abandoned' = abandoned \cup {pid[c]}
    /\ UNCHANGED <<state, proc, listens>>

WriteState(c) ==
    /\ state' = [pid |-> pid[c], port |-> port[c]]
    /\ Report(c, "write")
    /\ UNCHANGED <<proc, listens, abandoned>>

(***************************************************************************)
(* stop.                                                                   *)
(***************************************************************************)
StopCommand(c) ==
    /\ Begins(c)
    /\ IF Recorded
       THEN /\ Goto(c, "idle", "ask")
            /\ pid' = [pid EXCEPT ![c] = state.pid]
            /\ port' = [port EXCEPT ![c] = state.port]
            /\ UNCHANGED state
       ELSE /\ Report(c, "idle")
            /\ state' = None
    /\ UNCHANGED <<proc, listens, abandoned>>

\* The shutdown endpoint ends whatever dashboard answers on the port.
AskToStop(c) ==
    /\ Goto(c, "ask", "force")
    /\ proc' = [p \in Pid |-> IF proc[p] = "up" /\ listens[p] = port[c] THEN "dead" ELSE proc[p]]
    /\ UNCHANGED <<pid, port, state, listens, abandoned>>

\* What is still alive is terminated, and service.json removed.
Force(c) ==
    /\ Report(c, "force")
    /\ proc' = [proc EXCEPT ![pid[c]] = IF Alive(pid[c]) THEN "dead" ELSE @]
    /\ state' = None
    /\ UNCHANGED <<listens, abandoned>>

(***************************************************************************)
(* Dashboards.                                                             *)
(***************************************************************************)
Listen(p) ==
    /\ proc[p] = "starting"
    /\ proc' = [proc EXCEPT ![p] = IF listens[p] \in Bound THEN "dead" ELSE "up"]
    /\ UNCHANGED <<at, pid, port, state, listens, abandoned>>

Dies(p) ==
    /\ Alive(p)
    /\ proc' = [proc EXCEPT ![p] = "dead"]
    /\ UNCHANGED <<at, pid, port, state, listens, abandoned>>

Hangs(p) ==
    /\ proc[p] = "up"
    /\ proc' = [proc EXCEPT ![p] = "hung"]
    /\ UNCHANGED <<at, pid, port, state, listens, abandoned>>

Next ==
    \/ \E c \in Command :
        \/ StartCommand(c) \/ Spawn(c) \/ SeesHealthy(c) \/ SeesDeath(c) \/ TimesOut(c)
        \/ WriteState(c) \/ StopCommand(c) \/ AskToStop(c) \/ Force(c)
    \/ \E p \in Pid : Listen(p) \/ Dies(p) \/ Hangs(p)

Spec == Init /\ [][Next]_svars

-----------------------------------------------------------------------------
TypeOK ==
    /\ at \in [Command -> {"idle", "spawn", "wait", "write", "ask", "force"}]
    /\ state # None => state.pid \in Pid /\ state.port \in Ports
    /\ proc \in [Pid -> {"none", "starting", "up", "hung", "dead"}]

\* service.py: one instance, and none that the commands do not know of.  While no command
\* is under way, each dashboard that lives is the one service.json names or one a start
\* gave up for dead (it answered too late, or had hung).  Two commands at the same time
\* leave others behind, which no command will find again.
OneKnownInstance ==
    (\A c \in Command : at[c] = "idle") =>
        \A p \in Pid \ abandoned : Alive(p) => state # None /\ state.pid = p
=============================================================================
