----------------------------- MODULE Dashboard -----------------------------
(***************************************************************************)
(* The dashboard's back end: operations in worker threads (ui/ops.py), the *)
(* event bus with its ring buffer (ui/bus.py), the watcher of state files  *)
(* (ui/watch.py), and one browser that connects, loses its connection and  *)
(* reconnects with the id of the last event it received.                   *)
(***************************************************************************)
EXTENDS Naturals, Sequences, FiniteSets

CONSTANTS
    Op,           \* operations that may be started
    Group,        \* op -> the group it belongs to
    RingSize,     \* events the ring keeps
    QueueSize,    \* events the queue of a subscriber keeps
    MaxEvents,    \* events published
    None,
    Env           \* departures: "reorder", "overflow", "same_page"

VARIABLES
    status,      \* what _ops holds: None, "running", "succeeded", "failed", "interrupted"
    stage,       \* the thread of an operation: None, "announce", "run", "clear", "report"
    active,      \* group -> the operation of _active_by_group
    persisted,   \* the operations file
    next, ring,  \* the bus: next id, the ids in the ring
    inFlight,    \* events in the ring that are not yet in the queue of the subscriber
    inbox,       \* the queue of the browser's subscription, None without one
    last,        \* the browser's Last-Event-ID, 0 before any
    received,    \* history: what this connection, and all connections, delivered
    seen,
    first,       \* history: the first event the browser ever received
    changed      \* a watched file has changed since the watcher's last poll

dvars == <<status, stage, active, persisted, next, ring, inFlight, inbox, last, received, seen,
           first, changed>>
opsvars == <<status, stage, active, persisted>>
busvars == <<next, ring, inFlight, inbox>>
browser == <<last, received, seen, first>>

Groups == {Group[o] : o \in Op}

Init ==
    /\ status = [o \in Op |-> None]
    /\ stage = [o \in Op |-> None]
    /\ active = [g \in Groups |-> None]
    /\ persisted = [o \in Op |-> None]
    /\ next = 1
    /\ ring = <<>>
    /\ inFlight = {}
    /\ inbox = None
    /\ last = 0
    /\ received = {}
    /\ seen = {}
    /\ first = 0
    /\ changed = FALSE

(***************************************************************************)
(* The bus.                                                                *)
(***************************************************************************)
\* publish, inside its lock: an id, the ring, the list of subscribers.
Publish ==
    /\ next <= MaxEvents
    /\ "reorder" \in Env \/ inFlight = {}
    /\ next' = next + 1
    /\ ring' = LET r == Append(ring, next) IN
               IF Len(r) > RingSize THEN SubSeq(r, Len(r) - RingSize + 1, Len(r)) ELSE r
    /\ inFlight' = IF inbox = None THEN inFlight ELSE inFlight \cup {next}
    /\ UNCHANGED inbox

\* put_nowait, outside the lock: a full queue drops the event.
Deliver == \E e \in inFlight :
    /\ inFlight' = inFlight \ {e}
    /\ \/ /\ inbox # None
          /\ Len(inbox) < QueueSize
          /\ inbox' = Append(inbox, e)
       \/ inbox = None /\ UNCHANGED inbox
       \/ /\ inbox # None /\ "overflow" \in Env
          /\ Len(inbox) = QueueSize
          /\ UNCHANGED inbox
    /\ UNCHANGED <<opsvars, next, ring, browser, changed>>

\* The replay of what the ring, whose ids ascend, has from its k-th event on.
Replays(k) ==
    LET end == k + QueueSize - 1
    IN  IF last = 0 THEN <<>> ELSE SubSeq(ring, k, IF end < Len(ring) THEN end ELSE Len(ring))

\* Mutant: the replay begins one event late.
ConnectLate == \E k \in 1..(Len(ring) + 1) :
    /\ inbox = None
    /\ \A i \in DOMAIN ring : ring[i] > last + 1 <=> i >= k
    /\ inbox' = Replays(k)
    /\ received' = {}
    /\ UNCHANGED <<opsvars, next, ring, inFlight, last, seen, first, changed>>
\* subscribe: what the ring has after Last-Event-ID is replayed into the new queue, as much
\* of it as the queue takes.  It is put there outside the lock like any event: without
\* "reorder" no other one overtakes it.
Connect == \E k \in 1..(Len(ring) + 1) :
    /\ inbox = None
    /\ \A i \in DOMAIN ring : ring[i] > last <=> i >= k
    /\ inbox' = Replays(k)
    /\ received' = {}
    /\ UNCHANGED <<opsvars, next, ring, inFlight, last, seen, first, changed>>

Receive ==
    /\ inbox # None /\ inbox # <<>>
    /\ last' = Head(inbox)
    /\ first' = IF first = 0 THEN Head(inbox) ELSE first
    /\ received' = received \cup {Head(inbox)}
    /\ seen' = seen \cup {Head(inbox)}
    /\ inbox' = Tail(inbox)
    /\ UNCHANGED <<opsvars, next, ring, inFlight, changed>>

\* unsubscribe: what was queued or on its way to this queue is lost with it.
Disconnect ==
    /\ inbox # None
    /\ inbox' = None
    /\ inFlight' = {}
    /\ UNCHANGED <<opsvars, next, ring, browser, changed>>

(***************************************************************************)
(* Operations.                                                             *)
(***************************************************************************)
\* start: under the manager's lock, unless the group's operation is running.
StartOp(o) ==
    /\ status[o] = None
    /\ \A p \in Op : active[Group[o]] = p => status[p] # "running"
    /\ status' = [status EXCEPT ![o] = "running"]
    /\ active' = [active EXCEPT ![Group[o]] = o]
    /\ stage' = [stage EXCEPT ![o] = "announce"]
    /\ UNCHANGED <<persisted, busvars, browser, changed>>

Announce(o) ==
    /\ stage[o] = "announce"
    /\ stage' = [stage EXCEPT ![o] = "run"]
    /\ Publish
    /\ UNCHANGED <<status, active, persisted, browser, changed>>

RunnerEnds(o) == \E s \in {"succeeded", "failed"} :
    /\ stage[o] = "run"
    /\ stage' = [stage EXCEPT ![o] = "clear"]
    /\ status' = [status EXCEPT ![o] = s]
    /\ UNCHANGED <<active, persisted, busvars, browser, changed>>

\* Under the lock: the group is free, unless another operation has it by now; all
\* operations are persisted.
Clear(o) ==
    /\ stage[o] = "clear"
    /\ stage' = [stage EXCEPT ![o] = "report"]
    /\ active' = [active EXCEPT ![Group[o]] = IF @ = o THEN None ELSE @]
    /\ persisted' = status
    /\ UNCHANGED <<status, busvars, browser, changed>>

Report(o) ==
    /\ stage[o] = "report"
    /\ stage' = [stage EXCEPT ![o] = None]
    /\ Publish
    /\ UNCHANGED <<status, active, persisted, browser, changed>>

\* The server restarts: threads are gone, running operations were interrupted, and the bus
\* counts from one again; a browser that keeps its page keeps its Last-Event-ID.
Restart ==
    /\ status' = [o \in Op |-> IF persisted[o] = "running" THEN "interrupted" ELSE persisted[o]]
    /\ stage' = [o \in Op |-> None]
    /\ active' = [g \in Groups |-> None]
    /\ next' = 1 /\ ring' = <<>> /\ inFlight' = {} /\ inbox' = None
    /\ IF "same_page" \in Env
       THEN UNCHANGED browser
       ELSE last' = 0 /\ received' = {} /\ seen' = {} /\ first' = 0
    /\ UNCHANGED <<persisted, changed>>

(***************************************************************************)
(* The watcher.                                                            *)
(***************************************************************************)
FileChanges ==
    /\ ~changed /\ changed' = TRUE
    /\ UNCHANGED <<opsvars, busvars, browser>>

Poll ==
    /\ changed /\ changed' = FALSE
    /\ Publish
    /\ UNCHANGED <<opsvars, browser>>

Next ==
    \/ \E o \in Op : StartOp(o) \/ Announce(o) \/ RunnerEnds(o) \/ Clear(o) \/ Report(o)
    \/ Deliver \/ Connect \/ Receive \/ Disconnect \/ Restart \/ FileChanges \/ Poll

Spec == Init /\ [][Next]_dvars

-----------------------------------------------------------------------------
TypeOK ==
    /\ status \in [Op -> {None, "running", "succeeded", "failed", "interrupted"}]
    /\ active \in [Groups -> Op \cup {None}]
    /\ Len(ring) <= RingSize
    /\ inbox # None => Len(inbox) <= QueueSize
    /\ \A e \in inFlight : e < next

\* ops.py: "duplicate submissions in the same group are rejected while one is in flight",
\* while operations end, clear their group and start in threads of their own.
OneRunnerPerGroup ==
    \A o, p \in Op : o # p /\ Group[o] = Group[p]
        => ~(stage[o] \in {"announce", "run"} /\ stage[p] \in {"announce", "run"})

\* bus.py: after reconnects with Last-Event-ID a browser that has caught up has received
\* each event since its first one that the ring still holds, and a connection never delivers
\* the same event twice.  Fails when two publishers may overtake one another, when a queue
\* overflows, and for a page that outlives the server.
NothingMissed ==
    /\ inbox = <<>> /\ inFlight = {} /\ first # 0 =>
           \A i \in DOMAIN ring : ring[i] > first => ring[i] \in seen
    /\ inbox # None => \A i \in DOMAIN inbox : inbox[i] \notin received
=============================================================================
