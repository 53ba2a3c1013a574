---------------------------- MODULE Supervisor ----------------------------
(***************************************************************************)
(* One run of a command-line backend under core/supervisor.py: the owner   *)
(* (run_supervised) watches a child and what the child has started, in one *)
(* process group, and ends them at a deadline; a record on disk lets the   *)
(* next cycle (recover_stale_owned_processes) end what a dead owner left   *)
(* behind.  Time is explicit; its unit is the poll interval, within which  *)
(* a process that runs does what is due.  The owner measures with a        *)
(* monotonic clock, the record holds a time of day.  What the recovery     *)
(* does to lease, lock and task afterwards is in ProjectCycle.             *)
(***************************************************************************)
EXTENDS Integers

CONSTANTS
    Total, FirstOutput, IdleOutput,    \* deadlines; the latter two may be None
    Grace, Forced, Joining,            \* bounds of the steps of an end
    Slack,        \* what the record's deadline adds to all of them
    MaxTime,
    Env,          \* subset of {"stuck", "reuse", "reuse_in_grace", "suspend", "no_token"}
    None

VARIABLES
    now, wall,    \* the two clocks, zero at the start
    owner,        \* what the supervising process is doing
    since,        \* when it began to do so; while it watches, when it looks next
    child, kin,   \* the child; a descendant that holds its pipes
    pid,          \* whose the child's process id is: "child", "free", "other"
    heard,        \* time of the last output
    fired,        \* the deadline that has passed, or None
    forced, stopped,     \* what terminate_tree returns
    record,       \* [state, deadline], or None
    rescue,       \* the recovering process: [step, since, copy]
    hit           \* whom it has sent a signal, and whether the owner was alive

svars == <<now, wall, owner, since, child, kin, pid, heard, fired, forced, stopped, record,
           rescue, hit>>
Family == <<child, kin, pid>>

Ending == {"graceful", "forced", "joining"}
Alive  == {"spawned", "watching"} \cup Ending

\* The process table keeps an exited child until its parent has asked for it.
Polled == IF child = "exited" /\ pid = "child" THEN "free" ELSE pid

-----------------------------------------------------------------------------
(***************************************************************************)
(* run_supervised and terminate_tree.                                      *)
(***************************************************************************)
\* Popen, or "command not found".
Spawn ==
    /\ owner = "none"
    /\ \/ owner' = "spawned" /\ child' = "running" /\ pid' = "child"
       \/ owner' = "returned" /\ UNCHANGED <<child, pid>>
    /\ UNCHANGED <<now, wall, since, kin, heard, fired, forced, stopped, record, rescue, hit>>

\* Mutant: the record's deadline forgets that ending takes time.
DeadlineOfRun == wall + Total

\* When even a slow end must be over, by the time of day.
DeadlineAt == wall + Total + Grace + Forced + Slack

WriteRecord ==
    /\ owner = "spawned"
    /\ record' = [state |-> "running", deadline |-> DeadlineAt]
    /\ owner' = "watching" /\ since' = now
    /\ UNCHANGED <<now, wall, child, kin, pid, heard, fired, forced, stopped, rescue, hit>>

\* The deadline that has passed; the start was at zero.
Passed ==
    IF heard = None /\ FirstOutput # None /\ now > FirstOutput THEN "first_output"
    ELSE IF heard # None /\ IdleOutput # None /\ now - heard > IdleOutput THEN "idle_output"
    ELSE IF now > Total THEN "total_execution" ELSE None

\* One turn of the loop: the record first, then the child, then the deadlines.
Look ==
    /\ owner = "watching" /\ now >= since
    /\ record' = [record EXCEPT !.state = "running"]
    /\ pid' = Polled
    /\ \/ child = "exited" /\ owner' = "joining" /\ since' = now /\ UNCHANGED fired
       \/ /\ child = "running" /\ Passed # None
          /\ owner' = "graceful" /\ since' = now /\ fired' = Passed
       \/ /\ child = "running" /\ Passed = None
          /\ since' = now + 1 /\ UNCHANGED <<owner, fired>>
    /\ UNCHANGED <<now, wall, child, kin, heard, forced, stopped, rescue, hit>>

\* The group was asked to end and the child has.
EndsGracefully ==
    /\ owner = "graceful" /\ child = "exited" /\ now <= since + Grace
    /\ owner' = "joining" /\ since' = now /\ pid' = Polled /\ stopped' = TRUE
    /\ UNCHANGED <<now, wall, child, kin, heard, fired, forced, record, rescue, hit>>

\* SIGKILL reaches the whole group, and only a process stuck in the system outlasts it.
Killed == /\ kin' = "gone"
          /\ child' = "exited" \/ ("stuck" \in Env /\ UNCHANGED child)

ForceKill ==
    /\ owner = "graceful" /\ now >= since + Grace
    /\ Killed
    /\ owner' = "forced" /\ since' = now /\ forced' = TRUE
    /\ UNCHANGED <<now, wall, pid, heard, fired, stopped, record, rescue, hit>>

EndsForced ==
    /\ owner = "forced" /\ (child = "exited" \/ now >= since + Forced)
    /\ owner' = "joining" /\ since' = now /\ pid' = Polled /\ stopped' = (child = "exited")
    /\ UNCHANGED <<now, wall, child, kin, heard, fired, forced, record, rescue, hit>>

\* Mutant: the readers are waited for until the pipes are closed.
DrainedFully == child = "exited" /\ kin # "running"

\* The readers end with the last process that holds the pipes, or are left behind.
Drained == (child = "exited" /\ kin # "running") \/ now >= since + Joining

Return ==
    /\ owner = "joining" /\ Drained
    /\ owner' = "returned" /\ pid' = Polled
    /\ record' = [record EXCEPT !.state = IF fired = None THEN "completed" ELSE "timeout"]
    /\ UNCHANGED <<now, wall, since, child, kin, heard, fired, forced, stopped, rescue, hit>>

\* The supervising process dies; its child lives on in a session of its own.
OwnerDies ==
    /\ owner \in Alive /\ owner' = "dead" /\ pid' = Polled
    /\ UNCHANGED <<now, wall, since, child, kin, heard, fired, forced, stopped, record, rescue,
                   hit>>

-----------------------------------------------------------------------------
(***************************************************************************)
(* The child, the process table and the clocks.                            *)
(***************************************************************************)
Fork == /\ child = "running" /\ kin = "none" /\ kin' = "running"
        /\ UNCHANGED <<now, wall, owner, since, child, pid, heard, fired, forced, stopped,
                       record, rescue, hit>>

\* A reader keeps the time of a line as long as the owner lives.
Output == /\ owner \in Alive /\ (child = "running" \/ kin = "running")
          /\ heard # now /\ heard' = now
          /\ UNCHANGED <<now, wall, owner, since, child, kin, pid, fired, forced, stopped,
                         record, rescue, hit>>

\* By itself or because it was asked to; the parent of an orphan asks for it at once.
Exit == /\ child = "running" /\ child' = "exited"
        /\ pid' = IF owner \in Alive THEN pid ELSE "free"
        /\ UNCHANGED <<now, wall, owner, since, kin, heard, fired, forced, stopped, record,
                       rescue, hit>>

KinExits == /\ kin = "running" /\ kin' = "gone"
            /\ UNCHANGED <<now, wall, owner, since, child, pid, heard, fired, forced, stopped,
                           record, rescue, hit>>

\* The process id is given to a process that has nothing to do with the project.
Reuse == /\ "reuse" \in Env /\ pid = "free" /\ pid' = "other"
         /\ "reuse_in_grace" \in Env \/ rescue.step \notin {"graceful", "forced"}
         /\ UNCHANGED <<now, wall, owner, since, child, kin, heard, fired, forced, stopped,
                        record, rescue, hit>>

\* What the owner has to do at this moment comes before the next one.
Due == \/ owner \in {"none", "spawned"}
       \/ owner = "watching" /\ now >= since
       \/ owner = "graceful" /\ (child = "exited" \/ now >= since + Grace)
       \/ owner = "forced"   /\ (child = "exited" \/ now >= since + Forced)
       \/ owner = "joining"  /\ Drained

\* While the machine sleeps, the monotonic clock stands still.
Tick == /\ wall < MaxTime /\ wall' = wall + 1
        /\ \/ ~Due /\ now' = now + 1
           \/ "suspend" \in Env /\ UNCHANGED now
        /\ UNCHANGED <<owner, since, child, kin, pid, heard, fired, forced, stopped, record,
                       rescue, hit>>

-----------------------------------------------------------------------------
(***************************************************************************)
(* recover_stale_owned_processes and terminate_by_pid, at the beginning of *)
(* another cycle and before that one has the project's lock.               *)
(***************************************************************************)
\* Mutant: the number alone identifies a process.
MatchesByNumber == pid # "free"

\* identity_matches: by the start time, which may be unavailable.
Matches == pid = "child"

Goes(step) == rescue' = [rescue EXCEPT !.step = step, !.since = now]

List ==
    /\ rescue.step = "idle" /\ record # None
    /\ record.state = "running"
    /\ rescue' = [step |-> "listed", since |-> now, copy |-> record]
    /\ UNCHANGED <<now, wall, owner, since, child, kin, pid, heard, fired, forced, stopped,
                   record, hit>>

\* Gone, overdue, or left running.
Probe ==
    /\ rescue.step = "listed"
    /\ \/ (~Matches \/ "no_token" \in Env) /\ Goes("gone")
       \/ Matches /\ Goes(IF wall > rescue.copy.deadline THEN "overdue" ELSE "idle")
    /\ UNCHANGED <<now, wall, owner, since, child, kin, pid, heard, fired, forced, stopped,
                   record, hit>>

\* A signal to the group of the process that has the process id now.
Struck == hit' = hit \cup {[who |-> pid, watched |-> owner \in Alive]}

\* The identity is looked at once more, and only here.
Terminate ==
    /\ rescue.step = "overdue"
    /\ IF Matches THEN Struck /\ Goes("graceful") ELSE UNCHANGED hit /\ Goes("over")
    /\ UNCHANGED <<now, wall, owner, since, child, kin, pid, heard, fired, forced, stopped,
                   record>>

SeesGone ==
    /\ rescue.step \in {"graceful", "forced"} /\ pid = "free" /\ Goes("over")
    /\ UNCHANGED <<now, wall, owner, since, child, kin, pid, heard, fired, forced, stopped,
                   record, hit>>

\* The group of whoever has the process id is killed.
KillByPid ==
    /\ rescue.step = "graceful" /\ now >= rescue.since + Grace /\ pid # "free"
    /\ Struck /\ Goes("forced")
    /\ IF pid = "child"
       THEN Killed /\ pid' = IF child' = "exited" /\ owner \notin Alive THEN "free" ELSE pid
       ELSE UNCHANGED Family
    /\ UNCHANGED <<now, wall, owner, since, heard, fired, forced, stopped, record>>

KillOver ==
    /\ rescue.step = "forced" /\ now >= rescue.since + Forced /\ Goes("over")
    /\ UNCHANGED <<now, wall, owner, since, child, kin, pid, heard, fired, forced, stopped,
                   record, hit>>

\* _mark_record writes the copy it has read.
Mark ==
    /\ rescue.step \in {"gone", "over"} /\ Goes("idle")
    /\ record' = [rescue.copy EXCEPT !.state = IF rescue.step = "gone" THEN "reconciled_dead"
                                               ELSE "timeout"]
    /\ UNCHANGED <<now, wall, owner, since, child, kin, pid, heard, fired, forced, stopped, hit>>

Init ==
    /\ now = 0 /\ wall = 0 /\ owner = "none" /\ since = 0
    /\ child = "none" /\ kin = "none" /\ pid = "free" /\ heard = None /\ fired = None
    /\ forced = FALSE /\ stopped = FALSE /\ record = None /\ hit = {}
    /\ rescue = [step |-> "idle", since |-> 0, copy |-> None]

Next ==
    \/ Spawn \/ WriteRecord \/ Look \/ EndsGracefully \/ ForceKill \/ EndsForced \/ Return
    \/ OwnerDies \/ Fork \/ Output \/ Exit \/ KinExits \/ Reuse \/ Tick
    \/ List \/ Probe \/ Terminate \/ SeesGone \/ KillByPid \/ KillOver \/ Mark

Spec == Init /\ [][Next]_svars

-----------------------------------------------------------------------------
TypeOK ==
    /\ now \in 0..MaxTime /\ wall \in now..MaxTime
    /\ owner \in {"none", "returned", "dead"} \cup Alive
    /\ child \in {"none", "running", "exited"} /\ kin \in {"none", "running", "gone"}
    /\ heard \in {None} \cup 0..MaxTime
    /\ record # None =>
           record.state \in {"running", "completed", "timeout", "reconciled_dead"}

\* supervisor.py 32-34: a timeout "always returns control to the caller within a bounded,
\* predictable time", whatever the child and its descendants do with the pipes.
ReturnsInTime ==
    owner \in Alive =>
        /\ now <= Total + 1 + Grace + Forced + Joining
        /\ owner = "watching" => now <= Total + 1

\* What had to be killed is killed with everything it has started.
KilledWhole == owner = "returned" /\ forced /\ stopped => kin # "running"

\* 270-271: "a PID belonging to a different, newer process is never touched".
OnlyOwnIsTouched == \A h \in hit : h.who # "other"

\* 381-386: no recovery ends a process whose owner lives and will end it.
OwnersAreTrusted == \A h \in hit : ~h.watched

\* A record that recovery has settled stands for a process that does not run any more.
SettledIsGone ==
    record # None => (record.state = "reconciled_dead" => child # "running")

(***************************************************************************)
(* What does not hold.  OnlyOwnIsTouched with "reuse_in_grace": the        *)
(* identity is not looked at again before the kill.  OwnersAreTrusted with *)
(* "suspend".  SettledIsGone with "no_token".                              *)
(***************************************************************************)
\* 30-32: "A timeout always terminates the OWNED PROCESS TREE (not just the immediate PID)".
TreeStopped == owner = "returned" /\ fired # None /\ stopped => kin # "running"

\* Only the records of dead owners are settled by recovery (ProjectCycle: "record_lag").
OnlyOrphansAreSettled ==
    owner \in Alive /\ record # None => record.state # "reconciled_dead"

\* Whatever an owner leaves running can be found.
OrphanIsKnown == owner = "dead" /\ child = "running" => record # None
=============================================================================
