------------------------------ MODULE Platform ------------------------------
(***************************************************************************)
(* The platform around the build cycles: maintenance ticks, API calls, the *)
(* registry, the service and its dashboard, the supervisor of a backend's  *)
(* process and the fleet, side by side.  They have no state in common; the *)
(* properties of each are collected here under names of their own.         *)
(*                                                                         *)
(* Two components are instances of the modules with their theorems, which  *)
(* Platform_proofs uses.                                                   *)
(***************************************************************************)
EXTENDS Naturals

CONSTANTS
    Process,      \* ticks, runs, clients and commands
    Skill, Sensitive, Checks, Mandatory, Heads, InitRow, MaxRuns, MaxClock,   \* Maintenance
    Role, Fallback, Attempts, MaxCost, DailyLimit, RunLimit, MaxSeries,   \* ApiCall
    Id, Root, Authorised, MaxCommands,                                    \* Registry
    Ports, MaxPid,                                                        \* Service
    Op, Group, RingSize, QueueSize, MaxEvents,                            \* Dashboard
    Total, FirstOutput, IdleOutput, Grace, Forced, Joining, Slack, MaxTime,   \* Supervisor
    N, Priority, Chain, Local, Active, Models, Heavy, PerBackend,         \* Fleet
    None,
    Env

VARIABLES
    pc, run, skill, rows, base, fails, verdict, item, ledger, baseline, disagree, queue,
    worktrees, clock, failFast, started, outcome, hist, overlapped, excused,
    phase, role, walked, tries, result, runCost, exhausted, spent, series, final,
    gAt, command, view, file, lock, old, issued, expected,
    sAt, pid, port, state, proc, listens, abandoned,
    status, stage, active, persisted, next, ring, inFlight, inbox, last, received, seen,
    first, changed,
    now, wall, owner, since, child, kin, childPid, heard, fired, forced, stopped, record,
    rescue, hit,
    slots, stamp, paused, ready, tick, todo, plans, begun, running, finished

mvars == <<pc, run, skill, rows, base, fails, verdict, item, ledger, baseline, disagree,
           queue, worktrees, clock, failFast, started, outcome, hist, overlapped, excused>>
avars == <<phase, role, walked, tries, result, runCost, exhausted, spent, series, final>>
gvars == <<gAt, command, view, file, lock, old, issued, expected>>
svars == <<sAt, pid, port, state, proc, listens, abandoned>>
dvars == <<status, stage, active, persisted, next, ring, inFlight, inbox, last, received,
           seen, first, changed>>
pvars == <<now, wall, owner, since, child, kin, childPid, heard, fired, forced, stopped, record,
           rescue, hit>>
fvars == <<slots, stamp, paused, ready, tick, todo, plans, begun, running, finished>>
vars == <<mvars, avars, gvars, svars, dvars, pvars, fvars>>

M == INSTANCE Maintenance_proofs WITH Tick <- Process
A == INSTANCE ApiCall WITH Caller <- Process, seen <- walked
G == INSTANCE Registry WITH Client <- Process, at <- gAt
S == INSTANCE Service WITH Command <- Process, at <- sAt
D == INSTANCE Dashboard
P == INSTANCE Supervisor WITH pid <- childPid
F == INSTANCE Fleet_proofs WITH
        Tick <- Process, Env <- Env \cap {"crash", "overrun", "race"},
        phase <- tick, view <- plans

Maintains == M!Next /\ UNCHANGED <<avars, gvars, svars, dvars, pvars, fvars>>
Calls     == A!Next /\ UNCHANGED <<mvars, gvars, svars, dvars, pvars, fvars>>
Registers == G!Next /\ UNCHANGED <<mvars, avars, svars, dvars, pvars, fvars>>
Serves    == S!Next /\ UNCHANGED <<mvars, avars, gvars, dvars, pvars, fvars>>
Shows     == D!Next /\ UNCHANGED <<mvars, avars, gvars, svars, pvars, fvars>>
Supervises == P!Next /\ UNCHANGED <<mvars, avars, gvars, svars, dvars, fvars>>
Schedules == F!Next /\ UNCHANGED <<mvars, avars, gvars, svars, dvars, pvars>>

Init == M!Init /\ A!Init /\ G!Init /\ S!Init /\ D!Init /\ P!Init /\ F!Init

Next == \/ Maintains \/ Calls \/ Registers \/ Serves \/ Shows \/ Supervises \/ Schedules

Spec == Init /\ [][Next]_vars

-----------------------------------------------------------------------------
\* The properties of the components with their types, under their own names.
AutoIsEarned    == M!AutoIsEarned
HandedOver      == M!TypeOK /\ M!HandedOver
NewFailureFails == M!NewFailureFails

\* The budget holds, and nothing goes around a refusal.
SpendBounded == A!TypeOK /\ A!SpendBounded /\ A!NeverBypassed

\* The registry keeps its roots apart and every update.
RegistrySound == G!TypeOK /\ G!RootsAreUnique /\ G!NoUpdateLost

\* One dashboard that the commands know of, one operation of a group at a time in it, and
\* no event lost between it and the browser.
ConsoleSound == /\ S!TypeOK /\ S!OneKnownInstance
                /\ D!TypeOK /\ D!OneRunnerPerGroup /\ D!NothingMissed

\* However ticks overlap and die, what they run stays within every pool, and nothing runs
\* twice.
FleetSound == F!PoolsRespected /\ F!NothingRunsTwice

\* A backend's process is ended in time, wholly, by whoever has to, and nobody else is.
ProcessesEnded == /\ P!TypeOK /\ P!ReturnsInTime /\ P!KilledWhole /\ P!OnlyOwnIsTouched
                  /\ P!OwnersAreTrusted /\ P!SettledIsGone
=============================================================================
