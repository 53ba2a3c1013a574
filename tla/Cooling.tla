------------------------------ MODULE Cooling ------------------------------
(***************************************************************************)
(* When the next cycle of a project may begin and when a backend may be    *)
(* called again: the arithmetic of core/scheduler.py (cooldown, operating  *)
(* window) and of core/breaker.py (how long a breaker stays open).  Which  *)
(* backend a call goes to is in Routing and CallChain.                     *)
(***************************************************************************)
EXTENDS Integers, Sequences, FiniteSetsExt

CONSTANTS
    Day, Windows,     \* operating windows [start, stop]; None is none
    CycleLength,
    Cool,             \* [success, failure, platform, limit, least, most]
    Recovery,         \* what a breaker waits without hint and history: [limit, outage]
    MaxRecovery,
    Keep,             \* how many recoveries are remembered, 10 in the code
    Hints,            \* what a backend may say in how long it will answer; None is nothing
    MaxTime, MaxStreak, MaxFails,    \* bounds of the instance
    None

VARIABLES
    now,
    window,
    began,      \* when the running cycle began, or None
    nextRun,    \* next_run_at
    streak,     \* failure_streak
    told,       \* the hint that came with a limit in this cycle
    entry,      \* the backend's: [state, until, kind, fails, since, history]
    stated      \* until when the backend has said it will not answer, as far as is believed

ovars == <<now, window, began, nextRun, streak, told, entry, stated>>

AtLeast(a, b) == Max({a, b})
AtMost(a, b)  == Min({a, b})

-----------------------------------------------------------------------------
(***************************************************************************)
(* The operating window.                                                   *)
(***************************************************************************)
Inside(t) ==
    IF window = None THEN TRUE
    ELSE IF window.start <= window.stop THEN window.start <= t /\ t <= window.stop
    ELSE t >= window.start \/ t <= window.stop

\* Mutant: the next stop is that of tomorrow.
LeftTomorrow(t) == window.stop + Day - t

\* window_minutes_remaining: to the next stop, of today or of tomorrow.
Left(t) == IF window.stop >= t THEN window.stop - t ELSE window.stop + Day - t

Eligible ==
    /\ Inside(now % Day) /\ (window # None => Left(now % Day) >= CycleLength)
    /\ IF nextRun = None THEN TRUE ELSE now >= nextRun

-----------------------------------------------------------------------------
(***************************************************************************)
(* Waits.                                                                  *)
(***************************************************************************)
\* Twice as long for each failure in a row, up to eight times.
Growth == <<1, 2, 4, 8>>

\* cooldown_breakdown, after the streak is counted; a hint of nothing is no hint.
Cooldown(outcome, hint, n) ==
    LET minutes == CASE outcome = "success"  -> Cool.success
                     [] outcome = "platform" -> Cool.platform
                     [] outcome = "limit"    -> IF hint \in {None, 0} THEN Cool.limit ELSE hint
                     [] OTHER -> Cool.failure * Growth[AtMost(AtLeast(n, 1), 4)] IN
    AtLeast(Cool.least, AtMost(minutes, Cool.most))

\* Mutant: what was observed goes before what was said.
WaitByHistory(e, kind, hint) ==
    IF e.history # <<>> \/ hint \in {None, 0}
    THEN AtMost((IF e.history = <<>> THEN Recovery[kind]
                 ELSE FoldFunction(LAMBDA a, b : a + b, 0, e.history) \div Len(e.history)),
                MaxRecovery)
    ELSE AtMost(hint, MaxRecovery)

\* _wait_seconds: what the backend says, or the mean of its recoveries times 1.5 for each
\* failure after the first.
Wait(e, kind, hint) ==
    IF hint \notin {None, 0} THEN AtMost(hint, MaxRecovery)
    ELSE LET base == IF e.history = <<>> THEN [sum |-> Recovery[kind], n |-> 1]
                     ELSE [sum |-> FoldFunction(LAMBDA a, b : a + b, 0, e.history),
                           n |-> Len(e.history)] IN
         AtMost((base.sum * 3 ^ (e.fails - 1)) \div (base.n * 2 ^ (e.fails - 1)), MaxRecovery)

\* Not shut, or half-open and found healthy.
Callable == IF entry.until = None THEN TRUE ELSE now >= entry.until

-----------------------------------------------------------------------------
Begin ==
    /\ began = None /\ Eligible
    /\ began' = now /\ nextRun' = None /\ told' = None
    /\ UNCHANGED <<now, window, streak, entry, stated>>

\* record_success keeps the last recoveries.
Succeeds ==
    /\ began # None /\ Callable
    /\ entry' = [entry EXCEPT
           !.state = "available", !.until = None, !.fails = 0, !.since = None,
           !.history = IF entry.since = None THEN @
                       ELSE LET all == Append(@, now - entry.since) IN
                            SubSeq(all, AtLeast(1, Len(all) - Keep + 1), Len(all))]
    /\ stated' = None
    /\ UNCHANGED <<now, window, began, nextRun, streak, told>>

\* record_failure: a limit shuts at once, the third outage in a row does.
Fails(kind, hint) ==
    /\ began # None /\ Callable /\ entry.fails < MaxFails
    /\ LET e == [entry EXCEPT !.kind = kind, !.fails = @ + 1, !.since = IF @ = None THEN now ELSE @]
           wait == Wait(e, kind, hint) IN
       IF kind = "limit" \/ e.fails >= 3
       THEN /\ entry' = [e EXCEPT !.state = "shut", !.until = now + wait]
            /\ stated' = IF hint \in {None, 0} THEN None ELSE now + AtMost(hint, MaxRecovery)
       ELSE /\ entry' = [e EXCEPT !.state = "degraded"]
            /\ UNCHANGED stated
    /\ told' = IF kind = "limit" THEN hint ELSE told
    /\ UNCHANGED <<now, window, began, nextRun, streak>>

\* start_cooling, with the hint of the limit that ended the cycle.
Finish(outcome) ==
    /\ began # None
    /\ outcome = "limit" => entry.kind = "limit"
    /\ streak' = IF outcome = "success" THEN 0
                 ELSE IF outcome = "failure" THEN AtMost(streak + 1, MaxStreak) ELSE streak
    /\ nextRun' = now + Cooldown(outcome, told, streak')
    /\ began' = None /\ told' = None
    /\ UNCHANGED <<now, window, entry, stated>>

\* A cycle is over when its envelope is.
TimePasses ==
    /\ now < MaxTime /\ (began # None => now < began + CycleLength)
    /\ now' = now + 1
    /\ UNCHANGED <<window, began, nextRun, streak, told, entry, stated>>

Init ==
    /\ now = 0 /\ window \in Windows /\ began = None /\ nextRun = None /\ streak = 0
    /\ told = None /\ stated = None
    /\ entry = [state |-> "available", until |-> None, kind |-> None, fails |-> 0, since |-> None,
                history |-> <<>>]

Next ==
    \/ Begin \/ Succeeds \/ TimePasses
    \/ \E kind \in {"limit", "outage"}, hint \in Hints : Fails(kind, hint)
    \/ \E outcome \in {"success", "failure", "platform", "limit"} : Finish(outcome)

Spec == Init /\ [][Next]_ovars

-----------------------------------------------------------------------------
TypeOK ==
    /\ now \in 0..MaxTime /\ streak \in 0..MaxStreak
    /\ entry.state \in {"available", "degraded", "shut"} /\ entry.fails \in 0..MaxFails
    /\ nextRun # None => nextRun <= now + Cool.most

\* scheduler.py 220-222: "the whole cycle envelope must fit in the remaining operating
\* window", also over midnight.
WindowKept ==
    began # None => \A t \in began..(began + CycleLength) : Inside(t % Day)

\* breaker.py 124-125: "Explicit provider hints win": before that time the backend is not
\* called again, whatever was observed and whatever failed in between.
StatedIsRespected == stated # None /\ now < stated => ~Callable
=============================================================================
