------------------------------ MODULE CallChain ------------------------------
(***************************************************************************)
(* A model call of a cycle: invoke_backend of core/backends.py walks a     *)
(* chain of backends, asks the circuit breaker of core/breaker.py before   *)
(* each of them and tells it what happened.  The breaker of the cycle's    *)
(* process is loaded once and saved whole; the operator's commands         *)
(* (`backends smoke`, `backends reset-breaker`, the dashboard) load, change*)
(* and save backends.json in processes of their own.                       *)
(*                                                                         *)
(* Error kinds are grouped by what the code does with them: "auth";        *)
(* "denied" (policy, permission_denied, budget_exceeded); "limit"          *)
(* (rate_limit, usage_limit); "outage" (backend_unavailable, timeout,      *)
(* provider_error, interrupted, unknown); "other" (model_unavailable,      *)
(* context_length, malformed_output).  A wait is ahead until its           *)
(* unavailable_until is past.                                              *)
(***************************************************************************)
EXTENDS Naturals, Sequences

CONSTANTS
    Backend,    \* names in the "backends" section of the configuration
    Chains,     \* the chains the roles are routed to
    Env         \* what happens beyond normal operation, see below

(***************************************************************************)
(* The members of Env:                                                     *)
(*   "repair_denied"  the schema repair is refused, or fails for            *)
(*                    authentication, policy or quota                      *)
(*   "operator_race"  the operator verifies or resets a backend while a    *)
(*                    cycle is running                                     *)
(***************************************************************************)
ASSUME ChainAssumption ==
    /\ Chains \subseteq Seq(Backend)
    /\ \A c \in Chains : Len(c) > 0
    /\ Env \subseteq {"repair_denied", "operator_race"}

VARIABLES
    board,      \* board[b]: entry of the breaker of the cycle's process
    disk,       \* backends.json
    chain,      \* the chain of the current call, <<>> between calls
    pos,        \* position in the chain
    phase,      \* what invoke_backend is about to do
    lastErr,    \* kind of last_err
    answer,     \* what the last call returned
    barred,     \* a backend refused or denied the current call (history)
    shut,       \* backends whose answers forbid calling them now (history)
    failed,     \* failed[b]: consecutive outages of b, up to 3, repairs aside (history)
    verified    \* backends the operator verified, and no failure since (history)

callVars == <<chain, pos, phase, lastErr, answer, barred>>
boardVars == <<board, disk>>
seenVars == <<shut, failed, verified>>
vars == <<callVars, boardVars, seenVars>>

Kinds      == {"auth", "denied", "limit", "outage", "other", "refusal"}
States     == {"available", "degraded", "cooling", "limited", "unavailable", "auth"}
Entry      == [state : States, fails : 0..3, wait : {"none", "ahead", "past"}]
Healthy    == [state |-> "available", fails |-> 0, wait |-> "none"]
NoAnswer   == [ok |-> FALSE, kind |-> "outage", by |-> 0]

NO_FALLBACK_KINDS == {"auth", "denied"}
\* Failure states a fresh verification may end (_STALE_RECOVERABLE_STATES).
Recoverable == {"degraded", "unavailable", "cooling", "auth"}

Init ==
    /\ board = [b \in Backend |-> Healthy]
    /\ disk = board
    /\ chain = <<>> /\ pos = 1 /\ phase = "idle"
    /\ lastErr = "outage"
    /\ answer = NoAnswer
    /\ barred = FALSE
    /\ shut = {}
    /\ failed = [b \in Backend |-> 0]
    /\ verified = {}

-----------------------------------------------------------------------------
(***************************************************************************)
(* The breaker.                                                            *)
(***************************************************************************)
SaveBoard(b, e) == /\ board' = [board EXCEPT ![b] = e]
                   /\ disk'  = board'

\* _maybe_reopen: after the wait the entry is half-open.
Reopened(e) == IF e.state \in {"limited", "unavailable"} /\ e.wait = "past"
               THEN [e EXCEPT !.state = "cooling"] ELSE e

Least(m, n) == IF m < n THEN m ELSE n

\* Mutant: a backend is never declared unavailable.
NeverOpens(e, kind) == [e EXCEPT !.state = "degraded"]
\* record_failure.
AfterFailure(e, kind) ==
    LET n == Least(e.fails + 1, 3)
        f == [e EXCEPT !.fails = n]
    IN  CASE kind = "auth"   -> [f EXCEPT !.state = "auth", !.wait = "none"]
          [] kind = "limit"  -> [f EXCEPT !.state = "limited", !.wait = "ahead"]
          [] kind = "outage" -> IF n = 3
                                THEN [f EXCEPT !.state = "unavailable", !.wait = "ahead"]
                                ELSE [f EXCEPT !.state = "degraded"]
          [] OTHER           -> f

\* What a failed answer of b means for later calls, whoever takes note of it.
Heard(b, kind) ==
    /\ failed' = [failed EXCEPT ![b] = IF kind = "outage" THEN Least(@ + 1, 3) ELSE 0]
    /\ shut' = IF kind \in {"auth", "limit"} \/ failed'[b] = 3
               THEN shut \cup {b} ELSE shut
    /\ verified' = verified \ {b}

-----------------------------------------------------------------------------
(***************************************************************************)
(* invoke_backend.                                                         *)
(***************************************************************************)
StartCall(c) ==
    /\ phase = "idle"
    /\ chain' = c
    /\ pos' = 1
    /\ phase' = "gate"
    /\ lastErr' = "outage"
    /\ barred' = FALSE
    /\ UNCHANGED <<answer, boardVars, seenVars>>

\* The call returns, by the backend at the current position.
Return(ok, kind) ==
    /\ phase' = "idle"
    /\ answer' = [ok |-> ok, kind |-> kind, by |-> chain[pos]]
    /\ chain' = <<>>
    /\ pos' = 1
    /\ UNCHANGED lastErr

\* Mutant: the walk stays at the backend that failed.
StaysOn(kind) ==
    /\ phase' = "gate"
    /\ lastErr' = kind
    /\ UNCHANGED <<chain, pos, answer>>

\* The next backend of the chain; after the last one the call fails with the
\* last error, in the name of the last backend.
Continue(kind) ==
    IF pos < Len(chain)
    THEN /\ pos' = pos + 1
         /\ phase' = "gate"
         /\ lastErr' = kind
         /\ UNCHANGED <<chain, answer>>
    ELSE Return(FALSE, kind)

\* The breaker is open: skipped, and last_err is left alone.
SkipOpen ==
    /\ phase = "gate"
    /\ Reopened(board[chain[pos]]).state \in {"limited", "unavailable", "auth"}
    /\ Continue(lastErr)
    /\ UNCHANGED <<barred, boardVars, seenVars>>

\* Half-open, and the health check fails.
SkipUnhealthy ==
    LET b == chain[pos] IN
    /\ phase = "gate"
    /\ Reopened(board[b]).state = "cooling"
    /\ IF board[b].state = "cooling" THEN UNCHANGED boardVars
       ELSE SaveBoard(b, Reopened(board[b]))
    /\ Continue(lastErr)
    /\ UNCHANGED <<barred, seenVars>>

\* The breaker is closed, or half-open and the health check passes.
Admit ==
    LET b == chain[pos]
        e == Reopened(board[b])
    IN
    /\ phase = "gate"
    /\ e.state \in {"available", "degraded", "cooling"}
    /\ IF e.state = "cooling"
       THEN SaveBoard(b, [e EXCEPT !.state = "available"])
       ELSE UNCHANGED boardVars
    /\ phase' = "limits"
    /\ UNCHANGED <<chain, pos, lastErr, answer, barred, seenVars>>

\* The user's own limits are reached, the adapter cannot be built, or the
\* prompt cannot be rebuilt for a fallback.
Unusable ==
    /\ phase = "limits"
    /\ \/ Continue("limit") \/ Continue("outage")
       \/ pos > 1 /\ Continue("other")
    /\ UNCHANGED <<barred, boardVars, seenVars>>

Usable ==
    /\ phase = "limits"
    /\ phase' = "invoke"
    /\ UNCHANGED <<chain, pos, lastErr, answer, barred, boardVars, seenVars>>

\* Mutant: an authentication failure is routed around.
FallbackOnAuth(kind) == kind \notin {"denied"}
MayFallBack(kind) == kind \notin NO_FALLBACK_KINDS

\* adapter.invoke raises.
Fails(kind) ==
    LET b == chain[pos] IN
    /\ phase = "invoke"
    /\ SaveBoard(b, AfterFailure(board[b], kind))
    /\ Heard(b, kind)
    /\ IF MayFallBack(kind) THEN Continue(kind) ELSE Return(FALSE, kind)
    /\ barred' = (kind \in NO_FALLBACK_KINDS)

\* adapter.invoke returns: the breaker closes, whatever the content is.
Responds ==
    LET b == chain[pos] IN
    /\ phase = "invoke"
    /\ SaveBoard(b, Healthy)
    /\ shut' = shut \ {b}
    /\ failed' = [failed EXCEPT ![b] = 0]
    /\ phase' = "check"
    /\ UNCHANGED <<chain, pos, lastErr, answer, barred, verified>>

Refuses ==
    /\ phase = "check"
    /\ Return(FALSE, "refusal")
    /\ barred' = TRUE
    /\ UNCHANGED <<boardVars, seenVars>>

\* No schema is asked for, or the content satisfies it.
Valid ==
    /\ phase = "check"
    /\ Return(TRUE, "ok")
    /\ UNCHANGED <<barred, boardVars, seenVars>>

Malformed ==
    /\ phase = "check"
    /\ phase' = "repair"
    /\ UNCHANGED <<chain, pos, lastErr, answer, barred, boardVars, seenVars>>

RepairValid ==
    /\ phase = "repair"
    /\ Return(TRUE, "ok")
    /\ UNCHANGED <<barred, boardVars, seenVars>>

\* Still malformed; a refusal of the repair is not told from it.
RepairMalformed ==
    /\ phase = "repair"
    /\ Continue("other")
    /\ \/ UNCHANGED barred
       \/ "repair_denied" \in Env /\ barred' = TRUE
    /\ UNCHANGED <<boardVars, seenVars>>

\* The repair raises: the breaker is not told, and the chain goes on.
RepairFails(kind) ==
    /\ phase = "repair"
    /\ kind \in {"outage", "other"} \/ "repair_denied" \in Env
    /\ Continue(kind)
    /\ barred' = (kind \in NO_FALLBACK_KINDS)
    /\ IF kind \in {"auth", "limit"} THEN Heard(chain[pos], kind) ELSE UNCHANGED seenVars
    /\ UNCHANGED boardVars

-----------------------------------------------------------------------------
(***************************************************************************)
(* Time, other processes and the operator.                                 *)
(***************************************************************************)
WaitOver(b) ==
    /\ board[b].wait = "ahead" \/ disk[b].wait = "ahead" \/ b \in shut
    /\ board' = [board EXCEPT ![b].wait = IF @ = "ahead" THEN "past" ELSE @]
    /\ disk'  = [disk EXCEPT ![b].wait = IF @ = "ahead" THEN "past" ELSE @]
    /\ shut'  = IF board[b].state = "auth" THEN shut ELSE shut \ {b}
    /\ UNCHANGED <<callVars, failed, verified>>

\* Another cycle begins: its process loads the file.
Reload ==
    /\ phase = "idle"
    /\ board # disk
    /\ board' = disk
    /\ UNCHANGED <<callVars, disk, seenVars>>

\* A command of the operator; between cycles, the next cycle loads what it saved.
Command(b, e) ==
    /\ disk' = [disk EXCEPT ![b] = e]
    /\ \/ phase = "idle" /\ board' = disk'
       \/ "operator_race" \in Env /\ UNCHANGED board
    /\ UNCHANGED callVars

\* record_verification after a successful smoke test: recover_if_verified.
Verify(b) ==
    /\ disk[b].state \in Recoverable
    /\ Command(b, Healthy)
    /\ shut' = shut \ {b}
    /\ failed' = [failed EXCEPT ![b] = 0]
    /\ verified' = verified \cup {b}

\* reset: any state, a provider's limit included.
Reset(b) ==
    /\ disk[b] # Healthy
    /\ Command(b, Healthy)
    /\ shut' = shut \ {b}
    /\ failed' = [failed EXCEPT ![b] = 0]
    /\ UNCHANGED verified

-----------------------------------------------------------------------------
Walk == \/ SkipOpen \/ SkipUnhealthy \/ Admit \/ Unusable \/ Usable
        \/ (\E k \in Kinds \ {"refusal"} : Fails(k) \/ RepairFails(k))
        \/ Responds \/ Refuses \/ Valid \/ Malformed \/ RepairValid \/ RepairMalformed

Next == \/ \E c \in Chains : StartCall(c)
        \/ Walk
        \/ Reload
        \/ \E b \in Backend : WaitOver(b) \/ Verify(b) \/ Reset(b)

Spec == Init /\ [][Next]_vars

\* A supervised call always ends, so the walk goes on.
FairSpec == Spec /\ WF_vars(Walk)

-----------------------------------------------------------------------------
TypeOK ==
    /\ board \in [Backend -> Entry]
    /\ disk \in [Backend -> Entry]
    /\ chain \in Chains \cup {<<>>}
    /\ phase \in {"idle", "gate", "limits", "invoke", "check", "repair"}
    /\ phase # "idle" => pos \in 1..Len(chain)
    /\ lastErr \in Kinds
    /\ barred \in BOOLEAN
    /\ shut \subseteq Backend
    /\ failed \in [Backend -> 0..3]
    /\ verified \subseteq Backend

\* Once a backend has refused, or denied the call for authentication, policy or
\* budget, no other backend is asked: "a safety refusal is never routed around"
\* (core/backends.py:11-12, README.md:439-440).
NeverRoutedAround == barred => phase = "idle"

\* A backend that reported a limit, an authentication failure or a third outage
\* in a row is not called before its wait is over or the operator cleared it
\* (docs/model-routing.md:38-39, "Rate-limited backends respect retry-after and
\* breaker cooling").  With the types.
ShutIsShut == TypeOK /\ (phase = "invoke" => chain[pos] \notin shut)

\* A backend the operator verified, and that has not failed since, is not kept
\* out as unauthenticated: "a stale circuit breaker must not keep it permanently
\* disabled once that evidence exists" (core/breaker.py:165-166).
VerifiedStays == \A b \in verified : disk[b].state # "auth"

\* Every call comes back with an answer.
CallEnds == phase = "gate" ~> phase = "idle"
=============================================================================
