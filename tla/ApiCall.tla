------------------------------ MODULE ApiCall ------------------------------
(***************************************************************************)
(* One call of a model through an API (core/invoke.py) under the budget    *)
(* (core/budget.py): gate, attempts with retries, settling, one schema     *)
(* repair, and the walk over the fallback roles.  Each caller is a run of  *)
(* its own with its own counters; usage.tsv is shared and only appended    *)
(* to.  Amounts of money are in an arbitrary unit.                         *)
(***************************************************************************)
EXTENDS Naturals, Functions, FiniteSetsExt

CONSTANTS
    Caller,        \* runs that make calls at the same time
    Role,          \* roles of the configuration
    Fallback,      \* role -> its fallback_role, or None
    Attempts,      \* retry.maximum_attempts_per_provider
    MaxCost,       \* most one answer can cost
    DailyLimit,    \* budget.daily_limit_usd
    RunLimit,      \* budget.per_run_limit_usd
    MaxSeries,     \* calls a run makes
    None,
    Env            \* departures: "repair_denied"

VARIABLES
    phase, role, seen, tries,   \* where a call is, the role it is at, roles walked, attempts
    result,                     \* how the latest call of a run ended
    runCost, exhausted,         \* the Budget object of a run
    spent,                      \* the sum of today's rows of usage.tsv
    series,                     \* calls a run has begun
    final                       \* history: a failure that may not be walked around

avars == <<phase, role, seen, tries, result, runCost, exhausted, spent, series, final>>
money == <<runCost, exhausted, spent>>
walk == <<role, seen>>

Init ==
    /\ phase = [c \in Caller |-> "idle"]
    /\ role = [c \in Caller |-> None]
    /\ seen = [c \in Caller |-> {}]
    /\ tries = [c \in Caller |-> 0]
    /\ result = [c \in Caller |-> None]
    /\ runCost = [c \in Caller |-> 0]
    /\ exhausted = [c \in Caller |-> FALSE]
    /\ spent \in 0..DailyLimit
    /\ series = [c \in Caller |-> 0]
    /\ final = [c \in Caller |-> FALSE]

Goto(c, from, to) == phase[c] = from /\ phase' = [phase EXCEPT ![c] = to]

End(c, from, how) ==
    /\ Goto(c, from, "idle")
    /\ result' = [result EXCEPT ![c] = how]
    /\ UNCHANGED <<walk, tries>>

\* _fallback: the next role, unless it was walked already, or the call ends.
FallBack(c, from, how) ==
    /\ phase[c] = from
    /\ LET next == Fallback[role[c]] IN
       \/ (next = None \/ next \in seen[c]) /\ End(c, from, how)
       \/ /\ next # None /\ next \notin seen[c]
          /\ Goto(c, from, "gate")
          /\ role' = [role EXCEPT ![c] = next]
          /\ seen' = [seen EXCEPT ![c] = @ \cup {next}]
          /\ UNCHANGED <<tries, result>>

\* _check_daily counts what this run spent twice: it is in usage.tsv and in run_cost.
DailySpent(c) == spent + runCost[c] >= DailyLimit

\* Mutant: the limit of the run is compared with <=.
MayCallAtLimit(c) == ~exhausted[c] /\ ~DailySpent(c) /\ runCost[c] <= RunLimit
\* check_before_call, with the price known or its policy not "block".
MayCall(c) == ~exhausted[c] /\ ~DailySpent(c) /\ runCost[c] < RunLimit

StartCall(c, r) ==
    /\ Goto(c, "idle", "gate")
    /\ series[c] < MaxSeries
    /\ series' = [series EXCEPT ![c] = @ + 1]
    /\ role' = [role EXCEPT ![c] = r]
    /\ seen' = [seen EXCEPT ![c] = {r}]
    /\ result' = [result EXCEPT ![c] = None]
    /\ final' = [final EXCEPT ![c] = FALSE]
    /\ UNCHANGED <<tries, money>>

Gate(c) ==
    /\ \/ ~MayCall(c) /\ End(c, "gate", "budget_exceeded")
       \/ MayCall(c) /\ Goto(c, "gate", "invoke") /\ tries' = [tries EXCEPT ![c] = 1]
                     /\ UNCHANGED <<walk, result>>
    /\ UNCHANGED <<money, series, final>>

\* A retryable error before the last attempt: the same provider is asked again.
Retry(c) ==
    /\ phase[c] \in {"invoke", "repair"}
    /\ tries[c] < Attempts
    /\ tries' = [tries EXCEPT ![c] = @ + 1]
    /\ UNCHANGED <<phase, walk, result, money, series, final>>

\* An error of FALLBACK_KINDS; a retryable one only when the attempts are used up.
Unavailable(c) ==
    /\ FallBack(c, "invoke", "unavailable")
    /\ UNCHANGED <<money, series, final>>

\* Mutant: any error walks on.
DeniedFallsBack(c) ==
    /\ FallBack(c, "invoke", "denied")
    /\ final' = [final EXCEPT ![c] = TRUE]
    /\ UNCHANGED <<money, series>>
\* Authentication, policy, permission: the call ends.
Denied(c) ==
    /\ End(c, "invoke", "denied")
    /\ final' = [final EXCEPT ![c] = TRUE]
    /\ UNCHANGED <<money, series>>

\* settle: the row is appended, the run's counters grow, and what is exhausted by it stops
\* the next gate and not this answer.
Settle(c, cost) ==
    /\ spent' = spent + cost
    /\ runCost' = [runCost EXCEPT ![c] = @ + cost]
    /\ exhausted' = [exhausted EXCEPT ![c] = @ \/ spent' + runCost'[c] >= DailyLimit]

Answered(c) == \E cost \in 0..MaxCost :
    /\ Settle(c, cost)
    /\ \/ End(c, "invoke", "ok") /\ UNCHANGED final
       \/ End(c, "invoke", "refusal") /\ final' = [final EXCEPT ![c] = TRUE]
       \/ Goto(c, "invoke", "mend") /\ UNCHANGED <<walk, tries, result, final>>
    /\ UNCHANGED series

\* The answer does not fit the schema: one repair, if the budget allows it.
RepairGate(c) ==
    /\ \/ ~MayCall(c) /\ FallBack(c, "mend", "malformed")
       \/ MayCall(c) /\ Goto(c, "mend", "repair") /\ tries' = [tries EXCEPT ![c] = 1]
                     /\ UNCHANGED <<walk, result>>
    /\ UNCHANGED <<money, series, final>>

RepairAnswered(c) == \E cost \in 0..MaxCost :
    /\ Settle(c, cost)
    /\ End(c, "repair", "ok") \/ FallBack(c, "repair", "malformed")
    /\ UNCHANGED <<series, final>>

\* Whatever error ends the repair, the walk goes on as after malformed output.
RepairFails(c) ==
    /\ FallBack(c, "repair", "malformed")
    /\ \/ UNCHANGED final
       \/ "repair_denied" \in Env /\ final' = [final EXCEPT ![c] = TRUE]
    /\ UNCHANGED <<money, series>>

Next == \E c \in Caller :
    \/ \E r \in Role : StartCall(c, r)
    \/ Gate(c) \/ Retry(c) \/ Unavailable(c) \/ Denied(c) \/ Answered(c)
    \/ RepairGate(c) \/ RepairAnswered(c) \/ RepairFails(c)

Spec == Init /\ [][Next]_avars

-----------------------------------------------------------------------------
TypeOK ==
    /\ phase \in [Caller -> {"idle", "gate", "invoke", "mend", "repair"}]
    /\ result \in [Caller -> {None, "ok", "refusal", "denied", "unavailable", "malformed",
                              "budget_exceeded"}]
    /\ seen \in [Caller -> SUBSET Role]
    /\ tries \in [Caller -> 0..Attempts]
    /\ runCost \in [Caller -> Nat]
    /\ spent \in Nat

\* budget.py: each run stops within one answer of its limit, and all of them together
\* within one answer each of the daily one, however many retries, repairs and fallbacks
\* their calls take and however they overlap.
SpendBounded ==
    /\ \A c \in Caller : runCost[c] < RunLimit + MaxCost
    /\ spent <= DailyLimit + Cardinality(Caller) * MaxCost

\* invoke.py 9-12: after a refusal, an authentication or a policy error no further role is
\* asked in this call.  Does not hold when it is the schema repair that is refused.
NeverBypassed == \A c \in Caller : final[c] => phase[c] = "idle"
=============================================================================
