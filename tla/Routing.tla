------------------------------ MODULE Routing ------------------------------
(***************************************************************************)
(* Who does the work of a cycle, and when there is capacity for it         *)
(* (core/capacity.py, core/routing.py, and their use in core/project.py):  *)
(* the ledger of calls and the user's own limits, the estimate of a cycle, *)
(* the decision to start, reroute, wait or ask a human, and the chains of  *)
(* backends that plan, code and review.  CallChain has the breaker and the *)
(* errors of a single call in full; here a call is answered, or its        *)
(* backend is over a limit, has an outage, or needs a login.               *)
(***************************************************************************)
EXTENDS Naturals, Sequences, FiniteSets, FiniteSetsExt

CONSTANTS
    Backend,      \* numbers in the order of the backends' names
    Local,        \* those of type "local"
    Excluded,     \* role -> embedding models and unverified CLIs
    Able,         \* role -> backends that meet its required capabilities
    Preferred,    \* role -> sequence of backends
    Strength,     \* backend -> sum of its capability levels
    Limits,       \* [backend, what, hours, max], `what' is "calls" or "tokens"
    Cost,         \* role -> the most tokens a call of it takes
    Envelope,     \* backend-independent part of the estimate, before the safety factor
    Policy,       \* [independent, local, stopShort, confidence]: configured policies
    Faults,       \* what calls may suffer: subset of {"limit", "outage", "auth", "malformed"}
    MaxHour,      \* bound of the clock; no wait ends later, so none begins then
    MaxWork,      \* bound of the coder's calls in a cycle
    MaxCalls,     \* bound: no cycle starts once so many calls are in the ledger
    None

VARIABLES
    hour,
    board,        \* backend -> [state, until, fails]
    used,         \* ledger: backend -> hour -> [calls, ok, tokens]
    highest,      \* backend -> tokens of its biggest cycle
    nextRun,      \* next_run_at, or None
    decision,     \* of the last decide_start: [kind, backend, known]
    role, chain, pos,   \* the call under way; role is None between cycles
    coders,       \* the coder's chain of this cycle
    author,       \* the backend that wrote the code
    work, spent,        \* the coder's calls in this cycle, and their tokens
    repaired      \* an answer in this cycle was malformed

dvars == <<hour, board, used, highest, nextRun, decision, role, chain, pos, coders, author,
           work, spent, repaired>>

Hours == 0..MaxHour
Least(m, n) == IF m < n THEN m ELSE n
Clear == [state |-> "available", until |-> None, fails |-> 0]

-----------------------------------------------------------------------------
(***************************************************************************)
(* Ledger and breaker.                                                     *)
(***************************************************************************)
Window(hours) == {h \in Hours : h <= hour /\ h + hours >= hour}

In(b, hours, what) == MapThenSumSet(LAMBDA h : used[b][h][what], Window(hours))

\* Mutant: a limit is reached when it is exceeded.
Exceeded(b) == \E l \in Limits : l.backend = b /\ In(b, l.hours, l.what) > l.max

\* The bound of the instance.
Room == MapThenSumSet(LAMBDA bh : used[bh[1]][bh[2]].calls, Backend \X Hours) < MaxCalls

\* limit_status.
Reached(b) == \E l \in Limits : l.backend = b /\ In(b, l.hours, l.what) >= l.max

TokenLimits(b) == {l \in Limits : l.backend = b /\ l.what = "tokens"}

\* remaining_by_limits, with a limit.
Left(b) == Min({IF In(b, l.hours, "tokens") > l.max THEN 0 ELSE l.max - In(b, l.hours, "tokens") :
                    l \in TokenLimits(b)})

\* _maybe_reopen: half-open when the wait is over.
State(b) == IF /\ board[b].state \in {"limited", "unavailable"}
               /\ hour >= board[b].until
            THEN "cooling" ELSE board[b].state
Available(b) == State(b) \in {"available", "degraded"}

Logged(b, calls, ok, tokens) ==
    [used EXCEPT ![b][hour] = [calls |-> @.calls + calls, ok |-> @.ok + ok,
                               tokens |-> @.tokens + tokens]]

-----------------------------------------------------------------------------
(***************************************************************************)
(* capability_chain.                                                       *)
(***************************************************************************)
Candidates(r) == {b \in Backend \ Excluded[r] :
                     State(b) # "auth" /\ (b \in Able[r] \/ b \in Range(Preferred[r]))}

Rank(r, b) == IF b \in Range(Preferred[r])
              THEN CHOOSE i \in DOMAIN Preferred[r] : Preferred[r][i] = b
              ELSE Len(Preferred[r]) + 2
Health(b)  == IF Available(b) THEN 0 ELSE 1

\* The share of successes in a day against another's, one half for a backend without calls.
Better(b, c) == LET n(x)  == In(x, 24, "calls")
                    ok(x) == IF n(x) = 0 THEN 1 ELSE In(x, 24, "ok")
                    d(x)  == IF n(x) = 0 THEN 2 ELSE n(x) IN
                ok(b) * d(c) > ok(c) * d(b)

Ahead(r, b, c) ==
    \/ Health(b) < Health(c)
    \/ /\ Health(b) = Health(c)
       /\ \/ Rank(r, b) < Rank(r, c)
          \/ /\ Rank(r, b) = Rank(r, c)
             /\ \/ Strength[b] > Strength[c]
                \/ /\ Strength[b] = Strength[c]
                   /\ Better(b, c) \/ (~Better(c, b) /\ b < c)

\* The candidate in a place is the one that so many others are ahead of.
Place(r, b) == Cardinality({c \in Candidates(r) : Ahead(r, c, b)}) + 1
Ordered(r)  == [i \in 1..Cardinality(Candidates(r)) |->
                   CHOOSE b \in Candidates(r) : Place(r, b) = i]

\* The part of a chain that is in S.
Only(seq, S) ==
    LET kept[i \in 0..Len(seq)] ==
            IF i = 0 THEN <<>>
            ELSE IF seq[i] \in S THEN Append(kept[i - 1], seq[i]) ELSE kept[i - 1] IN
    kept[Len(seq)]

\* The backend that heads the coder's chain goes last in a reviewer's.
Independent(seq, writers) ==
    IF ~Policy.independent \/ writers = <<>> THEN seq
    ELSE Only(seq, Backend \ {writers[1]}) \o Only(seq, {writers[1]})

NoLocalFallback(seq) ==
    IF Policy.local \/ seq = <<>> THEN seq
    ELSE <<seq[1]>> \o Only(Tail(seq), Backend \ Local)

\* make_caller._chain_for: a reviewer's chain looks at the coder's chain of this moment.
ChainFor(r) ==
    NoLocalFallback(IF r = "qa" THEN Independent(Ordered(r), NoLocalFallback(Ordered("coder")))
                    ELSE Ordered(r))

-----------------------------------------------------------------------------
(***************************************************************************)
(* decide_start.                                                           *)
(***************************************************************************)
\* Mutant: the estimate has no reserve for the review.
BareRequired(b) == Cost["conductor"] + Cost["coder"]

\* estimate_cycle_tokens: the larger of estimate and history, times 1.35.
Required(b) == ((IF highest[b] > Envelope THEN highest[b] ELSE Envelope) * 27) \div 20

Usable(b)   == Available(b) /\ ~Reached(b)
Measured(b) == Usable(b) /\ TokenLimits(b) # {}
Enough(b)   == Measured(b) /\ (Left(b) >= Required(b) \/ ~Policy.stopShort)
First(S, seq) == seq[Min({i \in DOMAIN seq : seq[i] \in S})]

Waits(seq) == {b \in Range(seq) : ~Available(b) /\ board[b].until # None}
Earliest(seq) == Min({board[b].until : b \in Waits(seq)})

\* A measured backend with enough left goes before one of unknown capacity.
Starts(seq) ==
    LET enough  == {b \in Range(seq) : Enough(b)}
        unknown == {b \in Range(seq) : Usable(b) /\ ~Measured(b)} IN
    IF enough # {} THEN [kind |-> "start", backend |-> First(enough, seq), known |-> TRUE]
    ELSE IF unknown # {} /\ ~Policy.confidence
         THEN [kind |-> "start", backend |-> First(unknown, seq), known |-> FALSE]
    ELSE [kind |-> IF unknown = {} /\ Waits(seq) # {}
                   THEN "wait" ELSE "human",
          backend |-> None, known |-> FALSE]

Call(r, seq) == role' = r /\ chain' = seq /\ pos' = 1
NoCall       == role' = None /\ chain' = <<>> /\ pos' = 1

\* run_cycle up to the conductor's call.  Without a chain routing_chain raises.
Decide ==
    /\ role = None /\ Room
    /\ IF nextRun = None THEN TRUE ELSE hour >= nextRun
    /\ LET seq == ChainFor("coder") IN
       /\ seq # <<>>
       /\ decision' = Starts(seq)
       /\ IF Starts(seq).kind = "start"
          THEN /\ ChainFor("conductor") # <<>> /\ Call("conductor", ChainFor("conductor"))
               /\ coders' = <<Starts(seq).backend>> \o
                             Only(seq, Backend \ {Starts(seq).backend})
               /\ nextRun' = None
          ELSE /\ NoCall /\ coders' = <<>>
               /\ nextRun' = IF Starts(seq).kind = "wait" THEN Earliest(seq) ELSE nextRun
    /\ author' = None /\ work' = 0 /\ spent' = 0 /\ repaired' = FALSE
    /\ UNCHANGED <<hour, board, used, highest>>

\* _finish_cycle: a successful cycle is recorded under the coder's backend, with the coder's
\* tokens; one that failed counts for nothing.
EndCycle(success) ==
    /\ NoCall
    /\ highest' = IF ~success THEN highest
                  ELSE [highest EXCEPT ![author] = IF spent > @ THEN spent ELSE @]
    /\ nextRun' = hour      \* the interval between cycles is shorter than an hour
    /\ coders' = <<>> /\ author' = None /\ work' = 0 /\ spent' = 0 /\ repaired' = FALSE
    /\ UNCHANGED decision

-----------------------------------------------------------------------------
(***************************************************************************)
(* invoke_backend for the role's chain.                                    *)
(***************************************************************************)
At == chain[pos]

\* The call goes on with the next backend of the chain, or the cycle has failed.
Further ==
    IF pos < Len(chain)
    THEN /\ pos' = pos + 1
         /\ UNCHANGED <<role, chain, highest, nextRun, decision, coders, author, work, spent,
                        repaired>>
    ELSE EndCycle(FALSE)

\* Half-open: a health check closes the breaker, or the backend is skipped.
Probe ==
    /\ role # None /\ State(At) = "cooling"
    /\ \/ /\ board' = [board EXCEPT ![At].state = "available"]
          /\ UNCHANGED <<role, chain, pos, highest, nextRun, decision, coders, author, work,
                         spent, repaired>>
       \/ Further /\ UNCHANGED board
    /\ UNCHANGED <<hour, used>>

Skip ==
    /\ role # None
    /\ State(At) \in {"limited", "unavailable", "auth"} \/ (Available(At) /\ Reached(At))
    /\ Further
    /\ UNCHANGED <<hour, board, used>>

\* What the role's answer leads to.
Proceed(tokens, again) ==
    \/ /\ role = "conductor"
       /\ Call("coder", coders) /\ repaired' = (repaired \/ again)
       /\ UNCHANGED <<highest, nextRun, decision, coders, author, work, spent>>
    \/ /\ role = "coder"
       /\ role' = "checks" /\ chain' = <<At>> /\ pos' = 1
       /\ author' = At /\ work' = work + 1 /\ spent' = spent + tokens
       /\ repaired' = (repaired \/ again)
       /\ UNCHANGED <<highest, nextRun, decision, coders>>
    \/ /\ role = "qa"
       /\ \E approved \in BOOLEAN : EndCycle(approved)
    \/ /\ role = "qa" /\ work < MaxWork
       /\ Call("coder", coders) /\ repaired' = (repaired \/ again)
       /\ UNCHANGED <<highest, nextRun, decision, coders, author, work, spent>>

\* The repair of a malformed answer passes no limit.
Answered ==
    /\ role \in DOMAIN Cost /\ Available(At) /\ ~Reached(At)
    /\ \E calls \in IF "malformed" \in Faults THEN 1..2 ELSE {1} :
       /\ used' = Logged(At, calls, calls, calls * Cost[role])
       /\ Proceed(Cost[role], calls = 2)
    /\ board' = [board EXCEPT ![At] = Clear]
    /\ UNCHANGED hour

\* The checks have passed and the review starts.
Review ==
    /\ role = "checks"
    /\ LET seq == ChainFor("qa") IN seq # <<>> /\ Call("qa", seq)
    /\ UNCHANGED <<hour, board, used, highest, nextRun, decision, coders, author, work, spent,
                   repaired>>

\* record_failure; a login that is needed ends the call.
Fails(kind) ==
    /\ kind \in Faults /\ role \in DOMAIN Cost /\ Available(At) /\ ~Reached(At)
    /\ kind # "auth" => hour < MaxHour
    /\ used' = Logged(At, 1, 0, 0)
    /\ LET e == board[At]
           fails == Least(e.fails + 1, 3) IN
       \/ /\ kind = "limit"
          /\ board' = [board EXCEPT ![At] =
                 [state |-> "limited", until |-> hour + 1, fails |-> fails]]
          /\ Further
       \/ /\ kind = "outage"
          /\ board' = [board EXCEPT ![At] =
                 IF fails = 3
                 THEN [state |-> "unavailable", until |-> hour + 1, fails |-> 3]
                 ELSE [e EXCEPT !.state = "degraded", !.fails = fails]]
          /\ Further
       \/ /\ kind = "auth"
          /\ board' = [board EXCEPT ![At] = [state |-> "auth", until |-> None, fails |-> fails]]
          /\ EndCycle(FALSE)
    /\ UNCHANGED hour

HourPasses ==
    /\ hour < MaxHour
    /\ hour' = hour + 1
    /\ UNCHANGED <<board, used, highest, nextRun, decision, role, chain, pos, coders, author,
                   work, spent, repaired>>

Init ==
    /\ hour = 0 /\ board = [b \in Backend |-> Clear]
    /\ used = [b \in Backend |-> [h \in Hours |-> [calls |-> 0, ok |-> 0, tokens |-> 0]]]
    /\ highest = [b \in Backend |-> 0] /\ nextRun = None
    /\ decision = [kind |-> "none", backend |-> None, known |-> FALSE]
    /\ role = None /\ chain = <<>> /\ pos = 1 /\ coders = <<>> /\ author = None
    /\ work = 0 /\ spent = 0 /\ repaired = FALSE

Next == \/ Decide \/ Probe \/ Skip \/ Answered \/ Review \/ HourPasses
        \/ \E kind \in {"limit", "outage", "auth"} : Fails(kind)

Spec == Init /\ [][Next]_dvars

-----------------------------------------------------------------------------
TypeOK ==
    /\ hour \in Hours /\ nextRun \in Hours \cup {None}
    /\ \A b \in Backend : board[b].state \in
           {"available", "degraded", "limited", "unavailable", "cooling", "auth"}
    /\ role \in DOMAIN Cost \cup {"checks", None}
    /\ Range(chain) \subseteq Backend /\ (role # None => pos \in DOMAIN chain)

MostCost == Max(Range(Cost))

\* backends.py 245-256: a limit is passed by the call that reaches it, and the repair of its
\* answer, only.
LimitsKept == \A l \in Limits :
    In(l.backend, l.hours, l.what) <=
        IF l.what = "calls" THEN l.max + 1 ELSE l.max - 1 + 2 * MostCost

\* capacity.md: "a task that fits only without its review does not start".  A cycle that
\* starts on a measured backend is not stopped by its token limits before the first review
\* is over, as long as no answer is malformed.
EnvelopeSuffices ==
    /\ decision.known /\ Policy.stopShort /\ ~repaired
    /\ role \in {"conductor", "coder", "qa"} /\ work <= 1 /\ (role = "coder" => work = 0)
    => \A l \in TokenLimits(decision.backend) : In(l.backend, l.hours, "tokens") < l.max

(***************************************************************************)
(* What the documentation says and the code does not do.                   *)
(***************************************************************************)
\* model-routing.md 23-24: the worker's backend is "last in reviewer chains".
AuthorReviewsLast == role = "qa" /\ author \in Range(chain) => chain[Len(chain)] = author

\* README.md 434-437: re-enabling a backend "requires the wait plus a health check", so a
\* project that waits for a backend is worked on again.
WorkResumes == decision.kind = "wait" /\ Room ~> decision.kind = "start"

\* capacity.py 269: a human is asked when "no configured backend is usable", which an hour
\* later they would be.
HumanIsNeeded == decision.kind = "human" => \A b \in Backend : ~Reached(b)

-----------------------------------------------------------------------------
\* Cycles are invoked again and again, calls end, and time passes.
FairSpec == Spec /\ WF_dvars(Decide) /\ WF_dvars(Probe \/ Skip \/ Answered \/ Review)
                 /\ WF_dvars(HourPasses)
=============================================================================
