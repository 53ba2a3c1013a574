------------------------------ MODULE Context ------------------------------
(***************************************************************************)
(* Assembly of a prompt (core/context/broker.py, compose.py, items.py):    *)
(* the candidate items of one model call, in the order in which compose    *)
(* puts them, are deduplicated; the mandatory ones are admitted or the     *)
(* build fails; the others are admitted by rank as far as the budget and   *)
(* the allocation of their category go; and what rendering adds may evict  *)
(* some of them again.                                                     *)
(*                                                                         *)
(* An item is [id, category, tokens, relevance, trust, content, path,      *)
(* span, supersedes]; equal contents are equal fingerprints, span is       *)
(* <<first, last>> or None.                                                *)
(***************************************************************************)
EXTENDS Naturals, Sequences, FiniteSets, FiniteSetsExt

CONSTANTS
    Candidates,   \* the sequence the candidates are taken from
    Windows,      \* windows of the models
    Reserve,      \* reserved_output_tokens
    Percent,      \* category of optional items -> its allocation
    Title, Wrap,  \* tokens of a section's title and of the fence around untrusted data
    MinPiece,     \* the smallest allowance an item is truncated for
    Factor,       \* safety_multiplier in percent
    Marker,       \* characters of the note at the end of a truncated item
    None

VARIABLES
    stage,        \* "dedup", "mandatory", "optional", "render", "done" or "failed"
    items,        \* the candidates, later those that are not duplicates
    given,        \* what the build was asked for
    budget,
    package,      \* items admitted; one that was truncated with its new size
    waiting,      \* optional items not looked at yet
    omitted       \* ids of items in omitted_items

bvars == <<stage, items, given, budget, package, waiting, omitted>>

Mandatory     == {"policy", "role_contract", "output_schema", "work_order", "validation"}
PolicyBearing == {"policy", "role_contract", "output_schema"}
NeverTruncate == PolicyBearing \cup {"validation"}

Elements(seq) == {seq[i] : i \in 1..Len(seq)}
Tokens(S)     == MapThenSumSet(LAMBDA i : i.tokens, S)
IsMandatory(i) == i.category \in Mandatory

\* The prompt: a title for each section, a fence around untrusted content.
Rendered(S) == Tokens(S) + Title * Cardinality({i.category : i \in S})
                         + Wrap * Cardinality({i \in S : i.trust = "untrusted"})

\* What an item is dropped for: one that replaces it, an earlier one with its content, or an
\* earlier range of code around it.
Replaced(i, all) == \E j \in all : j.supersedes = i.id
Repeats(i, kept) == \E j \in kept : j.content = i.content
Within(i, kept)  ==
    IF i.category # "code" \/ i.span = None THEN FALSE
    ELSE \E j \in kept : IF j.category # "code" \/ j.span = None \/ j.path # i.path THEN FALSE
                         ELSE j.span[1] <= i.span[1] /\ i.span[2] <= j.span[2]

\* What is left of a sequence, from one item to the next.
Unique(seq) ==
    LET kept[n \in 0..Len(seq)] ==
            IF n = 0 THEN <<>>
            ELSE IF \/ Replaced(seq[n], Elements(seq))
                    \/ Repeats(seq[n], Elements(kept[n - 1]))
                    \/ Within(seq[n], Elements(kept[n - 1]))
                 THEN kept[n - 1] ELSE Append(kept[n - 1], seq[n]) IN
    kept[Len(seq)]

\* The part of the candidates that a call has.
Only(seq, S) ==
    LET kept[n \in 0..Len(seq)] ==
            IF n = 0 THEN <<>>
            ELSE IF seq[n] \in S THEN Append(kept[n - 1], seq[n]) ELSE kept[n - 1] IN
    kept[Len(seq)]

Init ==
    /\ stage = "dedup"
    /\ \E chosen \in SUBSET Elements(Candidates) :
          items = Only(Candidates, chosen)
    /\ given = Elements(items)
    \* compose always has a policy and a role contract.
    /\ \E i \in given : i.category = "policy"
    /\ \E window \in Windows : window > Reserve /\ budget = window - Reserve
    /\ package = {} /\ waiting = {} /\ omitted = {}

\* _guard_trust, then _deduplicate.
Deduplicate ==
    /\ stage = "dedup"
    /\ IF \E i \in given : i.trust = "untrusted" /\ i.category \in PolicyBearing
       THEN stage' = "failed" /\ UNCHANGED <<items, omitted>>
       ELSE /\ stage' = "mandatory"
            /\ items' = Unique(items)
            /\ omitted' = {i.id : i \in given \ Elements(Unique(items))}
    /\ UNCHANGED <<given, budget, package, waiting>>

\* Mutant: what must be there is admitted as far as it goes.
AdmitWhatFits == LET must == {i \in Elements(items) : IsMandatory(i)} IN
    /\ stage = "mandatory"
    /\ stage' = "optional"
    /\ package' = {i \in must : Tokens(must) > budget => i.category \in PolicyBearing}
    /\ waiting' = Elements(items) \ must
    /\ UNCHANGED <<items, given, budget, omitted>>

\* All of it or nothing.
AdmitMandatory == LET must == {i \in Elements(items) : IsMandatory(i)} IN
    /\ stage = "mandatory"
    /\ IF Tokens(must) > budget THEN stage' = "failed" /\ UNCHANGED <<package, waiting>>
       ELSE /\ stage' = "optional"
            /\ package' = must
            /\ waiting' = Elements(items) \ must
    /\ UNCHANGED <<items, given, budget, omitted>>

\* The relevant first, then the trusted; what is left is decided by dates and random ids.
Before(i, j) == \/ i.relevance > j.relevance
                \/ i.relevance = j.relevance /\ i.trust = "trusted" /\ j.trust = "untrusted"

Remaining == IF Tokens(package) >= budget THEN 0 ELSE budget - Tokens(package)

\* Mutant: the allocation of a category is given to each of its items.
ShareEach(c) == (budget * Percent[c]) \div 100

\* What the allocation of a category leaves.
Share(c) == LET cap == (budget * Percent[c]) \div 100
                used == Tokens({i \in package : i.category = c}) IN
            IF used >= cap THEN 0 ELSE cap - used

Allowed(i) == IF Share(i.category) < Remaining THEN Share(i.category) ELSE Remaining

Takes(i, j) ==
    /\ package' = package \cup {j}
    /\ waiting' = waiting \ {i}
    /\ UNCHANGED omitted

\* estimate_tokens: four characters a token, times the multiplier.
Estimate(chars) == (chars * Factor + 399) \div 400

\* _truncate_at_boundary keeps more than one and at most three characters for a token that is
\* allowed, and the note comes on top: at a multiplier above 4/3 that may be too much.
CutLeast(allowed) == Estimate(allowed + 1 + Marker)
CutMost(allowed)  == Estimate(3 * allowed + Marker)

\* An item that fits; a longer one is cut at a boundary, if there is one where it is to be; or it
\* is left out.
Admit(i) ==
    /\ stage = "optional"
    /\ \A j \in waiting : ~Before(j, i)
    /\ \/ 0 < Allowed(i) /\ i.tokens <= Allowed(i) /\ Takes(i, i)
       \/ /\ i.tokens > Allowed(i) /\ Allowed(i) >= MinPiece /\ i.category \notin NeverTruncate
          /\ \E n \in CutLeast(Allowed(i))..CutMost(Allowed(i)) :
                n <= i.tokens + Estimate(Marker) /\ Takes(i, [i EXCEPT !.tokens = n])
       \/ /\ Allowed(i) = 0 \/ i.tokens > Allowed(i)
          /\ omitted' = omitted \cup {i.id}
          /\ waiting' = waiting \ {i}
          /\ UNCHANGED package
    /\ UNCHANGED <<stage, items, given, budget>>

Render ==
    /\ stage = "optional" /\ waiting = {}
    /\ stage' = IF Rendered(package) <= budget THEN "done" ELSE "render"
    /\ UNCHANGED <<items, given, budget, package, waiting, omitted>>

\* Mutant: whatever is least relevant goes.
RemovableAll == package

Removable == {i \in package : ~IsMandatory(i)}

\* _shrink_to_budget: the least relevant goes, of two the smaller one, until it fits.
Evict ==
    /\ stage = "render"
    /\ IF Removable = {} THEN stage' = "failed" /\ UNCHANGED <<package, omitted>>
       ELSE \E i \in Removable :
          /\ \A j \in Removable : \/ i.relevance < j.relevance
                                  \/ i.relevance = j.relevance /\ i.tokens <= j.tokens
          /\ package' = package \ {i}
          /\ omitted' = omitted \cup {i.id}
          /\ stage' = IF Rendered(package') <= budget THEN "done" ELSE "render"
    /\ UNCHANGED <<items, given, budget, waiting>>

Next == \/ Deduplicate \/ AdmitMandatory \/ Render \/ Evict
        \/ \E i \in waiting : Admit(i)

Spec == Init /\ [][Next]_bvars

-----------------------------------------------------------------------------
TypeOK ==
    /\ stage \in {"dedup", "mandatory", "optional", "render", "done", "failed"}
    /\ {i.id : i \in package \cup waiting} \cup omitted \subseteq {i.id : i \in given}

Contents(S) == {i.content : i \in S}

\* The items of a category take no more than its allocation, or all of it but what one item was
\* cut to, by at least the smallest piece.
WithinCap(S, cap) ==
    \/ Tokens(S) <= cap
    \/ \E i \in S : LET rest == Tokens(S \ {i}) IN
          rest + MinPiece <= cap /\ i.tokens <= CutMost(cap - rest)

\* broker.py 5-9: the budget "is never exceeded"; a mandatory item is in the prompt as it
\* was given, or what it says is; a category takes more than its allocation by one cut only.
PromptIsSound == stage = "done" =>
    /\ Rendered(package) <= budget
    /\ \A i \in given : IsMandatory(i) /\ ~Replaced(i, given) =>
           i \in package \/ i.content \in Contents({j \in package : IsMandatory(j)})
    /\ \A c \in DOMAIN Percent :
           WithinCap({i \in package : i.category = c}, (budget * Percent[c]) \div 100)

\* What a cut leaves is what was allowed, as it is by default.
CutsFit == \A n \in Nat : n >= MinPiece => CutMost(n) <= n

\* broker.py 14: "every inclusion/omission is recorded".
EveryItemAccounted == stage = "done" =>
    /\ \A i \in given : \/ i.id \in omitted
                        \/ i.id \in {j.id : j \in package}
    /\ omitted \cap {j.id : j \in package} = {}

(***************************************************************************)
(* What the documentation says and the code does not do.                   *)
(***************************************************************************)
\* broker.py 274: "bucket caps bound optional content per allocation percentages".
CapsBound == stage = "done" => \A c \in DOMAIN Percent :
    Tokens({i \in package : i.category = c}) <= (budget * Percent[c]) \div 100

\* broker.py 342: when rendering exceeds the budget "mandatory content alone was already
\* proven to fit".
FailsForContent == stage = "failed" =>
    \/ Tokens({i \in Elements(items) : IsMandatory(i)}) > budget
    \/ \E i \in given : i.trust = "untrusted" /\ i.category \in PolicyBearing

\* What is left out as a duplicate is in the prompt.
DuplicatesRepresented == stage = "done" =>
    \A i \in given \ Elements(items) : ~Replaced(i, given) /\ Repeats(i, Elements(items)) =>
        i.content \in Contents(package)
=============================================================================
