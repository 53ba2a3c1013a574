-------------------------- MODULE TaskBuild_proofs --------------------------
(***************************************************************************)
(* Theorems about TaskBuild for every chain of backends, every number of   *)
(* candidates, every limit on repairs and reviews and every set of         *)
(* worktree contents.                                                      *)
(***************************************************************************)
EXTENDS TaskBuild, FiniteSetTheorems, TLAPS

-----------------------------------------------------------------------------
(***************************************************************************)
(* The backends of the chain.                                              *)
(***************************************************************************)
K == Cardinality(Backends)

LEMMA BackendsFinite == /\ IsFiniteSet(Backends)
                        /\ K \in Nat \ {0}
<1> DEFINE f == [i \in 1..Len(Chain) |-> Chain[i]]
<1>1. Len(Chain) \in Nat /\ Len(Chain) > 0
  BY BuildAssumption DEF BuildAssumption
<1>2. IsFiniteSet(1..Len(Chain))
  BY <1>1, FS_Interval
<1>3. f \in Surjection(1..Len(Chain), Backends)
  BY DEF Backends, Surjection
<1>4. IsFiniteSet(Backends)
  BY <1>2, <1>3, FS_Surjection
<1>5. Chain[1] \in Backends
  BY <1>1 DEF Backends
<1>6. K \in Nat
  BY <1>4, FS_CardinalityType DEF K
<1>7. K # 0
  BY <1>4, <1>5, FS_EmptySet DEF K
<1> QED
  BY <1>4, <1>6, <1>7

\* What the handoff to the rest of a set of backends leaves.
LEMMA FewerRemain ==
    ASSUME NEW S \in SUBSET Backends, NEW T \in SUBSET S, NEW b \in S, b \notin T
    PROVE  /\ Cardinality(T) \in Nat /\ Cardinality(S) \in Nat
           /\ Cardinality(T) <= Cardinality(S) - 1
<1>1. IsFiniteSet(S)
  BY BackendsFinite, FS_Subset
<1>2. IsFiniteSet(S \ {b}) /\ Cardinality(S \ {b}) = Cardinality(S) - 1
  BY <1>1, FS_RemoveElement
<1>3. T \in SUBSET (S \ {b})
  OBVIOUS
<1>4. IsFiniteSet(T) /\ Cardinality(T) <= Cardinality(S \ {b})
  BY <1>2, <1>3, FS_Subset
<1> QED
  BY <1>1, <1>2, <1>4, FS_CardinalityType

LEMMA Times == /\ \A k, n \in Nat : k * (n + 1) = k * n + k /\ k * n \in Nat
               /\ \A k, m, n \in Nat : m <= n => k * m <= k * n
<1>1. \A k, n \in Nat : k * (n + 1) = k * n + k /\ k * n \in Nat
  OBVIOUS
<1>2. \A k, m, n \in Nat : m <= n => k * m <= k * n
  OBVIOUS
<1> QED
  BY <1>1, <1>2

-----------------------------------------------------------------------------
(***************************************************************************)
(* Types.  The counters of the loop stay within their limits until the     *)
(* cycle ends, and an answer belongs to a launched call.                   *)
(***************************************************************************)
Result == [state : {"out", "capacity", "survived"}, qa : 0..1, rank : Ranks \cup {0}]

LEMMA InitTyped == Init => TypeOK
<1> SUFFICES ASSUME Init
             PROVE  TypeOK
  OBVIOUS
<1>1. Candidates \in Nat \ {0, 1} /\ Clean \in Tree
  BY BuildAssumption DEF BuildAssumption
<1>2. [state |-> "out", qa |-> 0, rank |-> 0] \in Result
  BY DEF Result
<1>3. cands \in [Worktree -> Result]
  BY <1>2 DEF Init
<1>4. at \in Worktree
  BY <1>1 DEF Init, Worktree
<1>5. checked \in [Worktree -> SUBSET Tree] /\ reviewed \in [qa : SUBSET Tree, security : SUBSET Tree]
  BY DEF Init
<1> QED
  BY <1>1, <1>3, <1>4, <1>5 DEF Init, TypeOK, Result

LEMMA RecordTyped ==
    ASSUME TypeOK, NEW result \in Result, Record(result)
    PROVE  /\ at' \in Worktree
           /\ phase' \in {"launch", "select"}
           /\ cands' \in [Worktree -> Result]
           /\ outcome' = outcome
<1>1. Candidates \in Nat \ {0, 1}
  BY BuildAssumption DEF BuildAssumption
<1>2. at' \in Worktree
  BY <1>1 DEF TypeOK, Record, Worktree
<1>3. cands' \in [Worktree -> Result]
  BY DEF TypeOK, Record, Result
<1> QED
  BY <1>2, <1>3 DEF Record

LEMMA DisqualifyTyped ==
    ASSUME TypeOK, NEW capacity \in BOOLEAN, Disqualify(capacity)
    PROVE  /\ at' \in Worktree
           /\ phase' \in {"launch", "select"}
           /\ cands' \in [Worktree -> Result]
           /\ outcome' = outcome
<1>1. [state |-> IF capacity THEN "capacity" ELSE "out", qa |-> 0, rank |-> 0] \in Result
  BY DEF Result
<1> QED
  BY <1>1, RecordTyped DEF Disqualify

LEMMA CallFailsTyped ==
    ASSUME TypeOK, NEW b \in Backends, NEW kind \in {"limit", "outage", "denied"},
           CallFails(b, kind)
    PROVE  /\ at' \in Worktree
           /\ phase' \in {"launch", "select", "done"}
           /\ cands' \in [Worktree -> Result]
           /\ outcome' \in {"none", "merged", "limit", "failure", "blocked", "held"}
           /\ handoff' \subseteq Backends
           /\ failedBackends' \subseteq Backends
<1>1. CASE mode = "parallel"
  BY <1>1, DisqualifyTyped DEF CallFails, TypeOK, routeVars
<1>2. CASE mode # "parallel"
  BY <1>2 DEF CallFails, TypeOK, routeVars, End, Remaining, Result
<1> QED
  BY <1>1, <1>2

LEMMA GoesOnTyped ==
    ASSUME TypeOK, phase = "ask", NEW b \in left, NEW kind \in {"limit", "outage"}, GoesOn(b, kind)
    PROVE  /\ left' \subseteq Backends
           /\ lastErr' \in {"limit", "outage"}
           /\ phase' \in {"ask", "launch", "select", "done"}
           /\ outcome' \in {"none", "merged", "limit", "failure", "blocked", "held"}
           /\ handoff' \subseteq Backends
           /\ failedBackends' \subseteq Backends
           /\ at' \in Worktree
           /\ cands' \in [Worktree -> Result]
<1>1. b \in Backends
  BY DEF TypeOK
<1>2. left' \subseteq Backends /\ lastErr' \in {"limit", "outage"}
  BY DEF GoesOn, TypeOK
<1>3. CASE left' # {}
  BY <1>2, <1>3 DEF GoesOn, TypeOK, routeVars, Result
<1>4. CASE left' = {}
  BY <1>1, <1>2, <1>4, CallFailsTyped DEF GoesOn
<1> QED
  BY <1>3, <1>4

LEMMA CallTyped == ASSUME TypeOK, NEW b \in Backends, Call(b)
                   PROVE  TypeOK'
<1> USE DEF Turn
<1>1. CASE Skipped(b)
  BY <1>1, GoesOnTyped DEF Skipped, TypeOK, Result, loopVars, seenVars, treeVars
<1>2. CASE Limit(b)
  BY <1>2, GoesOnTyped DEF Limit, TypeOK, Result, loopVars, seenVars, treeVars
<1>3. CASE Outage(b)
  BY <1>3, GoesOnTyped DEF Outage, TypeOK, Result, loopVars, seenVars, treeVars
<1>4. CASE Denies(b)
  BY <1>4, CallFailsTyped DEF Denies, TypeOK, Result, callVars, loopVars, seenVars, treeVars
<1>5. CASE Answers(b)
  BY <1>5 DEF Answers, TypeOK, callVars, routeVars, loopVars, candVars, seenVars, treeVars
<1> QED
  BY <1>1, <1>2, <1>3, <1>4, <1>5 DEF Call

LEMMA ApplyTyped ==
    ASSUME TypeOK, NEW t \in Tree, NEW refused \in BOOLEAN, Apply(t, refused)
    PROVE  /\ trees' \in [Worktree -> Tree] /\ staged' \in [Worktree -> Tree]
           /\ at' \in Worktree
           /\ phase' \in {"launch", "gate", "select", "done"}
           /\ handoff' \subseteq Backends
           /\ det' \in Nat
           /\ cands' \in [Worktree -> Result]
           /\ outcome' \in {"none", "merged", "limit", "failure", "blocked", "held"}
<1>1. Clean \in Tree /\ MaxDet \in Nat
  BY BuildAssumption DEF BuildAssumption
<1>2. CASE ~Violates(t, refused)
  BY <1>2 DEF Apply, Stage, TypeOK, Result
<1>3. CASE Violates(t, refused) /\ mode = "parallel"
  <2>1. Disqualify(FALSE)
    BY <1>3 DEF Apply
  <2>2. /\ at' \in Worktree
        /\ phase' \in {"launch", "select"}
        /\ cands' \in [Worktree -> Result]
        /\ outcome' = outcome
    BY <2>1, DisqualifyTyped
  <2>3. /\ trees' \in [Worktree -> Tree] /\ staged' \in [Worktree -> Tree]
        /\ UNCHANGED <<handoff, det>>
    BY <1>3 DEF Apply, Stage, TypeOK
  <2> QED
    BY <2>2, <2>3 DEF TypeOK
<1>4. CASE Violates(t, refused) /\ mode # "parallel"
  BY <1>1, <1>4 DEF Apply, Stage, TypeOK, Repair, End, Result
<1> QED
  BY <1>2, <1>3, <1>4

LEMMA ChecksTyped ==
    ASSUME TypeOK, ChecksRun
    PROVE  trees' \in [Worktree -> Tree] /\ staged' \in [Worktree -> Tree]
<1>1. PICK t \in Litter[trees[at]] : trees' = [trees EXCEPT ![at] = t]
  BY DEF ChecksRun
<1>2. t \in Tree
  BY <1>1, BuildAssumption DEF BuildAssumption, TypeOK
<1> QED
  BY <1>1, <1>2 DEF ChecksRun, TypeOK

LEMMA StepTyped == TypeOK /\ [Next]_vars => TypeOK'
<1> SUFFICES ASSUME TypeOK, [Next]_vars
             PROVE  TypeOK'
  OBVIOUS
<1> USE BuildAssumption
    DEF BuildAssumption, Repair, Revert, Stage, End, callVars, routeVars, loopVars,
        candVars, seenVars, treeVars
<1>1. CASE NoEngine
  BY <1>1 DEF NoEngine, TypeOK
<1>2. CASE Launch
  BY <1>2 DEF Launch, TypeOK
<1>3. CASE Revalidate
  <2>1. trees[1] \in Tree
    BY DEF TypeOK, Worktree
  <2> QED
    BY <1>3, <2>1, ApplyTyped DEF Revalidate, TypeOK, Result
<1>4. CASE \E b \in Backends : Call(b)
  BY <1>4, CallTyped
<1>5. CASE \E c \in BOOLEAN : ClaimsBlocked(c)
  <2> PICK c \in BOOLEAN : ClaimsBlocked(c)
    BY <1>5
  <2>1. CASE mode = "parallel"
    BY <2>1, DisqualifyTyped DEF ClaimsBlocked, TypeOK, Result
  <2>2. CASE mode # "parallel"
    <3>1. trees' \in [Worktree -> Tree] /\ staged' \in [Worktree -> Tree]
      BY <2>2 DEF ClaimsBlocked, TypeOK
    <3> QED
      BY <2>2, <3>1, SMTT(40) DEF ClaimsBlocked, TypeOK
  <2> QED
    BY <2>1, <2>2
<1>6. CASE \E t \in Tree, refused \in BOOLEAN : Edits(t, refused)
  BY <1>6, ApplyTyped DEF Edits, TypeOK, Result
<1>7. CASE FindsNoChecks
  <2>1. CASE mode = "parallel"
    BY <1>7, <2>1, DisqualifyTyped DEF FindsNoChecks, TypeOK, Result
  <2>2. CASE mode # "parallel"
    BY <1>7, <2>2 DEF FindsNoChecks, TypeOK
  <2> QED
    BY <2>1, <2>2
<1>8. CASE ChecksPass
  BY <1>8, ChecksTyped DEF ChecksPass, TypeOK
<1>9. CASE \E e \in Errors : ChecksFail(e)
  <2> PICK e \in Errors : ChecksFail(e)
    BY <1>9
  <2>1. trees' \in [Worktree -> Tree] /\ staged' \in [Worktree -> Tree]
    BY ChecksTyped DEF ChecksFail, TypeOK
  <2>2. <<e, staged[at]>> \in Errors \X Tree
    BY DEF TypeOK
  <2>3. CASE mode = "parallel"
    BY <2>1, <2>3, DisqualifyTyped DEF ChecksFail, TypeOK, Result
  <2>4. CASE mode # "parallel"
    BY <2>1, <2>2, <2>4 DEF ChecksFail, TypeOK
  <2> QED
    BY <2>3, <2>4
<1>10. CASE Approves
  BY <1>10 DEF Approves, TypeOK
<1>11. CASE Objects
  BY <1>11 DEF Objects, TypeOK
<1>12. CASE \E qa \in 0..1, rank \in Ranks : Survives(qa, rank)
  <2> PICK qa \in 0..1, rank \in Ranks : Survives(qa, rank)
    BY <1>12
  <2>1. [state |-> "survived", qa |-> qa, rank |-> rank] \in Result
    BY DEF Result
  <2> QED
    BY <2>1, RecordTyped DEF Survives, TypeOK, Result
<1>13. CASE \E w \in Worktree : Select(w)
  BY <1>13 DEF Select, Ambiguous, TypeOK
<1>14. CASE NoneSurvives
  BY <1>14 DEF NoneSurvives, TypeOK
<1>15. CASE SecurityPasses
  BY <1>15 DEF SecurityPasses, TypeOK
<1>16. CASE SecurityObjects \/ FindsSecret \/ Integrate
  BY <1>16 DEF SecurityObjects, FindsSecret, Integrate, TypeOK
<1>17. CASE \E t \in Tree : Writes(t)
  BY <1>17 DEF Writes, TypeOK
<1>18. CASE \E b \in Backends : WaitOver(b)
  BY <1>18 DEF WaitOver, TypeOK
<1>19. CASE UNCHANGED vars
  BY <1>19 DEF vars, TypeOK
<1> QED
  BY <1>1, <1>2, <1>3, <1>4, <1>5, <1>6, <1>7, <1>8, <1>9, <1>10, <1>11, <1>12, <1>13,
     <1>14, <1>15, <1>16, <1>17, <1>18, <1>19 DEF Next, Step

\* Every reachable state of every instance is well typed.
THEOREM TypeCorrect == Spec => []TypeOK
<1> QED
  BY InitTyped, StepTyped, PTL DEF Spec

-----------------------------------------------------------------------------
(***************************************************************************)
(* What a cycle spends on coder calls.  One walk through the loop may cost *)
(* a call per backend, because a call that ends in a limit hands the task  *)
(* to the backends that remain; each repair or objection pays for another  *)
(* walk.                                                                   *)
(***************************************************************************)
Due   == K * (det + rounds + 1)
Total == K * (MaxDet + MaxRounds + 1)

\* Calls that the current walk may still need.
Open == IF handoff = {} THEN K ELSE Cardinality(handoff)

CountersBounded == phase # "done" => det <= MaxDet /\ rounds <= MaxRounds

HandoffRemains == handoff # {} => handoff = Backends \ failedBackends

WalkInHandoff == phase = "ask" /\ handoff # {} => left \subseteq handoff

CallsPaid ==
    mode = "single" =>
        /\ calls <= Total
        /\ phase = "launch" => calls + Open <= Due
        /\ phase = "ask" => calls + Open <= Due + 1
        /\ phase \in {"answer", "gate", "review"} => calls <= Due

\* In a fan-out candidate w makes the w-th call.
CallsCounted ==
    mode = "parallel" =>
        /\ calls <= Candidates
        /\ phase = "launch" => calls = at - 1
        /\ phase \in {"ask", "answer", "gate", "review"} => calls = at

CallInv == CountersBounded /\ HandoffRemains /\ WalkInHandoff /\ CallsPaid /\ CallsCounted

-----------------------------------------------------------------------------
(***************************************************************************)
(* What is known of the contents of the worktrees.                         *)
(***************************************************************************)
InScope(w) == staged[w] \in AllowedPaths \cap WithinLimit
Passed(w)  == InScope(w) /\ checked[w] = {staged[w]} /\ trees[w] \in Litter[staged[w]]

Building == {"launch", "ask", "answer", "gate", "review"}

NotDecided == phase # "done" => outcome = "none"

BuildChecked == /\ phase \in {"gate", "review"} => InScope(at)
                /\ phase = "gate" => trees[at] = staged[at]
                /\ phase = "review" => Passed(at)

\* A candidate that survived is not touched any more while the winner is not known.
SurvivorsChecked ==
    /\ phase # "done" => \A w \in Survivors : Passed(w)
    /\ Survivors # {} => mode = "parallel"
    /\ phase \in Building => \A w \in Survivors : w < at

MergeReady ==
    phase \in {"security", "commit"} =>
        /\ Passed(at)
        /\ mode = "single" => reviewed.qa = {staged[at]}
        /\ mode = "parallel" /\ ~tied => \A w \in Survivors \ {at} : Better(at, w)
        /\ phase = "commit" /\ staged[at] \in Sensitive => reviewed.security = {staged[at]}

MergeInv == /\ NotDecided /\ BuildChecked /\ SurvivorsChecked /\ MergeReady
            /\ MergedIsChecked /\ MergedIsApproved /\ BestIsMerged

-----------------------------------------------------------------------------
(***************************************************************************)
(* The calls.                                                              *)
(***************************************************************************)
LEMMA OpenTyped == TypeOK => Open \in Nat /\ 1 <= Open /\ Open <= K
<1> SUFFICES ASSUME TypeOK
             PROVE  Open \in Nat /\ 1 <= Open /\ Open <= K
  OBVIOUS
<1>1. K \in Nat \ {0}
  BY BackendsFinite
<1>2. CASE handoff = {}
  BY <1>1, <1>2 DEF Open
<1>3. CASE handoff # {}
  <2>1. IsFiniteSet(handoff) /\ Cardinality(handoff) <= K
    BY BackendsFinite, FS_Subset DEF TypeOK, K
  <2>2. Cardinality(handoff) \in Nat /\ Cardinality(handoff) # 0
    BY <1>3, <2>1, FS_CardinalityType, FS_EmptySet
  <2> QED
    BY <1>3, <2>1, <2>2 DEF Open
<1> QED
  BY <1>2, <1>3

LEMMA DueTyped == TypeOK => Due \in Nat /\ K <= Due
<1> SUFFICES ASSUME TypeOK
             PROVE  Due \in Nat /\ K <= Due
  OBVIOUS
<1>1. K \in Nat
  BY BackendsFinite
<1>2. det + rounds \in Nat
  BY DEF TypeOK
<1>3. K * (det + rounds + 1) = K * (det + rounds) + K /\ K * (det + rounds) \in Nat
  BY <1>1, <1>2, Times
<1> QED
  BY <1>1, <1>3 DEF Due

LEMMA DueWithinTotal == TypeOK /\ CountersBounded /\ phase # "done" => Due <= Total
<1> SUFFICES ASSUME TypeOK, CountersBounded, phase # "done"
             PROVE  Due <= Total
  OBVIOUS
<1>1. K \in Nat
  BY BackendsFinite
<1>2. MaxDet \in Nat /\ MaxRounds \in Nat
  BY BuildAssumption DEF BuildAssumption
<1>3. /\ det + rounds + 1 \in Nat /\ MaxDet + MaxRounds + 1 \in Nat
      /\ det + rounds + 1 <= MaxDet + MaxRounds + 1
  BY <1>2 DEF TypeOK, CountersBounded
<1> QED
  BY <1>1, <1>3, Times DEF Due, Total

LEMMA TotalTyped == Total \in Nat
<1>1. K \in Nat /\ MaxDet + MaxRounds \in Nat
  BY BackendsFinite, BuildAssumption DEF BuildAssumption
<1> QED
  BY <1>1, Times DEF Total

\* A repair or an objection pays for another walk.
LEMMA RepairPays == ASSUME TypeOK, det' + rounds' = det + rounds + 1
                    PROVE  Due' = Due + K
<1>1. K \in Nat /\ det + rounds \in Nat
  BY BackendsFinite DEF TypeOK
<1>2. K * (det + rounds + 1 + 1) = K * (det + rounds + 1) + K
  BY <1>1, Times
<1>3. K' = K
  BY DEF K, Backends
<1> QED
  BY <1>2, <1>3 DEF Due

LEMMA InitCalls == Init => CallInv
<1> SUFFICES ASSUME Init
             PROVE  CallInv
  OBVIOUS
<1>1. K \in Nat /\ MaxDet \in Nat /\ MaxRounds \in Nat /\ Candidates \in Nat
  BY BackendsFinite, BuildAssumption DEF BuildAssumption
<1>2. Total \in Nat
  BY TotalTyped
<1>3. Due = K /\ Open = K
  BY <1>1 DEF Init, Due, Open
<1> QED
  BY <1>1, <1>2, <1>3
  DEF Init, CallInv, CountersBounded, HandoffRemains, WalkInHandoff, CallsPaid, CallsCounted

\* A failed call leaves no more calls open than it paid for.
LEMMA FailedCallPaid ==
    ASSUME TypeOK, CallInv, phase = "ask", NEW b \in left,
           NEW kind \in {"limit", "outage", "denied"}, CallFails(b, kind),
           UNCHANGED <<mode, calls, det, rounds>>
    PROVE  CallInv'
<1> USE DEF CallInv
<1>1. K' = K /\ Due' = Due /\ Total' = Total /\ Backends' = Backends
  BY DEF K, Backends, Due, Total
<1>2. CASE mode = "parallel"
  <2>1. UNCHANGED <<handoff, failedBackends>> /\ phase' \in {"launch", "select"}
    BY <1>2 DEF CallFails, Disqualify, Record, routeVars
  <2>2. calls = at
    BY <1>2 DEF CallsCounted
  <2>3. phase' = "launch" => at' = at + 1
    BY <1>2 DEF CallFails, Disqualify, Record
  <2> QED
    BY <1>1, <1>2, <2>1, <2>2, <2>3
    DEF CountersBounded, HandoffRemains, WalkInHandoff, CallsPaid, CallsCounted, TypeOK, Worktree
<1>3. CASE mode # "parallel" /\ (kind # "limit" \/ Remaining(b) = {})
  BY <1>1, <1>3
  DEF CallFails, End, routeVars, CountersBounded, HandoffRemains, WalkInHandoff, CallsPaid,
      CallsCounted, TypeOK, Remaining
<1>4. CASE mode = "single" /\ kind = "limit" /\ Remaining(b) # {}
  <2>1. /\ phase' = "launch"
        /\ handoff' = Remaining(b)
        /\ failedBackends' = failedBackends \cup {b}
    BY <1>4 DEF CallFails
  <2>2. CASE handoff = {}
    <3>1. b \in Backends /\ Remaining(b) \in SUBSET Backends /\ b \notin Remaining(b)
      BY DEF TypeOK, Remaining
    <3>2. Cardinality(Remaining(b)) \in Nat /\ Cardinality(Remaining(b)) <= K - 1
      BY <3>1, FewerRemain DEF K
    <3>3. Open' <= Open - 1 /\ Open' \in Nat
      BY <1>4, <2>1, <2>2, <3>2 DEF Open
    <3> QED
      BY <1>1, <1>4, <2>1, <3>3, OpenTyped, DueTyped
      DEF CountersBounded, HandoffRemains, WalkInHandoff, CallsPaid, CallsCounted, TypeOK,
          Remaining
  <2>3. CASE handoff # {}
    <3>1. handoff = Backends \ failedBackends /\ b \in handoff
      BY <2>3 DEF HandoffRemains, WalkInHandoff
    <3>2. handoff \in SUBSET Backends /\ Remaining(b) \in SUBSET handoff /\ b \notin Remaining(b)
      BY <3>1 DEF Remaining
    <3>3. /\ Cardinality(Remaining(b)) \in Nat /\ Cardinality(handoff) \in Nat
          /\ Cardinality(Remaining(b)) <= Cardinality(handoff) - 1
      BY <3>1, <3>2, FewerRemain, ZenonT(60)
    <3>4. Open' <= Open - 1 /\ Open' \in Nat
      BY <1>4, <2>1, <2>3, <3>3 DEF Open
    <3> QED
      BY <1>1, <1>4, <2>1, <3>4, OpenTyped, DueTyped
      DEF CountersBounded, HandoffRemains, WalkInHandoff, CallsPaid, CallsCounted, TypeOK,
          Remaining
  <2> QED
    BY <2>2, <2>3
<1> QED
  BY <1>2, <1>3, <1>4 DEF TypeOK

LEMMA WalkPaid ==
    ASSUME TypeOK, CallInv, phase = "ask", NEW b \in left, NEW kind \in {"limit", "outage"},
           GoesOn(b, kind), UNCHANGED <<mode, calls, det, rounds>>
    PROVE  CallInv'
<1>1. CASE left' # {}
  <2>1. UNCHANGED <<phase, handoff, failedBackends, at>> /\ left' \subseteq left
    BY <1>1 DEF GoesOn, routeVars
  <2>2. Open' = Open /\ Due' = Due /\ Total' = Total /\ Backends' = Backends
    BY <2>1 DEF Open, Due, Total, K, Backends
  <2> QED
    BY <2>1, <2>2
    DEF CallInv, CountersBounded, HandoffRemains, WalkInHandoff, CallsPaid, CallsCounted
<1>2. CASE left' = {}
  BY <1>2, FailedCallPaid DEF GoesOn
<1> QED
  BY <1>1, <1>2

LEMMA DisqualifyPaid ==
    ASSUME TypeOK, CallInv, mode = "parallel", phase # "done", calls = at,
           NEW capacity \in BOOLEAN, Disqualify(capacity), UNCHANGED <<mode, calls, det, rounds, handoff, failedBackends>>
    PROVE  CallInv'
<1>1. phase' \in {"launch", "select"} /\ (phase' = "launch" => at' = at + 1)
  BY DEF Disqualify, Record
<1>2. Backends' = Backends
  BY DEF Backends
<1> QED
  BY <1>1, <1>2
  DEF CallInv, CountersBounded, HandoffRemains, WalkInHandoff, CallsPaid, CallsCounted, TypeOK,
      Worktree

\* Feedback restarts the loop with the whole chain.
LEMMA RepairPaid ==
    ASSUME TypeOK, mode = "single", calls' \in Nat, calls' <= Due, calls' <= Total,
           det' + rounds' = det + rounds + 1, det' <= MaxDet, rounds' <= MaxRounds, Repair,
           UNCHANGED mode
    PROVE  CallInv'
<1>1. Due' = Due + K /\ Total' = Total /\ K' = K
  BY RepairPays DEF Total, K, Backends
<1>2. Open' = K /\ handoff' = {} /\ phase' = "launch"
  BY <1>1 DEF Open, Repair
<1>3. calls' + Open' <= Due'
  <2>1. K \in Nat /\ Due \in Nat
    BY BackendsFinite, DueTyped
  <2>2. \A c, d, k \in Nat : c <= d => c + k <= d + k
    OBVIOUS
  <2>3. calls' + K <= Due + K
    BY <2>1, <2>2
  <2> QED
    BY <1>1, <1>2, <2>3
<1> QED
  BY <1>1, <1>2, <1>3
  DEF CallInv, CountersBounded, HandoffRemains, WalkInHandoff, CallsPaid, CallsCounted

LEMMA EndPaid ==
    ASSUME CallInv, phase' = "done", calls' <= Total, UNCHANGED <<mode, failedBackends>>,
           mode = "parallel" => calls' <= Candidates,
           handoff' \in {handoff, {}}
    PROVE  CallInv'
<1>1. Total' = Total /\ Backends' = Backends
  BY DEF Total, K, Backends
<1> QED
  BY <1>1
  DEF CallInv, CountersBounded, HandoffRemains, WalkInHandoff, CallsPaid, CallsCounted

\* c calls were made when the edits are applied.
LEMMA ApplyPaid ==
    ASSUME TypeOK, CallInv, NEW t \in Tree, NEW refused \in BOOLEAN, Apply(t, refused),
           phase \in {"launch", "answer"}, calls' \in Nat,
           mode = "single" => calls' <= Due /\ calls' <= Total,
           mode = "parallel" => calls' = at /\ calls' = calls,
           calls' = calls \/ calls' = 1,
           UNCHANGED <<mode, rounds, failedBackends>>
    PROVE  CallInv'
<1>1. Total' = Total /\ Backends' = Backends /\ K' = K
  BY DEF Total, K, Backends
<1>2. MaxDet \in Nat
  BY BuildAssumption DEF BuildAssumption
<1>3. CASE ~Violates(t, refused)
  <2>1. UNCHANGED <<handoff, at, det>> /\ phase' = "gate"
    BY <1>3 DEF Apply
  <2>2. Due' = Due
    BY <1>1, <2>1 DEF Due
  <2> QED
    BY <1>1, <2>1, <2>2
    DEF CallInv, CountersBounded, HandoffRemains, WalkInHandoff, CallsPaid, CallsCounted, TypeOK,
        Worktree
<1>4. CASE Violates(t, refused) /\ mode = "parallel"
  <2>1. Disqualify(FALSE) /\ UNCHANGED <<handoff, det>>
    BY <1>4 DEF Apply
  <2> QED
    BY <1>4, <2>1, DisqualifyPaid
<1>5. CASE Violates(t, refused) /\ mode = "single"
  <2>1. det' = det + 1
    BY <1>5 DEF Apply
  <2>2. CASE det + 1 >= MaxDet
    <3>1. phase' = "done" /\ handoff' = handoff
      BY <1>5, <2>2 DEF Apply, End
    <3> QED
      BY <1>1, <1>5, <3>1, EndPaid
  <2>3. CASE ~(det + 1 >= MaxDet)
    <3>1. Repair
      BY <1>5, <2>3 DEF Apply
    <3>2. det' + rounds' = det + rounds + 1 /\ det' <= MaxDet /\ rounds' <= MaxRounds
      BY <1>2, <2>1, <2>3 DEF CallInv, CountersBounded, TypeOK
    <3> QED
      BY <1>5, <3>1, <3>2, RepairPaid
  <2> QED
    BY <2>2, <2>3
<1> QED
  BY <1>3, <1>4, <1>5 DEF TypeOK

\* Steps that change neither what was spent nor what the loop may still spend.
LEMMA QuietPaid ==
    ASSUME TypeOK, CallInv, UNCHANGED <<mode, calls, det, rounds, handoff, failedBackends>>,
           \/ UNCHANGED <<phase, left, at>>
           \/ /\ phase' \notin {"launch", "ask"}
              /\ at' = at \/ phase' = "security"
              /\ phase' \in {"answer", "gate", "review"} => 
                     phase \in {"ask", "answer", "gate", "review"}
              /\ phase = "done" => phase' = "done"
    PROVE  CallInv'
<1>1. Total' = Total /\ Backends' = Backends /\ Due' = Due /\ Open' = Open
  BY DEF Total, K, Backends, Due, Open
<1>2. Open \in Nat /\ 1 <= Open /\ Due \in Nat /\ calls \in Nat
  BY OpenTyped, DueTyped DEF TypeOK
<1> QED
  BY <1>1, <1>2
  DEF CallInv, CountersBounded, HandoffRemains, WalkInHandoff, CallsPaid, CallsCounted

LEMMA LaunchPaid == ASSUME TypeOK, CallInv, Launch
                    PROVE  CallInv'
<1>1. Total' = Total /\ Backends' = Backends /\ Due' = Due /\ Open' = Open
  BY DEF Launch, routeVars, loopVars, Total, K, Backends, Due, Open
<1>2. Open \in Nat /\ 1 <= Open /\ Due \in Nat /\ Due <= Total /\ calls \in Nat /\ Total \in Nat
  BY OpenTyped, DueTyped, DueWithinTotal, TotalTyped DEF TypeOK, CallInv, Launch
<1>3. Candidates \in Nat /\ at \in 1..Candidates
  BY BuildAssumption DEF BuildAssumption, TypeOK, Worktree
<1> QED
  BY <1>1, <1>2, <1>3
  DEF Launch, routeVars, loopVars, CallInv, CountersBounded, HandoffRemains, WalkInHandoff,
      CallsPaid, CallsCounted

LEMMA CallPaid == ASSUME TypeOK, CallInv, NEW b \in Backends, Call(b)
                  PROVE  CallInv'
<1> USE DEF Turn, loopVars
<1>1. CASE Skipped(b)
  <2>1. lastErr \in {"limit", "outage"}
    BY DEF TypeOK
  <2> QED
    BY <1>1, <2>1, WalkPaid DEF Skipped
<1>2. CASE Limit(b)
  BY <1>2, WalkPaid DEF Limit
<1>3. CASE Outage(b)
  BY <1>3, WalkPaid DEF Outage
<1>4. CASE Denies(b)
  BY <1>4, FailedCallPaid DEF Denies
<1>5. CASE Answers(b)
  BY <1>5, QuietPaid DEF Answers, callVars, routeVars
<1> QED
  BY <1>1, <1>2, <1>3, <1>4, <1>5 DEF Call

LEMMA StepCalls == TypeOK /\ CallInv /\ [Next]_vars => CallInv'
<1> SUFFICES ASSUME TypeOK, CallInv, [Next]_vars
             PROVE  CallInv'
  OBVIOUS
<1> USE DEF callVars, routeVars, loopVars, candVars, seenVars
<1>a. /\ MaxDet \in Nat /\ MaxRounds \in Nat /\ Candidates \in Nat
      /\ K \in Nat \ {0} /\ Total \in Nat /\ Due \in Nat /\ K <= Due
  BY BackendsFinite, TotalTyped, DueTyped, BuildAssumption DEF BuildAssumption
<1>b. calls <= Total \/ mode = "parallel"
  BY DEF CallInv, CallsPaid, TypeOK
<1>c. mode = "parallel" => calls <= Candidates
  BY DEF CallInv, CallsCounted
<1>1. CASE NoEngine \/ NoneSurvives
  BY <1>1, QuietPaid DEF NoEngine, NoneSurvives, End
<1>2. CASE Launch
  BY <1>2, LaunchPaid
<1>3. CASE Revalidate
  <2>1. mode = "single" /\ trees[1] \in Tree /\ phase = "launch"
    BY <1>3, BuildAssumption DEF BuildAssumption, Revalidate, Revalidates, TypeOK, Worktree
  <2>2. 1 <= Due /\ 1 <= Total
    BY <1>a, <2>1, DueWithinTotal DEF CallInv
  <2> QED
    BY <1>3, <2>1, <2>2, ApplyPaid DEF Revalidate
<1>4. CASE \E b \in Backends : Call(b)
  BY <1>4, CallPaid
<1>5. CASE \E c \in BOOLEAN : ClaimsBlocked(c)
  <2> PICK c \in BOOLEAN : ClaimsBlocked(c)
    BY <1>5
  <2>1. phase = "answer"
    BY DEF ClaimsBlocked
  <2>2. CASE mode = "parallel"
    <3>1. calls = at
      BY <2>1, <2>2 DEF CallInv, CallsCounted
    <3>2. Disqualify(FALSE) /\ UNCHANGED <<mode, calls, det, rounds, handoff, failedBackends>>
      BY <2>2 DEF ClaimsBlocked
    <3> QED
      BY <2>1, <2>2, <3>1, <3>2, DisqualifyPaid
  <2>3. CASE mode = "single" /\ c /\ det < MaxDet
    <3>1. Repair /\ UNCHANGED <<mode, calls, rounds>> /\ det' = det + 1
      BY <2>3 DEF ClaimsBlocked
    <3>2. calls <= Due /\ calls <= Total /\ calls \in Nat /\ rounds <= MaxRounds
      BY <2>1, <2>3 DEF CallInv, CallsPaid, CountersBounded, TypeOK
    <3>3. det' + rounds' = det + rounds + 1 /\ det' <= MaxDet
      BY <1>a, <2>3, <3>1 DEF TypeOK
    <3> QED
      BY <2>3, <3>1, <3>2, <3>3, RepairPaid
  <2>4. CASE mode = "single" /\ ~(c /\ det < MaxDet)
    <3>1. phase' = "done" /\ UNCHANGED <<mode, calls, handoff, failedBackends>>
      BY <2>4 DEF ClaimsBlocked, End
    <3> QED
      BY <1>b, <2>4, <3>1, EndPaid
  <2> QED
    BY <2>2, <2>3, <2>4 DEF TypeOK
<1>6. CASE \E t \in Tree, refused \in BOOLEAN : Edits(t, refused)
  <2> PICK t \in Tree, refused \in BOOLEAN : Edits(t, refused)
    BY <1>6
  <2>1. phase = "answer" /\ Apply(t, refused)
        /\ UNCHANGED <<mode, calls, rounds, failedBackends>>
    BY DEF Edits
  <2>2. /\ calls \in Nat
        /\ mode = "single" => calls <= Due /\ calls <= Total
        /\ mode = "parallel" => calls = at
    BY <2>1 DEF CallInv, CallsPaid, CallsCounted, TypeOK
  <2> QED
    BY <2>1, <2>2, ApplyPaid
<1>7. CASE FindsNoChecks
  <2>1. CASE mode = "parallel"
    <3>1. calls = at /\ phase # "done"
      BY <1>7, <2>1 DEF FindsNoChecks, CallInv, CallsCounted
    <3>2. Disqualify(FALSE) /\ UNCHANGED <<mode, calls, det, rounds, handoff, failedBackends>>
      BY <1>7, <2>1 DEF FindsNoChecks
    <3> QED
      BY <2>1, <3>1, <3>2, DisqualifyPaid
  <2>2. CASE mode # "parallel"
    <3>1. phase' = "done" /\ UNCHANGED <<mode, calls, handoff, failedBackends>>
      BY <1>7, <2>2 DEF FindsNoChecks, End
    <3> QED
      BY <1>b, <2>2, <3>1, EndPaid
  <2> QED
    BY <2>1, <2>2
<1>8. CASE ChecksPass \/ Approves
  BY <1>8, QuietPaid DEF ChecksPass, Approves
<1>9. CASE \E e \in Errors : ChecksFail(e)
  <2> PICK e \in Errors : ChecksFail(e)
    BY <1>9
  <2> DEFINE again == <<e, staged[at]>> \in seen
  <2>1. phase = "gate"
    BY DEF ChecksFail
  <2>2. CASE mode = "parallel"
    <3>1. calls = at
      BY <2>1, <2>2 DEF CallInv, CallsCounted
    <3>2. Disqualify(FALSE) /\ UNCHANGED <<mode, calls, det, rounds, handoff, failedBackends>>
      BY <2>2 DEF ChecksFail
    <3> QED
      BY <2>1, <2>2, <3>1, <3>2, DisqualifyPaid
  <2>3. CASE mode = "single" /\ ~again /\ ~(det + 1 >= MaxDet)
    <3>1. Repair /\ UNCHANGED <<mode, calls, rounds>> /\ det' = det + 1
      BY <2>3 DEF ChecksFail
    <3>2. calls <= Due /\ calls <= Total /\ calls \in Nat /\ rounds <= MaxRounds
      BY <2>1, <2>3 DEF CallInv, CallsPaid, CountersBounded, TypeOK
    <3>3. det' + rounds' = det + rounds + 1 /\ det' <= MaxDet
      BY <1>a, <2>3, <3>1 DEF TypeOK
    <3> QED
      BY <2>3, <3>1, <3>2, <3>3, RepairPaid
  <2>4. CASE mode = "single" /\ (again \/ det + 1 >= MaxDet)
    <3>1. phase' = "done" /\ UNCHANGED <<mode, calls, handoff, failedBackends>>
      BY <2>4 DEF ChecksFail, End
    <3> QED
      BY <1>b, <2>4, <3>1, EndPaid
  <2> QED
    BY <2>2, <2>3, <2>4 DEF TypeOK
<1>10. CASE Objects
  <2>1. phase = "review" /\ mode = "single" /\ rounds' = rounds + 1
        /\ UNCHANGED <<mode, calls, det, failedBackends>>
    BY <1>10 DEF Objects
  <2>2. CASE rounds + 1 > MaxRounds
    <3>1. phase' = "done" /\ UNCHANGED handoff
      BY <1>10, <2>2 DEF Objects, End
    <3> QED
      BY <1>b, <2>1, <3>1, EndPaid
  <2>3. CASE ~(rounds + 1 > MaxRounds)
    <3>1. Repair
      BY <1>10, <2>3 DEF Objects
    <3>2. calls <= Due /\ calls <= Total /\ calls \in Nat /\ det <= MaxDet
      BY <2>1 DEF CallInv, CallsPaid, CountersBounded, TypeOK
    <3>3. det' + rounds' = det + rounds + 1 /\ rounds' <= MaxRounds
      BY <1>a, <2>1, <2>3 DEF TypeOK
    <3> QED
      BY <2>1, <3>1, <3>2, <3>3, RepairPaid
  <2> QED
    BY <2>2, <2>3
<1>11. CASE \E qa \in 0..1, rank \in Ranks : Survives(qa, rank)
  <2> PICK qa \in 0..1, rank \in Ranks : Survives(qa, rank)
    BY <1>11
  <2>1. phase' \in {"launch", "select"} /\ (phase' = "launch" => at' = at + 1)
    BY DEF Survives, Record
  <2>2. calls = at /\ mode = "parallel" /\ phase = "review" /\ Backends' = Backends
        /\ UNCHANGED <<mode, calls, det, rounds, handoff, failedBackends>>
    BY DEF Survives, CallInv, CallsCounted, Backends
  <2> QED
    BY <2>1, <2>2
    DEF CallInv, CountersBounded, HandoffRemains, WalkInHandoff, CallsPaid, CallsCounted, TypeOK,
        Worktree
<1>12. CASE (\E w \in Worktree : Select(w)) \/ SecurityPasses
  BY <1>12, QuietPaid DEF Select, SecurityPasses
<1>13. CASE SecurityObjects \/ FindsSecret \/ Integrate
  BY <1>13, QuietPaid DEF SecurityObjects, FindsSecret, Integrate, End
<1>14. CASE (\E t \in Tree : Writes(t)) \/ (\E b \in Backends : WaitOver(b)) \/ UNCHANGED vars
  BY <1>14, QuietPaid DEF Writes, WaitOver, vars
<1> QED
  BY <1>1, <1>2, <1>3, <1>4, <1>5, <1>6, <1>7, <1>8, <1>9, <1>10, <1>11, <1>12, <1>13,
     <1>14 DEF Next, Step

\* Whatever a cycle goes through, it calls the coder at most once for each backend and
\* each walk that the limits on repairs and reviews allow, and once for each candidate
\* of a fan-out.
THEOREM CallsAreBounded == Spec => []CallsBounded
<1>1. TypeOK /\ CallInv => CallsBounded
  BY DEF TypeOK, CallInv, CallsPaid, CallsCounted, CallsBounded, Total, K
<1> QED
  BY <1>1, InitTyped, StepTyped, InitCalls, StepCalls, PTL DEF Spec

-----------------------------------------------------------------------------
(***************************************************************************)
(* What is merged.                                                         *)
(***************************************************************************)
LEMMA InitMerge == Init => MergeInv
  BY DEF Init, MergeInv, NotDecided, BuildChecked, SurvivorsChecked, MergeReady, Survivors,
         MergedIsChecked, MergedIsApproved, BestIsMerged

\* An attempt that ends without a merge has nothing left to show.
LEMMA EndMerge == ASSUME TypeOK, MergeInv, phase' = "done", outcome' # "merged",
                         UNCHANGED <<mode, cands>>
                  PROVE  MergeInv'
<1>1. Survivors' = Survivors
  BY DEF Survivors
<1> QED
  BY <1>1
  DEF MergeInv, NotDecided, BuildChecked, SurvivorsChecked, MergeReady, Building,
      MergedIsChecked, MergedIsApproved, BestIsMerged

\* A step concerns the worktree being built.
OthersKept ==
    \A w \in Worktree \ {at} : trees'[w] = trees[w] /\ staged'[w] = staged[w]

\* Back to the coder, with the content of the worktree being built left to it.
LEMMA BuildMerge ==
    ASSUME TypeOK, MergeInv, phase \in Building, phase' \in {"launch", "ask", "answer"},
           UNCHANGED <<mode, at, cands, checked, outcome>>,
           OthersKept
    PROVE  MergeInv'
<1>1. Survivors' = Survivors
  BY DEF Survivors
<1>2. at \in Int /\ Survivors \subseteq Int /\ Survivors \subseteq Worktree
  BY DEF TypeOK, Worktree, Survivors
<1>3. \A w \in Survivors : w # at
  BY <1>2 DEF MergeInv, SurvivorsChecked
<1>4. outcome = "none"
  BY DEF MergeInv, NotDecided, Building
<1>5. \A w \in Survivors : Passed(w)'
  BY <1>2, <1>3 DEF MergeInv, SurvivorsChecked, Building, Passed, InScope, OthersKept
<1> QED
  BY <1>1, <1>4, <1>5
  DEF MergeInv, NotDecided, BuildChecked, SurvivorsChecked, MergeReady, Building,
      MergedIsChecked, MergedIsApproved, BestIsMerged

\* A candidate is done: one that survived passed its checks.
LEMMA RecordMerge ==
    ASSUME TypeOK, MergeInv, phase \in Building, mode = "parallel", NEW result \in Result,
           Record(result), result.state = "survived" => Passed(at),
           UNCHANGED <<mode, checked>>,
           OthersKept,
           result.state = "survived" => UNCHANGED treeVars
    PROVE  MergeInv'
<1>1. Survivors' \subseteq Survivors \cup {at}
  BY DEF Survivors, Record, TypeOK
<1>2. at \in Int /\ Survivors \subseteq Int /\ Survivors \subseteq Worktree
  BY DEF TypeOK, Worktree, Survivors
<1>3. \A w \in Survivors : w < at /\ w # at
  BY <1>2 DEF MergeInv, SurvivorsChecked
<1>4. outcome = "none" /\ outcome' = "none"
  BY DEF MergeInv, NotDecided, Building, Record
<1>5. \A w \in Survivors : Passed(w)'
  <2>1. \A w \in Survivors : Passed(w) /\ trees'[w] = trees[w] /\ staged'[w] = staged[w]
    BY <1>2, <1>3 DEF MergeInv, SurvivorsChecked, Building, OthersKept
  <2> QED
    BY <2>1 DEF Passed, InScope
<1>6. \A w \in Survivors' : w = at => Passed(w)'
  BY DEF Survivors, Record, TypeOK, Passed, InScope, treeVars
<1>7. phase' \in Building => \A w \in Survivors' : w < at'
  BY <1>1, <1>2, <1>3 DEF Record, Building
<1>8. phase' \in {"launch", "select"}
  BY DEF Record
<1>9. \A w \in Survivors' : Passed(w)'
  BY <1>1, <1>5, <1>6
<1> QED
  BY <1>4, <1>7, <1>8, <1>9
  DEF MergeInv, NotDecided, BuildChecked, SurvivorsChecked, MergeReady, Building,
      MergedIsChecked, MergedIsApproved, BestIsMerged

LEMMA DisqualifyMerge ==
    ASSUME TypeOK, MergeInv, phase \in Building, mode = "parallel", NEW capacity \in BOOLEAN,
           Disqualify(capacity), UNCHANGED <<mode, checked>>,
           OthersKept
    PROVE  MergeInv'
<1> DEFINE result == [state |-> IF capacity THEN "capacity" ELSE "out", qa |-> 0, rank |-> 0]
<1>1. result \in Result /\ result.state # "survived"
  BY DEF Result
<1>2. Record(result)
  BY DEF Disqualify
<1> QED
  BY <1>1, <1>2, RecordMerge

\* The content of the worktrees and what is known of it stays.
LEMMA QuietMerge ==
    ASSUME TypeOK, MergeInv, UNCHANGED <<mode, treeVars, at, cands, tied, outcome, checked, reviewed>>,
           phase' = phase \/ (phase \in Building /\ phase' \in {"launch", "ask", "answer"})
    PROVE  MergeInv'
<1>1. Survivors' = Survivors
  BY DEF Survivors
<1> QED
  BY <1>1
  DEF MergeInv, NotDecided, BuildChecked, SurvivorsChecked, MergeReady, Building, Passed, InScope,
      Better, treeVars, MergedIsChecked, MergedIsApproved, BestIsMerged

LEMMA CallFailsMerge ==
    ASSUME TypeOK, MergeInv, phase = "ask", NEW b \in Backends,
           NEW kind \in {"limit", "outage", "denied"}, CallFails(b, kind),
           UNCHANGED <<mode, treeVars, tied, checked, reviewed>>
    PROVE  MergeInv'
<1>1. phase \in Building /\ OthersKept
  BY DEF Building, OthersKept, treeVars
<1>2. CASE mode = "parallel"
  <2>1. (kind = "limit") \in BOOLEAN /\ Disqualify(kind = "limit")
    BY <1>2 DEF CallFails
  <2> QED
    BY <1>1, <1>2, <2>1, DisqualifyMerge
<1>3. CASE mode # "parallel"
  <2>1. UNCHANGED <<at, cands>>
        /\ \/ phase' = "done" /\ outcome' \in {"failure", "limit"}
           \/ phase' = "launch" /\ UNCHANGED outcome
    BY <1>3 DEF CallFails, End
  <2>2. CASE phase' = "done"
    BY <2>1, <2>2, EndMerge
  <2>3. CASE phase' = "launch"
    BY <1>1, <2>1, <2>3, QuietMerge
  <2> QED
    BY <2>1, <2>2, <2>3
<1> QED
  BY <1>2, <1>3

LEMMA GoesOnMerge ==
    ASSUME TypeOK, MergeInv, phase = "ask", NEW b \in left, NEW kind \in {"limit", "outage"},
           GoesOn(b, kind), UNCHANGED <<mode, treeVars, tied, checked, reviewed>>
    PROVE  MergeInv'
<1>1. CASE left' # {}
  BY <1>1, QuietMerge DEF GoesOn
<1>2. CASE left' = {}
  BY <1>2, CallFailsMerge DEF GoesOn, TypeOK
<1> QED
  BY <1>1, <1>2

LEMMA CallMerge == ASSUME TypeOK, MergeInv, NEW b \in Backends, Call(b)
                   PROVE  MergeInv'
<1> USE DEF Turn, seenVars
<1>1. CASE Skipped(b)
  <2>1. lastErr \in {"limit", "outage"}
    BY DEF TypeOK
  <2> QED
    BY <1>1, <2>1, GoesOnMerge DEF Skipped
<1>2. CASE Limit(b)
  BY <1>2, GoesOnMerge DEF Limit
<1>3. CASE Outage(b)
  BY <1>3, GoesOnMerge DEF Outage
<1>4. CASE Denies(b)
  BY <1>4, CallFailsMerge DEF Denies
<1>5. CASE Answers(b)
  BY <1>5, QuietMerge DEF Answers, candVars, Building
<1> QED
  BY <1>1, <1>2, <1>3, <1>4, <1>5 DEF Call

\* What passes _apply_and_check_paths is in scope.
LEMMA ApplyMerge ==
    ASSUME TypeOK, MergeInv, phase \in {"launch", "answer"}, NEW t \in Tree,
           NEW refused \in BOOLEAN, Apply(t, refused),
           UNCHANGED <<mode, tied, checked, reviewed>>
    PROVE  MergeInv'
<1>1. phase \in Building /\ outcome = "none"
  BY DEF Building, MergeInv, NotDecided
<1>2. CASE ~Violates(t, refused)
  <2>1. /\ Stage(t) /\ phase' = "gate"
        /\ UNCHANGED <<outcome, at, cands>>
    BY <1>2 DEF Apply
  <2>2. trees'[at] = t /\ staged'[at] = t /\ OthersKept
    BY <2>1 DEF TypeOK, Stage, OthersKept
  <2>3. t \in AllowedPaths \cap WithinLimit
    BY <1>2 DEF Violates
  <2>4. Survivors' = Survivors
    BY <2>1 DEF Survivors
  <2>5. at \in Int /\ Survivors \subseteq Int /\ Survivors \subseteq Worktree
    BY DEF TypeOK, Worktree, Survivors
  <2>6. \A w \in Survivors : w # at /\ w < at /\ Passed(w)
    BY <1>1, <2>5 DEF MergeInv, SurvivorsChecked, Building
  <2>7. \A w \in Survivors : trees'[w] = trees[w] /\ staged'[w] = staged[w]
    BY <2>2, <2>5, <2>6 DEF OthersKept
  <2>8. \A w \in Survivors : Passed(w)'
    BY <2>6, <2>7 DEF Passed, InScope
  <2>9. BuildChecked'
    BY <2>1, <2>2, <2>3 DEF BuildChecked, InScope
  <2>10. SurvivorsChecked'
    BY <2>1, <2>4, <2>6, <2>8 DEF MergeInv, SurvivorsChecked
  <2> QED
    BY <1>1, <2>1, <2>9, <2>10
    DEF MergeInv, NotDecided, MergeReady, MergedIsChecked, MergedIsApproved, BestIsMerged
<1>3. CASE Violates(t, refused) /\ mode = "parallel"
  <2>1. Stage(t) /\ Disqualify(FALSE)
    BY <1>3 DEF Apply
  <2>2. OthersKept
    BY <2>1 DEF TypeOK, Stage, OthersKept
  <2> QED
    BY <1>1, <1>3, <2>1, <2>2, DisqualifyMerge
<1>4. CASE Violates(t, refused) /\ mode # "parallel"
  <2>1. /\ UNCHANGED <<at, cands>>
        /\ \/ phase' = "done" /\ outcome' = "blocked"
           \/ /\ phase' = "launch" /\ UNCHANGED outcome
              /\ Stage(t)
    BY <1>4 DEF Apply, End, Repair
  <2>2. CASE phase' = "done"
    BY <2>1, <2>2, EndMerge
  <2>3. CASE phase' = "launch"
    <3>1. OthersKept
      BY <2>1, <2>3 DEF TypeOK, Stage, OthersKept
    <3> QED
      BY <1>1, <2>1, <2>3, <3>1, BuildMerge
  <2> QED
    BY <2>1, <2>2, <2>3
<1> QED
  BY <1>2, <1>3, <1>4

LEMMA SelectMerge == ASSUME TypeOK, MergeInv, NEW win \in Worktree, Select(win)
                     PROVE  MergeInv'
<1>1. /\ phase = "select" /\ Wins(win) /\ at' = win /\ tied' = Ambiguous(win)
      /\ phase' = "security"
      /\ UNCHANGED <<mode, trees, staged, cands, outcome, checked, reviewed>>
  BY DEF Select, seenVars, treeVars
<1>2. Survivors' = Survivors
  BY <1>1 DEF Survivors
<1>3. win \in Survivors /\ mode = "parallel" /\ Passed(win)
  BY <1>1 DEF Wins, MergeInv, SurvivorsChecked
<1>4. ~tied' => \A w \in Survivors \ {win} : Better(win, w)
  BY <1>1 DEF Ambiguous
<1>5. \A w \in Survivors \ {win} : Better(win, w)' = Better(win, w)
  BY <1>1 DEF Better
<1>6. MergeReady'
  BY <1>1, <1>2, <1>3, <1>4, <1>5 DEF MergeReady, Passed, InScope, Better
<1>7. SurvivorsChecked'
  BY <1>1, <1>2, <1>3 DEF MergeInv, SurvivorsChecked, Passed, InScope, Building
<1> QED
  BY <1>1, <1>6, <1>7
  DEF MergeInv, NotDecided, BuildChecked, MergedIsChecked, MergedIsApproved, BestIsMerged

LEMMA ReviewMerge == ASSUME TypeOK, MergeInv, ChecksPass \/ Approves \/ SecurityPasses
                     PROVE  MergeInv'
<1>1. UNCHANGED <<mode, staged, at, cands, tied, outcome>> /\ phase \notin {"done", "select"}
  BY DEF ChecksPass, ChecksRun, Approves, SecurityPasses, candVars, treeVars
<1>2. Survivors' = Survivors /\ outcome = "none"
  BY <1>1 DEF Survivors, MergeInv, NotDecided
<1>3. CASE ChecksPass
  <2>1. /\ phase = "gate" /\ phase' = "review" /\ UNCHANGED reviewed
        /\ checked' = [checked EXCEPT ![at] = {trees[at]}]
        /\ \E t \in Litter[trees[at]] : trees' = [trees EXCEPT ![at] = t]
    BY <1>3 DEF ChecksPass, ChecksRun
  <2>2. at \in Int /\ Survivors \subseteq Int /\ Survivors \subseteq Worktree
    BY DEF TypeOK, Worktree, Survivors
  <2>3. \A w \in Survivors : w # at /\ w < at /\ Passed(w)
    <3>1. phase \in Building /\ phase # "done"
      BY <2>1 DEF Building
    <3> QED
      BY <2>2, <3>1 DEF MergeInv, SurvivorsChecked
  <2>4. \A w \in Survivors : checked'[w] = checked[w] /\ trees'[w] = trees[w]
    BY <2>1, <2>2, <2>3 DEF TypeOK
  <2>5. \A w \in Survivors : Passed(w)'
    BY <1>1, <2>3, <2>4 DEF Passed, InScope
  <2>6. BuildChecked'
    BY <1>1, <2>1 DEF MergeInv, BuildChecked, Passed, InScope, TypeOK
  <2>7. SurvivorsChecked'
    BY <1>1, <1>2, <2>3, <2>5 DEF MergeInv, SurvivorsChecked
  <2> QED
    BY <1>1, <1>2, <2>1, <2>6, <2>7
    DEF MergeInv, NotDecided, MergeReady, MergedIsChecked, MergedIsApproved, BestIsMerged
<1>4. CASE Approves
  <2>1. /\ phase = "review" /\ phase' = "security" /\ mode = "single"
        /\ UNCHANGED <<trees, checked>>
        /\ reviewed' = [reviewed EXCEPT !.qa = {staged[at]}]
    BY <1>4 DEF Approves, treeVars
  <2>2. reviewed'.qa = {staged[at]}
    BY <2>1 DEF TypeOK
  <2>3. MergeReady'
    BY <1>1, <2>1, <2>2 DEF MergeInv, BuildChecked, MergeReady, Passed, InScope
  <2>4. SurvivorsChecked'
    BY <1>1, <1>2, <2>1 DEF MergeInv, SurvivorsChecked, Passed, InScope, Building
  <2> QED
    BY <1>1, <1>2, <2>1, <2>3, <2>4
    DEF MergeInv, NotDecided, BuildChecked, MergedIsChecked, MergedIsApproved, BestIsMerged
<1>5. CASE SecurityPasses
  <2>1. /\ phase = "security" /\ phase' = "commit" /\ UNCHANGED <<trees, checked>>
        /\ reviewed' = IF staged[at] \in Sensitive
                       THEN [reviewed EXCEPT !.security = {staged[at]}] ELSE reviewed
    BY <1>5 DEF SecurityPasses, treeVars
  <2>2. /\ reviewed'.qa = reviewed.qa
        /\ staged[at] \in Sensitive => reviewed'.security = {staged[at]}
    BY <2>1 DEF TypeOK
  <2>3. MergeReady'
    BY <1>1, <1>2, <2>1, <2>2 DEF MergeInv, MergeReady, Passed, InScope, Better
  <2>4. SurvivorsChecked'
    BY <1>1, <1>2, <2>1 DEF MergeInv, SurvivorsChecked, Passed, InScope, Building
  <2> QED
    BY <1>1, <1>2, <2>1, <2>3, <2>4
    DEF MergeInv, NotDecided, BuildChecked, MergedIsChecked, MergedIsApproved, BestIsMerged
<1> QED
  BY <1>3, <1>4, <1>5

LEMMA IntegrateMerge == ASSUME TypeOK, MergeInv, Integrate
                        PROVE  MergeInv'
<1>1. /\ phase = "commit" /\ phase' = "done" /\ staged[at] \notin Secret
      /\ UNCHANGED <<mode, trees, staged, at, cands, tied, checked, reviewed>>
      /\ outcome' = "merged" => ~tied
  BY DEF Integrate, End, candVars, seenVars, treeVars
<1>2. CASE outcome' = "merged"
  <2>1. /\ Passed(at) /\ (mode = "single" => reviewed.qa = {staged[at]})
        /\ mode = "parallel" => \A w \in Survivors \ {at} : Better(at, w)
        /\ staged[at] \in Sensitive => reviewed.security = {staged[at]}
    BY <1>1, <1>2 DEF MergeInv, MergeReady
  <2>2. Survivors' = Survivors /\ Survivors \subseteq Worktree /\ at \in Worktree
    BY <1>1 DEF Survivors, TypeOK
  <2>3. BestIsMerged'
    BY <1>1, <2>1, <2>2 DEF BestIsMerged, Better, TypeOK
  <2>4. staged[at] \in Tree
    BY DEF TypeOK
  <2>5. MergedIsChecked' /\ MergedIsApproved'
    BY <1>1, <2>1, <2>4 DEF MergedIsChecked, MergedIsApproved, Passed, InScope
  <2> QED
    BY <1>1, <2>2, <2>3, <2>5
    DEF MergeInv, NotDecided, BuildChecked, SurvivorsChecked, MergeReady, Building
<1>3. CASE outcome' # "merged"
  BY <1>1, <1>3, EndMerge
<1> QED
  BY <1>2, <1>3

LEMMA ChecksKeep == TypeOK /\ ChecksRun => OthersKept
  BY DEF TypeOK, ChecksRun, OthersKept

LEMMA StepMerge == TypeOK /\ MergeInv /\ [Next]_vars => MergeInv'
<1> SUFFICES ASSUME TypeOK, MergeInv, [Next]_vars
             PROVE  MergeInv'
  OBVIOUS
<1> USE DEF candVars, seenVars, treeVars
<1>1. CASE NoEngine \/ NoneSurvives
  BY <1>1, EndMerge DEF NoEngine, NoneSurvives, End
<1>2. CASE Launch
  BY <1>2, QuietMerge DEF Launch, Building
<1>3. CASE Revalidate
  <2>1. trees[1] \in Tree /\ phase = "launch"
    BY <1>3, BuildAssumption DEF BuildAssumption, Revalidate, TypeOK, Worktree
  <2> QED
    BY <1>3, <2>1, ApplyMerge DEF Revalidate
<1>4. CASE \E b \in Backends : Call(b)
  BY <1>4, CallMerge
<1>5. CASE \E c \in BOOLEAN : ClaimsBlocked(c)
  <2> PICK c \in BOOLEAN : ClaimsBlocked(c)
    BY <1>5
  <2>1. phase = "answer" /\ phase \in Building
    BY DEF ClaimsBlocked, Building
  <2>2. CASE mode = "parallel"
    <3>1. Disqualify(FALSE) /\ UNCHANGED <<mode, checked, treeVars>>
      BY <2>2 DEF ClaimsBlocked
    <3>2. OthersKept
      BY <3>1 DEF OthersKept
    <3> QED
      BY <2>1, <2>2, <3>1, <3>2, DisqualifyMerge
  <2>3. CASE mode # "parallel"
    <3>1. /\ UNCHANGED <<mode, at, cands, tied, checked, reviewed>>
          /\ \/ phase' = "done" /\ outcome' = "blocked"
             \/ phase' = "launch" /\ UNCHANGED <<outcome, treeVars>>
      BY <2>3 DEF ClaimsBlocked, Repair, End
    <3> QED
      BY <2>1, <3>1, EndMerge, QuietMerge
  <2> QED
    BY <2>2, <2>3
<1>6. CASE \E t \in Tree, refused \in BOOLEAN : Edits(t, refused)
  BY <1>6, ApplyMerge DEF Edits
<1>7. CASE FindsNoChecks
  <2>1. CASE mode = "parallel"
    <3>1. Disqualify(FALSE) /\ phase = "gate" /\ UNCHANGED <<mode, checked, treeVars>>
      BY <1>7, <2>1 DEF FindsNoChecks
    <3>2. phase \in Building /\ OthersKept
      BY <3>1 DEF Building, OthersKept
    <3> QED
      BY <2>1, <3>1, <3>2, DisqualifyMerge
  <2>2. CASE mode # "parallel"
    BY <1>7, <2>2, EndMerge DEF FindsNoChecks, End
  <2> QED
    BY <2>1, <2>2
<1>8. CASE ChecksPass \/ Approves \/ SecurityPasses
  BY <1>8, ReviewMerge
<1>9. CASE \E e \in Errors : ChecksFail(e)
  <2> PICK e \in Errors : ChecksFail(e)
    BY <1>9
  <2>1. phase = "gate" /\ phase \in Building
    BY DEF ChecksFail, Building
  <2>2. CASE mode = "parallel"
    <3>1. Disqualify(FALSE) /\ UNCHANGED <<mode, checked>> /\ OthersKept
      BY <2>2, ChecksKeep DEF ChecksFail
    <3> QED
      BY <2>1, <2>2, <3>1, DisqualifyMerge
  <2>3. CASE mode # "parallel"
    <3>1. /\ UNCHANGED <<mode, at, cands, tied, checked, reviewed>>
          /\ \/ phase' = "done" /\ outcome' = "blocked"
             \/ phase' = "launch" /\ UNCHANGED outcome /\ OthersKept
      BY <2>3, ChecksKeep DEF ChecksFail, Repair, End
    <3> QED
      BY <2>1, <3>1, EndMerge, BuildMerge
  <2> QED
    BY <2>2, <2>3
<1>10. CASE Objects
  <2>1. /\ phase \in Building
        /\ UNCHANGED <<mode, at, cands, tied, checked, reviewed>>
        /\ \/ phase' = "done" /\ outcome' = "blocked"
           \/ phase' = "launch" /\ UNCHANGED <<outcome, treeVars>>
    BY <1>10 DEF Objects, Repair, End, Building
  <2> QED
    BY <2>1, EndMerge, QuietMerge
<1>11. CASE \E qa \in 0..1, rank \in Ranks : Survives(qa, rank)
  <2> PICK qa \in 0..1, rank \in Ranks : Survives(qa, rank)
    BY <1>11
  <2>1. /\ phase = "review" /\ phase \in Building /\ mode = "parallel"
        /\ Record([state |-> "survived", qa |-> qa, rank |-> rank])
        /\ UNCHANGED <<mode, checked, treeVars>>
    BY DEF Survives, Building
  <2>2. [state |-> "survived", qa |-> qa, rank |-> rank] \in Result
    BY DEF Result
  <2>3. Passed(at) /\ OthersKept
    BY <2>1 DEF MergeInv, BuildChecked, OthersKept
  <2> QED
    BY <2>1, <2>2, <2>3, RecordMerge
<1>12. CASE \E w \in Worktree : Select(w)
  BY <1>12, SelectMerge
<1>13. CASE SecurityObjects \/ FindsSecret
  BY <1>13, EndMerge DEF SecurityObjects, FindsSecret, End
<1>14. CASE Integrate
  BY <1>14, IntegrateMerge
<1>15. CASE \E t \in Tree : Writes(t)
  <2> PICK t \in Tree : Writes(t)
    BY <1>15
  <2>1. /\ phase = "ask" /\ phase \in Building /\ trees' = [trees EXCEPT ![at] = t]
        /\ UNCHANGED <<mode, staged, at, phase, cands, checked, outcome>>
    BY DEF Writes, Building
  <2>2. OthersKept
    BY <2>1 DEF TypeOK, OthersKept
  <2> QED
    BY <2>1, <2>2, BuildMerge
<1>16. CASE (\E b \in Backends : WaitOver(b)) \/ UNCHANGED vars
  BY <1>16, QuietMerge DEF WaitOver, vars
<1> QED
  BY <1>1, <1>2, <1>3, <1>4, <1>5, <1>6, <1>7, <1>8, <1>9, <1>10, <1>11, <1>12, <1>13,
     <1>14, <1>15, <1>16 DEF Next, Step

LEMMA MergeInvariant == Spec => []MergeInv
<1> QED
  BY InitTyped, StepTyped, InitMerge, StepMerge, PTL DEF Spec

\* Whatever repairs, handoffs, preserved work and candidates led to it, what is merged
\* is a content in scope, without a secret, that passed the checks and a due security
\* review, up to what the checks themselves wrote.
THEOREM OnlyCheckedIsMerged == Spec => []MergedIsChecked
<1>1. MergeInv => MergedIsChecked
  BY DEF MergeInv
<1> QED
  BY <1>1, MergeInvariant, PTL

\* QA has approved the content that the coder loop merges, up to the same.
THEOREM OnlyApprovedIsMerged == Spec => []MergedIsApproved
<1>1. MergeInv => MergedIsApproved
  BY DEF MergeInv
<1> QED
  BY <1>1, MergeInvariant, PTL

\* As long as no check leaves a secret in a content without one, none is merged.
THEOREM NoSecretIsMerged ==
    (\A t \in Tree \ Secret : Litter[t] \cap Secret = {}) /\ Spec => []SecretsBlock
<1> SUFFICES ASSUME \A t \in Tree \ Secret : Litter[t] \cap Secret = {}
             PROVE  Spec => []SecretsBlock
  OBVIOUS
<1>1. MergeInv => SecretsBlock
  BY BuildAssumption DEF BuildAssumption, MergeInv, MergedIsChecked, SecretsBlock
<1> QED
  BY <1>1, MergeInvariant, PTL

\* A merged candidate is strictly better than every other survivor.
THEOREM OnlyBestIsMerged == Spec => []BestIsMerged
<1>1. MergeInv => BestIsMerged
  BY DEF MergeInv
<1> QED
  BY <1>1, MergeInvariant, PTL

=============================================================================
