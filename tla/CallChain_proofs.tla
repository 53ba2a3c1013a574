-------------------------- MODULE CallChain_proofs --------------------------
(***************************************************************************)
(* Theorems about CallChain for every set of backends and every set of     *)
(* chains of them.                                                         *)
(***************************************************************************)
EXTENDS CallChain, TLAPS

\* The schema repair is not refused, and does not fail for authentication, policy or quota:
\* neither refusal nor failure of it would reach the breaker or end the walk.
RepairTold == "repair_denied" \notin Env

(***************************************************************************)
(* The inductive invariant.  An entry that keeps calls away.               *)
(***************************************************************************)
Closed(e) == e.state = "auth" \/ (e.state \in {"limited", "unavailable"} /\ e.wait = "ahead")

\* The breaker keeps away from every backend whose answers forbid calling it, and counts at
\* least the outages in a row: in the cycle's copy, and in the file that the next cycle
\* loads.  The two may differ where the operator has intervened, never for a backend that
\* is shut.
Kept(b) == /\ b \in shut => Closed(board[b]) /\ disk[b] = board[b]
           /\ failed[b] <= board[b].fails /\ failed[b] <= disk[b].fails
BoardInv == \A b \in Backend : Kept(b)

\* Once admitted, the backend at hand is not shut before it has answered.
AtHandInv == phase \notin {"idle", "gate"} => chain[pos] \notin shut

IInv == TypeOK /\ BoardInv /\ AtHandInv

-----------------------------------------------------------------------------
(***************************************************************************)
(* Entries of the breaker.                                                 *)
(***************************************************************************)
LEMMA HealthyIsEntry == Healthy \in Entry /\ Healthy.fails = 0 /\ Healthy.state = "available"
  BY DEF Healthy, Entry, States

LEMMA ReopenedEntry ==
    ASSUME NEW e \in Entry
    PROVE  /\ Reopened(e) \in Entry /\ Reopened(e).fails = e.fails
           /\ [Reopened(e) EXCEPT !.state = "available"] \in Entry
           /\ [Reopened(e) EXCEPT !.state = "available"].fails = e.fails
           /\ Closed(e) => Reopened(e) = e
  BY DEF Reopened, Closed, Entry, States

\* What an answer of a backend does to its entry: the failures are counted, and the breaker
\* opens on authentication, on a limit and on the third outage.
LEMMA FailureEntry ==
    ASSUME NEW e \in Entry, NEW kind \in Kinds
    PROVE  /\ AfterFailure(e, kind) \in Entry
           /\ AfterFailure(e, kind).fails = Least(e.fails + 1, 3)
           /\ kind \in {"auth", "limit"} => Closed(AfterFailure(e, kind))
           /\ kind = "outage" /\ Least(e.fails + 1, 3) = 3 => Closed(AfterFailure(e, kind))
<1> DEFINE n == Least(e.fails + 1, 3)
           f == [e EXCEPT !.fails = n]
<1>1. n \in 0..3
  BY DEF Entry, Least
<1> HIDE DEF n
<1>2. f \in Entry /\ f.fails = n
  BY <1>1 DEF Entry
<1> HIDE DEF f
<1>3. AfterFailure(e, kind) = CASE kind = "auth"   -> [f EXCEPT !.state = "auth", !.wait = "none"]
                                [] kind = "limit"  -> [f EXCEPT !.state = "limited", !.wait = "ahead"]
                                [] kind = "outage" -> IF n = 3
                                     THEN [f EXCEPT !.state = "unavailable", !.wait = "ahead"]
                                     ELSE [f EXCEPT !.state = "degraded"]
                                [] OTHER           -> f
  BY DEF AfterFailure, f, n
<1>4. CASE kind = "auth"
  <2>1. AfterFailure(e, kind) = [f EXCEPT !.state = "auth", !.wait = "none"]
    BY <1>3, <1>4
  <2> QED
    BY <1>2, <1>4, <2>1 DEF Entry, States, Closed, n
<1>5. CASE kind = "limit"
  <2>1. AfterFailure(e, kind) = [f EXCEPT !.state = "limited", !.wait = "ahead"]
    BY <1>3, <1>5
  <2> QED
    BY <1>2, <1>5, <2>1 DEF Entry, States, Closed, n
<1>6. CASE kind = "outage" /\ n = 3
  <2>1. AfterFailure(e, kind) = [f EXCEPT !.state = "unavailable", !.wait = "ahead"]
    BY <1>3, <1>6
  <2> QED
    BY <1>2, <1>6, <2>1 DEF Entry, States, Closed, n
<1>7. CASE kind = "outage" /\ n # 3
  <2>1. AfterFailure(e, kind) = [f EXCEPT !.state = "degraded"]
    BY <1>3, <1>7
  <2> QED
    BY <1>2, <1>7, <2>1 DEF Entry, States, Closed, n
<1>8. CASE kind \notin {"auth", "limit", "outage"}
  <2>1. AfterFailure(e, kind) = f
    BY <1>3, <1>8
  <2> QED
    BY <1>2, <1>8, <2>1 DEF Entry, States, Closed, n
<1> QED
  BY <1>4, <1>5, <1>6, <1>7, <1>8

-----------------------------------------------------------------------------
(***************************************************************************)
(* Types.                                                                  *)
(***************************************************************************)
LEMMA ChainTypes == \A c \in Chains : /\ Len(c) \in Nat /\ Len(c) > 0
                                      /\ \A i \in 1..Len(c) : c[i] \in Backend
<1> TAKE c \in Chains
<1>1. c \in Seq(Backend) /\ Len(c) > 0
  BY ChainAssumption DEF ChainAssumption
<1> QED
  BY <1>1

\* The backend at hand.
LEMMA AtHand == TypeOK /\ phase # "idle" => chain \in Chains /\ chain[pos] \in Backend
<1> SUFFICES ASSUME TypeOK, phase # "idle" PROVE chain \in Chains /\ chain[pos] \in Backend
  OBVIOUS
<1>1. pos \in 1..Len(chain) /\ chain \in Chains \cup {<<>>}
  BY DEF TypeOK
<1>2. chain # <<>>
  BY <1>1
<1> QED
  BY <1>1, <1>2, ChainTypes

\* The walk goes on with the next backend, or the call is over.
LEMMA ContinueTypes ==
    ASSUME TypeOK, phase # "idle", NEW kind \in Kinds, Continue(kind)
    PROVE  /\ chain' \in Chains \cup {<<>>} /\ lastErr' \in Kinds
           /\ phase' \in {"idle", "gate"}
           /\ phase' # "idle" => pos' \in 1..Len(chain)'
<1>1. Len(chain) \in Nat /\ pos \in 1..Len(chain)
  BY AtHand, ChainTypes DEF TypeOK
<1> QED
  BY <1>1 DEF TypeOK, Continue, Return

LEMMA WalkTypes == TypeOK /\ Walk => TypeOK'
<1> SUFFICES ASSUME TypeOK, Walk PROVE TypeOK'
  OBVIOUS
<1> DEFINE b == chain[pos]
<1>1. phase # "idle" /\ b \in Backend /\ board[b] \in Entry
  BY AtHand DEF Walk, TypeOK, SkipOpen, SkipUnhealthy, Admit, Unusable, Usable, Fails,
         RepairFails, Responds, Refuses, Valid, Malformed, RepairValid, RepairMalformed
<1>2. /\ {"limit", "outage", "other", "auth", "denied"} \subseteq Kinds /\ lastErr \in Kinds
  BY DEF Kinds, TypeOK
<1>3. CASE SkipOpen \/ Unusable \/ RepairMalformed
  <2>1. PICK k \in Kinds : Continue(k)
    BY <1>2, <1>3 DEF SkipOpen, Unusable, RepairMalformed
  <2>2. /\ chain' \in Chains \cup {<<>>} /\ lastErr' \in Kinds /\ phase' \in {"idle", "gate"}
        /\ phase' # "idle" => pos' \in 1..Len(chain)'
    BY <1>1, <2>1, ContinueTypes
  <2>3. UNCHANGED <<boardVars, seenVars>> /\ barred' \in BOOLEAN
    BY <1>3 DEF SkipOpen, Unusable, RepairMalformed, TypeOK
  <2> QED
    BY <2>2, <2>3 DEF TypeOK, boardVars, seenVars
<1>4. CASE SkipUnhealthy
  <2>1. /\ chain' \in Chains \cup {<<>>} /\ lastErr' \in Kinds /\ phase' \in {"idle", "gate"}
        /\ phase' # "idle" => pos' \in 1..Len(chain)'
    BY <1>1, <1>2, <1>4, ContinueTypes DEF SkipUnhealthy
  <2>2. board' \in [Backend -> Entry] /\ disk' \in [Backend -> Entry]
    <3>1. CASE board[b].state = "cooling"
      <4>1. UNCHANGED boardVars
        BY <1>4, <3>1 DEF SkipUnhealthy
      <4> QED
        BY <4>1 DEF boardVars, TypeOK
    <3>2. CASE board[b].state # "cooling"
      <4>1. SaveBoard(b, Reopened(board[b]))
        BY <1>4, <3>2 DEF SkipUnhealthy
      <4> QED
        BY <1>1, <4>1, ReopenedEntry DEF SaveBoard, TypeOK
    <3> QED
      BY <3>1, <3>2
  <2> QED
    BY <1>4, <2>1, <2>2 DEF SkipUnhealthy, TypeOK, seenVars
<1>5. CASE Admit
  <2>1. board' \in [Backend -> Entry] /\ disk' \in [Backend -> Entry]
    BY <1>1, <1>5, ReopenedEntry DEF Admit, SaveBoard, boardVars, TypeOK
  <2> QED
    BY <1>5, <2>1 DEF Admit, TypeOK, seenVars
<1>6. ASSUME NEW k \in Kinds \ {"refusal"}, Fails(k) PROVE TypeOK'
  <2>1. /\ chain' \in Chains \cup {<<>>} /\ lastErr' \in Kinds /\ phase' \in {"idle", "gate"}
        /\ phase' # "idle" => pos' \in 1..Len(chain)'
    <3>1. CASE MayFallBack(k)
      BY <1>1, <1>6, <3>1, ContinueTypes DEF Fails
    <3>2. CASE ~MayFallBack(k)
      BY <1>6, <3>2 DEF Fails, Return, TypeOK
    <3> QED
      BY <3>1, <3>2
  <2>2. board' \in [Backend -> Entry] /\ disk' \in [Backend -> Entry]
    BY <1>1, <1>6, FailureEntry DEF Fails, SaveBoard, TypeOK
  <2>3. /\ failed' \in [Backend -> 0..3]
        /\ shut' \subseteq Backend /\ verified' \subseteq Backend
    BY <1>1, <1>6 DEF Fails, Heard, Least, TypeOK
  <2>4. barred' \in BOOLEAN
    BY <1>6 DEF Fails
  <2> QED
    BY <2>1, <2>2, <2>3, <2>4 DEF TypeOK
<1>7. ASSUME NEW k \in Kinds \ {"refusal"}, RepairFails(k) PROVE TypeOK'
  <2>1. /\ chain' \in Chains \cup {<<>>} /\ lastErr' \in Kinds /\ phase' \in {"idle", "gate"}
        /\ phase' # "idle" => pos' \in 1..Len(chain)'
    BY <1>1, <1>7, ContinueTypes DEF RepairFails
  <2>2. /\ failed' \in [Backend -> 0..3]
        /\ shut' \subseteq Backend /\ verified' \subseteq Backend
    <3>1. CASE k \in {"auth", "limit"}
      BY <1>1, <1>7, <3>1 DEF RepairFails, Heard, Least, TypeOK
    <3>2. CASE k \notin {"auth", "limit"}
      BY <1>7, <3>2 DEF RepairFails, seenVars, TypeOK
    <3> QED
      BY <3>1, <3>2
  <2>3. barred' \in BOOLEAN /\ UNCHANGED boardVars
    BY <1>7 DEF RepairFails
  <2> QED
    BY <2>1, <2>2, <2>3 DEF TypeOK, boardVars
<1>8. CASE Responds
  <2>1. board' \in [Backend -> Entry] /\ disk' \in [Backend -> Entry]
    BY <1>1, <1>8, HealthyIsEntry DEF Responds, SaveBoard, TypeOK
  <2>2. failed' \in [Backend -> 0..3] /\ shut' \subseteq Backend
    BY <1>1, <1>8 DEF Responds, TypeOK
  <2> QED
    BY <1>8, <2>1, <2>2 DEF Responds, TypeOK
<1>9. CASE Usable \/ Refuses \/ Valid \/ Malformed \/ RepairValid
  BY <1>9 DEF Usable, Refuses, Valid, Malformed, RepairValid, Return, TypeOK, boardVars, seenVars
<1> QED
  BY <1>3, <1>4, <1>5, <1>6, <1>7, <1>8, <1>9 DEF Walk

LEMMA AroundTypes ==
    TypeOK /\ (\/ \E c \in Chains : StartCall(c)
               \/ Reload \/ UNCHANGED vars
               \/ \E b \in Backend : WaitOver(b) \/ Verify(b) \/ Reset(b)) => TypeOK'
<1>1. ASSUME TypeOK, NEW c \in Chains, StartCall(c) PROVE TypeOK'
  <2>1. 1 \in 1..Len(c)
    BY ChainTypes
  <2> QED
    BY <1>1, <2>1 DEF StartCall, TypeOK, boardVars, seenVars, Kinds
<1>2. ASSUME TypeOK, Reload \/ UNCHANGED vars PROVE TypeOK'
  BY <1>2 DEF Reload, TypeOK, vars, callVars, boardVars, seenVars
<1>3. ASSUME TypeOK, NEW b \in Backend, WaitOver(b) PROVE TypeOK'
  <2>1. \A e \in Entry : [e EXCEPT !.wait = IF @ = "ahead" THEN "past" ELSE @] \in Entry
    BY DEF Entry
  <2>2. board' \in [Backend -> Entry] /\ disk' \in [Backend -> Entry]
    BY <1>3, <2>1 DEF WaitOver, TypeOK
  <2>3. shut' \subseteq Backend
    BY <1>3 DEF WaitOver, TypeOK
  <2> QED
    BY <1>3, <2>2, <2>3 DEF WaitOver, TypeOK, callVars
<1>4. ASSUME TypeOK, NEW b \in Backend, Verify(b) \/ Reset(b) PROVE TypeOK'
  <2>1. board' \in [Backend -> Entry] /\ disk' \in [Backend -> Entry]
    BY <1>4, HealthyIsEntry DEF Verify, Reset, Command, TypeOK
  <2>2. /\ failed' \in [Backend -> 0..3] /\ shut' \subseteq Backend
        /\ verified' \subseteq Backend /\ UNCHANGED callVars
    BY <1>4 DEF Verify, Reset, Command, TypeOK
  <2> QED
    BY <1>4, <2>1, <2>2 DEF TypeOK, callVars
<1> QED
  BY <1>1, <1>2, <1>3, <1>4

LEMMA TypeInit == Init => TypeOK
<1> SUFFICES ASSUME Init PROVE TypeOK
  OBVIOUS
<1>1. board \in [Backend -> Entry] /\ disk \in [Backend -> Entry]
  BY HealthyIsEntry DEF Init
<1>2. failed \in [Backend -> 0..3] /\ lastErr \in Kinds
  BY DEF Init, Kinds
<1> QED
  BY <1>1, <1>2 DEF Init, TypeOK

LEMMA TypeKept == TypeOK /\ [Next]_vars => TypeOK'
  BY WalkTypes, AroundTypes DEF Next

\* The types hold whatever the operator and the repairs do.
THEOREM TypeAlways == Spec => []TypeOK
  BY TypeInit, TypeKept, PTL DEF Spec

-----------------------------------------------------------------------------
(***************************************************************************)
(* Refusals.                                                               *)
(***************************************************************************)
LEMMA BarredKept == RepairTold /\ NeverRoutedAround /\ [Next]_vars => NeverRoutedAround'
<1> SUFFICES ASSUME RepairTold, NeverRoutedAround, [Next]_vars PROVE NeverRoutedAround'
  OBVIOUS
<1> USE DEF NeverRoutedAround
<1>1. ASSUME NEW c \in Chains, StartCall(c) PROVE NeverRoutedAround'
  BY <1>1 DEF StartCall
<1>2. CASE SkipOpen \/ SkipUnhealthy \/ Admit \/ Unusable \/ Usable \/ Responds \/ Malformed
  BY <1>2 DEF SkipOpen, SkipUnhealthy, Admit, Unusable, Usable, Responds, Malformed
<1>3. ASSUME NEW k \in Kinds \ {"refusal"}, Fails(k) PROVE NeverRoutedAround'
  BY <1>3 DEF Fails, MayFallBack, Return
<1>4. CASE Refuses \/ Valid \/ RepairValid
  BY <1>4 DEF Refuses, Valid, RepairValid, Return
<1>5. CASE RepairMalformed
  BY <1>5 DEF RepairMalformed, RepairTold
<1>6. ASSUME NEW k \in Kinds \ {"refusal"}, RepairFails(k) PROVE NeverRoutedAround'
  BY <1>6 DEF RepairFails, RepairTold, NO_FALLBACK_KINDS
<1>7. CASE Reload \/ UNCHANGED vars
  BY <1>7 DEF Reload, vars, callVars
<1>8. ASSUME NEW b \in Backend, WaitOver(b) \/ Verify(b) \/ Reset(b) PROVE NeverRoutedAround'
  BY <1>8 DEF WaitOver, Verify, Reset, Command, callVars
<1> QED
  BY <1>1, <1>2, <1>3, <1>4, <1>5, <1>6, <1>7, <1>8 DEF Next, Walk

\* Whatever the chains are, a refusal or a denied call is never taken to the next backend,
\* provided the schema repair is not what was refused: that one is, see the README.
THEOREM RefusalEndsTheCall == RepairTold /\ Spec => []NeverRoutedAround
<1>1. Init => NeverRoutedAround
  BY DEF Init, NeverRoutedAround
<1>2. RepairTold => RepairTold'
  BY DEF RepairTold
<1> QED
  BY <1>1, <1>2, BarredKept, PTL DEF Spec

-----------------------------------------------------------------------------
(***************************************************************************)
(* Backends that are shut.                                                 *)
(***************************************************************************)
LEMMA BoardInit == Init => BoardInv /\ AtHandInv
  BY HealthyIsEntry DEF Init, BoardInv, Kept, AtHandInv

LEMMA KeptFrame ==
    ASSUME BoardInv, UNCHANGED <<boardVars, shut, failed>>
    PROVE  BoardInv'
  BY DEF BoardInv, Kept, boardVars

\* The cycle saves its whole copy: what it takes from the operator's is not shut.
LEMMA SavedKept ==
    ASSUME TypeOK, BoardInv, NEW b \in Backend, NEW e \in Entry, SaveBoard(b, e),
           \A c \in Backend \ {b} : (c \in shut' <=> c \in shut) /\ failed'[c] = failed[c],
           b \in shut' => Closed(e), failed'[b] <= e.fails
    PROVE  BoardInv'
<1>1. /\ board' = [board EXCEPT ![b] = e] /\ disk' = board'
      /\ board \in [Backend -> Entry]
  BY DEF SaveBoard, TypeOK
<1>2. board'[b] = e /\ \A c \in Backend \ {b} : board'[c] = board[c]
  BY <1>1
<1>3. Kept(b)'
  BY <1>1, <1>2 DEF Kept
<1>4. \A c \in Backend \ {b} : Kept(c)'
  BY <1>1, <1>2 DEF BoardInv, Kept
<1> QED
  BY <1>3, <1>4 DEF BoardInv

LEMMA ContinuePhase ==
    ASSUME NEW kind, Continue(kind) PROVE phase' \in {"idle", "gate"}
  BY DEF Continue, Return

LEMMA WalkKept == RepairTold /\ IInv /\ Walk => BoardInv' /\ AtHandInv'
<1> SUFFICES ASSUME RepairTold, IInv, Walk PROVE BoardInv' /\ AtHandInv'
  OBVIOUS
<1> DEFINE b == chain[pos]
<1>0. TypeOK /\ BoardInv /\ AtHandInv
  BY DEF IInv
<1>1. phase # "idle" /\ b \in Backend /\ board[b] \in Entry /\ failed[b] \in 0..3
  BY <1>0, AtHand DEF Walk, TypeOK, SkipOpen, SkipUnhealthy, Admit, Unusable, Usable, Fails,
         RepairFails, Responds, Refuses, Valid, Malformed, RepairValid, RepairMalformed
<1>2. Kept(b)
  BY <1>0, <1>1 DEF BoardInv
<1>3. CASE SkipOpen \/ Unusable \/ RepairMalformed
  <2>1. phase' \in {"idle", "gate"}
    BY <1>3, ContinuePhase DEF SkipOpen, Unusable, RepairMalformed
  <2>2. UNCHANGED <<boardVars, shut, failed>>
    BY <1>3 DEF SkipOpen, Unusable, RepairMalformed, seenVars
  <2> QED
    BY <1>0, <2>1, <2>2, KeptFrame DEF AtHandInv
<1>4. CASE SkipUnhealthy
  <2>1. phase' \in {"idle", "gate"} /\ UNCHANGED <<shut, failed>>
    BY <1>4, ContinuePhase DEF SkipUnhealthy, seenVars
  <2>2. BoardInv'
    <3>1. CASE board[b].state = "cooling"
      BY <1>0, <1>4, <2>1, <3>1, KeptFrame DEF SkipUnhealthy
    <3>2. CASE board[b].state # "cooling"
      <4>1. SaveBoard(b, Reopened(board[b])) /\ Reopened(board[b]) # board[b]
        BY <1>4, <3>2 DEF SkipUnhealthy
      <4>2. b \notin shut
        BY <1>1, <1>2, <4>1, ReopenedEntry DEF Kept
      <4>3. Reopened(board[b]) \in Entry /\ failed[b] <= Reopened(board[b]).fails
        BY <1>1, <1>2, ReopenedEntry DEF Kept
      <4> QED
        BY <1>0, <1>1, <2>1, <4>1, <4>2, <4>3, SavedKept
    <3> QED
      BY <3>1, <3>2
  <2> QED
    BY <2>1, <2>2 DEF AtHandInv
<1>5. CASE Admit
  <2> DEFINE e == Reopened(board[b])
  <2>1. e.state \in {"available", "degraded", "cooling"}
    BY <1>5 DEF Admit
  <2>2. b \notin shut
    <3>1. ~Closed(e)
      BY <2>1 DEF Closed
    <3> QED
      BY <1>1, <1>2, <3>1, ReopenedEntry DEF Kept
  <2>3. UNCHANGED <<shut, failed, chain, pos>>
    BY <1>5 DEF Admit, seenVars
  <2>4. BoardInv'
    <3>1. CASE e.state = "cooling"
      <4>1. SaveBoard(b, [e EXCEPT !.state = "available"])
        BY <1>5, <3>1 DEF Admit
      <4>2. /\ [e EXCEPT !.state = "available"] \in Entry
            /\ failed[b] <= [e EXCEPT !.state = "available"].fails
        BY <1>1, <1>2, ReopenedEntry DEF Kept
      <4> QED
        BY <1>0, <1>1, <2>2, <2>3, <4>1, <4>2, SavedKept
    <3>2. CASE e.state # "cooling"
      BY <1>0, <1>5, <2>3, <3>2, KeptFrame DEF Admit
    <3> QED
      BY <3>1, <3>2
  <2> QED
    BY <2>2, <2>3, <2>4 DEF AtHandInv
<1>6. ASSUME NEW k \in Kinds \ {"refusal"}, Fails(k) PROVE BoardInv' /\ AtHandInv'
  <2> DEFINE e == AfterFailure(board[b], k)
  <2>1. /\ phase = "invoke" /\ SaveBoard(b, e)
        /\ failed' = [failed EXCEPT ![b] = IF k = "outage" THEN Least(@ + 1, 3) ELSE 0]
        /\ shut' = IF k \in {"auth", "limit"} \/ failed'[b] = 3 THEN shut \cup {b} ELSE shut
    BY <1>6 DEF Fails, Heard
  <2>2. phase' \in {"idle", "gate"}
    BY <1>6, ContinuePhase DEF Fails, Return
  <2>3. b \notin shut
    BY <1>0, <2>1 DEF AtHandInv
  <2>4. /\ e \in Entry /\ e.fails = Least(board[b].fails + 1, 3)
        /\ k \in {"auth", "limit"} => Closed(e)
        /\ k = "outage" /\ Least(board[b].fails + 1, 3) = 3 => Closed(e)
    BY <1>1, FailureEntry
  <2>5. /\ failed'[b] = IF k = "outage" THEN Least(failed[b] + 1, 3) ELSE 0
        /\ \A c \in Backend \ {b} : failed'[c] = failed[c]
    BY <1>0, <1>1, <2>1 DEF TypeOK
  <2>6. failed[b] <= board[b].fails /\ board[b].fails \in 0..3
    BY <1>1, <1>2 DEF Kept, Entry
  <2> HIDE DEF e
  <2>7. failed'[b] <= e.fails
    BY <1>1, <2>4, <2>5, <2>6 DEF Least
  <2>8. b \in shut' => Closed(e)
    <3>1. failed'[b] = 3 => k = "outage" /\ Least(board[b].fails + 1, 3) = 3
      BY <1>1, <2>5, <2>6 DEF Least
    <3> QED
      BY <2>1, <2>3, <2>4, <3>1
  <2>9. \A c \in Backend \ {b} : c \in shut' <=> c \in shut
    BY <2>1
  <2>10. BoardInv'
    BY <1>0, <1>1, <2>1, <2>4, <2>5, <2>7, <2>8, <2>9, SavedKept
  <2> QED
    BY <2>2, <2>10 DEF AtHandInv
<1>7. ASSUME NEW k \in Kinds \ {"refusal"}, RepairFails(k) PROVE BoardInv' /\ AtHandInv'
  <2>1. k \in {"outage", "other"}
    BY <1>7 DEF RepairFails, RepairTold
  <2>2. UNCHANGED <<boardVars, shut, failed>>
    BY <1>7, <2>1 DEF RepairFails, seenVars
  <2>3. phase' \in {"idle", "gate"}
    BY <1>7, ContinuePhase DEF RepairFails
  <2> QED
    BY <1>0, <2>2, <2>3, KeptFrame DEF AtHandInv
<1>8. CASE Responds
  <2>1. /\ phase = "invoke" /\ SaveBoard(b, Healthy)
        /\ shut' = shut \ {b} /\ failed' = [failed EXCEPT ![b] = 0]
        /\ UNCHANGED <<chain, pos>>
    BY <1>8 DEF Responds
  <2>2. failed'[b] = 0 /\ \A c \in Backend \ {b} : failed'[c] = failed[c]
    BY <1>0, <1>1, <2>1 DEF TypeOK
  <2>3. BoardInv'
    BY <1>0, <1>1, <2>1, <2>2, HealthyIsEntry, SavedKept
  <2> QED
    BY <2>1, <2>3 DEF AtHandInv
<1>9. CASE Usable \/ Refuses \/ Valid \/ Malformed \/ RepairValid
  <2>1. UNCHANGED <<boardVars, shut, failed>>
    BY <1>9 DEF Usable, Refuses, Valid, Malformed, RepairValid, seenVars
  <2>2. AtHandInv'
    BY <1>0, <1>9, <2>1 DEF Usable, Refuses, Valid, Malformed, RepairValid, Return, AtHandInv
  <2> QED
    BY <1>0, <2>1, <2>2, KeptFrame
<1> QED
  BY <1>3, <1>4, <1>5, <1>6, <1>7, <1>8, <1>9 DEF Walk

LEMMA AroundKept ==
    IInv /\ (\/ \E c \in Chains : StartCall(c)
             \/ Reload \/ UNCHANGED vars
             \/ \E b \in Backend : WaitOver(b) \/ Verify(b) \/ Reset(b)) => BoardInv' /\ AtHandInv'
<1>1. ASSUME IInv, NEW c \in Chains, StartCall(c) PROVE BoardInv' /\ AtHandInv'
  <2>1. UNCHANGED <<boardVars, shut, failed>> /\ phase' = "gate"
    BY <1>1 DEF StartCall, seenVars
  <2> QED
    BY <1>1, <2>1, KeptFrame DEF IInv, AtHandInv
<1>2. ASSUME IInv, UNCHANGED vars PROVE BoardInv' /\ AtHandInv'
  BY <1>2, KeptFrame DEF IInv, AtHandInv, vars, callVars, seenVars
<1>3. ASSUME IInv, Reload PROVE BoardInv' /\ AtHandInv'
  BY <1>3 DEF Reload, IInv, BoardInv, Kept, AtHandInv, callVars, seenVars
<1>4. ASSUME IInv, NEW b \in Backend, WaitOver(b) PROVE BoardInv' /\ AtHandInv'
  <2> DEFINE Over(e) == [e EXCEPT !.wait = IF @ = "ahead" THEN "past" ELSE @]
  <2>1. /\ board' = [board EXCEPT ![b] = Over(board[b])]
        /\ disk' = [disk EXCEPT ![b] = Over(disk[b])]
        /\ shut' = (IF board[b].state = "auth" THEN shut ELSE shut \ {b})
        /\ UNCHANGED <<callVars, failed>>
    BY <1>4 DEF WaitOver, IInv, TypeOK
  <2>2. \A e \in Entry : Over(e) \in Entry /\ Over(e).fails = e.fails /\ Over(e).state = e.state
    BY DEF Entry
  <2>3. board \in [Backend -> Entry] /\ disk \in [Backend -> Entry] /\ BoardInv /\ AtHandInv
    BY <1>4 DEF IInv, TypeOK
  <2> HIDE DEF Over
  <2>4. /\ board'[b] = Over(board[b]) /\ disk'[b] = Over(disk[b])
        /\ \A c \in Backend \ {b} : board'[c] = board[c] /\ disk'[c] = disk[c]
    BY <2>1, <2>3
  <2>5. Kept(b)'
    BY <2>1, <2>2, <2>3, <2>4 DEF BoardInv, Kept, Closed
  <2>6. \A c \in Backend \ {b} : Kept(c)'
    BY <2>1, <2>3, <2>4 DEF BoardInv, Kept
  <2>7. AtHandInv'
    BY <2>1, <2>3 DEF AtHandInv, callVars
  <2> QED
    BY <2>5, <2>6, <2>7 DEF BoardInv
<1>5. ASSUME IInv, NEW b \in Backend, Verify(b) \/ Reset(b) PROVE BoardInv' /\ AtHandInv'
  <2>1. /\ disk' = [disk EXCEPT ![b] = Healthy]
        /\ board' = disk' \/ board' = board
        /\ shut' = shut \ {b} /\ failed' = [failed EXCEPT ![b] = 0]
        /\ UNCHANGED callVars
    BY <1>5 DEF Verify, Reset, Command
  <2>2. board \in [Backend -> Entry] /\ disk \in [Backend -> Entry] /\ BoardInv /\ AtHandInv
        /\ failed \in [Backend -> 0..3]
    BY <1>5 DEF IInv, TypeOK
  <2>3. /\ disk'[b] = Healthy /\ failed'[b] = 0 /\ b \notin shut'
        /\ \A c \in Backend \ {b} : /\ disk'[c] = disk[c] /\ failed'[c] = failed[c]
                                    /\ c \in shut' <=> c \in shut
    BY <2>1, <2>2
  <2>4. Kept(b)'
    <3>1. board[b].fails \in 0..3
      BY <2>2 DEF Entry
    <3>2. board'[b] = Healthy \/ board'[b] = board[b]
      BY <2>1, <2>3
    <3>3. 0 <= board'[b].fails /\ 0 <= disk'[b].fails
      BY <2>3, <3>1, <3>2, HealthyIsEntry
    <3> QED
      BY <2>3, <3>3 DEF Kept
  <2>5. \A c \in Backend \ {b} : Kept(c)'
    BY <2>1, <2>2, <2>3 DEF BoardInv, Kept
  <2>6. AtHandInv'
    BY <2>1, <2>2 DEF AtHandInv, callVars
  <2> QED
    BY <2>4, <2>5, <2>6 DEF BoardInv
<1> QED
  BY <1>1, <1>2, <1>3, <1>4, <1>5

THEOREM InvHolds == RepairTold /\ Spec => []IInv
<1>1. Init => IInv
  BY TypeInit, BoardInit DEF IInv
<1>2. RepairTold /\ IInv /\ [Next]_vars => IInv'
  BY TypeKept, WalkKept, AroundKept DEF IInv, Next
<1>3. RepairTold => RepairTold'
  BY DEF RepairTold
<1> QED
  BY <1>1, <1>2, <1>3, PTL DEF Spec

\* A backend that reported a limit, an authentication failure or a third outage in a row is
\* not called before its wait is over or the operator cleared it, even when the operator's
\* commands overwrite backends.json while a cycle runs.
THEOREM ShutStaysShut == RepairTold /\ Spec => []ShutIsShut
<1>1. IInv => ShutIsShut
  BY DEF IInv, AtHandInv, ShutIsShut
<1> QED
  BY <1>1, InvHolds, PTL

-----------------------------------------------------------------------------
(***************************************************************************)
(* Verified backends.                                                      *)
(***************************************************************************)
\* No command of the operator comes between a load and a save of the cycle.
OperatorWaits == "operator_race" \notin Env

VerifiedInv == /\ TypeOK
               /\ board = disk
               /\ \A b \in verified : board[b].state # "auth"

\* A step that saves the cycle's copy gives no verified backend an authentication failure.
LEMMA VerifiedSaved ==
    ASSUME VerifiedInv, NEW b \in Backend, NEW e, SaveBoard(b, e), verified' \subseteq verified,
           b \in verified' => e.state # "auth"
    PROVE  board' = disk' /\ \A c \in verified' : board'[c].state # "auth"
<1>1. board' = [board EXCEPT ![b] = e] /\ disk' = board' /\ board \in [Backend -> Entry]
      /\ verified \subseteq Backend
  BY DEF SaveBoard, VerifiedInv, TypeOK
<1>2. board'[b] = e /\ \A c \in Backend \ {b} : board'[c] = board[c]
  BY <1>1
<1>3. \A c \in verified' : board'[c].state # "auth"
  BY <1>1, <1>2 DEF VerifiedInv
<1> QED
  BY <1>1, <1>3

LEMMA VerifiedKept == OperatorWaits /\ VerifiedInv /\ [Next]_vars => VerifiedInv'
<1> SUFFICES ASSUME OperatorWaits, VerifiedInv, [Next]_vars
             PROVE  board' = disk' /\ \A b \in verified' : board'[b].state # "auth"
  BY TypeKept DEF VerifiedInv
<1> DEFINE b == chain[pos]
           Goal == board' = disk' /\ \A c \in verified' : board'[c].state # "auth"
<1>0. TypeOK /\ board \in [Backend -> Entry]
  BY DEF VerifiedInv, TypeOK
<1>1. ASSUME UNCHANGED boardVars, verified' \subseteq verified PROVE Goal
  BY <1>1 DEF VerifiedInv, boardVars
<1>2. phase # "idle" => b \in Backend /\ board[b] \in Entry
  BY <1>0, AtHand
<1>3. CASE SkipUnhealthy
  <2>1. phase = "gate" /\ verified' = verified /\ Reopened(board[b]).state = "cooling"
    BY <1>3 DEF SkipUnhealthy, seenVars
  <2>2. CASE board[b].state = "cooling"
    BY <1>1, <1>3, <2>1, <2>2 DEF SkipUnhealthy
  <2>3. CASE board[b].state # "cooling"
    <3>1. SaveBoard(b, Reopened(board[b]))
      BY <1>3, <2>3 DEF SkipUnhealthy
    <3> QED
      BY <1>2, <2>1, <3>1, VerifiedSaved
  <2> QED
    BY <2>2, <2>3
<1>4. CASE Admit
  <2> DEFINE e == Reopened(board[b])
  <2>1. phase = "gate" /\ verified' = verified
    BY <1>4 DEF Admit, seenVars
  <2>2. CASE e.state = "cooling"
    <3>1. SaveBoard(b, [e EXCEPT !.state = "available"])
      BY <1>4, <2>2 DEF Admit
    <3>2. [e EXCEPT !.state = "available"].state = "available"
      BY <1>2, <2>1, ReopenedEntry DEF Entry
    <3> QED
      BY <1>2, <2>1, <3>1, <3>2, VerifiedSaved
  <2>3. CASE e.state # "cooling"
    BY <1>1, <1>4, <2>1, <2>3 DEF Admit
  <2> QED
    BY <2>2, <2>3
<1>5. ASSUME NEW k \in Kinds \ {"refusal"}, Fails(k) PROVE Goal
  <2>1. /\ phase = "invoke" /\ SaveBoard(b, AfterFailure(board[b], k))
        /\ verified' = verified \ {b}
    BY <1>5 DEF Fails, Heard
  <2> QED
    BY <1>2, <2>1, VerifiedSaved
<1>6. CASE Responds
  <2>1. phase = "invoke" /\ SaveBoard(b, Healthy) /\ verified' = verified
    BY <1>6 DEF Responds
  <2> QED
    BY <1>2, <2>1, VerifiedSaved, HealthyIsEntry
<1>7. ASSUME NEW k, RepairFails(k) PROVE Goal
  <2>1. UNCHANGED boardVars /\ verified' \subseteq verified
    BY <1>7 DEF RepairFails, Heard, seenVars
  <2> QED
    BY <1>1, <2>1
<1>8. CASE \/ SkipOpen \/ Unusable \/ RepairMalformed \/ Usable \/ Refuses \/ Valid \/ Malformed
           \/ RepairValid \/ UNCHANGED vars \/ \E c \in Chains : StartCall(c)
  <2>1. UNCHANGED boardVars /\ verified' \subseteq verified
    BY <1>8 DEF SkipOpen, Unusable, RepairMalformed, Usable, Refuses, Valid, Malformed,
           RepairValid, StartCall, vars, seenVars
  <2> QED
    BY <1>1, <2>1
<1>9. CASE Reload
  BY <1>9 DEF Reload, VerifiedInv
<1>10. ASSUME NEW c \in Backend, WaitOver(c) PROVE Goal
  <2>1. board' = disk' /\ verified' = verified
    BY <1>10 DEF WaitOver, VerifiedInv
  <2>2. \A d \in Backend : board'[d].state = board[d].state
    <3>1. board' = [board EXCEPT ![c] =
                       [board[c] EXCEPT !.wait = IF @ = "ahead" THEN "past" ELSE @]]
      BY <1>0, <1>10 DEF WaitOver
    <3>2. \A e \in Entry : [e EXCEPT !.wait = IF @ = "ahead" THEN "past" ELSE @].state = e.state
      BY DEF Entry
    <3> QED
      BY <1>0, <3>1, <3>2
  <2> QED
    BY <2>1, <2>2 DEF VerifiedInv, TypeOK
<1>11. ASSUME NEW c \in Backend, Verify(c) \/ Reset(c) PROVE Goal
  <2>1. /\ board' = disk' /\ disk' = [disk EXCEPT ![c] = Healthy]
        /\ verified' \subseteq verified \cup {c}
    BY <1>11 DEF Verify, Reset, Command, OperatorWaits
  <2>2. /\ disk'[c] = Healthy /\ \A d \in Backend \ {c} : disk'[d] = board[d]
    BY <1>0, <2>1 DEF VerifiedInv, TypeOK
  <2> QED
    BY <1>0, <2>1, <2>2, HealthyIsEntry DEF VerifiedInv, TypeOK
<1> QED
  BY <1>3, <1>4, <1>5, <1>6, <1>7, <1>8, <1>9, <1>10, <1>11 DEF Next, Walk

\* A stale authentication failure does not keep out a backend that the operator has
\* verified since, as long as no cycle overwrites what the operator's command saved.
THEOREM VerificationLasts == OperatorWaits /\ Spec => []VerifiedStays
<1>1. Init => VerifiedInv
  BY TypeInit DEF Init, VerifiedInv
<1>2. VerifiedInv => VerifiedStays
  BY DEF VerifiedInv, VerifiedStays
<1>3. OperatorWaits => OperatorWaits'
  BY DEF OperatorWaits
<1> QED
  BY <1>1, <1>2, <1>3, VerifiedKept, PTL DEF Spec
=============================================================================
