-------------------------- MODULE Platform_proofs --------------------------
(***************************************************************************)
(* Theorems about the platform for every value of its constants: what each *)
(* component promises holds in every behaviour of all of them together.    *)
(* The theorems about maintenance and the fleet have modules of their own. *)
(***************************************************************************)
EXTENDS Platform, Integers, Sequences, FiniteSets, FiniteSetTheorems, SequenceTheorems, TLAPS

\* Each component goes its own way: a behaviour of the platform is one of each of them.
LEMMA EachOnItsOwn ==
    Spec => M!Spec /\ A!Spec /\ G!Spec /\ S!Spec /\ D!Spec /\ P!Spec /\ F!Spec
<1>1. Init => M!Init /\ A!Init /\ G!Init /\ S!Init /\ D!Init /\ P!Init /\ F!Init
  BY DEF Init
<1>2. [Next]_vars => [M!Next]_(M!mvars)
  BY DEF Next, vars, Maintains, Calls, Registers, Serves, Shows, Supervises, Schedules,
         mvars, M!mvars
<1>3. [Next]_vars => [A!Next]_(A!avars)
  BY DEF Next, vars, Maintains, Calls, Registers, Serves, Shows, Supervises, Schedules,
         avars, A!avars
<1>4. [Next]_vars => [G!Next]_(G!gvars)
  BY DEF Next, vars, Maintains, Calls, Registers, Serves, Shows, Supervises, Schedules,
         gvars, G!gvars
<1>5. [Next]_vars => [S!Next]_(S!svars)
  BY DEF Next, vars, Maintains, Calls, Registers, Serves, Shows, Supervises, Schedules,
         svars, S!svars
<1>6. [Next]_vars => [D!Next]_(D!dvars)
  BY DEF Next, vars, Maintains, Calls, Registers, Serves, Shows, Supervises, Schedules,
         dvars, D!dvars
<1>7. [Next]_vars => [P!Next]_(P!svars)
  BY DEF Next, vars, Maintains, Calls, Registers, Serves, Shows, Supervises, Schedules,
         pvars, P!svars
<1>8. [Next]_vars => [F!Next]_(F!vars)
  BY DEF Next, vars, Maintains, Calls, Registers, Serves, Shows, Supervises, Schedules,
         fvars, F!vars
<1> QED
  BY <1>1, <1>2, <1>3, <1>4, <1>5, <1>6, <1>7, <1>8, PTL
     DEF Spec, M!Spec, A!Spec, G!Spec, S!Spec, D!Spec, P!Spec, F!Spec

-----------------------------------------------------------------------------
(***************************************************************************)
(* The budget.                                                             *)
(***************************************************************************)
\* The constants are what the configuration may say: at least one attempt, amounts that are
\* not negative, fallback roles that are roles, and a run that may spend something.
Configured ==
    /\ IsFiniteSet(Process)
    /\ Attempts \in Nat \ {0} /\ MaxCost \in Nat /\ DailyLimit \in Nat /\ RunLimit \in Nat
    /\ RunLimit + MaxCost > 0
    /\ Fallback \in [Role -> Role \cup {None}]

\* The callers that wait for an answer, each of which may cost something.
Asking == {c \in Process : phase[c] \in {"invoke", "repair"}}

\* What a caller that is in a call may still do, and may not have met.
CallInv ==
    /\ role \in [Process -> Role \cup {None}]
    /\ final \in [Process -> BOOLEAN]
    /\ \A c \in Process : phase[c] # "idle" => role[c] \in Role
    /\ "repair_denied" \notin Env => \A c \in Process : final[c] => phase[c] = "idle"

\* What is spent and what may still be asked for stay within the limits together.
MoneyInv ==
    /\ \A c \in Process : runCost[c] < RunLimit + MaxCost
    /\ \A c \in Asking : runCost[c] < RunLimit
    /\ spent + MaxCost * Cardinality(Asking) <= DailyLimit + MaxCost * Cardinality(Process)

BudgetInv == A!TypeOK /\ CallInv /\ MoneyInv

LEMMA BudgetInit == Configured /\ A!Init => BudgetInv
<1> SUFFICES ASSUME Configured, A!Init PROVE BudgetInv
  OBVIOUS
<1>1. A!TypeOK
  BY DEF Configured, A!Init, A!TypeOK
<1>2. CallInv
  BY DEF Configured, A!Init, CallInv
<1>3. Asking = {} /\ Cardinality(Asking) = 0
  <2>1. Asking = {}
    BY DEF Asking, A!Init
  <2> QED
    BY <2>1, FS_EmptySet
<1>4. Cardinality(Process) \in Nat
  BY FS_CardinalityType DEF Configured
<1>5. MoneyInv
  <2>1. spent <= DailyLimit /\ spent \in Nat
    BY DEF A!Init, Configured
  <2>2. MaxCost * Cardinality(Process) \in Nat /\ MaxCost * 0 = 0
    BY <1>4 DEF Configured
  <2>3. spent + MaxCost * Cardinality(Asking) <= DailyLimit + MaxCost * Cardinality(Process)
    BY <1>3, <2>1, <2>2 DEF Configured
  <2>4. \A c \in Process : runCost[c] < RunLimit + MaxCost
    BY DEF A!Init, Configured
  <2> QED
    BY <1>3, <2>3, <2>4 DEF MoneyInv
<1> QED
  BY <1>1, <1>2, <1>5 DEF BudgetInv

\* The three things a step of c may do with money.
Rests(c) == Asking' \subseteq Asking /\ UNCHANGED <<spent, runCost>>
Asks(c) == A!MayCall(c) /\ Asking' = Asking \cup {c} /\ UNCHANGED <<spent, runCost>>
Pays(c) == \E cost \in 0..MaxCost :
    /\ c \in Asking /\ Asking' = Asking \ {c}
    /\ spent' = spent + cost
    /\ runCost' = [runCost EXCEPT ![c] = @ + cost]

LEMMA MoneySteps ==
    ASSUME A!TypeOK, NEW c \in Process,
           \/ \E r \in Role : A!StartCall(c, r)
           \/ A!Gate(c) \/ A!Retry(c) \/ A!Unavailable(c) \/ A!Denied(c) \/ A!Answered(c)
           \/ A!RepairGate(c) \/ A!RepairAnswered(c) \/ A!RepairFails(c)
    PROVE  Rests(c) \/ Asks(c) \/ Pays(c)
<1>1. phase = [d \in Process |-> phase[d]]
  BY DEF A!TypeOK
<1>2. ASSUME NEW from, NEW to, A!Goto(c, from, to)
      PROVE  /\ phase[c] = from
             /\ to \in {"invoke", "repair"} => Asking' = Asking \cup {c}
             /\ to \notin {"invoke", "repair"} => Asking' = Asking \ {c}
  BY <1>1, <1>2 DEF A!Goto, Asking
<1>3. ASSUME NEW from, NEW how, A!End(c, from, how)
      PROVE  phase[c] = from /\ Asking' = Asking \ {c}
  BY <1>2, <1>3 DEF A!End
<1>4. ASSUME NEW from, NEW how, A!FallBack(c, from, how)
      PROVE  phase[c] = from /\ Asking' = Asking \ {c}
  <2>1. A!End(c, from, how) \/ A!Goto(c, from, "gate")
    BY <1>4 DEF A!FallBack
  <2> QED
    BY <1>2, <1>3, <2>1
<1>5. ASSUME NEW r \in Role, A!StartCall(c, r) PROVE Rests(c)
  BY <1>2, <1>5 DEF A!StartCall, A!money, Rests
<1>6. CASE A!Gate(c)
  BY <1>2, <1>3, <1>6 DEF A!Gate, A!money, Rests, Asks
<1>7. CASE A!Retry(c)
  BY <1>7 DEF A!Retry, A!money, Rests, Asking
<1>8. CASE A!Unavailable(c) \/ A!Denied(c) \/ A!RepairFails(c)
  BY <1>3, <1>4, <1>8 DEF A!Unavailable, A!Denied, A!RepairFails, A!money, Rests
<1>9. CASE A!Answered(c)
  <2>1. PICK cost \in 0..MaxCost :
            /\ A!Settle(c, cost)
            /\ \/ A!End(c, "invoke", "ok") \/ A!End(c, "invoke", "refusal")
               \/ A!Goto(c, "invoke", "mend")
    BY <1>9 DEF A!Answered
  <2>2. phase[c] = "invoke" /\ Asking' = Asking \ {c}
    BY <1>2, <1>3, <2>1
  <2> QED
    BY <2>1, <2>2 DEF Pays, A!Settle, Asking
<1>10. CASE A!RepairGate(c)
  BY <1>2, <1>4, <1>10 DEF A!RepairGate, A!money, Rests, Asks
<1>11. CASE A!RepairAnswered(c)
  <2>1. PICK cost \in 0..MaxCost :
            /\ A!Settle(c, cost)
            /\ A!End(c, "repair", "ok") \/ A!FallBack(c, "repair", "malformed")
    BY <1>11 DEF A!RepairAnswered
  <2>2. phase[c] = "repair" /\ Asking' = Asking \ {c}
    BY <1>3, <1>4, <2>1
  <2> QED
    BY <2>1, <2>2 DEF Pays, A!Settle, Asking
<1> QED
  BY <1>5, <1>6, <1>7, <1>8, <1>9, <1>10, <1>11

LEMMA MoneyKept ==
    ASSUME Configured, A!TypeOK, MoneyInv, NEW c \in Process, Rests(c) \/ Asks(c) \/ Pays(c)
    PROVE  MoneyInv' /\ runCost' \in [Process -> Nat] /\ spent' \in Nat
<1> DEFINE k == Cardinality(Asking)
           n == Cardinality(Process)
<1>1. /\ IsFiniteSet(Asking) /\ IsFiniteSet(Process) /\ k \in Nat /\ n \in Nat
      /\ Asking' \subseteq Process
  <2>1. IsFiniteSet(Process) /\ Asking \subseteq Process
    BY DEF Configured, Asking
  <2> QED
    BY <2>1, FS_Subset, FS_CardinalityType DEF Asking
<1>2. \A T \in SUBSET Process : IsFiniteSet(T) /\ Cardinality(T) \in Nat /\ Cardinality(T) <= n
  BY <1>1, FS_Subset, FS_CardinalityType
<1>3. /\ MaxCost \in Nat /\ DailyLimit \in Nat /\ RunLimit \in Nat /\ spent \in Nat
      /\ runCost \in [Process -> Nat]
  BY DEF Configured, A!TypeOK
<1>4. CASE Rests(c)
  <2>1. Cardinality(Asking') \in Nat /\ Cardinality(Asking') <= k
    BY <1>1, <1>2, <1>4, FS_Subset DEF Rests
  <2>2. MaxCost * Cardinality(Asking') <= MaxCost * k
    BY <1>1, <1>3, <2>1
  <2>3. spent' + MaxCost * Cardinality(Asking') <= DailyLimit + MaxCost * n
    <3> HIDE DEF k, n
    <3>1. /\ MaxCost * Cardinality(Asking') \in Nat /\ MaxCost * k \in Nat
          /\ MaxCost * n \in Nat /\ spent' = spent
      BY <1>1, <1>3, <1>4, <2>1 DEF Rests
    <3>2. spent + MaxCost * k <= DailyLimit + MaxCost * n
      BY DEF MoneyInv, k, n
    <3> QED
      BY <1>3, <2>2, <3>1, <3>2
  <2> QED
    BY <1>3, <1>4, <2>3 DEF Rests, MoneyInv
<1>5. CASE Asks(c)
  <2>1. runCost[c] < RunLimit /\ spent < DailyLimit
    BY <1>3, <1>5 DEF Asks, A!MayCall, A!DailySpent
  <2>2. MaxCost * Cardinality(Asking') <= MaxCost * n
    BY <1>1, <1>2, <1>3
  <2>3. spent' + MaxCost * Cardinality(Asking') <= DailyLimit + MaxCost * n
    <3> HIDE DEF n
    <3>1. MaxCost * Cardinality(Asking') \in Nat /\ MaxCost * n \in Nat /\ spent' = spent
      BY <1>1, <1>2, <1>3, <1>5 DEF Asks
    <3> QED
      BY <1>3, <2>1, <2>2, <3>1
  <2> QED
    BY <1>3, <1>5, <2>1, <2>3 DEF Asks, MoneyInv
<1>6. CASE Pays(c)
  <2>1. PICK cost \in 0..MaxCost :
            /\ c \in Asking /\ Asking' = Asking \ {c} /\ spent' = spent + cost
            /\ runCost' = [runCost EXCEPT ![c] = @ + cost]
    BY <1>6 DEF Pays
  <2>2. Cardinality(Asking') = k - 1 /\ k - 1 \in Nat
    <3>1. Cardinality(Asking') = k - 1 /\ Cardinality(Asking') \in Nat
      BY <1>1, <1>2, <2>1, FS_RemoveElement
    <3> QED
      BY <3>1
  <2>3. spent' + MaxCost * Cardinality(Asking') <= DailyLimit + MaxCost * n
    <3> HIDE DEF k, n
    <3>1. MaxCost * (k - 1) = MaxCost * k - MaxCost
      BY <1>1, <1>3
    <3>2. spent + MaxCost * k <= DailyLimit + MaxCost * n
      BY DEF MoneyInv, k, n
    <3>3. MaxCost * k \in Nat /\ MaxCost * n \in Nat
      BY <1>1, <1>3
    <3> QED
      BY <1>3, <2>1, <2>2, <3>1, <3>2, <3>3
  <2>4. runCost[c] < RunLimit
    BY <2>1 DEF MoneyInv
  <2>5. \A d \in Process : runCost'[d] < RunLimit + MaxCost
    BY <1>3, <2>1, <2>4 DEF MoneyInv
  <2>6. \A d \in Asking' : runCost'[d] < RunLimit
    BY <1>3, <2>1 DEF MoneyInv, Asking
  <2> QED
    BY <1>3, <2>1, <2>3, <2>5, <2>6 DEF MoneyInv
<1> QED
  BY <1>4, <1>5, <1>6

\* The types, and what a caller in a call may not have met.
LEMMA CallKept ==
    ASSUME Configured, A!TypeOK, CallInv, NEW c \in Process,
           runCost' \in [Process -> Nat], spent' \in Nat,
           \/ \E r \in Role : A!StartCall(c, r)
           \/ A!Gate(c) \/ A!Retry(c) \/ A!Unavailable(c) \/ A!Denied(c) \/ A!Answered(c)
           \/ A!RepairGate(c) \/ A!RepairAnswered(c) \/ A!RepairFails(c)
    PROVE  A!TypeOK' /\ CallInv'
<1> DEFINE Phases == {"idle", "gate", "invoke", "mend", "repair"}
           Results == {None, "ok", "refusal", "denied", "unavailable", "malformed",
                       "budget_exceeded"}
           Named == /\ phase' \in [Process -> Phases] /\ result' \in [Process -> Results]
                    /\ walked' \in [Process -> SUBSET Role]
                    /\ role' \in [Process -> Role \cup {None}]
                    /\ \A d \in Process : phase'[d] # "idle" => role'[d] \in Role
           Told == /\ final' \in [Process -> BOOLEAN]
                   /\ "repair_denied" \notin Env => \A d \in Process : final'[d] => phase'[d] = "idle"
           Tried == tries' \in [Process -> 0..Attempts]
<1> SUFFICES Named /\ Told /\ Tried
  BY DEF A!TypeOK, CallInv
<1>1. /\ phase \in [Process -> Phases] /\ result \in [Process -> Results]
      /\ walked \in [Process -> SUBSET Role] /\ role \in [Process -> Role \cup {None}]
      /\ final \in [Process -> BOOLEAN] /\ tries \in [Process -> 0..Attempts]
      /\ \A d \in Process : phase[d] # "idle" => role[d] \in Role
      /\ "repair_denied" \notin Env => \A d \in Process : final[d] => phase[d] = "idle"
  BY DEF A!TypeOK, CallInv
<1>2. 1 \in 0..Attempts /\ Attempts \in Nat
  BY DEF Configured
<1>3. ASSUME NEW from \in Phases \ {"idle"}, NEW how \in Results, A!End(c, from, how)
      PROVE  /\ Named /\ UNCHANGED tries /\ phase[c] = from
             /\ phase' = [phase EXCEPT ![c] = "idle"]
  BY <1>1, <1>3 DEF A!End, A!Goto, A!walk
<1>4. ASSUME NEW from \in Phases \ {"idle"}, NEW to \in Phases, A!Goto(c, from, to),
             UNCHANGED <<role, walked, result>>
      PROVE  Named /\ phase[c] = from
  BY <1>1, <1>4 DEF A!Goto
<1>5. ASSUME NEW from \in Phases \ {"idle"}, NEW how \in Results, A!FallBack(c, from, how)
      PROVE  /\ Named /\ UNCHANGED tries /\ phase[c] = from
             /\ \E to : phase' = [phase EXCEPT ![c] = to]
  <2> DEFINE fallback == Fallback[role[c]]
  <2>1. phase[c] = from /\ fallback \in Role \cup {None}
    BY <1>1, <1>5 DEF A!FallBack, Configured
  <2>2. CASE A!End(c, from, how)
    BY <1>3, <1>5, <2>2
  <2>3. CASE /\ fallback # None /\ A!Goto(c, from, "gate")
             /\ role' = [role EXCEPT ![c] = fallback]
             /\ walked' = [walked EXCEPT ![c] = @ \cup {fallback}] /\ UNCHANGED <<tries, result>>
    BY <1>1, <2>1, <2>3 DEF A!Goto
  <2> QED
    BY <1>5, <2>2, <2>3 DEF A!FallBack
<1>6. ASSUME UNCHANGED final, NEW to, phase' = [phase EXCEPT ![c] = to], phase[c] # "idle"
      PROVE  Told
  BY <1>1, <1>6
<1>7. ASSUME final' = [final EXCEPT ![c] = TRUE], phase' = [phase EXCEPT ![c] = "idle"]
      PROVE  Told
  BY <1>1, <1>7
<1>8. ASSUME NEW r \in Role, A!StartCall(c, r) PROVE Named /\ Told /\ Tried
  BY <1>1, <1>8 DEF A!StartCall, A!Goto
<1>9. CASE A!Gate(c)
  <2>1. CASE A!End(c, "gate", "budget_exceeded")
    BY <1>1, <1>3, <1>6, <1>9, <2>1 DEF A!Gate
  <2>2. CASE A!Goto(c, "gate", "invoke") /\ tries' = [tries EXCEPT ![c] = 1]
             /\ UNCHANGED <<role, walked, result>>
    BY <1>1, <1>2, <1>4, <1>6, <1>9, <2>2 DEF A!Gate, A!Goto
  <2> QED
    BY <1>9, <2>1, <2>2 DEF A!Gate, A!walk
<1>10. CASE A!Retry(c)
  <2>1. Tried
    <3>1. tries[c] + 1 \in 0..Attempts
      BY <1>1, <1>2, <1>10 DEF A!Retry
    <3> QED
      BY <1>1, <1>10, <3>1 DEF A!Retry
  <2> QED
    BY <1>1, <1>10, <2>1 DEF A!Retry, A!walk
<1>11. CASE A!Unavailable(c)
  BY <1>1, <1>5, <1>6, <1>11 DEF A!Unavailable
<1>12. CASE A!Denied(c)
  BY <1>1, <1>3, <1>7, <1>12 DEF A!Denied
<1>13. CASE A!Answered(c)
  <2>1. CASE A!End(c, "invoke", "ok") /\ UNCHANGED final
    BY <1>1, <1>3, <1>6, <2>1
  <2>2. CASE A!End(c, "invoke", "refusal") /\ final' = [final EXCEPT ![c] = TRUE]
    BY <1>1, <1>3, <1>7, <2>2
  <2>3. CASE A!Goto(c, "invoke", "mend") /\ UNCHANGED <<role, walked, tries, result, final>>
    BY <1>1, <1>4, <1>6, <2>3 DEF A!Goto
  <2> QED
    BY <1>13, <2>1, <2>2, <2>3 DEF A!Answered, A!walk
<1>14. CASE A!RepairGate(c)
  <2>1. CASE A!FallBack(c, "mend", "malformed")
    BY <1>1, <1>5, <1>6, <1>14, <2>1 DEF A!RepairGate
  <2>2. CASE A!Goto(c, "mend", "repair") /\ tries' = [tries EXCEPT ![c] = 1]
             /\ UNCHANGED <<role, walked, result>>
    BY <1>1, <1>2, <1>4, <1>6, <1>14, <2>2 DEF A!RepairGate, A!Goto
  <2> QED
    BY <1>14, <2>1, <2>2 DEF A!RepairGate, A!walk
<1>15. CASE A!RepairAnswered(c)
  <2>1. UNCHANGED final /\ (A!End(c, "repair", "ok") \/ A!FallBack(c, "repair", "malformed"))
    BY <1>15 DEF A!RepairAnswered
  <2> QED
    BY <1>1, <1>3, <1>5, <1>6, <2>1
<1>16. CASE A!RepairFails(c)
  <2>1. /\ A!FallBack(c, "repair", "malformed")
        /\ UNCHANGED final \/ ("repair_denied" \in Env /\ final' = [final EXCEPT ![c] = TRUE])
    BY <1>16 DEF A!RepairFails
  <2>2. CASE UNCHANGED final
    BY <1>1, <1>5, <1>6, <2>1, <2>2
  <2>3. CASE "repair_denied" \in Env /\ final' = [final EXCEPT ![c] = TRUE]
    BY <1>1, <1>5, <2>1, <2>3
  <2> QED
    BY <2>1, <2>2, <2>3
<1> QED
  BY <1>8, <1>9, <1>10, <1>11, <1>12, <1>13, <1>14, <1>15, <1>16

LEMMA BudgetKept == Configured /\ BudgetInv /\ [A!Next]_(A!avars) => BudgetInv'
<1> SUFFICES ASSUME Configured, BudgetInv, [A!Next]_(A!avars) PROVE BudgetInv'
  OBVIOUS
<1>1. CASE A!Next
  <2>1. PICK c \in Process :
           \/ \E r \in Role : A!StartCall(c, r)
           \/ A!Gate(c) \/ A!Retry(c) \/ A!Unavailable(c) \/ A!Denied(c) \/ A!Answered(c)
           \/ A!RepairGate(c) \/ A!RepairAnswered(c) \/ A!RepairFails(c)
    BY <1>1 DEF A!Next
  <2>2. MoneyInv' /\ runCost' \in [Process -> Nat] /\ spent' \in Nat
    BY <2>1, MoneySteps, MoneyKept DEF BudgetInv
  <2>3. A!TypeOK' /\ CallInv'
    BY <2>1, <2>2, CallKept DEF BudgetInv
  <2> QED
    BY <2>2, <2>3 DEF BudgetInv
<1>2. CASE UNCHANGED A!avars
  BY <1>2 DEF A!avars, BudgetInv, A!TypeOK, CallInv, MoneyInv, Asking
<1> QED
  BY <1>1, <1>2

\* However the calls of any number of runs overlap, and however many retries, repairs and
\* fallbacks they take, no run spends more than one answer beyond its limit, and all of them
\* no more than one answer each beyond the daily one (budget.py check_before_call, settle).
THEOREM BudgetHolds == Configured /\ A!Spec => [](A!TypeOK /\ A!SpendBounded)
<1> SUFFICES ASSUME Configured PROVE A!Spec => [](A!TypeOK /\ A!SpendBounded)
  OBVIOUS
<1>1. A!Init => BudgetInv
  BY BudgetInit
<1>2. BudgetInv /\ [A!Next]_(A!avars) => BudgetInv'
  BY BudgetKept
<1>3. BudgetInv => A!TypeOK /\ A!SpendBounded
  <2> SUFFICES ASSUME BudgetInv PROVE A!SpendBounded
    BY DEF BudgetInv
  <2>1. MaxCost * Cardinality(Asking) \in Nat
    <3>1. IsFiniteSet(Asking)
      BY FS_Subset DEF Configured, Asking
    <3>2. Cardinality(Asking) \in Nat
      BY <3>1, FS_CardinalityType
    <3> QED
      BY <3>2 DEF Configured
  <2>2. MaxCost * Cardinality(Process) = Cardinality(Process) * MaxCost
        /\ Cardinality(Process) * MaxCost \in Nat
    <3>1. Cardinality(Process) \in Nat
      BY FS_CardinalityType DEF Configured
    <3> QED
      BY <3>1 DEF Configured
  <2>3. spent \in Nat /\ DailyLimit \in Nat
    BY DEF Configured, BudgetInv, A!TypeOK
  <2>4. spent <= DailyLimit + Cardinality(Process) * MaxCost
    BY <2>1, <2>2, <2>3 DEF BudgetInv, MoneyInv
  <2>5. A!Cardinality(Process) = Cardinality(Process)
    BY DEF A!Cardinality, Cardinality
  <2> QED
    BY <2>4, <2>5 DEF BudgetInv, MoneyInv, A!SpendBounded
<1> QED
  BY <1>1, <1>2, <1>3, PTL DEF A!Spec

\* After a refusal, an authentication or a policy error the call is over, whoever else
\* calls (invoke.py), unless it was the schema repair that was refused.
THEOREM RefusalIsFinal ==
    Configured /\ "repair_denied" \notin Env /\ A!Spec => []A!NeverBypassed
<1> SUFFICES ASSUME Configured, "repair_denied" \notin Env PROVE A!Spec => []A!NeverBypassed
  OBVIOUS
<1>1. A!Init => BudgetInv
  BY BudgetInit
<1>2. BudgetInv /\ [A!Next]_(A!avars) => BudgetInv'
  BY BudgetKept
<1>3. BudgetInv => A!NeverBypassed
  BY DEF BudgetInv, CallInv, A!NeverBypassed
<1> QED
  BY <1>1, <1>2, <1>3, PTL DEF A!Spec

-----------------------------------------------------------------------------
(***************************************************************************)
(* The registry.                                                           *)
(***************************************************************************)
\* None is none of the ids, roots and processes; no client outlives its lock (a command
\* takes seconds, stale_seconds is 60), no two break it at once and no archived project is
\* initialised again.
Registering == /\ None \notin Process \cup Id \cup Root
               /\ {"overrun", "breakers", "revive"} \cap Env = {}

\* A registry: records by id, no two of them at one root unless archived.
Live(rec) == rec.status # "archived"
Sound(reg) ==
    /\ reg = [i \in DOMAIN reg |-> reg[i]]
    /\ DOMAIN reg \subseteq Id
    /\ \A i \in DOMAIN reg : reg[i] \in G!Record
    /\ \A i, j \in DOMAIN reg : i # j /\ Live(reg[i]) /\ Live(reg[j]) => reg[i].root # reg[j].root

\* Who is at work has the lock, which does not age, and what was loaded is still the file.
Working(c) == /\ gAt[c] \in {"locked", "loaded"} => lock = c /\ ~old
              /\ gAt[c] = "loaded" => view[c] = file

\* Who breaks the lock does so alone, and the file is still the old one.
Breaks(c) == gAt[c] = "breaking" =>
                 lock # None /\ old /\ \A d \in Process : gAt[d] = "breaking" => d = c

RegistryInv ==
    /\ gAt \in [Process -> {"idle", "wait", "breaking", "locked", "loaded"}]
    /\ command = [c \in Process |-> command[c]] /\ view = [c \in Process |-> view[c]]
    /\ lock \in Process \cup {None}
    /\ \A c \in Process : gAt[c] # "idle" => command[c] \in G!Command
    /\ \A c \in Process : Working(c) /\ Breaks(c)
    /\ Sound(file) /\ expected = file

\* Unless it is archived, no other live project has the root of this record.
Alone(rec, i, reg) ==
    Live(rec) => \A j \in DOMAIN reg \ {i} : Live(reg[j]) => reg[j].root # rec.root

LEMMA WithSound ==
    ASSUME NEW reg, Sound(reg), NEW i \in Id, NEW rec \in G!Record, Alone(rec, i, reg)
    PROVE  Sound(G!With(reg, i, rec))
<1> DEFINE new == G!With(reg, i, rec)
<1>1. new = [j \in DOMAIN reg \cup {i} |-> IF j = i THEN rec ELSE reg[j]]
  BY DEF G!With
<1>2. /\ DOMAIN new = DOMAIN reg \cup {i} /\ new[i] = rec
      /\ \A j \in DOMAIN reg \ {i} : new[j] = reg[j]
      /\ new = [j \in DOMAIN new |-> new[j]]
  BY <1>1
<1> HIDE DEF new
<1>3. DOMAIN new \subseteq Id /\ \A j \in DOMAIN new : new[j] \in G!Record
  BY <1>2 DEF Sound
<1>4. ASSUME NEW j \in DOMAIN new, NEW k \in DOMAIN new, j # k, Live(new[j]), Live(new[k])
      PROVE  new[j].root # new[k].root
  <2>1. CASE j = i
    BY <1>2, <1>4, <2>1 DEF Alone
  <2>2. CASE k = i
    BY <1>2, <1>4, <2>2 DEF Alone
  <2>3. CASE j # i /\ k # i
    BY <1>2, <1>4, <2>3 DEF Sound
  <2> QED
    BY <2>1, <2>2, <2>3
<1>5. Sound(new)
  BY <1>2, <1>3, <1>4 DEF Sound
<1> QED
  BY <1>5 DEF new

\* Whatever a command makes of a sound registry is one.
LEMMA OutcomeSound ==
    ASSUME Registering, NEW reg, Sound(reg), NEW cmd \in G!Command, G!Outcome(reg, cmd) # None
    PROVE  Sound(G!Outcome(reg, cmd))
<1> DEFINE i == cmd.id
<1>1. /\ i \in Id /\ cmd.op \in {"add", "relink", "enable", "archive", "remove", "init"}
      /\ cmd.op \in {"add", "relink"} => cmd.root \in Root
  BY DEF G!Command
<1>2. \A j \in DOMAIN reg : j \in Id /\ reg[j] \in G!Record
  BY DEF Sound
<1>3. CASE cmd.op = "add"
  <2> DEFINE rec == [root |-> cmd.root, status |-> "registered", enabled |-> FALSE]
  <2>1. G!Outcome(reg, cmd) = G!Added(reg, i, cmd.root)
    BY <1>3 DEF G!Outcome
  <2>2. ~G!Taken(reg, cmd.root, None) /\ G!Added(reg, i, cmd.root) = G!With(reg, i, rec)
    BY <2>1 DEF G!Added
  <2>3. Alone(rec, i, reg)
    BY <1>2, <2>2 DEF G!Taken, Live, Registering, Alone
  <2>4. rec \in G!Record
    BY <1>1, <1>3 DEF G!Record
  <2> QED
    BY <1>1, <2>1, <2>2, <2>3, <2>4, WithSound
<1>4. CASE cmd.op = "relink"
  <2> DEFINE rec == [reg[i] EXCEPT !.root = cmd.root]
  <2>1. G!Outcome(reg, cmd) = G!Relinked(reg, i, cmd.root)
    BY <1>4 DEF G!Outcome
  <2>2. /\ i \in DOMAIN reg /\ ~G!Taken(reg, cmd.root, i)
        /\ G!Relinked(reg, i, cmd.root) = G!With(reg, i, rec)
    BY <2>1 DEF G!Relinked
  <2>3. rec \in G!Record /\ rec.root = cmd.root
    BY <1>1, <1>2, <1>4, <2>2 DEF G!Record
  <2>4. Alone(rec, i, reg)
    BY <2>2, <2>3 DEF G!Taken, Live, Alone
  <2> QED
    BY <1>1, <2>1, <2>2, <2>3, <2>4, WithSound
<1>5. CASE cmd.op = "remove"
  <2>1. G!Outcome(reg, cmd) = [j \in DOMAIN reg \ {i} |-> reg[j]]
    BY <1>5 DEF G!Outcome, G!Removed, G!Restrict
  <2> QED
    BY <2>1 DEF Sound
<1>6. CASE cmd.op \in {"enable", "archive", "init"}
  <2>1. G!Outcome(reg, cmd) = G!Updated(reg, i, cmd.op) /\ i \in DOMAIN reg
    BY <1>6 DEF G!Outcome, G!Updated
  <2>2. ASSUME NEW rec \in G!Record, rec.root = reg[i].root, Live(rec) => Live(reg[i])
        PROVE  Sound(G!With(reg, i, rec))
    <3>1. Alone(rec, i, reg)
      BY <2>1, <2>2 DEF Sound, Alone
    <3> QED
      BY <1>1, <2>2, <3>1, WithSound
  <2>3. CASE cmd.op = "enable"
    <3> DEFINE rec == [reg[i] EXCEPT !.enabled = TRUE]
    <3>1. G!Updated(reg, i, cmd.op) = G!With(reg, i, rec)
      BY <2>1, <2>3 DEF G!Updated
    <3>2. rec \in G!Record /\ rec.root = reg[i].root /\ (Live(rec) => Live(reg[i]))
      BY <1>2, <2>1 DEF G!Record, Live
    <3> QED
      BY <2>1, <2>2, <3>1, <3>2
  <2>4. CASE cmd.op = "archive"
    <3> DEFINE rec == [reg[i] EXCEPT !.status = "archived", !.enabled = FALSE]
    <3>1. G!Updated(reg, i, cmd.op) = G!With(reg, i, rec)
      BY <2>1, <2>4 DEF G!Updated
    <3>2. rec \in G!Record /\ rec.root = reg[i].root /\ ~Live(rec)
      BY <1>2, <2>1 DEF G!Record, Live
    <3> QED
      BY <2>1, <2>2, <3>1, <3>2
  <2>5. CASE cmd.op = "init"
    <3> DEFINE rec == [reg[i] EXCEPT !.status = "initialised"]
    <3>1. G!Updated(reg, i, cmd.op) = G!With(reg, i, rec) /\ Live(reg[i])
      BY <2>1, <2>5 DEF G!Updated, Registering, Live
    <3>2. rec \in G!Record /\ rec.root = reg[i].root
      BY <1>2, <2>1 DEF G!Record
    <3> QED
      BY <2>1, <2>2, <3>1, <3>2
  <2> QED
    BY <1>6, <2>3, <2>4, <2>5
<1> QED
  BY <1>1, <1>3, <1>4, <1>5, <1>6

LEMMA RegistryInit == Registering /\ G!Init => RegistryInv
<1> SUFFICES ASSUME Registering, G!Init PROVE RegistryInv
  OBVIOUS
<1>1. file = <<>> /\ expected = file /\ lock = None /\ gAt = [c \in Process |-> "idle"]
      /\ command = [c \in Process |-> None] /\ view = [c \in Process |-> None]
  BY DEF G!Init
<1>2. Sound(file)
  BY <1>1 DEF Sound
<1> QED
  BY <1>1, <1>2 DEF RegistryInv, Working, Breaks

LEMMA RegistryKept == Registering /\ RegistryInv /\ [G!Next]_(G!gvars) => RegistryInv'
<1> SUFFICES ASSUME Registering, RegistryInv, [G!Next]_(G!gvars) PROVE RegistryInv'
  OBVIOUS
<1>1. /\ gAt = [c \in Process |-> gAt[c]] /\ lock \in Process \cup {None}
      /\ command = [c \in Process |-> command[c]] /\ view = [c \in Process |-> view[c]]
      /\ \A c \in Process : Working(c) /\ Breaks(c)
  BY DEF RegistryInv
<1>2. ASSUME NEW c \in Process, NEW cmd \in G!Command, G!Issue(c, cmd) PROVE RegistryInv'
  <2>1. /\ gAt[c] = "idle" /\ gAt' = [gAt EXCEPT ![c] = "wait"]
        /\ command' = [command EXCEPT ![c] = cmd]
        /\ UNCHANGED <<view, file, lock, old, expected>>
    BY <1>2 DEF G!Issue, G!Goto
  <2>2. \A d \in Process : Working(d)' /\ Breaks(d)'
    BY <1>1, <2>1 DEF Working, Breaks
  <2> QED
    BY <1>1, <2>1, <2>2 DEF RegistryInv
<1>3. ASSUME NEW c \in Process, G!Lock(c) PROVE RegistryInv'
  <2>1. /\ gAt[c] = "wait" /\ gAt' = [gAt EXCEPT ![c] = "locked"] /\ lock = None /\ lock' = c
        /\ ~old' /\ UNCHANGED <<command, view, file, expected>>
    BY <1>3 DEF G!Lock, G!Goto
  <2>2. \A d \in Process : gAt[d] \notin {"locked", "loaded"}
    BY <1>1, <2>1 DEF Working, Breaks, Registering
  <2>3. \A d \in Process : Working(d)' /\ Breaks(d)'
    BY <1>1, <2>1, <2>2 DEF Working, Breaks
  <2> QED
    BY <1>1, <2>1, <2>3 DEF RegistryInv
<1>4. ASSUME NEW c \in Process, G!BreakLock(c) PROVE RegistryInv'
  <2>1. /\ gAt[c] = "breaking" /\ gAt' = [gAt EXCEPT ![c] = "wait"]
        /\ lock' = None /\ UNCHANGED <<command, view, file, expected>>
    BY <1>4 DEF G!BreakLock, G!Goto
  <2>2. \A d \in Process : gAt[d] \notin {"locked", "loaded"}
    BY <1>1, <2>1 DEF Working, Breaks
  <2>3. \A d \in Process : Working(d)' /\ Breaks(d)'
    BY <1>1, <2>1, <2>2 DEF Working, Breaks
  <2> QED
    BY <1>1, <2>1, <2>3 DEF RegistryInv
<1>10. ASSUME NEW c \in Process, G!FindOld(c) PROVE RegistryInv'
  <2>1. /\ gAt[c] = "wait" /\ gAt' = [gAt EXCEPT ![c] = "breaking"] /\ lock # None /\ old
        /\ \A d \in Process : gAt[d] # "breaking"
        /\ UNCHANGED <<command, view, file, lock, old, expected>>
    BY <1>10 DEF G!FindOld, G!Goto, Registering
  <2>2. \A d \in Process : Working(d)' /\ Breaks(d)'
    BY <1>1, <2>1 DEF Working, Breaks
  <2> QED
    BY <1>1, <2>1, <2>2 DEF RegistryInv
<1>5. ASSUME NEW c \in Process, G!GiveUp(c) \/ G!Crash(c) PROVE RegistryInv'
  <2>1. /\ gAt' = [gAt EXCEPT ![c] = "idle"] /\ command' = [command EXCEPT ![c] = None]
        /\ view' = [view EXCEPT ![c] = None] /\ UNCHANGED <<file, lock, old, expected>>
    BY <1>5 DEF G!GiveUp, G!Crash, G!Goto, G!Forget
  <2>2. \A d \in Process : Working(d)' /\ Breaks(d)'
    BY <1>1, <2>1 DEF Working, Breaks
  <2> QED
    BY <1>1, <2>1, <2>2 DEF RegistryInv
<1>6. ASSUME NEW c \in Process, G!Load(c) PROVE RegistryInv'
  <2>1. /\ gAt[c] = "locked" /\ gAt' = [gAt EXCEPT ![c] = "loaded"]
        /\ view' = [view EXCEPT ![c] = file]
        /\ UNCHANGED <<command, file, lock, old, expected>>
    BY <1>6 DEF G!Load, G!Goto
  <2>2. \A d \in Process : Working(d)' /\ Breaks(d)'
    BY <1>1, <2>1 DEF Working, Breaks
  <2> QED
    BY <1>1, <2>1, <2>2 DEF RegistryInv
<1>7. ASSUME NEW c \in Process, G!Save(c) PROVE RegistryInv'
  <2> DEFINE new == G!Outcome(file, command[c])
  <2>1. /\ gAt[c] = "loaded" /\ gAt' = [gAt EXCEPT ![c] = "idle"] /\ lock' = None
        /\ command' = [command EXCEPT ![c] = None] /\ view' = [view EXCEPT ![c] = None]
    BY <1>7 DEF G!Save, G!Goto, G!Forget
  <2>2. view[c] = file /\ expected = file /\ command[c] \in G!Command /\ Sound(file)
    BY <2>1 DEF RegistryInv, Working
  <2>3. file' = (IF new = None THEN file ELSE new) /\ expected' = file'
    BY <1>7, <2>2 DEF G!Save
  <2>4. Sound(file')
    BY <2>2, <2>3, OutcomeSound
  <2>5. \A d \in Process \ {c} : gAt[d] \notin {"locked", "loaded"}
    BY <1>1, <2>1 DEF Working, Breaks
  <2>6. \A d \in Process : Working(d)' /\ Breaks(d)'
    BY <1>1, <2>1, <2>5 DEF Working, Breaks
  <2>7. Sound(file)'
    BY <2>4 DEF Sound
  <2> QED
    BY <1>1, <2>1, <2>3, <2>6, <2>7 DEF RegistryInv
<1>8. CASE G!LockAges
  <2>1. /\ lock # None /\ ~old /\ gAt[lock] \notin {"locked", "loaded"}
        /\ UNCHANGED <<gAt, command, view, file, lock, expected>>
    BY <1>8 DEF G!LockAges, Registering
  <2>2. \A d \in Process : Working(d)' /\ Breaks(d)'
    BY <1>1, <2>1 DEF Working, Breaks
  <2> QED
    BY <2>1, <2>2 DEF RegistryInv
<1>9. CASE UNCHANGED G!gvars
  BY <1>9 DEF G!gvars, RegistryInv, Working, Breaks
<1> QED
  BY <1>2, <1>3, <1>4, <1>5, <1>6, <1>7, <1>8, <1>9, <1>10 DEF G!Next

\* Whoever adds, moves, archives, initialises and removes projects, in any order, from any
\* number of processes that may die with the lock: no two projects that are not archived live
\* at one root, and the file is what the commands that succeeded made of it (registry.py
\* add, relink, update, remove, FileLock).
THEOREM RegistryIsSound ==
    Registering /\ G!Spec => [](G!TypeOK /\ G!RootsAreUnique /\ G!NoUpdateLost)
<1> SUFFICES ASSUME Registering
             PROVE  G!Spec => [](G!TypeOK /\ G!RootsAreUnique /\ G!NoUpdateLost)
  OBVIOUS
<1>1. G!Init => RegistryInv
  BY RegistryInit
<1>2. RegistryInv /\ [G!Next]_(G!gvars) => RegistryInv'
  BY RegistryKept
<1>3. RegistryInv => G!TypeOK /\ G!RootsAreUnique /\ G!NoUpdateLost
  BY DEF RegistryInv, Sound, Live, G!TypeOK, G!RootsAreUnique, G!NoUpdateLost
<1> QED
  BY <1>1, <1>2, <1>3, PTL DEF G!Spec

-----------------------------------------------------------------------------
(***************************************************************************)
(* The supervisor.                                                         *)
(***************************************************************************)
Entries == [state : {"running", "completed", "timeout", "reconciled_dead"}, deadline : Nat]

\* The bounds are numbers of polls, and None is neither a record nor a name of a deadline.
Timed ==
    /\ Total \in Nat /\ Grace \in Nat /\ Forced \in Nat /\ Joining \in Nat /\ Slack \in Nat
    /\ MaxTime \in Nat /\ FirstOutput \in Nat \cup {None} /\ IdleOutput \in Nat \cup {None}
    /\ None \notin Entries \cup {"first_output", "idle_output", "total_execution"}

WatchTypes ==
    /\ now \in Nat /\ wall \in Nat /\ now <= wall /\ wall <= MaxTime
    /\ owner \in {"none", "spawned", "watching", "graceful", "forced", "joining", "returned", "dead"}
    /\ child \in {"none", "running", "exited"} /\ kin \in {"none", "running", "gone"}
    /\ heard \in {None} \cup 0..MaxTime
    /\ record \in Entries \cup {None}
    /\ rescue.copy \in Entries \cup {None}
    /\ rescue = [step |-> rescue.step, since |-> rescue.since, copy |-> rescue.copy]

\* Who has a record, and who reads one.
RecordedInv ==
    /\ owner \in {"none", "spawned"} => record = None
    /\ owner \in {"watching", "graceful", "forced", "joining"} => record \in Entries
    /\ rescue.step # "idle" => record \in Entries /\ rescue.copy \in Entries

\* Each step of the owner begins within its bound, and none lasts longer than its own.
Within(bound) == since \in Nat /\ since <= bound
OnTime ==
    /\ owner \in {"none", "spawned"} => now = 0
    /\ owner = "watching" => Within(Total + 1) /\ now <= since
    /\ owner = "graceful" => Within(Total + 1) /\ now <= since + Grace
    /\ owner = "forced" => Within(Total + 1 + Grace) /\ now <= since + Forced
    /\ owner = "joining" => Within(Total + 1 + Grace + Forced) /\ now <= since + Joining

WatchInv == WatchTypes /\ RecordedInv /\ OnTime /\ (forced => kin = "gone")

LEMMA WatchInit == Timed /\ P!Init => WatchInv
<1> SUFFICES ASSUME Timed, P!Init PROVE WatchInv
  OBVIOUS
<1>1. WatchTypes
  BY DEF Timed, P!Init, WatchTypes
<1>2. RecordedInv /\ OnTime /\ ~forced
  BY DEF P!Init, RecordedInv, OnTime
<1> QED
  BY <1>1, <1>2 DEF WatchInv

\* The owner up to the end of its watch.
LEMMA WatchesInTime ==
    ASSUME Timed, WatchInv, P!Spawn \/ P!WriteRecord \/ P!Look
    PROVE  WatchInv'
<1> USE DEF WatchInv, Timed, WatchTypes, RecordedInv, OnTime, Within
<1>1. CASE P!Spawn
  BY <1>1 DEF P!Spawn
<1>2. CASE P!WriteRecord
  <2>1. /\ owner = "spawned" /\ owner' = "watching" /\ since' = now
        /\ record' = [state |-> "running", deadline |-> P!DeadlineAt]
        /\ UNCHANGED <<now, wall, child, kin, heard, forced, rescue>>
    BY <1>2 DEF P!WriteRecord
  <2>2. record' \in Entries
    BY <2>1 DEF Entries, P!DeadlineAt
  <2> QED
    BY <2>1, <2>2
<1>3. CASE P!Look
  <2>1. /\ owner = "watching" /\ now >= since /\ record' = [record EXCEPT !.state = "running"]
        /\ UNCHANGED <<now, wall, child, kin, heard, forced, rescue>>
    BY <1>3 DEF P!Look
  <2>2. record' \in Entries
    BY <2>1 DEF Entries
  <2>3. now = since /\ now <= Total + 1
    BY <2>1
  <2>4. CASE owner' = "joining" /\ since' = now
    BY <2>1, <2>2, <2>3, <2>4
  <2>5. CASE owner' = "graceful" /\ since' = now
    BY <2>1, <2>2, <2>3, <2>5
  <2>6. CASE P!Passed = None /\ since' = now + 1 /\ UNCHANGED owner
    <3>1. now <= Total
      BY <2>6 DEF P!Passed
    <3> QED
      BY <2>1, <2>2, <2>6, <3>1
  <2> QED
    BY <1>3, <2>4, <2>5, <2>6 DEF P!Look
<1> QED
  BY <1>1, <1>2, <1>3

\* The end of the child, and of the owner.
LEMMA EndsInTime ==
    ASSUME Timed, WatchInv,
           P!EndsGracefully \/ P!ForceKill \/ P!EndsForced \/ P!Return \/ P!OwnerDies
    PROVE  WatchInv'
<1> USE DEF WatchInv, Timed, WatchTypes, RecordedInv, OnTime, Within
<1>1. CASE P!EndsGracefully
  BY <1>1 DEF P!EndsGracefully
<1>2. CASE P!ForceKill
  BY <1>2 DEF P!ForceKill, P!Killed
<1>3. CASE P!EndsForced
  BY <1>3 DEF P!EndsForced
<1>4. CASE P!Return
  <2>1. /\ owner = "joining" /\ owner' = "returned"
        /\ UNCHANGED <<now, wall, since, child, kin, heard, forced, rescue>>
    BY <1>4 DEF P!Return
  <2>2. record' \in Entries
    BY <1>4, <2>1 DEF P!Return, Entries
  <2> QED
    BY <2>1, <2>2
<1>5. CASE P!OwnerDies
  BY <1>5 DEF P!OwnerDies
<1> QED
  BY <1>1, <1>2, <1>3, <1>4, <1>5

\* The child and its descendants, the process table, and time.
LEMMA ChildInTime ==
    ASSUME Timed, WatchInv,
           P!Fork \/ P!Output \/ P!Exit \/ P!KinExits \/ P!Reuse \/ P!Tick
    PROVE  WatchInv'
<1> USE DEF WatchInv, Timed, WatchTypes, RecordedInv, OnTime, Within
<1>1. CASE P!Fork \/ P!Exit \/ P!KinExits \/ P!Reuse
  BY <1>1 DEF P!Fork, P!Exit, P!KinExits, P!Reuse
<1>2. CASE P!Output
  BY <1>2 DEF P!Output
<1>3. CASE P!Tick
  <2>1. /\ wall < MaxTime /\ wall' = wall + 1 /\ (UNCHANGED now \/ (~P!Due /\ now' = now + 1))
        /\ UNCHANGED <<owner, since, child, kin, heard, forced, record, rescue>>
    BY <1>3 DEF P!Tick
  <2>2. CASE UNCHANGED now
    BY <2>1, <2>2
  <2>3. CASE ~P!Due /\ now' = now + 1
    BY <2>1, <2>3 DEF P!Due, P!Drained
  <2> QED
    BY <2>1, <2>2, <2>3
<1> QED
  BY <1>1, <1>2, <1>3

\* The recovery.
LEMMA RescueInTime ==
    ASSUME Timed, WatchInv,
           \/ P!List \/ P!Probe \/ P!Terminate \/ P!SeesGone \/ P!KillByPid \/ P!KillOver
           \/ P!Mark
    PROVE  WatchInv'
<1> USE DEF WatchInv, Timed, WatchTypes, RecordedInv, OnTime, Within
<1>1. CASE P!List
  BY <1>1 DEF P!List
<1>2. CASE P!Probe \/ P!Terminate \/ P!SeesGone \/ P!KillOver
  <2>1. /\ \E step \in {"gone", "overdue", "idle", "graceful", "over"} :
              rescue' = [rescue EXCEPT !.step = step, !.since = now]
        /\ rescue.step # "idle"
        /\ UNCHANGED <<now, wall, owner, since, child, kin, heard, forced, record>>
    BY <1>2 DEF P!Probe, P!Terminate, P!SeesGone, P!KillOver, P!Goes
  <2> QED
    BY <2>1, ZenonT(60)
<1>3. CASE P!KillByPid
  <2>1. /\ rescue' = [rescue EXCEPT !.step = "forced", !.since = now]
        /\ rescue.step = "graceful"
        /\ child' \in {child, "exited"} /\ kin' \in {kin, "gone"}
        /\ UNCHANGED <<now, wall, owner, since, heard, forced, record>>
    BY <1>3 DEF P!KillByPid, P!Goes, P!Killed, P!Family
  <2>2. WatchTypes'
    BY <2>1
  <2>3. RecordedInv' /\ OnTime' /\ (forced' => kin' = "gone")
    BY <2>1
  <2> QED
    BY <2>2, <2>3
<1>4. CASE P!Mark
  <2>1. /\ rescue.step \in {"gone", "over"}
        /\ rescue' = [rescue EXCEPT !.step = "idle", !.since = now]
        /\ UNCHANGED <<now, wall, owner, since, child, kin, heard, forced>>
    BY <1>4 DEF P!Mark, P!Goes
  <2>2. record' \in Entries
    BY <1>4, <2>1 DEF P!Mark, Entries
  <2>3. owner \notin {"none", "spawned"}
    BY <2>1 DEF Entries
  <2> QED
    BY <2>1, <2>2, <2>3
<1> QED
  BY <1>1, <1>2, <1>3, <1>4

LEMMA WatchKept == Timed /\ WatchInv /\ [P!Next]_(P!svars) => WatchInv'
<1> SUFFICES ASSUME Timed, WatchInv, [P!Next]_(P!svars) PROVE WatchInv'
  OBVIOUS
<1>1. CASE UNCHANGED P!svars
  BY <1>1 DEF P!svars, WatchInv, WatchTypes, RecordedInv, OnTime, Within
<1>2. CASE P!Spawn \/ P!WriteRecord \/ P!Look
  BY <1>2, WatchesInTime
<1>3. CASE P!EndsGracefully \/ P!ForceKill \/ P!EndsForced \/ P!Return \/ P!OwnerDies
  BY <1>3, EndsInTime
<1>4. CASE P!Fork \/ P!Output \/ P!Exit \/ P!KinExits \/ P!Reuse \/ P!Tick
  BY <1>4, ChildInTime
<1>5. CASE \/ P!List \/ P!Probe \/ P!Terminate \/ P!SeesGone \/ P!KillByPid \/ P!KillOver
           \/ P!Mark
  BY <1>5, RescueInTime
<1> QED
  BY <1>1, <1>2, <1>3, <1>4, <1>5 DEF P!Next

\* Whatever the child, its descendants, the process table and the clocks do: a run under
\* supervision returns to its caller within the sum of its bounds and one poll, and what had
\* to be killed and was seen to stop has left no descendant (supervisor.py run_supervised,
\* terminate_tree).
THEOREM RunsReturnInTime ==
    Timed /\ P!Spec => [](P!TypeOK /\ P!ReturnsInTime /\ P!KilledWhole)
<1> SUFFICES ASSUME Timed
             PROVE  P!Spec => [](P!TypeOK /\ P!ReturnsInTime /\ P!KilledWhole)
  OBVIOUS
<1>1. P!Init => WatchInv
  BY WatchInit
<1>2. WatchInv /\ [P!Next]_(P!svars) => WatchInv'
  BY WatchKept
<1>3. WatchInv => P!TypeOK /\ P!ReturnsInTime /\ P!KilledWhole
  <2> SUFFICES ASSUME WatchInv PROVE P!TypeOK /\ P!ReturnsInTime /\ P!KilledWhole
    OBVIOUS
  <2>1. P!TypeOK
    <3>1. now \in 0..MaxTime /\ wall \in now..MaxTime
      BY DEF WatchInv, WatchTypes, Timed
    <3>2. record # None =>
             record.state \in {"running", "completed", "timeout", "reconciled_dead"}
      BY DEF WatchInv, WatchTypes, Entries
    <3> QED
      BY <3>1, <3>2 DEF WatchInv, WatchTypes, P!TypeOK, P!Alive, P!Ending
  <2>2. P!ReturnsInTime
    BY DEF WatchInv, WatchTypes, OnTime, Within, Timed, P!ReturnsInTime, P!Alive, P!Ending
  <2>3. P!KilledWhole
    BY DEF WatchInv, P!KilledWhole
  <2> QED
    BY <2>1, <2>2, <2>3
<1> QED
  BY <1>1, <1>2, <1>3, PTL DEF P!Spec

\* The machine does not sleep, a process has a start time to know it by, and no number is
\* given away while the process that had it is being ended.
Awake == {"suspend", "no_token", "reuse_in_grace"} \cap Env = {}
\* What the record adds to the bounds (30 seconds) covers the wait for the readers (4) and a
\* poll.
SlackSuffices == Slack >= Joining + 1

\* No record is overdue while its owner lives.
Overdue == Total + Grace + Forced + Slack
RescueInv ==
    /\ wall = now
    /\ child = "running" => childPid = "child"
    /\ owner = "none" => child = "none"
    /\ record \in Entries => /\ record.deadline >= Overdue
                             /\ record.state = "reconciled_dead" => child # "running"
    /\ rescue.step # "idle" => /\ rescue.copy.deadline >= Overdue
                               /\ rescue.copy.state = "running"
    /\ rescue.step = "gone" => child # "running"
    /\ rescue.step \in {"overdue", "graceful", "forced"} => owner \notin P!Alive
    /\ rescue.step \in {"graceful", "forced"} => childPid # "other"
    /\ \A h \in hit : h.who # "other" /\ ~h.watched

LEMMA RescueInit == Timed /\ P!Init => RescueInv
<1>1. Timed /\ P!Init => record \notin Entries
  BY DEF Timed, P!Init
<1> QED
  BY <1>1 DEF P!Init, RescueInv

LEMMA OwnerTrusted ==
    ASSUME Timed, Awake, SlackSuffices, WatchInv, RescueInv,
           \/ P!Spawn \/ P!WriteRecord \/ P!Look \/ P!EndsGracefully \/ P!ForceKill
           \/ P!EndsForced \/ P!Return \/ P!OwnerDies
    PROVE  RescueInv'
<1> USE DEF RescueInv
<1>1. owner \in {"none", "spawned"} => record \notin Entries /\ rescue.step = "idle"
  BY DEF WatchInv, RecordedInv, Timed
<1>2. CASE P!Spawn
  BY <1>1, <1>2 DEF P!Spawn
<1>3. CASE P!WriteRecord
  <2>1. record' = [state |-> "running", deadline |-> P!DeadlineAt] /\ owner = "spawned"
        /\ UNCHANGED <<now, wall, child, childPid, rescue, hit>>
    BY <1>3 DEF P!WriteRecord
  <2>2. record'.state = "running" /\ record'.deadline >= Overdue
    BY <2>1 DEF P!DeadlineAt, Overdue, Timed, WatchInv, WatchTypes
  <2> QED
    BY <1>1, <1>3, <2>1, <2>2 DEF P!WriteRecord
<1>4. CASE P!Look
  <2>1. /\ owner = "watching" /\ record' = [record EXCEPT !.state = "running"]
        /\ childPid' = P!Polled /\ UNCHANGED <<now, wall, child, rescue, hit>>
        /\ owner' \in {"watching", "joining", "graceful"}
    BY <1>4 DEF P!Look
  <2>2. record \in Entries /\ record'.state = "running" /\ record'.deadline = record.deadline
    BY <2>1 DEF WatchInv, RecordedInv, Entries
  <2> QED
    BY <2>1, <2>2 DEF P!Polled, P!Alive, P!Ending
<1>5. CASE P!EndsGracefully \/ P!EndsForced
  <2>1. /\ owner \in {"graceful", "forced"} /\ owner' = "joining" /\ childPid' = P!Polled
        /\ UNCHANGED <<now, wall, child, record, rescue, hit>>
    BY <1>5 DEF P!EndsGracefully, P!EndsForced
  <2> QED
    BY <2>1 DEF P!Polled, P!Alive, P!Ending
<1>6. CASE P!ForceKill
  <2>1. /\ owner = "graceful" /\ owner' = "forced" /\ child' \in {"exited", child}
        /\ UNCHANGED <<now, wall, childPid, record, rescue, hit>>
    BY <1>6 DEF P!ForceKill, P!Killed
  <2> QED
    BY <2>1 DEF P!Alive, P!Ending
<1>7. CASE P!Return
  <2>1. /\ owner = "joining" /\ owner' = "returned" /\ childPid' = P!Polled
        /\ \E s \in {"completed", "timeout"} : record' = [record EXCEPT !.state = s]
        /\ UNCHANGED <<now, wall, child, rescue, hit>>
    BY <1>7 DEF P!Return
  <2>2. record \in Entries /\ record'.state # "reconciled_dead" /\ record'.deadline = record.deadline
    BY <2>1 DEF WatchInv, RecordedInv, Entries
  <2> QED
    BY <2>1, <2>2 DEF P!Polled, P!Alive, P!Ending
<1>8. CASE P!OwnerDies
  <2>1. /\ owner' = "dead" /\ childPid' = P!Polled
        /\ UNCHANGED <<now, wall, child, record, rescue, hit>>
    BY <1>8 DEF P!OwnerDies
  <2> QED
    BY <2>1 DEF P!Polled, P!Alive, P!Ending
<1> QED
  BY <1>2, <1>3, <1>4, <1>5, <1>6, <1>7, <1>8

LEMMA WorldTrusted ==
    ASSUME Timed, Awake, WatchInv, RescueInv,
           P!Fork \/ P!Output \/ P!Exit \/ P!KinExits \/ P!Reuse \/ P!Tick
    PROVE  RescueInv'
<1> USE DEF RescueInv
<1>1. CASE P!Fork \/ P!Output \/ P!KinExits
  BY <1>1 DEF P!Fork, P!Output, P!KinExits
<1>2. CASE P!Exit
  BY <1>2 DEF P!Exit, WatchInv, WatchTypes
<1>3. CASE P!Reuse
  BY <1>3 DEF P!Reuse, Awake
<1>4. CASE P!Tick
  BY <1>4 DEF P!Tick, Awake
<1> QED
  BY <1>1, <1>2, <1>3, <1>4

\* A process that is ended while its owner does not follow it is noted as such.
LEMMA UnwatchedStrike ==
    ASSUME owner \notin P!Alive, P!Struck
    PROVE  hit' = hit \cup {[who |-> childPid, watched |-> FALSE]}
<1>1. (owner \in P!Alive) = FALSE
  OBVIOUS
<1>2. hit' = hit \cup {[who |-> childPid, watched |-> (owner \in P!Alive)]}
  BY DEF P!Struck
<1> QED
  BY <1>1, <1>2, Zenon

LEMMA RescueTrusted ==
    ASSUME Timed, Awake, SlackSuffices, WatchInv, RescueInv,
           \/ P!List \/ P!Probe \/ P!Terminate \/ P!SeesGone \/ P!KillByPid \/ P!KillOver
           \/ P!Mark
    PROVE  RescueInv'
<1> USE DEF RescueInv
<1>1. /\ rescue = [step |-> rescue.step, since |-> rescue.since, copy |-> rescue.copy]
      /\ rescue.step # "idle" => record \in Entries /\ rescue.copy \in Entries
  BY DEF WatchInv, WatchTypes, RecordedInv
<1>2. ASSUME NEW step, P!Goes(step)
      PROVE  rescue'.step = step /\ rescue'.copy = rescue.copy
  BY <1>1, <1>2 DEF P!Goes
<1>3. CASE P!List
  <2>1. /\ record # None /\ record.state = "running" /\ rescue'.step = "listed"
        /\ rescue'.copy = record
        /\ UNCHANGED <<now, wall, owner, child, childPid, record, hit>>
    BY <1>3 DEF P!List
  <2>2. record \in Entries
    BY <2>1 DEF WatchInv, WatchTypes
  <2> QED
    BY <2>1, <2>2
<1>4. CASE P!Probe
  <2>1. rescue.step = "listed" /\ UNCHANGED <<now, wall, owner, child, childPid, record, hit>>
    BY <1>4 DEF P!Probe
  <2>2. CASE ~P!Matches /\ P!Goes("gone")
    BY <1>2, <2>1, <2>2 DEF P!Matches
  <2>3. CASE P!Goes("idle")
    BY <1>2, <2>1, <2>3
  <2>4. CASE wall > rescue.copy.deadline /\ P!Goes("overdue")
    <3>1. owner \notin P!Alive
      <4>1. rescue.copy.deadline \in Nat /\ rescue.copy.deadline >= Overdue
        BY <1>1, <2>1 DEF Entries
      <4>2. owner \in P!Alive => now <= Total + 1 + Grace + Forced + Joining
        BY DEF WatchInv, WatchTypes, OnTime, Within, Timed, P!Alive, P!Ending
      <4> QED
        BY <2>4, <4>1, <4>2 DEF Overdue, SlackSuffices, Timed, WatchInv, WatchTypes
    <3> QED
      BY <1>2, <2>1, <2>4, <3>1
  <2> QED
    BY <1>4, <2>2, <2>3, <2>4 DEF P!Probe, Awake
<1>5. CASE P!Terminate
  <2>1. rescue.step = "overdue" /\ UNCHANGED <<now, wall, owner, child, childPid, record>>
    BY <1>5 DEF P!Terminate
  <2>2. CASE P!Matches /\ P!Struck /\ P!Goes("graceful")
    <3>1. hit' = hit \cup {[who |-> childPid, watched |-> FALSE]}
      BY <2>1, <2>2, UnwatchedStrike
    <3> QED
      BY <1>2, <2>1, <2>2, <3>1 DEF P!Matches
  <2>3. CASE UNCHANGED hit /\ P!Goes("over")
    BY <1>2, <2>1, <2>3
  <2> QED
    BY <1>5, <2>2, <2>3 DEF P!Terminate
<1>6. CASE P!SeesGone \/ P!KillOver
  <2>1. /\ rescue.step \in {"graceful", "forced"} /\ P!Goes("over")
        /\ UNCHANGED <<now, wall, owner, child, childPid, record, hit>>
    BY <1>6 DEF P!SeesGone, P!KillOver
  <2> QED
    BY <1>2, <2>1
<1>7. CASE P!KillByPid
  <2>1. /\ rescue.step = "graceful" /\ P!Struck /\ P!Goes("forced")
        /\ UNCHANGED <<now, wall, owner, record>>
    BY <1>7 DEF P!KillByPid
  <2>2. hit' = hit \cup {[who |-> childPid, watched |-> FALSE]} /\ childPid # "other"
    BY <2>1, UnwatchedStrike
  <2>3. /\ child' = "running" => child = "running" /\ childPid' = "child"
        /\ childPid' # "other"
        /\ child' = "none" => child = "none"
        /\ owner # "none"
    <3>1. CASE childPid = "child"
      BY <1>1, <1>7, <2>1, <3>1 DEF P!KillByPid, P!Killed, WatchInv, RecordedInv, Timed
    <3>2. CASE childPid # "child"
      BY <1>1, <1>7, <2>1, <2>2, <3>2 DEF P!KillByPid, P!Family, WatchInv, RecordedInv, Timed
    <3> QED
      BY <3>1, <3>2
  <2> QED
    BY <1>2, <2>1, <2>2, <2>3
<1>8. CASE P!Mark
  <2>1. /\ rescue.step \in {"gone", "over"} /\ P!Goes("idle")
        /\ record' = [rescue.copy EXCEPT !.state = IF rescue.step = "gone" THEN "reconciled_dead"
                                                  ELSE "timeout"]
        /\ UNCHANGED <<now, wall, owner, child, childPid, hit>>
    BY <1>8 DEF P!Mark
  <2>2. /\ record'.deadline = rescue.copy.deadline
        /\ record'.state = "reconciled_dead" => rescue.step = "gone"
    BY <1>1, <2>1 DEF Entries
  <2> QED
    BY <1>2, <2>1, <2>2
<1> QED
  BY <1>3, <1>4, <1>5, <1>6, <1>7, <1>8

\* A recovery never ends a process that its owner would still end, nor one that only has the
\* number of a process that is gone, and what it settles as dead does not run (supervisor.py
\* recover_stale_owned_processes, terminate_by_pid).
THEOREM OnlyOrphansAreEnded ==
    Timed /\ Awake /\ SlackSuffices /\ P!Spec =>
        [](P!OnlyOwnIsTouched /\ P!OwnersAreTrusted /\ P!SettledIsGone)
<1> SUFFICES ASSUME Timed, Awake, SlackSuffices
             PROVE  P!Spec => [](P!OnlyOwnIsTouched /\ P!OwnersAreTrusted /\ P!SettledIsGone)
  OBVIOUS
<1>1. P!Init => WatchInv /\ RescueInv
  BY WatchInit, RescueInit
<1>2. WatchInv /\ RescueInv /\ [P!Next]_(P!svars) => (WatchInv /\ RescueInv)'
  <2> SUFFICES ASSUME WatchInv, RescueInv, [P!Next]_(P!svars) PROVE RescueInv'
    BY WatchKept
  <2>1. CASE UNCHANGED P!svars
    BY <2>1 DEF P!svars, RescueInv, P!Alive
  <2>2. CASE \/ P!Spawn \/ P!WriteRecord \/ P!Look \/ P!EndsGracefully \/ P!ForceKill
             \/ P!EndsForced \/ P!Return \/ P!OwnerDies
    BY <2>2, OwnerTrusted
  <2>3. CASE P!Fork \/ P!Output \/ P!Exit \/ P!KinExits \/ P!Reuse \/ P!Tick
    BY <2>3, WorldTrusted
  <2>4. CASE \/ P!List \/ P!Probe \/ P!Terminate \/ P!SeesGone \/ P!KillByPid \/ P!KillOver
             \/ P!Mark
    BY <2>4, RescueTrusted
  <2> QED
    BY <2>1, <2>2, <2>3, <2>4 DEF P!Next
<1>3. WatchInv /\ RescueInv => P!OnlyOwnIsTouched /\ P!OwnersAreTrusted /\ P!SettledIsGone
  BY DEF WatchInv, WatchTypes, RescueInv, P!OnlyOwnIsTouched, P!OwnersAreTrusted,
         P!SettledIsGone
<1> QED
  BY <1>1, <1>2, <1>3, PTL DEF P!Spec

-----------------------------------------------------------------------------
(***************************************************************************)
(* The platform's own properties.                                          *)
(***************************************************************************)
\* Whatever runs at the same time, a day's and a run's spending stay within their limits by
\* at most one answer of each run, and a refusal is not walked around (budget.py
\* check_before_call, settle; invoke.py _fallback).
THEOREM SpendingIsBounded ==
    Configured /\ "repair_denied" \notin Env /\ Spec => []SpendBounded
  BY BudgetHolds, RefusalIsFinal, EachOnItsOwn, PTL DEF SpendBounded

\* However clients die with the lock and wait for it, live projects have roots of their own
\* and registry.json is what the commands that succeeded made of it, as long as no client
\* outlives its lock and no two break the same one at once (registry.py).
THEOREM RegistryStaysSound == Registering /\ Spec => []RegistrySound
  BY RegistryIsSound, EachOnItsOwn, PTL DEF RegistrySound

\* A backend's process is ended in time, with its descendants, by its owner or by the recovery
\* after the owner's death, and no other process is (supervisor.py run_supervised,
\* recover_stale_owned_processes).
THEOREM BackendsAreEnded == Timed /\ Awake /\ SlackSuffices /\ Spec => []ProcessesEnded
  BY RunsReturnInTime, OnlyOrphansAreEnded, EachOnItsOwn, PTL DEF ProcessesEnded

\* Fleet's assumption, of the platform's constants.
FleetConfigured ==
    /\ N \in Nat \ {0}
    /\ Priority \in [1..N -> Nat]
    /\ Chain \in [1..N -> SUBSET DOMAIN PerBackend] /\ \A p \in 1..N : Chain[p] # {}
    /\ PerBackend \in [DOMAIN PerBackend -> Nat]
    /\ Active \in Nat /\ Models \in Nat /\ Heavy \in Nat
    /\ {"dead", "none"} \cap Process = {}

\* What ticks run at once stays within every pool, and no project runs twice, as long as one
\* process at a time is in slots.json and no cycle outlives its slot (fleet.py
\* SlotManager.acquire, release).
THEOREM FleetIsSound ==
    FleetConfigured /\ {"race", "overrun"} \cap Env = {} /\ Spec => []FleetSound
<1> SUFFICES ASSUME FleetConfigured, {"race", "overrun"} \cap Env = {}
             PROVE  Spec => []FleetSound
  OBVIOUS
<1>1. F!Timely
  BY DEF F!Timely
<1>2. /\ N \in Nat \ {0}
      /\ Priority \in [F!Project -> Nat]
      /\ Chain \in [F!Project -> SUBSET DOMAIN PerBackend]
      /\ \A p \in F!Project : Chain[p] # {}
      /\ PerBackend \in [DOMAIN PerBackend -> Nat]
      /\ Active \in Nat /\ Models \in Nat /\ Heavy \in Nat
      /\ {F!Dead, F!Nobody} \cap Process = {}
      /\ Env \cap {"crash", "overrun", "race"} \subseteq {"crash", "overrun", "race"}
  BY DEF FleetConfigured, F!Project, F!Dead, F!Nobody
<1>3. F!Timely /\ F!Spec => []F!PoolsRespected
  BY <1>2, F!PoolsAreRespected
<1>4. F!Timely /\ F!Spec => []F!NothingRunsTwice
  BY <1>2, F!NoProjectRunsTwice
<1> QED
  BY <1>1, <1>3, <1>4, EachOnItsOwn, PTL DEF FleetSound

\* A maintenance run that needs a human has its item in the queue, and what passes the gate
\* fails no mandatory check but those that failed where a baseline was recorded and, under
\* fail_fast, those after such a one, while HEAD moves and ticks overlap (orchestrator.py
\* run_tick, queueing.py enqueue, gate.py run_checks, evaluate_against_baseline).
THEOREM MaintenanceIsSound ==
    M!Sane /\ M!NoRace /\ Spec => [](HandedOver /\ NewFailureFails)
  BY M!EveryRunIsHandedOver, M!GateCatchesNewFailures, EachOnItsOwn, PTL
     DEF HandedOver, NewFailureFails

\* Nothing completes on its own that has not earned it, while the ledger's rounding cannot
\* matter (trust.py compute_tier).
THEOREM TrustIsEarned == M!Sane /\ Spec /\ []M!FewRuns => AutoIsEarned
  BY M!AutonomyIsEarned, EachOnItsOwn, PTL DEF AutoIsEarned

-----------------------------------------------------------------------------
(***************************************************************************)
(* The service.                                                            *)
(***************************************************************************)
\* Ports are numbers, None is neither one nor a record, and a command begins when no other
\* one is under way.
Serving == /\ Ports \subseteq Nat
           /\ None \notin [pid : 1..MaxPid, port : Ports]
           /\ "together" \notin Env

\* The dashboards that live and were not given up for dead.
Ours == {p \in S!Pid \ abandoned : S!Alive(p)}

\* A command that is under way is the only one; it knows the dashboard that lives, or
\* service.json does.
ServiceInv ==
    /\ S!TypeOK
    /\ pid = [c \in Process |-> pid[c]] /\ port = [c \in Process |-> port[c]]
    /\ \A c, d \in Process : sAt[c] # "idle" /\ sAt[d] # "idle" => c = d
    /\ \A c \in Process :
        /\ sAt[c] \in {"spawn", "wait", "write"} => port[c] \in Ports
        /\ sAt[c] \in {"wait", "write", "ask", "force"} => pid[c] \in S!Pid /\ Ours \subseteq {pid[c]}
        /\ sAt[c] = "spawn" => Ours = {}
    /\ (\A c \in Process : sAt[c] = "idle") => \A p \in Ours : state # None /\ state.pid = p

LEMMA ServiceInit == Serving /\ S!Init => ServiceInv
  BY DEF Serving, S!Init, ServiceInv, S!TypeOK, Ours, S!Alive

\* The least of some ports is one of them.
LEMMA LeastPort ==
    ASSUME NEW T \in SUBSET Nat, T # {}
    PROVE  S!Min(T) \in T
<1>1. PICK m \in T : \A n \in T : m <= n
  BY M!LeastOne
<1> QED
  BY <1>1 DEF S!Min

LEMMA ServiceKept == Serving /\ ServiceInv /\ [S!Next]_(S!svars) => ServiceInv'
<1> SUFFICES ASSUME Serving, ServiceInv, [S!Next]_(S!svars) PROVE ServiceInv'
  OBVIOUS
<1> USE DEF ServiceInv, S!TypeOK
<1>1. /\ sAt = [c \in Process |-> sAt[c]] /\ proc = [p \in S!Pid |-> proc[p]]
      /\ "together" \notin Env /\ S!Pid = 1..MaxPid
  BY DEF Serving, S!Pid
<1>2. CASE UNCHANGED S!svars
  BY <1>2 DEF S!svars, Ours, S!Alive
<1>3. ASSUME NEW c \in Process, S!StartCommand(c) PROVE ServiceInv'
  <2>1. /\ sAt[c] = "idle" /\ \A d \in Process : sAt[d] = "idle"
        /\ sAt' = [sAt EXCEPT ![c] = "spawn"]
        /\ port' = [port EXCEPT ![c] = S!Min(Ports \ S!Bound)]
        /\ state' \in {state, None} /\ UNCHANGED <<pid, proc, listens>>
    BY <1>1, <1>3 DEF S!StartCommand, S!Begins
  <2>2. S!Min(Ports \ S!Bound) \in Ports
    BY <1>3, LeastPort DEF S!StartCommand, Serving
  <2>3. Ours' = {}
    <3>1. CASE S!Recorded
      BY <1>3, <2>1, <3>1 DEF S!StartCommand, S!Recorded, Ours, S!Alive
    <3>2. CASE ~S!Recorded
      BY <1>3, <2>1, <3>2 DEF S!StartCommand, S!Recorded, Ours, S!Alive
    <3> QED
      BY <3>1, <3>2
  <2> QED
    BY <1>1, <2>1, <2>2, <2>3
<1>4. ASSUME NEW c \in Process, S!Spawn(c) PROVE ServiceInv'
  <2>1. PICK p \in S!Pid : /\ sAt[c] = "spawn" /\ sAt' = [sAt EXCEPT ![c] = "wait"]
                           /\ proc' = [proc EXCEPT ![p] = "starting"]
                           /\ pid' = [pid EXCEPT ![c] = p]
                           /\ UNCHANGED <<port, state, abandoned>>
    BY <1>4 DEF S!Spawn, S!Goto
  <2>2. Ours' \subseteq {p}
    BY <1>1, <2>1 DEF Ours, S!Alive
  <2> QED
    BY <1>1, <2>1, <2>2
<1>5. ASSUME NEW c \in Process, S!SeesHealthy(c) PROVE ServiceInv'
  BY <1>1, <1>5 DEF S!SeesHealthy, S!Goto, Ours, S!Alive
<1>6. ASSUME NEW c \in Process, S!SeesDeath(c) \/ S!TimesOut(c) PROVE ServiceInv'
  <2>1. /\ sAt[c] = "wait" /\ sAt' = [sAt EXCEPT ![c] = "idle"]
        /\ pid' = [pid EXCEPT ![c] = None] /\ port' = [port EXCEPT ![c] = None]
        /\ UNCHANGED <<state, proc, listens>>
    BY <1>6 DEF S!SeesDeath, S!TimesOut, S!Report, S!Goto
  <2>2. Ours' = {}
    BY <1>6, <2>1 DEF S!SeesDeath, S!TimesOut, Ours, S!Alive
  <2> QED
    BY <1>1, <2>1, <2>2
<1>7. ASSUME NEW c \in Process, S!WriteState(c) PROVE ServiceInv'
  <2>1. /\ sAt[c] = "write" /\ sAt' = [sAt EXCEPT ![c] = "idle"]
        /\ pid' = [pid EXCEPT ![c] = None] /\ port' = [port EXCEPT ![c] = None]
        /\ state' = [pid |-> pid[c], port |-> port[c]] /\ UNCHANGED <<proc, listens, abandoned>>
    BY <1>7 DEF S!WriteState, S!Report, S!Goto
  <2>2. Ours' = Ours /\ state' # None /\ state'.pid = pid[c] /\ state'.port = port[c]
    BY <1>1, <2>1 DEF Ours, S!Alive, Serving
  <2> QED
    BY <1>1, <2>1, <2>2
<1>8. ASSUME NEW c \in Process, S!StopCommand(c) PROVE ServiceInv'
  <2>1. /\ sAt[c] = "idle" /\ \A d \in Process : sAt[d] = "idle"
        /\ UNCHANGED <<proc, listens, abandoned>>
    BY <1>1, <1>8 DEF S!StopCommand, S!Begins, S!Report, S!Goto
  <2>2. Ours' = Ours
    BY <2>1 DEF Ours, S!Alive
  <2>3. CASE S!Recorded
    BY <1>1, <1>8, <2>1, <2>2, <2>3 DEF S!StopCommand, S!Recorded, S!Goto
  <2>4. CASE ~S!Recorded
    <3>1. Ours = {}
      BY <2>1, <2>4 DEF S!Recorded, Ours
    <3> QED
      BY <1>1, <1>8, <2>1, <2>2, <2>4, <3>1 DEF S!StopCommand, S!Report, S!Goto
  <2> QED
    BY <2>3, <2>4
<1>9. ASSUME NEW c \in Process, S!AskToStop(c) PROVE ServiceInv'
  <2>1. Ours' \subseteq Ours /\ proc' \in [S!Pid -> {"none", "starting", "up", "hung", "dead"}]
    BY <1>1, <1>9 DEF S!AskToStop, Ours, S!Alive
  <2> QED
    BY <1>1, <1>9, <2>1 DEF S!AskToStop, S!Goto
<1>10. ASSUME NEW c \in Process, S!Force(c) PROVE ServiceInv'
  <2>1. /\ sAt[c] = "force" /\ sAt' = [sAt EXCEPT ![c] = "idle"]
        /\ pid' = [pid EXCEPT ![c] = None] /\ port' = [port EXCEPT ![c] = None]
        /\ state' = None /\ UNCHANGED <<listens, abandoned>>
        /\ proc' = [proc EXCEPT ![pid[c]] = IF S!Alive(pid[c]) THEN "dead" ELSE @]
    BY <1>10 DEF S!Force, S!Report, S!Goto
  <2>2. Ours' = {}
    BY <1>1, <2>1 DEF Ours, S!Alive
  <2> QED
    BY <1>1, <2>1, <2>2
<1>11. ASSUME NEW p \in S!Pid, S!Listen(p) \/ S!Dies(p) \/ S!Hangs(p) PROVE ServiceInv'
  <2>1. /\ UNCHANGED <<sAt, pid, port, state, listens, abandoned>> /\ S!Alive(p)
        /\ \E to \in {"up", "dead", "hung"} : proc' = [proc EXCEPT ![p] = to]
    BY <1>11 DEF S!Listen, S!Dies, S!Hangs, S!Alive
  <2>2. Ours' \subseteq Ours /\ proc' \in [S!Pid -> {"none", "starting", "up", "hung", "dead"}]
    BY <1>1, <2>1 DEF Ours, S!Alive
  <2> QED
    BY <1>1, <2>1, <2>2
<1> QED
  BY <1>2, <1>3, <1>4, <1>5, <1>6, <1>7, <1>8, <1>9, <1>10, <1>11 DEF S!Next

\* While no command is under way, each dashboard that lives is the one service.json names or
\* one a start gave up for dead, if commands come one after the other (service.py start, stop).
THEOREM OneServiceIsKnown == Serving /\ S!Spec => [](S!TypeOK /\ S!OneKnownInstance)
<1> SUFFICES ASSUME Serving PROVE S!Spec => [](S!TypeOK /\ S!OneKnownInstance)
  OBVIOUS
<1>1. S!Init => ServiceInv
  BY ServiceInit
<1>2. ServiceInv /\ [S!Next]_(S!svars) => ServiceInv'
  BY ServiceKept
<1>3. ServiceInv => S!TypeOK /\ S!OneKnownInstance
  BY DEF ServiceInv, S!OneKnownInstance, Ours
<1> QED
  BY <1>1, <1>2, <1>3, PTL DEF S!Spec

-----------------------------------------------------------------------------
(***************************************************************************)
(* The dashboard: operations.                                              *)
(***************************************************************************)
\* None is no operation and no state of one; the ring is not empty and fits into a queue (400
\* events, 1,000); nobody overtakes, no queue overflows, and a page is loaded again when the
\* server has restarted.
Showing == /\ None \notin Op \cup {"announce", "run", "clear", "report"}
           /\ None \notin Seq(Nat)
           /\ RingSize \in Nat \ {0} /\ QueueSize \in Nat /\ RingSize <= QueueSize
           /\ {"reorder", "overflow", "same_page"} \cap Env = {}

\* An operation whose runner is not done is running, and its group's.
OpsInv ==
    /\ status \in [Op -> {None, "running", "succeeded", "failed", "interrupted"}]
    /\ persisted \in [Op -> {None, "running", "succeeded", "failed", "interrupted"}]
    /\ active \in [D!Groups -> Op \cup {None}]
    /\ stage \in [Op -> {None, "announce", "run", "clear", "report"}]
    /\ \A o \in Op : stage[o] \in {"announce", "run"} =>
                         status[o] = "running" /\ active[Group[o]] = o

LEMMA OpsInit == Showing /\ D!Init => OpsInv
  BY DEF Showing, D!Init, OpsInv

LEMMA OpsKept == Showing /\ OpsInv /\ [D!Next]_(D!dvars) => OpsInv'
<1> SUFFICES ASSUME Showing, OpsInv, [D!Next]_(D!dvars) PROVE OpsInv'
  OBVIOUS
<1> USE DEF OpsInv
<1>1. \A o \in Op : Group[o] \in D!Groups
  BY DEF D!Groups
<1>2. None \notin Op \cup {"announce", "run", "clear", "report"}
  BY DEF Showing
<1>3. CASE \/ UNCHANGED D!dvars \/ D!Deliver \/ D!Connect \/ D!Receive \/ D!Disconnect
           \/ D!FileChanges \/ D!Poll
  <2>1. UNCHANGED <<status, stage, active, persisted>>
    BY <1>3 DEF D!dvars, D!opsvars, D!Deliver, D!Connect, D!Receive, D!Disconnect,
                D!FileChanges, D!Poll
  <2> QED
    BY <2>1
<1>4. ASSUME NEW o \in Op, D!StartOp(o) PROVE OpsInv'
  BY <1>1, <1>2, <1>4 DEF D!StartOp
<1>5. ASSUME NEW o \in Op, D!Announce(o) \/ D!Report(o) PROVE OpsInv'
  BY <1>2, <1>5 DEF D!Announce, D!Report
<1>6. ASSUME NEW o \in Op, D!RunnerEnds(o) PROVE OpsInv'
  BY <1>2, <1>6 DEF D!RunnerEnds
<1>7. ASSUME NEW o \in Op, D!Clear(o) PROVE OpsInv'
  BY <1>1, <1>2, <1>7 DEF D!Clear
<1>8. CASE D!Restart
  BY <1>2, <1>8 DEF D!Restart
<1> QED
  BY <1>3, <1>4, <1>5, <1>6, <1>7, <1>8 DEF D!Next

-----------------------------------------------------------------------------
(***************************************************************************)
(* The dashboard: events.                                                  *)
(***************************************************************************)
\* Events for the browser: in the queue of its connection, or on their way there.
Elements(s) == {s[i] : i \in DOMAIN s}
Ascending(s) == \A i, j \in DOMAIN s : i < j => s[i] < s[j]
Pending == Elements(inbox) \cup inFlight

\* The ring has the latest events in order; only the last one may be on its way.
RingInv ==
    /\ next \in Nat \ {0} /\ ring \in Seq(Nat)
    /\ Len(ring) <= RingSize /\ Len(ring) < next
    /\ \A i \in DOMAIN ring : ring[i] = next - 1 - Len(ring) + i
    /\ inFlight \subseteq {next - 1} /\ (next = 1 => inFlight = {})
    /\ inbox = None => inFlight = {}

\* The queue is in order and after what was received; what is on its way is after all of it.
InboxInv ==
    /\ last \in Nat /\ first \in Nat /\ first <= last /\ last < next
    /\ first = 0 => last = 0
    /\ received \subseteq 1..last
    /\ inbox # None =>
        /\ inbox \in Seq(Nat) /\ Len(inbox) <= QueueSize /\ Ascending(inbox)
        /\ \A e \in Elements(inbox) : e \in Nat /\ e > last /\ e < next /\ e \notin inFlight
        /\ \A e \in inFlight : e > last

\* Since its first event the browser has what is in the ring and not later than its last one,
\* and all that is later, or later than something that will come, will come.
SeenInv ==
    /\ \A i \in DOMAIN ring : ring[i] > first /\ ring[i] <= last /\ first # 0 => ring[i] \in seen
    /\ inbox # None => \A i \in DOMAIN ring :
           \/ first # 0 /\ ring[i] > last
           \/ \E e \in Pending : ring[i] >= e
           => ring[i] \in Pending

EventInv == RingInv /\ InboxInv /\ SeenInv

\* A queue in order stays so when something greater is put at its end.
LEMMA AppendTakes ==
    ASSUME NEW s \in Seq(Nat), NEW e \in Nat, Ascending(s), \A x \in Elements(s) : x < e
    PROVE  /\ Append(s, e) \in Seq(Nat) /\ Len(Append(s, e)) = Len(s) + 1
           /\ Elements(Append(s, e)) = Elements(s) \cup {e}
           /\ Ascending(Append(s, e))
<1> DEFINE t == Append(s, e)
<1>1. /\ t \in Seq(Nat) /\ Len(t) = Len(s) + 1
      /\ \A i \in 1..Len(s) : t[i] = s[i]
      /\ t[Len(s) + 1] = e
  BY AppendProperties
<1> HIDE DEF t
<1>2. Len(s) \in Nat /\ DOMAIN s = 1..Len(s) /\ DOMAIN t = 1..(Len(s) + 1)
  BY <1>1
<1>3. \A i \in DOMAIN t : (i \in DOMAIN s /\ t[i] = s[i]) \/ (i = Len(s) + 1 /\ t[i] = e)
  BY <1>1, <1>2
<1>4. \A i \in DOMAIN s : i \in DOMAIN t /\ t[i] = s[i] /\ s[i] < e
  BY <1>1, <1>2 DEF Elements
<1>5. Elements(t) = Elements(s) \cup {e}
  <2>1. Len(s) + 1 \in DOMAIN t
    BY <1>2
  <2> QED
    BY <1>1, <1>3, <1>4, <2>1, Zenon DEF Elements
<1>6. Ascending(t)
  <2> SUFFICES ASSUME NEW i \in DOMAIN t, NEW j \in DOMAIN t, i < j PROVE t[i] < t[j]
    BY DEF Ascending
  <2>1. i \in DOMAIN s
    BY <1>2
  <2>2. CASE j \in DOMAIN s
    BY <1>4, <2>1, <2>2 DEF Ascending
  <2>3. CASE j = Len(s) + 1
    BY <1>1, <1>4, <2>1, <2>3
  <2> QED
    BY <1>3, <2>2, <2>3
<1> QED
  BY <1>1, <1>5, <1>6 DEF t

\* What is behind the first of a queue in order is greater, and in order.
LEMMA TailTakes ==
    ASSUME NEW s \in Seq(Nat), s # <<>>, Ascending(s)
    PROVE  /\ Tail(s) \in Seq(Nat) /\ Len(Tail(s)) = Len(s) - 1 /\ Head(s) \in Nat
           /\ Elements(s) = Elements(Tail(s)) \cup {Head(s)}
           /\ \A e \in Elements(Tail(s)) : e > Head(s)
           /\ Ascending(Tail(s))
<1> DEFINE t == Tail(s)
           h == Head(s)
<1>1. /\ t \in Seq(Nat) /\ Len(t) = Len(s) - 1 /\ Len(s) \in Nat \ {0} /\ h = s[1] /\ h \in Nat
      /\ \A i \in 1..Len(t) : t[i] = s[i + 1]
  BY HeadTailProperties
<1> HIDE DEF t, h
<1>2. DOMAIN s = 1..Len(s) /\ DOMAIN t = 1..(Len(s) - 1)
  BY <1>1
<1>3. \A i \in DOMAIN t : i + 1 \in DOMAIN s /\ t[i] = s[i + 1] /\ s[1] < s[i + 1] /\ i \in Nat
  <2> TAKE i \in DOMAIN t
  <2>1. i \in Nat /\ 1 \in DOMAIN s /\ i + 1 \in DOMAIN s /\ 1 < i + 1 /\ i \in 1..Len(t)
    <3>1. i \in 1..(Len(s) - 1) /\ Len(s) \in Nat \ {0} /\ Len(t) = Len(s) - 1
      BY <1>1, <1>2
    <3>2. i \in Nat /\ 1 \in 1..Len(s) /\ i + 1 \in 1..Len(s) /\ 1 < i + 1 /\ i \in 1..Len(t)
      BY <3>1
    <3> QED
      BY <1>2, <3>2, Zenon
  <2>2. s[1] < s[i + 1]
    BY <2>1 DEF Ascending
  <2>3. t[i] = s[i + 1]
    BY <1>1, <2>1
  <2> QED
    BY <2>1, <2>2, <2>3
<1>4. \A i \in DOMAIN s : i = 1 \/ (i - 1 \in DOMAIN t /\ s[i] = t[i - 1])
  <2> SUFFICES ASSUME NEW i \in DOMAIN s, i # 1 PROVE i - 1 \in DOMAIN t /\ s[i] = t[i - 1]
    OBVIOUS
  <2>1. i - 1 \in DOMAIN t /\ i - 1 \in 1..Len(t) /\ (i - 1) + 1 = i
    BY <1>1, <1>2
  <2> QED
    BY <1>1, <2>1
<1>5. Elements(s) = Elements(t) \cup {h}
  <2>1. 1 \in DOMAIN s /\ s[1] = h
    BY <1>1, <1>2
  <2>2. \A i \in DOMAIN s : s[i] = h \/ \E j \in DOMAIN t : s[i] = t[j]
    BY <1>4, <2>1, Zenon
  <2>3. \A j \in DOMAIN t : \E i \in DOMAIN s : s[i] = t[j]
    BY <1>3, Zenon
  <2> QED
    BY <2>1, <2>2, <2>3 DEF Elements
<1>6. \A e \in Elements(t) : e > h
  <2> SUFFICES ASSUME NEW i \in DOMAIN t PROVE t[i] > h
    BY DEF Elements
  <2> QED
    BY <1>1, <1>3
<1>7. Ascending(t)
  <2> SUFFICES ASSUME NEW i \in DOMAIN t, NEW j \in DOMAIN t, i < j PROVE t[i] < t[j]
    BY DEF Ascending
  <2>1. i + 1 \in DOMAIN s /\ j + 1 \in DOMAIN s /\ i + 1 < j + 1
    BY <1>2, <1>3
  <2>2. s[i + 1] < s[j + 1]
    BY <2>1 DEF Ascending
  <2> QED
    BY <1>3, <2>2
<1> QED
  BY <1>1, <1>5, <1>6, <1>7 DEF t, h

\* What a sequence in order has from its k-th place on.
LEMMA SuffixTakes ==
    ASSUME NEW s \in Seq(Nat), NEW k \in 1..(Len(s) + 1), Ascending(s)
    PROVE  /\ SubSeq(s, k, Len(s)) \in Seq(Nat) /\ Len(SubSeq(s, k, Len(s))) <= Len(s)
           /\ Elements(SubSeq(s, k, Len(s))) = {s[i] : i \in {i \in DOMAIN s : i >= k}}
           /\ Ascending(SubSeq(s, k, Len(s)))
<1> DEFINE n == Len(s)
           t == SubSeq(s, k, n)
<1>1. n \in Nat /\ k \in Nat \ {0} /\ DOMAIN s = 1..n
  OBVIOUS
<1>2. t \in Seq(Nat)
  <2>1. \A i \in k..n : s[i] \in Nat
    OBVIOUS
  <2> QED
    BY <1>1, <2>1, SubSeqProperties
<1>3. Len(t) = n - k + 1
  BY <1>1
<1>4. \A i \in 1..(n - k + 1) : t[i] = s[i + k - 1]
  BY <1>1
<1> HIDE DEF t
<1>5. DOMAIN t = 1..(n - k + 1)
  BY <1>2, <1>3
<1> HIDE DEF n
<1>6. \A i \in DOMAIN t : i + k - 1 \in DOMAIN s /\ t[i] = s[i + k - 1] /\ i + k - 1 >= k /\ i \in Nat
  <2> TAKE i \in DOMAIN t
  <2>1. i \in 1..(n - k + 1) /\ i + k - 1 \in DOMAIN s /\ i + k - 1 >= k /\ i \in Nat
    BY <1>1, <1>5
  <2> QED
    BY <1>4, <2>1
<1>7. \A i \in DOMAIN s : i >= k => i - k + 1 \in DOMAIN t /\ s[i] = t[i - k + 1]
  <2> SUFFICES ASSUME NEW i \in DOMAIN s, i >= k
               PROVE  i - k + 1 \in DOMAIN t /\ s[i] = t[i - k + 1]
    OBVIOUS
  <2>1. i - k + 1 \in DOMAIN t /\ i - k + 1 \in 1..(n - k + 1) /\ (i - k + 1) + k - 1 = i
    BY <1>1, <1>5
  <2> QED
    BY <1>4, <2>1
<1>8. Elements(t) = {s[i] : i \in {i \in DOMAIN s : i >= k}}
  <2> DEFINE late == {i \in DOMAIN s : i >= k}
  <2>1. \A j \in DOMAIN t : \E i \in late : t[j] = s[i]
    BY <1>6, Zenon
  <2>2. \A i \in late : \E j \in DOMAIN t : t[j] = s[i]
    BY <1>7, Zenon
  <2> HIDE DEF late
  <2>3. {t[j] : j \in DOMAIN t} = {s[i] : i \in late}
    BY <2>1, <2>2
  <2> QED
    BY <2>3 DEF Elements, late
<1>9. Ascending(t)
  <2> SUFFICES ASSUME NEW i \in DOMAIN t, NEW j \in DOMAIN t, i < j PROVE t[i] < t[j]
    BY DEF Ascending
  <2>1. i + k - 1 \in DOMAIN s /\ j + k - 1 \in DOMAIN s /\ i + k - 1 < j + k - 1
    BY <1>1, <1>6
  <2>2. s[i + k - 1] < s[j + k - 1]
    BY <2>1 DEF Ascending
  <2> QED
    BY <1>6, <2>2
<1>10. Len(t) <= n
  BY <1>1, <1>3
<1> QED
  BY <1>2, <1>8, <1>9, <1>10 DEF t, n

LEMMA EventInit == Showing /\ D!Init => EventInv
  BY DEF Showing, D!Init, EventInv, RingInv, InboxInv, SeenInv

\* What a ring of m places keeps of a sequence.
Kept(s, m) == IF Len(s) > m THEN SubSeq(s, Len(s) - m + 1, Len(s)) ELSE s

\* A ring that gets one more element keeps the latest ones.
LEMMA RingTurns ==
    ASSUME NEW s \in Seq(Nat), NEW m \in Nat \ {0}, Len(s) <= m + 1
    PROVE  /\ Kept(s, m) \in Seq(Nat) /\ Len(Kept(s, m)) <= m /\ Len(Kept(s, m)) <= Len(s)
           /\ \A i \in 1..Len(Kept(s, m)) : Kept(s, m)[i] = s[i + Len(s) - Len(Kept(s, m))]
           /\ s # <<>> => Len(Kept(s, m)) > 0
<1>1. CASE Len(s) > m
  <2>1. Len(s) = m + 1 /\ Kept(s, m) = SubSeq(s, 2, m + 1) /\ \A i \in 2..(m + 1) : s[i] \in Nat
    BY <1>1 DEF Kept
  <2>2. SubSeq(s, 2, m + 1) \in Seq(Nat)
    BY <2>1, SubSeqProperties
  <2>3. Len(SubSeq(s, 2, m + 1)) = m
    BY <2>1
  <2>4. \A i \in 1..m : SubSeq(s, 2, m + 1)[i] = s[i + 1]
    BY <2>1
  <2> QED
    BY <2>1, <2>2, <2>3, <2>4
<1>2. CASE ~(Len(s) > m)
  BY <1>2 DEF Kept
<1> QED
  BY <1>1, <1>2

\* A ring that has the last of the events before n takes n.
LEMMA RingMoves ==
    ASSUME NEW s \in Seq(Nat), NEW n \in Nat \ {0}, NEW m \in Nat \ {0},
           Len(s) < n, Len(s) <= m, \A i \in 1..Len(s) : s[i] = n - 1 - Len(s) + i,
           NEW t, t = Kept(Append(s, n), m)
    PROVE  /\ t \in Seq(Nat) /\ Len(t) <= m /\ Len(t) <= n
           /\ \A i \in 1..Len(t) : t[i] = n - Len(t) + i
           /\ \A i \in 1..Len(t) : t[i] = n \/ \E k \in 1..Len(s) : t[i] = s[k]
<1> DEFINE full == Append(s, n)
<1>1. /\ full \in Seq(Nat) /\ Len(full) = Len(s) + 1
      /\ \A i \in 1..Len(s) : full[i] = s[i]
      /\ full[Len(s) + 1] = n
  BY AppendProperties
<1>2. t = Kept(full, m)
  OBVIOUS
<1> HIDE DEF full
<1>3. Len(s) \in Nat /\ Len(full) <= m + 1
  BY <1>1
<1>4. /\ t \in Seq(Nat) /\ Len(t) <= m /\ Len(t) <= Len(full)
      /\ \A i \in 1..Len(t) : t[i] = full[i + Len(full) - Len(t)]
  <2>1. /\ Kept(full, m) \in Seq(Nat) /\ Len(Kept(full, m)) <= m
        /\ Len(Kept(full, m)) <= Len(full)
        /\ \A i \in 1..Len(Kept(full, m)) :
                Kept(full, m)[i] = full[i + Len(full) - Len(Kept(full, m))]
    <3>1. full \in Seq(Nat) /\ m \in Nat \ {0} /\ Len(full) <= m + 1
      BY <1>1, <1>3
    <3> QED
      BY <3>1, RingTurns, Zenon
  <2> QED
    BY <1>2, <2>1, Zenon
<1>5. Len(t) \in Nat /\ Len(t) <= n
  BY <1>1, <1>3, <1>4
<1>6. ASSUME NEW i \in 1..Len(t)
      PROVE  t[i] = n - Len(t) + i /\ (t[i] = n \/ \E k \in 1..Len(s) : t[i] = s[k])
  <2>1. t[i] = full[i + Len(full) - Len(t)]
    BY <1>4
  <2>2. CASE i = Len(t)
    BY <1>1, <1>3, <1>5, <2>1, <2>2
  <2>3. CASE i < Len(t)
    <3> DEFINE k == i + Len(full) - Len(t)
    <3>1. /\ Len(s) \in Nat /\ Len(full) = Len(s) + 1 /\ Len(t) \in Nat /\ i \in 1..Len(t)
          /\ i < Len(t) /\ Len(t) <= Len(full) /\ n \in Nat
      BY <1>1, <1>3, <1>4, <1>5, <2>3
    <3>2. k \in 1..Len(s) /\ n - 1 - Len(s) + k = n - Len(t) + i
      BY <3>1
    <3>3. t[i] = s[k]
      BY <1>1, <2>1, <3>2
    <3>4. s[k] = n - 1 - Len(s) + k
      BY <3>2
    <3> HIDE DEF k
    <3> QED
      BY <3>2, <3>3, <3>4
  <2> QED
    BY <1>5, <2>2, <2>3
<1> QED
  BY <1>4, <1>5, <1>6

LEMMA PublishKeeps ==
    ASSUME Showing, EventInv, D!Publish, UNCHANGED <<last, received, seen, first>>
    PROVE  EventInv'
<1>1. /\ next \in Nat \ {0} /\ ring \in Seq(Nat) /\ RingSize \in Nat \ {0} /\ inFlight = {}
      /\ next' = next + 1 /\ inbox' = inbox
      /\ inFlight' = IF inbox = None THEN {} ELSE {next}
  BY DEF Showing, D!Publish, EventInv, RingInv
<1>2. ring' = Kept(Append(ring, next), RingSize)
  BY DEF D!Publish, Kept
<1>3. /\ Len(ring) < next /\ Len(ring) <= RingSize
      /\ \A i \in 1..Len(ring) : ring[i] = next - 1 - Len(ring) + i
  BY <1>1 DEF EventInv, RingInv
<1>4. /\ ring' \in Seq(Nat) /\ Len(ring') <= RingSize /\ Len(ring') <= next
      /\ \A i \in 1..Len(ring') : ring'[i] = next - Len(ring') + i
      /\ \A i \in 1..Len(ring') : ring'[i] = next \/ \E k \in 1..Len(ring) : ring'[i] = ring[k]
  <2> DEFINE Moved(t) ==
        /\ t \in Seq(Nat) /\ Len(t) <= RingSize /\ Len(t) <= next
        /\ \A i \in 1..Len(t) : t[i] = next - Len(t) + i
        /\ \A i \in 1..Len(t) : t[i] = next \/ \E k \in 1..Len(ring) : t[i] = ring[k]
  <2>1. \A t : t = Kept(Append(ring, next), RingSize) => Moved(t)
    BY <1>1, <1>3, RingMoves, Zenon
  <2>2. Moved(ring')
    BY <1>2, <2>1, Zenon
  <2> QED
    BY <2>2
<1>5. DOMAIN ring = 1..Len(ring) /\ DOMAIN ring' = 1..Len(ring') /\ Len(ring') \in Nat
  BY <1>1, <1>4
<1>6. RingInv'
  BY <1>1, <1>4, <1>5 DEF RingInv
<1>7. \A i \in DOMAIN ring' : ring'[i] = next \/ \E j \in DOMAIN ring : ring'[i] = ring[j]
  BY <1>4, <1>5, Zenon
<1>9. InboxInv'
  BY <1>1 DEF EventInv, InboxInv
<1>10. inbox # None => Pending' = Pending \cup {next} /\ \A e \in Pending : e < next
  BY <1>1 DEF Pending, Elements, EventInv, InboxInv
<1>11. SeenInv'
  BY <1>1, <1>7, <1>10 DEF EventInv, SeenInv, InboxInv, RingInv
<1> QED
  BY <1>6, <1>9, <1>11 DEF EventInv

LEMMA DeliverKeeps == ASSUME Showing, EventInv, D!Deliver PROVE EventInv'
<1>1. PICK e \in inFlight : /\ inFlight' = inFlight \ {e} /\ inbox # None
                            /\ Len(inbox) < QueueSize /\ inbox' = Append(inbox, e)
                            /\ UNCHANGED <<next, ring, last, received, seen, first>>
  BY DEF Showing, D!Deliver, D!browser, EventInv, RingInv
<1>2. next \in Nat \ {0} /\ inFlight = {e} /\ e = next - 1 /\ e \in Nat /\ inFlight' = {}
  <2>1. next \in Nat \ {0} /\ inFlight \subseteq {next - 1} /\ next # 1
    BY <1>1 DEF EventInv, RingInv
  <2>2. e = next - 1
    BY <1>1, <2>1
  <2>3. inFlight = {e} /\ inFlight' = {}
    BY <1>1, <2>1, <2>2, Zenon
  <2>4. e \in Nat
    BY <2>1, <2>2
  <2> QED
    BY <2>1, <2>2, <2>3, <2>4, Zenon
<1>3. /\ inbox \in Seq(Nat) /\ Ascending(inbox) /\ e > last /\ last \in Nat
      /\ \A x \in Elements(inbox) : x \in Nat /\ x > last /\ x < next /\ x # e
  BY <1>1, <1>2 DEF EventInv, InboxInv
<1>4. \A x \in Elements(inbox) : x < e
  BY <1>2, <1>3
<1>5. /\ inbox' \in Seq(Nat) /\ Len(inbox') = Len(inbox) + 1 /\ Ascending(inbox')
      /\ Elements(inbox') = Elements(inbox) \cup {e}
  <2>1. /\ Append(inbox, e) \in Seq(Nat) /\ Len(Append(inbox, e)) = Len(inbox) + 1
        /\ Elements(Append(inbox, e)) = Elements(inbox) \cup {e}
        /\ Ascending(Append(inbox, e))
    BY <1>2, <1>3, <1>4, AppendTakes, Zenon
  <2> QED
    BY <1>1, <2>1, Zenon
<1>6. inbox' # None /\ Len(inbox') <= QueueSize
  <2>1. None \notin Seq(Nat)
    BY DEF Showing
  <2>2. inbox' # None
    BY <1>5, <2>1, Zenon
  <2>3. Len(inbox) \in Nat /\ QueueSize \in Nat
    BY <1>3 DEF Showing
  <2>4. Len(inbox') <= QueueSize
    BY <1>1, <1>5, <2>3
  <2> QED
    BY <2>2, <2>4
<1>7. Pending' = Pending
  BY <1>2, <1>5 DEF Pending, Elements
<1>8. RingInv'
  BY <1>1, <1>2, <1>6 DEF EventInv, RingInv
<1>9. InboxInv'
  <2>1. \A x \in Elements(inbox') : x \in Nat /\ x > last /\ x < next /\ x \notin inFlight'
    BY <1>2, <1>3, <1>5
  <2> QED
    BY <1>1, <1>2, <1>5, <1>6, <2>1 DEF EventInv, InboxInv
<1>10. SeenInv'
  BY <1>1, <1>7 DEF EventInv, SeenInv
<1> QED
  BY <1>8, <1>9, <1>10 DEF EventInv

LEMMA ReceiveKeeps == ASSUME Showing, EventInv, D!Receive PROVE EventInv'
<1> DEFINE h == Head(inbox)
<1>1. /\ inbox # None /\ inbox # <<>> /\ inbox' = Tail(inbox)
      /\ last' = h /\ first' = IF first = 0 THEN h ELSE first
      /\ received' = received \cup {h} /\ seen' = seen \cup {h}
      /\ UNCHANGED <<next, ring, inFlight>>
  BY DEF D!Receive
<1>2. /\ inbox \in Seq(Nat) /\ Ascending(inbox) /\ Len(inbox) <= QueueSize
      /\ last \in Nat /\ first \in Nat /\ first <= last /\ received \subseteq 1..last
      /\ \A e \in Elements(inbox) : e \in Nat /\ e > last /\ e < next /\ e \notin inFlight
  BY <1>1 DEF EventInv, InboxInv
<1>3. /\ inbox' \in Seq(Nat) /\ Len(inbox') = Len(inbox) - 1 /\ h \in Nat /\ Ascending(inbox')
      /\ Elements(inbox) = Elements(inbox') \cup {h}
      /\ \A e \in Elements(inbox') : e > h
  <2>1. /\ Tail(inbox) \in Seq(Nat) /\ Len(Tail(inbox)) = Len(inbox) - 1 /\ Head(inbox) \in Nat
        /\ Elements(inbox) = Elements(Tail(inbox)) \cup {Head(inbox)}
        /\ \A e \in Elements(Tail(inbox)) : e > Head(inbox)
        /\ Ascending(Tail(inbox))
    BY <1>1, <1>2, TailTakes, Zenon
  <2> QED
    BY <1>1, <2>1, Zenon
<1>4. inbox' # None /\ Len(inbox') <= QueueSize
  BY <1>2, <1>3 DEF Showing
<1> HIDE DEF h
<1>5. h > last /\ h < next /\ h \notin inFlight /\ next \in Nat /\ inFlight \subseteq {next - 1}
  BY <1>2, <1>3 DEF EventInv, RingInv
<1>6. \A e \in Elements(inbox') \cup inFlight : e > h /\ e \in Nat
  <2>1. ASSUME NEW e \in Elements(inbox') PROVE e > h /\ e \in Nat
    <3>1. e \in Elements(inbox)
      BY <1>3, <2>1, Zenon
    <3> QED
      BY <1>2, <1>3, <2>1, <3>1, Zenon
  <2>2. ASSUME NEW e \in inFlight PROVE e > h /\ e \in Nat
    <3>1. e = next - 1 /\ e # h
      BY <1>5, <2>2, Zenon
    <3> QED
      BY <1>3, <1>5, <3>1
  <2> QED
    BY <2>1, <2>2, Zenon
<1>7. RingInv'
  BY <1>1, <1>4 DEF EventInv, RingInv
<1>8. InboxInv'
  BY <1>1, <1>2, <1>3, <1>4, <1>5, <1>6 DEF InboxInv
<1>9. Pending = Pending' \cup {h} /\ \A e \in Pending' : e > h /\ e \in Nat
  BY <1>1, <1>3, <1>6 DEF Pending, Elements
<1>10. \A i \in DOMAIN ring : ring[i] \in Nat
  BY DEF EventInv, RingInv
<1>11. \A i \in DOMAIN ring :
          (first # 0 /\ ring[i] > last) \/ (\E e \in Pending : ring[i] >= e) => ring[i] \in Pending
  BY <1>1 DEF EventInv, SeenInv
<1>12. SeenInv'
  <2>1. ASSUME NEW i \in DOMAIN ring, ring[i] > first', ring[i] <= h
        PROVE  ring[i] \in seen'
    <3>1. CASE first = 0
      BY <1>1, <1>3, <1>10, <2>1, <3>1
    <3>2. CASE first # 0 /\ ring[i] <= last
      BY <1>1, <2>1, <3>2 DEF EventInv, SeenInv
    <3>3. CASE first # 0 /\ ring[i] > last
      BY <1>1, <1>3, <1>9, <1>10, <1>11, <2>1, <3>3
    <3> QED
      BY <1>2, <1>10, <3>1, <3>2, <3>3
  <2>2. ASSUME NEW i \in DOMAIN ring, ring[i] > h \/ \E e \in Pending' : ring[i] >= e
        PROVE  ring[i] \in Pending'
    <3>1. ring[i] > h /\ h \in Pending
      BY <1>3, <1>9, <1>10, <2>2
    <3>2. ring[i] \in Pending
      BY <1>3, <1>10, <1>11, <3>1
    <3> QED
      BY <1>3, <1>9, <1>10, <3>1, <3>2
  <2> QED
    BY <1>1, <2>1, <2>2 DEF SeenInv
<1> QED
  BY <1>7, <1>8, <1>12 DEF EventInv

LEMMA ConnectKeeps == ASSUME Showing, EventInv, D!Connect PROVE EventInv'
<1>1. PICK k \in 1..(Len(ring) + 1) :
        /\ inbox = None /\ \A i \in DOMAIN ring : ring[i] > last <=> i >= k
        /\ inbox' = D!Replays(k) /\ received' = {}
        /\ UNCHANGED <<next, ring, inFlight, last, seen, first>>
  BY DEF D!Connect
<1>2. /\ inFlight = {} /\ ring \in Seq(Nat) /\ Len(ring) <= RingSize /\ next \in Nat \ {0}
      /\ \A i \in DOMAIN ring : ring[i] = next - 1 - Len(ring) + i
      /\ last \in Nat /\ first \in Nat /\ (first = 0 => last = 0) /\ first <= last
  BY <1>1 DEF EventInv, RingInv, InboxInv
<1>3. Ascending(ring) /\ Len(ring) \in Nat /\ \A i \in DOMAIN ring : ring[i] < next /\ ring[i] \in Nat
  BY <1>2 DEF Ascending
<1>4. inbox' = IF last = 0 THEN <<>> ELSE SubSeq(ring, k, Len(ring))
  <2>1. k + QueueSize - 1 >= Len(ring)
    BY <1>2, <1>3 DEF Showing
  <2>2. (IF k + QueueSize - 1 < Len(ring) THEN k + QueueSize - 1 ELSE Len(ring)) = Len(ring)
    BY <1>3, <2>1 DEF Showing
  <2> QED
    BY <1>1, <2>2 DEF D!Replays
<1>5. /\ inbox' \in Seq(Nat) /\ Len(inbox') <= QueueSize /\ Ascending(inbox')
      /\ Elements(inbox') = IF last = 0 THEN {} ELSE {ring[i] : i \in {i \in DOMAIN ring : i >= k}}
  <2>1. CASE last = 0
    BY <1>4, <2>1 DEF Elements, Ascending, Showing
  <2>2. CASE last # 0
    <3>1. /\ SubSeq(ring, k, Len(ring)) \in Seq(Nat) /\ Len(SubSeq(ring, k, Len(ring))) <= Len(ring)
          /\ Elements(SubSeq(ring, k, Len(ring))) = {ring[i] : i \in {i \in DOMAIN ring : i >= k}}
          /\ Ascending(SubSeq(ring, k, Len(ring)))
      BY <1>2, <1>3, SuffixTakes, Zenon
    <3>2. inbox' = SubSeq(ring, k, Len(ring))
      BY <1>4, <2>2
    <3>3. /\ inbox' \in Seq(Nat) /\ Len(inbox') <= Len(ring) /\ Ascending(inbox')
          /\ Elements(inbox') = {ring[i] : i \in {i \in DOMAIN ring : i >= k}}
      BY <3>1, <3>2, Zenon
    <3> QED
      BY <1>2, <1>3, <2>2, <3>3 DEF Showing
  <2> QED
    BY <2>1, <2>2
<1>6. /\ inbox' # None /\ Pending' = Elements(inbox')
      /\ \A e \in Elements(inbox') : e \in Nat /\ e > last /\ e < next
      /\ last # 0 => \A i \in DOMAIN ring : ring[i] > last => ring[i] \in Elements(inbox')
  <2>1. inbox' # None
    BY <1>5 DEF Showing
  <2>2. Pending' = Elements(inbox')
    BY <1>1, <1>2 DEF Pending, Elements
  <2> QED
    BY <1>1, <1>3, <1>5, <2>1, <2>2
<1>7. RingInv'
  BY <1>1, <1>6 DEF EventInv, RingInv
<1>8. InboxInv'
  BY <1>1, <1>2, <1>5, <1>6 DEF EventInv, InboxInv
<1>9. SeenInv'
  <2>1. ASSUME NEW i \in DOMAIN ring,
               (first # 0 /\ ring[i] > last) \/ \E e \in Pending' : ring[i] >= e
        PROVE  ring[i] \in Pending'
    <3>1. last # 0 /\ ring[i] > last
      BY <1>2, <1>3, <1>5, <1>6, <2>1, SMTT(30)
    <3> QED
      BY <1>6, <3>1
  <2> QED
    BY <1>1, <2>1 DEF EventInv, SeenInv
<1> QED
  BY <1>7, <1>8, <1>9 DEF EventInv

LEMMA EventKept == Showing /\ EventInv /\ [D!Next]_(D!dvars) => EventInv'
<1> SUFFICES ASSUME Showing, EventInv, [D!Next]_(D!dvars) PROVE EventInv'
  OBVIOUS
<1>1. ASSUME UNCHANGED <<next, ring, inFlight, inbox, last, received, seen, first>>
      PROVE  EventInv'
  BY <1>1 DEF EventInv, RingInv, InboxInv, SeenInv, Pending, Elements, Ascending
<1>2. CASE UNCHANGED D!dvars
  BY <1>1, <1>2 DEF D!dvars
<1>3. ASSUME NEW o \in Op, D!StartOp(o) \/ D!RunnerEnds(o) \/ D!Clear(o) PROVE EventInv'
  BY <1>1, <1>3 DEF D!StartOp, D!RunnerEnds, D!Clear, D!busvars, D!browser
<1>4. ASSUME NEW o \in Op, D!Announce(o) \/ D!Report(o) PROVE EventInv'
  BY <1>4, PublishKeeps DEF D!Announce, D!Report, D!browser
<1>5. CASE D!Deliver \/ D!Connect \/ D!Receive
  BY <1>5, DeliverKeeps, ConnectKeeps, ReceiveKeeps
<1>6. CASE D!Disconnect
  <2>1. /\ inbox' = None /\ inFlight' = {}
        /\ UNCHANGED <<next, ring, last, received, seen, first>>
    BY <1>6 DEF D!Disconnect, D!browser
  <2> QED
    BY <2>1 DEF EventInv, RingInv, InboxInv, SeenInv
<1>7. CASE D!Restart
  <2>1. /\ next' = 1 /\ ring' = <<>> /\ inFlight' = {} /\ inbox' = None
        /\ last' = 0 /\ received' = {} /\ seen' = {} /\ first' = 0
    BY <1>7 DEF D!Restart, Showing
  <2> QED
    BY <2>1 DEF EventInv, RingInv, InboxInv, SeenInv, Showing
<1>8. CASE D!FileChanges
  BY <1>1, <1>8 DEF D!FileChanges, D!busvars, D!browser
<1>9. CASE D!Poll
  BY <1>9, PublishKeeps DEF D!Poll, D!browser
<1> QED
  BY <1>2, <1>3, <1>4, <1>5, <1>6, <1>7, <1>8, <1>9 DEF D!Next

\* No group has two operations whose runner is under way, and a browser that has caught up
\* after reconnects has each event since its first one that the ring still holds, none of them
\* twice in a connection (ops.py OperationManager.start, bus.py EventBus.subscribe).
THEOREM DashboardIsSound ==
    Showing /\ D!Spec => [](D!TypeOK /\ D!OneRunnerPerGroup /\ D!NothingMissed)
<1> SUFFICES ASSUME Showing
             PROVE  D!Spec => [](D!TypeOK /\ D!OneRunnerPerGroup /\ D!NothingMissed)
  OBVIOUS
<1>1. D!Init => OpsInv /\ EventInv
  BY OpsInit, EventInit
<1>2. OpsInv /\ EventInv /\ [D!Next]_(D!dvars) => (OpsInv /\ EventInv)'
  BY OpsKept, EventKept
<1>3. OpsInv /\ EventInv => D!TypeOK
  <2> SUFFICES ASSUME OpsInv, EventInv PROVE D!TypeOK
    OBVIOUS
  <2>1. \A e \in inFlight : e < next
    BY DEF EventInv, RingInv
  <2> QED
    BY <2>1 DEF OpsInv, EventInv, RingInv, InboxInv, D!TypeOK
<1>4. OpsInv => D!OneRunnerPerGroup
  BY DEF OpsInv, D!OneRunnerPerGroup
<1>5. EventInv => D!NothingMissed
  <2> SUFFICES ASSUME EventInv PROVE D!NothingMissed
    OBVIOUS
  <2>1. ASSUME inbox = <<>>, inFlight = {}, first # 0, NEW i \in DOMAIN ring, ring[i] > first
        PROVE  ring[i] \in seen
    <3>1. Pending = {} /\ inbox # None
      <4>1. inbox \in Seq(Nat)
        BY <2>1
      <4>2. inbox # None
        BY <4>1 DEF Showing
      <4>3. DOMAIN inbox = {}
        BY <2>1
      <4>4. Elements(inbox) = {}
        BY <4>3, Zenon DEF Elements
      <4> QED
        BY <2>1, <4>2, <4>4 DEF Pending
    <3>2. ~(ring[i] > last)
      BY <2>1, <3>1 DEF EventInv, SeenInv
    <3>3. ring[i] <= last
      BY <3>2 DEF EventInv, RingInv, InboxInv
    <3> QED
      BY <2>1, <3>3 DEF EventInv, SeenInv
  <2>2. ASSUME inbox # None, NEW i \in DOMAIN inbox PROVE inbox[i] \notin received
    <3>1. inbox[i] \in Elements(inbox)
      BY DEF Elements
    <3> QED
      BY <2>2, <3>1 DEF EventInv, InboxInv
  <2> QED
    BY <2>1, <2>2 DEF D!NothingMissed
<1> QED
  BY <1>1, <1>2, <1>3, <1>4, <1>5, PTL DEF D!Spec

\* One dashboard that the commands know of, one operation of a group at a time in it, and no
\* event lost between it and the browser.
THEOREM ConsoleStaysSound == Serving /\ Showing /\ Spec => []ConsoleSound
  BY OneServiceIsKnown, DashboardIsSound, EachOnItsOwn, PTL DEF ConsoleSound
=============================================================================
