--------------------------- MODULE Supply_proofs ----------------------------
(***************************************************************************)
(* Theorems about what the cycles of a project draw on, for every value of *)
(* the constants: what each part promises holds in every behaviour of all  *)
(* of them together.  Each part has a section, with the assumptions on its *)
(* constants, its inductive invariant and the theorem.                     *)
(***************************************************************************)
EXTENDS Supply, Integers, FiniteSetTheorems, SequenceTheorems, WellFoundedInduction, TLAPS

\* Each part goes its own way: a behaviour of all of them is one of each.
LEMMA EachOnItsOwn ==
    SupplySpec => K!Spec /\ P!Spec /\ B!Spec /\ X!Spec /\ D!Spec /\ O!Spec
<1> USE DEF SupplyNext, supplyVars, Acquires, Configures, Assembles, Caches, Routes, Cools
<1>1. SupplyInit => K!Init /\ P!Init /\ B!Init /\ X!Init /\ D!Init /\ O!Init
  BY DEF SupplyInit
<1>2. [SupplyNext]_supplyVars => [K!Next]_(K!kvars)
  BY DEF kvars, K!kvars
<1>3. [SupplyNext]_supplyVars => [P!Next]_(P!pvars)
  BY DEF pvars, P!pvars
<1>4. [SupplyNext]_supplyVars => [B!Next]_(B!bvars)
  BY DEF bvars, B!bvars
<1>5. [SupplyNext]_supplyVars => [X!Next]_(X!xvars)
  BY DEF xvars, X!xvars
<1>6. [SupplyNext]_supplyVars => [D!Next]_(D!dvars)
  BY DEF dvars, D!dvars
<1>7. [SupplyNext]_supplyVars => [O!Next]_(O!ovars)
  BY DEF ovars, O!ovars
<1> QED
  BY <1>1, <1>2, <1>3, <1>4, <1>5, <1>6, <1>7, PTL
     DEF SupplySpec, K!Spec, P!Spec, B!Spec, X!Spec, D!Spec, O!Spec

-----------------------------------------------------------------------------
(***************************************************************************)
(* Natural numbers: induction, and functions defined by recursion.         *)
(***************************************************************************)
\* Of the indices at which something holds there is a first one.
LEMMA FirstIndex ==
    ASSUME NEW S \in SUBSET Nat, S # {}
    PROVE  \E i \in S : \A j \in S : i <= j
<1> DEFINE R == {ss \in Nat \X Nat : ss[1] < ss[2]}
<1>1. IsWellFoundedOn(R, Nat)
  BY NatLessThanWellFounded DEF OpToRel
<1>2. PICK x \in S : \A y \in S : <<y, x>> \notin R
  <2> HIDE DEF R
  <2> QED
    BY <1>1, WFMin
<1>3. ASSUME NEW y \in S PROVE x <= y
  <2>1. y < x => <<y, x>> \in R
    OBVIOUS
  <2> QED
    BY <2>1, <1>2
<1> QED
  BY <1>3

\* What is defined from one number to the next has a value at every number.
Stepwise(n, S, a, F) == n \in Nat /\ a \in S /\ F \in [1..n -> [S -> S]]
Follows(g, n, S, a, F) == /\ g \in [0..n -> S] /\ g[0] = a
                          /\ \A i \in 1..n : g[i] = F[i][g[i - 1]]

\* There is a function that is defined from one number to the next.
LEMMA RecursionExists ==
    ASSUME NEW n, NEW S, NEW a, NEW F, Stepwise(n, S, a, F)
    PROVE  \E g : Follows(g, n, S, a, F)
<1>0. n \in Nat /\ a \in S /\ F \in [1..n -> [S -> S]]
  BY DEF Stepwise
<1> DEFINE Upto(m) == \E g \in [0..m -> S] : g[0] = a /\ \A i \in 1..m : g[i] = F[i][g[i - 1]]
           Missing == {m \in 0..n : ~Upto(m)}
<1>1. Upto(0)
  <2>1. PICK g : g = [i \in 0..0 |-> a]
    OBVIOUS
  <2> QED
    BY <1>0, <2>1
<1>2. ASSUME NEW m \in 1..n, Upto(m - 1) PROVE Upto(m)
  <2>1. PICK g \in [0..(m - 1) -> S] : g[0] = a /\ \A i \in 1..(m - 1) : g[i] = F[i][g[i - 1]]
    BY <1>2
  <2>2. PICK y : y = F[m][g[m - 1]]
    OBVIOUS
  <2>3. y \in S
    BY <1>0, <2>1, <2>2
  <2>4. PICK h : h = [i \in 0..m |-> IF i = m THEN y ELSE g[i]]
    OBVIOUS
  <2>5. h \in [0..m -> S] /\ h[0] = a
    BY <2>1, <2>3, <2>4
  <2>6. ASSUME NEW i \in 1..m PROVE h[i] = F[i][h[i - 1]]
    <3>1. CASE i = m
      <4>1. i \in 0..m /\ i - 1 \in 0..m /\ i - 1 # m
        BY <3>1
      <4> QED
        BY <2>2, <2>4, <3>1, <4>1
    <3>2. CASE i # m
      <4>1. i \in 1..(m - 1) /\ i \in 0..m /\ i - 1 \in 0..m /\ i - 1 # m
        BY <3>2
      <4> QED
        BY <2>1, <2>4, <4>1
    <3> QED
      BY <3>1, <3>2
  <2> QED
    BY <2>5, <2>6
<1> HIDE DEF Upto
<1>3. Missing = {}
  <2>1. SUFFICES ASSUME Missing # {} PROVE FALSE
    OBVIOUS
  <2>2. PICK M : M = Missing
    OBVIOUS
  <2>3. M \in SUBSET Nat /\ M # {}
    BY <2>1, <2>2
  <2>4. PICK m \in M : \A k \in M : m <= k
    BY <2>3, FirstIndex
  <2>5. m \in 1..n /\ m - 1 \in 0..n /\ m - 1 \notin M
    BY <1>0, <1>1, <2>2, <2>4
  <2> QED
    BY <1>2, <2>2, <2>4, <2>5
<1>4. Upto(n)
  BY <1>0, <1>3
<1> QED
  BY <1>4 DEF Upto, Follows

\* What passes from one number to the next holds at every number.
LEMMA Induction ==
    ASSUME NEW n \in Nat, NEW S, NEW f, f[0] \in S, \A i \in 1..n : f[i - 1] \in S => f[i] \in S
    PROVE  \A i \in 0..n : f[i] \in S
<1>1. PICK odd : odd = {i \in 0..n : f[i] \notin S}
  OBVIOUS
<1>2. odd = {}
  <2>1. SUFFICES ASSUME odd # {} PROVE FALSE
    OBVIOUS
  <2>2. odd \in SUBSET Nat
    BY <1>1
  <2>3. PICK i \in odd : \A j \in odd : i <= j
    BY <2>1, <2>2, FirstIndex
  <2>4. i \in 1..n /\ i - 1 \in 0..n /\ i - 1 \notin odd
    BY <1>1, <2>3
  <2> QED
    BY <1>1, <2>3, <2>4
<1> QED
  BY <1>1, <1>2

-----------------------------------------------------------------------------
(***************************************************************************)
(* Sums over finite sets, as MapThenSumSet takes them: the elements are    *)
(* chosen one after the other, and the order does not matter.              *)
(***************************************************************************)
Some(s)        == CHOOSE x \in s : TRUE
Adds(it, f, S) == it = [s \in SUBSET S |->
                          IF s = {} THEN 0
                          ELSE f[Some(s)] + it[s \ {Some(s)}]]
Total(f, S)    == (CHOOSE it : Adds(it, f, S))[S]
Summable(f, S) == IsFiniteSet(S) /\ \A x \in S : f[x] \in Nat

\* What passes from the smaller subsets to a larger one holds of every subset.
LEMMA SubsetInduction ==
    ASSUME NEW S, IsFiniteSet(S), NEW G,
           \A s \in SUBSET S :
               (\A t \in SUBSET S : Cardinality(t) < Cardinality(s) => t \in G) => s \in G
    PROVE  \A s \in SUBSET S : s \in G
<1>1. PICK odd : odd = {Cardinality(s) : s \in {t \in SUBSET S : t \notin G}}
  OBVIOUS
<1>2. SUFFICES ASSUME NEW s \in SUBSET S, s \notin G PROVE FALSE
  OBVIOUS
<1>3. \A t \in SUBSET S : Cardinality(t) \in Nat
  BY FS_Subset, FS_CardinalityType
<1>4. odd \in SUBSET Nat
  BY <1>1, <1>3
<1>5. odd # {}
  BY <1>1, <1>2
<1>6. PICK k \in odd : \A j \in odd : k <= j
  BY <1>4, <1>5, FirstIndex
<1>7. PICK t \in SUBSET S : t \notin G /\ Cardinality(t) = k
  BY <1>1, <1>6
<1>8. \A r \in SUBSET S : Cardinality(r) < k => r \in G
  BY <1>1, <1>3, <1>4, <1>6
<1> QED
  BY <1>7, <1>8

\* A set that is not empty loses one element with the one that is chosen.
LEMMA ChosenOff ==
    ASSUME NEW S, IsFiniteSet(S), NEW s \in SUBSET S, s # {}
    PROVE  /\ Some(s) \in s /\ s \ {Some(s)} \in SUBSET S
           /\ Cardinality(s) \in Nat /\ Cardinality(s \ {Some(s)}) \in Nat
           /\ Cardinality(s) = Cardinality(s \ {Some(s)}) + 1
<1>1. IsFiniteSet(s)
  BY FS_Subset
<1>2. Some(s) \in s
  BY DEF Some
<1>3. Cardinality(s \ {Some(s)}) = Cardinality(s) - 1 /\ IsFiniteSet(s \ {Some(s)})
  BY <1>1, <1>2, FS_RemoveElement
<1>4. Cardinality(s) \in Nat /\ Cardinality(s \ {Some(s)}) \in Nat
  BY <1>1, <1>3, FS_CardinalityType
<1> QED
  BY <1>2, <1>3, <1>4

\* The sum over every subset is defined.
LEMMA SumExists == ASSUME NEW S, NEW f, Summable(f, S) PROVE \E it : Adds(it, f, S)
<1>0. IsFiniteSet(S) /\ \A x \in S : f[x] \in Nat
  BY DEF Summable
<1>1. PICK n \in Nat : n = Cardinality(S)
  BY <1>0, FS_CardinalityType
<1>2. PICK V : V = [SUBSET S -> Nat]
  OBVIOUS
<1>3. PICK ch : ch = [s \in SUBSET S |-> Some(s)]
  OBVIOUS
<1>4. \A s \in SUBSET S : s # {} =>
         /\ ch[s] \in s /\ s \ {ch[s]} \in SUBSET S /\ f[ch[s]] \in Nat
         /\ Cardinality(s) \in Nat /\ Cardinality(s \ {ch[s]}) \in Nat
         /\ Cardinality(s) = Cardinality(s \ {ch[s]}) + 1
  <2>1. SUFFICES ASSUME NEW s \in SUBSET S, s # {}
                 PROVE  /\ ch[s] \in s /\ s \ {ch[s]} \in SUBSET S /\ f[ch[s]] \in Nat
                        /\ Cardinality(s) \in Nat /\ Cardinality(s \ {ch[s]}) \in Nat
                        /\ Cardinality(s) = Cardinality(s \ {ch[s]}) + 1
    OBVIOUS
  <2>2. ch[s] = Some(s)
    BY <1>3
  <2>3. /\ ch[s] \in s /\ s \ {ch[s]} \in SUBSET S
        /\ Cardinality(s) \in Nat /\ Cardinality(s \ {ch[s]}) \in Nat
        /\ Cardinality(s) = Cardinality(s \ {ch[s]}) + 1
    BY <1>0, <2>1, <2>2, ChosenOff
  <2> QED
    BY <1>0, <2>3
<1>5. PICK a : a = [s \in SUBSET S |-> 0]
  OBVIOUS
<1>6. PICK F : F = [i \in 1..n |-> [g \in V |-> [s \in SUBSET S |->
                       IF Cardinality(s) = i THEN f[ch[s]] + g[s \ {ch[s]}] ELSE g[s]]]]
  OBVIOUS
<1>7. Stepwise(n, V, a, F)
  <2>1. a \in V
    BY <1>2, <1>5
  <2>2. ASSUME NEW i \in 1..n, NEW g \in V, NEW s \in SUBSET S
        PROVE  (IF Cardinality(s) = i THEN f[ch[s]] + g[s \ {ch[s]}] ELSE g[s]) \in Nat
    <3>1. g \in [SUBSET S -> Nat]
      BY <1>2
    <3>2. CASE Cardinality(s) = i
      <4>1. s # {}
        BY <3>2, FS_EmptySet
      <4>2. f[ch[s]] \in Nat /\ s \ {ch[s]} \in SUBSET S
        BY <1>4, <4>1
      <4>3. g[s \ {ch[s]}] \in Nat
        BY <3>1, <4>2
      <4> QED
        BY <3>2, <4>2, <4>3
    <3>3. CASE Cardinality(s) # i
      BY <3>1, <3>3
    <3> QED
      BY <3>2, <3>3
  <2>3. ASSUME NEW i \in 1..n, NEW g \in V
        PROVE  [s \in SUBSET S |->
                   IF Cardinality(s) = i THEN f[ch[s]] + g[s \ {ch[s]}] ELSE g[s]] \in V
    BY <1>2, <2>2
  <2>4. F \in [1..n -> [V -> V]]
    BY <1>6, <2>3
  <2> QED
    BY <1>1, <2>1, <2>4 DEF Stepwise
<1>8. PICK G : Follows(G, n, V, a, F)
  BY <1>7, RecursionExists
<1>9. /\ G \in [0..n -> V] /\ G[0] = a
      /\ \A i \in 1..n : G[i] = F[i][G[i - 1]]
  BY <1>8 DEF Follows
<1>10. \A i \in 1..n : \A s \in SUBSET S :
           G[i][s] = IF Cardinality(s) = i THEN f[ch[s]] + G[i - 1][s \ {ch[s]}] ELSE G[i - 1][s]
  <2>1. \A i \in 1..n : G[i - 1] \in V
    BY <1>9
  <2>2. \A i \in 1..n : G[i] = [s \in SUBSET S |->
            IF Cardinality(s) = i THEN f[ch[s]] + G[i - 1][s \ {ch[s]}] ELSE G[i - 1][s]]
    BY <1>6, <1>9, <2>1
  <2> QED
    BY <2>2
\* From the size of a set on, its value stays.
<1>11. \A s \in SUBSET S : Cardinality(s) \in 0..n
  BY <1>0, <1>1, FS_Subset, FS_CardinalityType
<1>12. ASSUME NEW s \in SUBSET S
       PROVE  \A i \in 0..n : Cardinality(s) <= i => G[i][s] = G[Cardinality(s)][s]
  <2>1. PICK flat : flat = {i \in 0..n : Cardinality(s) <= i => G[i][s] = G[Cardinality(s)][s]}
    OBVIOUS
  <2>2. PICK h : h = [i \in 0..n |-> i]
    OBVIOUS
  <2>3. Cardinality(s) \in 0..n
    BY <1>11
  <2>4. h[0] \in flat
    BY <2>1, <2>2, <2>3
  <2>5. \A i \in 1..n : h[i - 1] \in flat => h[i] \in flat
    <3>1. SUFFICES ASSUME NEW i \in 1..n, h[i - 1] \in flat PROVE h[i] \in flat
      OBVIOUS
    <3>2. h[i] = i /\ h[i - 1] = i - 1
      BY <2>2
    <3>3. CASE Cardinality(s) <= i - 1
      <4>0. Cardinality(s) # i
        BY <2>3, <3>3
      <4>1. G[i][s] = G[i - 1][s]
        BY <1>10, <4>0
      <4>2. G[i - 1][s] = G[Cardinality(s)][s]
        BY <2>1, <3>1, <3>2, <3>3
      <4> QED
        BY <2>1, <3>2, <4>1, <4>2
    <3>4. CASE ~(Cardinality(s) <= i - 1)
      <4>1. Cardinality(s) <= i => Cardinality(s) = i
        BY <2>3, <3>4
      <4> QED
        BY <2>1, <3>2, <4>1
    <3> QED
      BY <3>3, <3>4
  <2>6. \A i \in 0..n : h[i] \in flat
    BY <2>4, <2>5, Induction
  <2> QED
    BY <2>1, <2>2, <2>6
<1>13. ASSUME NEW s \in SUBSET S, s # {}
       PROVE  G[n][s] = f[ch[s]] + G[n][s \ {ch[s]}]
  <2>1. /\ s \ {ch[s]} \in SUBSET S
        /\ Cardinality(s) = Cardinality(s \ {ch[s]}) + 1
        /\ Cardinality(s \ {ch[s]}) \in Nat
    BY <1>4, <1>13
  <2>2. Cardinality(s) \in 1..n /\ Cardinality(s \ {ch[s]}) = Cardinality(s) - 1
    BY <1>11, <2>1
  <2>3. n \in 0..n /\ Cardinality(s) <= n /\ Cardinality(s \ {ch[s]}) <= n
    BY <1>1, <2>2
  <2>4. G[n][s] = G[Cardinality(s)][s]
    BY <1>12, <2>3
  <2>5. G[n][s \ {ch[s]}] = G[Cardinality(s) - 1][s \ {ch[s]}]
    BY <1>12, <2>1, <2>2, <2>3
  <2>6. G[Cardinality(s)][s] = f[ch[s]] + G[Cardinality(s) - 1][s \ {ch[s]}]
    BY <1>10, <2>2
  <2> QED
    BY <2>4, <2>5, <2>6
<1>14. G[n][{}] = 0
  <2>1. Cardinality({}) = 0 /\ {} \in SUBSET S /\ n \in 0..n
    BY <1>1, FS_EmptySet
  <2>2. G[n][{}] = G[0][{}]
    BY <1>1, <1>12, <2>1
  <2> QED
    BY <1>5, <1>9, <2>2
<1>15. PICK it : it = [s \in SUBSET S |-> G[n][s]]
  OBVIOUS
<1>16. \A s \in SUBSET S :
           it[s] = IF s = {} THEN 0
                   ELSE f[Some(s)] + it[s \ {Some(s)}]
  <2>1. SUFFICES ASSUME NEW s \in SUBSET S
                 PROVE  it[s] = IF s = {} THEN 0
                                ELSE f[Some(s)] + it[s \ {Some(s)}]
    OBVIOUS
  <2>2. CASE s = {}
    BY <1>14, <1>15, <2>2
  <2>3. CASE s # {}
    <3>1. ch[s] = Some(s)
      BY <1>3
    <3>2. s \ {ch[s]} \in SUBSET S
      OBVIOUS
    <3>3. it[s] = f[ch[s]] + it[s \ {ch[s]}]
      BY <1>13, <1>15, <2>3, <3>2
    <3> QED
      BY <2>3, <3>1, <3>3
  <2> QED
    BY <2>2, <2>3
<1>17. it = [s \in SUBSET S |->
               IF s = {} THEN 0 ELSE f[Some(s)] + it[s \ {Some(s)}]]
  BY <1>15, <1>16
<1> QED
  BY <1>17 DEF Adds

\* The sum is the value of that function at the whole set.
LEMMA SumIs == ASSUME NEW S, NEW f, Summable(f, S)
               PROVE  \E it : Adds(it, f, S) /\ Total(f, S) = it[S]
<1>1. \E it : Adds(it, f, S)
  BY SumExists
<1>2. Adds(CHOOSE it : Adds(it, f, S), f, S)
  BY <1>1
<1> QED
  BY <1>2 DEF Total

\* The chosen element first, then the rest.
LEMMA SumUnfolds ==
    ASSUME NEW S, NEW f, Summable(f, S), NEW it, Adds(it, f, S)
    PROVE  /\ \A s \in SUBSET S :
                  it[s] = IF s = {} THEN 0
                          ELSE f[Some(s)] + it[s \ {Some(s)}]
           /\ \A s \in SUBSET S : it[s] \in Nat
<1>0. IsFiniteSet(S) /\ \A x \in S : f[x] \in Nat
  BY DEF Summable
<1>2. \A s \in SUBSET S :
          it[s] = IF s = {} THEN 0
                  ELSE f[Some(s)] + it[s \ {Some(s)}]
  <2>1. it = [s \in SUBSET S |->
                IF s = {} THEN 0
                ELSE f[Some(s)] + it[s \ {Some(s)}]]
    BY DEF Adds
  <2> QED
    BY <2>1
<1>3. PICK good : good = {s \in SUBSET S : it[s] \in Nat}
  OBVIOUS
<1>4. ASSUME NEW s \in SUBSET S,
             \A t \in SUBSET S : Cardinality(t) < Cardinality(s) => t \in good
      PROVE  s \in good
  <2>1. CASE s = {}
    <3>1. it[s] = 0
      BY <1>2, <2>1
    <3> QED
      BY <1>3, <3>1
  <2>2. CASE s # {}
    <3>1. PICK c : c = Some(s)
      OBVIOUS
    <3>2. /\ c \in s /\ s \ {c} \in SUBSET S
          /\ Cardinality(s) \in Nat /\ Cardinality(s \ {c}) \in Nat
          /\ Cardinality(s) = Cardinality(s \ {c}) + 1
      BY <1>0, <2>2, <3>1, ChosenOff
    <3>3. Cardinality(s \ {c}) < Cardinality(s)
      BY <3>2
    <3>4. s \ {c} \in good
      BY <1>4, <3>2, <3>3
    <3>5. it[s \ {c}] \in Nat /\ f[c] \in Nat
      BY <1>0, <1>3, <3>2, <3>4
    <3>6. it[s] = f[c] + it[s \ {c}]
      BY <1>2, <2>2, <3>1
    <3>7. it[s] \in Nat
      BY <3>5, <3>6
    <3> QED
      BY <1>3, <3>7
  <2> QED
    BY <2>1, <2>2
<1>5. \A s \in SUBSET S : s \in good
  BY <1>0, <1>4, SubsetInduction
<1> QED
  BY <1>2, <1>3, <1>5

\* The sum of a subset is the same, whatever it is a subset of.
LEMMA SumOfSubset ==
    ASSUME NEW S, NEW f, Summable(f, S), NEW T \in SUBSET S, NEW it, Adds(it, f, S)
    PROVE  it[T] = Total(f, T)
<1>0. Summable(f, T) /\ IsFiniteSet(T)
  BY FS_Subset DEF Summable
<1>1. PICK jt : Adds(jt, f, T) /\ Total(f, T) = jt[T]
  BY <1>0, SumIs
<1>2. PICK good : good = {s \in SUBSET T : it[s] = jt[s]}
  OBVIOUS
<1>3. \A s \in SUBSET S :
          it[s] = IF s = {} THEN 0
                  ELSE f[Some(s)] + it[s \ {Some(s)}]
  BY SumUnfolds
<1>4. \A s \in SUBSET T :
          jt[s] = IF s = {} THEN 0
                  ELSE f[Some(s)] + jt[s \ {Some(s)}]
  BY <1>0, <1>1, SumUnfolds
<1>5. ASSUME NEW s \in SUBSET T,
             \A t \in SUBSET T : Cardinality(t) < Cardinality(s) => t \in good
      PROVE  s \in good
  <2>0. s \in SUBSET S
    OBVIOUS
  <2>1. CASE s = {}
    <3>1. it[s] = 0 /\ jt[s] = 0
      BY <1>3, <1>4, <2>0, <2>1
    <3> QED
      BY <1>2, <3>1
  <2>2. CASE s # {}
    <3>1. PICK c : c = Some(s)
      OBVIOUS
    <3>2. /\ c \in s /\ s \ {c} \in SUBSET T
          /\ Cardinality(s) \in Nat /\ Cardinality(s \ {c}) \in Nat
          /\ Cardinality(s) = Cardinality(s \ {c}) + 1
      BY <1>0, <2>2, <3>1, ChosenOff
    <3>3. Cardinality(s \ {c}) < Cardinality(s)
      BY <3>2
    <3>4. s \ {c} \in good
      BY <1>5, <3>2, <3>3
    <3>5. it[s \ {c}] = jt[s \ {c}]
      BY <1>2, <3>4
    <3>6. it[s] = f[c] + it[s \ {c}]
      BY <1>3, <2>0, <2>2, <3>1
    <3>7. jt[s] = f[c] + jt[s \ {c}]
      BY <1>4, <2>2, <3>1
    <3>8. it[s] = jt[s]
      BY <3>5, <3>6, <3>7
    <3> QED
      BY <1>2, <3>8
  <2> QED
    BY <2>1, <2>2
<1>6. \A s \in SUBSET T : s \in good
  BY <1>0, <1>5, SubsetInduction
<1>7. T \in good
  BY <1>6
<1> QED
  BY <1>1, <1>2, <1>7

\* The sum is what it is whichever element comes first.
LEMMA SumWithout ==
    ASSUME NEW S, NEW f, Summable(f, S)
    PROVE  /\ Total(f, S) \in Nat
           /\ S = {} => Total(f, S) = 0
           /\ \A x \in S : Total(f, S) = f[x] + Total(f, S \ {x})
<1>0. IsFiniteSet(S) /\ \A x \in S : f[x] \in Nat
  BY DEF Summable
<1>1. PICK it : Adds(it, f, S) /\ Total(f, S) = it[S]
  BY SumIs
<1>2. /\ \A s \in SUBSET S :
            it[s] = IF s = {} THEN 0
                    ELSE f[Some(s)] + it[s \ {Some(s)}]
      /\ \A s \in SUBSET S : it[s] \in Nat
  BY <1>1, SumUnfolds
<1>3. \A s \in SUBSET S : it[s] = Total(f, s)
  BY <1>1, SumOfSubset
<1>4. PICK good : good = {s \in SUBSET S : \A x \in s : it[s] = f[x] + it[s \ {x}]}
  OBVIOUS
<1>5. ASSUME NEW s \in SUBSET S,
             \A t \in SUBSET S : Cardinality(t) < Cardinality(s) => t \in good
      PROVE  s \in good
  <2>1. SUFFICES ASSUME NEW x \in s PROVE it[s] = f[x] + it[s \ {x}]
    BY <1>4
  <2>2. PICK c : c = Some(s)
    OBVIOUS
  <2>3. /\ c \in s /\ s \ {c} \in SUBSET S
        /\ Cardinality(s) \in Nat /\ Cardinality(s \ {c}) \in Nat
        /\ Cardinality(s) = Cardinality(s \ {c}) + 1
    BY <1>0, <2>1, <2>2, ChosenOff
  <2>4. it[s] = f[c] + it[s \ {c}]
    BY <1>2, <2>1, <2>2
  <2>5. CASE x = c
    BY <2>4, <2>5
  <2>6. CASE x # c
    <3>1. IsFiniteSet(s)
      BY <1>0, FS_Subset
    <3>2. Cardinality(s \ {x}) = Cardinality(s) - 1
      BY <2>1, <3>1, FS_RemoveElement
    <3>3. Cardinality(s \ {x}) < Cardinality(s) /\ Cardinality(s \ {c}) < Cardinality(s)
      BY <2>3, <3>2
    <3>4. s \ {c} \in SUBSET S /\ s \ {x} \in SUBSET S
      OBVIOUS
    <3>5. s \ {c} \in good /\ s \ {x} \in good
      BY <1>5, <3>3, <3>4
    <3>6. PICK rest : rest = (s \ {c}) \ {x}
      OBVIOUS
    <3>7. rest = (s \ {x}) \ {c} /\ rest \in SUBSET S
      BY <3>6
    <3>8. it[s \ {c}] = f[x] + it[rest]
      BY <1>4, <2>1, <2>6, <3>5, <3>6
    <3>9. it[s \ {x}] = f[c] + it[rest]
      BY <1>4, <2>3, <2>6, <3>5, <3>7
    <3>10. f[c] \in Nat /\ f[x] \in Nat /\ it[rest] \in Nat
      BY <1>0, <1>2, <2>3, <3>7
    <3>11. PICK vc, vx, vr \in Nat : vc = f[c] /\ vx = f[x] /\ vr = it[rest]
      BY <3>10
    <3>12. it[s] = vc + (vx + vr) /\ it[s \ {x}] = vc + vr
      BY <2>4, <3>8, <3>9, <3>11
    <3>13. vc + (vx + vr) = vx + (vc + vr)
      OBVIOUS
    <3> QED
      BY <3>11, <3>12, <3>13
  <2> QED
    BY <2>5, <2>6
<1>6. \A s \in SUBSET S : s \in good
  BY <1>0, <1>5, SubsetInduction
<1>7. \A x \in S : it[S] = f[x] + it[S \ {x}]
  BY <1>4, <1>6
<1>8. \A x \in S : it[S \ {x}] = Total(f, S \ {x})
  BY <1>3
<1> QED
  BY <1>1, <1>2, <1>7, <1>8

\* Functions that agree on a set have the same sum over it.
LEMMA SumSame ==
    ASSUME NEW S, NEW f, NEW g, Summable(f, S), \A x \in S : g[x] = f[x]
    PROVE  Total(g, S) = Total(f, S)
<1>0. Summable(g, S) /\ IsFiniteSet(S)
  BY DEF Summable
<1>1. PICK it : Adds(it, f, S) /\ Total(f, S) = it[S]
  BY SumIs
<1>2. \A s \in SUBSET S : s # {} => Some(s) \in S
  BY <1>0, ChosenOff
<1>3. Adds(it, g, S)
  <2>1. it = [s \in SUBSET S |-> IF s = {} THEN 0 ELSE f[Some(s)] + it[s \ {Some(s)}]]
    BY <1>1 DEF Adds
  <2>2. \A s \in SUBSET S : (IF s = {} THEN 0 ELSE f[Some(s)] + it[s \ {Some(s)}])
                          = (IF s = {} THEN 0 ELSE g[Some(s)] + it[s \ {Some(s)}])
    BY <1>2
  <2>3. it = [s \in SUBSET S |-> IF s = {} THEN 0 ELSE g[Some(s)] + it[s \ {Some(s)}]]
    BY <2>1, <2>2
  <2> QED
    BY <2>3 DEF Adds
<1>4. S \in SUBSET S
  OBVIOUS
<1>5. it[S] = Total(g, S)
  BY <1>0, <1>3, <1>4, SumOfSubset
<1> QED
  BY <1>1, <1>5

\* The sum of a part is not larger than that of the whole.
LEMMA SumOfPart ==
    ASSUME NEW S, NEW f, Summable(f, S), NEW part \in SUBSET S
    PROVE  Total(f, part) <= Total(f, S)
<1>0. IsFiniteSet(S)
  BY DEF Summable
<1>1. \A s \in SUBSET S : Summable(f, s)
  BY FS_Subset DEF Summable
<1>2. PICK good : good = {s \in SUBSET S : \A t \in SUBSET s : Total(f, t) <= Total(f, s)}
  OBVIOUS
<1>3. ASSUME NEW s \in SUBSET S,
             \A t \in SUBSET S : Cardinality(t) < Cardinality(s) => t \in good
      PROVE  s \in good
  <2>1. SUFFICES ASSUME NEW t \in SUBSET s PROVE Total(f, t) <= Total(f, s)
    BY <1>2
  <2>2. Total(f, s) \in Nat
    BY <1>1, SumWithout
  <2>3. CASE t = s
    BY <2>2, <2>3
  <2>4. CASE t # s
    <3>1. PICK x \in s : x \notin t
      BY <2>4
    <3>2. s \ {x} \in SUBSET S /\ t \in SUBSET (s \ {x})
      BY <3>1
    <3>3. IsFiniteSet(s) /\ Cardinality(s) \in Nat
      BY <1>0, FS_Subset, FS_CardinalityType
    <3>4. Cardinality(s \ {x}) = Cardinality(s) - 1
      BY <3>1, <3>3, FS_RemoveElement
    <3>5. Cardinality(s \ {x}) < Cardinality(s)
      BY <3>3, <3>4
    <3>6. s \ {x} \in good
      BY <1>3, <3>2, <3>5
    <3>7. Total(f, t) <= Total(f, s \ {x})
      BY <1>2, <3>2, <3>6
    <3>8. Summable(f, s) /\ Summable(f, s \ {x}) /\ Summable(f, t)
      BY <1>1, <3>2
    <3>9. Total(f, s) = f[x] + Total(f, s \ {x})
      BY <3>1, <3>8, SumWithout
    <3>10. Total(f, s \ {x}) \in Nat /\ Total(f, t) \in Nat
      BY <3>8, SumWithout
    <3>11. f[x] \in Nat
      BY <3>1 DEF Summable
    <3>12. PICK vx, vs, vt \in Nat : vx = f[x] /\ vs = Total(f, s \ {x}) /\ vt = Total(f, t)
      BY <3>10, <3>11
    <3> QED
      BY <3>7, <3>9, <3>12
  <2> QED
    BY <2>3, <2>4
<1>4. \A s \in SUBSET S : s \in good
  BY <1>0, <1>3, SubsetInduction
<1> QED
  BY <1>2, <1>4

\* What is added to one value is added to the sum.
LEMMA SumChanged ==
    ASSUME NEW S, NEW f, NEW g, Summable(f, S), NEW x \in S, NEW d \in Nat, g[x] = f[x] + d,
           \A y \in S : y # x => g[y] = f[y]
    PROVE  Total(g, S) = Total(f, S) + d
<1>0. f[x] \in Nat /\ S \ {x} \in SUBSET S
  BY DEF Summable
<1>1. Summable(g, S) /\ Summable(f, S \ {x})
  BY <1>0, FS_Subset DEF Summable
<1>2. Total(g, S \ {x}) = Total(f, S \ {x})
  BY <1>1, SumSame
<1>3. Total(f, S) = f[x] + Total(f, S \ {x}) /\ Total(g, S) = g[x] + Total(g, S \ {x})
  BY <1>1, SumWithout
<1>4. Total(f, S \ {x}) \in Nat
  BY <1>1, SumWithout
<1>5. PICK v, w \in Nat : v = f[x] /\ w = Total(f, S \ {x})
  BY <1>0, <1>4
<1>6. Total(f, S) = v + w /\ Total(g, S) = (v + d) + w
  BY <1>2, <1>3, <1>5
<1> QED
  BY <1>6

-----------------------------------------------------------------------------
(***************************************************************************)
(* The places of the elements of a finite set under a total order.         *)
(***************************************************************************)
TotalOrder(R, S) ==
    /\ \A b \in S : <<b, b>> \notin R
    /\ \A b, c \in S : b # c => <<b, c>> \in R \/ <<c, b>> \in R
    /\ \A b, c, e \in S : <<b, c>> \in R /\ <<c, e>> \in R => <<b, e>> \in R

\* For every place there is an element that so many are ahead of.
LEMMA EveryPlaceTaken ==
    ASSUME NEW S, NEW R, IsFiniteSet(S), TotalOrder(R, S), NEW i \in 1..Cardinality(S)
    PROVE  \E b \in S : Cardinality({c \in S : <<c, b>> \in R}) + 1 = i
<1>1. PICK n \in Nat : n = Cardinality(S)
  BY FS_CardinalityType
<1>2. PICK front : front = [b \in S |-> {c \in S : <<c, b>> \in R}]
  OBVIOUS
<1>3. PICK place : place = [b \in S |-> Cardinality(front[b])]
  OBVIOUS
<1>4. ASSUME NEW b \in S
      PROVE  IsFiniteSet(front[b]) /\ Cardinality(front[b]) \in Nat /\ place[b] \in 0..(n - 1)
  <2>1. front[b] \subseteq S /\ b \notin front[b]
    BY <1>2 DEF TotalOrder
  <2>2. front[b] \in SUBSET (S \ {b}) /\ front[b] \in SUBSET S
    BY <2>1
  <2>3. IsFiniteSet(S \ {b}) /\ Cardinality(S \ {b}) = n - 1
    BY <1>1, FS_RemoveElement
  <2>4. IsFiniteSet(front[b]) /\ Cardinality(front[b]) \in Nat
    BY <2>2, FS_Subset, FS_CardinalityType
  <2>5. Cardinality(front[b]) <= Cardinality(S \ {b})
    BY <2>2, <2>3, FS_Subset
  <2>6. place[b] = Cardinality(front[b])
    BY <1>3
  <2> QED
    BY <1>1, <2>3, <2>4, <2>5, <2>6
<1>5. ASSUME NEW b \in S, NEW c \in S, <<b, c>> \in R PROVE place[b] < place[c]
  <2>1. b \in front[c] /\ b \notin front[b]
    BY <1>2, <1>5 DEF TotalOrder
  <2>2. front[b] \subseteq front[c]
    BY <1>2, <1>5 DEF TotalOrder
  <2>3. front[b] \in SUBSET (front[c] \ {b})
    BY <2>1, <2>2
  <2>4. IsFiniteSet(front[c]) /\ Cardinality(front[c]) \in Nat /\ Cardinality(front[b]) \in Nat
    BY <1>4
  <2>5. IsFiniteSet(front[c] \ {b}) /\ Cardinality(front[c] \ {b}) = Cardinality(front[c]) - 1
    BY <2>1, <2>4, FS_RemoveElement
  <2>6. Cardinality(front[b]) <= Cardinality(front[c] \ {b})
    BY <2>3, <2>5, FS_Subset
  <2>7. Cardinality(front[b]) < Cardinality(front[c])
    BY <2>4, <2>5, <2>6
  <2>8. place[b] = Cardinality(front[b]) /\ place[c] = Cardinality(front[c])
    BY <1>3
  <2> QED
    BY <2>7, <2>8
<1>6. \A b, c \in S : b # c => place[b] # place[c]
  <2>1. SUFFICES ASSUME NEW b \in S, NEW c \in S, b # c PROVE place[b] # place[c]
    OBVIOUS
  <2>2. place[b] \in Nat /\ place[c] \in Nat
    BY <1>1, <1>4
  <2>3. place[b] < place[c] \/ place[c] < place[b]
    BY <1>5, <2>1 DEF TotalOrder
  <2> QED
    BY <2>2, <2>3
<1>7. \E b \in S : place[b] = i - 1
  <2>1. SUFFICES ASSUME \A b \in S : place[b] # i - 1 PROVE FALSE
    OBVIOUS
  <2>0. PICK span : span = 0..(n - 1)
    OBVIOUS
  <2>2. PICK seats : seats = span \ {i - 1}
    OBVIOUS
  <2>3. place \in [S -> seats]
    BY <1>3, <1>4, <2>0, <2>1, <2>2
  <2>4. IsFiniteSet(span) /\ Cardinality(span) = n
    <3>1. 0 \in Int /\ n - 1 \in Int /\ i \in 1..n
      BY <1>1
    <3>2. /\ IsFiniteSet(0..(n - 1))
          /\ Cardinality(0..(n - 1)) = IF 0 > n - 1 THEN 0 ELSE (n - 1) - 0 + 1
      BY <3>1, FS_Interval
    <3> QED
      BY <2>0, <3>1, <3>2
  <2>5. i - 1 \in span
    BY <1>1, <2>0
  <2>6. IsFiniteSet(seats) /\ Cardinality(seats) = n - 1
    BY <2>2, <2>4, <2>5, FS_RemoveElement
  <2>7. Cardinality(seats) < Cardinality(S)
    BY <1>1, <2>6
  <2>8. \E b, c \in S : b # c /\ place[b] = place[c]
    BY <2>3, <2>6, <2>7, FS_PigeonHole
  <2> QED
    BY <1>6, <2>8
<1>8. PICK b \in S : place[b] = i - 1
  BY <1>7
<1>9. place[b] = Cardinality({c \in S : <<c, b>> \in R})
  BY <1>2, <1>3
<1>10. place[b] + 1 = i
  BY <1>1, <1>8
<1>11. Cardinality({c \in S : <<c, b>> \in R}) + 1 = i
  BY <1>9, <1>10
<1> QED
  BY <1>11, Zenon

-----------------------------------------------------------------------------
(***************************************************************************)
(* The part of a sequence that is in a set.                                *)
(***************************************************************************)
Parts(g, seq, part) ==
    g = [i \in 0..Len(seq) |->
            IF i = 0 THEN <<>>
            ELSE IF seq[i] \in part THEN Append(g[i - 1], seq[i]) ELSE g[i - 1]]
Part(seq, part) == (CHOOSE g : Parts(g, seq, part))[Len(seq)]

\* It is a sequence of elements that the sequence and the set have in common.
LEMMA PartInBoth ==
    ASSUME NEW S, NEW seq \in Seq(S), NEW part
    PROVE  Part(seq, part) \in Seq(S \cap part)
<1>1. PICK n \in Nat : n = Len(seq)
  OBVIOUS
<1>2. PICK V : V = Seq(S \cap part)
  OBVIOUS
<1>3. <<>> \in V
  BY <1>2
<1>4. \A i \in 1..n : seq[i] \in S
  BY <1>1
<1>5. ASSUME NEW i \in 1..n, NEW g \in V, seq[i] \in part PROVE Append(g, seq[i]) \in V
  <2>1. seq[i] \in S \cap part
    BY <1>4, <1>5
  <2>2. g \in Seq(S \cap part)
    BY <1>2
  <2>3. Append(g, seq[i]) \in Seq(S \cap part)
    BY <2>1, <2>2
  <2> QED
    BY <1>2, <2>3
<1>6. \E g : Parts(g, seq, part)
  <2>1. PICK F : F = [i \in 1..n |-> [g \in V |->
                        IF seq[i] \in part THEN Append(g, seq[i]) ELSE g]]
    OBVIOUS
  <2>2. PICK a : a = <<>>
    OBVIOUS
  <2>3. Stepwise(n, V, a, F)
    <3>1. \A i \in 1..n : \A g \in V :
              (IF seq[i] \in part THEN Append(g, seq[i]) ELSE g) \in V
      BY <1>5
    <3>2. F \in [1..n -> [V -> V]]
      BY <2>1, <3>1
    <3> QED
      BY <1>1, <1>3, <2>2, <3>2 DEF Stepwise
  <2>4. PICK g : Follows(g, n, V, a, F)
    BY <2>3, RecursionExists
  <2>5. g \in [0..n -> V] /\ g[0] = <<>> /\ \A i \in 1..n : g[i] = F[i][g[i - 1]]
    BY <2>2, <2>4 DEF Follows
  <2>6. \A i \in 1..n : g[i] = IF seq[i] \in part THEN Append(g[i - 1], seq[i]) ELSE g[i - 1]
    <3>1. \A i \in 1..n : g[i - 1] \in V
      BY <2>5
    <3> QED
      BY <2>1, <2>5, <3>1
  <2>7. \A i \in 0..n :
            g[i] = IF i = 0 THEN <<>>
                   ELSE IF seq[i] \in part THEN Append(g[i - 1], seq[i]) ELSE g[i - 1]
    <3>1. \A i \in 0..n : i # 0 => i \in 1..n
      OBVIOUS
    <3> QED
      BY <2>5, <2>6, <3>1
  <2>8. g = [i \in 0..n |->
                IF i = 0 THEN <<>>
                ELSE IF seq[i] \in part THEN Append(g[i - 1], seq[i]) ELSE g[i - 1]]
    BY <2>5, <2>7
  <2>9. Parts(g, seq, part)
    BY <1>1, <2>8 DEF Parts
  <2> QED
    BY <2>9
<1>7. PICK h : h = CHOOSE g : Parts(g, seq, part)
  OBVIOUS
<1>8. Parts(h, seq, part)
  BY <1>6, <1>7
<1>9. h = [i \in 0..n |->
              IF i = 0 THEN <<>>
              ELSE IF seq[i] \in part THEN Append(h[i - 1], seq[i]) ELSE h[i - 1]]
  BY <1>1, <1>8 DEF Parts
<1>10. 0 \in 0..n
  OBVIOUS
<1>11. h[0] \in V
  BY <1>3, <1>9, <1>10
<1>12. \A i \in 1..n : h[i] = IF seq[i] \in part THEN Append(h[i - 1], seq[i]) ELSE h[i - 1]
  <2>1. \A i \in 1..n : i \in 0..n /\ i # 0
    OBVIOUS
  <2> QED
    BY <1>9, <2>1
<1>13. \A i \in 1..n : h[i - 1] \in V => h[i] \in V
  BY <1>5, <1>12
<1>14. \A i \in 0..n : h[i] \in V
  BY <1>11, <1>13, Induction
<1>15. h[n] \in V
  BY <1>14
<1> QED
  BY <1>1, <1>2, <1>7, <1>15 DEF Part

-----------------------------------------------------------------------------
(***************************************************************************)
(* Skills.                                                                 *)
(***************************************************************************)
RevOrNone == K!Rev \cup {None}
Candidate == [state : {"discovered", "update_available", "quarantined", "approved", "rejected"},
              cur : RevOrNone, pin : RevOrNone, prev : RevOrNone, sum : RevOrNone,
              scripts : BOOLEAN, injected : BOOLEAN,
              verdict : {"none", "recommend", "review", "rejected"}]
Manifested == [rev : RevOrNone, content : K!Rev, scripts : BOOLEAN, reviewed : BOOLEAN,
               enabled : BOOLEAN]
BackedUp   == [content : K!Rev, rev : RevOrNone]
Passages   == [step : {"idle", "quarantine", "evaluate", "decide", "backup", "unlist", "delete",
                       "purge", "copy", "list", "settle"},
               skill : Skill \cup {None}, auto : BOOLEAN, back : BOOLEAN]

\* A mirror holds some revision, what a revision is like is known, and no acquisition of a cycle
\* runs beside a command.
Mirrored ==
    /\ MaxRev \in Nat \ {0} /\ None \notin K!Rev \cup Candidate \cup Manifested \cup BackedUp
    /\ RevisionKind \in [Skill \X K!Rev -> {"clean", "scripts", "injected", "hooked"}]
    /\ "race" \notin Env

Vetted(s, c) == <<s, c>> \in approved \/ RevisionKind[<<s, c>>] = "clean"

\* What is listed and what is kept for a rollback is vetted, and is what the directories hold;
\* what was installed is listed or kept.
StockInv ==
    /\ mirror \in [Skill -> K!Rev]
    /\ catalog \in [Skill -> Candidate \cup {None}]
    /\ quarantine \in [Skill -> RevOrNone] /\ installed \in [Skill -> RevOrNone]
    /\ registry \in [Skill -> Manifested \cup {None}] /\ backup \in [Skill -> BackedUp \cup {None}]
    /\ \A s \in Skill : registry[s] # None =>
           Vetted(s, registry[s].content) /\ installed[s] = registry[s].content
    /\ \A s \in Skill : backup[s] # None => Vetted(s, backup[s].content)
    /\ owned \subseteq Skill
    /\ \A s \in owned : registry[s] # None \/ backup[s] # None

\* What an installation goes on with is vetted, at whatever step it is.
Underway(j) == LET s == j.skill IN
    /\ j.step = "idle" => j = K!Idle
    /\ j.step # "idle" => s \in Skill
    /\ j.step \in {"quarantine", "evaluate", "decide"} =>
           j.auto /\ ~j.back /\ catalog[s] # None /\ registry[s] = None
    /\ j.step \in {"evaluate", "decide"} =>
           /\ quarantine[s] # None
           /\ catalog[s].scripts = (RevisionKind[<<s, quarantine[s]>>] = "scripts")
           /\ catalog[s].injected = (RevisionKind[<<s, quarantine[s]>>] = "injected")
    /\ j.step = "backup" => ~j.back /\ (j.auto => registry[s] = None)
    /\ j.step = "unlist" => backup[s] # None
    /\ j.step \in {"delete", "purge"} => registry[s] = None
    /\ j.step \in {"backup", "unlist", "purge", "copy"} /\ ~j.back =>
           catalog[s] # None /\ quarantine[s] # None /\ Vetted(s, quarantine[s])
    /\ j.back => backup[s] # None
    /\ j.step = "list" => /\ installed[s] # None /\ Vetted(s, installed[s])
                          /\ ~j.back => catalog[s] # None

JobsInv ==
    /\ kJob \in [K!Actor -> Passages]
    /\ \A a \in K!Actor : Underway(kJob[a])
    /\ \A a, b \in K!Actor : a # b => kJob[a] = K!Idle \/ kJob[b] = K!Idle

MarketInv == StockInv /\ JobsInv

\* Who is idle is under way to nothing.
LEMMA IdleIsFine == K!Idle \in Passages /\ Underway(K!Idle) /\ K!Idle.step = "idle"
  BY DEF K!Idle, Passages, Underway

LEMMA MarketInit == Mirrored /\ K!Init => MarketInv
<1> SUFFICES ASSUME Mirrored, K!Init PROVE MarketInv
  OBVIOUS
<1>1. 1 \in K!Rev
  BY DEF Mirrored, K!Rev
<1>2. StockInv
  BY <1>1 DEF K!Init, StockInv, RevOrNone
<1>3. JobsInv
  BY IdleIsFine DEF K!Init, JobsInv
<1> QED
  BY <1>2, <1>3 DEF MarketInv

\* A command finds nothing underway, and leaves nothing or one thing.
LEMMA CommandAlone ==
    ASSUME Mirrored, JobsInv, NEW a \in K!Actor, K!Free(a)
    PROVE  /\ kJob' = kJob => JobsInv'
           /\ \A j \in Passages : kJob' = [kJob EXCEPT ![a] = j] /\ Underway(j)' => JobsInv'
<1>1. \A b \in K!Actor : kJob[b] = K!Idle
  BY DEF K!Free, Mirrored
<1>2. Underway(K!Idle)'
  BY DEF K!Idle, Underway
<1> QED
  BY <1>1, <1>2, IdleIsFine DEF JobsInv

\* A step of an installation leaves the other actor idle.
LEMMA StepAlone ==
    ASSUME JobsInv, NEW a \in K!Actor, kJob[a].step # "idle",
           NEW j \in Passages, kJob' = [kJob EXCEPT ![a] = j], Underway(j)'
    PROVE  JobsInv'
<1>1. \A b \in K!Actor : b # a => kJob[b] = K!Idle
  BY IdleIsFine DEF JobsInv
<1>2. Underway(K!Idle)'
  BY DEF K!Idle, Underway
<1> QED
  BY <1>1, <1>2, IdleIsFine DEF JobsInv

\* A step of an acquisition or installation, as it goes on or ends.
LEMMA StepShape ==
    ASSUME JobsInv, NEW a \in K!Actor
    PROVE  /\ kJob[a] \in Passages /\ Underway(kJob[a])
           /\ \A step \in {"quarantine", "evaluate", "decide", "backup", "unlist",
                           "delete", "purge",
                           "copy", "list", "settle"} :
                  /\ [kJob[a] EXCEPT !.step = step] \in Passages
                  /\ K!At(a, step) => kJob' = [kJob EXCEPT ![a] = [kJob[a] EXCEPT !.step = step]]
           /\ K!Ends(a) => kJob' = [kJob EXCEPT ![a] = K!Idle]
<1>1. kJob[a] \in Passages /\ Underway(kJob[a])
  BY DEF JobsInv
<1> QED
  BY <1>1 DEF Passages, K!At, K!Ends, JobsInv

\* What is discovered is a candidate.
LEMMA CandidatesStay ==
    ASSUME Mirrored, StockInv, NEW s \in Skill
    PROVE  /\ K!Fresh \in Candidate /\ K!Published(s) \in RevOrNone
           /\ K!Discovered(s) \in Candidate
           /\ \A r \in Candidate : K!Verdict(s, r) \in {"recommend", "review"}
<1>1. mirror[s] \in RevOrNone
  BY DEF StockInv, RevOrNone
<1>2. K!Fresh \in Candidate /\ K!Published(s) \in RevOrNone
  BY <1>1 DEF K!Fresh, K!Published, Candidate, RevOrNone
<1>3. PICK old \in Candidate : old = IF catalog[s] = None THEN K!Fresh ELSE catalog[s]
  BY <1>2 DEF StockInv
<1>4. K!Discovered(s) = [K!Fresh EXCEPT !.state = old.state, !.cur = mirror[s],
                             !.sum = K!Published(s), !.injected = old.injected,
                             !.verdict = old.verdict]
  BY <1>3 DEF K!Discovered
<1>5. K!Discovered(s) \in Candidate
  BY <1>1, <1>2, <1>3, <1>4 DEF Candidate
<1> QED
  BY <1>2, <1>5 DEF K!Verdict

\* quarantine, of a command or of an acquisition.
LEMMA QuarantinedIsKnown ==
    ASSUME Mirrored, StockInv, NEW s \in Skill, catalog[s] # None, K!Quarantined(s)
    PROVE  /\ catalog' \in [Skill -> Candidate \cup {None}]
           /\ quarantine' \in [Skill -> RevOrNone]
           /\ catalog'[s] # None
           /\ catalog'[s].state = "rejected" \/
              /\ quarantine'[s] # None
              /\ catalog'[s].scripts = (RevisionKind[<<s, quarantine'[s]>>] = "scripts")
              /\ catalog'[s].injected = (RevisionKind[<<s, quarantine'[s]>>] = "injected")
<1> DEFINE c == mirror[s]
           r == catalog[s]
<1>1. c \in K!Rev /\ r \in Candidate /\ c # None
  BY DEF StockInv, Mirrored
<1>2. CASE r.sum \notin {None, c}
  <2>1. PICK n : n = [r EXCEPT !.state = "rejected", !.verdict = "rejected", !.injected = FALSE]
    OBVIOUS
  <2>2. n \in Candidate /\ n.state = "rejected"
    BY <1>1, <2>1 DEF Candidate
  <2>3. quarantine' = [quarantine EXCEPT ![s] = None] /\ catalog' = [catalog EXCEPT ![s] = n]
    BY <1>2, <2>1 DEF K!Quarantined
  <2> QED
    BY <2>2, <2>3 DEF StockInv, RevOrNone, Mirrored
<1>3. CASE r.sum \in {None, c}
  <2> DEFINE scr == RevisionKind[<<s, c>>] = "scripts"
             inj == RevisionKind[<<s, c>>] = "injected"
  <2>1. PICK n : n = [r EXCEPT !.state = "quarantined", !.pin = r.cur, !.sum = c, !.scripts = scr,
                               !.injected = inj, !.verdict = "none"]
    OBVIOUS
  <2>2. scr \in BOOLEAN /\ inj \in BOOLEAN
    OBVIOUS
  <2>3. n \in Candidate /\ n.scripts = scr /\ n.injected = inj
    BY <1>1, <2>1, <2>2 DEF Candidate, RevOrNone
  <2>4. quarantine' = [quarantine EXCEPT ![s] = c] /\ catalog' = [catalog EXCEPT ![s] = n]
    BY <1>3, <2>1 DEF K!Quarantined
  <2>5. quarantine'[s] = c /\ catalog'[s] = n /\ n # None
    BY <2>3, <2>4 DEF StockInv, Mirrored
  <2>6. catalog' \in [Skill -> Candidate \cup {None}] /\ quarantine' \in [Skill -> RevOrNone]
    BY <1>1, <2>3, <2>4 DEF StockInv, RevOrNone
  <2> QED
    BY <1>1, <2>3, <2>5, <2>6
<1> QED
  BY <1>2, <1>3

\* Commands that only look at the mirror or the catalog keep what is installed.
LEMMA CommandsKeep ==
    ASSUME Mirrored, MarketInv,
           \/ K!Discover \/ K!CheckUpdates
           \/ \E s \in Skill : \/ K!MirrorAdvances(s) \/ K!Quarantine(s) \/ K!Evaluate(s)
                               \/ K!Reject(s) \/ K!Enable(s) \/ K!Acquire(s) \/ K!Approve(s)
                               \/ K!Rollback(s) \/ K!Remove(s)
    PROVE  MarketInv'
<1> USE DEF MarketInv
<1>0. {"admin", "cycle"} = K!Actor /\ None \notin Candidate
  BY DEF K!Actor, Mirrored
<1>1. CASE K!Discover
  <2>1. catalog' \in [Skill -> Candidate \cup {None}]
    BY <1>1, CandidatesStay DEF K!Discover, StockInv
  <2>2. StockInv'
    BY <1>1, <2>1 DEF K!Discover, K!dirs, K!hist, StockInv, Vetted
  <2> QED
    BY <1>0, <1>1, <2>2, CommandAlone DEF K!Discover
<1>2. CASE K!CheckUpdates
  <2>1. ASSUME NEW s \in Skill PROVE catalog'[s] \in Candidate \cup {None}
    <3>1. CASE registry[s] = None \/ registry[s].rev = mirror[s]
      BY <1>2, <3>1 DEF K!CheckUpdates, StockInv
    <3>2. CASE ~(registry[s] = None \/ registry[s].rev = mirror[s])
      <4>1. PICK old \in Candidate : old = IF catalog[s] = None THEN K!Fresh ELSE catalog[s]
        BY CandidatesStay DEF StockInv
      <4>2. catalog'[s] = [old EXCEPT !.state = "update_available", !.cur = mirror[s],
                              !.pin = None, !.prev = registry[s].rev, !.sum = K!Published(s)]
        BY <1>2, <3>2, <4>1 DEF K!CheckUpdates
      <4>3. mirror[s] \in RevOrNone /\ None \in RevOrNone /\ registry[s].rev \in RevOrNone
        BY <3>2 DEF StockInv, RevOrNone, Manifested
      <4>4. K!Published(s) \in RevOrNone
        BY CandidatesStay
      <4>5. catalog'[s] \in Candidate
        BY <4>1, <4>2, <4>3, <4>4 DEF Candidate
      <4> QED
        BY <4>5
    <3> QED
      BY <3>1, <3>2
  <2>2. catalog' \in [Skill -> Candidate \cup {None}]
    BY <1>2, <2>1 DEF K!CheckUpdates
  <2>3. StockInv'
    BY <1>2, <2>2 DEF K!CheckUpdates, K!dirs, K!hist, StockInv, Vetted
  <2> QED
    BY <1>0, <1>2, <2>3, CommandAlone DEF K!CheckUpdates
<1>3. ASSUME NEW s \in Skill, K!MirrorAdvances(s) PROVE MarketInv'
  <2>1. mirror' \in [Skill -> K!Rev]
    BY <1>3 DEF K!MirrorAdvances, StockInv, K!Rev, Mirrored
  <2> QED
    BY SMTT(30), <1>3, <2>1 DEF K!MirrorAdvances, K!dirs, K!hist, StockInv, JobsInv,
           Underway, Vetted
<1>4. ASSUME NEW s \in Skill, K!Quarantine(s) PROVE MarketInv'
  <2>1. catalog' \in [Skill -> Candidate \cup {None}] /\ quarantine' \in [Skill -> RevOrNone]
    BY <1>4, QuarantinedIsKnown DEF K!Quarantine
  <2>2. StockInv'
    BY <1>4, <2>1 DEF K!Quarantine, K!hist, StockInv, Vetted
  <2> QED
    BY <1>0, <1>4, <2>2, CommandAlone DEF K!Quarantine
<1>5. ASSUME NEW s \in Skill, K!Evaluate(s) PROVE MarketInv'
  <2>1. catalog[s] \in Candidate
    BY <1>5 DEF K!Evaluate, K!Pending, StockInv
  <2>2. K!Verdict(s, catalog[s]) \in {"recommend", "review"}
    BY <2>1, CandidatesStay
  <2>3. [catalog[s] EXCEPT !.verdict = K!Verdict(s, catalog[s])] \in Candidate
    BY <2>1, <2>2 DEF Candidate
  <2>4. StockInv'
    BY <1>5, <2>3 DEF K!Evaluate, K!dirs, K!hist, StockInv, Vetted
  <2> QED
    BY <1>0, <1>5, <2>4, CommandAlone DEF K!Evaluate
<1>6. ASSUME NEW s \in Skill, K!Reject(s) PROVE MarketInv'
  <2>1. catalog[s] \in Candidate
    BY <1>6 DEF K!Reject, StockInv
  <2>2. [catalog[s] EXCEPT !.state = "rejected"] \in Candidate
    BY <2>1 DEF Candidate
  <2>3. StockInv'
    BY <1>6, <2>2 DEF K!Reject, StockInv, Vetted, RevOrNone
  <2> QED
    BY <1>0, <1>6, <2>3, CommandAlone DEF K!Reject
<1>7. ASSUME NEW s \in Skill, K!Enable(s) PROVE MarketInv'
  <2>1. registry[s] \in Manifested /\ K!Intact(s) \in BOOLEAN
    BY <1>7 DEF K!Enable, StockInv, K!Intact
  <2>2. PICK m : m = [registry[s] EXCEPT !.enabled = K!Intact(s)]
    OBVIOUS
  <2>3. m \in Manifested /\ m.content = registry[s].content
    BY <2>1, <2>2 DEF Manifested
  <2>4. registry' = [registry EXCEPT ![s] = m]
    BY <1>7, <2>2 DEF K!Enable
  <2>5. m # None /\ registry[s] # None
    BY <1>7, <2>3 DEF K!Enable, Mirrored
  <2>6. StockInv'
    BY <1>7, <2>3, <2>4, <2>5 DEF K!Enable, K!hist, StockInv, Vetted
  <2> QED
    BY <1>0, <1>7, <2>6, CommandAlone DEF K!Enable
<1>8. ASSUME NEW s \in Skill, K!Acquire(s) PROVE MarketInv'
  <2>1. catalog' = [catalog EXCEPT ![s] = K!Discovered(s)] /\ K!Discovered(s) \in Candidate
    BY <1>8, CandidatesStay DEF K!Acquire
  <2>2. StockInv'
    BY <1>8, <2>1 DEF K!Acquire, K!dirs, K!hist, StockInv, Vetted
  <2>3. PICK j : j = [step |-> "quarantine", skill |-> s, auto |-> TRUE, back |-> FALSE]
    OBVIOUS
  <2>4. j \in Passages
    BY <2>3 DEF Passages
  <2>5. Underway(j)'
    BY <1>0, <1>8, <2>1, <2>3 DEF Underway, K!Acquire, K!dirs, StockInv
  <2> QED
    BY <1>0, <1>8, <2>2, <2>3, <2>4, <2>5, CommandAlone DEF K!Acquire
<1>9. ASSUME NEW s \in Skill, K!Approve(s) PROVE MarketInv'
  <2>1. approved \subseteq approved'
    BY <1>9 DEF K!Approve
  <2>2. StockInv'
    BY <1>9, <2>1 DEF K!Approve, K!dirs, StockInv, Vetted
  <2>3. PICK j : j = [step |-> "backup", skill |-> s, auto |-> FALSE, back |-> FALSE]
    OBVIOUS
  <2>4. j \in Passages
    BY <2>3 DEF Passages
  <2>5. Underway(j)'
    BY <1>9, <2>3 DEF Underway, K!Approve, K!Pending, K!dirs, Vetted
  <2> QED
    BY <1>0, <1>9, <2>2, <2>3, <2>4, <2>5, CommandAlone DEF K!Approve
<1>10. ASSUME NEW s \in Skill, K!Rollback(s) PROVE MarketInv'
  <2>1. StockInv'
    BY <1>10 DEF K!Rollback, K!dirs, K!hist, StockInv, Vetted
  <2>2. PICK j : j = [step |-> IF registry[s] = None THEN "copy" ELSE "unlist",
                      skill |-> s, auto |-> FALSE, back |-> TRUE]
    OBVIOUS
  <2>3. j \in Passages
    BY <2>2 DEF Passages
  <2>4. Underway(j)'
    BY <1>10, <2>2 DEF Underway, K!Rollback, K!dirs
  <2> QED
    BY <1>0, <1>10, <2>1, <2>2, <2>3, <2>4, CommandAlone DEF K!Rollback
<1>11. ASSUME NEW s \in Skill, K!Remove(s) PROVE MarketInv'
  <2>1. StockInv'
    BY <1>11 DEF K!Remove, StockInv, Vetted
  <2>2. PICK j : j = [K!Idle EXCEPT !.step = "delete", !.skill = s]
    OBVIOUS
  <2>3. j \in Passages /\ j.step = "delete" /\ j.skill = s /\ ~j.back
    BY <2>2 DEF Passages, K!Idle
  <2>4. Underway(j)'
    BY <1>11, <2>3 DEF Underway, K!Remove, StockInv
  <2> QED
    BY <1>0, <1>11, <2>1, <2>2, <2>3, <2>4, CommandAlone DEF K!Remove
<1> QED
  BY <1>1, <1>2, <1>3, <1>4, <1>5, <1>6, <1>7, <1>8, <1>9, <1>10, <1>11

\* An acquisition that ends leaves the stock as it is.
LEMMA EndKeeps ==
    ASSUME JobsInv, NEW a \in K!Actor, kJob[a].step # "idle", K!Ends(a), StockInv'
    PROVE  MarketInv'
<1>1. Underway(K!Idle)'
  BY DEF K!Idle, Underway
<1> QED
  BY <1>1, IdleIsFine, StepAlone, StepShape DEF MarketInv

\* A job that goes on: its record is the same but for the step.
LEMMA NextStep ==
    ASSUME JobsInv, NEW a \in K!Actor,
           NEW step \in {"quarantine", "evaluate", "decide", "backup", "unlist",
                           "delete", "purge",
                        "copy", "list", "settle"},
           K!At(a, step)
    PROVE  \E j \in Passages :
              /\ kJob' = [kJob EXCEPT ![a] = j] /\ j.step = step
              /\ j.skill = kJob[a].skill /\ j.auto = kJob[a].auto /\ j.back = kJob[a].back
<1>1. kJob[a] \in Passages
  BY DEF JobsInv
<1>2. PICK j : j = [kJob[a] EXCEPT !.step = step]
  OBVIOUS
<1>3. j \in Passages /\ j.step = step
      /\ j.skill = kJob[a].skill /\ j.auto = kJob[a].auto /\ j.back = kJob[a].back
  BY <1>1, <1>2 DEF Passages
<1>4. kJob' = [kJob EXCEPT ![a] = j]
  BY <1>2 DEF K!At, JobsInv
<1> QED
  BY <1>3, <1>4

\* Each step of an installation keeps what is vetted, and a copy of what it replaces.
LEMMA InstallationKeeps ==
    ASSUME Mirrored, MarketInv, NEW a \in K!Actor,
           \/ K!AcquireQuarantine(a) \/ K!AcquireEvaluate(a) \/ K!AutoApprove(a)
           \/ K!Backup(a) \/ K!Unlist(a) \/ K!Delete(a) \/ K!Copy(a) \/ K!List(a)
           \/ K!Settle(a) \/ K!Crash(a)
    PROVE  MarketInv'
<1> USE DEF MarketInv
<1> DEFINE s == kJob[a].skill
<1>0. /\ None \notin K!Rev \cup Candidate \cup Manifested \cup BackedUp
      /\ kJob[a] \in Passages /\ Underway(kJob[a])
      /\ kJob[a].step # "idle" => s \in Skill
  BY StepShape DEF Mirrored, Underway
<1>1. CASE K!AcquireQuarantine(a)
  <2>1. kJob[a].step = "quarantine" /\ s \in Skill /\ catalog[s] # None /\ K!Quarantined(s)
    BY <1>0, <1>1 DEF K!AcquireQuarantine, Underway
  <2>2. /\ catalog' \in [Skill -> Candidate \cup {None}] /\ quarantine' \in [Skill -> RevOrNone]
        /\ catalog'[s] # None
        /\ catalog'[s].state = "rejected" \/
           /\ quarantine'[s] # None
           /\ catalog'[s].scripts = (RevisionKind[<<s, quarantine'[s]>>] = "scripts")
           /\ catalog'[s].injected = (RevisionKind[<<s, quarantine'[s]>>] = "injected")
    BY <2>1, QuarantinedIsKnown
  <2>3. StockInv'
    BY <1>1, <2>2 DEF K!AcquireQuarantine, K!hist, StockInv, Vetted
  <2>4. CASE catalog'[s].state = "rejected"
    BY <1>1, <2>1, <2>3, <2>4, EndKeeps DEF K!AcquireQuarantine
  <2>5. CASE catalog'[s].state # "rejected"
    <3>1. K!At(a, "evaluate") /\ registry' = registry
      BY <1>1, <2>5 DEF K!AcquireQuarantine
    <3>2. PICK j \in Passages :
              /\ kJob' = [kJob EXCEPT ![a] = j] /\ j.step = "evaluate"
              /\ j.skill = s /\ j.auto = kJob[a].auto /\ j.back = kJob[a].back
      BY <3>1, NextStep
    <3>3. kJob[a].auto /\ ~kJob[a].back /\ registry[s] = None
      BY <1>0, <2>1 DEF Underway
    <3> HIDE DEF s
    <3>4. Underway(j)'
      BY <2>1, <2>2, <2>5, <3>1, <3>2, <3>3 DEF Underway
    <3> QED
      BY <2>1, <2>3, <3>2, <3>4, StepAlone
  <2> QED
    BY <2>4, <2>5
<1>2. CASE K!AcquireEvaluate(a)
  <2>1. /\ kJob[a].step = "evaluate" /\ s \in Skill
        /\ kJob[a].auto /\ ~kJob[a].back /\ catalog[s] # None /\ registry[s] = None
        /\ quarantine[s] # None
        /\ catalog[s].scripts = (RevisionKind[<<s, quarantine[s]>>] = "scripts")
        /\ catalog[s].injected = (RevisionKind[<<s, quarantine[s]>>] = "injected")
    BY <1>0, <1>2 DEF K!AcquireEvaluate, Underway
  <2>2. CASE ~K!Pending(s)
    <3>1. StockInv'
      BY <1>2, <2>2 DEF K!AcquireEvaluate, K!dirs, K!hist, StockInv, Vetted
    <3> QED
      BY <1>2, <2>1, <2>2, <3>1, EndKeeps DEF K!AcquireEvaluate
  <2>3. CASE K!Pending(s)
    <3>1. PICK n : n = [catalog[s] EXCEPT !.verdict = K!Verdict(s, catalog[s])]
      OBVIOUS
    <3>2. catalog[s] \in Candidate
      BY <2>1 DEF StockInv
    <3>3. K!Verdict(s, catalog[s]) \in {"recommend", "review"}
      BY <2>1, <3>2, CandidatesStay
    <3>4. n \in Candidate /\ n.scripts = catalog[s].scripts /\ n.injected = catalog[s].injected
      BY <3>1, <3>2, <3>3 DEF Candidate
    <3>5. /\ catalog' = [catalog EXCEPT ![s] = n] /\ K!At(a, "decide")
          /\ UNCHANGED <<mirror, quarantine, registry, installed, backup, approved, refused, owned>>
      BY <1>2, <2>3, <3>1 DEF K!AcquireEvaluate, K!dirs, K!hist
    <3>6. StockInv'
      BY <3>4, <3>5 DEF StockInv, Vetted
    <3>7. PICK j \in Passages :
              /\ kJob' = [kJob EXCEPT ![a] = j] /\ j.step = "decide"
              /\ j.skill = s /\ j.auto = kJob[a].auto /\ j.back = kJob[a].back
      BY <3>5, NextStep
    <3>8. catalog'[s] = n /\ n # None
      BY <1>0, <2>1, <3>4, <3>5 DEF StockInv
    <3> HIDE DEF s
    <3>9. Underway(j)'
      BY <2>1, <3>4, <3>5, <3>7, <3>8 DEF Underway
    <3> QED
      BY <2>1, <3>6, <3>7, <3>9, StepAlone
  <2> QED
    BY <2>2, <2>3
<1>3. CASE K!AutoApprove(a)
  <2>1. /\ kJob[a].step = "decide" /\ s \in Skill
        /\ kJob[a].auto /\ ~kJob[a].back /\ catalog[s] # None /\ registry[s] = None
        /\ quarantine[s] # None
        /\ catalog[s].scripts = (RevisionKind[<<s, quarantine[s]>>] = "scripts")
        /\ catalog[s].injected = (RevisionKind[<<s, quarantine[s]>>] = "injected")
    BY <1>0, <1>3 DEF K!AutoApprove, Underway
  <2>2. StockInv' /\ UNCHANGED <<catalog, quarantine, registry, approved>>
    BY <1>3 DEF K!AutoApprove, K!dirs, K!hist, StockInv, Vetted
  <2> DEFINE accepted == /\ catalog[s].state = "quarantined" /\ catalog[s].prev = None
                         /\ K!Level(s, catalog[s]) = 2
  <2>3. CASE accepted
    <3>1. K!At(a, "backup")
      BY <1>3, <2>3 DEF K!AutoApprove
    <3>2. PICK j \in Passages :
              /\ kJob' = [kJob EXCEPT ![a] = j] /\ j.step = "backup"
              /\ j.skill = s /\ j.auto = kJob[a].auto /\ j.back = kJob[a].back
      BY <3>1, NextStep
    <3>3. ~catalog[s].injected /\ ~catalog[s].scripts
          /\ RevisionKind[<<s, quarantine[s]>>] # "hooked"
      BY <2>1, <2>3 DEF K!Level
    <3>4. <<s, quarantine[s]>> \in Skill \X K!Rev
      BY <2>1 DEF StockInv, RevOrNone
    <3>5. RevisionKind[<<s, quarantine[s]>>] \in {"clean", "scripts", "injected", "hooked"}
      BY <3>4 DEF Mirrored
    <3>6. Vetted(s, quarantine[s])
      BY <2>1, <3>3, <3>5 DEF Vetted
    <3> HIDE DEF s, accepted
    <3>7. Underway(j)'
      BY <2>1, <2>2, <3>2, <3>6 DEF Underway, Vetted
    <3> QED
      BY <2>1, <2>2, <3>2, <3>7, StepAlone
  <2>4. CASE ~accepted
    BY <1>3, <2>1, <2>2, <2>4, EndKeeps DEF K!AutoApprove
  <2> QED
    BY <2>3, <2>4
<1>4. CASE K!Backup(a)
  <2>1. /\ kJob[a].step = "backup" /\ s \in Skill /\ ~kJob[a].back
        /\ catalog[s] # None /\ quarantine[s] # None /\ Vetted(s, quarantine[s])
    BY <1>0, <1>4 DEF K!Backup, Underway
  <2>2. UNCHANGED <<mirror, catalog, quarantine, registry, installed, approved, refused, owned>>
    BY <1>4 DEF K!Backup, K!hist
  <2>3. CASE registry[s] = None
    <3>1. K!At(a, "copy") /\ backup' = backup
      BY <1>4, <2>3 DEF K!Backup
    <3>2. PICK j \in Passages :
              /\ kJob' = [kJob EXCEPT ![a] = j] /\ j.step = "copy"
              /\ j.skill = s /\ j.auto = kJob[a].auto /\ j.back = kJob[a].back
      BY <3>1, NextStep
    <3>3. StockInv'
      BY <2>2, <3>1 DEF StockInv, Vetted
    <3> HIDE DEF s
    <3>4. Underway(j)'
      BY <2>1, <2>2, <3>1, <3>2 DEF Underway, Vetted
    <3> QED
      BY <2>1, <3>2, <3>3, <3>4, StepAlone
  <2>4. CASE registry[s] # None
    <3>1. PICK k : k = [content |-> installed[s], rev |-> registry[s].rev]
      OBVIOUS
    <3>2. k \in BackedUp /\ k.content = registry[s].content /\ Vetted(s, k.content) /\ k # None
      <4>1. registry[s] \in Manifested /\ installed[s] = registry[s].content
            /\ Vetted(s, registry[s].content)
        BY <2>1, <2>4 DEF StockInv
      <4>2. k \in BackedUp /\ k.content = registry[s].content
        BY <3>1, <4>1 DEF BackedUp, Manifested
      <4> QED
        BY <1>0, <4>1, <4>2
    <3>3. K!At(a, "unlist") /\ backup' = [backup EXCEPT ![s] = k]
      BY <1>4, <2>4, <3>1 DEF K!Backup
    <3>4. PICK j \in Passages :
              /\ kJob' = [kJob EXCEPT ![a] = j] /\ j.step = "unlist"
              /\ j.skill = s /\ j.auto = kJob[a].auto /\ j.back = kJob[a].back
      BY <3>3, NextStep
    <3> HIDE DEF s
    <3>5. StockInv'
      BY <2>1, <2>2, <3>2, <3>3 DEF StockInv, Vetted
    <3>6. Underway(j)'
      BY <2>1, <2>2, <3>2, <3>3, <3>4 DEF Underway, Vetted, StockInv
    <3> QED
      BY <2>1, <3>4, <3>5, <3>6, StepAlone
  <2> QED
    BY <2>3, <2>4
<1>5. CASE K!Unlist(a)
  <2>1. /\ kJob[a].step = "unlist" /\ s \in Skill /\ backup[s] # None
        /\ ~kJob[a].back => catalog[s] # None /\ quarantine[s] # None /\ Vetted(s, quarantine[s])
    BY <1>0, <1>5 DEF K!Unlist, Underway
  <2>2. registry' = [registry EXCEPT ![s] = None] /\ K!At(a, "purge")
        /\ UNCHANGED <<mirror, catalog, quarantine, installed, backup, approved, refused, owned>>
    BY <1>5 DEF K!Unlist, K!hist
  <2>3. PICK j \in Passages :
            /\ kJob' = [kJob EXCEPT ![a] = j] /\ j.step = "purge"
            /\ j.skill = s /\ j.auto = kJob[a].auto /\ j.back = kJob[a].back
    BY <2>2, NextStep
  <2> HIDE DEF s
  <2>4. StockInv'
    BY <2>1, <2>2 DEF StockInv, Vetted
  <2>5. Underway(j)'
    BY <2>1, <2>2, <2>3 DEF Underway, Vetted, StockInv
  <2> QED
    BY <2>1, <2>3, <2>4, <2>5, StepAlone
<1>6. CASE K!Delete(a)
  <2>1. /\ kJob[a].step \in {"delete", "purge"} /\ s \in Skill /\ registry[s] = None
        /\ kJob[a].step = "purge" /\ ~kJob[a].back =>
              catalog[s] # None /\ quarantine[s] # None /\ Vetted(s, quarantine[s])
        /\ kJob[a].step = "purge" /\ kJob[a].back => backup[s] # None
    BY <1>0, <1>6 DEF K!Delete, Underway
  <2>2. installed' = [installed EXCEPT ![s] = None]
        /\ UNCHANGED <<mirror, catalog, quarantine, registry, backup, approved, refused, owned>>
    BY <1>6 DEF K!Delete, K!hist
  <2>3. StockInv'
    BY <2>1, <2>2 DEF StockInv, Vetted, RevOrNone
  <2>4. CASE kJob[a].step = "delete"
    BY <1>6, <2>3, <2>4, EndKeeps DEF K!Delete
  <2>5. CASE kJob[a].step = "purge"
    <3>1. K!At(a, "copy")
      BY <1>6, <2>5 DEF K!Delete
    <3>2. PICK j \in Passages :
              /\ kJob' = [kJob EXCEPT ![a] = j] /\ j.step = "copy"
              /\ j.skill = s /\ j.auto = kJob[a].auto /\ j.back = kJob[a].back
      BY <3>1, NextStep
    <3> HIDE DEF s
    <3>3. Underway(j)'
      BY <2>1, <2>2, <2>5, <3>2 DEF Underway, Vetted
    <3> QED
      BY <2>3, <2>5, <3>2, <3>3, StepAlone
  <2> QED
    BY <2>1, <2>4, <2>5
<1>7. CASE K!Copy(a)
  <2>1. /\ kJob[a].step = "copy" /\ s \in Skill
        /\ ~kJob[a].back => catalog[s] # None /\ quarantine[s] # None /\ Vetted(s, quarantine[s])
        /\ kJob[a].back => backup[s] # None
    BY <1>0, <1>7 DEF K!Copy, Underway
  <2>2. UNCHANGED <<mirror, catalog, quarantine, registry, backup, approved, refused, owned>>
    BY <1>7 DEF K!Copy, K!hist
  <2>3. CASE registry[s] # None \/ installed[s] # None
    <3>1. StockInv'
      BY <1>7, <2>2, <2>3 DEF K!Copy, StockInv, Vetted
    <3> QED
      BY <1>7, <2>1, <2>3, <3>1, EndKeeps DEF K!Copy
  <2>4. CASE registry[s] = None /\ installed[s] = None
    <3>1. PICK c : c = IF kJob[a].back THEN backup[s].content ELSE quarantine[s]
      OBVIOUS
    <3>2. installed' = [installed EXCEPT ![s] = c] /\ K!At(a, "list")
      BY <1>7, <2>4, <3>1 DEF K!Copy
    <3>3. c \in K!Rev /\ Vetted(s, c) /\ c # None
      <4>1. CASE kJob[a].back
        <5>1. backup[s] \in BackedUp /\ Vetted(s, backup[s].content)
          BY <2>1, <4>1 DEF StockInv
        <5> QED
          BY <1>0, <3>1, <4>1, <5>1 DEF BackedUp
      <4>2. CASE ~kJob[a].back
        BY <1>0, <2>1, <3>1, <4>2 DEF StockInv, RevOrNone
      <4> QED
        BY <4>1, <4>2
    <3>4. PICK j \in Passages :
              /\ kJob' = [kJob EXCEPT ![a] = j] /\ j.step = "list"
              /\ j.skill = s /\ j.auto = kJob[a].auto /\ j.back = kJob[a].back
      BY <3>2, NextStep
    <3> HIDE DEF s
    <3>5. StockInv'
      BY <2>1, <2>2, <2>4, <3>2, <3>3 DEF StockInv, Vetted, RevOrNone
    <3>6. Underway(j)'
      BY <2>1, <2>2, <3>2, <3>3, <3>4 DEF Underway, Vetted, StockInv
    <3> QED
      BY <2>1, <3>4, <3>5, <3>6, StepAlone
  <2> QED
    BY <2>3, <2>4
<1>8. CASE K!List(a)
  <2>1. /\ kJob[a].step = "list" /\ s \in Skill /\ installed[s] # None /\ Vetted(s, installed[s])
        /\ ~kJob[a].back => catalog[s] # None
        /\ kJob[a].back => backup[s] # None
    BY <1>0, <1>8 DEF K!List, Underway
  <2> DEFINE scr == RevisionKind[<<s, installed[s]>>] = "scripts"
  <2>2. PICK rev : rev = IF kJob[a].back THEN backup[s].rev ELSE catalog[s].pin
    OBVIOUS
  <2>3. rev \in RevOrNone
    BY <2>1, <2>2 DEF StockInv, BackedUp, Candidate
  <2>4. scr \in BOOLEAN /\ installed[s] \in K!Rev
    BY <2>1 DEF StockInv, RevOrNone
  <2>5. PICK m : m = [rev |-> rev, content |-> installed[s], scripts |-> scr, reviewed |-> FALSE,
                      enabled |-> FALSE]
    OBVIOUS
  <2>6. m \in Manifested /\ m.content = installed[s] /\ m # None
    <3>1. m \in Manifested /\ m.content = installed[s]
      BY <2>3, <2>4, <2>5 DEF Manifested
    <3> QED
      BY <1>0, <3>1
  <2>7. /\ registry' = [registry EXCEPT ![s] = m] /\ K!At(a, "settle") /\ owned' = owned \cup {s}
        /\ UNCHANGED <<mirror, catalog, quarantine, installed, backup, approved, refused>>
    BY <1>8, <2>2, <2>5 DEF K!List
  <2>8. PICK j \in Passages :
            /\ kJob' = [kJob EXCEPT ![a] = j] /\ j.step = "settle"
            /\ j.skill = s /\ j.auto = kJob[a].auto /\ j.back = kJob[a].back
    BY <2>7, NextStep
  <2> HIDE DEF s, scr
  <2>9. StockInv'
    BY <2>1, <2>6, <2>7 DEF StockInv, Vetted
  <2>10. Underway(j)'
    BY <2>1, <2>7, <2>8 DEF Underway
  <2> QED
    BY <2>1, <2>8, <2>9, <2>10, StepAlone
<1>9. CASE K!Settle(a)
  <2>1. kJob[a].step = "settle" /\ s \in Skill /\ K!Ends(a)
        /\ UNCHANGED <<mirror, quarantine, installed, backup, approved, refused, owned>>
    BY <1>0, <1>9 DEF K!Settle, K!hist
  <2>2. /\ catalog' \in [Skill -> Candidate \cup {None}]
    <3>1. CASE catalog[s] = None
      BY <1>9, <3>1 DEF K!Settle, StockInv
    <3>2. CASE catalog[s] # None
      <4> DEFINE p == IF kJob[a].back \/ kJob[a].auto THEN catalog[s].prev
                      ELSE IF backup[s] = None THEN None ELSE backup[s].rev
      <4>1. PICK n : n = [catalog[s] EXCEPT !.state = "approved", !.prev = p]
        OBVIOUS
      <4>2. catalog[s] \in Candidate
        BY <2>1, <3>2 DEF StockInv
      <4>3. p \in RevOrNone
        BY <2>1, <4>2 DEF StockInv, BackedUp, Candidate, RevOrNone
      <4>4. n \in Candidate
        BY <4>1, <4>2, <4>3 DEF Candidate
      <4>5. catalog' = [catalog EXCEPT ![s] = n]
        BY <1>9, <3>2, <4>1 DEF K!Settle
      <4> QED
        BY <4>4, <4>5 DEF StockInv
    <3> QED
      BY <3>1, <3>2
  <2>3. registry' \in [Skill -> Manifested \cup {None}] /\ \A x \in Skill :
            /\ registry[x] = None <=> registry'[x] = None
            /\ registry[x] # None => registry'[x].content = registry[x].content
    <3>1. CASE registry[s] = None
      BY <1>9, <3>1 DEF K!Settle, StockInv
    <3>2. CASE registry[s] # None
      <4> DEFINE e == registry[s].enabled \/ kJob[a].auto \/ kJob[a].back
      <4>1. PICK m : m = [registry[s] EXCEPT !.reviewed = TRUE, !.enabled = e]
        OBVIOUS
      <4>2. registry[s] \in Manifested /\ e \in BOOLEAN
        BY <2>1, <3>2 DEF StockInv
      <4>3. m \in Manifested /\ m.content = registry[s].content
        BY <4>1, <4>2 DEF Manifested
      <4>4. registry' = [registry EXCEPT ![s] = m]
        BY <1>9, <3>2, <4>1 DEF K!Settle
      <4> QED
        BY <1>0, <2>1, <3>2, <4>3, <4>4 DEF StockInv
    <3> QED
      BY <3>1, <3>2
  <2>4. StockInv'
    BY <2>1, <2>2, <2>3 DEF StockInv, Vetted
  <2> QED
    BY <2>1, <2>4, EndKeeps
<1>10. CASE K!Crash(a)
  <2>1. kJob[a].step # "idle" /\ K!Ends(a)
        /\ UNCHANGED <<mirror, catalog, quarantine, registry, installed, approved, refused, owned>>
    BY <1>0, <1>10 DEF K!Crash, K!hist, Underway
  <2>2. backup' \in [Skill -> BackedUp \cup {None}] /\ \A x \in Skill :
            /\ backup[x] # None => backup'[x] # None
            /\ backup'[x] # None => backup[x] # None /\ backup'[x].content = backup[x].content
    <3>1. CASE ~kJob[a].back
      BY <1>10, <3>1 DEF K!Crash, StockInv
    <3>2. CASE kJob[a].back
      <4>1. PICK k : k = [backup[s] EXCEPT !.rev = None]
        OBVIOUS
      <4>2. backup' = [backup EXCEPT ![s] = k]
        BY <1>10, <3>2, <4>1 DEF K!Crash
      <4>3. CASE backup[s] # None
        <5>1. backup[s] \in BackedUp
          BY <1>0, <2>1, <4>3 DEF StockInv
        <5>2. k \in BackedUp /\ k.content = backup[s].content
          BY <4>1, <5>1 DEF BackedUp, RevOrNone
        <5> QED
          BY <1>0, <2>1, <4>2, <4>3, <5>2 DEF StockInv
      <4>4. CASE backup[s] = None
        BY <1>0, <2>1, <3>2, <4>4 DEF Underway
      <4> QED
        BY <4>3, <4>4
    <3> QED
      BY <3>1, <3>2
  <2>3. StockInv'
    BY <2>1, <2>2 DEF StockInv, Vetted
  <2> QED
    BY <2>1, <2>3, EndKeeps
<1> QED
  BY <1>1, <1>2, <1>3, <1>4, <1>5, <1>6, <1>7, <1>8, <1>9, <1>10

\* What is installed was vetted, and no skill is lost, in every state.
LEMMA SkillsHold ==
    Mirrored /\ SupplySpec => [](K!TypeOK /\ K!InstalledIsVetted /\ K!NeverLost)
<1> SUFFICES ASSUME Mirrored PROVE SupplySpec => [](K!TypeOK /\ K!InstalledIsVetted /\ K!NeverLost)
  OBVIOUS
<1>1. K!Init => MarketInv
  BY MarketInit
<1>2. MarketInv /\ [K!Next]_(K!kvars) => MarketInv'
  <2> SUFFICES ASSUME MarketInv, [K!Next]_(K!kvars) PROVE MarketInv'
    OBVIOUS
  <2>1. CASE UNCHANGED K!kvars
    BY <2>1 DEF K!kvars, MarketInv, StockInv, JobsInv, Underway, Vetted
  <2> QED
    BY <2>1, CommandsKeep, InstallationKeeps DEF K!Next
<1>3. MarketInv => K!TypeOK /\ K!InstalledIsVetted /\ K!NeverLost
  <2> SUFFICES ASSUME MarketInv PROVE K!TypeOK /\ K!InstalledIsVetted /\ K!NeverLost
    OBVIOUS
  <2>1. K!TypeOK
    BY DEF MarketInv, StockInv, JobsInv, Underway, RevOrNone, Manifested, K!TypeOK
  <2>2. K!InstalledIsVetted
    BY DEF MarketInv, StockInv, JobsInv, Underway, Vetted, K!InstalledIsVetted
  <2>3. K!NeverLost
    BY DEF MarketInv, StockInv, K!Intact, K!NeverLost
  <2> QED
    BY <2>1, <2>2, <2>3
<1> QED
  BY <1>1, <1>2, <1>3, EachOnItsOwn, PTL DEF K!Spec

-----------------------------------------------------------------------------
(***************************************************************************)
(* Servers.                                                                *)
(***************************************************************************)
Scope   == Owner \cup {Machine}
Record  == [owner : Scope, login : BOOLEAN, auth : {"unconfigured", "pending", "ok", "error"},
            reviewed : BOOLEAN, enabled : BOOLEAN]
Passage == [step : {"idle", "template", "review", "enable"}, todo : Seq(Server)]

\* A capability suggests some server, the machine is no project, and no administrator's
\* command comes in the middle of a resolution.
Suggesting == /\ \A c \in P!Capability : Suggested[c] \in Seq(Server) /\ Suggested[c] # <<>>
              /\ Machine \notin Owner /\ None \notin Record \cup P!Kind
              /\ "race" \notin Env

Harmless(s) == /\ Template[s] # None
               /\ Template[s].bounded /\ Template[s].local
               /\ Template[s].login # "oauth"
               /\ ~(Template[s].mutates \/ Template[s].sensitive \/ Template[s].paid)
Trusted(s) == servers[s] # None =>
    /\ servers[s].enabled => servers[s].reviewed
    /\ servers[s].reviewed /\ s \notin vetted => servers[s].owner # Machine /\ Harmless(s)
\* What a resolution is configuring is its own, and what a safe template says.
Configuring(p) == pJob[p].step \in {"review", "enable"} =>
    LET s == Head(pJob[p].todo) IN servers[s] # None /\ servers[s].owner = p /\ Harmless(s)
AskedOnce(as) == /\ as \subseteq Server \X P!Kind \X Nat
                 /\ \A a, b \in as : a[1] = b[1] /\ a[2] = b[2] => a = b
OwnOnly(p) == found[p] \subseteq Server \X {p, Machine}

GatewayInv ==
    /\ servers \in [Server -> Record \cup {None}]
    /\ pJob \in [Owner -> Passage]
    /\ \A p \in Owner : pJob[p].step # "idle" => pJob[p].todo # <<>>
    /\ \A p \in Owner : pJob[p].step = "idle" => pJob[p] = P!Idle
    /\ prompts \in [Owner -> SUBSET (Server \X P!Kind \X Nat)]
    /\ found \in [Owner -> SUBSET (Server \X Scope)]
    /\ raised \subseteq Owner /\ vetted \subseteq Server
    /\ \A s \in Server : Trusted(s)
    /\ \A p \in Owner : Configuring(p) /\ AskedOnce(prompts[p]) /\ OwnOnly(p)

\* A prompt that is pending is not made again.
LEMMA PromptsOnce ==
    ASSUME NEW as, AskedOnce(as), NEW names \in SUBSET Server, NEW k \in P!Kind
    PROVE  AskedOnce(P!Prompt(as, names, k))
<1> DEFINE new == {x \in names : ~\E a \in as : a[1] = x /\ a[2] = k}
<1> DEFINE more == {<<s, k, 1>> : s \in new}
<1>1. P!Prompt(as, names, k) = as \cup more
  BY DEF P!Prompt
<1>2. \A a \in more : /\ a \in Server \X P!Kind \X Nat
                     /\ a[1] \in new /\ a[2] = k /\ a = <<a[1], k, 1>>
  <2> SUFFICES ASSUME NEW a \in more
               PROVE  /\ a \in Server \X P!Kind \X Nat
                      /\ a[1] \in new /\ a[2] = k /\ a = <<a[1], k, 1>>
    OBVIOUS
  <2>1. PICK s \in new : a = <<s, k, 1>>
    OBVIOUS
  <2>2. s \in Server
    OBVIOUS
  <2> HIDE DEF new
  <2> QED
    BY <2>1, <2>2
<1>3. \A a \in as, b \in more : ~(a[1] = b[1] /\ a[2] = b[2])
  BY <1>2
<1> HIDE DEF new, more
<1>4. as \cup more \subseteq Server \X P!Kind \X Nat
  BY <1>2 DEF AskedOnce
<1>5. \A a, b \in as \cup more : a[1] = b[1] /\ a[2] = b[2] => a = b
  BY <1>2, <1>3 DEF AskedOnce
<1> QED
  BY <1>1, <1>4, <1>5 DEF AskedOnce

\* A template that is safe to enable is harmless.
LEMMA SafeIsHarmless ==
    ASSUME Suggesting, NEW s \in Server
    PROVE  /\ Template[s] # None /\ P!Safe(Template[s]) => Harmless(s)
           /\ P!Blocking(Template[s]) \in P!Kind \cup {None}
<1>1. None \notin {"oauth", "sensitive_account", "paid_service", "production_mutation"}
  BY DEF Suggesting, P!Kind
<1> DEFINE t == Template[s]
<1>2. CASE ~t.local \/ t.mutates
  BY <1>1, <1>2 DEF P!Safe, P!Blocking, P!Kind, Harmless
<1>3. CASE ~(~t.local \/ t.mutates) /\ t.login = "oauth"
  BY <1>1, <1>3 DEF P!Safe, P!Blocking, P!Kind, Harmless
<1>4. CASE ~(~t.local \/ t.mutates) /\ t.login # "oauth" /\ t.sensitive
  BY <1>1, <1>4 DEF P!Safe, P!Blocking, P!Kind, Harmless
<1>5. CASE ~(~t.local \/ t.mutates) /\ t.login # "oauth" /\ ~t.sensitive /\ t.paid
  BY <1>1, <1>5 DEF P!Safe, P!Blocking, P!Kind, Harmless
<1>6. CASE ~(~t.local \/ t.mutates) /\ t.login # "oauth" /\ ~t.sensitive /\ ~t.paid
  BY <1>1, <1>6 DEF P!Safe, P!Blocking, P!Kind, Harmless
<1> QED
  BY <1>2, <1>3, <1>4, <1>5, <1>6

\* In the first state no server is configured.
LEMMA GatewayInit == Suggesting /\ P!Init => GatewayInv
  BY DEF P!Init, P!Idle, GatewayInv, Passage, Trusted, Configuring, AskedOnce, OwnOnly

\* What a step does to mcp.json: each record stays in its shape, and trusted.
LEMMA CommandKeeps ==
    ASSUME Suggesting, GatewayInv, P!Quiet, UNCHANGED <<prompts, pJob, found, raised>>,
           servers' \in [Server -> Record \cup {None}], vetted' \subseteq Server,
           \A s \in Server : Trusted(s)'
    PROVE  GatewayInv'
<1>1. \A p \in Owner : pJob[p].step = "idle"
  BY DEF P!Quiet, P!Idle, Suggesting
<1> QED
  BY <1>1 DEF GatewayInv, Configuring, AskedOnce, OwnOnly

\* A resolution goes on with the rest.
LEMMA RestIsShorter ==
    ASSUME NEW todo \in Seq(Server), todo # <<>>, Len(todo) # 1
    PROVE  Tail(todo) \in Seq(Server) /\ Tail(todo) # <<>>
<1>1. Tail(todo) \in Seq(Server) /\ Len(Tail(todo)) = Len(todo) - 1
  OBVIOUS
<1>2. Len(todo) \in Nat /\ Len(todo) # 0
  BY EmptySeq
<1>3. Len(Tail(todo)) # 0
  BY <1>1, <1>2
<1> QED
  BY <1>1, <1>3

Moves(p, j, names) == /\ pJob' = [pJob EXCEPT ![p] = j] /\ found' = [found EXCEPT ![p] = names]
                      /\ raised' \subseteq Owner /\ UNCHANGED <<servers, vetted>>
                      /\ prompts' \in [Owner -> SUBSET (Server \X P!Kind \X Nat)]
                      /\ \A q \in Owner : AskedOnce(prompts'[q])

\* A resolution that ends, or goes on with a name that is not being configured.
LEMMA PassageGoesOn ==
    ASSUME Suggesting, GatewayInv, NEW p \in Owner, NEW j \in Passage, NEW names,
           j.step \in {"idle", "template"}, j.step = "idle" => j = P!Idle,
           j.step # "idle" => j.todo # <<>>, names \subseteq Server \X {p, Machine},
           Moves(p, j, names)
    PROVE  GatewayInv'
<1>1. names \subseteq Server \X Scope
  BY DEF Scope
<1>2. \A q \in Owner : Configuring(q)' /\ AskedOnce(prompts[q])' /\ OwnOnly(q)'
  BY DEF GatewayInv, Configuring, AskedOnce, OwnOnly, Moves
<1> QED
  BY <1>1, <1>2 DEF GatewayInv, Trusted, Harmless, Moves

\* Every step keeps records trusted, and asks for each server once.
LEMMA GatewayNext == Suggesting /\ GatewayInv /\ [P!Next]_(P!pvars) => GatewayInv'
<1> SUFFICES ASSUME Suggesting, GatewayInv, [P!Next]_(P!pvars) PROVE GatewayInv'
  OBVIOUS
<1>0. None \notin Record /\ Machine \notin Owner /\ "race" \notin Env
  BY DEF Suggesting
<1>1. ASSUME NEW s \in Server, NEW owner \in Owner \cup {Machine}, NEW login \in BOOLEAN,
             P!Add(s, owner, login) PROVE GatewayInv'
  <2>1. P!Added(owner, login) \in Record
    BY DEF P!Added, Record, Scope
  <2>2. servers' = [servers EXCEPT ![s] = P!Added(owner, login)] /\ vetted' = vetted
    BY <1>1 DEF P!Add
  <2>3. \A x \in Server : Trusted(x)'
    BY <2>2 DEF GatewayInv, Trusted, Harmless, P!Added
  <2> QED
    BY <1>1, <2>1, <2>2, <2>3, CommandKeeps DEF P!Add, GatewayInv
<1>2. ASSUME NEW s \in Server, P!MarkReviewed(s) PROVE GatewayInv'
  <2>1. servers[s] \in Record
    BY <1>2 DEF P!MarkReviewed, GatewayInv
  <2>2. [servers[s] EXCEPT !.reviewed = TRUE] \in Record
    BY <2>1 DEF Record
  <2>3. \A x \in Server : Trusted(x)'
    BY <1>2, <2>1 DEF P!MarkReviewed, GatewayInv, Trusted, Harmless, Record
  <2> QED
    BY <1>2, <2>2, <2>3, CommandKeeps DEF P!MarkReviewed, GatewayInv
<1>3. ASSUME NEW s \in Server, P!Enable(s) PROVE GatewayInv'
  <2>1. servers[s] \in Record /\ servers[s].reviewed
    BY <1>3 DEF P!Enable, GatewayInv
  <2>2. [servers[s] EXCEPT !.enabled = TRUE] \in Record
    BY <2>1 DEF Record
  <2>3. \A x \in Server : Trusted(x)'
    BY <1>3, <2>1 DEF P!Enable, GatewayInv, Trusted, Harmless, Record
  <2> QED
    BY <1>3, <2>2, <2>3, CommandKeeps DEF P!Enable, GatewayInv
<1>4. ASSUME NEW s \in Server, P!Disable(s) PROVE GatewayInv'
  <2>1. servers[s] \in Record
    BY <1>4 DEF P!Disable, GatewayInv
  <2>2. [servers[s] EXCEPT !.enabled = FALSE] \in Record
    BY <2>1 DEF Record
  <2>3. \A x \in Server : Trusted(x)'
    BY <1>4, <2>1 DEF P!Disable, GatewayInv, Trusted, Harmless, Record
  <2> QED
    BY <1>4, <2>2, <2>3, CommandKeeps DEF P!Disable, GatewayInv
<1>5. ASSUME NEW s \in Server, P!Remove(s) PROVE GatewayInv'
  <2>1. \A x \in Server : Trusted(x)'
    BY <1>5 DEF P!Remove, GatewayInv, Trusted, Harmless
  <2> QED
    BY <1>5, <2>1, CommandKeeps DEF P!Remove, GatewayInv
<1>6. ASSUME NEW s \in Server, P!Authenticate(s) PROVE GatewayInv'
  <2>1. servers[s] \in Record
    BY <1>6 DEF P!Authenticate, GatewayInv
  <2> DEFINE a == IF servers[s].login THEN "pending" ELSE "ok"
  <2>2. [servers[s] EXCEPT !.auth = a] \in Record
    BY <2>1 DEF Record
  <2>3. servers' = [servers EXCEPT ![s] = [servers[s] EXCEPT !.auth = a]] /\ vetted' = vetted
    BY <1>6 DEF P!Authenticate
  <2> HIDE DEF a
  <2>4. \A x \in Server : Trusted(x)'
    <3>1. PICK r : r = [servers[s] EXCEPT !.auth = a]
      OBVIOUS
    <3>2. r.owner = servers[s].owner /\ r.enabled = servers[s].enabled
          /\ r.reviewed = servers[s].reviewed /\ servers[s] # None
      BY <1>0, <2>1, <3>1 DEF Record
    <3>3. servers' = [servers EXCEPT ![s] = r] /\ vetted' = vetted
      BY <2>3, <3>1
    <3> QED
      BY <3>2, <3>3 DEF GatewayInv, Trusted, Harmless
  <2> QED
    BY <1>6, <2>2, <2>3, <2>4, CommandKeeps DEF P!Authenticate, GatewayInv
<1>7. ASSUME NEW s \in Server, NEW ok \in BOOLEAN, P!Test(s, ok) PROVE GatewayInv'
  <2>1. servers[s] \in Record
    BY <1>7 DEF P!Test, GatewayInv
  <2> DEFINE a == IF ~servers[s].login THEN servers[s].auth ELSE IF ok THEN "ok" ELSE "error"
  <2>2. [servers[s] EXCEPT !.auth = a] \in Record
    BY <2>1 DEF Record
  <2>3. servers' = [servers EXCEPT ![s] = [servers[s] EXCEPT !.auth = a]] /\ vetted' = vetted
    BY <1>7 DEF P!Test
  <2> HIDE DEF a
  <2>4. \A x \in Server : Trusted(x)'
    <3>1. PICK r : r = [servers[s] EXCEPT !.auth = a]
      OBVIOUS
    <3>2. r.owner = servers[s].owner /\ r.enabled = servers[s].enabled
          /\ r.reviewed = servers[s].reviewed /\ servers[s] # None
      BY <1>0, <2>1, <3>1 DEF Record
    <3>3. servers' = [servers EXCEPT ![s] = r] /\ vetted' = vetted
      BY <2>3, <3>1
    <3> QED
      BY <3>2, <3>3 DEF GatewayInv, Trusted, Harmless
  <2> QED
    BY <1>7, <2>2, <2>3, <2>4, CommandKeeps DEF P!Test, GatewayInv
<1>8. ASSUME NEW p \in Owner, NEW a \in prompts[p], P!ResolveSetupAction(p, a) PROVE GatewayInv'
  <2>1. \A q \in Owner : AskedOnce(prompts[q])'
    BY <1>8 DEF P!ResolveSetupAction, GatewayInv, AskedOnce
  <2> QED
    BY <1>8, <2>1 DEF P!ResolveSetupAction, GatewayInv, Trusted, Harmless, Configuring, OwnOnly
<1>9. ASSUME NEW p \in Owner, NEW c \in P!Capability, P!Search(p, c) PROVE GatewayInv'
  <2> DEFINE known == P!Listed(p) \cap P!Names(Suggested[c])
             ready == {s \in known : P!Usable(servers[s])}
             ask   == {s \in known : ~P!Authenticated(servers[s])}
             names == {<<s, servers[s].owner>> : s \in ready}
             start == [step |-> "template", todo |-> Suggested[c]]
  <2>1. /\ prompts' = [prompts EXCEPT ![p] = P!Prompt(prompts[p], ask, "oauth")]
        /\ UNCHANGED <<servers, vetted>>
        /\ \/ P!Ends(p, names, FALSE)
           \/ pJob' = [pJob EXCEPT ![p] = start] /\ found' = [found EXCEPT ![p] = {}]
              /\ UNCHANGED raised
    BY <1>9 DEF P!Search
  <2>2. ready \subseteq Server /\ \A s \in ready : servers[s].owner \in {p, Machine}
    BY DEF P!Listed
  <2>3. ask \in SUBSET Server /\ "oauth" \in P!Kind
    BY DEF P!Listed, P!Kind
  <2> HIDE DEF ready, ask, known
  <2>4. /\ prompts' \in [Owner -> SUBSET (Server \X P!Kind \X Nat)]
        /\ \A q \in Owner : AskedOnce(prompts'[q])
    BY <2>1, <2>3, PromptsOnce DEF GatewayInv, AskedOnce
  <2>5. names \subseteq Server \X {p, Machine}
    BY <2>2
  <2>6. start \in Passage /\ start.todo # <<>> /\ start.step = "template"
    BY DEF Passage, Suggesting
  <2>7. P!Idle \in Passage /\ P!Idle.step = "idle"
    BY DEF Passage, P!Idle
  <2>8. raised \subseteq Owner
    BY DEF GatewayInv
  <2> HIDE DEF start, names
  <2>9. CASE P!Ends(p, names, FALSE)
    <3>1. Moves(p, P!Idle, names)
      BY <2>1, <2>4, <2>8, <2>9 DEF P!Ends, Moves
    <3> QED
      BY <2>5, <2>7, <3>1, PassageGoesOn
  <2>10. CASE pJob' = [pJob EXCEPT ![p] = start] /\ found' = [found EXCEPT ![p] = {}]
              /\ UNCHANGED raised
    <3>1. Moves(p, start, {})
      BY <2>1, <2>4, <2>8, <2>10 DEF Moves
    <3> QED
      BY <2>6, <3>1, PassageGoesOn
  <2> QED
    BY <2>1, <2>9, <2>10
<1>10. ASSUME NEW p \in Owner, P!PassOver(p) PROVE GatewayInv'
  <2> DEFINE s == Head(pJob[p].todo)
             next == [step |-> "template", todo |-> Tail(pJob[p].todo)]
  <2>1. pJob[p].todo \in Seq(Server) /\ pJob[p].todo # <<>> /\ pJob[p] \in Passage
    BY <1>10 DEF P!PassOver, GatewayInv, Passage
  <2>2. s \in Server
    BY <2>1
  <2> HIDE DEF s
  <2>3. /\ prompts' \in [Owner -> SUBSET (Server \X P!Kind \X Nat)]
        /\ \A q \in Owner : AskedOnce(prompts'[q])
    <3>1. prompts' = prompts \/ \E k \in P!Kind :
             prompts' = [prompts EXCEPT ![p] = P!Prompt(prompts[p], {s}, k)]
      BY <1>10, <2>2, SafeIsHarmless DEF P!PassOver, s
    <3> QED
      BY <2>2, <3>1, PromptsOnce DEF GatewayInv, AskedOnce
  <2>4. found[p] \subseteq Server \X {p, Machine} /\ raised \subseteq Owner
    BY DEF GatewayInv, OwnOnly
  <2>5. P!Idle \in Passage /\ P!Idle.step = "idle"
    BY DEF Passage, P!Idle
  <2>6. UNCHANGED <<servers, vetted>> /\ P!Rest(p)
    BY <1>10 DEF P!PassOver
  <2>7. CASE Len(pJob[p].todo) = 1
    <3>1. Moves(p, P!Idle, found[p])
      BY <2>3, <2>4, <2>6, <2>7 DEF P!Rest, P!Ends, Moves
    <3> QED
      BY <2>4, <2>5, <3>1, PassageGoesOn
  <2>8. CASE Len(pJob[p].todo) # 1
    <3>1. next \in Passage /\ next.todo # <<>> /\ next.step = "template"
      BY <2>1, <2>8, RestIsShorter DEF Passage
    <3>2. pJob' = [pJob EXCEPT ![p] = next] /\ found' = [found EXCEPT ![p] = found[p]]
          /\ raised' = raised
      BY <2>6, <2>8 DEF P!Rest, P!Goes, GatewayInv
    <3> HIDE DEF next
    <3> QED
      <4>1. Moves(p, next, found[p])
        BY <2>3, <2>4, <2>6, <3>2 DEF Moves
      <4> QED
        BY <2>4, <3>1, <4>1, PassageGoesOn
  <2> QED
    BY <2>7, <2>8
\* A resolution that fails, or dies.
<1>11. ASSUME NEW p \in Owner, NEW failed \in BOOLEAN, P!Ends(p, {}, failed),
              UNCHANGED <<servers, prompts, vetted>> PROVE GatewayInv'
  <2>1. P!Idle \in Passage /\ P!Idle.step = "idle"
    BY DEF Passage, P!Idle
  <2>2. raised' \subseteq Owner
    BY <1>11 DEF P!Ends, GatewayInv
  <2>3. /\ prompts' \in [Owner -> SUBSET (Server \X P!Kind \X Nat)]
        /\ \A q \in Owner : AskedOnce(prompts'[q])
    BY <1>11 DEF GatewayInv
  <2> QED
    <3>1. Moves(p, P!Idle, {})
      BY <1>11, <2>2, <2>3 DEF P!Ends, Moves
    <3> QED
      BY <2>1, <3>1, PassageGoesOn
<1>12. ASSUME NEW p \in Owner, P!ConfigureAdd(p) PROVE GatewayInv'
  <2> DEFINE s == Head(pJob[p].todo)
             next == [pJob[p] EXCEPT !.step = "review"]
  <2>1. pJob[p].todo \in Seq(Server) /\ pJob[p].todo # <<>> /\ pJob[p] \in Passage
    BY <1>12 DEF P!ConfigureAdd, GatewayInv, Passage
  <2>2. s \in Server
    BY <2>1
  <2>3. CASE servers[s] # None
    BY <1>11, <1>12, <2>3 DEF P!ConfigureAdd
  <2>4. CASE servers[s] = None
    <3>1. PICK new \in Record :
             /\ new.owner = p /\ new.reviewed = FALSE /\ new.enabled = FALSE
             /\ servers' = [servers EXCEPT ![s] = new]
             /\ pJob' = [pJob EXCEPT ![p] = next]
             /\ UNCHANGED <<prompts, vetted, found, raised>>
      <4>1. PICK new : new = P!Added(p, Template[s].login # "none")
        OBVIOUS
      <4>2. new \in Record /\ new.owner = p /\ new.reviewed = FALSE /\ new.enabled = FALSE
        BY <4>1 DEF P!Added, Record, Scope
      <4>3. /\ servers' = [servers EXCEPT ![s] = new]
            /\ pJob' = [pJob EXCEPT ![p] = next]
            /\ UNCHANGED <<prompts, vetted, found, raised>>
        BY <1>12, <2>4, <4>1 DEF P!ConfigureAdd, P!Goes
      <4> QED
        BY <4>2, <4>3
    <3>2. Harmless(s)
      BY <1>12, <2>2, SafeIsHarmless DEF P!ConfigureAdd
    <3>3. next \in Passage /\ next.todo = pJob[p].todo /\ next.step = "review"
      BY <2>1 DEF Passage
    <3> HIDE DEF next
    <3>4. servers' \in [Server -> Record \cup {None}] /\ pJob' \in [Owner -> Passage]
      BY <3>1, <3>3 DEF GatewayInv
    <3>5. \A x \in Server : Trusted(x)'
      BY <2>2, <3>1 DEF GatewayInv, Trusted, Harmless
    <3>6. \A q \in Owner : Configuring(q)'
      <4> SUFFICES ASSUME NEW q \in Owner, pJob'[q].step \in {"review", "enable"}
                   PROVE  LET x == Head(pJob'[q].todo) IN
                          servers'[x] # None /\ servers'[x].owner = q /\ Harmless(x)
        BY DEF Configuring, Harmless
      <4>1. CASE q = p
        <5>1. pJob'[q] = next /\ servers'[s] = new
          BY <2>2, <3>1, <4>1 DEF GatewayInv
        <5>2. new # None
          BY <1>0, <3>1
        <5> QED
          BY <3>2, <3>1, <3>3, <4>1, <5>1, <5>2
      <4>2. CASE q # p
        <5>1. pJob'[q] = pJob[q]
          BY <3>1, <4>2 DEF GatewayInv
        <5>2. PICK x : x = Head(pJob[q].todo)
          OBVIOUS
        <5>3. servers[x] # None /\ servers[x].owner = q /\ Harmless(x)
          BY <5>1, <5>2 DEF GatewayInv, Configuring
        <5>4. x \in Server
          <6>1. pJob[q].todo \in Seq(Server) /\ pJob[q].todo # <<>>
            BY <5>1 DEF GatewayInv, Passage
          <6> QED
            BY <5>2, <6>1
        <5>5. servers'[x] = servers[x]
          BY <2>4, <3>1, <5>3, <5>4 DEF GatewayInv
        <5> QED
          BY <5>1, <5>2, <5>3, <5>5
      <4> QED
        BY <4>1, <4>2
    <3>7. \A q \in Owner : AskedOnce(prompts[q])' /\ OwnOnly(q)'
      BY <3>1 DEF GatewayInv, AskedOnce, OwnOnly
    <3> QED
      BY <2>1, <3>1, <3>3, <3>4, <3>5, <3>6, <3>7 DEF GatewayInv
  <2> QED
    BY <2>3, <2>4
<1>13. ASSUME NEW p \in Owner, P!ConfigureReview(p) PROVE GatewayInv'
  <2> DEFINE s == Head(pJob[p].todo)
             next == [pJob[p] EXCEPT !.step = "enable"]
  <2>1. pJob[p].todo \in Seq(Server) /\ pJob[p].todo # <<>> /\ pJob[p] \in Passage
    BY <1>13 DEF P!ConfigureReview, GatewayInv, Passage
  <2>2. s \in Server /\ servers[s] # None /\ servers[s].owner = p /\ Harmless(s)
    BY <1>13, <2>1 DEF P!ConfigureReview, GatewayInv, Configuring
  <2>3. servers[s] \in Record
    BY <2>2 DEF GatewayInv
  <2>4. /\ servers' = [servers EXCEPT ![s] = [servers[s] EXCEPT !.reviewed = TRUE]]
        /\ pJob' = [pJob EXCEPT ![p] = next]
        /\ UNCHANGED <<prompts, vetted, found, raised>>
    BY <1>13, <2>2 DEF P!ConfigureReview, P!Goes
  <2>5. PICK r \in Record : r = [servers[s] EXCEPT !.reviewed = TRUE]
    BY <2>3 DEF Record
  <2>6. r.owner = p /\ r # None
    BY <1>0, <2>2, <2>3, <2>5 DEF Record
  <2>7. next \in Passage /\ next.todo = pJob[p].todo /\ next.step = "enable"
    BY <2>1 DEF Passage
  <2> HIDE DEF next
  <2>8. servers' \in [Server -> Record \cup {None}] /\ pJob' \in [Owner -> Passage]
    BY <2>4, <2>5, <2>7 DEF GatewayInv
  <2>9. \A x \in Server : Trusted(x)'
    BY SMTT(30), <1>0, <2>2, <2>4, <2>5, <2>6 DEF GatewayInv, Trusted, Harmless
  <2>10. \A q \in Owner : Configuring(q)'
    <3> SUFFICES ASSUME NEW q \in Owner, pJob'[q].step \in {"review", "enable"}
                 PROVE  LET x == Head(pJob'[q].todo) IN
                        servers'[x] # None /\ servers'[x].owner = q /\ Harmless(x)
      BY DEF Configuring, Harmless
    <3>1. CASE q = p
      <4>1. pJob'[q] = next /\ servers'[s] = r
        BY <2>2, <2>4, <2>5, <3>1 DEF GatewayInv
      <4> QED
        BY <2>2, <2>6, <2>7, <3>1, <4>1
    <3>2. CASE q # p
      BY <2>2, <2>4, <3>2 DEF GatewayInv, Configuring
    <3> QED
      BY <3>1, <3>2
  <2>11. \A q \in Owner : AskedOnce(prompts[q])' /\ OwnOnly(q)'
    BY <2>4 DEF GatewayInv, AskedOnce, OwnOnly
  <2> QED
    BY <2>1, <2>4, <2>7, <2>8, <2>9, <2>10, <2>11 DEF GatewayInv
<1>14. ASSUME NEW p \in Owner, P!ConfigureEnable(p) PROVE GatewayInv'
  <2> DEFINE s == Head(pJob[p].todo)
             next == IF Len(pJob[p].todo) = 1 THEN P!Idle
                     ELSE [step |-> "template", todo |-> Tail(pJob[p].todo)]
  <2>1. pJob[p].todo \in Seq(Server) /\ pJob[p].todo # <<>> /\ pJob[p] \in Passage
    BY <1>14 DEF P!ConfigureEnable, GatewayInv, Passage
  <2>2. s \in Server /\ servers[s] # None /\ servers[s].owner = p /\ Harmless(s)
    BY <1>14, <2>1 DEF P!ConfigureEnable, GatewayInv, Configuring
  <2>3. servers[s] \in Record
    BY <2>2 DEF GatewayInv
  <2>4. CASE ~servers[s].reviewed
    BY <1>11, <1>14, <2>4 DEF P!ConfigureEnable
  <2>5. CASE servers[s].reviewed
    <3>1. /\ servers' = [servers EXCEPT ![s] = [servers[s] EXCEPT !.enabled = TRUE]]
          /\ found' = [found EXCEPT ![p] = found[p] \cup {<<s, servers[s].owner>>}]
          /\ pJob' = [pJob EXCEPT ![p] = next] /\ raised' = raised \ {p}
          /\ UNCHANGED <<prompts, vetted>>
      BY <1>14, <2>2, <2>5 DEF P!ConfigureEnable
    <3>2. PICK r \in Record : r = [servers[s] EXCEPT !.enabled = TRUE]
      BY <2>3 DEF Record
    <3>3. r.owner = p /\ r # None /\ r.reviewed
      BY <1>0, <2>2, <2>3, <2>5, <3>2 DEF Record
    <3>4. /\ next \in Passage /\ next.step \in {"idle", "template"}
          /\ next.step # "idle" => next.todo # <<>>
          /\ next.step = "idle" => next = P!Idle
      <4>1. CASE Len(pJob[p].todo) = 1
        BY <4>1 DEF Passage, P!Idle
      <4>2. CASE Len(pJob[p].todo) # 1
        <5>1. Tail(pJob[p].todo) \in Seq(Server) /\ Tail(pJob[p].todo) # <<>>
          BY <2>1, <4>2, RestIsShorter
        <5> QED
          BY <4>2, <5>1 DEF Passage
      <4> QED
        BY <4>1, <4>2
    <3> HIDE DEF next
    <3>5. servers' \in [Server -> Record \cup {None}] /\ pJob' \in [Owner -> Passage]
      BY <3>1, <3>2, <3>4 DEF GatewayInv
    <3>6. \A x \in Server : Trusted(x)'
      BY <1>0, <2>2, <2>3, <3>1, <3>2, <3>3 DEF GatewayInv, Trusted, Harmless, Record
    <3>7. \A q \in Owner : Configuring(q)'
      <4> SUFFICES ASSUME NEW q \in Owner, pJob'[q].step \in {"review", "enable"}
                   PROVE  LET x == Head(pJob'[q].todo) IN
                          servers'[x] # None /\ servers'[x].owner = q /\ Harmless(x)
        BY DEF Configuring, Harmless
      <4>1. q # p /\ pJob'[q] = pJob[q]
        BY <3>1, <3>4 DEF GatewayInv
      <4> QED
        BY <2>2, <3>1, <4>1 DEF GatewayInv, Configuring
    <3>8. \A q \in Owner : AskedOnce(prompts[q])'
      BY <3>1 DEF GatewayInv, AskedOnce
    <3>9. <<s, servers[s].owner>> \in Server \X {p, Machine} /\ p \in Scope
      BY <2>2 DEF Scope
    <3> HIDE DEF s
    <3>10. found' \in [Owner -> SUBSET (Server \X Scope)] /\ \A q \in Owner : OwnOnly(q)'
      BY <3>1, <3>9 DEF GatewayInv, OwnOnly, Scope
    <3> QED
      BY <3>1, <3>4, <3>5, <3>6, <3>7, <3>8, <3>10 DEF GatewayInv
  <2> QED
    BY <2>4, <2>5
<1>15. CASE UNCHANGED P!pvars
  BY <1>15 DEF P!pvars, GatewayInv, Trusted, Harmless, Configuring, AskedOnce, OwnOnly
<1>16. ASSUME NEW p \in Owner, P!Crash(p) PROVE GatewayInv'
  BY <1>11, <1>16 DEF P!Crash
<1> QED
  BY <1>1, <1>2, <1>3, <1>4, <1>5, <1>6, <1>7, <1>8, <1>9, <1>10, <1>12, <1>13, <1>14, <1>15,
     <1>16 DEF P!Next

\* An enabled server is trusted, a project finds its own, and a human is asked once, in every
\* state.
LEMMA ServersHold ==
    Suggesting /\ SupplySpec =>
        [](P!TypeOK /\ P!EnabledIsTrusted /\ P!FoundIsOwn /\ P!PromptedOnce)
<1> SUFFICES ASSUME Suggesting
             PROVE  SupplySpec =>
                        [](P!TypeOK /\ P!EnabledIsTrusted /\ P!FoundIsOwn /\ P!PromptedOnce)
  OBVIOUS
<1>1. P!Init => GatewayInv
  BY GatewayInit
<1>2. GatewayInv /\ [P!Next]_(P!pvars) => GatewayInv'
  BY GatewayNext
<1>3. GatewayInv => P!TypeOK /\ P!EnabledIsTrusted /\ P!FoundIsOwn /\ P!PromptedOnce
  <2> SUFFICES ASSUME GatewayInv
               PROVE  P!TypeOK /\ P!EnabledIsTrusted /\ P!FoundIsOwn /\ P!PromptedOnce
    OBVIOUS
  <2>1. \A s \in Server : servers[s] # None => servers[s] \in Record
    BY DEF GatewayInv
  <2>2. P!TypeOK
    BY <2>1 DEF GatewayInv, P!TypeOK, Record, Scope, AskedOnce, P!Idle
  <2>3. P!EnabledIsTrusted
    BY <2>1 DEF GatewayInv, P!EnabledIsTrusted, Trusted, Harmless, Record
  <2>4. P!FoundIsOwn
    BY DEF GatewayInv, P!FoundIsOwn, OwnOnly
  <2>5. P!PromptedOnce
    BY DEF GatewayInv, P!PromptedOnce, AskedOnce
  <2> QED
    BY <2>2, <2>3, <2>4, <2>5
<1> QED
  BY <1>1, <1>2, <1>3, EachOnItsOwn, PTL DEF P!Spec

-----------------------------------------------------------------------------
(***************************************************************************)
(* Cache.                                                                  *)
(***************************************************************************)
\* There is some policy, an empty entry is no secret, and nobody edits the policy while a
\* prompt is assembled.
Filing == Version # {} /\ None \notin Sensitive /\ "edit_during" \notin Env

Content == Version \cup {None}
Keys    == [1..2 -> Content]

\* Whatever is stored or about to be stored under a key is the text with that key.
StoreInv ==
    /\ files \in Seq(Content) /\ Len(files) = 2
    /\ entries \in [Keys -> Keys \cup {None}] /\ tmp \in [Keys -> Keys \cup {None}]
    /\ \A k \in Keys : entries[k] # None => entries[k] = k /\ k \notin Sensitive
    /\ \A k \in Keys : tmp[k] # None => tmp[k] = k /\ k \notin Sensitive

\* A caller's hashes and its text are those of the files as far as it has come.
Beginning(seq) == Len(seq) <= 2 /\ \A i \in 1..Len(seq) : seq[i] = files[i]
CallerAt(c) ==
    /\ Len(hashes[c]) <= 2 /\ Len(text[c]) <= 2
    /\ pc[c] = "hash" => Beginning(hashes[c]) /\ Len(hashes[c]) < 2 /\ text[c] = <<>>
    /\ pc[c] \in {"get", "read", "put", "replace"} => hashes[c] = files
    /\ pc[c] = "get" => text[c] = <<>>
    /\ pc[c] = "read" => Beginning(text[c]) /\ Len(text[c]) < 2
    /\ pc[c] \in {"put", "replace"} => text[c] = files
    /\ pc[c] = "served" => text[c] = hashes[c]
CallerInv ==
    /\ pc \in [Caller -> {"idle", "hash", "get", "read", "put", "replace", "served", "raised"}]
    /\ hashes \in [Caller -> Seq(Content)] /\ text \in [Caller -> Seq(Content)]
    /\ \A c \in Caller : CallerAt(c)

CacheInv == StoreInv /\ CallerInv

\* The key of an artifact is the text of the files it was made from.
LEMMA KeysAreTexts ==
    ASSUME StoreInv
    PROVE  /\ files \in Keys /\ X!Key = Keys
           /\ \A s \in Seq(Content) : Len(s) = 2 /\ Beginning(s) => s = files
<1>1. files \in Keys
  <2>1. files \in [1..Len(files) -> Content]
    BY LenProperties DEF StoreInv
  <2> QED
    BY <2>1 DEF StoreInv, Keys
<1>2. X!Key = Keys
  BY DEF StoreInv, X!Key, Keys, Content
<1>3. \A s \in Seq(Content) : Len(s) = 2 /\ Beginning(s) => s = files
  BY DEF StoreInv, Beginning
<1> QED
  BY <1>1, <1>2, <1>3

\* Another file or another hash in its place makes the beginning longer.
LEMMA OneMore ==
    ASSUME StoreInv, NEW s \in Seq(Content), Beginning(s), Len(s) < 2
    PROVE  LET t == Append(s, files[Len(s) + 1]) IN
           /\ t \in Seq(Content) /\ Beginning(t) /\ Len(t) = Len(s) + 1
           /\ Len(t) = 2 => t = files
<1> DEFINE t == Append(s, files[Len(s) + 1])
<1>1. files[Len(s) + 1] \in Content /\ Len(s) \in Nat
  BY DEF StoreInv
<1>2. t \in Seq(Content) /\ Len(t) = Len(s) + 1
  BY <1>1
<1>3. Beginning(t)
  BY <1>1, <1>2 DEF Beginning
<1> QED
  BY <1>2, <1>3, KeysAreTexts

\* In the first state the cache is empty.
LEMMA CacheInit == Filing /\ X!Init => CacheInv
<1> SUFFICES ASSUME Filing, X!Init PROVE CacheInv
  OBVIOUS
<1>1. (CHOOSE v \in Version : TRUE) \in Version
  BY DEF Filing
<1>2. files \in Seq(Content) /\ Len(files) = 2
  BY <1>1 DEF X!Init, Content
<1>3. X!Key = Keys
  BY <1>2 DEF X!Key, Keys, Content
<1>4. StoreInv
  BY <1>2, <1>3 DEF X!Init, StoreInv
<1>5. CallerInv
  BY DEF X!Init, CallerInv, CallerAt
<1> QED
  BY <1>4, <1>5 DEF CacheInv

\* A caller that has read all the files goes on with what it read.
LEMMA CallerGoesOn ==
    ASSUME CallerInv, NEW c \in Caller, hashes[c] = files, text[c] = files,
           NEW step \in {"replace", "served", "raised"}, X!Goes(c, step),
           UNCHANGED <<files, hashes, text>>
    PROVE  CallerInv'
<1>1. /\ pc' \in [Caller -> {"idle", "hash", "get", "read", "put", "replace", "served", "raised"}]
      /\ pc'[c] = step /\ \A d \in Caller : d # c => pc'[d] = pc[d]
  BY DEF CallerInv, X!Goes
<1>2. ASSUME NEW d \in Caller PROVE CallerAt(d)'
  <2>1. CallerAt(d)
    BY DEF CallerInv
  <2>2. CASE d = c
    BY <1>1, <2>1, <2>2 DEF CallerAt
  <2>3. CASE d # c
    BY <1>1, <2>1, <2>3 DEF CallerAt, Beginning
  <2> QED
    BY <2>2, <2>3
<1> QED
  BY <1>1, <1>2 DEF CallerInv

\* Every step keeps the entries true to their keys.
LEMMA CacheNext == Filing /\ CacheInv /\ [X!Next]_(X!xvars) => CacheInv'
<1> SUFFICES ASSUME Filing, CacheInv, [X!Next]_(X!xvars) PROVE CacheInv'
  OBVIOUS
<1> USE DEF CacheInv
<1>0. /\ files \in Keys /\ X!Key = Keys
      /\ \A s \in Seq(Content) : Len(s) = 2 /\ Beginning(s) => s = files
  BY KeysAreTexts
<1>1. ASSUME NEW c \in Caller, X!Call(c) PROVE CacheInv'
  <2>1. StoreInv'
    BY <1>1 DEF X!Call, StoreInv
  <2>2. CallerInv'
    BY <1>1 DEF X!Call, X!Goes, CallerInv, CallerAt, Beginning
  <2> QED
    BY <2>1, <2>2
<1>2. ASSUME NEW c \in Caller, X!Hash(c) PROVE CacheInv'
  <2>1. StoreInv'
    BY <1>2 DEF X!Hash, StoreInv
  <2>0. PICK t : t = Append(hashes[c], files[Len(hashes[c]) + 1])
    OBVIOUS
  <2>2. /\ t \in Seq(Content) /\ Beginning(t) /\ Len(t) <= 2 /\ (Len(t) = 2 => t = files)
        /\ text[c] = <<>>
    BY <1>2, <2>0, OneMore DEF X!Hash, CallerInv, CallerAt
  <2>3. /\ hashes' = [hashes EXCEPT ![c] = t]
        /\ pc' = [pc EXCEPT ![c] = IF Len(t) = 2 THEN "get" ELSE "hash"]
        /\ UNCHANGED <<files, text>>
    BY <1>2, <2>0 DEF X!Hash, X!Goes, CallerInv, StoreInv
  <2>4. CallerInv'
    <3> SUFFICES ASSUME NEW d \in Caller PROVE CallerAt(d)'
      BY <2>2, <2>3 DEF CallerInv
    <3>1. CASE d = c
      <4>1. hashes'[c] = t /\ pc'[c] = (IF Len(t) = 2 THEN "get" ELSE "hash") /\ text'[c] = <<>>
        BY <2>2, <2>3 DEF CallerInv
      <4>2. Beginning(t)'
        BY <2>2, <2>3 DEF Beginning
      <4>3. Len(t) \in Nat /\ Len(<<>>) = 0
        BY <2>2
      <4>4. CASE Len(t) = 2
        <5>1. pc'[d] = "get" /\ hashes'[d] = files' /\ text'[d] = <<>>
          BY <2>2, <2>3, <3>1, <4>1, <4>4
        <5>2. Len(hashes[d])' <= 2 /\ Len(text[d])' <= 2
          BY <2>2, <3>1, <4>1, <4>3
        <5> QED
          BY <5>1, <5>2 DEF CallerAt
      <4>5. CASE Len(t) # 2
        <5>1. pc'[d] = "hash" /\ hashes'[d] = t /\ text'[d] = <<>>
          BY <3>1, <4>1, <4>5
        <5>4. Len(t) < 2
          <6>1. \A n \in Nat : n <= 2 /\ n # 2 => n < 2
            OBVIOUS
          <6> QED
            BY <2>2, <4>3, <4>5, <6>1, Zenon
        <5>2. Len(hashes[d])' < 2 /\ Len(text[d])' <= 2
          BY <4>3, <5>1, <5>4
        <5>3. Beginning(hashes[d])'
          BY <4>2, <5>1
        <5> QED
          BY <5>1, <5>2, <5>3 DEF CallerAt
      <4> QED
        BY <4>4, <4>5
    <3>2. CASE d # c
      BY <2>2, <2>3, <3>2 DEF CallerInv, CallerAt, Beginning
    <3> QED
      BY <3>1, <3>2
  <2> QED
    BY <2>1, <2>4
<1>3. ASSUME NEW c \in Caller, X!Get(c) PROVE CacheInv'
  <2>1. StoreInv'
    BY <1>3 DEF X!Get, StoreInv
  <2>2. hashes[c] = files /\ text[c] = <<>>
    BY <1>3 DEF X!Get, CallerInv, CallerAt
  <2>3. \/ text' = [text EXCEPT ![c] = files] /\ pc' = [pc EXCEPT ![c] = "served"]
        \/ text' = text /\ pc' = [pc EXCEPT ![c] = "read"]
    BY <1>0, <1>3, <2>2 DEF X!Get, X!Goes, X!KeyOf, StoreInv
  <2>4. files \in Seq(Content) /\ Len(files) = 2 /\ UNCHANGED <<files, hashes>>
    BY <1>3 DEF X!Get, StoreInv
  <2>5. CallerInv'
    <3> SUFFICES ASSUME NEW d \in Caller PROVE CallerAt(d)'
      BY <2>2, <2>3, <2>4 DEF CallerInv
    <3>1. CASE d = c
      BY <2>2, <2>3, <2>4, <3>1 DEF CallerInv, CallerAt, Beginning
    <3>2. CASE d # c
      BY <2>2, <2>3, <2>4, <3>2 DEF CallerInv, CallerAt, Beginning
    <3> QED
      BY <3>1, <3>2
  <2> QED
    BY <2>1, <2>5
<1>4. ASSUME NEW c \in Caller, X!Read(c) PROVE CacheInv'
  <2>1. StoreInv'
    BY <1>4 DEF X!Read, StoreInv
  <2>0. PICK t : t = Append(text[c], files[Len(text[c]) + 1])
    OBVIOUS
  <2>2. t \in Seq(Content) /\ Beginning(t) /\ Len(t) <= 2 /\ (Len(t) = 2 => t = files)
        /\ hashes[c] = files
    BY <1>4, <2>0, OneMore DEF X!Read, CallerInv, CallerAt
  <2>3. /\ text' = [text EXCEPT ![c] = t]
        /\ pc' = [pc EXCEPT ![c] = IF Len(t) = 2 THEN "put" ELSE "read"]
        /\ UNCHANGED <<files, hashes>>
    BY <1>4, <2>0 DEF X!Read, X!Goes, CallerInv, StoreInv
  <2>4. CallerInv'
    <3> SUFFICES ASSUME NEW d \in Caller PROVE CallerAt(d)'
      BY <2>2, <2>3 DEF CallerInv
    <3>1. CASE d = c
      <4>1. text'[c] = t /\ pc'[c] = (IF Len(t) = 2 THEN "put" ELSE "read") /\ hashes'[c] = files
        BY <2>2, <2>3 DEF CallerInv
      <4>2. Beginning(t)'
        BY <2>2, <2>3 DEF Beginning
      <4>3. Len(t) \in Nat
        BY <2>2
      <4>4. CASE Len(t) = 2
        <5>1. pc'[d] = "put" /\ text'[d] = files' /\ hashes'[d] = files'
          BY <2>2, <2>3, <3>1, <4>1, <4>4
        <5>2. Len(hashes[d])' <= 2 /\ Len(text[d])' <= 2
          <6>1. files' = files /\ Len(files) = 2
            BY <2>3 DEF StoreInv
          <6> QED
            BY <5>1, <6>1
        <5> QED
          BY <5>1, <5>2 DEF CallerAt
      <4>5. CASE Len(t) # 2
        <5>1. pc'[d] = "read" /\ text'[d] = t /\ hashes'[d] = files'
          BY <2>3, <3>1, <4>1, <4>5
        <5>4. Len(t) < 2
          <6>1. \A n \in Nat : n <= 2 /\ n # 2 => n < 2
            OBVIOUS
          <6> QED
            BY <2>2, <4>3, <4>5, <6>1, Zenon
        <5>2. Len(hashes[d])' <= 2 /\ Len(text[d])' < 2
          <6>1. files' = files /\ Len(files) = 2
            BY <2>3 DEF StoreInv
          <6> QED
            BY <5>1, <5>4, <6>1
        <5>3. Beginning(text[d])'
          BY <4>2, <5>1
        <5> QED
          BY <5>1, <5>2, <5>3 DEF CallerAt
      <4> QED
        BY <4>4, <4>5
    <3>2. CASE d # c
      BY <2>2, <2>3, <3>2 DEF CallerInv, CallerAt, Beginning
    <3> QED
      BY <3>1, <3>2
  <2> QED
    BY <2>1, <2>4
<1>5. ASSUME NEW c \in Caller, X!Put(c) PROVE CacheInv'
  <2>1. hashes[c] = files /\ text[c] = files
    BY <1>5 DEF X!Put, CallerInv, CallerAt
  <2>2. StoreInv'
    BY <1>0, <1>5, <2>1 DEF X!Put, X!KeyOf, StoreInv
  <2>3. CallerInv'
    BY <1>5, <2>1, CallerGoesOn DEF X!Put
  <2> QED
    BY <2>2, <2>3
<1>6. ASSUME NEW c \in Caller, X!Replace(c) PROVE CacheInv'
  <2>1. hashes[c] = files /\ text[c] = files
    BY <1>6 DEF X!Replace, CallerInv, CallerAt
  <2>2. PICK k \in Keys : k = files
    BY <1>0
  <2>3. ASSUME tmp[k] = None PROVE StoreInv'
    <3>1. UNCHANGED <<files, entries, tmp>>
      BY <1>6, <2>1, <2>2, <2>3 DEF X!Replace, X!KeyOf
    <3> QED
      BY <3>1 DEF StoreInv
  <2>4. ASSUME tmp[k] # None PROVE StoreInv'
    <3>1. /\ entries' = [entries EXCEPT ![k] = tmp[k]] /\ tmp' = [tmp EXCEPT ![k] = None]
          /\ files' = files
      BY <1>6, <2>1, <2>2, <2>4 DEF X!Replace, X!KeyOf
    <3>2. tmp[k] = k /\ k \notin Sensitive
      BY <2>4 DEF StoreInv
    <3> QED
      BY <3>1, <3>2 DEF StoreInv
  <2>5. CallerInv'
    BY <1>6, <2>1, CallerGoesOn DEF X!Replace
  <2> QED
    BY <2>3, <2>4, <2>5
<1>7. ASSUME NEW c \in Caller, X!Return(c) PROVE CacheInv'
  BY <1>7 DEF X!Return, X!Goes, StoreInv, CallerInv, CallerAt, Beginning
<1>8. ASSUME NEW k \in X!Key, X!Invalidate(k) PROVE CacheInv'
  BY <1>0, <1>8 DEF X!Invalidate, StoreInv, CallerInv, CallerAt, Beginning
<1>9. ASSUME NEW i \in DOMAIN files, NEW v \in Content, X!EditPolicy(i, v) PROVE CacheInv'
  <2>1. files' \in Seq(Content) /\ Len(files') = 2
    BY <1>9 DEF X!EditPolicy, StoreInv
  <2>2. StoreInv'
    BY <1>9, <2>1 DEF X!EditPolicy, StoreInv
  <2>3. \A c \in Caller : pc[c] \in {"idle", "raised"}
    BY <1>9 DEF X!EditPolicy, Filing
  <2>4. CallerInv'
    BY <1>9, <2>3 DEF X!EditPolicy, CallerInv, CallerAt
  <2> QED
    BY <2>2, <2>4
<1>10. CASE UNCHANGED X!xvars
  BY <1>10 DEF X!xvars, StoreInv, CallerInv, CallerAt, Beginning
<1> QED
  BY <1>1, <1>2, <1>3, <1>4, <1>5, <1>6, <1>7, <1>8, <1>9, <1>10 DEF X!Next, Content

\* What the cache serves is current, and nothing sensitive is in it, in every state.
LEMMA CacheHolds ==
    Filing /\ SupplySpec => [](X!TypeOK /\ X!ServedIsCurrent /\ X!NothingSensitive)
<1> SUFFICES ASSUME Filing
             PROVE  SupplySpec => [](X!TypeOK /\ X!ServedIsCurrent /\ X!NothingSensitive)
  OBVIOUS
<1>1. X!Init => CacheInv
  BY CacheInit
<1>2. CacheInv /\ [X!Next]_(X!xvars) => CacheInv'
  BY CacheNext
<1>3. CacheInv => X!TypeOK /\ X!ServedIsCurrent /\ X!NothingSensitive
  <2> SUFFICES ASSUME CacheInv PROVE X!TypeOK /\ X!ServedIsCurrent /\ X!NothingSensitive
    OBVIOUS
  <2>1. X!TypeOK
    BY KeysAreTexts DEF CacheInv, StoreInv, CallerInv, CallerAt, X!TypeOK
  <2>2. X!ServedIsCurrent
    BY DEF CacheInv, CallerInv, CallerAt, X!ServedIsCurrent
  <2>3. X!NothingSensitive
    BY KeysAreTexts DEF CacheInv, StoreInv, Filing, X!NothingSensitive
  <2> QED
    BY <2>1, <2>2, <2>3
<1> QED
  BY <1>1, <1>2, <1>3, EachOnItsOwn, PTL DEF X!Spec

-----------------------------------------------------------------------------
(***************************************************************************)
(* Cooling.                                                                *)
(***************************************************************************)
\* Windows lie within a day, amounts of time are not negative, and the shortest cooldown is
\* not longer than the longest.
Clocked ==
    /\ Day \in Nat \ {0} /\ CycleLength \in Nat
    /\ Windows \subseteq [start : 0..(Day - 1), stop : 0..(Day - 1)] \cup {None}
    /\ Cool \in [success : Nat, failure : Nat, platform : Nat, limit : Nat, least : Nat, most : Nat]
    /\ Cool.least <= Cool.most
    /\ Hints \subseteq Nat \cup {None} /\ MaxRecovery \in Nat
    /\ MaxTime \in Nat /\ MaxStreak \in Nat /\ MaxFails \in Nat

\* The smaller and the larger of two numbers.
LEMMA AtMostAtLeast ==
    ASSUME NEW a \in Int, NEW b \in Int
    PROVE  /\ O!AtMost(a, b) = IF a <= b THEN a ELSE b
           /\ O!AtLeast(a, b) = IF a >= b THEN a ELSE b
<1>1. PICK l \in {a, b} : \A y \in {a, b} : l <= y
  OBVIOUS
<1>2. PICK m \in {a, b} : \A y \in {a, b} : m >= y
  OBVIOUS
<1>3. O!AtMost(a, b) = CHOOSE x \in {a, b} : \A y \in {a, b} : x <= y
  BY DEF O!AtMost, O!Min
<1>4. O!AtLeast(a, b) = CHOOSE x \in {a, b} : \A y \in {a, b} : x >= y
  BY DEF O!AtLeast, O!Max
<1> QED
  BY <1>1, <1>2, <1>3, <1>4

\* A remainder is the only one.
LEMMA OneRemainder ==
    ASSUME NEW L \in Nat \ {0}, NEW q \in Int, NEW r \in 0..(L - 1)
    PROVE  (L * q + r) % L = r
<1> DEFINE n == L * q + r
           p == n \div L
           s == n % L
<1>1. n \in Int /\ p \in Int /\ s \in 0..(L - 1) /\ n = L * p + s
  OBVIOUS
<1>2. L * (q - p) = s - r
  BY <1>1
<1>3. q - p < 1
  <2> SUFFICES ASSUME q - p >= 1 PROVE FALSE
    BY <1>1
  <2>1. L * (q - p) >= L
    BY <1>1
  <2> QED
    BY <2>1, <1>1, <1>2
<1>4. p - q < 1
  <2> SUFFICES ASSUME p - q >= 1 PROVE FALSE
    BY <1>1
  <2>1. L * (p - q) >= L
    BY <1>1
  <2>2. L * (p - q) = r - s
    BY <1>1, <1>2
  <2> QED
    BY <2>1, <2>2, <1>1
<1>5. p = q
  BY <1>1, <1>3, <1>4
<1> QED
  BY <1>1, <1>5

\* Time goes on within a day, or into the next one.
LEMMA DayGoesOn ==
    ASSUME NEW L \in Nat \ {0}, NEW n \in Nat, NEW d \in Nat
    PROVE  /\ n % L \in 0..(L - 1)
           /\ (n % L) + d < L => (n + d) % L = (n % L) + d
           /\ L <= (n % L) + d /\ (n % L) + d < L + L => (n + d) % L = (n % L) + d - L
<1> DEFINE q == n \div L
           r == n % L
<1>1. n = L * q + r /\ q \in Int /\ r \in 0..(L - 1)
  OBVIOUS
<1>2. ASSUME r + d < L PROVE (n + d) % L = r + d
  <2>1. n + d = L * q + (r + d) /\ r + d \in 0..(L - 1)
    BY <1>1, <1>2
  <2> HIDE DEF q, r
  <2> QED
    BY <2>1, <1>1, OneRemainder
<1>3. ASSUME L <= r + d, r + d < L + L PROVE (n + d) % L = r + d - L
  <2> HIDE DEF q, r
  <2>0. L * (q + 1) = L * q + L /\ L * q \in Int
    BY <1>1
  <2>1. n + d = L * (q + 1) + (r + d - L) /\ r + d - L \in 0..(L - 1) /\ q + 1 \in Int
    BY <1>1, <1>3, <2>0
  <2> QED
    BY <2>1, <1>1, OneRemainder
<1> QED
  BY <1>1, <1>2, <1>3

CoolInv ==
    /\ now \in 0..MaxTime /\ window \in Windows
    /\ began # None => began \in Nat
    /\ oNextRun # None => oNextRun \in Int /\ oNextRun <= now + Cool.most
    /\ oStreak \in 0..MaxStreak /\ told \in Hints \cup {None}

\* The breaker's entry has all of its fields, and what the backend has said stands in it.
EntryInv ==
    /\ entry = [state |-> entry.state, until |-> entry.until, kind |-> entry.kind,
                fails |-> entry.fails, since |-> entry.since, history |-> entry.history]
    /\ entry.state \in {"available", "degraded", "shut"} /\ entry.fails \in 0..MaxFails
    /\ stated # None => stated \in Int /\ entry.until = stated

WaitInv == CoolInv /\ EntryInv /\ O!WindowKept

\* A cycle that fits into the window when it begins stays in it to its end, also over midnight.
LEMMA WindowFits ==
    ASSUME Clocked, window \in Windows, now \in Nat, O!Eligible,
           NEW t \in now..(now + CycleLength)
    PROVE  O!Inside(t % Day)
<1> DEFINE m == now % Day
<1>1. CASE window = None
  BY <1>1 DEF O!Inside
<1>2. CASE window # None
  <2>1. window.start \in 0..(Day - 1) /\ window.stop \in 0..(Day - 1)
    BY <1>2 DEF Clocked
  <2>2. PICK d \in 0..CycleLength : t = now + d
    <3>1. t - now \in 0..CycleLength /\ t = now + (t - now)
      BY DEF Clocked
    <3> QED
      BY <3>1
  <2>3. /\ m \in 0..(Day - 1)
        /\ m + d < Day => t % Day = m + d
        /\ Day <= m + d /\ m + d < Day + Day => t % Day = m + d - Day
    <3>1. Day \in Nat \ {0} /\ d \in Nat
      BY DEF Clocked
    <3>2. /\ now % Day \in 0..(Day - 1)
          /\ (now % Day) + d < Day => (now + d) % Day = (now % Day) + d
          /\ Day <= (now % Day) + d /\ (now % Day) + d < Day + Day =>
                 (now + d) % Day = (now % Day) + d - Day
      BY <3>1, DayGoesOn
    <3> QED
      BY <2>2, <3>2
  <2>4. O!Inside(m) /\ O!Left(m) >= CycleLength
    BY <1>2 DEF O!Eligible
  <2> HIDE DEF m
  <2> QED
    BY <1>2, <2>1, <2>2, <2>3, <2>4 DEF O!Inside, O!Left, Clocked
<1> QED
  BY <1>1, <1>2

\* A cooldown is a number and no longer than the longest.
LEMMA CooldownIsBounded ==
    ASSUME Clocked, CoolInv, NEW n \in Nat,
           NEW outcome \in {"success", "failure", "platform", "limit"}
    PROVE  O!Cooldown(outcome, told, n) \in Nat /\ O!Cooldown(outcome, told, n) <= Cool.most
<1>1. O!AtMost(O!AtLeast(n, 1), 4) \in 1..4
  BY AtMostAtLeast
<1>2. \A i \in 1..4 : O!Growth[i] \in Nat
  BY DEF O!Growth
<1>3. Cool.success \in Nat /\ Cool.platform \in Nat /\ Cool.limit \in Nat /\ Cool.failure \in Nat
      /\ Cool.least \in Nat /\ Cool.most \in Nat /\ Cool.least <= Cool.most
  BY DEF Clocked
<1> DEFINE grown == Cool.failure * O!Growth[O!AtMost(O!AtLeast(n, 1), 4)]
           minutes == CASE outcome = "success"  -> Cool.success
                        [] outcome = "platform" -> Cool.platform
                        [] outcome = "limit"    -> IF told \in {None, 0} THEN Cool.limit ELSE told
                        [] OTHER -> grown
<1>4. grown \in Nat
  BY <1>1, <1>2, <1>3
<1>5. told \notin {None, 0} => told \in Nat
  BY DEF CoolInv, Clocked
<1>6. minutes \in Nat
  <2> HIDE DEF grown
  <2> QED
    BY <1>3, <1>4, <1>5
<1>7. O!Cooldown(outcome, told, n) = O!AtLeast(Cool.least, O!AtMost(minutes, Cool.most))
  BY DEF O!Cooldown
<1> HIDE DEF minutes
<1>8. O!AtMost(minutes, Cool.most) \in Nat /\ O!AtMost(minutes, Cool.most) <= Cool.most
  BY <1>3, <1>6, AtMostAtLeast
<1> QED
  BY <1>3, <1>7, <1>8, AtMostAtLeast

\* In the first state nothing waits.
LEMMA WaitInit == Clocked /\ O!Init => WaitInv
<1> SUFFICES ASSUME Clocked, O!Init PROVE WaitInv
  OBVIOUS
<1>1. CoolInv
  BY DEF O!Init, CoolInv, Clocked
<1>2. EntryInv
  BY DEF O!Init, EntryInv, Clocked
<1>3. O!WindowKept
  BY DEF O!Init, O!WindowKept
<1> QED
  BY <1>1, <1>2, <1>3 DEF WaitInv

\* Every step keeps what is known of the waits.
LEMMA WaitNext == Clocked /\ WaitInv /\ [O!Next]_(O!ovars) => WaitInv'
<1> SUFFICES ASSUME Clocked, WaitInv, [O!Next]_(O!ovars) PROVE WaitInv'
  OBVIOUS
<1> USE DEF WaitInv
<1>1. CASE O!Begin
  <2>1. CoolInv'
    BY <1>1 DEF O!Begin, CoolInv, Clocked
  <2>2. EntryInv'
    BY <1>1 DEF O!Begin, EntryInv
  <2>3. O!WindowKept'
    <3> SUFFICES ASSUME NEW t \in now..(now + CycleLength) PROVE O!Inside(t % Day)'
      BY <1>1 DEF O!Begin, O!WindowKept
    <3>0. now \in Nat /\ window \in Windows
      BY DEF CoolInv, Clocked
    <3>1. O!Inside(t % Day)
      BY <1>1, <3>0, WindowFits DEF O!Begin
    <3> QED
      BY <1>1, <3>1 DEF O!Begin, O!Inside
  <2> QED
    BY <2>1, <2>2, <2>3
<1>2. CASE O!Succeeds
  <2>1. CoolInv'
    BY <1>2 DEF O!Succeeds, CoolInv
  <2>2. EntryInv'
    <3> DEFINE h == IF entry.since = None THEN entry.history
                    ELSE LET all == Append(entry.history, now - entry.since) IN
                         SubSeq(all, O!AtLeast(1, Len(all) - Keep + 1), Len(all))
    <3>1. entry' = [entry EXCEPT !.state = "available", !.until = None, !.fails = 0, !.since = None,
                                 !.history = h]
      BY <1>2 DEF O!Succeeds, EntryInv
    <3> HIDE DEF h
    <3>2. entry' = [state |-> "available", until |-> None, kind |-> entry.kind, fails |-> 0,
                    since |-> None, history |-> h]
      BY <3>1 DEF EntryInv
    <3>3. stated' = None /\ 0 \in 0..MaxFails
      BY <1>2 DEF O!Succeeds, Clocked
    <3> QED
      BY <3>2, <3>3 DEF EntryInv
  <2>3. O!WindowKept'
    BY <1>2 DEF O!Succeeds, O!WindowKept, O!Inside
  <2> QED
    BY <2>1, <2>2, <2>3
<1>3. ASSUME NEW what \in {"limit", "outage"}, NEW hint \in Hints, O!Fails(what, hint)
      PROVE  WaitInv'
  <2>1. CoolInv'
    BY <1>3 DEF O!Fails, CoolInv
  <2>2. EntryInv'
    <3> DEFINE e == [entry EXCEPT !.kind = what, !.fails = @ + 1,
                              !.since = IF @ = None THEN now ELSE @]
               wait == O!Wait(e, what, hint)
    <3> DEFINE s == IF entry.since = None THEN now ELSE entry.since
    <3>1. e = [state |-> entry.state, until |-> entry.until, kind |-> what,
               fails |-> entry.fails + 1, since |-> s, history |-> entry.history]
      <4> DEFINE a == entry.state  b == entry.until  k == entry.kind  n == entry.fails
                 o == entry.since  h == entry.history
      <4>1. entry = [state |-> a, until |-> b, kind |-> k, fails |-> n, since |-> o, history |-> h]
        BY DEF EntryInv
      <4>2. e = [entry EXCEPT !.kind = what, !.fails = n + 1, !.since = s]
        OBVIOUS
      <4> HIDE DEF a, b, k, n, o, h, s, e
      <4>3. e = [state |-> a, until |-> b, kind |-> what, fails |-> n + 1, since |-> s,
                 history |-> h]
        BY <4>1, <4>2
      <4> QED
        BY <4>3 DEF a, b, n, h
    <3>2. hint \notin {None, 0} => /\ wait = O!AtMost(hint, MaxRecovery)
                                   /\ O!AtMost(hint, MaxRecovery) \in Int
      <4> SUFFICES ASSUME hint \notin {None, 0}
                   PROVE  wait = O!AtMost(hint, MaxRecovery) /\ O!AtMost(hint, MaxRecovery) \in Int
        OBVIOUS
      <4>1. hint \in Int /\ MaxRecovery \in Int
        BY DEF Clocked
      <4>2. O!AtMost(hint, MaxRecovery) \in Int
        BY <4>1, AtMostAtLeast
      <4> HIDE DEF e
      <4>3. wait = O!AtMost(hint, MaxRecovery)
        BY Zenon DEF O!Wait
      <4> QED
        BY <4>2, <4>3
    <3>3. \/ /\ entry' = [e EXCEPT !.state = "shut", !.until = now + wait]
             /\ stated' = IF hint \in {None, 0} THEN None ELSE now + O!AtMost(hint, MaxRecovery)
          \/ entry' = [e EXCEPT !.state = "degraded"] /\ stated' = stated
      BY <1>3 DEF O!Fails
    <3> HIDE DEF e, wait, s
    <3>4. entry.fails + 1 \in 0..MaxFails
      BY <1>3 DEF O!Fails, EntryInv, Clocked
    <3>5. CASE entry' = [e EXCEPT !.state = "degraded"] /\ stated' = stated
      <4>1. entry' = [state |-> "degraded", until |-> entry.until, kind |-> what,
                      fails |-> entry.fails + 1, since |-> s, history |-> entry.history]
        BY <3>1, <3>5
      <4>2. /\ entry'.state = "degraded" /\ entry'.until = entry.until
            /\ entry'.fails = entry.fails + 1
        BY <4>1
      <4>3. entry' = [state |-> entry'.state, until |-> entry'.until, kind |-> entry'.kind,
                      fails |-> entry'.fails, since |-> entry'.since, history |-> entry'.history]
        BY <4>1
      <4> QED
        BY <3>4, <3>5, <4>2, <4>3 DEF EntryInv
    <3>6. CASE /\ entry' = [e EXCEPT !.state = "shut", !.until = now + wait]
               /\ stated' = IF hint \in {None, 0} THEN None ELSE now + O!AtMost(hint, MaxRecovery)
      <4>1. entry' = [state |-> "shut", until |-> now + wait, kind |-> what,
                      fails |-> entry.fails + 1, since |-> s, history |-> entry.history]
        BY <3>1, <3>6
      <4>2. stated' # None => stated' \in Int /\ now + wait = stated'
        BY <3>2, <3>6 DEF CoolInv
      <4> QED
        BY <3>4, <4>1, <4>2 DEF EntryInv
    <3> QED
      BY <3>3, <3>5, <3>6
  <2>3. O!WindowKept'
    BY <1>3 DEF O!Fails, O!WindowKept, O!Inside
  <2> QED
    BY <2>1, <2>2, <2>3
<1>4. ASSUME NEW outcome \in {"success", "failure", "platform", "limit"}, O!Finish(outcome)
      PROVE  WaitInv'
  <2>1. oStreak' \in 0..MaxStreak
    BY <1>4, AtMostAtLeast DEF O!Finish, CoolInv, Clocked
  <2>2. /\ O!Cooldown(outcome, told, oStreak') \in Nat
        /\ O!Cooldown(outcome, told, oStreak') <= Cool.most
    BY <2>1, CooldownIsBounded
  <2>3. CoolInv'
    BY <1>4, <2>1, <2>2 DEF O!Finish, CoolInv, Clocked
  <2>4. EntryInv' /\ O!WindowKept'
    BY <1>4 DEF O!Finish, EntryInv, O!WindowKept
  <2> QED
    BY <2>3, <2>4
<1>5. CASE O!TimePasses
  <2>1. CoolInv'
    BY <1>5 DEF O!TimePasses, CoolInv, Clocked
  <2>2. EntryInv' /\ O!WindowKept'
    BY <1>5 DEF O!TimePasses, EntryInv, O!WindowKept, O!Inside
  <2> QED
    BY <2>1, <2>2
<1>6. CASE UNCHANGED O!ovars
  BY <1>6 DEF O!ovars, CoolInv, EntryInv, O!WindowKept, O!Inside
<1> QED
  BY <1>1, <1>2, <1>3, <1>4, <1>5, <1>6 DEF O!Next

\* No cycle is outside its window, and what was stated of a wait is respected, in every state.
LEMMA CoolingHolds == Clocked /\ SupplySpec => [](O!TypeOK /\ O!WindowKept /\ O!StatedIsRespected)
<1> SUFFICES ASSUME Clocked PROVE SupplySpec => [](O!TypeOK /\ O!WindowKept /\ O!StatedIsRespected)
  OBVIOUS
<1>1. O!Init => WaitInv
  BY WaitInit
<1>2. WaitInv /\ [O!Next]_(O!ovars) => WaitInv'
  BY WaitNext
<1>3. WaitInv => O!TypeOK /\ O!WindowKept /\ O!StatedIsRespected
  <2> SUFFICES ASSUME WaitInv PROVE O!TypeOK /\ O!StatedIsRespected
    BY DEF WaitInv
  <2>1. O!TypeOK
    BY DEF WaitInv, CoolInv, EntryInv, O!TypeOK
  <2>2. O!StatedIsRespected
    BY DEF WaitInv, CoolInv, EntryInv, O!StatedIsRespected, O!Callable
  <2> QED
    BY <2>1, <2>2
<1> QED
  BY <1>1, <1>2, <1>3, EachOnItsOwn, PTL DEF O!Spec

-----------------------------------------------------------------------------
(***************************************************************************)
(* The prompt.                                                             *)
(***************************************************************************)
\* Candidates are items with ids of their own, and one with the content of a mandatory item is
\* mandatory; what is optional has an allocation, and what is mandatory none.
ItemOf(V) == [id : V, category : V, tokens : Nat, relevance : V, trust : V, content : V,
              path : V, span : V, supersedes : V]
Offered == B!Elements(Material)
Composed ==
    /\ \E V : Material \in Seq(ItemOf(V))
    /\ \A i, j \in Offered : i.id = j.id => i = j
    /\ \A i, j \in Offered : i.content = j.content /\ B!IsMandatory(i) => B!IsMandatory(j)
    /\ \A i \in Offered : B!IsMandatory(i) <=> i.category \notin DOMAIN Percent
    /\ Percent \in [DOMAIN Percent -> Nat]
    /\ ModelWindows \subseteq Nat /\ Reserve \in Nat
    /\ MinPiece \in Nat \ {0} /\ Factor \in Nat /\ Marker \in Nat

\* Tokens add up over a set of items.
LEMMA TokensAddUp ==
    ASSUME NEW S, IsFiniteSet(S), \A i \in S : i.tokens \in Nat
    PROVE  /\ B!Tokens(S) \in Nat
           /\ S = {} => B!Tokens(S) = 0
           /\ \A i \in S : B!Tokens(S) = i.tokens + B!Tokens(S \ {i})
           /\ \A part \in SUBSET S : B!Tokens(part) <= B!Tokens(S)
<1>1. ASSUME NEW T PROVE B!Tokens(T) = Total([i \in T |-> i.tokens], T)
  BY DEF B!Tokens, B!MapThenSumSet, B!MapThenFoldSet, Total, Adds, Some
<1>2. PICK f : f = [i \in S |-> i.tokens]
  OBVIOUS
<1>3. Summable(f, S)
  BY <1>2 DEF Summable
<1>4. ASSUME NEW T \in SUBSET S PROVE B!Tokens(T) = Total(f, T) /\ Summable(f, T)
  <2>1. Summable(f, T)
    BY <1>3, FS_Subset DEF Summable
  <2>2. PICK g : g = [i \in T |-> i.tokens]
    OBVIOUS
  <2>3. \A i \in T : g[i] = f[i]
    BY <1>2, <2>2
  <2>4. Total(g, T) = Total(f, T)
    BY <2>1, <2>3, SumSame
  <2> QED
    BY <1>1, <2>1, <2>2, <2>4
<1>5. B!Tokens(S) = Total(f, S)
  BY <1>4
<1>6. \A part \in SUBSET S : B!Tokens(part) <= B!Tokens(S)
  BY <1>3, <1>4, <1>5, SumOfPart
<1>7. \A i \in S : B!Tokens(S) = i.tokens + B!Tokens(S \ {i})
  <2>1. SUFFICES ASSUME NEW i \in S PROVE B!Tokens(S) = i.tokens + B!Tokens(S \ {i})
    OBVIOUS
  <2>2. Total(f, S) = f[i] + Total(f, S \ {i}) /\ f[i] = i.tokens
    BY <1>2, <1>3, SumWithout
  <2>3. B!Tokens(S \ {i}) = Total(f, S \ {i})
    BY <1>4
  <2> QED
    BY <1>5, <2>2, <2>3
<1> QED
  BY <1>3, <1>5, <1>6, <1>7, SumWithout

\* A call has a part of the candidates.
LEMMA ItemsFromCandidates ==
    ASSUME NEW S, NEW seq \in Seq(S), NEW part PROVE B!Only(seq, part) \in Seq(S \cap part)
<1>1. B!Only(seq, part) = Part(seq, part)
  BY DEF B!Only, Part, Parts
<1> QED
  BY <1>1, PartInBoth

\* The elements of a sequence with one more.
LEMMA ElementsOf ==
    ASSUME NEW S, NEW seq \in Seq(S)
    PROVE  /\ B!Elements(seq) \in SUBSET S /\ IsFiniteSet(B!Elements(seq))
           /\ \A x \in S : B!Elements(Append(seq, x)) = B!Elements(seq) \cup {x}
<1>1. PICK n \in Nat : n = Len(seq)
  OBVIOUS
<1>2. \A i \in 1..n : seq[i] \in S
  BY <1>1
<1>3. B!Elements(seq) = {seq[i] : i \in 1..n}
  BY <1>1 DEF B!Elements
<1>4. IsFiniteSet(B!Elements(seq))
  <2>1. IsFiniteSet(1..n)
    BY FS_Interval
  <2>2. PICK f : f = [i \in 1..n |-> seq[i]]
    OBVIOUS
  <2>3. f \in Surjection(1..n, B!Elements(seq))
    BY <1>3, <2>2 DEF Surjection
  <2> QED
    BY <2>1, <2>3, FS_Surjection
<1>5. ASSUME NEW x \in S PROVE B!Elements(Append(seq, x)) = B!Elements(seq) \cup {x}
  <2>1. PICK longer : longer = Append(seq, x)
    OBVIOUS
  <2>2. /\ longer \in Seq(S) /\ Len(longer) = n + 1
        /\ \A i \in 1..n : longer[i] = seq[i]
        /\ longer[n + 1] = x
    BY <1>1, <2>1
  <2>3. B!Elements(longer) = {longer[i] : i \in 1..(n + 1)}
    BY <2>2 DEF B!Elements
  <2>4. \A i \in 1..(n + 1) : i \in 1..n \/ i = n + 1
    OBVIOUS
  <2>5. \A i \in 1..n : i \in 1..(n + 1)
    OBVIOUS
  <2>6. n + 1 \in 1..(n + 1)
    OBVIOUS
  <2> QED
    BY <1>3, <2>1, <2>2, <2>3, <2>4, <2>5, <2>6
<1> QED
  BY <1>2, <1>3, <1>4, <1>5

\* What is dropped as a duplicate of what was kept before it.
Drops(x, all, g) == B!Replaced(x, all) \/ B!Repeats(x, g) \/ B!Within(x, g)
Filtered(g, seq) ==
    g = [n \in 0..Len(seq) |->
            IF n = 0 THEN <<>>
            ELSE IF \/ B!Replaced(seq[n], B!Elements(seq))
                    \/ B!Repeats(seq[n], B!Elements(g[n - 1]))
                    \/ B!Within(seq[n], B!Elements(g[n - 1]))
                 THEN g[n - 1] ELSE Append(g[n - 1], seq[n])]
Distinct(seq) == (CHOOSE g : Filtered(g, seq))[Len(seq)]

\* Of what is no piece of code and is not replaced, the content is kept.
LEMMA ContentIsKept ==
    ASSUME NEW S, NEW seq \in Seq(S)
    PROVE  /\ Distinct(seq) \in Seq(B!Elements(seq))
           /\ \A x \in B!Elements(seq) :
                  x.category # "code" /\ ~B!Replaced(x, B!Elements(seq)) =>
                      B!Repeats(x, B!Elements(Distinct(seq)))
<1>1. PICK n \in Nat : n = Len(seq)
  OBVIOUS
<1>2. PICK all : all = B!Elements(seq)
  OBVIOUS
<1>3. PICK V : V = Seq(all)
  OBVIOUS
<1>4. <<>> \in V /\ \A i \in 1..n : seq[i] \in all
  BY <1>1, <1>2, <1>3 DEF B!Elements
<1>5. ASSUME NEW i \in 1..n, NEW g \in V PROVE Append(g, seq[i]) \in V
  <2>1. g \in Seq(all) /\ seq[i] \in all
    BY <1>3, <1>4
  <2>2. Append(g, seq[i]) \in Seq(all)
    BY <2>1
  <2> QED
    BY <1>3, <2>2
<1>6. \E g : Filtered(g, seq)
  <2>1. PICK F : F = [i \in 1..n |-> [g \in V |->
                        IF Drops(seq[i], all, B!Elements(g)) THEN g ELSE Append(g, seq[i])]]
    OBVIOUS
  <2>2. PICK a : a = <<>>
    OBVIOUS
  <2>3. Stepwise(n, V, a, F)
    <3>1. \A i \in 1..n : \A g \in V :
              (IF Drops(seq[i], all, B!Elements(g)) THEN g ELSE Append(g, seq[i])) \in V
      BY <1>5
    <3>2. F \in [1..n -> [V -> V]]
      BY <2>1, <3>1
    <3> QED
      BY <1>4, <2>2, <3>2 DEF Stepwise
  <2>4. PICK g : Follows(g, n, V, a, F)
    BY <2>3, RecursionExists
  <2>5. g \in [0..n -> V] /\ g[0] = <<>> /\ \A i \in 1..n : g[i] = F[i][g[i - 1]]
    BY <2>2, <2>4 DEF Follows
  <2>6. \A i \in 1..n : g[i] = IF Drops(seq[i], all, B!Elements(g[i - 1]))
                               THEN g[i - 1] ELSE Append(g[i - 1], seq[i])
    <3>1. \A i \in 1..n : g[i - 1] \in V
      BY <2>5
    <3> QED
      BY <2>1, <2>5, <3>1
  <2>7. \A i \in 0..n :
            g[i] = IF i = 0 THEN <<>>
                   ELSE IF Drops(seq[i], all, B!Elements(g[i - 1]))
                        THEN g[i - 1] ELSE Append(g[i - 1], seq[i])
    <3>1. \A i \in 0..n : i # 0 => i \in 1..n
      OBVIOUS
    <3> QED
      BY <2>5, <2>6, <3>1
  <2>8. g = [i \in 0..n |->
                IF i = 0 THEN <<>>
                ELSE IF Drops(seq[i], all, B!Elements(g[i - 1]))
                     THEN g[i - 1] ELSE Append(g[i - 1], seq[i])]
    BY <2>5, <2>7
  <2>9. Filtered(g, seq)
    BY <1>1, <1>2, <2>8 DEF Filtered, Drops
  <2> QED
    BY <2>9
<1>7. PICK h : h = CHOOSE g : Filtered(g, seq)
  OBVIOUS
<1>8. Filtered(h, seq)
  BY <1>6, <1>7
<1>9. h = [i \in 0..n |->
              IF i = 0 THEN <<>>
              ELSE IF Drops(seq[i], all, B!Elements(h[i - 1]))
                   THEN h[i - 1] ELSE Append(h[i - 1], seq[i])]
  BY <1>1, <1>2, <1>8 DEF Filtered, Drops
<1>10. h[0] = <<>> /\ \A i \in 1..n :
           h[i] = IF Drops(seq[i], all, B!Elements(h[i - 1]))
                  THEN h[i - 1] ELSE Append(h[i - 1], seq[i])
  <2>1. 0 \in 0..n /\ \A i \in 1..n : i \in 0..n /\ i # 0
    OBVIOUS
  <2> QED
    BY <1>9, <2>1
<1>11. \A i \in 0..n : h[i] \in V
  <2>1. \A i \in 1..n : h[i - 1] \in V => h[i] \in V
    BY <1>5, <1>10
  <2>2. h[0] \in V
    BY <1>4, <1>10
  <2> QED
    BY <2>1, <2>2, Induction
<1>12. ASSUME NEW i \in 1..n
       PROVE  /\ B!Elements(h[i - 1]) \in SUBSET B!Elements(h[i])
              /\ seq[i].category # "code" /\ ~B!Replaced(seq[i], all) =>
                     B!Repeats(seq[i], B!Elements(h[i]))
  <2>1. h[i - 1] \in Seq(all) /\ seq[i] \in all
    <3>1. i - 1 \in 0..n
      OBVIOUS
    <3> QED
      BY <1>3, <1>4, <1>11, <3>1
  <2>2. CASE Drops(seq[i], all, B!Elements(h[i - 1]))
    <3>1. h[i] = h[i - 1]
      BY <1>10, <2>2
    <3> QED
      BY <2>2, <3>1 DEF Drops, B!Within
  <2>3. CASE ~Drops(seq[i], all, B!Elements(h[i - 1]))
    <3>1. h[i] = Append(h[i - 1], seq[i])
      BY <1>10, <2>3
    <3>2. B!Elements(h[i]) = B!Elements(h[i - 1]) \cup {seq[i]}
      BY <2>1, <3>1, ElementsOf
    <3> QED
      BY <3>2 DEF B!Repeats
  <2> QED
    BY <2>2, <2>3
<1>13. ASSUME NEW k \in 1..n, seq[k].category # "code", ~B!Replaced(seq[k], all)
       PROVE  B!Repeats(seq[k], B!Elements(h[n]))
  <2>1. PICK good : good = {i \in 0..n : i >= k => B!Repeats(seq[k], B!Elements(h[i]))}
    OBVIOUS
  <2>2. PICK f : f = [i \in 0..n |-> i]
    OBVIOUS
  <2>3. \A i \in 1..n : i - 1 \in good => i \in good
    <3>1. SUFFICES ASSUME NEW i \in 1..n, i - 1 \in good, i >= k
                   PROVE  B!Repeats(seq[k], B!Elements(h[i]))
      BY <2>1
    <3>2. CASE i = k
      BY <1>12, <1>13, <3>2
    <3>3. CASE i # k
      <4>1. i - 1 >= k
        BY <3>1, <3>3
      <4>2. B!Repeats(seq[k], B!Elements(h[i - 1]))
        BY <2>1, <3>1, <4>1
      <4> QED
        BY <1>12, <4>2 DEF B!Repeats
    <3> QED
      BY <3>2, <3>3
  <2>4. f[0] \in good /\ \A i \in 1..n : f[i - 1] \in good => f[i] \in good
    <3>1. 0 \in good
      BY <2>1
    <3>2. \A i \in 1..n : i - 1 \in 0..n /\ i \in 0..n
      OBVIOUS
    <3> QED
      BY <2>2, <2>3, <3>1, <3>2
  <2>5. \A i \in 0..n : f[i] \in good
    BY <2>4, Induction
  <2>6. n \in 0..n /\ n >= k
    OBVIOUS
  <2> QED
    BY <2>1, <2>2, <2>5, <2>6
<1>14. Distinct(seq) = h[n] /\ h[n] \in Seq(all)
  <2>1. n \in 0..n
    OBVIOUS
  <2> QED
    BY <1>1, <1>3, <1>7, <1>11, <2>1 DEF Distinct
<1>15. \A x \in all : \E k \in 1..n : x = seq[k]
  BY <1>1, <1>2 DEF B!Elements
<1> QED
  BY <1>2, <1>13, <1>14, <1>15

Names(S)     == {i.id : i \in S}
Must         == {i \in B!Elements(items) : B!IsMandatory(i)}
\* An item, or an optional one with another number of tokens.
From(j, i)   == j = i \/ (~B!IsMandatory(i) /\ \E n \in Nat : j = [i EXCEPT !.tokens = n])
Group(S, c)  == {i \in S : i.category = c}
Allotted(S, b) ==
    \A c \in DOMAIN Percent : B!WithinCap(Group(S, c), (b * Percent[c]) \div 100)

\* What was admitted is an item of the call, nothing mandatory is missing, and every item is in
\* one place.
Admission ==
    /\ \A j \in package : \E i \in B!Elements(items) : From(j, i)
    /\ \A i, j \in package : i.id = j.id => i = j
    /\ IsFiniteSet(package) /\ Must \subseteq package
    /\ waiting \subseteq B!Elements(items) \ Must
    /\ Names(package) \cap Names(waiting) = {}
    /\ omitted \cap Names(package \cup waiting) = {}
    /\ Names(given) = omitted \cup Names(package \cup waiting)
    /\ Allotted(package, budget)

PromptTypes ==
    /\ stage \in {"dedup", "mandatory", "optional", "render", "done", "failed"}
    /\ items \in Seq(Offered) /\ given \subseteq Offered /\ B!Elements(items) \subseteq given
    /\ budget \in Nat
    /\ Names(package \cup waiting) \cup omitted \subseteq Names(given)

PromptInv ==
    /\ PromptTypes
    /\ stage = "dedup" => /\ package = {} /\ waiting = {} /\ omitted = {}
                          /\ given = B!Elements(items)
    /\ stage = "mandatory" => /\ package = {} /\ waiting = {}
                              /\ omitted = Names(given \ B!Elements(items))
    /\ stage \notin {"dedup", "failed"} =>
           \A i \in given : B!IsMandatory(i) /\ ~B!Replaced(i, given) =>
               B!Repeats(i, B!Elements(items))
    /\ stage \in {"optional", "render", "done"} => Admission
    /\ stage \in {"render", "done"} => waiting = {}
    /\ stage = "done" => B!Rendered(package) <= budget

\* What the candidates are.
LEMMA OfferedAreItems ==
    ASSUME Composed
    PROVE  /\ Material \in Seq(Offered)
           /\ \A i \in Offered : \A n \in Nat :
                  /\ i.tokens \in Nat
                  /\ [i EXCEPT !.tokens = n].id = i.id
                  /\ [i EXCEPT !.tokens = n].category = i.category
                  /\ [i EXCEPT !.tokens = n].tokens = n
                  /\ [i EXCEPT !.tokens = n].content = i.content
<1>1. PICK V : Material \in Seq(ItemOf(V))
  BY DEF Composed
<1>2. Offered \in SUBSET ItemOf(V)
  BY <1>1, ElementsOf DEF Offered
<1>3. Material \in Seq(Offered)
  <2>1. PICK n \in Nat : n = Len(Material)
    BY <1>1
  <2>2. Material \in [1..n -> Offered]
    BY <1>1, <2>1 DEF Offered, B!Elements
  <2> QED
    BY <2>2
<1>4. \A i \in ItemOf(V) : \A n \in Nat :
          /\ i.tokens \in Nat
          /\ [i EXCEPT !.tokens = n].id = i.id
          /\ [i EXCEPT !.tokens = n].category = i.category
          /\ [i EXCEPT !.tokens = n].tokens = n
          /\ [i EXCEPT !.tokens = n].content = i.content
  BY DEF ItemOf
<1> QED
  BY <1>2, <1>3, <1>4

\* What is admitted has the name, the category and the duty of the item it came from.
LEMMA AdmittedAreItems ==
    ASSUME Composed, PromptTypes, NEW i \in Offered, NEW j, From(j, i)
    PROVE  /\ j.id = i.id /\ j.category = i.category /\ j.tokens \in Nat
           /\ (B!IsMandatory(j) <=> B!IsMandatory(i)) /\ (B!IsMandatory(j) => j = i)
<1>1. i.tokens \in Nat /\ (j = i \/ \E n \in Nat : j = [i EXCEPT !.tokens = n])
  BY OfferedAreItems DEF From
<1>2. j.id = i.id /\ j.category = i.category /\ j.tokens \in Nat
  <2>1. CASE j = i
    BY <1>1, <2>1
  <2>2. CASE j # i
    <3>1. PICK n \in Nat : j = [i EXCEPT !.tokens = n]
      BY <1>1, <2>2
    <3>2. /\ [i EXCEPT !.tokens = n].id = i.id /\ [i EXCEPT !.tokens = n].category = i.category
          /\ [i EXCEPT !.tokens = n].tokens = n
      BY OfferedAreItems
    <3> QED
      BY <3>1, <3>2
  <2> QED
    BY <2>1, <2>2
<1>3. B!IsMandatory(j) <=> B!IsMandatory(i)
  BY <1>2 DEF B!IsMandatory
<1> QED
  BY <1>2, <1>3 DEF From

\* The allocations, in the next state as in this one.
LEMMA WithinLater ==
    /\ Allotted(package', budget') => Allotted(package, budget)'
    /\ B!Rendered(package') <= budget' => (B!Rendered(package) <= budget)'
BY DEF Allotted, Group, B!WithinCap, B!CutMost, B!Estimate, B!Tokens,
       B!MapThenSumSet, B!MapThenFoldSet, B!Rendered

\* In the first state nothing is admitted.
LEMMA PromptBegins == ASSUME Composed, B!Init PROVE PromptInv
<1>1. PICK part : items = B!Only(Material, part)
  BY DEF B!Init
<1>2. items \in Seq(Offered)
  <2>1. items \in Seq(Offered \cap part)
    BY <1>1, OfferedAreItems, ItemsFromCandidates
  <2> QED
    BY <2>1
<1>3. B!Elements(items) \in SUBSET Offered
  BY <1>2, ElementsOf
<1>4. budget \in Nat
  <2>1. PICK width \in ModelWindows : width > Reserve /\ budget = width - Reserve
    BY DEF B!Init
  <2> QED
    BY <2>1 DEF Composed
<1> QED
  BY <1>2, <1>3, <1>4 DEF B!Init, PromptInv, PromptTypes, Names

\* What is left out as a duplicate is on record.
LEMMA DeduplicateKeeps == ASSUME Composed, PromptInv, B!Deduplicate PROVE PromptInv'
<1>1. /\ stage = "dedup" /\ package = {} /\ waiting = {} /\ omitted = {}
      /\ given = B!Elements(items) /\ items \in Seq(Offered) /\ given \subseteq Offered
      /\ budget \in Nat /\ UNCHANGED <<given, budget, package, waiting>>
  BY DEF B!Deduplicate, PromptInv, PromptTypes
<1>2. CASE \E i \in given : i.trust = "untrusted" /\ i.category \in B!PolicyBearing
  <2>1. stage' = "failed" /\ items' = items /\ omitted' = omitted
    BY <1>2 DEF B!Deduplicate
  <2> QED
    BY <1>1, <2>1 DEF PromptInv, PromptTypes, Names
<1>3. CASE ~\E i \in given : i.trust = "untrusted" /\ i.category \in B!PolicyBearing
  <2>1. PICK left : left = Distinct(items)
    OBVIOUS
  <2>2. B!Unique(items) = left
    BY <2>1 DEF B!Unique, Distinct, Filtered
  <2>3. /\ stage' = "mandatory" /\ items' = left
        /\ omitted' = {i.id : i \in given \ B!Elements(left)}
    BY <1>3, <2>2 DEF B!Deduplicate
  <2>4. /\ left \in Seq(given)
        /\ \A x \in given : x.category # "code" /\ ~B!Replaced(x, given) =>
               B!Repeats(x, B!Elements(left))
    BY <1>1, <2>1, ContentIsKept
  <2>5. B!Elements(left) \in SUBSET given
    BY <2>4, ElementsOf
  <2>6. left \in Seq(Offered)
    BY <1>1, <2>4
  <2>7. \A x \in given : B!IsMandatory(x) => x.category # "code"
    BY DEF B!IsMandatory, B!Mandatory
  <2>8. PromptTypes'
    BY <1>1, <2>3, <2>5, <2>6 DEF PromptTypes, Names, B!Elements
  <2>9. \A i \in given : B!IsMandatory(i) /\ ~B!Replaced(i, given) =>
            B!Repeats(i, B!Elements(left))
    BY <2>4, <2>7
  <2> QED
    BY <1>1, <2>3, <2>8, <2>9 DEF PromptInv, Names, B!Elements, B!Repeats, B!Replaced, B!IsMandatory
<1> QED
  BY <1>2, <1>3

\* Once the candidates are chosen nothing is replaced any more.
Onward ==
    /\ UNCHANGED <<items, given, budget>>
    /\ Names(package' \cup waiting') \cup omitted' \subseteq Names(given)
    /\ stage' \in {"mandatory", "optional", "render", "done", "failed"}
    /\ stage \in {"mandatory", "optional", "render"}

\* What is left to show of a step that does not touch the candidates.
LEMMA OnwardKeeps ==
    ASSUME PromptInv, Onward, stage' # "mandatory",
           stage' \in {"optional", "render", "done"} => Admission',
           stage' \in {"render", "done"} => waiting' = {},
           stage' = "done" => B!Rendered(package') <= budget'
    PROVE  PromptInv'
<1>1. PromptTypes'
  BY DEF PromptInv, PromptTypes, Onward, Names, B!Elements
<1>2. stage' \notin {"dedup", "failed"} =>
          \A i \in given : B!IsMandatory(i) /\ ~B!Replaced(i, given) =>
              B!Repeats(i, B!Elements(items))
  BY DEF PromptInv, Onward
<1>3. (\A i \in given : B!IsMandatory(i) /\ ~B!Replaced(i, given) =>
           B!Repeats(i, B!Elements(items)))' <=>
      (\A i \in given : B!IsMandatory(i) /\ ~B!Replaced(i, given) =>
           B!Repeats(i, B!Elements(items)))
  BY DEF Onward, B!IsMandatory, B!Replaced, B!Repeats, B!Elements
<1> QED
  BY <1>1, <1>2, <1>3, WithinLater DEF PromptInv, Onward

\* All of what is mandatory or nothing.
LEMMA AdmitMandatoryKeeps == ASSUME Composed, PromptInv, B!AdmitMandatory PROVE PromptInv'
<1>1. PICK all : all = B!Elements(items)
  OBVIOUS
<1>2. PICK must : must = {i \in all : B!IsMandatory(i)}
  OBVIOUS
<1>3. /\ stage = "mandatory" /\ package = {} /\ waiting = {} /\ omitted = Names(given \ all)
      /\ items \in Seq(Offered) /\ all \subseteq given /\ given \subseteq Offered
      /\ budget \in Nat /\ UNCHANGED <<items, given, budget, omitted>>
  BY <1>1 DEF B!AdmitMandatory, PromptInv, PromptTypes
<1>4. CASE stage' = "failed" /\ UNCHANGED <<package, waiting>>
  <2>1. Onward
    BY <1>3, <1>4 DEF Onward, Names
  <2> QED
    BY <1>4, <2>1, OnwardKeeps
<1>5. CASE stage' = "optional" /\ package' = must /\ waiting' = all \ must
  <2>1. package' \cup waiting' = all /\ must \subseteq all
    BY <1>2, <1>5
  <2>2. Names(given) = Names(given \ all) \cup Names(all)
    BY <1>3 DEF Names
  <2>3. Onward
    BY <1>3, <1>5, <2>1, <2>2 DEF Onward
  <2>4. \A i, j \in given : i.id = j.id => i = j
    BY <1>3 DEF Composed
  <2>5. Names(must) \cap Names(all \ must) = {} /\ Names(given \ all) \cap Names(all) = {}
    BY <1>3, <2>1, <2>4 DEF Names
  <2>6. IsFiniteSet(must)
    BY <1>1, <1>3, <2>1, ElementsOf, FS_Subset
  <2>7. Allotted(must, budget)
    <3>1. SUFFICES ASSUME NEW c \in DOMAIN Percent
                   PROVE  B!WithinCap(Group(must, c), (budget * Percent[c]) \div 100)
      BY DEF Allotted
    <3>2. Group(must, c) = {}
      BY <1>2, <1>3 DEF Group, Composed
    <3>3. B!Tokens({}) = 0
      BY FS_EmptySet, TokensAddUp
    <3>4. PICK q \in Nat : q = budget * Percent[c]
      BY <1>3 DEF Composed
    <3>5. q \div 100 \in Nat /\ B!Tokens(Group(must, c)) <= q \div 100
      BY <3>2, <3>3
    <3> QED
      BY <3>4, <3>5 DEF B!WithinCap
  <2>8. Allotted(package, budget)'
    BY <1>3, <1>5, <2>7, WithinLater
  <2>9. Must' = must /\ B!Elements(items)' = all
    BY <1>1, <1>2, <1>3 DEF Must, B!Elements, B!IsMandatory
  <2>10. \A j \in package' : \E i \in all : From(j, i)
    BY <1>5, <2>1 DEF From
  <2>11. Names(package)' = Names(must) /\ Names(waiting)' = Names(all \ must)
         /\ Names(package \cup waiting)' = Names(all) /\ Names(given)' = Names(given)
    BY <1>3, <1>5, <2>1 DEF Names
  <2>12. \A i, j \in must : i.id = j.id => i = j
    BY <1>3, <2>1, <2>4
  <2>13. Admission'
    BY <1>3, <1>5, <2>1, <2>2, <2>5, <2>6, <2>8, <2>9, <2>10, <2>11, <2>12
       DEF Admission, From, B!IsMandatory
  <2> QED
    BY <1>5, <2>3, <2>13, OnwardKeeps
<1> QED
  BY <1>1, <1>2, <1>4, <1>5 DEF B!AdmitMandatory

\* The prompt of this moment as a set of items.
LEMMA PackageTypes ==
    ASSUME Composed, PromptTypes, Admission
    PROVE  /\ \A j \in package : j.tokens \in Nat
           /\ \A c : IsFiniteSet(Group(package, c)) /\ B!Tokens(Group(package, c)) \in Nat
           /\ B!Tokens(package) \in Nat
           /\ \A c \in DOMAIN Percent : (budget * Percent[c]) \div 100 \in Nat
<1>1. \A j \in package : j.tokens \in Nat
  <2>1. SUFFICES ASSUME NEW j \in package PROVE j.tokens \in Nat
    OBVIOUS
  <2>2. PICK i \in B!Elements(items) : From(j, i)
    BY DEF Admission
  <2>3. i \in Offered
    BY DEF PromptTypes
  <2> QED
    BY <2>2, <2>3, AdmittedAreItems
<1>2. ASSUME NEW c PROVE IsFiniteSet(Group(package, c)) /\ B!Tokens(Group(package, c)) \in Nat
  <2>1. Group(package, c) \in SUBSET package /\ IsFiniteSet(package)
    BY DEF Group, Admission
  <2>2. IsFiniteSet(Group(package, c))
    BY <2>1, FS_Subset
  <2> QED
    BY <1>1, <2>1, <2>2, TokensAddUp
<1>3. B!Tokens(package) \in Nat
  BY <1>1, TokensAddUp DEF Admission
<1>4. ASSUME NEW c \in DOMAIN Percent PROVE (budget * Percent[c]) \div 100 \in Nat
  <2>1. PICK q \in Nat : q = budget * Percent[c]
    BY DEF Composed, PromptTypes
  <2>2. q \div 100 \in Nat
    OBVIOUS
  <2> QED
    BY <2>1, <2>2
<1> QED
  BY <1>1, <1>2, <1>3, <1>4

\* What an item may take is a number.
LEMMA AllowedIsNat ==
    ASSUME Composed, PromptTypes, Admission, NEW i, i.category \in DOMAIN Percent
    PROVE  B!Allowed(i) \in Nat /\ B!Remaining \in Nat
<1>1. PICK c : c = i.category
  OBVIOUS
<1>2. PICK cap \in Nat : cap = (budget * Percent[c]) \div 100
  BY <1>1, PackageTypes
<1>3. PICK taken \in Nat : taken = B!Tokens(Group(package, c))
  BY PackageTypes
<1>4. B!Share(c) = IF taken >= cap THEN 0 ELSE cap - taken
  BY <1>2, <1>3 DEF B!Share, Group
<1>5. B!Remaining \in Nat
  <2>1. B!Tokens(package) \in Nat /\ budget \in Nat
    BY PackageTypes DEF PromptTypes
  <2> QED
    BY <2>1 DEF B!Remaining
<1> QED
  BY <1>1, <1>4, <1>5 DEF B!Allowed

\* Of an allocation there is left what an item may take.
LEMMA ShareIsLeft ==
    ASSUME Composed, PromptTypes, Admission, NEW i, i.category \in DOMAIN Percent,
           B!Allowed(i) > 0
    PROVE  B!Tokens(Group(package, i.category)) + B!Allowed(i) <=
               (budget * Percent[i.category]) \div 100
<1>1. PICK c : c = i.category
  OBVIOUS
<1>2. PICK cap \in Nat : cap = (budget * Percent[c]) \div 100
  BY <1>1, PackageTypes
<1>3. PICK taken \in Nat : taken = B!Tokens(Group(package, c))
  BY PackageTypes
<1>4. B!Share(c) = IF taken >= cap THEN 0 ELSE cap - taken
  BY <1>2, <1>3 DEF B!Share, Group
<1>5. PICK rest \in Nat : rest = B!Remaining
  BY AllowedIsNat
<1>6. B!Allowed(i) = IF B!Share(c) < rest THEN B!Share(c) ELSE rest
  BY <1>1, <1>5 DEF B!Allowed
<1>7. PICK most \in Nat : most = B!Allowed(i)
  BY AllowedIsNat
<1>8. most > 0 /\ most <= IF taken >= cap THEN 0 ELSE cap - taken
  BY <1>4, <1>6, <1>7
<1>9. taken + most <= cap
  BY <1>8
<1> QED
  BY <1>1, <1>2, <1>3, <1>7, <1>9

\* More may be left of an item that is allowed more.
LEMMA CutsGrow ==
    ASSUME Composed, NEW m \in Nat, NEW n \in Nat, m <= n
    PROVE  B!CutMost(m) \in Nat /\ B!CutMost(n) \in Nat /\ B!CutMost(m) <= B!CutMost(n)
<1>1. PICK f \in Nat, k \in Nat : f = Factor /\ k = Marker
  BY DEF Composed
<1>2. PICK d \in Nat : n = m + d
  <2>1. n - m \in Nat /\ n = m + (n - m)
    OBVIOUS
  <2> QED
    BY <2>1
<1>3. PICK low \in Nat, more \in Nat : low = (3 * m + k) * f /\ more = (3 * d) * f
  <2>1. (3 * m + k) \in Nat /\ (3 * d) \in Nat
    OBVIOUS
  <2>2. \A a, b \in Nat : a * b \in Nat
    OBVIOUS
  <2>3. (3 * m + k) * f \in Nat /\ (3 * d) * f \in Nat
    BY <2>1, <2>2
  <2> QED
    BY <2>3
<1>4. (3 * n + k) * f = low + more
  <2>1. PICK a \in Nat, b \in Nat : a = 3 * m + k /\ b = 3 * d
    OBVIOUS
  <2>2. 3 * n + k = a + b
    BY <1>2, <2>1
  <2>3. (a + b) * f = a * f + b * f
    OBVIOUS
  <2> QED
    BY <1>3, <2>1, <2>2, <2>3
<1>5. /\ B!CutMost(m) = (low + 399) \div 400
      /\ B!CutMost(n) = (low + more + 399) \div 400
  BY <1>1, <1>3, <1>4 DEF B!CutMost, B!Estimate
<1>6. /\ (low + 399) \div 400 \in Nat /\ (low + more + 399) \div 400 \in Nat
      /\ (low + 399) \div 400 <= (low + more + 399) \div 400
  OBVIOUS
<1> QED
  BY <1>5, <1>6

\* What is left of an item is a number of tokens.
LEMMA CutIsNat ==
    ASSUME Composed, NEW n \in Nat PROVE B!CutLeast(n) \in Nat /\ B!CutMost(n) \in Nat
<1>1. PICK f \in Nat, k \in Nat : f = Factor /\ k = Marker
  BY DEF Composed
<1>2. PICK low \in Nat : low = (n + 1 + k) * f
  <2>1. \A a, b \in Nat : a * b \in Nat
    OBVIOUS
  <2>2. (n + 1 + k) * f \in Nat
    BY <2>1
  <2> QED
    BY <2>2
<1>3. B!CutLeast(n) = (low + 399) \div 400
  BY <1>1, <1>2 DEF B!CutLeast, B!Estimate
<1>4. (low + 399) \div 400 \in Nat
  OBVIOUS
<1> QED
  BY <1>3, <1>4, CutsGrow

\* What is left of a group keeps to its allocation.
LEMMA PartIsAllotted ==
    ASSUME Composed, NEW S, IsFiniteSet(S), \A i \in S : i.tokens \in Nat, NEW T \in SUBSET S,
           NEW cap \in Nat, B!WithinCap(S, cap)
    PROVE  B!WithinCap(T, cap)
<1>1. ASSUME NEW Q \in SUBSET S, NEW R \in SUBSET Q
      PROVE  B!Tokens(R) \in Nat /\ B!Tokens(Q) \in Nat /\ B!Tokens(R) <= B!Tokens(Q)
  <2>1. IsFiniteSet(Q) /\ IsFiniteSet(R) /\ R \in SUBSET S
    BY FS_Subset
  <2> QED
    BY <2>1, TokensAddUp
<1>2. CASE B!Tokens(S) <= cap
  <2>1. B!Tokens(T) \in Nat /\ B!Tokens(S) \in Nat /\ B!Tokens(T) <= B!Tokens(S)
    BY <1>1
  <2>2. B!Tokens(T) <= cap
    BY <1>2, <2>1
  <2> QED
    BY <2>2 DEF B!WithinCap
<1>3. CASE \E i \in S : B!Tokens(S \ {i}) + MinPiece <= cap /\
                        i.tokens <= B!CutMost(cap - B!Tokens(S \ {i}))
  <2>1. PICK i \in S : B!Tokens(S \ {i}) + MinPiece <= cap /\
                       i.tokens <= B!CutMost(cap - B!Tokens(S \ {i}))
    BY <1>3
  <2>2. PICK rest \in Nat, least \in Nat : rest = B!Tokens(S \ {i}) /\ least = MinPiece
    BY <1>1 DEF Composed
  <2>3. CASE i \notin T
    <3>1. T \in SUBSET (S \ {i})
      BY <2>3
    <3>2. B!Tokens(T) \in Nat /\ B!Tokens(T) <= rest
      BY <1>1, <2>2, <3>1
    <3>3. B!Tokens(T) <= cap
      BY <2>1, <2>2, <3>2
    <3> QED
      BY <3>3 DEF B!WithinCap
  <2>4. CASE i \in T
    <3>1. T \ {i} \in SUBSET (S \ {i})
      OBVIOUS
    <3>2. PICK left \in Nat : left = B!Tokens(T \ {i}) /\ left <= rest
      BY <1>1, <2>2, <3>1
    <3>3. left + least <= cap
      BY <2>1, <2>2, <3>2
    <3>4. cap - rest \in Nat /\ cap - left \in Nat /\ cap - rest <= cap - left
      BY <2>1, <2>2, <3>2
    <3>5. /\ B!CutMost(cap - rest) \in Nat /\ B!CutMost(cap - left) \in Nat
          /\ B!CutMost(cap - rest) <= B!CutMost(cap - left)
      BY <3>4, CutsGrow
    <3>6. i.tokens \in Nat /\ i.tokens <= B!CutMost(cap - rest)
      BY <2>1, <2>2
    <3>7. i.tokens <= B!CutMost(cap - left)
      BY <3>5, <3>6
    <3> QED
      BY <2>2, <2>4, <3>2, <3>3, <3>7 DEF B!WithinCap
  <2> QED
    BY <2>3, <2>4
<1> QED
  BY <1>2, <1>3 DEF B!WithinCap

\* What an item may take: what it is allowed, or what a cut leaves of it.
Takable(i, n) == /\ B!Allowed(i) > 0
                 /\ \/ n <= B!Allowed(i)
                    \/ B!Allowed(i) >= MinPiece /\ n <= B!CutMost(B!Allowed(i))

\* An item that takes no more than it may leaves every category within its allocation.
LEMMA TakenIsAllotted ==
    ASSUME Composed, PromptTypes, Admission, NEW i \in Offered, i.category \in DOMAIN Percent,
           NEW j, j.category = i.category, j.tokens \in Nat, Takable(i, j.tokens),
           j \notin package
    PROVE  Allotted(package \cup {j}, budget)
<1>1. PICK fuller : fuller = package \cup {j}
  OBVIOUS
<1>2. SUFFICES ASSUME NEW c \in DOMAIN Percent
               PROVE  B!WithinCap(Group(fuller, c), (budget * Percent[c]) \div 100)
  BY <1>1 DEF Allotted
<1>3. B!WithinCap(Group(package, c), (budget * Percent[c]) \div 100)
  BY DEF Admission, Allotted
<1>4. CASE c # i.category
  <2>1. Group(fuller, c) = Group(package, c)
    BY <1>1, <1>4 DEF Group
  <2> QED
    BY <1>3, <2>1
<1>5. CASE c = i.category
  <2>1. PICK S : S = Group(fuller, c)
    OBVIOUS
  <2>2. j \in S /\ S \ {j} = Group(package, c)
    BY <1>1, <1>5, <2>1 DEF Group
  <2>3. IsFiniteSet(S) /\ \A k \in S : k.tokens \in Nat
    <3>1. IsFiniteSet(Group(package, c)) /\ \A k \in Group(package, c) : k.tokens \in Nat
      BY PackageTypes DEF Group
    <3>2. S = Group(package, c) \cup {j}
      BY <2>2
    <3> QED
      BY <3>1, <3>2, FS_AddElement
  <2>4. B!Tokens(S) = j.tokens + B!Tokens(Group(package, c))
    BY <2>2, <2>3, TokensAddUp
  <2>5. PICK taken \in Nat, cap \in Nat, most \in Nat :
           /\ taken = B!Tokens(Group(package, c)) /\ cap = (budget * Percent[c]) \div 100
           /\ most = B!Allowed(i)
    BY PackageTypes, AllowedIsNat
  <2>6. most > 0 /\ taken + most <= cap
    BY <1>5, <2>5, ShareIsLeft DEF Takable
  <2>7. CASE j.tokens <= most
    <3>1. B!Tokens(S) <= cap
      BY <2>4, <2>5, <2>6, <2>7
    <3> QED
      BY <2>1, <2>5, <3>1 DEF B!WithinCap
  <2>8. CASE most >= MinPiece /\ j.tokens <= B!CutMost(most)
    <3>1. PICK least \in Nat : least = MinPiece
      BY DEF Composed
    <3>2. B!Tokens(S \ {j}) = taken
      BY <2>2, <2>5
    <3>3. taken + least <= cap
      BY <2>6, <2>8, <3>1
    <3>4. cap - taken \in Nat /\ most <= cap - taken
      BY <2>5, <2>6
    <3>5. /\ B!CutMost(most) \in Nat /\ B!CutMost(cap - taken) \in Nat
          /\ B!CutMost(most) <= B!CutMost(cap - taken)
      BY <3>4, CutsGrow
    <3>6. j.tokens <= B!CutMost(cap - taken)
      BY <2>8, <3>5
    <3> QED
      BY <2>1, <2>2, <2>5, <3>1, <3>2, <3>6, <3>3 DEF B!WithinCap
  <2> QED
    BY <2>5, <2>7, <2>8 DEF Takable
<1> QED
  BY <1>4, <1>5

\* An optional item is taken, cut to what is allowed, or left out.
LEMMA AdmitKeeps ==
    ASSUME Composed, PromptInv, NEW i \in waiting, B!Admit(i) PROVE PromptInv'
<1>1. /\ stage = "optional" /\ stage' = "optional" /\ UNCHANGED <<items, given, budget>>
      /\ PromptTypes /\ Admission
  BY DEF B!Admit, PromptInv
<1>2. PICK all : all = B!Elements(items)
  OBVIOUS
<1>3. /\ i \in all /\ i \in Offered /\ all \subseteq Offered /\ all \subseteq given
      /\ given \subseteq Offered /\ ~B!IsMandatory(i) /\ i.category \in DOMAIN Percent
      /\ budget \in Nat /\ i.tokens \in Nat
  <2>1. i \in all /\ ~B!IsMandatory(i) /\ all \subseteq Offered /\ all \subseteq given
    BY <1>1, <1>2 DEF Admission, Must, PromptTypes
  <2> QED
    BY <1>1, <2>1, OfferedAreItems DEF PromptTypes, Composed
<1>4. Must' = Must /\ B!Elements(items)' = all /\ Names(given)' = Names(given)
  BY <1>1, <1>2 DEF Must, B!Elements, B!IsMandatory, Names
<1>5. \A j, k \in all : j.id = k.id => j = k
  BY <1>3 DEF Composed
<1>6. waiting \subseteq all
  BY <1>1, <1>2 DEF Admission
<1>7. Names(waiting \ {i}) = Names(waiting) \ {i.id} /\ i.id \in Names(waiting)
  BY <1>5, <1>6 DEF Names
<1>8. ASSUME NEW j, From(j, i), j.tokens \in Nat, Takable(i, j.tokens), B!Takes(i, j)
      PROVE  PromptInv'
  <2>1. package' = package \cup {j} /\ waiting' = waiting \ {i} /\ omitted' = omitted
    BY <1>8 DEF B!Takes
  <2>2. j.id = i.id /\ j.category = i.category /\ ~B!IsMandatory(j)
    BY <1>1, <1>3, <1>8, AdmittedAreItems
  <2>3. i.id \notin Names(package) /\ i.id \notin omitted
    BY <1>1, <1>7 DEF Admission, Names
  <2>4. j \notin package
    BY <2>2, <2>3 DEF Names
  <2>5. Allotted(package \cup {j}, budget)
    BY <1>1, <1>3, <1>8, <2>2, <2>4, TakenIsAllotted
  <2>6. Allotted(package, budget)'
    BY <1>1, <2>1, <2>5, WithinLater
  <2>7. Names(package') = Names(package) \cup {i.id} /\ Names(waiting') = Names(waiting) \ {i.id}
    BY <1>7, <2>1, <2>2 DEF Names
  <2>8. Names(package' \cup waiting') = Names(package \cup waiting)
    <3>1. \A S, T : Names(S \cup T) = Names(S) \cup Names(T)
      BY DEF Names
    <3>2. Names(package' \cup waiting') = Names(package') \cup Names(waiting')
      BY <3>1
    <3>3. Names(package \cup waiting) = Names(package) \cup Names(waiting)
      BY <3>1
    <3> QED
      BY <1>7, <2>7, <3>2, <3>3
  <2>9. \A k, m \in package' : k.id = m.id => k = m
    <3>1. \A k \in package : k.id # j.id
      BY <2>2, <2>3 DEF Names
    <3> QED
      BY <1>1, <2>1, <3>1 DEF Admission
  <2>10. IsFiniteSet(package')
    BY <1>1, <2>1, FS_AddElement DEF Admission
  <2>11. \A k \in package' : \E m \in all : From(k, m)
    BY <1>1, <1>2, <1>3, <1>8, <2>1 DEF Admission
  <2>12. (\A k \in package : \E m \in B!Elements(items) : From(k, m))'
    BY <1>4, <2>11 DEF From, B!IsMandatory
  <2>13. Must' \subseteq package' /\ waiting' \subseteq all \ Must'
    BY <1>1, <1>2, <1>4, <2>1 DEF Admission
  <2>14. /\ Names(package') \cap Names(waiting') = {}
         /\ omitted' \cap Names(package' \cup waiting') = {}
         /\ Names(given) = omitted' \cup Names(package' \cup waiting')
    BY <1>1, <2>1, <2>7, <2>8 DEF Admission
  <2>15. Names(package)' = Names(package') /\ Names(waiting)' = Names(waiting')
         /\ Names(package \cup waiting)' = Names(package' \cup waiting')
    BY DEF Names
  <2>16. Admission'
    BY <1>4, <2>6, <2>9, <2>10, <2>12, <2>13, <2>14, <2>15 DEF Admission
  <2>17. Onward
    BY <1>1, <2>14 DEF Onward
  <2> QED
    BY <1>1, <2>16, <2>17, OnwardKeeps
<1>9. ASSUME omitted' = omitted \cup {i.id}, waiting' = waiting \ {i}, package' = package
      PROVE  PromptInv'
  <2>1. Names(waiting') = Names(waiting) \ {i.id}
    BY <1>7, <1>9
  <2>2. i.id \notin Names(package)
    BY <1>1, <1>7 DEF Admission
  <2>3. \A S, T : Names(S \cup T) = Names(S) \cup Names(T)
    BY DEF Names
  <2>4. /\ Names(package' \cup waiting') = Names(package) \cup (Names(waiting) \ {i.id})
        /\ Names(package \cup waiting) = Names(package) \cup Names(waiting)
    BY <1>9, <2>1, <2>3
  <2>5. /\ Names(package') \cap Names(waiting') = {}
        /\ omitted' \cap Names(package' \cup waiting') = {}
        /\ Names(given) = omitted' \cup Names(package' \cup waiting')
    <3>1. Names(package') = Names(package)
      BY <1>9
    <3>2. /\ Names(package) \cap Names(waiting) = {}
          /\ omitted \cap Names(package \cup waiting) = {}
          /\ Names(given) = omitted \cup Names(package \cup waiting)
      BY <1>1 DEF Admission
    <3>3. PICK v, w, r : v = Names(package) /\ w = Names(waiting) /\ r = Names(package \cup waiting)
      OBVIOUS
    <3>4. r = v \cup w /\ i.id \in w /\ i.id \notin v /\ v \cap w = {} /\ omitted \cap r = {}
      BY <1>7, <2>2, <2>4, <3>2, <3>3
    <3>5. /\ v \cap (w \ {i.id}) = {}
          /\ (omitted \cup {i.id}) \cap (v \cup (w \ {i.id})) = {}
          /\ omitted \cup r = (omitted \cup {i.id}) \cup (v \cup (w \ {i.id}))
      BY <3>4
    <3> QED
      BY <1>9, <2>1, <2>4, <3>1, <3>2, <3>3, <3>5
  <2>6. Names(package)' = Names(package') /\ Names(waiting)' = Names(waiting')
        /\ Names(package \cup waiting)' = Names(package' \cup waiting')
    BY DEF Names
  <2>7. Allotted(package, budget)'
    BY <1>1, <1>9, WithinLater DEF Admission
  <2>8. (\A k \in package : \E m \in B!Elements(items) : From(k, m))'
    BY <1>1, <1>2, <1>4, <1>9 DEF Admission, From, B!IsMandatory
  <2>9. Must' \subseteq package' /\ waiting' \subseteq all \ Must'
    BY <1>1, <1>2, <1>4, <1>9 DEF Admission
  <2>10. IsFiniteSet(package') /\ \A k, m \in package' : k.id = m.id => k = m
    BY <1>1, <1>9 DEF Admission
  <2>11. Admission'
    BY <1>4, <2>5, <2>6, <2>7, <2>8, <2>9, <2>10 DEF Admission
  <2>12. Onward
    BY <1>1, <2>5 DEF Onward
  <2> QED
    BY <1>1, <2>11, <2>12, OnwardKeeps
<1>10. CASE 0 < B!Allowed(i) /\ i.tokens <= B!Allowed(i) /\ B!Takes(i, i)
  <2>1. B!Allowed(i) \in Nat
    BY <1>1, <1>3, AllowedIsNat
  <2>2. Takable(i, i.tokens)
    BY <1>3, <1>10, <2>1 DEF Takable
  <2> QED
    BY <1>3, <1>8, <1>10, <2>2 DEF From
<1>11. CASE /\ B!Allowed(i) >= MinPiece
            /\ \E n \in B!CutLeast(B!Allowed(i))..B!CutMost(B!Allowed(i)) :
                  B!Takes(i, [i EXCEPT !.tokens = n])
  <2>1. PICK n \in B!CutLeast(B!Allowed(i))..B!CutMost(B!Allowed(i)) :
                B!Takes(i, [i EXCEPT !.tokens = n])
    BY <1>11
  <2>2. PICK most \in Nat, least \in Nat : most = B!Allowed(i) /\ least = MinPiece /\ least > 0
    <3>1. B!Allowed(i) \in Nat
      BY <1>1, <1>3, AllowedIsNat
    <3> QED
      BY <3>1 DEF Composed
  <2>3. PICK low \in Nat, high \in Nat : low = B!CutLeast(most) /\ high = B!CutMost(most)
    BY CutIsNat
  <2>4. n \in Nat /\ n <= high
    BY <2>1, <2>2, <2>3
  <2>5. [i EXCEPT !.tokens = n].tokens = n /\ From([i EXCEPT !.tokens = n], i)
    BY <1>3, <2>4, OfferedAreItems DEF From
  <2>6. Takable(i, n)
    BY <1>11, <2>2, <2>3, <2>4 DEF Takable
  <2> QED
    BY <1>8, <2>1, <2>4, <2>5, <2>6
<1>12. CASE omitted' = omitted \cup {i.id} /\ waiting' = waiting \ {i} /\ package' = package
  BY <1>9, <1>12
<1>13. \/ 0 < B!Allowed(i) /\ i.tokens <= B!Allowed(i) /\ B!Takes(i, i)
       \/ /\ B!Allowed(i) >= MinPiece
          /\ \E n \in B!CutLeast(B!Allowed(i))..B!CutMost(B!Allowed(i)) :
                B!Takes(i, [i EXCEPT !.tokens = n])
       \/ omitted' = omitted \cup {i.id} /\ waiting' = waiting \ {i} /\ package' = package
  BY DEF B!Admit
<1> QED
  BY <1>10, <1>11, <1>12, <1>13

\* What is rendered fits, or something has to go.
LEMMA RenderKeeps == ASSUME Composed, PromptInv, B!Render PROVE PromptInv'
<1>1. /\ stage = "optional" /\ waiting = {} /\ stage' \in {"done", "render"}
      /\ stage' = "done" => B!Rendered(package) <= budget
      /\ UNCHANGED <<items, given, budget, package, waiting, omitted>>
      /\ PromptTypes /\ Admission
  BY DEF B!Render, PromptInv
<1>2. B!Elements(items)' = B!Elements(items) /\ Must' = Must
  BY <1>1 DEF B!Elements, Must, B!IsMandatory
<1>3. Allotted(package, budget)'
  BY <1>1, WithinLater DEF Admission
<1>4. Admission'
  BY <1>1, <1>2, <1>3 DEF Admission, Names, From, B!IsMandatory
<1>5. Onward
  BY <1>1 DEF Onward, PromptTypes
<1> QED
  BY <1>1, <1>4, <1>5, OnwardKeeps

\* What is optional is evicted until the rest fits.
LEMMA EvictKeeps == ASSUME Composed, PromptInv, B!Evict PROVE PromptInv'
<1>1. /\ stage = "render" /\ waiting = {} /\ UNCHANGED <<items, given, budget, waiting>>
      /\ PromptTypes /\ Admission
  BY DEF B!Evict, PromptInv
<1>2. B!Elements(items)' = B!Elements(items) /\ Must' = Must
  BY <1>1 DEF B!Elements, Must, B!IsMandatory
<1>3. CASE B!Removable = {}
  <2>1. stage' = "failed" /\ package' = package /\ omitted' = omitted
    BY <1>3 DEF B!Evict
  <2>2. Onward
    BY <1>1, <2>1 DEF Onward, PromptTypes
  <2> QED
    BY <2>1, <2>2, OnwardKeeps
<1>4. CASE B!Removable # {}
  <2>1. PICK i \in B!Removable :
           /\ package' = package \ {i} /\ omitted' = omitted \cup {i.id}
           /\ stage' = IF B!Rendered(package') <= budget THEN "done" ELSE "render"
    BY <1>4 DEF B!Evict
  <2>2. i \in package /\ ~B!IsMandatory(i)
    BY DEF B!Removable
  <2>3. \A j \in package : j.id = i.id => j = i
    BY <1>1, <2>2 DEF Admission
  <2>4. Names(package') = Names(package) \ {i.id} /\ i.id \in Names(package)
    BY <2>1, <2>2, <2>3 DEF Names
  <2>5. Names(waiting) = {} /\ package \cup waiting = package /\ package' \cup waiting' = package'
    BY <1>1 DEF Names
  <2>6. /\ Names(package') \cap Names(waiting') = {}
        /\ omitted' \cap Names(package' \cup waiting') = {}
        /\ Names(given) = omitted' \cup Names(package' \cup waiting')
    <3>1. PICK v : v = Names(package)
      OBVIOUS
    <3>2. omitted \cap v = {} /\ Names(given) = omitted \cup v /\ i.id \in v
      BY <1>1, <2>4, <2>5, <3>1 DEF Admission
    <3>3. /\ (omitted \cup {i.id}) \cap (v \ {i.id}) = {}
          /\ omitted \cup v = (omitted \cup {i.id}) \cup (v \ {i.id})
      BY <3>2
    <3> QED
      BY <1>1, <2>1, <2>4, <2>5, <3>1, <3>2, <3>3
  <2>7. Names(package)' = Names(package') /\ Names(waiting)' = Names(waiting')
        /\ Names(package \cup waiting)' = Names(package' \cup waiting')
    BY DEF Names
  <2>8. Must \subseteq package'
    BY <1>1, <2>1, <2>2 DEF Admission, Must
  <2>9. IsFiniteSet(package') /\ package' \in SUBSET package
    BY <1>1, <2>1, FS_Subset DEF Admission
  <2>10. Allotted(package', budget)
    <3>1. SUFFICES ASSUME NEW c \in DOMAIN Percent
                   PROVE  B!WithinCap(Group(package', c), (budget * Percent[c]) \div 100)
      BY DEF Allotted
    <3>2. B!WithinCap(Group(package, c), (budget * Percent[c]) \div 100)
      BY <1>1 DEF Admission, Allotted
    <3>3. PICK S, T : S = Group(package, c) /\ T = Group(package', c)
      OBVIOUS
    <3>4. PICK cap \in Nat : cap = (budget * Percent[c]) \div 100
      BY <1>1, PackageTypes
    <3>5. T \in SUBSET S /\ IsFiniteSet(S) /\ \A j \in S : j.tokens \in Nat
      BY <1>1, <2>9, <3>3, PackageTypes DEF Group
    <3>6. B!WithinCap(T, cap)
      BY <3>2, <3>3, <3>4, <3>5, PartIsAllotted
    <3> QED
      BY <3>3, <3>4, <3>6
  <2>11. Allotted(package, budget)'
    BY <1>1, <2>10, WithinLater
  <2>12. (\A j \in package : \E k \in B!Elements(items) : From(j, k))'
    BY <1>1, <1>2, <2>9 DEF Admission, From, B!IsMandatory
  <2>13. (\A j, k \in package : j.id = k.id => j = k)'
    BY <1>1, <2>9 DEF Admission
  <2>14. Admission'
    BY <1>1, <1>2, <2>6, <2>7, <2>8, <2>9, <2>11, <2>12, <2>13 DEF Admission
  <2>15. stage' \in {"done", "render"} /\ (stage' = "done" => B!Rendered(package') <= budget')
    BY <1>1, <2>1
  <2>16. Onward
    BY <1>1, <2>6, <2>15 DEF Onward
  <2> QED
    BY <1>1, <2>14, <2>15, <2>16, OnwardKeeps
<1> QED
  BY <1>3, <1>4

\* What is done is sound.
LEMMA PromptSuffices ==
    ASSUME Composed, PromptInv
    PROVE  B!TypeOK /\ B!PromptIsSound /\ B!EveryItemAccounted
<1>1. B!TypeOK
  BY DEF PromptInv, PromptTypes, B!TypeOK, Names
<1>2. CASE stage = "done"
  <2>1. /\ PromptTypes /\ Admission /\ waiting = {} /\ B!Rendered(package) <= budget
        /\ \A i \in given : B!IsMandatory(i) /\ ~B!Replaced(i, given) =>
               B!Repeats(i, B!Elements(items))
    BY <1>2 DEF PromptInv
  <2>2. ASSUME NEW i \in given, B!IsMandatory(i), ~B!Replaced(i, given)
        PROVE  i.content \in B!Contents({j \in package : B!IsMandatory(j)})
    <3>1. PICK j \in B!Elements(items) : j.content = i.content
      BY <2>1, <2>2 DEF B!Repeats
    <3>2. i \in Offered /\ j \in Offered
      BY <2>1 DEF PromptTypes
    <3>3. B!IsMandatory(j)
      BY <2>2, <3>1, <3>2 DEF Composed
    <3>4. j \in package
      BY <2>1, <3>1, <3>3 DEF Admission, Must
    <3> QED
      BY <3>1, <3>3, <3>4 DEF B!Contents
  <2>3. \A c \in DOMAIN Percent :
            B!WithinCap({i \in package : i.category = c}, (budget * Percent[c]) \div 100)
    BY <2>1 DEF Admission, Allotted, Group
  <2>4. B!PromptIsSound
    BY <2>1, <2>2, <2>3 DEF B!PromptIsSound
  <2>5. B!EveryItemAccounted
    BY <2>1 DEF B!EveryItemAccounted, Admission, Names
  <2> QED
    BY <1>1, <2>4, <2>5
<1>3. CASE stage # "done"
  BY <1>1, <1>3 DEF B!PromptIsSound, B!EveryItemAccounted
<1> QED
  BY <1>2, <1>3

\* The invariant, in every state.
LEMMA PromptKept == Composed /\ SupplySpec => []PromptInv
<1> SUFFICES ASSUME Composed PROVE SupplySpec => []PromptInv
  OBVIOUS
<1>1. B!Init => PromptInv
  BY PromptBegins
<1>2. PromptInv /\ [B!Next]_B!bvars => PromptInv'
  <2>1. SUFFICES ASSUME PromptInv, [B!Next]_B!bvars PROVE PromptInv'
    OBVIOUS
  <2>2. CASE B!Deduplicate
    BY <2>1, <2>2, DeduplicateKeeps
  <2>3. CASE B!AdmitMandatory
    BY <2>1, <2>3, AdmitMandatoryKeeps
  <2>4. CASE B!Render
    BY <2>1, <2>4, RenderKeeps
  <2>5. CASE B!Evict
    BY <2>1, <2>5, EvictKeeps
  <2>6. CASE \E i \in waiting : B!Admit(i)
    BY <2>1, <2>6, AdmitKeeps
  <2>7. CASE UNCHANGED B!bvars
    <3>1. UNCHANGED <<stage, items, given, budget, package, waiting, omitted>>
      BY <2>7 DEF B!bvars
    <3>2. B!Elements(items)' = B!Elements(items) /\ Must' = Must
      BY <3>1 DEF B!Elements, Must, B!IsMandatory
    <3>3. stage \in {"optional", "render", "done"} => Admission'
      <4>1. SUFFICES ASSUME Admission PROVE Admission'
        BY <2>1 DEF PromptInv
      <4>2. Allotted(package, budget)'
        BY <3>1, <4>1, WithinLater DEF Admission
      <4> QED
        BY <3>1, <3>2, <4>1, <4>2 DEF Admission, Names, From, B!IsMandatory
    <3>4. stage = "done" => (B!Rendered(package) <= budget)'
      BY <2>1, <3>1, WithinLater DEF PromptInv
    <3>5. PromptTypes'
      BY <2>1, <3>1, <3>2 DEF PromptInv, PromptTypes, Names
    <3> QED
      BY <2>1, <3>1, <3>2, <3>3, <3>4, <3>5
         DEF PromptInv, Names, B!IsMandatory, B!Replaced, B!Repeats
  <2> QED
    BY <2>1, <2>2, <2>3, <2>4, <2>5, <2>6, <2>7 DEF B!Next
<1> QED
  BY <1>1, <1>2, EachOnItsOwn, PTL DEF B!Spec

\* A prompt that is done keeps its budget and has what it must have, in every state.
LEMMA PromptHolds ==
    Composed /\ SupplySpec => [](B!TypeOK /\ B!PromptIsSound /\ B!EveryItemAccounted)
<1> SUFFICES ASSUME Composed
             PROVE  SupplySpec => [](B!TypeOK /\ B!PromptIsSound /\ B!EveryItemAccounted)
  OBVIOUS
<1>1. PromptInv => B!TypeOK /\ B!PromptIsSound /\ B!EveryItemAccounted
  BY PromptSuffices
<1>2. SupplySpec => []PromptInv
  BY PromptKept
<1> QED
  BY <1>1, <1>2, PTL

\* When a cut leaves what is allowed no category takes more than its allocation.
LEMMA CutsThatFit == ASSUME Composed, B!CutsFit, PromptInv PROVE B!CapsBound
<1>1. SUFFICES ASSUME stage = "done", NEW c \in DOMAIN Percent
               PROVE  B!Tokens({i \in package : i.category = c}) <= (budget * Percent[c]) \div 100
  BY DEF B!CapsBound
<1>2. PromptTypes /\ Admission
  BY <1>1 DEF PromptInv
<1>3. PICK S : S = Group(package, c)
  OBVIOUS
<1>4. PICK cap \in Nat : cap = (budget * Percent[c]) \div 100
  BY <1>2, PackageTypes
<1>5. IsFiniteSet(S) /\ \A i \in S : i.tokens \in Nat
  BY <1>2, <1>3, PackageTypes DEF Group
<1>6. B!WithinCap(S, cap)
  BY <1>2, <1>3, <1>4 DEF Admission, Allotted
<1>7. CASE \E i \in S : B!Tokens(S \ {i}) + MinPiece <= cap /\
                        i.tokens <= B!CutMost(cap - B!Tokens(S \ {i}))
  <2>1. PICK i \in S : B!Tokens(S \ {i}) + MinPiece <= cap /\
                       i.tokens <= B!CutMost(cap - B!Tokens(S \ {i}))
    BY <1>7
  <2>2. IsFiniteSet(S \ {i})
    BY <1>5, FS_Subset
  <2>3. PICK rest \in Nat, least \in Nat : rest = B!Tokens(S \ {i}) /\ least = MinPiece
    BY <1>5, <2>2, TokensAddUp DEF Composed
  <2>4. rest + least <= cap /\ i.tokens <= B!CutMost(cap - rest)
    BY <2>1, <2>3
  <2>5. cap - rest \in Nat /\ cap - rest >= least
    BY <2>4
  <2>6. B!CutMost(cap - rest) <= cap - rest /\ B!CutMost(cap - rest) \in Nat
    BY <2>3, <2>5, CutIsNat DEF B!CutsFit
  <2>7. i.tokens \in Nat /\ B!Tokens(S) = i.tokens + rest
    BY <1>5, <2>3, TokensAddUp
  <2>8. B!Tokens(S) <= cap
    BY <2>4, <2>5, <2>6, <2>7
  <2> QED
    BY <1>3, <1>4, <2>8 DEF Group
<1>8. CASE B!Tokens(S) <= cap
  BY <1>3, <1>4, <1>8 DEF Group
<1> QED
  BY <1>6, <1>7, <1>8 DEF B!WithinCap

-----------------------------------------------------------------------------
(***************************************************************************)
(* Routing.                                                                *)
(***************************************************************************)
Role == {"conductor", "coder", "qa"}
What == {"calls", "ok", "tokens"}

\* Backends and hours are numbers, every role's call costs something, and a limit is one of
\* calls or of tokens for a backend.
Priced ==
    /\ IsFiniteSet(Backend) /\ Backend \subseteq Nat /\ Strength \in [Backend -> Int]
    /\ Preferred \in [Role -> Seq(Backend)] /\ Cost \in [Role -> Nat \ {0}]
    /\ Limits \subseteq [backend : Backend, what : {"calls", "tokens"}, hours : Nat, max : Nat]
    /\ Envelope \in Nat /\ MaxHour \in Nat
    /\ None \notin Nat /\ None \notin Role \cup {"checks"}

\* The ledger u has no entries after the hour now.
Ledger(u, at) ==
    /\ at \in D!Hours
    /\ u \in [Backend -> [D!Hours -> [calls : Nat, ok : Nat, tokens : Nat]]]
    /\ \A b \in Backend : \A h \in D!Hours : at < h =>
           u[b][h] = [calls |-> 0, ok |-> 0, tokens |-> 0]

Usage(u, b, what) == [h \in D!Hours |-> u[b][h][what]]
Back(at, hours)   == {h \in D!Hours : h <= at /\ h + hours >= at}
UsedIn(u, at, b, hours, what) == Total(Usage(u, b, what), Back(at, hours))

\* What the ledger says can be added up.
LEMMA UsageAddsUp ==
    ASSUME Priced, NEW u, NEW at, Ledger(u, at), NEW b \in Backend, NEW hours \in Nat,
           NEW what \in What
    PROVE  /\ Summable(Usage(u, b, what), D!Hours)
           /\ Back(at, hours) \in SUBSET D!Hours
           /\ Summable(Usage(u, b, what), Back(at, hours))
           /\ UsedIn(u, at, b, hours, what) \in Nat
<1>1. PICK win : win = Back(at, hours)
  OBVIOUS
<1>2. win \in SUBSET D!Hours
  BY <1>1 DEF Back
<1>3. IsFiniteSet(D!Hours)
  <2>1. 0 \in Int /\ MaxHour \in Int
    BY DEF Priced
  <2> QED
    BY <2>1, FS_Interval DEF D!Hours
<1>4. \A h \in D!Hours : Usage(u, b, what)[h] \in Nat
  BY DEF Usage, Ledger, What
<1>5. Summable(Usage(u, b, what), D!Hours)
  BY <1>3, <1>4 DEF Summable
<1>6. Summable(Usage(u, b, what), win)
  BY <1>2, <1>3, <1>4, FS_Subset DEF Summable
<1>7. Total(Usage(u, b, what), win) \in Nat
  BY <1>6, SumWithout
<1> QED
  BY <1>1, <1>2, <1>5, <1>6, <1>7 DEF UsedIn

\* What a backend has used is the sum over the hours of the window, now and after a step.
LEMMA InIsTotal ==
    ASSUME Priced, NEW b \in Backend, NEW hours \in Nat, NEW what \in What
    PROVE  /\ Ledger(used, hour) =>
                 D!In(b, hours, what) = UsedIn(used, hour, b, hours, what)
           /\ Ledger(used', hour') =>
                 D!In(b, hours, what)' = UsedIn(used', hour', b, hours, what)
<1>1. ASSUME NEW u, NEW at, Ledger(u, at), NEW f, NEW win, win = Back(at, hours),
             f = [h \in win |-> u[b][h][what]]
      PROVE  Total(f, win) = UsedIn(u, at, b, hours, what)
  <2>1. Summable(Usage(u, b, what), win) /\ win \in SUBSET D!Hours
    BY <1>1, UsageAddsUp
  <2>2. \A h \in win : f[h] = Usage(u, b, what)[h]
    BY <1>1, <2>1 DEF Usage
  <2> QED
    BY <1>1, <2>1, <2>2, SumSame DEF UsedIn
<1>2. ASSUME Ledger(used, hour) PROVE D!In(b, hours, what) = UsedIn(used, hour, b, hours, what)
  <2>1. PICK win : win = D!Window(hours)
    OBVIOUS
  <2>2. PICK f : f = [h \in win |-> used[b][h][what]]
    OBVIOUS
  <2>3. D!MapThenSumSet(LAMBDA h : used[b][h][what], win) = Total(f, win)
    BY <2>2 DEF D!MapThenSumSet, D!MapThenFoldSet, Total, Adds, Some
  <2>4. win = Back(hour, hours)
    BY <2>1 DEF D!Window, Back
  <2> QED
    BY <1>1, <1>2, <2>1, <2>2, <2>3, <2>4 DEF D!In
<1>3. ASSUME Ledger(used', hour')
      PROVE  D!In(b, hours, what)' = UsedIn(used', hour', b, hours, what)
  <2>1. PICK win : win = D!Window(hours)'
    OBVIOUS
  <2>2. PICK f : f = [h \in win |-> used'[b][h][what]]
    OBVIOUS
  <2>3. D!In(b, hours, what)' = Total(f, win)
    BY <2>1, <2>2 DEF D!In, D!MapThenSumSet, D!MapThenFoldSet, Total, Adds, Some
  <2>4. win = Back(hour', hours)
    BY <2>1 DEF D!Window, Back, D!Hours
  <2> QED
    BY <1>1, <1>3, <2>2, <2>3, <2>4
<1> QED
  BY <1>2, <1>3

\* A call adds what it takes to what its backend has used in this hour.
Books(c, o, t) ==
    used' = [used EXCEPT ![D!At][hour] =
                 [calls |-> @.calls + c, ok |-> @.ok + o, tokens |-> @.tokens + t]]

\* A call counts once, for its backend, in every window of this hour.
LEMMA BookedOnce ==
    ASSUME Priced, Ledger(used, hour), hour' = hour,
           NEW c \in Nat, NEW o \in Nat, NEW t \in Nat, Books(c, o, t)
    PROVE  /\ Ledger(used', hour')
           /\ \A b \in Backend : \A hours \in Nat :
                 /\ D!In(b, hours, "calls")' = D!In(b, hours, "calls") + IF b = D!At THEN c ELSE 0
                 /\ D!In(b, hours, "tokens")' = D!In(b, hours, "tokens") + IF b = D!At THEN t ELSE 0
<1>0. hour \in D!Hours /\ hour \in Nat
  BY DEF Ledger, D!Hours
<1>1. PICK at : at = D!At
  OBVIOUS
<1>2. used' = [used EXCEPT ![at][hour] =
                 [calls |-> @.calls + c, ok |-> @.ok + o, tokens |-> @.tokens + t]]
  BY <1>1 DEF Books
<1>3. \A b \in Backend : \A h \in D!Hours :
          /\ b = at /\ h = hour => used'[b][h] = [calls |-> used[b][h].calls + c,
                                                  tokens |-> used[b][h].tokens + t,
                                                  ok |-> used[b][h].ok + o]
          /\ b # at \/ h # hour => used'[b][h] = used[b][h]
  BY <1>0, <1>2 DEF Ledger
<1>4. Ledger(used', hour')
  <2>1. used' \in [Backend -> [D!Hours -> [calls : Nat, ok : Nat, tokens : Nat]]]
    <3>1. PICK line : line = [calls |-> used[at][hour].calls + c,
                                tokens |-> used[at][hour].tokens + t,
                                ok |-> used[at][hour].ok + o]
      OBVIOUS
    <3>2. PICK row : row = [used[at] EXCEPT ![hour] = line]
      OBVIOUS
    <3>3. used' = [used EXCEPT ![at] = row]
      BY <1>2, <3>1, <3>2
    <3>4. CASE at \in Backend
      <4>1. used[at] \in [D!Hours -> [calls : Nat, ok : Nat, tokens : Nat]]
        BY <3>4 DEF Ledger
      <4>2. used[at][hour] \in [calls : Nat, ok : Nat, tokens : Nat]
        BY <1>0, <4>1
      <4>3. line \in [calls : Nat, ok : Nat, tokens : Nat]
        BY <3>1, <4>2
      <4>4. row \in [D!Hours -> [calls : Nat, ok : Nat, tokens : Nat]]
        BY <3>2, <4>1, <4>3
      <4> QED
        BY <3>3, <4>4 DEF Ledger
    <3>5. CASE at \notin Backend
      <4>1. used' = used
        BY <3>3, <3>5 DEF Ledger
      <4> QED
        BY <4>1 DEF Ledger
    <3> QED
      BY <3>4, <3>5
  <2>2. \A b \in Backend : \A h \in D!Hours : hour < h =>
           used'[b][h] = [calls |-> 0, ok |-> 0, tokens |-> 0]
    <3>1. \A h \in D!Hours : hour < h => h # hour
      BY <1>0
    <3> QED
      BY <1>3, <3>1 DEF Ledger
  <2> QED
    BY <1>0, <2>1, <2>2 DEF Ledger
<1>5. ASSUME NEW b \in Backend, NEW hours \in Nat, NEW what \in What, NEW d \in Nat,
             used'[b][hour][what] = used[b][hour][what] + d,
             \A h \in D!Hours : h # hour => used'[b][h][what] = used[b][h][what]
      PROVE  D!In(b, hours, what)' = D!In(b, hours, what) + d
  <2>1. PICK win : win = Back(hour, hours)
    OBVIOUS
  <2>3. PICK f : f = Usage(used, b, what)
    OBVIOUS
  <2>4. PICK g : g = Usage(used', b, what)
    OBVIOUS
  <2>5. D!In(b, hours, what) = Total(f, win) /\ Summable(f, win) /\ win \in SUBSET D!Hours
    BY <2>1, <2>3, InIsTotal, UsageAddsUp DEF UsedIn
  <2>6. D!In(b, hours, what)' = Total(g, win)
    BY <1>4, <2>1, <2>4, InIsTotal DEF UsedIn
  <2>7. hour \in win
    BY <1>0, <2>1 DEF Back
  <2>8. \A h \in win : f[h] = used[b][h][what] /\ g[h] = used'[b][h][what]
    BY <2>3, <2>4, <2>5 DEF Usage
  <2>9. g[hour] = f[hour] + d /\ \A h \in win : h # hour => g[h] = f[h]
    BY <1>5, <2>5, <2>7, <2>8
  <2> QED
    BY <2>5, <2>6, <2>7, <2>9, SumChanged
<1>6. \A b \in Backend : \A hours \in Nat : \A what \in What :
          D!In(b, hours, what) \in Nat
  BY InIsTotal, UsageAddsUp
<1>7. ASSUME NEW b \in Backend, NEW hours \in Nat, b = at
      PROVE  D!In(b, hours, "calls")' = D!In(b, hours, "calls") + c
             /\ D!In(b, hours, "tokens")' = D!In(b, hours, "tokens") + t
  <2>1. /\ used'[b][hour]["calls"] = used[b][hour]["calls"] + c
        /\ used'[b][hour]["tokens"] = used[b][hour]["tokens"] + t
        /\ \A h \in D!Hours : h # hour => used'[b][h] = used[b][h]
    <3>1. used'[b][hour] = [calls |-> used[b][hour].calls + c,
                            tokens |-> used[b][hour].tokens + t, ok |-> used[b][hour].ok + o]
      BY <1>0, <1>3, <1>7
    <3>2. \A h \in D!Hours : h # hour => used'[b][h] = used[b][h]
      BY <1>3
    <3> QED
      BY <3>1, <3>2
  <2>2. \A h \in D!Hours : \A what \in What : h # hour => used'[b][h][what] = used[b][h][what]
    BY <2>1
  <2> QED
    BY <1>5, <2>1, <2>2 DEF What
<1>8. ASSUME NEW b \in Backend, NEW hours \in Nat, b # at
      PROVE  D!In(b, hours, "calls")' = D!In(b, hours, "calls")
             /\ D!In(b, hours, "tokens")' = D!In(b, hours, "tokens")
  <2>1. \A h \in D!Hours : used'[b][h] = used[b][h]
    BY <1>3, <1>8
  <2>2. \A what \in What : used[b][hour][what] \in Nat
    BY <1>0 DEF Ledger, What
  <2>3. \A what \in What : used'[b][hour][what] = used[b][hour][what] + 0
    BY <1>0, <2>1, <2>2
  <2>4. \A what \in What : D!In(b, hours, what)' = D!In(b, hours, what) + 0
    BY <1>5, <2>1, <2>3
  <2> QED
    BY <1>6, <2>4 DEF What
<1> QED
  BY <1>1, <1>4, <1>6, <1>7, <1>8 DEF What

\* As time passes a window only loses hours that count.
LEMMA LessLater ==
    ASSUME Priced, Ledger(used, hour), hour < MaxHour, hour' = hour + 1, used' = used
    PROVE  /\ Ledger(used', hour')
           /\ \A b \in Backend : \A hours \in Nat : \A what \in What :
                 D!In(b, hours, what)' <= D!In(b, hours, what)
<1>0. hour \in D!Hours /\ hour \in Nat /\ hour' \in D!Hours /\ MaxHour \in Nat
  BY DEF Ledger, D!Hours, Priced
<1>1. Ledger(used', hour')
  BY <1>0 DEF Ledger, D!Hours
<1>2. ASSUME NEW b \in Backend, NEW hours \in Nat, NEW what \in What
      PROVE  D!In(b, hours, what)' <= D!In(b, hours, what)
  <2>1. PICK win : win = Back(hour, hours)
    OBVIOUS
  <2>2. PICK later : later = Back(hour + 1, hours)
    OBVIOUS
  <2>3. PICK f : f = Usage(used, b, what)
    OBVIOUS
  <2>4. D!In(b, hours, what) = Total(f, win) /\ Summable(f, win)
    BY <2>1, <2>3, InIsTotal, UsageAddsUp DEF UsedIn
  <2>5. D!In(b, hours, what)' = Total(f, later) /\ Summable(f, later)
    BY <1>1, <2>2, <2>3, InIsTotal, UsageAddsUp DEF UsedIn
  <2>6. hour + 1 \in later /\ later \ {hour + 1} \in SUBSET win
    BY <1>0, <2>1, <2>2 DEF Back, D!Hours
  <2>7. f[hour + 1] = 0
    BY <1>0, <2>3 DEF Usage, Ledger, What
  <2>8. Total(f, later) = f[hour + 1] + Total(f, later \ {hour + 1})
    BY <2>5, <2>6, SumWithout
  <2>9. Total(f, later \ {hour + 1}) <= Total(f, win)
    BY <2>4, <2>6, SumOfPart
  <2>10. Summable(f, later \ {hour + 1})
    BY <2>5, FS_Subset DEF Summable
  <2>11. Total(f, later \ {hour + 1}) \in Nat
    BY <2>10, SumWithout
  <2> QED
    BY <2>4, <2>5, <2>7, <2>8, <2>9, <2>11
<1> QED
  BY <1>1, <1>2

\* The least of a set of numbers.
LEMMA LeastOf ==
    ASSUME NEW S \in SUBSET Nat, S # {}
    PROVE  D!Min(S) \in S /\ \A y \in S : D!Min(S) <= y
<1>1. \E x \in S : \A y \in S : x <= y
  BY FirstIndex
<1>2. D!Min(S) = CHOOSE x \in S : \A y \in S : x <= y
  BY DEF D!Min
<1> QED
  BY <1>1, <1>2

\* Rates are compared across: a of x against b of y.
LEMMA RatesCompare ==
    ASSUME NEW a \in Nat, NEW b \in Nat, NEW c \in Nat,
           NEW x \in Nat \ {0}, NEW y \in Nat \ {0}, NEW z \in Nat \ {0},
           a * y >= b * x, b * z >= c * y
    PROVE  a * z >= c * x
<1>1. \A m, n \in Nat : \A k \in Nat \ {0} : m >= n <=> m * k >= n * k
  OBVIOUS
<1>2. /\ a * y \in Nat /\ b * x \in Nat /\ b * z \in Nat /\ c * y \in Nat
      /\ a * z \in Nat /\ c * x \in Nat
  OBVIOUS
<1>3. (a * y) * z >= (b * x) * z
  BY <1>1, <1>2
<1>4. (b * z) * x >= (c * y) * x
  BY <1>1, <1>2
<1>5. (a * y) * z = (a * z) * y /\ (b * x) * z = (b * z) * x /\ (c * y) * x = (c * x) * y
  OBVIOUS
<1>6. /\ (a * z) * y \in Nat /\ (b * z) * x \in Nat /\ (c * x) * y \in Nat
  BY <1>2
<1>7. (a * z) * y >= (c * x) * y
  BY <1>3, <1>4, <1>5, <1>6
<1> QED
  BY <1>1, <1>2, <1>7

\* The better rate, and of equal rates the first backend, is a total order.
LEMMA RatesOrder ==
    ASSUME Priced, NEW ok \in [Backend -> Nat], NEW all \in [Backend -> Nat \ {0}],
           NEW R, R = {bc \in Backend \X Backend :
                          \/ ok[bc[1]] * all[bc[2]] > ok[bc[2]] * all[bc[1]]
                          \/ /\ ok[bc[1]] * all[bc[2]] = ok[bc[2]] * all[bc[1]]
                             /\ bc[1] < bc[2]}
    PROVE  TotalOrder(R, Backend)
<1>1. PICK W : W = {bc \in Backend \X Backend :
                        ok[bc[1]] * all[bc[2]] >= ok[bc[2]] * all[bc[1]]}
  OBVIOUS
<1>2. \A b, c \in Backend : b \in Nat /\ c \in Nat /\ ok[b] * all[c] \in Nat
  BY DEF Priced
<1>3. \A b, c \in Backend : <<b, c>> \in W <=> ok[b] * all[c] >= ok[c] * all[b]
  BY <1>1
<1>4. \A b, c \in Backend :
          <<b, c>> \in R <=> <<b, c>> \in W /\ (<<c, b>> \in W => b < c)
  <2>1. SUFFICES ASSUME NEW b \in Backend, NEW c \in Backend
                 PROVE  <<b, c>> \in R <=> <<b, c>> \in W /\ (<<c, b>> \in W => b < c)
    OBVIOUS
  <2>2. PICK v, w \in Nat : v = ok[b] * all[c] /\ w = ok[c] * all[b]
    BY <1>2
  <2>3. <<b, c>> \in R <=> v > w \/ (v = w /\ b < c)
    BY <2>2
  <2>4. (<<b, c>> \in W <=> v >= w) /\ (<<c, b>> \in W <=> w >= v)
    BY <1>3, <2>2
  <2> QED
    BY <2>2, <2>3, <2>4
<1>5. ASSUME NEW b \in Backend, NEW c \in Backend, NEW e \in Backend,
             <<b, c>> \in W, <<c, e>> \in W
      PROVE  <<b, e>> \in W
  <2>1. ok[b] * all[c] >= ok[c] * all[b] /\ ok[c] * all[e] >= ok[e] * all[c]
    BY <1>3, <1>5
  <2>2. /\ ok[b] \in Nat /\ ok[c] \in Nat /\ ok[e] \in Nat
        /\ all[b] \in Nat \ {0} /\ all[c] \in Nat \ {0} /\ all[e] \in Nat \ {0}
    OBVIOUS
  <2>3. ok[b] * all[e] >= ok[e] * all[b]
    BY <2>1, <2>2, RatesCompare
  <2> QED
    BY <1>3, <2>3
<1>6. \A b, c \in Backend : <<b, c>> \in W \/ <<c, b>> \in W
  <2>1. SUFFICES ASSUME NEW b \in Backend, NEW c \in Backend
                 PROVE  <<b, c>> \in W \/ <<c, b>> \in W
    OBVIOUS
  <2>2. PICK v, w \in Nat : v = ok[b] * all[c] /\ w = ok[c] * all[b]
    BY <1>2
  <2> QED
    BY <1>3, <2>2
<1>7. \A b \in Backend : <<b, b>> \notin R
  BY <1>2, <1>4, <1>6
<1>8. \A b, c \in Backend : b # c => <<b, c>> \in R \/ <<c, b>> \in R
  <2>1. \A b, c \in Backend : b # c => b < c \/ c < b
    <3>1. \A m, n \in Nat : m # n => m < n \/ n < m
      OBVIOUS
    <3> QED
      BY <1>2, <3>1
  <2> QED
    BY <1>4, <1>6, <2>1
<1>9. ASSUME NEW b \in Backend, NEW c \in Backend, NEW e \in Backend,
             <<b, c>> \in R, <<c, e>> \in R
      PROVE  <<b, e>> \in R
  <2>1. <<b, c>> \in W /\ <<c, e>> \in W
    BY <1>4, <1>9
  <2>2. <<b, e>> \in W
    BY <1>5, <2>1
  <2>3. <<e, b>> \in W => <<c, b>> \in W /\ <<e, c>> \in W
    BY <1>5, <2>1
  <2>4. <<e, b>> \in W => b < c /\ c < e
    BY <1>4, <1>9, <2>3
  <2>5. <<e, b>> \in W => b < e
    BY <1>2, <2>4
  <2> QED
    BY <1>4, <2>2, <2>5
<1> QED
  BY <1>7, <1>8, <1>9 DEF TotalOrder

\* What capability_chain sorts by puts any candidates in one order.
LEMMA AheadIsTotal ==
    ASSUME Priced, Ledger(used, hour), NEW r \in Role
    PROVE  \E R : /\ TotalOrder(R, Backend)
                  /\ \A b, c \in Backend : <<b, c>> \in R <=> D!Ahead(r, b, c)
<1>1. \A b \in Backend : D!In(b, 24, "calls") \in Nat /\ D!In(b, 24, "ok") \in Nat
  BY InIsTotal, UsageAddsUp DEF What
<1>2. PICK ok : ok = [b \in Backend |-> IF D!In(b, 24, "calls") = 0 THEN 1 ELSE D!In(b, 24, "ok")]
  OBVIOUS
<1>3. PICK all : all = [b \in Backend |-> IF D!In(b, 24, "calls") = 0 THEN 2
                                          ELSE D!In(b, 24, "calls")]
  OBVIOUS
<1>4. ok \in [Backend -> Nat] /\ all \in [Backend -> Nat \ {0}]
  BY <1>1, <1>2, <1>3
<1>5. \A b, c \in Backend : D!Better(b, c) <=> ok[b] * all[c] > ok[c] * all[b]
  BY <1>2, <1>3 DEF D!Better
<1>6. PICK E : E = {bc \in Backend \X Backend :
                          \/ ok[bc[1]] * all[bc[2]] > ok[bc[2]] * all[bc[1]]
                          \/ /\ ok[bc[1]] * all[bc[2]] = ok[bc[2]] * all[bc[1]]
                             /\ bc[1] < bc[2]}
  OBVIOUS
<1>7. TotalOrder(E, Backend)
  BY <1>4, <1>6, RatesOrder
<1>8. \A b, c \in Backend : <<b, c>> \in E <=> D!Better(b, c) \/ (~D!Better(c, b) /\ b < c)
  <2>1. SUFFICES ASSUME NEW b \in Backend, NEW c \in Backend
                 PROVE  <<b, c>> \in E <=> D!Better(b, c) \/ (~D!Better(c, b) /\ b < c)
    OBVIOUS
  <2>2. PICK v, w \in Nat : v = ok[b] * all[c] /\ w = ok[c] * all[b]
    <3>1. ok[b] \in Nat /\ ok[c] \in Nat /\ all[b] \in Nat /\ all[c] \in Nat
      BY <1>4
    <3> QED
      BY <3>1
  <2>3. <<b, c>> \in E <=> v > w \/ (v = w /\ b < c)
    BY <1>6, <2>2
  <2>4. (D!Better(b, c) <=> v > w) /\ (D!Better(c, b) <=> w > v)
    BY <1>5, <2>2
  <2> QED
    BY <2>2, <2>3, <2>4
<1>9. PICK health : health = [b \in Backend |-> D!Health(b)]
  OBVIOUS
<1>10. PICK rank : rank = [b \in Backend |-> D!Rank(r, b)]
  OBVIOUS
<1>11. \A b \in Backend : health[b] \in Nat /\ rank[b] \in Nat /\ Strength[b] \in Int
  <2>1. \A b \in Backend : D!Health(b) \in Nat
    BY DEF D!Health
  <2>2. ASSUME NEW b \in Backend PROVE D!Rank(r, b) \in Nat
    <3>1. Preferred[r] \in Seq(Backend)
      BY DEF Priced
    <3>2. DOMAIN Preferred[r] = 1..Len(Preferred[r]) /\ Len(Preferred[r]) \in Nat
      BY <3>1
    <3>3. CASE b \in D!Range(Preferred[r])
      <4>1. \E i \in DOMAIN Preferred[r] : Preferred[r][i] = b
        BY <3>3 DEF D!Range
      <4>2. PICK i : i = CHOOSE j \in DOMAIN Preferred[r] : Preferred[r][j] = b
        OBVIOUS
      <4>3. i \in DOMAIN Preferred[r]
        BY <4>1, <4>2
      <4>4. D!Rank(r, b) = i
        BY <3>3, <4>2 DEF D!Rank
      <4> QED
        BY <3>2, <4>3, <4>4
    <3>4. CASE b \notin D!Range(Preferred[r])
      BY <3>2, <3>4 DEF D!Rank
    <3> QED
      BY <3>3, <3>4
  <2> QED
    BY <1>9, <1>10, <2>1, <2>2 DEF Priced
<1>12. PICK R : R = {bc \in Backend \X Backend : D!Ahead(r, bc[1], bc[2])}
  OBVIOUS
<1>13. \A b, c \in Backend : <<b, c>> \in R <=> D!Ahead(r, b, c)
  BY <1>12
<1>14. \A b, c \in Backend : <<b, c>> \in R <=>
           \/ health[b] < health[c]
           \/ /\ health[b] = health[c]
              /\ \/ rank[b] < rank[c]
                 \/ /\ rank[b] = rank[c]
                    /\ \/ Strength[b] > Strength[c]
                       \/ /\ Strength[b] = Strength[c] /\ <<b, c>> \in E
  BY <1>8, <1>9, <1>10, <1>13 DEF D!Ahead
<1>15. ASSUME NEW b \in Backend PROVE <<b, b>> \notin R
  <2>1. <<b, b>> \notin E
    BY <1>7 DEF TotalOrder
  <2>2. ~(health[b] < health[b]) /\ ~(rank[b] < rank[b]) /\ ~(Strength[b] > Strength[b])
    BY <1>11
  <2> QED
    BY <1>14, <2>1, <2>2
<1>16. ASSUME NEW b \in Backend, NEW c \in Backend, b # c
       PROVE  <<b, c>> \in R \/ <<c, b>> \in R
  <2>1. <<b, c>> \in E \/ <<c, b>> \in E
    BY <1>7, <1>16 DEF TotalOrder
  <2> QED
    BY <1>11, <1>14, <2>1
<1>17. ASSUME NEW b \in Backend, NEW c \in Backend, NEW e \in Backend,
              <<b, c>> \in R, <<c, e>> \in R
       PROVE  <<b, e>> \in R
  <2>1. <<b, c>> \in E /\ <<c, e>> \in E => <<b, e>> \in E
    BY <1>7 DEF TotalOrder
  <2> QED
    BY <1>11, <1>14, <1>17, <2>1
<1>18. TotalOrder(R, Backend)
  BY <1>15, <1>16, <1>17 DEF TotalOrder
<1> QED
  BY <1>13, <1>18

\* Every candidate has a place in the order, and a chain is made of backends.
LEMMA OrderedOfBackends ==
    ASSUME Priced, Ledger(used, hour), NEW r \in Role
    PROVE  D!Ordered(r) \in Seq(Backend)
<1>1. PICK some : some = D!Candidates(r)
  OBVIOUS
<1>2. some \subseteq Backend /\ IsFiniteSet(some)
  <2>1. some \in SUBSET Backend
    BY <1>1 DEF D!Candidates
  <2> QED
    BY <2>1, FS_Subset DEF Priced
<1>3. PICK R : TotalOrder(R, Backend) /\ \A b, c \in Backend : <<b, c>> \in R <=> D!Ahead(r, b, c)
  BY AheadIsTotal
<1>4. TotalOrder(R, some)
  BY <1>2, <1>3 DEF TotalOrder
<1>5. \A b \in some : D!Place(r, b) = Cardinality({c \in some : <<c, b>> \in R}) + 1
  <2>1. SUFFICES ASSUME NEW b \in some
                 PROVE  D!Place(r, b) = Cardinality({c \in some : <<c, b>> \in R}) + 1
    OBVIOUS
  <2>2. PICK front : front = {c \in some : D!Ahead(r, c, b)}
    OBVIOUS
  <2>3. front = {c \in some : <<c, b>> \in R}
    BY <1>2, <1>3, <2>2
  <2>4. D!Cardinality(front) = Cardinality(front)
    BY DEF D!Cardinality, Cardinality
  <2>5. D!Place(r, b) = D!Cardinality(front) + 1
    BY <1>1, <2>2 DEF D!Place
  <2> QED
    BY <2>3, <2>4, <2>5
<1>6. PICK n \in Nat : n = Cardinality(some)
  BY <1>2, FS_CardinalityType
<1>7. ASSUME NEW i \in 1..n PROVE \E b \in some : D!Place(r, b) = i
  <2>1. i \in 1..Cardinality(some)
    BY <1>6
  <2>2. \E b \in some : Cardinality({c \in some : <<c, b>> \in R}) + 1 = i
    BY <1>2, <1>4, <2>1, EveryPlaceTaken
  <2> QED
    BY <1>5, <2>2
<1>8. D!Cardinality(some) = n
  BY <1>6 DEF D!Cardinality, Cardinality
<1>9. PICK seq : seq = [i \in 1..n |-> CHOOSE b \in some : D!Place(r, b) = i]
  OBVIOUS
<1>10. \A i \in 1..n : seq[i] \in some
  BY <1>7, <1>9
<1>11. seq \in Seq(Backend)
  <2>1. seq \in [1..n -> Backend]
    BY <1>2, <1>9, <1>10
  <2> QED
    BY <2>1
<1>12. D!Ordered(r) = seq
  BY <1>1, <1>8, <1>9 DEF D!Ordered
<1> QED
  BY <1>11, <1>12

\* Part of a chain is a chain.
LEMMA OnlyOfBackends ==
    ASSUME NEW seq \in Seq(Backend), NEW part
    PROVE  D!Only(seq, part) \in Seq(Backend)
<1>1. D!Only(seq, part) = Part(seq, part)
  BY DEF D!Only, Part, Parts
<1>2. Part(seq, part) \in Seq(Backend \cap part)
  BY PartInBoth
<1> QED
  BY <1>1, <1>2

\* The chain of a role is one of backends.
LEMMA ChainsOfBackends ==
    ASSUME Priced, Ledger(used, hour), NEW r \in Role
    PROVE  D!ChainFor(r) \in Seq(Backend)
<1>1. ASSUME NEW seq \in Seq(Backend), NEW writers
      PROVE  D!Independent(seq, writers) \in Seq(Backend)
  <2>1. D!Only(seq, Backend \ {writers[1]}) \in Seq(Backend)
        /\ D!Only(seq, {writers[1]}) \in Seq(Backend)
    BY OnlyOfBackends
  <2>2. D!Only(seq, Backend \ {writers[1]}) \o D!Only(seq, {writers[1]}) \in Seq(Backend)
    BY <2>1
  <2> QED
    BY <2>2 DEF D!Independent
<1>2. ASSUME NEW seq \in Seq(Backend) PROVE D!NoLocalFallback(seq) \in Seq(Backend)
  <2>1. CASE seq = <<>> \/ Policy.local
    BY <2>1 DEF D!NoLocalFallback
  <2>2. CASE ~(seq = <<>> \/ Policy.local)
    <3>1. Tail(seq) \in Seq(Backend) /\ seq[1] \in Backend
      BY <2>2
    <3>2. D!Only(Tail(seq), Backend \ Local) \in Seq(Backend)
      BY <3>1, OnlyOfBackends
    <3>3. <<seq[1]>> \in Seq(Backend)
      BY <3>1
    <3>4. <<seq[1]>> \o D!Only(Tail(seq), Backend \ Local) \in Seq(Backend)
      BY <3>2, <3>3
    <3> QED
      BY <2>2, <3>4 DEF D!NoLocalFallback
  <2> QED
    BY <2>1, <2>2
<1>3. D!Ordered(r) \in Seq(Backend)
  BY OrderedOfBackends
<1>4. D!Independent(D!Ordered(r), D!NoLocalFallback(D!Ordered("coder"))) \in Seq(Backend)
  BY <1>1, <1>3
<1> QED
  BY <1>2, <1>3, <1>4 DEF D!ChainFor

\* The decision to start is for a backend of the chain, and what is left to it is known when
\* it says so.
LEMMA StartsOnBackend ==
    ASSUME NEW seq \in Seq(Backend)
    PROVE  /\ D!Starts(seq).kind = "start" => D!Starts(seq).backend \in Backend
           /\ D!Starts(seq).known => /\ D!Starts(seq).kind = "start"
                                     /\ D!Enough(D!Starts(seq).backend)
           /\ D!Starts(seq).kind = "wait" => D!Waits(seq) # {}
<1>1. \A b \in D!Range(seq) : b \in Backend
  BY DEF D!Range
<1>2. ASSUME NEW some \in SUBSET D!Range(seq), some # {}
      PROVE  D!First(some, seq) \in some
  <2>1. PICK at : at = {i \in DOMAIN seq : seq[i] \in some}
    OBVIOUS
  <2>2. DOMAIN seq = 1..Len(seq) /\ Len(seq) \in Nat
    OBVIOUS
  <2>3. at \in SUBSET Nat
    BY <2>1, <2>2
  <2>4. at # {}
    BY <1>2, <2>1 DEF D!Range
  <2>5. D!Min(at) \in at
    BY <2>3, <2>4, LeastOf
  <2>6. D!First(some, seq) = seq[D!Min(at)]
    BY <2>1 DEF D!First
  <2> QED
    BY <2>1, <2>5, <2>6
<1>3. PICK enough : enough = {b \in D!Range(seq) : D!Enough(b)}
  OBVIOUS
<1>4. PICK unknown : unknown = {b \in D!Range(seq) : D!Usable(b) /\ ~D!Measured(b)}
  OBVIOUS
<1>5. D!Starts(seq) =
          IF enough # {} THEN [kind |-> "start", backend |-> D!First(enough, seq), known |-> TRUE]
          ELSE IF unknown # {} /\ ~Policy.confidence
               THEN [kind |-> "start", backend |-> D!First(unknown, seq), known |-> FALSE]
          ELSE [kind |-> IF unknown = {} /\ D!Waits(seq) # {} THEN "wait" ELSE "human",
                backend |-> None, known |-> FALSE]
  BY <1>3, <1>4 DEF D!Starts
<1>6. CASE enough # {}
  <2>1. D!First(enough, seq) \in enough
    BY <1>2, <1>3, <1>6
  <2> QED
    BY <1>1, <1>3, <1>5, <1>6, <2>1
<1>7. CASE enough = {} /\ unknown # {} /\ ~Policy.confidence
  <2>1. D!First(unknown, seq) \in unknown
    BY <1>2, <1>4, <1>7
  <2> QED
    BY <1>1, <1>4, <1>5, <1>7, <2>1
<1>8. CASE enough = {} /\ ~(unknown # {} /\ ~Policy.confidence)
  BY <1>5, <1>8
<1> QED
  BY <1>6, <1>7, <1>8

CallTypes ==
    /\ highest \in [Backend -> Nat] /\ nextRun \in D!Hours \cup {None}
    /\ decision \in [kind : {"none", "start", "wait", "human"}, backend : Backend \cup {None},
                     known : BOOLEAN]
    /\ decision.known => decision.backend \in Backend
    /\ role \in Role \cup {"checks", None} /\ chain \in Seq(Backend) /\ coders \in Seq(Backend)
    /\ role # None => pos \in 1..Len(chain) /\ coders # <<>>
    /\ role \in {"checks", "qa"} => work > 0
    /\ work \in Nat /\ spent \in Nat /\ repaired \in BOOLEAN

BoardTypes ==
    board \in [Backend -> [state : {"available", "degraded", "limited", "unavailable", "cooling",
                                    "auth"},
                           until : D!Hours \cup {None}, fails : Nat]]

\* What the calls of a cycle still cost, up to the first review.
Due(r) == CASE r = "conductor" -> Cost["conductor"] + Cost["coder"] + Cost["qa"]
            [] r = "coder"     -> Cost["coder"] + Cost["qa"]
            [] OTHER           -> Cost["qa"]
Early == \/ role = "conductor"
         \/ role = "coder" /\ work = 0
         \/ role \in {"checks", "qa"} /\ work <= 1
RoomLeft == decision.known /\ Policy.stopShort /\ ~repaired /\ Early =>
                \A l \in D!TokenLimits(decision.backend) :
                    D!In(l.backend, l.hours, "tokens") + Due(role) <= l.max

RouteInv == /\ Ledger(used, hour) /\ BoardTypes /\ CallTypes
            /\ D!LimitsKept /\ RoomLeft

\* The estimate with its safety factor covers a call of each role.
Covered == (Envelope * 27) \div 20 >= Cost["conductor"] + Cost["coder"] + Cost["qa"]

\* What a limit is of.
LEMMA LimitTypes ==
    ASSUME Priced, NEW l \in Limits
    PROVE  /\ l.backend \in Backend /\ l.what \in {"calls", "tokens"} /\ l.what \in What
           /\ l.hours \in Nat /\ l.max \in Nat
BY DEF Priced, What

\* The largest cost is that of a role.
LEMMA CostsBounded ==
    ASSUME Priced
    PROVE  /\ D!MostCost \in Nat \ {0}
           /\ \A r \in Role : Cost[r] \in Nat \ {0} /\ Cost[r] <= D!MostCost
<1>1. PICK x, y, z \in Nat \ {0} : x = Cost["conductor"] /\ y = Cost["coder"] /\ z = Cost["qa"]
  BY DEF Priced, Role
<1>2. D!Range(Cost) = {x, y, z}
  BY <1>1 DEF Priced, Role, D!Range
<1>3. \E m \in {x, y, z} : \A n \in {x, y, z} : m >= n
  OBVIOUS
<1>4. D!MostCost = CHOOSE m \in {x, y, z} : \A n \in {x, y, z} : m >= n
  BY <1>2 DEF D!MostCost, D!Max
<1>5. D!MostCost \in {x, y, z} /\ \A n \in {x, y, z} : D!MostCost >= n
  BY <1>3, <1>4
<1> QED
  BY <1>1, <1>5 DEF Role

\* Without a call nothing is used.
LEMMA NothingUsed ==
    ASSUME Priced, Ledger(used, hour), UNCHANGED <<used, hour>>
    PROVE  /\ Ledger(used', hour')
           /\ \A b \in Backend : \A hours \in Nat : \A what \in What :
                  D!In(b, hours, what)' = D!In(b, hours, what) /\ D!In(b, hours, what) \in Nat
<1>1. used' = used /\ hour' = hour
  OBVIOUS
<1>2. Ledger(used', hour')
  BY <1>1
<1> QED
  BY <1>1, <1>2, InIsTotal, UsageAddsUp

\* What nobody uses is not exceeded.
LEMMA LimitsStillKept ==
    ASSUME Priced, D!LimitsKept, D!MostCost \in Nat,
           \A l \in Limits : /\ D!In(l.backend, l.hours, l.what)' \in Nat
                             /\ D!In(l.backend, l.hours, l.what) \in Nat
                             /\ D!In(l.backend, l.hours, l.what)' <=
                                    D!In(l.backend, l.hours, l.what)
    PROVE  D!LimitsKept'
<1>1. ASSUME NEW l \in Limits
      PROVE  D!In(l.backend, l.hours, l.what)' <=
                 IF l.what = "calls" THEN l.max + 1 ELSE l.max - 1 + 2 * D!MostCost
  <2>1. PICK top : top = IF l.what = "calls" THEN l.max + 1 ELSE l.max - 1 + 2 * D!MostCost
    OBVIOUS
  <2>2. top \in Int
    BY <2>1, LimitTypes
  <2>3. D!In(l.backend, l.hours, l.what) <= top
    BY <2>1 DEF D!LimitsKept
  <2>4. D!In(l.backend, l.hours, l.what)' <= top
    BY <2>2, <2>3
  <2> QED
    BY <2>1, <2>4
<1> QED
  BY <1>1 DEF D!LimitsKept, D!MostCost

\* What there was room for there still is, as long as the cycle stays where it is.
LEMMA RoomStays ==
    ASSUME Priced, RoomLeft, CallTypes,
           \A l \in Limits : /\ D!In(l.backend, l.hours, "tokens")' \in Nat
                             /\ D!In(l.backend, l.hours, "tokens") \in Nat
                             /\ D!In(l.backend, l.hours, "tokens")' <=
                                    D!In(l.backend, l.hours, "tokens"),
           role' = None \/ UNCHANGED <<role, decision, work, repaired>>
    PROVE  RoomLeft'
<1>1. CASE role' = None
  <2>1. ~Early'
    BY <1>1 DEF Early, Priced, Role
  <2> QED
    BY <2>1 DEF RoomLeft
<1>2. CASE UNCHANGED <<role, decision, work, repaired>>
  <2>1. SUFFICES ASSUME decision.known, Policy.stopShort, ~repaired, Early,
                        NEW l \in D!TokenLimits(decision.backend)
                 PROVE  D!In(l.backend, l.hours, "tokens")' + Due(role) <= l.max
    BY <1>2 DEF RoomLeft, Early, D!TokenLimits, Due
  <2>2. D!In(l.backend, l.hours, "tokens") + Due(role) <= l.max
    BY <2>1 DEF RoomLeft
  <2>3. l \in Limits
    BY DEF D!TokenLimits
  <2>4. Due(role) \in Nat
    BY DEF Due, Priced, Role
  <2>5. l.max \in Nat
    BY <2>3, LimitTypes
  <2>6. PICK new, old \in Nat : /\ new = D!In(l.backend, l.hours, "tokens")'
                                /\ old = D!In(l.backend, l.hours, "tokens")
    BY <2>3
  <2>7. new <= old
    BY <2>3, <2>6
  <2> QED
    BY <2>2, <2>4, <2>5, <2>6, <2>7
<1> QED
  BY <1>1, <1>2

\* The next backend of the chain, or the end of the cycle.
LEMMA CycleEnds ==
    ASSUME Priced, CallTypes, hour \in D!Hours, NEW success, D!EndCycle(success)
    PROVE  CallTypes' /\ role' = None
<1>1. /\ role' = None /\ chain' = <<>> /\ pos' = 1 /\ coders' = <<>> /\ work' = 0 /\ spent' = 0
      /\ repaired' = FALSE /\ nextRun' = hour /\ decision' = decision
  BY DEF D!EndCycle, D!NoCall
<1>2. highest' \in [Backend -> Nat]
  BY DEF D!EndCycle, CallTypes
<1>3. None \notin {"checks", "qa"} /\ <<>> \in Seq(Backend)
  BY DEF Priced, Role
<1> QED
  BY <1>1, <1>2, <1>3 DEF CallTypes, D!Hours

\* A call goes on with the next backend, or the cycle has ended.
LEMMA GoesFurther ==
    ASSUME Priced, CallTypes, hour \in D!Hours, role # None, D!Further
    PROVE  CallTypes' /\ (role' = None \/ UNCHANGED <<role, decision, work, repaired>>)
<1>1. CASE pos < Len(chain)
  <2>1. pos' = pos + 1 /\ UNCHANGED <<role, chain, highest, nextRun, decision, coders, author,
                                      work, spent, repaired>>
    BY <1>1 DEF D!Further
  <2>2. pos' \in 1..Len(chain')
    BY <1>1, <2>1 DEF CallTypes
  <2> QED
    BY <2>1, <2>2 DEF CallTypes, D!Hours
<1>2. CASE ~(pos < Len(chain))
  <2>1. D!EndCycle(FALSE)
    BY <1>2 DEF D!Further
  <2> QED
    BY <2>1, CycleEnds
<1> QED
  BY <1>1, <1>2

\* An available backend that is asked is one of the chain, below its limits.
LEMMA AskedBelowLimits ==
    ASSUME Priced, CallTypes, Ledger(used, hour), role # None
    PROVE  /\ D!At \in Backend
           /\ ~D!Reached(D!At) => \A l \in Limits : l.backend = D!At =>
                  D!In(l.backend, l.hours, l.what) < l.max
<1>1. chain \in Seq(Backend) /\ pos \in 1..Len(chain)
  BY DEF CallTypes
<1>2. D!At \in Backend
  BY <1>1 DEF D!At
<1>3. ASSUME ~D!Reached(D!At), NEW l \in Limits, l.backend = D!At
      PROVE  D!In(l.backend, l.hours, l.what) < l.max
  <2>1. ~(D!In(l.backend, l.hours, l.what) >= l.max)
    BY <1>3 DEF D!Reached
  <2>2. D!In(l.backend, l.hours, l.what) \in Nat /\ l.max \in Nat
    BY InIsTotal, UsageAddsUp, LimitTypes
  <2> QED
    BY <2>1, <2>2
<1> QED
  BY <1>2, <1>3

\* A call, or a call and the repair of its answer, passes a limit by no more than itself.
LEMMA BookedWithinLimits ==
    ASSUME Priced, Ledger(used, hour), CallTypes, role # None, D!LimitsKept, hour' = hour,
           ~D!Reached(D!At), NEW c \in 0..2, NEW o \in Nat, NEW t \in Nat,
           t <= 2 * D!MostCost, Books(c, o, t)
    PROVE  D!LimitsKept'
<1>0. D!MostCost \in Nat \ {0} /\ c \in Nat
  BY CostsBounded
<1>1. ASSUME NEW l \in Limits
      PROVE  D!In(l.backend, l.hours, l.what)' <=
                 IF l.what = "calls" THEN l.max + 1 ELSE l.max - 1 + 2 * D!MostCost
  <2>1. /\ l.backend \in Backend /\ l.what \in {"calls", "tokens"} /\ l.what \in What
        /\ l.hours \in Nat /\ l.max \in Nat
    BY LimitTypes
  <2>2. PICK now0 \in Nat : now0 = D!In(l.backend, l.hours, l.what)
    BY <2>1, InIsTotal, UsageAddsUp
  <2>3. PICK more : more = IF l.what = "calls" THEN c ELSE t
    OBVIOUS
  <2>4. D!In(l.backend, l.hours, l.what)' = now0 + IF l.backend = D!At THEN more ELSE 0
    <3>1. CASE l.what = "calls"
      BY <1>0, <2>1, <2>2, <2>3, <3>1, BookedOnce
    <3>2. CASE l.what = "tokens"
      BY <1>0, <2>1, <2>2, <2>3, <3>2, BookedOnce
    <3> QED
      BY <2>1, <3>1, <3>2
  <2>5. now0 <= IF l.what = "calls" THEN l.max + 1 ELSE l.max - 1 + 2 * D!MostCost
    BY <2>2 DEF D!LimitsKept
  <2>6. CASE l.backend # D!At
    BY <2>2, <2>4, <2>5, <2>6
  <2>7. CASE l.backend = D!At
    <3>1. now0 < l.max
      BY <2>2, <2>7, AskedBelowLimits
    <3>2. D!In(l.backend, l.hours, l.what)' = now0 + more
      BY <2>4, <2>7
    <3>3. CASE l.what = "calls"
      BY <1>0, <2>1, <2>3, <3>1, <3>2, <3>3
    <3>4. CASE l.what = "tokens"
      BY <1>0, <2>1, <2>3, <3>1, <3>2, <3>4
    <3> QED
      BY <2>1, <3>3, <3>4
  <2> QED
    BY <2>6, <2>7
<1> QED
  BY <1>1 DEF D!LimitsKept, D!MostCost

\* What a backend has left covers what the cycle costs.
LEMMA EnoughIsCovered ==
    ASSUME Priced, Covered, Ledger(used, hour), highest \in [Backend -> Nat],
           NEW b \in Backend, D!Enough(b), Policy.stopShort, NEW l \in D!TokenLimits(b)
    PROVE  D!In(l.backend, l.hours, "tokens") + Due("conductor") <= l.max
<1>1. l \in Limits /\ l.backend = b
  BY DEF D!TokenLimits
<1>2. PICK left : left = {IF D!In(b, j.hours, "tokens") > j.max THEN 0
                          ELSE j.max - D!In(b, j.hours, "tokens") : j \in D!TokenLimits(b)}
  OBVIOUS
<1>3. \A j \in D!TokenLimits(b) : D!In(b, j.hours, "tokens") \in Nat /\ j.max \in Nat
  BY LimitTypes, InIsTotal, UsageAddsUp DEF D!TokenLimits, What
<1>4. left \in SUBSET Nat
  BY <1>2, <1>3
<1>5. PICK mine \in left :
          mine = IF D!In(b, l.hours, "tokens") > l.max THEN 0
                 ELSE l.max - D!In(b, l.hours, "tokens")
  BY <1>2
<1>6. D!Min(left) \in left /\ D!Min(left) <= mine
  BY <1>4, <1>5, LeastOf
<1>7. D!Left(b) = D!Min(left)
  BY <1>2 DEF D!Left
<1>8. D!Left(b) >= D!Required(b)
  BY DEF D!Enough
<1>9. PICK sum \in Nat \ {0} : sum = Cost["conductor"] + Cost["coder"] + Cost["qa"]
  <2>1. Cost["conductor"] \in Nat \ {0} /\ Cost["coder"] \in Nat \ {0} /\ Cost["qa"] \in Nat \ {0}
    BY CostsBounded DEF Role
  <2> QED
    BY <2>1
<1>10. D!Required(b) \in Nat /\ D!Required(b) >= sum
  <2>1. PICK m, e \in Nat : m = highest[b] /\ e = Envelope
    BY DEF Priced
  <2>2. D!Required(b) = ((IF m > e THEN m ELSE e) * 27) \div 20
    BY <2>1 DEF D!Required
  <2>3. (e * 27) \div 20 >= sum
    BY <1>9, <2>1 DEF Covered
  <2>4. \A p, q \in Nat : p >= q => (p * 27) \div 20 >= (q * 27) \div 20 /\ (p * 27) \div 20 \in Nat
    OBVIOUS
  <2>5. PICK p \in Nat : p = (IF m > e THEN m ELSE e) /\ p >= e
    OBVIOUS
  <2>6. (p * 27) \div 20 >= (e * 27) \div 20 /\ (p * 27) \div 20 \in Nat
    BY <2>4, <2>5
  <2>7. (e * 27) \div 20 \in Nat
    BY <2>4
  <2> QED
    BY <1>9, <2>2, <2>3, <2>5, <2>6, <2>7
<1>11. D!Min(left) \in Nat /\ mine \in Nat /\ mine >= sum
  <2>1. PICK least \in Nat : least = D!Min(left)
    BY <1>4, <1>6
  <2>2. PICK needed \in Nat : needed = D!Required(b)
    BY <1>10
  <2>3. mine \in Nat
    BY <1>4
  <2>4. least <= mine /\ least >= needed /\ needed >= sum
    BY <1>6, <1>7, <1>8, <1>10, <2>1, <2>2
  <2> QED
    BY <2>1, <2>3, <2>4
<1>12. D!In(b, l.hours, "tokens") \in Nat /\ l.max \in Nat
  BY <1>3
<1>13. D!In(b, l.hours, "tokens") + sum <= l.max
  BY <1>5, <1>11, <1>12
<1> QED
  BY <1>1, <1>9, <1>13 DEF Due

\* A cycle starts on a measured backend with room for all of it.
LEMMA DecideRoutes ==
    ASSUME Priced, Covered, RouteInv, D!Decide
    PROVE  RouteInv'
<1>1. PICK seq : seq = D!ChainFor("coder")
  OBVIOUS
<1>2. /\ role = None /\ seq # <<>> /\ decision' = D!Starts(seq)
      /\ author' = None /\ work' = 0 /\ spent' = 0 /\ repaired' = FALSE
      /\ UNCHANGED <<hour, board, used, highest>>
      /\ IF D!Starts(seq).kind = "start"
         THEN /\ D!ChainFor("conductor") # <<>> /\ D!Call("conductor", D!ChainFor("conductor"))
              /\ coders' = <<D!Starts(seq).backend>> \o
                             D!Only(seq, Backend \ {D!Starts(seq).backend})
              /\ nextRun' = None
         ELSE /\ D!NoCall /\ coders' = <<>>
              /\ nextRun' = IF D!Starts(seq).kind = "wait" THEN D!Earliest(seq) ELSE nextRun
  BY <1>1 DEF D!Decide
<1>3. Ledger(used, hour) /\ CallTypes /\ BoardTypes /\ D!LimitsKept
  BY DEF RouteInv
<1>4. seq \in Seq(Backend) /\ D!ChainFor("conductor") \in Seq(Backend)
  BY <1>1, <1>3, ChainsOfBackends DEF Role
<1>5. /\ Ledger(used', hour')
      /\ \A b \in Backend : \A hours \in Nat : \A what \in What :
             D!In(b, hours, what)' = D!In(b, hours, what) /\ D!In(b, hours, what) \in Nat
  BY <1>2, <1>3, NothingUsed
<1>6. D!LimitsKept'
  <2>1. D!MostCost \in Nat
    BY CostsBounded
  <2>2. \A l \in Limits : l.backend \in Backend /\ l.hours \in Nat /\ l.what \in What
    BY LimitTypes
  <2>3. \A l \in Limits : /\ D!In(l.backend, l.hours, l.what)' \in Nat
                          /\ D!In(l.backend, l.hours, l.what) \in Nat
                          /\ D!In(l.backend, l.hours, l.what)' <=
                                 D!In(l.backend, l.hours, l.what)
    BY <1>5, <2>2
  <2> QED
    BY <1>3, <2>1, <2>3, LimitsStillKept
<1>7. BoardTypes'
  BY <1>2, <1>3 DEF BoardTypes, D!Hours
<1>8. PICK start : start = D!Starts(seq)
  OBVIOUS
<1>9. /\ start.kind = "start" => start.backend \in Backend
      /\ start.known => start.kind = "start" /\ D!Enough(start.backend)
      /\ start.kind = "wait" => D!Waits(seq) # {}
  BY <1>4, <1>8, StartsOnBackend
<1>10. start \in [kind : {"none", "start", "wait", "human"}, backend : Backend \cup {None},
                  known : BOOLEAN]
  <2>1. \A x \in Backend : x \in Backend \cup {None}
    OBVIOUS
  <2>2. start.kind \in {"start", "wait", "human"} /\ start.known \in BOOLEAN
        /\ (start.kind = "start" \/ start.backend = None)
        /\ start = [kind |-> start.kind, backend |-> start.backend, known |-> start.known]
    BY <1>8 DEF D!Starts
  <2>3. start.backend \in Backend \cup {None}
    BY <1>9, <2>2
  <2> QED
    BY <2>2, <2>3
<1>11. CASE start.kind = "start"
  <2>1. /\ role' = "conductor" /\ chain' = D!ChainFor("conductor") /\ pos' = 1
        /\ chain' # <<>> /\ nextRun' = None
        /\ coders' = <<start.backend>> \o D!Only(seq, Backend \ {start.backend})
    BY <1>2, <1>8, <1>11 DEF D!Call
  <2>2. coders' \in Seq(Backend) /\ coders' # <<>>
    <3>1. PICK rest : rest = D!Only(seq, Backend \ {start.backend})
      OBVIOUS
    <3>2. rest \in Seq(Backend)
      BY <1>4, <3>1, OnlyOfBackends
    <3>3. <<start.backend>> \in Seq(Backend) /\ Len(<<start.backend>>) = 1
      BY <1>9, <1>11
    <3>4. <<start.backend>> \o rest \in Seq(Backend)
          /\ Len(<<start.backend>> \o rest) = 1 + Len(rest) /\ Len(rest) \in Nat
      BY <3>2, <3>3
    <3>5. <<start.backend>> \o rest # <<>>
      BY <3>4
    <3> QED
      BY <2>1, <3>1, <3>4, <3>5
  <2>3. pos' \in 1..Len(chain')
    BY <1>4, <2>1
  <2>4. CallTypes'
    <3>1. highest' = highest /\ highest' \in [Backend -> Nat]
      BY <1>2, <1>3 DEF CallTypes
    <3>2. chain' \in Seq(Backend)
      BY <1>4, <2>1
    <3> QED
      BY <1>2, <1>8, <1>9, <1>10, <2>1, <2>2, <2>3, <3>1, <3>2 DEF CallTypes, Role, D!Hours
  <2>5. RoomLeft'
    <3>1. SUFFICES ASSUME decision'.known, Policy.stopShort,
                          NEW l \in D!TokenLimits(start.backend)
                   PROVE  D!In(l.backend, l.hours, "tokens")' + Due("conductor") <= l.max
      BY <1>2, <1>8, <2>1 DEF RoomLeft, D!TokenLimits, Due
    <3>2. D!Enough(start.backend) /\ start.backend \in Backend
      BY <1>2, <1>8, <1>9, <1>11, <3>1
    <3>3. D!In(l.backend, l.hours, "tokens") + Due("conductor") <= l.max
      BY <1>3, <3>1, <3>2, EnoughIsCovered DEF CallTypes
    <3>4. l.backend \in Backend /\ l.hours \in Nat
      BY LimitTypes DEF D!TokenLimits
    <3>5. D!In(l.backend, l.hours, "tokens")' = D!In(l.backend, l.hours, "tokens")
      BY <1>5, <3>4 DEF What
    <3> QED
      BY <3>3, <3>5
  <2> QED
    BY <1>5, <1>6, <1>7, <2>4, <2>5 DEF RouteInv
<1>12. CASE start.kind # "start"
  <2>1. /\ role' = None /\ chain' = <<>> /\ pos' = 1 /\ coders' = <<>>
        /\ nextRun' = IF start.kind = "wait" THEN D!Earliest(seq) ELSE nextRun
    BY <1>2, <1>8, <1>12 DEF D!NoCall
  <2>2. start.kind = "wait" => D!Earliest(seq) \in D!Hours
    <3>1. SUFFICES ASSUME start.kind = "wait" PROVE D!Earliest(seq) \in D!Hours
      OBVIOUS
    <3>2. PICK ends : ends = {board[b].until : b \in D!Waits(seq)}
      OBVIOUS
    <3>3. \A b \in D!Range(seq) : b \in Backend
      BY <1>4 DEF D!Range
    <3>4. \A b \in D!Waits(seq) : board[b].until \in D!Hours
      BY <1>3, <3>3 DEF D!Waits, BoardTypes
    <3>5. ends # {} /\ ends \in SUBSET D!Hours
      BY <1>9, <3>1, <3>2, <3>4
    <3>6. ends \in SUBSET Nat
      BY <3>5 DEF D!Hours
    <3>7. D!Min(ends) \in ends
      BY <3>5, <3>6, LeastOf
    <3> QED
      BY <3>2, <3>5, <3>7 DEF D!Earliest
  <2>3. nextRun' \in D!Hours \cup {None}
    BY <1>3, <2>1, <2>2 DEF CallTypes
  <2>4. CallTypes'
    <3>1. highest' = highest /\ highest' \in [Backend -> Nat]
      BY <1>2, <1>3 DEF CallTypes
    <3>2. ~start.known /\ <<>> \in Seq(Backend) /\ None \notin {"checks", "qa"}
      BY <1>9, <1>12 DEF Priced, Role
    <3> QED
      BY <1>2, <1>8, <1>10, <2>1, <2>3, <3>1, <3>2 DEF CallTypes, D!Hours
  <2>5. RoomLeft'
    BY <1>2, <1>8, <1>9, <1>12 DEF RoomLeft
  <2> QED
    BY <1>5, <1>6, <1>7, <2>4, <2>5 DEF RouteInv
<1> QED
  BY <1>11, <1>12

\* A backend that is probed or skipped uses nothing.
LEMMA ProbeRoutes ==
    ASSUME Priced, RouteInv, D!Probe \/ D!Skip
    PROVE  RouteInv'
<1>1. Ledger(used, hour) /\ CallTypes /\ BoardTypes /\ D!LimitsKept /\ RoomLeft
  BY DEF RouteInv
<1>2. role # None /\ used' = used /\ hour' = hour
  BY DEF D!Probe, D!Skip
<1>3. D!Further \/ UNCHANGED <<role, chain, pos, highest, nextRun, decision, coders, author, work,
                               spent, repaired>>
  BY DEF D!Probe, D!Skip
<1>4. hour \in D!Hours
  BY <1>1 DEF Ledger
<1>5. CallTypes' /\ (role' = None \/ UNCHANGED <<role, decision, work, repaired>>)
  <2>1. CASE D!Further
    BY <1>1, <1>2, <1>4, <2>1, GoesFurther
  <2>2. CASE UNCHANGED <<role, chain, pos, highest, nextRun, decision, coders, author, work,
                         spent, repaired>>
    BY <1>1, <2>2 DEF CallTypes, D!Hours
  <2> QED
    BY <1>3, <2>1, <2>2
<1>6. BoardTypes'
  <2>1. board' = board \/ board' = [board EXCEPT ![D!At].state = "available"]
    BY DEF D!Probe, D!Skip
  <2>2. CASE board' = board
    BY <1>1, <2>2 DEF BoardTypes, D!Hours
  <2>3. CASE board' = [board EXCEPT ![D!At].state = "available"]
    <3>1. board' \in [Backend -> [state : {"available", "degraded", "limited", "unavailable",
                                           "cooling", "auth"},
                                  until : D!Hours \cup {None}, fails : Nat]]
      BY <1>1, <2>3 DEF BoardTypes
    <3> QED
      BY <3>1 DEF BoardTypes, D!Hours
  <2> QED
    BY <2>1, <2>2, <2>3
<1>7. /\ Ledger(used', hour')
      /\ \A b \in Backend : \A hours \in Nat : \A what \in What :
             D!In(b, hours, what)' = D!In(b, hours, what) /\ D!In(b, hours, what) \in Nat
  BY <1>1, <1>2, NothingUsed
<1>8. \A l \in Limits : l.backend \in Backend /\ l.hours \in Nat /\ l.what \in What
  BY LimitTypes
<1>9. D!LimitsKept'
  <2>1. \A l \in Limits : /\ D!In(l.backend, l.hours, l.what)' \in Nat
                          /\ D!In(l.backend, l.hours, l.what) \in Nat
                          /\ D!In(l.backend, l.hours, l.what)' <=
                                 D!In(l.backend, l.hours, l.what)
    BY <1>7, <1>8
  <2>2. D!MostCost \in Nat
    BY CostsBounded
  <2> QED
    BY <1>1, <2>1, <2>2, LimitsStillKept
<1>10. RoomLeft'
  <2>1. \A l \in Limits : /\ D!In(l.backend, l.hours, "tokens")' \in Nat
                          /\ D!In(l.backend, l.hours, "tokens") \in Nat
                          /\ D!In(l.backend, l.hours, "tokens")' <=
                                 D!In(l.backend, l.hours, "tokens")
    BY <1>7, <1>8 DEF What
  <2> QED
    BY <1>1, <1>5, <2>1, RoomStays
<1> QED
  BY <1>5, <1>6, <1>7, <1>9, <1>10 DEF RouteInv

\* The review has room from the start.
LEMMA ReviewRoutes ==
    ASSUME Priced, RouteInv, D!Review
    PROVE  RouteInv'
<1>1. Ledger(used, hour) /\ CallTypes /\ BoardTypes /\ D!LimitsKept /\ RoomLeft
  BY DEF RouteInv
<1>2. /\ role = "checks" /\ D!ChainFor("qa") # <<>> /\ role' = "qa" /\ chain' = D!ChainFor("qa")
      /\ pos' = 1
      /\ UNCHANGED <<hour, board, used, highest, nextRun, decision, coders, author, work, spent,
                     repaired>>
  BY DEF D!Review, D!Call
<1>3. D!ChainFor("qa") \in Seq(Backend)
  BY <1>1, ChainsOfBackends DEF Role
<1>4. pos' \in 1..Len(chain')
  BY <1>2, <1>3
<1>5. CallTypes'
  <2>1. work > 0 /\ coders # <<>>
    BY <1>1, <1>2 DEF CallTypes, Priced
  <2> QED
    BY <1>1, <1>2, <1>3, <1>4, <2>1 DEF CallTypes, Role, D!Hours
<1>6. BoardTypes'
  BY <1>1, <1>2 DEF BoardTypes, D!Hours
<1>7. /\ Ledger(used', hour')
      /\ \A b \in Backend : \A hours \in Nat : \A what \in What :
             D!In(b, hours, what)' = D!In(b, hours, what) /\ D!In(b, hours, what) \in Nat
  BY <1>1, <1>2, NothingUsed
<1>8. \A l \in Limits : l.backend \in Backend /\ l.hours \in Nat /\ l.what \in What
  BY LimitTypes
<1>9. D!LimitsKept'
  <2>1. \A l \in Limits : /\ D!In(l.backend, l.hours, l.what)' \in Nat
                          /\ D!In(l.backend, l.hours, l.what) \in Nat
                          /\ D!In(l.backend, l.hours, l.what)' <=
                                 D!In(l.backend, l.hours, l.what)
    BY <1>7, <1>8
  <2>2. D!MostCost \in Nat
    BY CostsBounded
  <2> QED
    BY <1>1, <2>1, <2>2, LimitsStillKept
<1>10. RoomLeft'
  <2>1. SUFFICES ASSUME decision.known, Policy.stopShort, ~repaired, work <= 1,
                        NEW l \in D!TokenLimits(decision.backend)
                 PROVE  D!In(l.backend, l.hours, "tokens")' + Cost["qa"] <= l.max
    BY <1>2 DEF RoomLeft, Early, D!TokenLimits, Due
  <2>2. D!In(l.backend, l.hours, "tokens") + Cost["qa"] <= l.max
    BY <1>1, <1>2, <2>1 DEF RoomLeft, Early, Due
  <2>3. l.backend \in Backend /\ l.hours \in Nat /\ "tokens" \in What
    BY <1>8 DEF D!TokenLimits, What
  <2>4. D!In(l.backend, l.hours, "tokens")' = D!In(l.backend, l.hours, "tokens")
    BY <1>7, <2>3
  <2> QED
    BY <2>2, <2>4
<1> QED
  BY <1>5, <1>6, <1>7, <1>9, <1>10 DEF RouteInv

\* As time passes room only grows.
LEMMA HourRoutes ==
    ASSUME Priced, RouteInv, D!HourPasses
    PROVE  RouteInv'
<1>1. Ledger(used, hour) /\ CallTypes /\ BoardTypes /\ D!LimitsKept /\ RoomLeft
  BY DEF RouteInv
<1>2. /\ hour < MaxHour /\ hour' = hour + 1 /\ used' = used
      /\ UNCHANGED <<board, highest, nextRun, decision, role, chain, pos, coders, author, work,
                     spent, repaired>>
  BY DEF D!HourPasses
<1>3. CallTypes'
  BY <1>1, <1>2 DEF CallTypes, D!Hours
<1>4. BoardTypes'
  BY <1>1, <1>2 DEF BoardTypes, D!Hours
<1>5. /\ Ledger(used', hour')
      /\ \A b \in Backend : \A hours \in Nat : \A what \in What :
            D!In(b, hours, what)' <= D!In(b, hours, what)
  BY <1>1, <1>2, LessLater
<1>6. \A b \in Backend : \A hours \in Nat : \A what \in What :
          D!In(b, hours, what)' \in Nat /\ D!In(b, hours, what) \in Nat
  <2>1. SUFFICES ASSUME NEW b \in Backend, NEW hours \in Nat, NEW what \in What
                 PROVE  D!In(b, hours, what)' \in Nat /\ D!In(b, hours, what) \in Nat
    OBVIOUS
  <2>2. D!In(b, hours, what) \in Nat
    BY <1>1, InIsTotal, UsageAddsUp
  <2>3. UsedIn(used', hour', b, hours, what) \in Nat
    BY <1>5, UsageAddsUp
  <2>4. D!In(b, hours, what)' = UsedIn(used', hour', b, hours, what)
    BY <1>5, InIsTotal
  <2> QED
    BY <2>2, <2>3, <2>4
<1>7. \A l \in Limits : l.backend \in Backend /\ l.hours \in Nat /\ l.what \in What
  BY LimitTypes
<1>8. D!LimitsKept'
  <2>1. \A l \in Limits : /\ D!In(l.backend, l.hours, l.what)' \in Nat
                          /\ D!In(l.backend, l.hours, l.what) \in Nat
                          /\ D!In(l.backend, l.hours, l.what)' <=
                                 D!In(l.backend, l.hours, l.what)
    BY <1>5, <1>6, <1>7
  <2>2. D!MostCost \in Nat
    BY CostsBounded
  <2> QED
    BY <1>1, <2>1, <2>2, LimitsStillKept
<1>9. RoomLeft'
  <2>1. \A l \in Limits : /\ D!In(l.backend, l.hours, "tokens")' \in Nat
                          /\ D!In(l.backend, l.hours, "tokens") \in Nat
                          /\ D!In(l.backend, l.hours, "tokens")' <=
                                 D!In(l.backend, l.hours, "tokens")
    BY <1>5, <1>6, <1>7 DEF What
  <2>2. UNCHANGED <<role, decision, work, repaired>>
    BY <1>2
  <2> QED
    BY <1>1, <2>1, <2>2, RoomStays
<1> QED
  BY <1>3, <1>4, <1>5, <1>8, <1>9 DEF RouteInv

\* What an answered call takes off the room that is left.
LEMMA TokensTaken ==
    ASSUME Priced, Ledger(used, hour), hour' = hour, NEW c \in Nat, NEW o \in Nat, NEW t \in Nat,
           Books(c, o, t), NEW l \in Limits
    PROVE  /\ D!In(l.backend, l.hours, "tokens") \in Nat
           /\ D!In(l.backend, l.hours, "tokens")' \in Nat
           /\ D!In(l.backend, l.hours, "tokens")' <= D!In(l.backend, l.hours, "tokens") + t
<1>1. l.backend \in Backend /\ l.hours \in Nat
  BY LimitTypes
<1>2. PICK old \in Nat : old = D!In(l.backend, l.hours, "tokens")
  BY <1>1, InIsTotal, UsageAddsUp DEF What
<1>3. D!In(l.backend, l.hours, "tokens")' = old + IF l.backend = D!At THEN t ELSE 0
  BY <1>1, <1>2, BookedOnce
<1> QED
  BY <1>2, <1>3

\* An answer takes its cost from the room of its role.
LEMMA AnsweredRoutes ==
    ASSUME Priced, RouteInv, D!Answered
    PROVE  RouteInv'
<1>1. Ledger(used, hour) /\ CallTypes /\ BoardTypes /\ D!LimitsKept /\ RoomLeft
  BY DEF RouteInv
<1>2. role \in Role /\ role # None /\ ~D!Reached(D!At) /\ hour' = hour
      /\ board' = [board EXCEPT ![D!At] = D!Clear]
  BY DEF D!Answered, Priced, D!Clear
<1>3. PICK tokens \in Nat \ {0} : tokens = Cost[role] /\ tokens <= D!MostCost
  BY <1>2, CostsBounded
<1>4. PICK c \in 1..2 : /\ used' = D!Logged(D!At, c, c, c * tokens)
                        /\ D!Proceed(tokens, c = 2)
  <2>1. PICK more : more = IF "malformed" \in Faults THEN 1..2 ELSE {1}
    OBVIOUS
  <2>2. \A c \in more : c \in 1..2
    BY <2>1
  <2>3. \E c \in more : /\ used' = D!Logged(D!At, c, c, c * tokens)
                        /\ D!Proceed(tokens, c = 2)
    BY <1>3, <2>1 DEF D!Answered
  <2> QED
    BY <2>2, <2>3
<1>5. PICK t \in Nat : Books(c, c, t) /\ t <= 2 * tokens /\ (c = 1 => t = tokens)
  <2>1. c * tokens \in Nat /\ c * tokens <= 2 * tokens /\ (c = 1 => c * tokens = tokens)
    <3>1. c = 1 \/ c = 2
      OBVIOUS
    <3>2. 1 * tokens = tokens /\ tokens <= 2 * tokens /\ 2 * tokens \in Nat
      OBVIOUS
    <3> QED
      BY <3>1, <3>2
  <2>2. Books(c, c, c * tokens)
    BY <1>4 DEF D!Logged, Books
  <2> QED
    BY <2>1, <2>2
<1>6. Ledger(used', hour')
  BY <1>1, <1>2, <1>5, BookedOnce
<1>7. D!LimitsKept'
  <2>1. D!MostCost \in Nat
    BY CostsBounded
  <2>2. c \in 0..2 /\ t <= 2 * D!MostCost
    BY <1>3, <1>5, <2>1
  <2> QED
    BY <1>1, <1>2, <1>5, <2>2, BookedWithinLimits
<1>8. BoardTypes'
  <2>1. D!Clear \in [state : {"available", "degraded", "limited", "unavailable", "cooling",
                               "auth"},
                     until : D!Hours \cup {None}, fails : Nat]
    BY DEF D!Clear
  <2>2. board' \in [Backend -> [state : {"available", "degraded", "limited", "unavailable",
                                         "cooling", "auth"},
                                until : D!Hours \cup {None}, fails : Nat]]
    BY <1>1, <1>2, <2>1 DEF BoardTypes
  <2> QED
    BY <2>2 DEF BoardTypes, D!Hours
<1>9. \A l \in Limits :
          /\ D!In(l.backend, l.hours, "tokens") \in Nat
          /\ D!In(l.backend, l.hours, "tokens")' \in Nat
          /\ D!In(l.backend, l.hours, "tokens")' <= D!In(l.backend, l.hours, "tokens") + t
  BY <1>1, <1>2, <1>5, TokensTaken
<1>10. hour \in D!Hours /\ coders # <<>> /\ coders \in Seq(Backend) /\ pos \in 1..Len(chain)
       /\ chain \in Seq(Backend)
  BY <1>1, <1>2 DEF CallTypes, Ledger
<1>11. 1 \in 1..Len(coders)
  BY <1>10
\* The room that was left before the call covers the calls after it.
<1>12. ASSUME Early, UNCHANGED decision, ~repaired, c # 2, Due(role') + tokens = Due(role),
              Due(role') \in Nat, decision.known, Policy.stopShort,
              NEW l \in D!TokenLimits(decision.backend)
       PROVE  D!In(l.backend, l.hours, "tokens")' + Due(role') <= l.max
  <2>1. l \in Limits /\ l.max \in Nat
    BY LimitTypes DEF D!TokenLimits
  <2>2. D!In(l.backend, l.hours, "tokens") + Due(role) <= l.max
    BY <1>1, <1>12 DEF RoomLeft
  <2>3. PICK old, new, due \in Nat : /\ old = D!In(l.backend, l.hours, "tokens")
                                     /\ new = D!In(l.backend, l.hours, "tokens")'
                                     /\ due = Due(role')
    BY <1>9, <1>12, <2>1
  <2>4. new <= old + tokens
    BY <1>5, <1>9, <1>12, <2>1, <2>3
  <2>5. old + (due + tokens) <= l.max
    BY <1>12, <2>2, <2>3
  <2> QED
    BY <2>1, <2>3, <2>4, <2>5
<1>13. CASE role = "conductor" /\ D!Call("coder", coders) /\ repaired' = (repaired \/ c = 2)
            /\ UNCHANGED <<highest, nextRun, decision, coders, author, work, spent>>
  <2>1. role' = "coder" /\ chain' = coders /\ pos' = 1
    BY <1>13 DEF D!Call
  <2>2. CallTypes'
    BY <1>1, <1>10, <1>11, <1>13, <2>1 DEF CallTypes, Role, D!Hours
  <2>3. Due(role') + tokens = Due(role) /\ Due(role') \in Nat
    BY <1>3, <1>13, <2>1, CostsBounded DEF Due, Role
  <2>4. RoomLeft'
    <3>1. Early
      BY <1>13 DEF Early
    <3>2. SUFFICES ASSUME decision.known, Policy.stopShort, ~repaired, c # 2,
                          NEW l \in D!TokenLimits(decision.backend)
                   PROVE  D!In(l.backend, l.hours, "tokens")' + Due(role') <= l.max
      BY <1>13 DEF RoomLeft, D!TokenLimits, Due
    <3> QED
      BY <1>12, <1>13, <2>3, <3>1, <3>2
  <2> QED
    BY <1>6, <1>7, <1>8, <2>2, <2>4 DEF RouteInv
<1>14. CASE /\ role = "coder" /\ role' = "checks" /\ chain' = <<D!At>> /\ pos' = 1
            /\ work' = work + 1 /\ spent' = spent + tokens /\ repaired' = (repaired \/ c = 2)
            /\ UNCHANGED <<highest, nextRun, decision, coders>>
  <2>1. <<D!At>> \in Seq(Backend) /\ 1 \in 1..Len(<<D!At>>)
    BY <1>1, <1>2, AskedBelowLimits
  <2>2. work' \in Nat /\ work' > 0 /\ spent' \in Nat
    BY <1>1, <1>14 DEF CallTypes
  <2>3. CallTypes'
    BY <1>1, <1>10, <1>14, <2>1, <2>2 DEF CallTypes, D!Hours
  <2>4. Due(role') + tokens = Due(role) /\ Due(role') \in Nat
    BY <1>3, <1>14, CostsBounded DEF Due, Role
  <2>5. RoomLeft'
    <3>1. Early' => Early
      BY <1>1, <1>14 DEF Early, CallTypes
    <3>2. SUFFICES ASSUME decision.known, Policy.stopShort, ~repaired, c # 2, Early,
                          NEW l \in D!TokenLimits(decision.backend)
                   PROVE  D!In(l.backend, l.hours, "tokens")' + Due(role') <= l.max
      BY <1>14, <3>1 DEF RoomLeft, D!TokenLimits, Due
    <3> QED
      BY <1>12, <1>14, <2>4, <3>2
  <2> QED
    BY <1>6, <1>7, <1>8, <2>3, <2>5 DEF RouteInv
<1>15. CASE \E success \in BOOLEAN : D!EndCycle(success)
  <2>1. CallTypes' /\ role' = None
    BY <1>1, <1>10, <1>15, CycleEnds
  <2>2. ~Early'
    BY <2>1 DEF Early, Priced, Role
  <2>3. RoomLeft'
    BY <2>2 DEF RoomLeft
  <2> QED
    BY <1>6, <1>7, <1>8, <2>1, <2>3 DEF RouteInv
<1>16. CASE /\ role = "qa" /\ D!Call("coder", coders) /\ repaired' = (repaired \/ c = 2)
            /\ UNCHANGED <<highest, nextRun, decision, coders, author, work, spent>>
  <2>1. role' = "coder" /\ chain' = coders /\ pos' = 1
    BY <1>16 DEF D!Call
  <2>2. CallTypes'
    BY <1>1, <1>10, <1>11, <1>16, <2>1 DEF CallTypes, Role, D!Hours
  <2>3. work > 0 /\ work' = work
    BY <1>1, <1>16 DEF CallTypes
  <2>4. ~Early'
    BY <2>1, <2>3 DEF Early
  <2>5. RoomLeft'
    BY <2>4 DEF RoomLeft
  <2> QED
    BY <1>6, <1>7, <1>8, <2>2, <2>5 DEF RouteInv
<1> QED
  BY <1>4, <1>5, <1>13, <1>14, <1>15, <1>16 DEF D!Proceed

\* A call that fails takes no tokens.
LEMMA FailsRoutes ==
    ASSUME Priced, RouteInv, NEW fault, D!Fails(fault)
    PROVE  RouteInv'
<1>1. Ledger(used, hour) /\ CallTypes /\ BoardTypes /\ D!LimitsKept /\ RoomLeft
  BY DEF RouteInv
<1>2. /\ role \in Role /\ role # None /\ ~D!Reached(D!At) /\ hour' = hour
      /\ fault # "auth" => hour < MaxHour
      /\ used' = D!Logged(D!At, 1, 0, 0)
  BY DEF D!Fails, Priced
<1>3. 0 \in Nat /\ Books(1, 0, 0)
  BY <1>2 DEF D!Logged, Books
<1>4. Ledger(used', hour') /\ hour \in D!Hours
  <2>1. Ledger(used', hour')
    BY <1>1, <1>2, <1>3, BookedOnce
  <2> QED
    BY <1>1, <2>1 DEF Ledger
<1>5. D!LimitsKept'
  <2>1. D!MostCost \in Nat
    BY CostsBounded
  <2>2. 0 <= 2 * D!MostCost /\ 1 \in 0..2
    BY <2>1
  <2> QED
    BY <1>1, <1>2, <1>3, <2>2, BookedWithinLimits
<1>6. \E fails \in Nat :
          \/ /\ fault # "auth" /\ D!Further
             /\ \/ board' = [board EXCEPT ![D!At] =
                       [state |-> "limited", until |-> hour + 1, fails |-> fails]]
                \/ board' = [board EXCEPT ![D!At] =
                       [state |-> "unavailable", until |-> hour + 1, fails |-> fails]]
                \/ board' = [board EXCEPT ![D!At] =
                       [board[D!At] EXCEPT !.state = "degraded", !.fails = fails]]
          \/ /\ board' = [board EXCEPT ![D!At] =
                    [state |-> "auth", until |-> None, fails |-> fails]]
             /\ D!EndCycle(FALSE)
  <2>1. D!At \in Backend
    BY <1>1, <1>2, AskedBelowLimits
  <2>2. board[D!At].fails \in Nat
    BY <1>1, <2>1 DEF BoardTypes
  <2>3. PICK fails \in Nat : fails = D!Least(board[D!At].fails + 1, 3)
    BY <2>2 DEF D!Least
  <2>4. \/ /\ fault = "limit"
           /\ board' = [board EXCEPT ![D!At] =
                 [state |-> "limited", until |-> hour + 1, fails |-> fails]]
           /\ D!Further
        \/ /\ fault = "outage"
           /\ board' = [board EXCEPT ![D!At] =
                 IF fails = 3
                 THEN [state |-> "unavailable", until |-> hour + 1, fails |-> 3]
                 ELSE [board[D!At] EXCEPT !.state = "degraded", !.fails = fails]]
           /\ D!Further
        \/ /\ fault = "auth"
           /\ board' = [board EXCEPT ![D!At] =
                 [state |-> "auth", until |-> None, fails |-> fails]]
           /\ D!EndCycle(FALSE)
    BY <2>3 DEF D!Fails
  <2>5. fails = 3 \/ fails # 3
    OBVIOUS
  <2> QED
    BY <2>4, <2>5
<1>7. PICK fails \in Nat :
          \/ /\ fault # "auth" /\ D!Further
             /\ \/ board' = [board EXCEPT ![D!At] =
                       [state |-> "limited", until |-> hour + 1, fails |-> fails]]
                \/ board' = [board EXCEPT ![D!At] =
                       [state |-> "unavailable", until |-> hour + 1, fails |-> fails]]
                \/ board' = [board EXCEPT ![D!At] =
                       [board[D!At] EXCEPT !.state = "degraded", !.fails = fails]]
          \/ /\ board' = [board EXCEPT ![D!At] =
                    [state |-> "auth", until |-> None, fails |-> fails]]
             /\ D!EndCycle(FALSE)
  BY <1>6
<1>8. BoardTypes'
  <2>1. PICK Rec : Rec = [state : {"available", "degraded", "limited", "unavailable", "cooling",
                                   "auth"},
                          until : D!Hours \cup {None}, fails : Nat]
    OBVIOUS
  <2>2. board \in [Backend -> Rec] /\ D!At \in Backend
    BY <1>1, <1>2, <2>1, AskedBelowLimits DEF BoardTypes
  <2>3. fault # "auth" => hour + 1 \in D!Hours
    BY <1>2, <1>4 DEF D!Hours, Priced
  <2>4. [state |-> "auth", until |-> None, fails |-> fails] \in Rec
    BY <2>1
  <2>5. fault # "auth" => /\ [state |-> "limited", until |-> hour + 1, fails |-> fails] \in Rec
                          /\ [state |-> "unavailable", until |-> hour + 1, fails |-> fails] \in Rec
    BY <2>1, <2>3
  <2>6. [board[D!At] EXCEPT !.state = "degraded", !.fails = fails] \in Rec
    <3>1. board[D!At] \in Rec
      BY <2>2
    <3> QED
      BY <2>1, <3>1
  <2>7. \E rec \in Rec : board' = [board EXCEPT ![D!At] = rec]
    BY <1>7, <2>4, <2>5, <2>6
  <2>8. board' \in [Backend -> Rec]
    BY <2>2, <2>7
  <2> QED
    BY <2>1, <2>8 DEF BoardTypes, D!Hours
<1>9. CallTypes' /\ (role' = None \/ UNCHANGED <<role, decision, work, repaired>>)
  <2>1. CASE D!Further
    BY <1>1, <1>2, <1>4, <2>1, GoesFurther
  <2>2. CASE D!EndCycle(FALSE)
    BY <1>1, <1>4, <2>2, CycleEnds
  <2> QED
    BY <1>7, <2>1, <2>2
<1>10. RoomLeft'
  <2>1. \A l \in Limits :
            /\ D!In(l.backend, l.hours, "tokens") \in Nat
            /\ D!In(l.backend, l.hours, "tokens")' \in Nat
            /\ D!In(l.backend, l.hours, "tokens")' <= D!In(l.backend, l.hours, "tokens") + 0
    BY <1>1, <1>2, <1>3, TokensTaken
  <2>2. \A l \in Limits :
            /\ D!In(l.backend, l.hours, "tokens")' \in Nat
            /\ D!In(l.backend, l.hours, "tokens") \in Nat
            /\ D!In(l.backend, l.hours, "tokens")' <= D!In(l.backend, l.hours, "tokens")
    BY <2>1
  <2> QED
    BY <1>1, <1>9, <2>2, RoomStays
<1> QED
  BY <1>4, <1>5, <1>8, <1>9, <1>10 DEF RouteInv

\* Nothing has been used yet.
LEMMA RoutingStarts == ASSUME Priced, D!Init PROVE RouteInv
<1>1. Ledger(used, hour)
  BY DEF D!Init, Ledger, D!Hours, Priced
<1>2. BoardTypes
  BY DEF D!Init, BoardTypes, D!Clear
<1>3. CallTypes
  <2>1. <<>> \in Seq(Backend) /\ None \notin {"checks", "qa"}
    BY DEF Priced, Role
  <2> QED
    BY <2>1 DEF D!Init, CallTypes
<1>4. RoomLeft
  BY DEF D!Init, RoomLeft
<1>5. ASSUME NEW b \in Backend, NEW hours \in Nat, NEW what \in What
      PROVE  D!In(b, hours, what) = 0
  <2>1. PICK f : f = Usage(used, b, what)
    OBVIOUS
  <2>2. PICK win : win = Back(hour, hours)
    OBVIOUS
  <2>3. D!In(b, hours, what) = Total(f, win) /\ Summable(f, win)
    BY <1>1, <2>1, <2>2, InIsTotal, UsageAddsUp DEF UsedIn
  <2>4. win \subseteq {0} /\ \A x \in win : f[x] = 0
    BY <2>1, <2>2 DEF D!Init, Back, Usage, What, D!Hours
  <2>5. CASE win = {}
    BY <2>3, <2>5, SumWithout
  <2>6. CASE win # {}
    <3>1. win = {0}
      BY <2>4, <2>6
    <3>2. Total(f, win) = f[0] + Total(f, win \ {0})
      BY <2>3, <3>1, SumWithout
    <3>3. win \ {0} = {} /\ Summable(f, win \ {0})
      BY <3>1, FS_EmptySet DEF Summable
    <3>4. Total(f, win \ {0}) = 0
      BY <3>3, SumWithout
    <3> QED
      BY <2>3, <2>4, <3>1, <3>2, <3>4
  <2> QED
    BY <2>5, <2>6
<1>6. D!LimitsKept
  <2>1. SUFFICES ASSUME NEW l \in Limits
                 PROVE  0 <= IF l.what = "calls" THEN l.max + 1 ELSE l.max - 1 + 2 * D!MostCost
    BY <1>5, LimitTypes DEF D!LimitsKept
  <2>2. l.max \in Nat /\ D!MostCost \in Nat \ {0}
    BY LimitTypes, CostsBounded
  <2> QED
    BY <2>2
<1> QED
  BY <1>1, <1>2, <1>3, <1>4, <1>6 DEF RouteInv

\* A backend that has room for its role's call is below its limits.
LEMMA RoomSuffices ==
    ASSUME Priced, RouteInv
    PROVE  D!TypeOK /\ D!LimitsKept /\ D!EnvelopeSuffices
<1>1. Ledger(used, hour) /\ CallTypes /\ BoardTypes /\ D!LimitsKept /\ RoomLeft
  BY DEF RouteInv
<1>2. D!TypeOK
  <2>1. hour \in D!Hours /\ nextRun \in D!Hours \cup {None}
    BY <1>1 DEF Ledger, CallTypes
  <2>2. \A b \in Backend : board[b].state \in
           {"available", "degraded", "limited", "unavailable", "cooling", "auth"}
    BY <1>1 DEF BoardTypes
  <2>3. role \in DOMAIN Cost \cup {"checks", None}
    BY <1>1 DEF CallTypes, Priced
  <2>4. D!Range(chain) \subseteq Backend /\ (role # None => pos \in DOMAIN chain)
    BY <1>1 DEF CallTypes, D!Range
  <2> QED
    BY <2>1, <2>2, <2>3, <2>4 DEF D!TypeOK
<1>3. D!EnvelopeSuffices
  <2>1. SUFFICES ASSUME decision.known, Policy.stopShort, ~repaired,
                        role \in {"conductor", "coder", "qa"}, work <= 1,
                        role = "coder" => work = 0,
                        NEW l \in D!TokenLimits(decision.backend)
                 PROVE  D!In(l.backend, l.hours, "tokens") < l.max
    BY DEF D!EnvelopeSuffices
  <2>2. Early
    BY <2>1 DEF Early
  <2>3. D!In(l.backend, l.hours, "tokens") + Due(role) <= l.max
    BY <1>1, <2>1, <2>2 DEF RoomLeft
  <2>4. Due(role) \in Nat \ {0}
    BY <2>1, CostsBounded DEF Due, Role
  <2>5. l \in Limits
    BY DEF D!TokenLimits
  <2>6. D!In(l.backend, l.hours, "tokens") \in Nat /\ l.max \in Nat
    BY <1>1, <2>5, LimitTypes, InIsTotal, UsageAddsUp DEF What
  <2> QED
    BY <2>3, <2>4, <2>6
<1> QED
  BY <1>1, <1>2, <1>3

\* No limit is exceeded, and a cycle has room for its review, in every state.
LEMMA RoutingHolds ==
    Priced /\ Covered /\ SupplySpec => [](D!TypeOK /\ D!LimitsKept /\ D!EnvelopeSuffices)
<1> SUFFICES ASSUME Priced, Covered
             PROVE  SupplySpec => [](D!TypeOK /\ D!LimitsKept /\ D!EnvelopeSuffices)
  OBVIOUS
<1>1. D!Init => RouteInv
  BY RoutingStarts
<1>2. ASSUME RouteInv, [D!Next]_(D!dvars) PROVE RouteInv'
  <2>1. CASE D!Decide
    BY <1>2, <2>1, DecideRoutes
  <2>2. CASE D!Probe \/ D!Skip
    BY <1>2, <2>2, ProbeRoutes
  <2>3. CASE D!Answered
    BY <1>2, <2>3, AnsweredRoutes
  <2>4. CASE D!Review
    BY <1>2, <2>4, ReviewRoutes
  <2>5. CASE D!HourPasses
    BY <1>2, <2>5, HourRoutes
  <2>6. CASE \E fault \in {"limit", "outage", "auth"} : D!Fails(fault)
    BY <1>2, <2>6, FailsRoutes
  <2>7. CASE UNCHANGED D!dvars
    <3>1. /\ used' = used /\ hour' = hour
          /\ UNCHANGED <<board, highest, nextRun, decision, role, chain, pos, coders, work, spent,
                         repaired>>
      BY <2>7 DEF D!dvars
    <3>2. Ledger(used', hour') /\ D!LimitsKept' /\ RoomLeft'
      <4>1. Ledger(used, hour) /\ CallTypes /\ D!LimitsKept /\ RoomLeft
        BY <1>2 DEF RouteInv
      <4>2. /\ Ledger(used', hour')
            /\ \A b \in Backend : \A hours \in Nat : \A what \in What :
                   D!In(b, hours, what)' = D!In(b, hours, what) /\ D!In(b, hours, what) \in Nat
        BY <3>1, <4>1, NothingUsed
      <4>3. \A l \in Limits : l.backend \in Backend /\ l.hours \in Nat /\ l.what \in What
        BY LimitTypes
      <4>4. \A l \in Limits : /\ D!In(l.backend, l.hours, l.what)' \in Nat
                              /\ D!In(l.backend, l.hours, l.what) \in Nat
                              /\ D!In(l.backend, l.hours, l.what)' <=
                                     D!In(l.backend, l.hours, l.what)
        BY <4>2, <4>3
      <4>5. \A l \in Limits : /\ D!In(l.backend, l.hours, "tokens")' \in Nat
                              /\ D!In(l.backend, l.hours, "tokens") \in Nat
                              /\ D!In(l.backend, l.hours, "tokens")' <=
                                     D!In(l.backend, l.hours, "tokens")
        BY <4>2, <4>3 DEF What
      <4>6. D!MostCost \in Nat
        BY CostsBounded
      <4>7. D!LimitsKept'
        BY <4>1, <4>4, <4>6, LimitsStillKept
      <4>8. RoomLeft'
        BY <3>1, <4>1, <4>5, RoomStays
      <4> QED
        BY <4>2, <4>7, <4>8
    <3>3. BoardTypes' /\ CallTypes'
      BY <1>2, <3>1 DEF RouteInv, BoardTypes, CallTypes, D!Hours
    <3> QED
      BY <3>2, <3>3 DEF RouteInv
  <2> QED
    BY <1>2, <2>1, <2>2, <2>3, <2>4, <2>5, <2>6, <2>7 DEF D!Next
<1>3. RouteInv => D!TypeOK /\ D!LimitsKept /\ D!EnvelopeSuffices
  BY RoomSuffices
<1> QED
  BY <1>1, <1>2, <1>3, EachOnItsOwn, PTL DEF D!Spec

-----------------------------------------------------------------------------
\* What a skill or a server may do was vetted, no skill is lost, and a human is asked once for
\* the same thing (skillmarket.py, mcpresolve.py).
THEOREM SourcesAreVetted == Mirrored /\ Suggesting /\ SupplySpec => []SourcesVetted
BY SkillsHold, ServersHold, PTL DEF SourcesVetted

\* A prompt keeps its budget and has what it must have, every item is on record, a category takes
\* no more than its allocation but for one item that was cut, at whatever multiplier, and what is
\* cached of it is current (broker.py, compose.py, cachestore.py).
THEOREM PromptsAreSound == Composed /\ Filing /\ SupplySpec => []PromptsSound
BY PromptHolds, CacheHolds, PTL DEF PromptsSound

\* Where three characters and the note make no more tokens than the one they are for, as at the
\* default multiplier, "bucket caps bound optional content" (broker.py 274).
THEOREM AllocationsAreKept == Composed /\ B!CutsFit /\ SupplySpec => []B!CapsBound
<1> SUFFICES ASSUME Composed, B!CutsFit PROVE SupplySpec => []B!CapsBound
  OBVIOUS
<1>1. PromptInv => B!CapsBound
  BY CutsThatFit
<1>2. SupplySpec => []PromptInv
  BY PromptKept
<1> QED
  BY <1>1, <1>2, PTL

\* No backend is called over its limits or before its wait is over, no cycle starts outside the
\* operating window, and what was stated of a wait holds (capacity.py, routing.py, backends.py,
\* capwait.py).
THEOREM RoutingIsSound == Priced /\ Covered /\ Clocked /\ SupplySpec => []RoutingSound
BY RoutingHolds, CoolingHolds, PTL DEF RoutingSound
=============================================================================
