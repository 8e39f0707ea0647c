---------------------------- MODULE SharedProofs ----------------------------
(***************************************************************************)
(* What the proofs about the schedulers share: what get_new_task_id finds, *)
(* for any number of tasks, and sums over the runs of a task.              *)
(***************************************************************************)
EXTENDS TaskScan, FiniteSets, FiniteSetTheorems, WellFoundedInduction, TLAPS

\* A nonempty set of loop counts has a first one.
LEMMA FirstExists ==
  ASSUME NEW S \in SUBSET Nat, S # {}
  PROVE  /\ FirstHit(S) \in S
         /\ \A j \in S : FirstHit(S) <= j
<1>1. PICK x \in S : \A y \in S : ~(<<y, x>> \in OpToRel(<, Nat))
  BY NatLessThanWellFounded, WFMin
<1>2. OpToRel(<, Nat) = {p \in Nat \X Nat : p[1] < p[2]}
  BY Zenon DEF OpToRel
<1>3. \A j \in S : x <= j
  <2>1. SUFFICES ASSUME NEW j \in S, j < x PROVE FALSE
    OBVIOUS
  <2>2. <<j, x>> \in OpToRel(<, Nat)
    BY <1>2, <2>1
  <2> QED
    BY <1>1, <2>2
<1> QED
  BY <1>3 DEF FirstHit

\* Going round n tasks from any start meets every task: task t is met after
\* t - oldId steps, or n more if that is not positive.
LEMMA RoundMeetsAll ==
  ASSUME NEW n \in Nat, NEW oldId \in -1 .. n - 1, NEW t \in 0 .. n - 1
  PROVE  \E i \in 1 .. n : (oldId + i) % n = t
<1>1. CASE t > oldId
  <2>1. t - oldId \in 1 .. n /\ (oldId + (t - oldId)) = t
    BY <1>1
  <2>2. t % n = t
    OBVIOUS
  <2> QED
    BY <2>1, <2>2
<1>2. CASE t <= oldId
  <2>1. t - oldId + n \in 1 .. n /\ oldId + (t - oldId + n) = t + n
    BY <1>2
  <2>2. (t + n) % n = t
    OBVIOUS
  <2> QED
    BY <2>1, <2>2
<1> QED
  BY <1>1, <1>2

LEMMA StepsInRange ==
  ASSUME NEW n \in Nat, NEW oldId \in -1 .. n - 1, NEW i \in 1 .. n
  PROVE  (oldId + i) % n \in 0 .. n - 1
<1>1. oldId + i \in Nat /\ n \in Nat \ {0}
  OBVIOUS
<1> QED
  BY <1>1

\* get_new_task_id returns a task that is not done, and -1 exactly when every
\* task is done: the scan neither hands out finished tasks nor overlooks an
\* unfinished one, wherever it starts.
THEOREM GetNewTaskIdCorrect ==
  ASSUME NEW n \in Nat, NEW oldId \in -1 .. n - 1, NEW done \in SUBSET (0 .. n - 1)
  PROVE  LET t == GetNewTaskId(oldId, n, done)
         IN  /\ t \in 0 .. n - 1 \cup {NoTask}
             /\ t # NoTask => t \notin done
             /\ t = NoTask <=> done = 0 .. n - 1
<1> DEFINE hits == HitSteps(oldId, n, done)
<1>1. hits \in SUBSET Nat /\ hits \subseteq 1 .. n
  BY DEF HitSteps
<1>2. CASE hits = {}
  <2>1. \A i \in 1 .. n : (oldId + i) % n \in done
    BY <1>2 DEF HitSteps
  <2>2. \A t \in 0 .. n - 1 : t \in done
    BY <2>1, RoundMeetsAll
  <2>3. done = 0 .. n - 1
    BY <2>2
  <2> QED
    BY <1>2, <2>3 DEF GetNewTaskId
<1>3. CASE hits # {}
  <2> DEFINE i == FirstHit(hits)
             t == (oldId + i) % n
  <2>1. i \in hits
    BY <1>1, <1>3, FirstExists
  <2>2. t \in 0 .. n - 1 /\ t \notin done
    BY <1>1, <2>1, StepsInRange DEF HitSteps
  <2>3. GetNewTaskId(oldId, n, done) = t
    BY <1>3 DEF GetNewTaskId
  <2>4. t # NoTask
    BY <2>2 DEF NoTask
  <2> QED
    BY <2>2, <2>3, <2>4
<1> QED
  BY <1>2, <1>3

\* When it goes on to a later task, the tasks in between are done.
LEMMA NothingSkipped ==
  ASSUME NEW n \in Nat, NEW oldId \in -1 .. n - 1, NEW done \in SUBSET (0 .. n - 1),
         NEW u \in 0 .. n - 1, oldId < u, u < GetNewTaskId(oldId, n, done)
  PROVE  u \in done
<1> DEFINE hits == HitSteps(oldId, n, done)
           i == FirstHit(hits)
<1>1. hits \in SUBSET Nat /\ hits \subseteq 1 .. n
  BY DEF HitSteps
<1>2. hits # {}
  BY DEF GetNewTaskId, NoTask
<1>3. i \in hits /\ \A j \in hits : i <= j
  BY <1>1, <1>2, FirstExists
<1>4. GetNewTaskId(oldId, n, done) = (oldId + i) % n
  BY <1>2 DEF GetNewTaskId
<1> HIDE DEF i
<1>5. i \in 1 .. n /\ oldId + i \in Nat
  BY <1>1, <1>3
<1>6. (oldId + i) % n <= oldId + i
  BY <1>5
<1>7. u - oldId \in 1 .. n /\ u - oldId < i
  BY <1>4, <1>5, <1>6
<1>8. u - oldId \notin hits
  BY <1>3, <1>5, <1>7
<1>9. (oldId + (u - oldId)) % n \in done
  BY <1>7, <1>8 DEF HitSteps
<1> QED
  BY <1>9

-----------------------------------------------------------------------------
(* Sums over finite sets.  The library proves nothing about its folds, and  *)
(* its induction theorems take operators; a set of counterexamples that has *)
(* a least element does instead.                                            *)

\* Induction over the natural numbers, for a set of them.
LEMMA NatSetInduction ==
  ASSUME NEW T \in SUBSET Nat, 0 \in T, \A n \in T : n + 1 \in T
  PROVE  T = Nat
<1> SUFFICES ASSUME Nat \ T # {} PROVE FALSE
  OBVIOUS
<1>1. PICK n \in Nat \ T : \A m \in Nat \ T : n <= m
  BY FirstExists
<1>2. n # 0 /\ n - 1 \in Nat
  BY <1>1
<1>3. n - 1 \in T
  BY <1>1, <1>2
<1>4. (n - 1) + 1 \in T
  BY <1>3
<1> QED
  BY <1>1, <1>4

\* Induction over the subsets of a finite set, for a set of them.
LEMMA SubsetInduction ==
  ASSUME NEW S, IsFiniteSet(S), NEW T \in SUBSET SUBSET S,
         \A U \in SUBSET S : (\A V \in SUBSET U : V # U => V \in T) => U \in T
  PROVE  T = SUBSET S
<1> SUFFICES ASSUME NEW U0 \in (SUBSET S) \ T PROVE FALSE
  OBVIOUS
<1> DEFINE sizes == {Cardinality(U) : U \in (SUBSET S) \ T}
<1>1. \A U \in SUBSET S : Cardinality(U) \in Nat /\ IsFiniteSet(U)
  BY FS_Subset, FS_CardinalityType
<1>2. sizes \in SUBSET Nat /\ sizes # {}
  BY <1>1
<1>3. PICK n \in sizes : \A m \in sizes : n <= m
  <2> HIDE DEF sizes
  <2> QED
    BY <1>2, FirstExists
<1>4. PICK U \in (SUBSET S) \ T : n = Cardinality(U)
  BY <1>3
<1>5. ASSUME NEW V \in SUBSET U, V # U, V \notin T
      PROVE  FALSE
  <2>1. V \in (SUBSET S) \ T
    BY <1>5
  <2>2. Cardinality(U) <= Cardinality(V)
    BY <1>3, <1>4, <2>1
  <2>3. Cardinality(V) <= Cardinality(U) /\ Cardinality(V) # Cardinality(U)
    BY <1>1, <1>5, FS_Subset
  <2> QED
    BY <1>1, <1>5, <2>1, <2>2, <2>3
<1> QED
  BY <1>4, <1>5

\* The element that the folds of the library take from a set next.
Choice(s) == CHOOSE x \in s : TRUE

\* sum[s] is the sum of the values that f has on s, for every subset s of S, as
\* the folds of the library define it.
SumsOf(sum, f, S) ==
  sum = [s \in SUBSET S |->
           IF s = {} THEN 0 ELSE f[Choice(s)] + sum[s \ {Choice(s)}]]

LEMMA ChoiceIn == \A s : s # {} => Choice(s) \in s
BY DEF Choice

\* Such a function exists: it is built up by the size of the sets.
LEMMA SumsExist ==
  ASSUME NEW S, IsFiniteSet(S), NEW f
  PROVE  \E sum : SumsOf(sum, f, S)
<1> DEFINE next(h, s) == IF s = {} THEN 0 ELSE f[Choice(s)] + h[s \ {Choice(s)}]
           upTo(h, n) == \A s \in SUBSET S : Cardinality(s) <= n => h[s] = next(h, s)
           T == {n \in Nat : \E h : upTo(h, n)}
<1>1. \A s \in SUBSET S : /\ Cardinality(s) \in Nat
                          /\ s = {} <=> Cardinality(s) = 0
  BY FS_Subset, FS_CardinalityType, FS_EmptySet
<1>2. ASSUME NEW s \in SUBSET S, s # {}
      PROVE  /\ s \ {Choice(s)} \in SUBSET S
             /\ Cardinality(s \ {Choice(s)}) = Cardinality(s) - 1
  BY <1>2, ChoiceIn, FS_Subset, FS_RemoveElement
<1>3. 0 \in T
  <2>1. upTo([s \in SUBSET S |-> 0], 0)
    BY <1>1
  <2> QED
    BY <2>1
<1>4. ASSUME NEW n \in T
      PROVE  n + 1 \in T
  <2>1. n \in Nat
    OBVIOUS
  <2>2. PICK h : upTo(h, n)
    OBVIOUS
  <2> DEFINE g == [s \in SUBSET S |-> IF Cardinality(s) <= n THEN h[s] ELSE next(h, s)]
  <2>3. ASSUME NEW s \in SUBSET S, Cardinality(s) <= n + 1
        PROVE  g[s] = next(g, s)
    <3>1. g[s] = next(h, s)
      BY <2>2
    <3>2. CASE s = {}
      BY <3>1, <3>2
    <3>3. CASE s # {}
      <4>1. g[s \ {Choice(s)}] = h[s \ {Choice(s)}]
        BY <1>1, <1>2, <2>1, <2>3, <3>3
      <4> QED
        BY <3>1, <3>3, <4>1
    <3> QED
      BY <3>2, <3>3
  <2>4. upTo(g, n + 1)
    BY <2>3
  <2> HIDE DEF upTo, g
  <2> QED
    BY <2>1, <2>4
<1> HIDE DEF upTo
<1>5. T = Nat
  <2>1. T \in SUBSET Nat
    OBVIOUS
  <2> HIDE DEF T
  <2> QED
    BY <1>3, <1>4, <2>1, NatSetInduction
<1>6. Cardinality(S) \in T
  BY <1>1, <1>5
<1>7. PICK h : upTo(h, Cardinality(S))
  BY <1>6
<1>8. \A s \in SUBSET S : h[s] = next(h, s)
  <2>1. \A s \in SUBSET S : Cardinality(s) <= Cardinality(S)
    BY FS_Subset
  <2> QED
    BY <1>7, <2>1 DEF upTo
<1> DEFINE sum == [s \in SUBSET S |-> h[s]]
<1>9. \A s \in SUBSET S : next(sum, s) = next(h, s)
  <2>1. \A s \in SUBSET S : s # {} => sum[s \ {Choice(s)}] = h[s \ {Choice(s)}]
    BY <1>2
  <2> QED
    BY <2>1
<1>10. sum = [s \in SUBSET S |-> next(sum, s)]
  <2> HIDE DEF next
  <2> QED
    BY <1>8, <1>9
<1> QED
  BY <1>10 DEF SumsOf

LEMMA SumStep ==
  ASSUME NEW S, NEW f, NEW sum, SumsOf(sum, f, S)
  PROVE  /\ sum[{}] = 0
         /\ \A s \in SUBSET S : s # {} =>
              sum[s] = f[Choice(s)] + sum[s \ {Choice(s)}]
<1> DEFINE next(s) == IF s = {} THEN 0 ELSE f[Choice(s)] + sum[s \ {Choice(s)}]
<1>1. sum = [s \in SUBSET S |-> next(s)]
  BY DEF SumsOf
<1>2. \A s \in SUBSET S : sum[s] = next(s)
  <2> HIDE DEF next
  <2> QED
    BY <1>1
<1> QED
  BY <1>2

\* The equation of SumStep, as a predicate.
SumAt(sum, f, s) == sum[s] = f[Choice(s)] + sum[s \ {Choice(s)}]

LEMMA SumNext ==
  \A S, f, sum : SumsOf(sum, f, S) =>
    \A s \in SUBSET S : s # {} => SumAt(sum, f, s)
BY SumStep DEF SumAt

\* A sum of natural numbers is one.
LEMMA SumIsNat ==
  ASSUME NEW S, IsFiniteSet(S), NEW f, NEW sum, SumsOf(sum, f, S),
         \A x \in S : f[x] \in Nat
  PROVE  \A s \in SUBSET S : sum[s] \in Nat
<1> DEFINE T == {s \in SUBSET S : sum[s] \in Nat}
<1>1. ASSUME NEW U \in SUBSET S, \A V \in SUBSET U : V # U => V \in T
      PROVE  U \in T
  <2>1. CASE U = {}
    BY <2>1, SumStep
  <2>2. CASE U # {}
    <3>1. Choice(U) \in U /\ sum[U] = f[Choice(U)] + sum[U \ {Choice(U)}]
      BY <2>2, SumStep, ChoiceIn
    <3>2. U \ {Choice(U)} \in T
      BY <1>1, <3>1
    <3> QED
      BY <3>1, <3>2
  <2> QED
    BY <2>1, <2>2
<1>2. T \in SUBSET SUBSET S
  OBVIOUS
<1>3. T = SUBSET S
  <2> HIDE DEF T
  <2> QED
    BY <1>1, <1>2, SubsetInduction
<1> QED
  BY <1>3

\* Any element may be taken first.
LEMMA SumTake ==
  ASSUME NEW S, IsFiniteSet(S), NEW f, NEW sum, SumsOf(sum, f, S),
         \A x \in S : f[x] \in Nat
  PROVE  \A s \in SUBSET S : \A x \in s : sum[s] = f[x] + sum[s \ {x}]
<1> DEFINE T == {s \in SUBSET S : \A x \in s : sum[s] = f[x] + sum[s \ {x}]}
<1>1. ASSUME NEW U \in SUBSET S, \A V \in SUBSET U : V # U => V \in T
      PROVE  U \in T
  <2> SUFFICES ASSUME NEW x \in U PROVE sum[U] = f[x] + sum[U \ {x}]
    OBVIOUS
  <2> DEFINE y == Choice(U)
  <2>1. y \in U /\ sum[U] = f[y] + sum[U \ {y}]
    BY SumStep, ChoiceIn
  <2> HIDE DEF y
  <2>2. CASE x = y
    BY <2>1, <2>2
  <2>3. CASE x # y
    <3>1. U \ {y} \in T /\ x \in U \ {y}
      BY <1>1, <2>1, <2>3
    <3>2. sum[U \ {y}] = f[x] + sum[(U \ {y}) \ {x}]
      BY <3>1
    <3>3. U \ {x} \in T /\ y \in U \ {x}
      BY <1>1, <2>1, <2>3
    <3>4. sum[U \ {x}] = f[y] + sum[(U \ {x}) \ {y}]
      BY <3>3
    <3>5. (U \ {x}) \ {y} = (U \ {y}) \ {x} /\ (U \ {y}) \ {x} \in SUBSET S
      OBVIOUS
    <3> DEFINE rest == sum[(U \ {y}) \ {x}]
    <3>6. f[x] \in Nat /\ f[y] \in Nat /\ rest \in Nat
      BY <2>1, <3>5, SumIsNat
    <3>7. sum[(U \ {x}) \ {y}] = rest
      BY <3>5
    <3> HIDE DEF rest
    <3> QED
      BY <2>1, <3>2, <3>4, <3>6, <3>7 DEF rest
  <2> QED
    BY <2>2, <2>3
<1>2. T \in SUBSET SUBSET S
  OBVIOUS
<1>3. T = SUBSET S
  <2> HIDE DEF T
  <2> QED
    BY <1>1, <1>2, SubsetInduction
<1> QED
  BY <1>3

\* Sums of the same values are the same.
LEMMA SumSame ==
  ASSUME NEW S, IsFiniteSet(S), NEW f, NEW sum, SumsOf(sum, f, S),
         NEW R, NEW g, NEW other, SumsOf(other, g, R),
         NEW U, U \subseteq S, U \subseteq R, \A x \in U : f[x] = g[x]
  PROVE  sum[U] = other[U]
<1> DEFINE T == {s \in SUBSET U : sum[s] = other[s]}
<1>1. ASSUME NEW V \in SUBSET U, \A W \in SUBSET V : W # V => W \in T
      PROVE  V \in T
  <2>1. CASE V = {}
    BY <2>1, SumStep
  <2>2. CASE V # {}
    <3> DEFINE y == Choice(V)
    <3>1. y \in V /\ sum[V] = f[y] + sum[V \ {y}]
      BY <2>2, SumStep, ChoiceIn
    <3>2. other[V] = g[y] + other[V \ {y}]
      BY <2>2, SumStep
    <3> HIDE DEF y
    <3>3. V \ {y} \in T
      BY <1>1, <3>1
    <3> QED
      BY <3>1, <3>2, <3>3
  <2> QED
    BY <2>1, <2>2
<1>2. T \in SUBSET SUBSET U
  OBVIOUS
<1>3. T = SUBSET U
  <2>1. IsFiniteSet(U)
    BY FS_Subset
  <2> HIDE DEF T
  <2> QED
    BY <1>1, <1>2, <2>1, SubsetInduction
<1> QED
  BY <1>3

\* One value of the sum is written, or a new one added.
LEMMA SumWritten ==
  ASSUME NEW S, IsFiniteSet(S), NEW f, NEW sum, SumsOf(sum, f, S),
         \A y \in S : f[y] \in Nat,
         NEW x, NEW g, NEW other, SumsOf(other, g, S \cup {x}),
         \A y \in S \cup {x} : g[y] \in Nat,
         \A y \in S \ {x} : g[y] = f[y]
  PROVE  other[S \cup {x}] + (IF x \in S THEN f[x] ELSE 0) = sum[S] + g[x]
<1>1. IsFiniteSet(S \cup {x})
  BY FS_AddElement
<1>2. other[S \cup {x}] = g[x] + other[(S \cup {x}) \ {x}]
  BY <1>1, SumTake
<1>3. (S \cup {x}) \ {x} = S \ {x}
  OBVIOUS
<1>4. sum[S \ {x}] = other[S \ {x}]
  <2>1. S \ {x} \subseteq S /\ S \ {x} \subseteq S \cup {x}
    OBVIOUS
  <2> QED
    BY <2>1, SumSame
<1>5. sum[S \ {x}] \in Nat /\ g[x] \in Nat
  BY SumIsNat
<1>6. CASE x \in S
  <2>1. sum[S] = f[x] + sum[S \ {x}] /\ f[x] \in Nat
    BY <1>6, SumTake
  <2>2. other[S \cup {x}] = g[x] + sum[S \ {x}]
    BY <1>2, <1>3, <1>4
  <2> QED
    BY <1>5, <1>6, <2>1, <2>2
<1>7. CASE x \notin S
  <2>1. S \ {x} = S
    BY <1>7
  <2> QED
    BY <1>2, <1>3, <1>4, <1>5, <1>7, <2>1
<1> QED
  BY <1>6, <1>7

\* Larger values have a larger sum.
Below(f, g, S) == \A x \in S : f[x] \in Nat /\ g[x] \in Nat /\ f[x] <= g[x]

LEMMA SumMonotone ==
  ASSUME NEW S, IsFiniteSet(S), NEW f, NEW sum, SumsOf(sum, f, S),
         NEW g, NEW other, SumsOf(other, g, S),
         Below(f, g, S)
  PROVE  sum[S] <= other[S]
<1> DEFINE T == {s \in SUBSET S : sum[s] <= other[s]}
<1>1. ASSUME NEW V \in SUBSET S, \A W \in SUBSET V : W # V => W \in T
      PROVE  V \in T
  <2>1. CASE V = {}
    BY <2>1, SumStep
  <2>2. CASE V # {}
    <3> DEFINE y == Choice(V)
    <3>0. SumAt(sum, f, V) /\ SumAt(other, g, V)
      BY <2>2, SumNext
    <3>1. y \in V /\ sum[V] = f[y] + sum[V \ {y}]
      BY <2>2, <3>0, ChoiceIn DEF SumAt
    <3>2. other[V] = g[y] + other[V \ {y}]
      BY <3>0 DEF SumAt
    <3> HIDE DEF y
    <3>3. sum[V \ {y}] <= other[V \ {y}]
      BY <1>1, <3>1
    <3>4. sum[V \ {y}] \in Nat /\ other[V \ {y}] \in Nat
      BY SumIsNat DEF Below
    <3>5. f[y] \in Nat /\ g[y] \in Nat /\ f[y] <= g[y]
      BY <3>1 DEF Below
    <3> QED
      BY <3>1, <3>2, <3>3, <3>4, <3>5
  <2> QED
    BY <2>1, <2>2
<1>2. T \in SUBSET SUBSET S
  OBVIOUS
<1>3. T = SUBSET S
  <2> HIDE DEF T
  <2> QED
    BY <1>1, <1>2, SubsetInduction
<1> QED
  BY <1>3

\* A sum of zeros.
LEMMA SumOfZeros ==
  ASSUME NEW S, IsFiniteSet(S), NEW f, NEW sum, SumsOf(sum, f, S),
         \A x \in S : f[x] = 0
  PROVE  sum[S] = 0
<1> DEFINE T == {s \in SUBSET S : sum[s] = 0}
<1>1. ASSUME NEW V \in SUBSET S, \A W \in SUBSET V : W # V => W \in T
      PROVE  V \in T
  <2>1. CASE V = {}
    BY <2>1, SumStep
  <2>2. CASE V # {}
    <3> DEFINE y == Choice(V)
    <3>0. SumAt(sum, f, V)
      BY <2>2, SumNext
    <3>1. y \in V /\ sum[V] = f[y] + sum[V \ {y}]
      BY <2>2, <3>0, ChoiceIn DEF SumAt
    <3> HIDE DEF y
    <3> QED
      BY <1>1, <3>1
  <2> QED
    BY <2>1, <2>2
<1>2. T \in SUBSET SUBSET S
  OBVIOUS
<1>3. T = SUBSET S
  <2> HIDE DEF T
  <2> QED
    BY <1>1, <1>2, SubsetInduction
<1> QED
  BY <1>3

\* The sum of all values of f on the finite set S.
Total(f, S) == (CHOOSE sum : SumsOf(sum, f, S))[S]

LEMMA TotalIs ==
  ASSUME NEW S, IsFiniteSet(S), NEW f
  PROVE  \E sum : SumsOf(sum, f, S) /\ Total(f, S) = sum[S]
<1>1. SumsOf(CHOOSE sum : SumsOf(sum, f, S), f, S)
  <2>1. \E sum : SumsOf(sum, f, S)
    BY SumsExist
  <2> QED
    BY <2>1, Zenon
<1> QED
  BY <1>1, Zenon DEF Total

LEMMA TotalIsNat ==
  ASSUME NEW S, IsFiniteSet(S), NEW f, \A x \in S : f[x] \in Nat
  PROVE  Total(f, S) \in Nat
<1>1. PICK sum : SumsOf(sum, f, S) /\ Total(f, S) = sum[S]
  BY TotalIs
<1> QED
  BY <1>1, SumIsNat

LEMMA TotalWritten ==
  ASSUME NEW S, IsFiniteSet(S), NEW f, \A y \in S : f[y] \in Nat,
         NEW x, NEW g, \A y \in S \cup {x} : g[y] \in Nat,
         \A y \in S \ {x} : g[y] = f[y]
  PROVE  Total(g, S \cup {x}) + (IF x \in S THEN f[x] ELSE 0) = Total(f, S) + g[x]
<1>1. PICK sum : SumsOf(sum, f, S) /\ Total(f, S) = sum[S]
  BY TotalIs
<1>2. IsFiniteSet(S \cup {x})
  BY FS_AddElement
<1>3. PICK other : SumsOf(other, g, S \cup {x}) /\ Total(g, S \cup {x}) = other[S \cup {x}]
  BY <1>2, TotalIs
<1>4. other[S \cup {x}] + (IF x \in S THEN f[x] ELSE 0) = sum[S] + g[x]
  BY <1>1, <1>3, SumWritten
<1> QED
  BY <1>1, <1>3, <1>4

LEMMA TotalMonotone ==
  ASSUME NEW S, IsFiniteSet(S), NEW f, NEW g, Below(f, g, S)
  PROVE  Total(f, S) <= Total(g, S)
<1>1. PICK sum : SumsOf(sum, f, S) /\ Total(f, S) = sum[S]
  BY TotalIs
<1>2. PICK other : SumsOf(other, g, S) /\ Total(g, S) = other[S]
  BY TotalIs
<1>3. sum[S] <= other[S]
  BY <1>1, <1>2, SumMonotone
<1> QED
  BY <1>1, <1>2, <1>3

LEMMA TotalOfZeros ==
  ASSUME NEW S, IsFiniteSet(S), NEW f, \A x \in S : f[x] = 0
  PROVE  Total(f, S) = 0
<1>1. PICK sum : SumsOf(sum, f, S) /\ Total(f, S) = sum[S]
  BY TotalIs
<1> QED
  BY <1>1, SumOfZeros

\* How a sum computed by a fold of the library is recognised: it is taken of a
\* function that is built up as in SumsOf.
LEMMA TotalUnique ==
  ASSUME NEW S, IsFiniteSet(S), NEW f, NEW sum, SumsOf(sum, f, S)
  PROVE  sum[S] = Total(f, S)
<1>1. PICK other : SumsOf(other, f, S) /\ Total(f, S) = other[S]
  BY TotalIs
<1>2. sum[S] = other[S]
  BY <1>1, SumSame
<1> QED
  BY <1>1, <1>2
=============================================================================
