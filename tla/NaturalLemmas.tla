---------------------------- MODULE NaturalLemmas ----------------------------
(***************************************************************************)
(* Facts about sets of natural numbers that the proofs of several modules  *)
(* use.                                                                    *)
(***************************************************************************)
EXTENDS Integers, FiniteSets, FiniteSetTheorems, FunctionTheorems, TLAPS

\* A set of natural numbers with 0 and every successor has them all: the least
\* number missing would make k + 1 an injection of a finite set into a smaller.
LEMMA SetInduction ==
  ASSUME NEW S \in SUBSET Nat, 0 \in S, \A k \in S : k + 1 \in S
  PROVE  S = Nat
  <1>1. SUFFICES ASSUME NEW n \in Nat, n \notin S PROVE FALSE
    OBVIOUS
  <1> DEFINE T == S \cap (0..n)
             f == [k \in T |-> k + 1]
  <1>2. T \in SUBSET (0..n) /\ 0 \in T
    OBVIOUS
  <1>3. \A k \in T : k + 1 \in T \ {0}
    BY <1>1
  <1>4. f \in [T -> T \ {0}]
    BY <1>3
  <1>5. \A a, b \in T : f[a] = f[b] => a = b
    OBVIOUS
  <1> HIDE DEF T, f
  <1>6. IsFiniteSet(T)
    <2>1. IsFiniteSet(0..n)
      BY FS_Interval
    <2>. QED BY <1>2, <2>1, FS_Subset
  <1>7. /\ IsFiniteSet(T \ {0}) /\ Cardinality(T \ {0}) = Cardinality(T) - 1
        /\ Cardinality(T) \in Nat
    BY <1>2, <1>6, FS_RemoveElement, FS_CardinalityType
  <1>8. f \in Injection(T, T \ {0})
    BY <1>4, <1>5, Fun_IsInj
  <1>9. Cardinality(T) <= Cardinality(T \ {0})
    BY <1>7, <1>8, FS_Injection
  <1>. QED BY <1>7, <1>9

\* Every set of natural numbers but the empty one has a smallest element: without
\* one, 0 and every successor would be a lower bound of it.
LEMMA Smallest ==
  ASSUME NEW S \in SUBSET Nat, S # {}
  PROVE  \E x \in S : \A y \in S : x <= y
  <1>1. SUFFICES ASSUME \A x \in S : \E y \in S : ~(x <= y) PROVE FALSE
    OBVIOUS
  <1> DEFINE Low == {k \in Nat : \A y \in S : k <= y}
  <1>2. 0 \in Low
    OBVIOUS
  <1>3. \A k \in Low : k + 1 \in Low
    <2> SUFFICES ASSUME NEW k \in Low, NEW y \in S PROVE k + 1 <= y
      OBVIOUS
    <2>1. k \notin S
      BY <1>1
    <2>2. k <= y /\ k # y /\ y \in Nat /\ k \in Nat
      BY <2>1
    <2>. QED BY <2>2
  <1>4. Low \in SUBSET Nat
    OBVIOUS
  <1> HIDE DEF Low
  <1>5. Low = Nat
    BY <1>2, <1>3, <1>4, SetInduction
  <1>6. PICK y \in S : TRUE
    OBVIOUS
  <1>7. y + 1 \in Low /\ y \in Nat
    BY <1>5
  <1>. QED BY <1>6, <1>7 DEF Low

\* A function on 0..n is defined by its first value and by the step from each
\* value to the next.
Steps(n, S) == [1..n -> [S -> S]]
Iterates(f, n, S, first, step) ==
  /\ f \in [0..n -> S]
  /\ f[0] = first
  /\ \A i \in 1..n : f[i] = step[i][f[i - 1]]

LEMMA Iteration ==
  ASSUME NEW n \in Nat, NEW S, NEW first \in S, NEW step \in Steps(n, S)
  PROVE  \E f : Iterates(f, n, S, first, step)
  <1> USE DEF Steps, Iterates
  <1> DEFINE Up(m) == \E f \in [0..m -> S] : f[0] = first /\ \A i \in 1..m : f[i] = step[i][f[i - 1]]
             T == {m \in Nat : m <= n => Up(m)}
  <1>1. 0 \in T
    <2> DEFINE f == [i \in 0..0 |-> first]
    <2>1. f \in [0..0 -> S] /\ f[0] = first /\ \A i \in 1..0 : f[i] = step[i][f[i - 1]]
      OBVIOUS
    <2>. QED BY <2>1
  <1>2. ASSUME NEW m \in T PROVE m + 1 \in T
    <2> HIDE DEF Up
    <2> SUFFICES ASSUME m + 1 <= n PROVE Up(m + 1)
      OBVIOUS
    <2>1. m \in Nat /\ m + 1 \in 1..n
      OBVIOUS
    <2>2. Up(m)
      BY <2>1
    <2> USE DEF Up
    <2>3. PICK f \in [0..m -> S] : f[0] = first /\ \A i \in 1..m : f[i] = step[i][f[i - 1]]
      BY <2>2
    <2> DEFINE g == [i \in 0..(m + 1) |-> IF i = m + 1 THEN step[m + 1][f[m]] ELSE f[i]]
    <2>4. step[m + 1][f[m]] \in S
      BY <2>1, <2>3
    <2>5. \A i \in 0..(m + 1) : i # m + 1 => i \in 0..m /\ f[i] \in S
      BY <2>1
    <2>6. g \in [0..(m + 1) -> S]
      BY <2>4, <2>5
    <2>7. g[0] = first
      BY <2>1, <2>3
    <2>8. \A i \in 1..(m + 1) : i - 1 \in 0..m /\ i - 1 # m + 1 /\ i - 1 \in 0..(m + 1)
      BY <2>1
    <2>9. \A i \in 1..(m + 1) : g[i - 1] = f[i - 1]
      BY <2>8
    <2>10. ASSUME NEW i \in 1..(m + 1) PROVE g[i] = step[i][g[i - 1]]
      <3>1. CASE i = m + 1
        <4>1. i - 1 = m /\ m + 1 \in 0..(m + 1)
          BY <2>1, <3>1
        <4>. QED BY <2>9, <3>1, <4>1
      <3>2. CASE i # m + 1
        <4>1. i \in 1..m /\ i \in 0..(m + 1)
          BY <2>1, <3>2
        <4>2. g[i] = f[i] /\ f[i] = step[i][f[i - 1]]
          BY <2>3, <3>2, <4>1
        <4>. QED BY <2>9, <4>2
      <3>. QED BY <3>1, <3>2
    <2> HIDE DEF g
    <2>. QED BY <2>6, <2>7, <2>10
  <1>3. T \in SUBSET Nat
    OBVIOUS
  <1> HIDE DEF T
  <1>4. T = Nat
    BY <1>1, <1>2, <1>3, SetInduction
  <1>5. n \in T
    BY <1>4
  <1>. QED BY <1>5 DEF T

\* A function on 0..n is defined by its values where it stops, and elsewhere by
\* the step from the value at a greater number.
Moves(n, S) == [0..n -> [S -> S]]
Descends(f, k, n, S, stops, last, next, step) ==
  /\ f \in [k..n -> S]
  /\ \A p \in k..n : f[p] = IF p \in stops THEN last ELSE step[p][f[next[p]]]

LEMMA Descent ==
  ASSUME NEW n \in Nat, NEW S, NEW stops, NEW last \in S, NEW next, NEW step \in Moves(n, S),
         \A p \in 0..n : p \notin stops => next[p] \in (p + 1)..n
  PROVE  \E f : Descends(f, 0, n, S, stops, last, next, step)
  <1> DEFINE Down(k) == \E f : Descends(f, k, n, S, stops, last, next, step)
             T == {k \in Nat : k <= n => Down(n - k)}
  <1>1. 0 \in T
    <2> DEFINE f == [p \in n..n |-> last]
    <2>1. n \in stops
      <3>1. n \in 0..n /\ (n + 1)..n = {}
        OBVIOUS
      <3>. QED BY <3>1
    <2>2. \A p \in n..n : p = n
      OBVIOUS
    <2>3. Descends(f, n, n, S, stops, last, next, step)
      BY <2>1, <2>2 DEF Descends
    <2>4. Down(n)
      BY <2>3
    <2> HIDE DEF Down
    <2>5. n - 0 = n
      OBVIOUS
    <2>. QED BY <2>4, <2>5
  <1>2. ASSUME NEW m \in T PROVE m + 1 \in T
    <2> HIDE DEF Down
    <2> SUFFICES ASSUME m + 1 <= n PROVE Down(n - (m + 1))
      OBVIOUS
    <2> DEFINE k == n - (m + 1)
    <2>1. m \in Nat /\ k \in 0..n /\ n - m = k + 1 /\ k \notin (k + 1)..n
      OBVIOUS
    <2>2. Down(k + 1)
      BY <2>1
    <2> HIDE DEF k
    <2>3. PICK f : Descends(f, k + 1, n, S, stops, last, next, step)
      BY <2>2 DEF Down
    <2>4. /\ f \in [(k + 1)..n -> S]
          /\ \A p \in (k + 1)..n : f[p] = IF p \in stops THEN last ELSE step[p][f[next[p]]]
      BY <2>3 DEF Descends
    <2> DEFINE value == IF k \in stops THEN last ELSE step[k][f[next[k]]]
               g == [p \in k..n |-> IF p = k THEN value ELSE f[p]]
    <2>5. value \in S
      <3>1. k \notin stops => f[next[k]] \in S
        BY <2>1, <2>4
      <3>2. step[k] \in [S -> S]
        BY <2>1 DEF Moves
      <3>. QED BY <3>1, <3>2
    <2>6. \A p \in (k + 1)..n : p \in k..n /\ p # k /\ p \in 0..n
      BY <2>1
    <2>7. \A p \in k..n : p # k => p \in (k + 1)..n
      BY <2>1
    <2>8. k \in k..n /\ k \in 0..n
      BY <2>1
    <2> HIDE DEF value
    <2>9. g \in [k..n -> S]
      BY <2>4, <2>5, <2>7
    <2>10. g[k] = value /\ \A p \in (k + 1)..n : g[p] = f[p]
      BY <2>6, <2>8
    <2> HIDE DEF g
    <2>11. ASSUME NEW p \in k..n
           PROVE  g[p] = IF p \in stops THEN last ELSE step[p][g[next[p]]]
      <3>1. CASE p = k
        <4>1. p \notin stops => next[p] \in (k + 1)..n
          BY <2>8, <3>1
        <4>2. p \notin stops => g[next[p]] = f[next[p]]
          BY <2>10, <4>1
        <4>. QED BY <2>10, <3>1, <4>2 DEF value
      <3>2. CASE p # k
        <4>1. p \in (k + 1)..n /\ p \in 0..n
          BY <2>6, <2>7, <3>2
        <4>2. p \notin stops => next[p] \in (p + 1)..n /\ next[p] \in (k + 1)..n
          BY <2>1, <4>1
        <4>. QED BY <2>4, <2>10, <4>1, <4>2
      <3>. QED BY <3>1, <3>2
    <2>12. Descends(g, k, n, S, stops, last, next, step)
      BY <2>9, <2>11 DEF Descends
    <2>. QED BY <2>12 DEF Down, k
  <1>3. T \in SUBSET Nat
    OBVIOUS
  <1> HIDE DEF T
  <1>4. n \in T
    BY <1>1, <1>2, <1>3, SetInduction
  <1>5. Down(n - n)
    BY <1>4 DEF T
  <1> HIDE DEF Down
  <1>6. n - n = 0
    OBVIOUS
  <1>7. Down(0)
    BY <1>5, <1>6
  <1>. QED BY <1>7 DEF Down
=============================================================================
