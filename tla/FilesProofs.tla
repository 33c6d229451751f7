------------------------------ MODULE FilesProofs ------------------------------
(***************************************************************************)
(* Lemmas about sequences, and about the operators of Files, that the      *)
(* proofs about LineEditor and about CommandLine use.                      *)
(***************************************************************************)
EXTENDS Files, NaturalLemmas, SequenceTheorems

-----------------------------------------------------------------------------
(* Sequences.                                                              *)

\* A set of indexes that is not empty has a smallest and a largest member.
LEMMA Indexes ==
  ASSUME NEW n \in Nat, NEW I \in SUBSET (1..n), I # {}
  PROVE  /\ Min(I) \in I /\ \A i \in I : Min(I) <= i
         /\ Max(I) \in I /\ \A i \in I : Max(I) >= i
  <1>1. \E x \in I : \A y \in I : x <= y
    BY Smallest
  <1>2. Min(I) \in I /\ \A i \in I : Min(I) <= i
    BY <1>1 DEF Min
  <1> DEFINE J == {n - i : i \in I}
  <1>3. J \in SUBSET Nat /\ J # {}
    <2>1. \A i \in I : i \in 1..n
      OBVIOUS
    <2>2. \A i \in I : n - i \in Nat
      BY <2>1
    <2>. QED BY <2>2
  <1>4. PICK x \in J : \A y \in J : x <= y
    BY <1>3, Smallest
  <1>5. PICK i \in I : x = n - i
    BY <1>4
  <1>6. \A j \in I : n - j \in J
    OBVIOUS
  <1>7. \A j \in I : i >= j
    BY <1>4, <1>5, <1>6
  <1>8. Max(I) \in I /\ \A j \in I : Max(I) >= j
    BY <1>7 DEF Max
  <1>. QED BY <1>2, <1>8

\* The index a search returns, or 0.
Found(I) == IF I # {} THEN Min(I) ELSE 0

LEMMA FoundIn ==
  ASSUME NEW n \in Nat, NEW I \in SUBSET (1..n)
  PROVE  Found(I) \in 0..n /\ (Found(I) # 0 => Found(I) \in I)
  <1>1. CASE I = {}
    BY <1>1 DEF Found
  <1>2. CASE I # {}
    <2>1. Min(I) \in I
      BY <1>2, Indexes
    <2>2. Min(I) \in 1..n
      BY <2>1
    <2>3. 1..n \subseteq 0..n
      OBVIOUS
    <2>. QED BY <1>2, <2>1, <2>2, <2>3 DEF Found
  <1>. QED BY <1>1, <1>2

\* What a sequence of s's elements is made of by SubSeq.
LEMMA PartOf ==
  ASSUME NEW S, NEW s \in Seq(S), NEW m \in Int, NEW n \in Int, 1 <= m, n <= Len(s)
  PROVE  /\ SubSeq(s, m, n) \in Seq(S)
         /\ Len(SubSeq(s, m, n)) = IF m <= n THEN n - m + 1 ELSE 0
         /\ \A i \in 1..(n - m + 1) : SubSeq(s, m, n)[i] = s[m + i - 1]
  <1>1. Len(s) \in Nat
    BY LenProperties
  <1>2. \A i \in m..n : s[i] \in S
    BY <1>1, ElementOfSeq
  <1>. QED BY <1>2, SubSeqProperties

\* Two sequences that are joined, element by element.
LEMMA Joined ==
  ASSUME NEW S, NEW s \in Seq(S), NEW t \in Seq(S)
  PROVE  /\ s \o t \in Seq(S) /\ Len(s) \in Nat /\ Len(t) \in Nat
         /\ Len(s \o t) = Len(s) + Len(t)
         /\ \A i \in 1..Len(s) : (s \o t)[i] = s[i]
         /\ \A i \in 1..Len(t) : (s \o t)[Len(s) + i] = t[i]
  <1> DEFINE z == s \o t
             a == Len(s)
             b == Len(t)
  <1>1. a \in Nat /\ b \in Nat
    BY LenProperties
  <1>2. z \in Seq(S) /\ Len(z) = a + b
        /\ \A i \in 1..(a + b) : z[i] = IF i <= a THEN s[i] ELSE t[i - a]
    BY ConcatProperties
  <1> HIDE DEF z, a, b
  <1>3. /\ \A i \in 1..a : i \in 1..(a + b) /\ i <= a
        /\ \A i \in 1..b : a + i \in 1..(a + b) /\ ~(a + i <= a) /\ a + i - a = i
    BY <1>1
  <1>4. \A i \in 1..a : z[i] = s[i]
    BY <1>2, <1>3
  <1>5. ASSUME NEW i \in 1..b PROVE z[a + i] = t[i]
    <2> DEFINE j == a + i
    <2>1. j \in 1..(a + b) /\ ~(j <= a) /\ j - a = i
      BY <1>1
    <2> HIDE DEF j
    <2>2. z[j] = t[j - a]
      BY <1>2, <2>1
    <2>. QED BY <2>1, <2>2 DEF j
  <1>. QED BY <1>1, <1>2, <1>4, <1>5 DEF z, a, b

\* A prefix of a sequence, made longer by one.
LEMMA OneMore ==
  ASSUME NEW S, NEW s \in Seq(S), NEW k \in Nat, k + 1 <= Len(s)
  PROVE  /\ SubSeq(s, 1, k) \in Seq(S) /\ SubSeq(s, 1, k + 1) \in Seq(S)
         /\ Len(SubSeq(s, 1, k)) = k /\ Len(SubSeq(s, 1, k + 1)) = k + 1
         /\ Append(SubSeq(s, 1, k), s[k + 1]) = SubSeq(s, 1, k + 1)
         /\ Front(SubSeq(s, 1, k + 1)) = SubSeq(s, 1, k)
  <1> DEFINE l == Len(s)
             j == k + 1
             a == SubSeq(s, 1, k)
             b == SubSeq(s, 1, j)
             c == Append(a, s[j])
             f == SubSeq(b, 1, k)
  <1>1. l \in Nat
    BY LenProperties
  <1>2. /\ k \in Int /\ j \in Int /\ 1 <= 1 /\ k <= Len(s) /\ j <= Len(s) /\ j \in 1..Len(s)
        /\ (IF 1 <= k THEN k - 1 + 1 ELSE 0) = k /\ k - 1 + 1 = k
        /\ (IF 1 <= j THEN j - 1 + 1 ELSE 0) = j /\ j - 1 + 1 = j
    BY <1>1
  <1>3. a \in Seq(S) /\ Len(a) = k /\ \A i \in 1..k : a[i] = s[1 + i - 1]
    <2>1. /\ a \in Seq(S) /\ Len(a) = IF 1 <= k THEN k - 1 + 1 ELSE 0
          /\ \A i \in 1..(k - 1 + 1) : a[i] = s[1 + i - 1]
      BY <1>2, PartOf
    <2> HIDE DEF a
    <2>. QED BY <1>2, <2>1
  <1>4. b \in Seq(S) /\ Len(b) = j /\ \A i \in 1..j : b[i] = s[1 + i - 1]
    <2> HIDE DEF j
    <2>1. /\ b \in Seq(S) /\ Len(b) = IF 1 <= j THEN j - 1 + 1 ELSE 0
          /\ \A i \in 1..(j - 1 + 1) : b[i] = s[1 + i - 1]
      BY <1>2, PartOf
    <2> HIDE DEF b
    <2>. QED BY <1>2, <2>1
  <1>5. s[j] \in S
    BY <1>2, ElementOfSeq
  <1> HIDE DEF a, b
  <1>6. /\ c \in Seq(S) /\ Len(c) = k + 1
        /\ \A i \in 1..k : c[i] = a[i]
        /\ c[k + 1] = s[j]
    <2> DEFINE e == s[j]
    <2> HIDE DEF e, j
    <2>1. /\ Append(a, e) \in Seq(S) /\ Len(Append(a, e)) = Len(a) + 1
          /\ \A i \in 1..Len(a) : Append(a, e)[i] = a[i]
          /\ Append(a, e)[Len(a) + 1] = e
      BY <1>3, <1>5, AppendProperties DEF e
    <2>. QED BY <1>3, <2>1 DEF e
  <1> HIDE DEF c
  <1>7. c = b
    <2>1. \A i \in 1..j : 1 + i - 1 = i /\ (i \in 1..k \/ i = j)
      BY <1>2
    <2>2. \A i \in 1..j : c[i] = b[i]
      BY <1>3, <1>4, <1>6, <2>1
    <2>3. Len(c) = Len(b) /\ \A i \in 1..Len(c) : c[i] = b[i]
      BY <1>4, <1>6, <2>2
    <2>. QED BY <1>4, <1>6, <2>3, SeqEqual
  <1>8. f = a
    <2>1. k <= Len(b)
      BY <1>4
    <2> HIDE DEF j
    <2>2. /\ f \in Seq(S) /\ Len(f) = IF 1 <= k THEN k - 1 + 1 ELSE 0
          /\ \A i \in 1..(k - 1 + 1) : f[i] = b[1 + i - 1]
      BY <1>2, <1>4, <2>1, PartOf
    <2> HIDE DEF f
    <2>3. \A i \in 1..k : 1 + i - 1 = i /\ i \in 1..j
      BY DEF j
    <2>4. Len(f) = k
      BY <1>2, <2>2
    <2>5. Len(f) = Len(a) /\ \A i \in 1..Len(f) : f[i] = a[i]
      <3>1. \A i \in 1..k : f[i] = b[i]
        BY <1>2, <2>2, <2>3
      <3>. QED BY <1>3, <1>4, <2>3, <2>4, <3>1
    <2>. QED BY <1>3, <2>2, <2>5, SeqEqual
  <1>9. Front(b) = f
    <2>1. Len(b) - 1 = k
      BY <1>4
    <2>. QED BY <2>1 DEF Front
  <1>. QED BY <1>3, <1>4, <1>7, <1>8, <1>9 DEF a, b, c, j

\* The first element of a sequence that is c, as SelectInSeq finds it.
First(s, c) == Found({i \in 1..Len(s) : s[i] = c})

LEMMA FirstIs ==
  ASSUME NEW S, NEW s \in Seq(S), NEW c
  PROVE  /\ First(s, c) \in 0..Len(s)
         /\ c \in Range(s) => First(s, c) # 0
         /\ First(s, c) # 0 => s[First(s, c)] = c /\ c \in Range(s)
         /\ First(s, c) # 0 => \A i \in 1..(First(s, c) - 1) : s[i] # c
         /\ First(s, c) = 0 => \A i \in 1..Len(s) : s[i] # c
  <1> DEFINE I == {i \in 1..Len(s) : s[i] = c}
             k == Found(I)
  <1>1. Len(s) \in Nat /\ DOMAIN s = 1..Len(s)
    BY LenProperties
  <1>2. k \in 0..Len(s) /\ (k # 0 => k \in I)
    BY <1>1, FoundIn
  <1>3. c \in Range(s) => I # {}
    BY <1>1 DEF Range
  <1>4. I # {} => k = Min(I) /\ Min(I) \in I /\ \A i \in I : Min(I) <= i
    BY <1>1, Indexes DEF Found
  <1>5. First(s, c) = k
    BY DEF First
  <1>6. \A i \in I : i \in Nat /\ i # 0
    OBVIOUS
  <1>7. ASSUME k # 0, NEW i \in 1..(k - 1) PROVE s[i] # c
    <2>1. i \in 1..Len(s) /\ ~(k <= i)
      BY <1>1, <1>2, <1>7
    <2>2. i \notin I
      BY <1>2, <1>4, <1>7, <2>1
    <2>. QED BY <2>1, <2>2
  <1>8. ASSUME k # 0 PROVE s[k] = c /\ c \in Range(s)
    <2>1. k \in 1..Len(s) /\ s[k] = c
      BY <1>2, <1>8
    <2>. QED BY <1>1, <2>1 DEF Range
  <1>9. ASSUME k = 0 PROVE I = {}
    BY <1>4, <1>6, <1>9
  <1>10. c \in Range(s) => k # 0
    BY <1>3, <1>4, <1>6
  <1>11. k = 0 => \A i \in 1..Len(s) : s[i] # c
    BY <1>9
  <1> HIDE DEF k, I
  <1>. QED BY <1>2, <1>5, <1>7, <1>8, <1>10, <1>11

\* A sequence is one of its own elements, and of any set that holds them.
LEMMA OwnElements ==
  ASSUME NEW S, NEW s \in Seq(S), NEW T, Range(s) \subseteq T
  PROVE  s \in Seq(T)
  <1>1. Len(s) \in Nat /\ DOMAIN s = 1..Len(s) /\ s \in [1..Len(s) -> S]
    BY LenProperties
  <1>2. \A i \in 1..Len(s) : s[i] \in T
    BY <1>1 DEF Range
  <1> DEFINE n == Len(s)
  <1>3. s \in [1..n -> T]
    BY <1>1, <1>2
  <1> HIDE DEF n
  <1>. QED BY <1>1, <1>3, SeqDef DEF n

-----------------------------------------------------------------------------
(* Paths.                                                                  *)

PathChars == NameChars \cup {"/"}

LEMMA PathIs ==
  ASSUME NEW path \in Paths
  PROVE  /\ path \in Seq(Seq(NameChars)) /\ Len(path) \in Nat
         /\ \A k \in 1..Len(path) : /\ path[k] \in Seq(NameChars) /\ path[k] # <<>>
                                    /\ path[k] # <<".">> /\ path[k] # <<".", ".">>
                                    /\ Slash \o path[k] \in Seq(PathChars)
  <1>1. path \in Seq(Seq(NameChars)) /\ Range(path) \cap {<<>>, <<".">>, <<".", ".">>} = {}
    BY FilesAssumption
  <1>2. Len(path) \in Nat /\ \A k \in 1..Len(path) : path[k] \in Seq(NameChars)
    BY <1>1, LenProperties, ElementOfSeq
  <1> DEFINE dots == {<<>>, <<".">>, <<".", ".">>}
  <1>3. \A k \in 1..Len(path) : path[k] \in Range(path)
    BY <1>1, LenProperties DEF Range
  <1>4. \A k \in 1..Len(path) : path[k] \notin dots
    <2> HIDE DEF dots
    <2>1. Range(path) \cap dots = {}
      BY <1>1 DEF dots
    <2>. QED BY <1>3, <2>1
  <1>5. Slash \in Seq(PathChars) /\ NameChars \subseteq PathChars
    BY DEF Slash, PathChars
  <1>6. \A k \in 1..Len(path) : Slash \o path[k] \in Seq(PathChars)
    <2>1. \A k \in 1..Len(path) : path[k] \in Seq(PathChars)
      BY <1>2, <1>5, SeqMonotonic
    <2>. QED BY <1>5, <2>1, ConcatProperties
  <1>. QED BY <1>1, <1>2, <1>4, <1>6

\* The text of a path is made name by name.
Spelled(path, text) ==
  /\ text \in [0..Len(path) -> Seq(PathChars)]
  /\ text[0] = <<>>
  /\ \A k \in 1..Len(path) : text[k] = text[k - 1] \o Slash \o path[k]

LEMMA TextIs ==
  ASSUME NEW path \in Paths
  PROVE  \E text : Spelled(path, text) /\ Text(path) = IF path = <<>> THEN Slash ELSE text[Len(path)]
  <1> DEFINE n       == Len(path)
             T       == Seq(PathChars)
             none    == <<>>
             Body(f) == [k \in 0..n |-> IF k = 0 THEN <<>> ELSE f[k - 1] \o Slash \o path[k]]
             text    == CHOOSE f : f = Body(f)
             step    == [k \in 1..n |-> [s \in T |-> s \o Slash \o path[k]]]
  <1>1. n \in Nat
    BY PathIs
  <1>2. \A k \in 1..n, s \in T : s \o Slash \o path[k] \in T
    <2> SUFFICES ASSUME NEW k \in 1..n, NEW s \in T PROVE s \o Slash \o path[k] \in T
      OBVIOUS
    <2>1. path[k] \in T
      <3>1. path[k] \in Seq(NameChars) /\ NameChars \subseteq PathChars
        BY PathIs DEF PathChars
      <3>. QED BY <3>1, SeqMonotonic
    <2>2. Slash \in T
      BY DEF Slash, PathChars
    <2>3. s \o Slash \in T
      BY <2>2, ConcatProperties
    <2>. QED BY <2>1, <2>3, ConcatProperties
  <1>3. none \in T
    OBVIOUS
  <1>4. Text(path) = IF path = <<>> THEN Slash ELSE text[n]
    BY DEF Text
  <1> HIDE DEF n, T, none
  <1>5. step \in Steps(n, T)
    BY <1>2 DEF Steps
  <1>6. PICK f \in [0..n -> T] : f[0] = none /\ \A k \in 1..n : f[k] = step[k][f[k - 1]]
    <2> HIDE DEF step
    <2>1. \E f : Iterates(f, n, T, none, step)
      BY <1>1, <1>3, <1>5, Iteration
    <2>. QED BY <2>1 DEF Iterates
  <1>7. f = Body(f)
    <2>1. ASSUME NEW k \in 0..n
          PROVE  f[k] = IF k = 0 THEN <<>> ELSE f[k - 1] \o Slash \o path[k]
      <3>1. CASE k = 0
        BY <1>6, <3>1 DEF none
      <3>2. CASE k # 0
        <4>1. k \in 1..n /\ k - 1 \in 0..n
          BY <1>1, <3>2
        <4>2. f[k - 1] \in T
          BY <4>1
        <4>. QED BY <1>6, <3>2, <4>1, <4>2
      <3>. QED BY <3>1, <3>2
    <2>. QED BY <2>1
  <1>8. text = Body(text)
    <2> HIDE DEF Body
    <2>. QED BY <1>7
  <1> HIDE DEF text
  <1>9. \A k \in 0..n : text[k] = IF k = 0 THEN <<>> ELSE text[k - 1] \o Slash \o path[k]
    BY <1>8
  <1> DEFINE K == {k \in Nat : k <= n => text[k] \in T}
  <1>10. 0 \in K
    BY <1>1, <1>3, <1>9 DEF none
  <1>11. ASSUME NEW k \in K PROVE k + 1 \in K
    <2> SUFFICES ASSUME k + 1 <= n PROVE text[k + 1] \in T
      OBVIOUS
    <2> DEFINE m == k + 1
    <2>1. text[k] \in T /\ m \in 1..n /\ m \in 0..n /\ m # 0 /\ m - 1 = k
      BY <1>1
    <2> HIDE DEF m
    <2>2. text[m] = text[k] \o Slash \o path[m]
      BY <1>9, <2>1
    <2>. QED BY <1>2, <2>1, <2>2 DEF m
  <1>12. K = Nat
    <2>1. K \in SUBSET Nat
      OBVIOUS
    <2> HIDE DEF K
    <2>. QED BY <1>10, <1>11, <2>1, SetInduction
  <1>13. \A k \in 0..n : text[k] \in T
    <2> SUFFICES ASSUME NEW k \in 0..n PROVE text[k] \in T
      OBVIOUS
    <2>1. k \in K /\ k <= n
      BY <1>1, <1>12
    <2>. QED BY <2>1
  <1>14. text \in [0..n -> T]
    <2>1. text = [k \in 0..n |-> text[k]]
      BY <1>8
    <2>. QED BY <1>13, <2>1
  <1>15. text[0] = <<>> /\ \A k \in 1..n : text[k] = text[k - 1] \o Slash \o path[k]
    <2>1. 0 \in 0..n /\ \A k \in 1..n : k \in 0..n /\ k # 0
      BY <1>1
    <2>. QED BY <1>9, <2>1
  <1>16. Spelled(path, text)
    BY <1>14, <1>15 DEF Spelled, n, T
  <1>. QED BY <1>4, <1>16 DEF n

LEMMA TextTyped ==
  ASSUME NEW path \in Paths
  PROVE  Text(path) \in Seq(PathChars) /\ Len(Text(path)) \in Nat
  <1>1. PICK text : Spelled(path, text) /\ Text(path) = IF path = <<>> THEN Slash ELSE text[Len(path)]
    BY TextIs
  <1>2. Slash \in Seq(PathChars)
    BY DEF Slash, PathChars
  <1>3. Len(path) \in 0..Len(path)
    BY PathIs
  <1>. QED BY <1>1, <1>2, <1>3, LenProperties DEF Spelled

-----------------------------------------------------------------------------
(* realpath() of an absolute path.                                         *)

Reached == Paths \cup {NoPath}

LEMMA NoPathIs ==
  /\ NoPath \notin Paths /\ <<>> \in Dirs
  <1>1. ASSUME NoPath \in Paths PROVE FALSE
    <2> DEFINE none == <<>>
               path == <<none>>
    <2>1. path = NoPath
      BY DEF NoPath
    <2>2. Len(path) = 1 /\ path[1] = none
      OBVIOUS
    <2> HIDE DEF path, none
    <2>3. 1 \in 1..Len(path)
      BY <2>2
    <2>4. path[1] # <<>>
      BY <1>1, <2>1, <2>3, PathIs
    <2>. QED BY <2>2, <2>4 DEF none
  <1>. QED BY <1>1, FilesAssumption

\* No name is empty or made of dots only.
LEMMA NoDots ==
  ASSUME NEW path \in Dirs, NEW name, name \in {<<>>, <<".">>, <<".", ".">>}
  PROVE  Append(path, name) \notin Paths
  <1> SUFFICES ASSUME Append(path, name) \in Paths PROVE FALSE
    OBVIOUS
  <1> DEFINE more == Append(path, name)
             k    == Len(path) + 1
  <1>1. path \in Seq(Seq(NameChars)) /\ Len(path) \in Nat
    BY PathIs DEF Paths
  <1>2. Len(more) = k /\ more[k] = name
    BY <1>1
  <1>3. k \in 1..k
    BY <1>1
  <1> HIDE DEF more, k
  <1>4. more[k] # <<>> /\ more[k] # <<".">> /\ more[k] # <<".", ".">>
    BY <1>2, <1>3, PathIs DEF more
  <1>. QED BY <1>2, <1>4

LEMMA WalkIn ==
  ASSUME NEW path \in Reached, NEW name
  PROVE  /\ Walk(path, name) \in Reached
         /\ path \in Dirs => Walk(path, <<>>) = path
  <1>1. CASE path \notin Dirs
    BY <1>1 DEF Walk, Reached
  <1>2. CASE path \in Dirs
    <2>1. path # <<>> => Front(path) \in Dirs
      BY <1>2, FilesAssumption DEF Paths
    <2>2. <<>> \in Dirs
      BY FilesAssumption
    <2> DEFINE dots == {<<>>, <<".">>}
               up   == <<".", ".">>
               none == <<>>
    <2>3. none \in dots /\ none # up /\ Append(path, none) \notin Paths
      BY <1>2, NoDots
    <2>4. \A w : Walk(path, w) = CASE path \in Dirs /\ w \in dots -> path
                                   [] path \in Dirs /\ w = up -> IF path = <<>> THEN <<>> ELSE Front(path)
                                   [] path \in Dirs /\ Append(path, w) \in Paths -> Append(path, w)
                                   [] OTHER -> NoPath
      BY DEF Walk
    <2> HIDE DEF dots, up, none
    <2>5. Walk(path, none) = path
      BY <1>2, <2>3, <2>4
    <2>6. Walk(path, name) \in Reached
      BY <1>2, <2>1, <2>2, <2>4 DEF Reached, Paths
    <2>. QED BY <2>5, <2>6 DEF none
  <1>. QED BY <1>1, <1>2

\* A name that is not special and that is there.
LEMMA WalkTo ==
  ASSUME NEW path \in Dirs, NEW name, Append(path, name) \in Paths
  PROVE  Walk(path, name) = Append(path, name)
  <1> DEFINE dots == {<<>>, <<".">>}
             up   == <<".", ".">>
  <1>1. name \notin dots /\ name # up
    BY NoDots
  <1>2. Walk(path, name) = CASE path \in Dirs /\ name \in dots -> path
                             [] path \in Dirs /\ name = up -> IF path = <<>> THEN <<>> ELSE Front(path)
                             [] path \in Dirs /\ Append(path, name) \in Paths -> Append(path, name)
                             [] OTHER -> NoPath
    BY DEF Walk
  <1> HIDE DEF dots, up
  <1>. QED BY <1>1, <1>2

\* What has been resolved after every character of a text that is absolute.
Place(C)    == [dir : Reached, name : Seq(C)]
Go(at, c)   == IF c = "/" THEN [dir |-> Walk(at.dir, at.name), name |-> <<>>]
               ELSE [at EXCEPT !.name = Append(@, c)]
Top         == [dir |-> <<>>, name |-> <<>>]
Resolves(text, at) ==
  /\ DOMAIN at = 0..Len(text)
  /\ at[0] = Top
  /\ \A k \in 1..Len(text) : at[k] = Go(at[k - 1], text[k])

LEMMA GoIn ==
  ASSUME NEW C, NEW at \in Place(C), NEW c \in C
  PROVE  Go(at, c) \in Place(C)
  <1>1. at.dir \in Reached /\ at.name \in Seq(C)
    BY DEF Place
  <1>2. Walk(at.dir, at.name) \in Reached
    BY <1>1, WalkIn
  <1>3. Append(at.name, c) \in Seq(C) /\ <<>> \in Seq(C)
    BY <1>1
  <1> DEFINE none == <<>>
             more == Append(at.name, c)
             dir  == Walk(at.dir, at.name)
  <1>4. Go(at, c) = IF c = "/" THEN [dir |-> dir, name |-> none] ELSE [at EXCEPT !.name = more]
    BY DEF Go
  <1> HIDE DEF none, more, dir
  <1>5. none \in Seq(C) /\ more \in Seq(C) /\ dir \in Reached
    BY <1>2, <1>3 DEF none, more, dir
  <1>6. [dir |-> dir, name |-> none] \in Place(C) /\ [at EXCEPT !.name = more] \in Place(C)
    BY <1>5 DEF Place
  <1>. QED BY <1>4, <1>6

LEMMA TopIn == ASSUME NEW C PROVE Top \in Place(C)
  <1> DEFINE none == <<>>
  <1>1. none \in Reached /\ none \in Seq(C)
    BY NoPathIs DEF Reached, Paths
  <1>2. Top = [dir |-> none, name |-> none]
    BY DEF Top
  <1> HIDE DEF none
  <1>. QED BY <1>1, <1>2 DEF Place

LEMMA ResolvesIs ==
  ASSUME NEW C, NEW text \in Seq(C)
  PROVE  \E at \in [0..Len(text) -> Place(C)] : Resolves(text, at)
  <1> DEFINE n    == Len(text)
             step == [k \in 1..n |-> [p \in Place(C) |-> Go(p, text[k])]]
  <1>1. n \in Nat /\ \A k \in 1..n : text[k] \in C
    BY LenProperties, ElementOfSeq
  <1>2. step \in Steps(n, Place(C))
    BY <1>1, GoIn DEF Steps
  <1> HIDE DEF n
  <1>3. PICK at \in [0..n -> Place(C)] : at[0] = Top /\ \A k \in 1..n : at[k] = step[k][at[k - 1]]
    <2> DEFINE S == Place(C)
    <2>1. Top \in S /\ step \in Steps(n, S)
      BY <1>2, TopIn
    <2> HIDE DEF step, S
    <2>2. \E f : Iterates(f, n, S, Top, step)
      BY <1>1, <2>1, Iteration
    <2>. QED BY <2>2 DEF Iterates, S
  <1>4. ASSUME NEW k \in 1..n PROVE at[k] = Go(at[k - 1], text[k])
    <2>1. k - 1 \in 0..n
      BY <1>1
    <2>2. at[k - 1] \in Place(C)
      BY <2>1
    <2>. QED BY <1>3, <2>2
  <1>5. Resolves(text, at)
    BY <1>3, <1>4 DEF Resolves, n
  <1>. QED BY <1>5 DEF n

LEMMA RealpathIs ==
  ASSUME NEW C, NEW text \in Seq(C), text # <<>>, Head(text) = "/",
         NEW at, Resolves(text, at)
  PROVE  Realpath(text) = Walk(at[Len(text)].dir, at[Len(text)].name)
  <1> DEFINE n       == Len(text)
             Body(f) == [k \in 0..n |->
                          IF k = 0 THEN [dir |-> IF Head(text) = "/" THEN <<>> ELSE Here, name |-> <<>>]
                          ELSE IF text[k] = "/"
                               THEN [dir |-> Walk(f[k - 1].dir, f[k - 1].name), name |-> <<>>]
                          ELSE [f[k - 1] EXCEPT !.name = Append(@, text[k])]]
             f       == CHOOSE g : g = Body(g)
             K       == {k \in Nat : k <= n => f[k] = at[k]}
  <1>1. n \in Nat
    BY LenProperties
  <1>2. Realpath(text) = Walk(f[n].dir, f[n].name)
    BY DEF Realpath
  <1>3. PICK g : Resolves(text, g) /\ DOMAIN g = 0..n /\ g = [k \in 0..n |-> g[k]]
    <2>1. PICK g \in [0..n -> Place(C)] : Resolves(text, g)
      BY ResolvesIs
    <2>. QED BY <2>1
  <1> HIDE DEF n
  <1>4. g = Body(g)
    <2>1. ASSUME NEW k \in 0..n
          PROVE  g[k] = IF k = 0 THEN [dir |-> IF Head(text) = "/" THEN <<>> ELSE Here, name |-> <<>>]
                        ELSE IF text[k] = "/"
                             THEN [dir |-> Walk(g[k - 1].dir, g[k - 1].name), name |-> <<>>]
                        ELSE [g[k - 1] EXCEPT !.name = Append(@, text[k])]
      <3>1. CASE k = 0
        BY <1>3, <3>1 DEF Resolves, Top
      <3>2. CASE k # 0
        <4>1. k \in 1..n
          BY <1>1, <3>2
        <4>2. g[k] = Go(g[k - 1], text[k])
          BY <1>3, <4>1 DEF Resolves, n
        <4>. QED BY <3>2, <4>2 DEF Go
      <3>. QED BY <3>1, <3>2
    <2>. QED BY <1>3, <2>1
  <1>5. f = Body(f)
    <2> HIDE DEF Body
    <2>. QED BY <1>4
  <1> HIDE DEF f
  <1>6. f[0] = Top /\ \A k \in 1..n : f[k] = Go(f[k - 1], text[k])
    <2>1. 0 \in 0..n /\ \A k \in 1..n : k \in 0..n /\ k # 0
      BY <1>1
    <2>2. f[0] = Top
      BY <1>5, <2>1 DEF Top
    <2>3. ASSUME NEW k \in 1..n PROVE f[k] = Go(f[k - 1], text[k])
      BY <1>5, <2>1 DEF Go
    <2>. QED BY <2>2, <2>3
  <1>7. 0 \in K
    BY <1>6 DEF Resolves
  <1>8. ASSUME NEW k \in K PROVE k + 1 \in K
    <2> SUFFICES ASSUME k + 1 <= n PROVE f[k + 1] = at[k + 1]
      OBVIOUS
    <2> DEFINE m == k + 1
    <2>1. f[k] = at[k] /\ m \in 1..n /\ m - 1 = k
      BY <1>1
    <2> HIDE DEF m
    <2>2. f[m] = Go(f[k], text[m]) /\ at[m] = Go(at[k], text[m])
      BY <1>6, <2>1 DEF Resolves, n
    <2>. QED BY <2>1, <2>2 DEF m
  <1>9. K \in SUBSET Nat
    OBVIOUS
  <1> HIDE DEF K
  <1>10. n \in K
    BY <1>1, <1>7, <1>8, <1>9, SetInduction
  <1>11. f[n] = at[n]
    BY <1>1, <1>10 DEF K
  <1>. QED BY <1>2, <1>11 DEF n

\* Two texts that agree for n characters from where the same has been resolved.
Alike(s, i, t, j, n) ==
  /\ i \in Nat /\ j \in Nat /\ n \in Nat /\ Len(s) \in Nat /\ Len(t) \in Nat
  /\ i + n <= Len(s) /\ j + n <= Len(t)
  /\ \A m \in 1..n : s[i + m] = t[j + m]

LEMMA ResolveAlike ==
  ASSUME NEW s, NEW a, NEW t, NEW b, Resolves(s, a), Resolves(t, b),
         NEW i, NEW j, NEW n, Alike(s, i, t, j, n), a[i] = b[j]
  PROVE  a[i + n] = b[j + n]
  <1> USE DEF Alike
  <1> DEFINE K == {m \in Nat : m <= n => a[i + m] = b[j + m]}
  <1>1. 0 \in K
    OBVIOUS
  <1>2. ASSUME NEW m \in K PROVE m + 1 \in K
    <2> SUFFICES ASSUME m + 1 <= n PROVE a[i + (m + 1)] = b[j + (m + 1)]
      OBVIOUS
    <2> DEFINE x == i + (m + 1)
               y == j + (m + 1)
    <2>1. /\ a[i + m] = b[j + m] /\ m + 1 \in 1..n
          /\ x \in 1..Len(s) /\ y \in 1..Len(t) /\ x - 1 = i + m /\ y - 1 = j + m
      OBVIOUS
    <2>2. s[x] = t[y]
      BY <2>1
    <2> HIDE DEF x, y
    <2>3. a[x] = Go(a[x - 1], s[x]) /\ b[y] = Go(b[y - 1], t[y])
      BY <2>1 DEF Resolves
    <2>4. a[x] = b[y]
      BY <2>1, <2>2, <2>3
    <2>. QED BY <2>4 DEF x, y
  <1>3. K \in SUBSET Nat
    OBVIOUS
  <1> HIDE DEF K
  <1>4. n \in K
    BY <1>1, <1>2, <1>3, SetInduction
  <1>. QED BY <1>4 DEF K

-----------------------------------------------------------------------------
(* realpath() of the text of a directory.                                  *)

\* The paths on the way to a path.
LEMMA Ancestors ==
  ASSUME NEW path \in Paths, NEW k \in Nat, k <= Len(path)
  PROVE  SubSeq(path, 1, k) \in Paths /\ (k < Len(path) => SubSeq(path, 1, k) \in Dirs)
  <1> DEFINE n == Len(path)
             K == {j \in Nat : j <= n => /\ SubSeq(path, 1, n - j) \in Paths
                                         /\ j # 0 => SubSeq(path, 1, n - j) \in Dirs}
  <1>1. path \in Seq(Seq(NameChars)) /\ n \in Nat
    BY PathIs
  <1>2. SubSeq(path, 1, n) = path
    BY <1>1, SubSeqFull
  <1> HIDE DEF n
  <1>3. 0 \in K
    <2>1. n - 0 = n
      BY <1>1
    <2>. QED BY <1>2, <2>1
  <1>4. ASSUME NEW j \in K PROVE j + 1 \in K
    <2> SUFFICES ASSUME j + 1 <= n PROVE SubSeq(path, 1, n - (j + 1)) \in Dirs
      BY DEF Paths
    <2> DEFINE i == n - (j + 1)
               p == SubSeq(path, 1, i + 1)
    <2>1. i \in Nat /\ i + 1 = n - j /\ i + 1 <= n
      BY <1>1
    <2>2. p \in Paths
      BY <1>1, <2>1
    <2> HIDE DEF i
    <2>3. Len(p) = i + 1 /\ Front(p) = SubSeq(path, 1, i)
      BY <1>1, <2>1, OneMore DEF n
    <2> HIDE DEF p
    <2>4. p # <<>>
      <3>1. p = <<>> => Len(p) = 0
        BY EmptySeq
      <3>2. i + 1 # 0
        BY <2>1
      <3>. QED BY <2>3, <3>1, <3>2
    <2>5. Front(p) \in Dirs
      BY <2>2, <2>4, FilesAssumption
    <2>. QED BY <2>3, <2>5 DEF i
  <1>5. K \in SUBSET Nat
    OBVIOUS
  <1> DEFINE j == n - k
  <1>6. j \in Nat /\ n - j = k /\ j <= n /\ (k < n => j # 0)
    BY <1>1 DEF n
  <1> HIDE DEF K, j
  <1>7. j \in K
    BY <1>3, <1>4, <1>5, <1>6, SetInduction
  <1>. QED BY <1>6, <1>7 DEF K, n

\* A name is read character by character, until the next "/".
Reading(path, name) == [dir |-> path, name |-> name]
LEMMA NameRead ==
  ASSUME NEW s, NEW at, Resolves(s, at), Len(s) \in Nat, NEW w \in Seq(NameChars), NEW i \in Nat,
         i + Len(w) <= Len(s), \A j \in 1..Len(w) : s[i + j] = w[j],
         NEW q, NEW none, none = <<>>, at[i] = Reading(q, none)
  PROVE  at[i + Len(w)] = Reading(q, w)
  <1> DEFINE n == Len(w)
             R(m) == Reading(q, SubSeq(w, 1, m))
             K == {m \in Nat : m <= n => at[i + m] = R(m)}
  <1>1. n \in Nat
    BY LenProperties
  <1>2. SubSeq(w, 1, 0) = <<>> /\ SubSeq(w, 1, n) = w
    BY <1>1, SubSeqEmpty, SubSeqFull
  <1> HIDE DEF n
  <1>3. 0 \in K
    <2>1. i + 0 = i
      OBVIOUS
    <2>. QED BY <1>2, <2>1
  <1>4. ASSUME NEW m \in K PROVE m + 1 \in K
    <2> SUFFICES ASSUME m + 1 <= n PROVE at[i + (m + 1)] = R(m + 1)
      OBVIOUS
    <2> DEFINE j == m + 1
               k == i + j
    <2>1. at[i + m] = R(m)
      BY <1>1
    <2>2. j \in 1..n /\ k \in 1..Len(s) /\ k - 1 = i + m
      BY <1>1 DEF n
    <2>3. s[k] = w[j] /\ w[j] \in NameChars
      <3>1. j \in 1..Len(w)
        BY <2>2 DEF n
      <3>. QED BY <3>1, ElementOfSeq
    <2>4. s[k] # "/"
      BY <2>3, FilesAssumption, Zenon
    <2>5. Append(SubSeq(w, 1, m), w[j]) = SubSeq(w, 1, j)
      BY <1>1, OneMore DEF n
    <2> HIDE DEF k
    <2>6. at[k] = Go(at[k - 1], s[k])
      BY <2>2 DEF Resolves
    <2>7. Go(at[k - 1], s[k]) = [at[k - 1] EXCEPT !.name = Append(@, s[k])]
      BY <2>4 DEF Go
    <2>8. at[k - 1] = R(m)
      BY <2>1, <2>2
    <2>9. [at[k - 1] EXCEPT !.name = Append(@, s[k])] = [dir |-> q, name |-> Append(SubSeq(w, 1, m), w[j])]
      <3> DEFINE u == SubSeq(w, 1, m)
                 e == w[j]
                 v == at[k - 1]
                 c == s[k]
      <3>1. v = [dir |-> q, name |-> u] /\ c = e
        BY <2>3, <2>8 DEF Reading
      <3> HIDE DEF u, e, v, c
      <3> DEFINE z == Append(u, e)
      <3>2. v.name = u
        BY <3>1
      <3>3. Append(v.name, c) = z
        BY <3>1, <3>2, Zenon
      <3> HIDE DEF z
      <3>4. [v EXCEPT !.name = z] = [dir |-> q, name |-> z]
        BY <3>1
      <3>5. [v EXCEPT !.name = Append(@, c)] = [v EXCEPT !.name = z]
        BY <3>3, Zenon
      <3>. QED BY <3>4, <3>5, Zenon DEF u, e, v, c, z
    <2>. QED BY <2>5, <2>6, <2>7, <2>9 DEF k, Reading
  <1>5. K \in SUBSET Nat
    OBVIOUS
  <1> HIDE DEF K
  <1>6. n \in K
    BY <1>1, <1>3, <1>4, <1>5, SetInduction
  <1>7. at[i + n] = R(n)
    BY <1>1, <1>6 DEF K
  <1>. QED BY <1>2, <1>7 DEF n

\* Where realpath() is after the text of a directory, in any text that begins so.
Begins(s, t)   == Len(t) <= Len(s) /\ \A i \in 1..Len(t) : s[i] = t[i]
Where(at, n)   == Walk(at[n].dir, at[n].name)
Leads(path, t) ==
  \A s, at : Len(s) \in Nat /\ Resolves(s, at) /\ Begins(s, t) => Where(at, Len(t)) = path

\* One name more.
LEMMA LeadsOn ==
  ASSUME NEW q \in Dirs, NEW w \in Seq(NameChars), Append(q, w) \in Paths,
         NEW t \in Seq(PathChars), Leads(q, t)
  PROVE  t \o Slash \o w \in Seq(PathChars) /\ Leads(Append(q, w), t \o Slash \o w)
  <1> DEFINE x == t \o Slash
             y == x \o w
             a == Len(t)
             b == Len(w)
  <1>1. Slash \in Seq(PathChars) /\ Len(Slash) = 1 /\ Slash[1] = "/"
    BY DEF Slash, PathChars
  <1>2. w \in Seq(PathChars)
    <2>1. NameChars \subseteq PathChars
      BY DEF PathChars
    <2>. QED BY <2>1, SeqMonotonic
  <1>3. /\ x \in Seq(PathChars) /\ a \in Nat /\ Len(x) = a + 1
        /\ \A i \in 1..a : x[i] = t[i]
        /\ x[a + 1] = "/"
    <2> DEFINE slash == Slash
    <2> HIDE DEF slash
    <2>0. slash \in Seq(PathChars) /\ Len(slash) = 1 /\ slash[1] = "/"
      BY <1>1 DEF slash
    <2>1. /\ t \o slash \in Seq(PathChars) /\ a \in Nat
          /\ Len(t \o slash) = a + Len(slash)
          /\ \A i \in 1..a : (t \o slash)[i] = t[i]
          /\ \A i \in 1..Len(slash) : (t \o slash)[a + i] = slash[i]
      BY <2>0, Joined
    <2>2. 1 \in 1..Len(slash)
      BY <2>0
    <2>. QED BY <2>0, <2>1, <2>2 DEF slash
  <1> HIDE DEF x
  <1>4. /\ y \in Seq(PathChars) /\ b \in Nat /\ Len(y) = Len(x) + b
        /\ \A i \in 1..Len(x) : y[i] = x[i]
        /\ \A i \in 1..b : y[Len(x) + i] = w[i]
    <2>1. x \in Seq(PathChars) /\ w \in Seq(PathChars)
      BY <1>2, <1>3
    <2>. QED BY <2>1, Joined
  <1> HIDE DEF y, a, b
  <1>5. Len(y) = a + 1 + b
    BY <1>3, <1>4
  <1>6. \A i \in 1..a : y[i] = t[i]
    <2>1. \A i \in 1..a : i \in 1..Len(x)
      BY <1>3
    <2>. QED BY <1>3, <1>4, <2>1
  <1>7. y[a + 1] = "/"
    <2>1. a + 1 \in 1..Len(x)
      BY <1>3
    <2>. QED BY <1>3, <1>4, <2>1
  <1>8. \A i \in 1..b : y[a + 1 + i] = w[i]
    BY <1>3, <1>4
  <1>9. ASSUME NEW s, NEW at, Len(s) \in Nat, Resolves(s, at), Begins(s, y)
        PROVE  Where(at, Len(y)) = Append(q, w)
    <2> DEFINE len == Len(s)
               d   == a + 1
    <2>1. a + 1 + b <= len /\ \A i \in 1..(a + 1 + b) : s[i] = y[i]
      BY <1>5, <1>9 DEF Begins
    <2> HIDE DEF len
    <2>2. /\ len \in Nat /\ d \in Nat /\ d \in 1..len /\ d - 1 = a /\ a <= len
          /\ d + b <= len
          /\ d \in 1..(a + 1 + b) /\ \A i \in 1..a : i \in 1..(a + 1 + b)
          /\ \A i \in 1..b : a + 1 + i \in 1..(a + 1 + b)
      BY <1>3, <1>4, <1>9, <2>1 DEF len
    <2>3. Begins(s, t)
      BY <1>6, <2>1, <2>2 DEF Begins, a, len
    <2>4. Where(at, a) = q
      BY <1>9, <2>3 DEF Leads, a
    <2>5. s[d] = "/"
      BY <1>7, <2>1, <2>2
    <2>6. \A i \in 1..b : s[d + i] = w[i]
      BY <1>8, <2>1, <2>2
    <2> HIDE DEF d
    <2>7. at[d] = Go(at[d - 1], s[d])
      BY <1>9, <2>2 DEF Resolves, len
    <2> DEFINE none == <<>>
    <2>8. at[d] = Reading(q, none)
      BY <2>2, <2>4, <2>5, <2>7 DEF Go, Where, Reading
    <2>9. at[d + b] = Reading(q, w)
      <3>1. none = <<>>
        OBVIOUS
      <3> HIDE DEF none
      <3>2. /\ Resolves(s, at) /\ Len(s) \in Nat /\ d \in Nat
            /\ d + Len(w) <= Len(s) /\ \A j \in 1..Len(w) : s[d + j] = w[j]
        BY <1>9, <2>2, <2>6 DEF b, len
      <3>3. at[d + Len(w)] = Reading(q, w)
        BY <2>8, <3>1, <3>2, NameRead
      <3>. QED BY <3>3 DEF b
    <2>10. Where(at, d + b) = Walk(q, w)
      BY <2>9 DEF Where, Reading
    <2>11. Walk(q, w) = Append(q, w)
      BY WalkTo
    <2>. QED BY <1>5, <2>10, <2>11 DEF d
  <1>10. Leads(Append(q, w), y)
    BY <1>9 DEF Leads
  <1>. QED BY <1>4, <1>10 DEF y, x

\* realpath() of the text of a directory is that directory, and so far it is
\* also that of any text that begins like this.
LEMMA TextLeads ==
  ASSUME NEW path \in Dirs
  PROVE  Leads(path, Text(path))
  <1>0. path \in Paths
    BY DEF Paths
  <1>1. PICK text : Spelled(path, text) /\ Text(path) = IF path = <<>> THEN Slash ELSE text[Len(path)]
    BY <1>0, TextIs
  <1> DEFINE n == Len(path)
             P(k) == SubSeq(path, 1, k)
             K == {k \in Nat : k <= n => Leads(P(k), text[k])}
  <1>2. n \in Nat /\ path \in Seq(Seq(NameChars)) /\ \A k \in 1..n : path[k] \in Seq(NameChars)
    BY <1>0, PathIs
  <1>3. P(0) = <<>> /\ P(n) = path
    BY <1>2, SubSeqEmpty, SubSeqFull
  <1>4. \A s, at : Resolves(s, at) => Where(at, 0) = <<>>
    <2> SUFFICES ASSUME NEW s, NEW at, Resolves(s, at) PROVE Where(at, 0) = <<>>
      OBVIOUS
    <2> DEFINE none == <<>>
    <2>1. at[0] = [dir |-> none, name |-> none]
      BY DEF Resolves, Top
    <2>2. none \in Dirs /\ none \in Reached /\ Walk(none, <<>>) = none
      BY NoPathIs, WalkIn DEF Reached, Paths
    <2>3. Walk(none, none) = none
      BY <2>2
    <2> HIDE DEF none
    <2>4. at[0].dir = none /\ at[0].name = none
      BY <2>1
    <2>. QED BY <2>3, <2>4 DEF Where, none
  <1>5. 0 \in K
    <2>1. text[0] = <<>> /\ Len(text[0]) = 0
      BY <1>1 DEF Spelled
    <2>. QED BY <1>3, <1>4, <2>1 DEF Leads
  <1>6. ASSUME NEW k \in K PROVE k + 1 \in K
    <2> SUFFICES ASSUME k + 1 <= n PROVE Leads(P(k + 1), text[k + 1])
      OBVIOUS
    <2> DEFINE j == k + 1
               q == P(k)
               w == path[j]
    <2>1. j \in 1..n /\ k \in 0..n /\ j - 1 = k /\ k < n /\ k <= n
      BY <1>2
    <2>2. w \in Seq(NameChars) /\ Leads(q, text[k])
      BY <1>2, <2>1
    <2>3. text[j] = text[k] \o Slash \o w /\ text[k] \in Seq(PathChars)
      BY <1>1, <2>1 DEF Spelled
    <2>4. q \in Dirs /\ P(j) \in Paths
      BY <1>0, <2>1, Ancestors
    <2>5. Append(q, w) = P(j)
      BY <1>2, <2>1, OneMore
    <2> HIDE DEF q, w, j, P
    <2>6. Leads(P(j), text[j])
      <3>1. Append(q, w) \in Paths
        BY <2>4, <2>5
      <3>. QED BY <2>2, <2>3, <2>4, <2>5, <3>1, LeadsOn
    <2>. QED BY <2>6 DEF j
  <1>7. K \in SUBSET Nat
    OBVIOUS
  <1> HIDE DEF K
  <1>8. n \in K
    BY <1>2, <1>5, <1>6, <1>7, SetInduction
  <1>9. Leads(path, text[n])
    <2> HIDE DEF P
    <2>1. Leads(P(n), text[n])
      BY <1>2, <1>8 DEF K
    <2>. QED BY <1>3, <2>1
  <1>10. CASE path = <<>>
    <2> SUFFICES ASSUME NEW s, NEW at, Len(s) \in Nat, Resolves(s, at), Begins(s, Slash)
                 PROVE  Where(at, 1) = path
      BY <1>1, <1>10 DEF Leads, Slash
    <2>1. 1 <= Len(s) /\ s[1] = "/"
      BY DEF Begins, Slash
    <2>2. 1 \in 1..Len(s) /\ 1 - 1 = 0
      BY <2>1
    <2>3. at[1] = Go(at[0], s[1])
      BY <2>2 DEF Resolves
    <2>4. at[1].dir = path /\ at[1].name = <<>>
      BY <1>4, <1>10, <2>1, <2>3 DEF Go, Where
    <2>5. Walk(path, <<>>) = path
      BY WalkIn DEF Reached, Paths
    <2>. QED BY <2>4, <2>5 DEF Where
  <1>11. CASE path # <<>>
    BY <1>1, <1>9, <1>11
  <1>. QED BY <1>10, <1>11

\* realpath() resolves the text of a directory to that directory.
LEMMA RealpathOfText ==
  ASSUME NEW d \in Dirs, Text(d) # <<>>, Head(Text(d)) = "/"
  PROVE  Realpath(Text(d)) = d
  <1> DEFINE s == Text(d)
  <1>1. s \in Seq(PathChars) /\ Len(s) \in Nat
    BY TextTyped DEF Paths
  <1>2. PICK at : Resolves(s, at)
    BY <1>1, ResolvesIs
  <1>3. Begins(s, s)
    <2> DEFINE l == Len(s)
    <2>1. l \in Nat
      BY <1>1
    <2> HIDE DEF l
    <2>2. l <= l
      BY <2>1
    <2>. QED BY <2>2 DEF Begins, l
  <1>4. Where(at, Len(s)) = d
    BY <1>1, <1>2, <1>3, TextLeads DEF Leads
  <1>5. Realpath(s) = Walk(at[Len(s)].dir, at[Len(s)].name)
    <2> HIDE DEF s
    <2>1. s # <<>> /\ Head(s) = "/"
      BY DEF s
    <2>. QED BY <1>1, <1>2, <2>1, RealpathIs
  <1>. QED BY <1>4, <1>5 DEF Where

\* config->root is written as realpath writes it, and is the name of a directory.
Rooted == Root \in {Text(d) : d \in Dirs}

\* After the root, a first slash ends its last name, and a second one is idle.
LEMMA AfterRoot ==
  ASSUME NEW e \in Dirs, Root = Text(e), NEW t \in Seq(PathChars), t # <<>>, t[1] = "/"
  PROVE  /\ Realpath(Root \o Slash \o t) = Realpath(Root \o t)
         /\ t = Slash => Realpath(Root \o t) = e
  <1> DEFINE a == Len(Root)
             b == Len(t)
             x == Root \o Slash
             s == x \o t
             u == Root \o t
  <1>1. /\ Root \in Seq(PathChars) /\ a \in Nat /\ Slash \in Seq(PathChars)
        /\ Len(Slash) = 1 /\ Slash[1] = "/" /\ Root # <<>> /\ Head(Root) = "/"
    BY TextTyped, FilesAssumption DEF Paths, Slash, PathChars
  <1>2. /\ x \in Seq(PathChars) /\ Len(x) = a + 1 /\ x[a + 1] = "/"
        /\ \A i \in 1..a : x[i] = Root[i]
    <2> DEFINE slash == Slash
    <2> HIDE DEF slash
    <2>0. Root \in Seq(PathChars) /\ slash \in Seq(PathChars)
      BY <1>1 DEF slash
    <2>1. /\ Root \o slash \in Seq(PathChars) /\ Len(Root \o slash) = a + Len(slash)
          /\ \A i \in 1..a : (Root \o slash)[i] = Root[i]
          /\ \A i \in 1..Len(slash) : (Root \o slash)[a + i] = slash[i]
      BY <2>0, Joined
    <2>2. Len(slash) = 1 /\ slash[1] = "/" /\ 1 \in 1..Len(slash)
      BY <1>1 DEF slash
    <2>. QED BY <2>1, <2>2 DEF slash
  <1> HIDE DEF x
  <1>3. /\ s \in Seq(PathChars) /\ b \in Nat /\ Len(s) = Len(x) + b
        /\ \A i \in 1..Len(x) : s[i] = x[i]
        /\ \A i \in 1..b : s[Len(x) + i] = t[i]
    <2>1. x \in Seq(PathChars) /\ t \in Seq(PathChars)
      BY <1>2
    <2>. QED BY <2>1, Joined
  <1>4. /\ u \in Seq(PathChars) /\ Len(u) = a + b
        /\ \A i \in 1..a : u[i] = Root[i]
        /\ \A i \in 1..b : u[a + i] = t[i]
    <2>1. Root \in Seq(PathChars) /\ t \in Seq(PathChars)
      BY <1>1
    <2>. QED BY <2>1, Joined
  <1>5. a # 0 /\ b # 0
    BY <1>1, EmptySeq
  <1> HIDE DEF s, u, a, b
  <1>6. /\ Len(s) = a + 1 + b /\ s[a + 1] = "/"
        /\ \A i \in 1..a : s[i] = Root[i]
        /\ \A i \in 1..b : s[a + 1 + i] = t[i]
    <2>1. a + 1 \in 1..Len(x) /\ \A i \in 1..a : i \in 1..Len(x)
      BY <1>1, <1>2
    <2>. QED BY <1>1, <1>2, <1>3, <2>1
  <1>7. s # <<>> /\ Head(s) = "/" /\ u # <<>> /\ Head(u) = "/"
    <2>1. 1 \in 1..a
      BY <1>1, <1>5
    <2>2. s[1] = Root[1] /\ u[1] = Root[1]
      BY <1>4, <1>6, <2>1
    <2>3. Head(Root) = Root[1] /\ Head(s) = s[1] /\ Head(u) = u[1]
      BY DEF Head
    <2>4. Len(s) # 0 /\ Len(u) # 0
      BY <1>1, <1>3, <1>4, <1>5, <1>6
    <2>5. (s = <<>> => Len(s) = 0) /\ (u = <<>> => Len(u) = 0)
      BY EmptySeq
    <2>. QED BY <1>1, <2>2, <2>3, <2>4, <2>5
  <1>8. PICK v : Resolves(s, v)
    BY <1>3, ResolvesIs
  <1>9. PICK w : Resolves(u, w)
    BY <1>4, ResolvesIs
  <1>10. Where(v, a) = e /\ Where(w, a) = e
    <2>1. Begins(s, Root) /\ Begins(u, Root)
      <3>1. a <= Len(s) /\ a <= Len(u)
        BY <1>1, <1>3, <1>4, <1>6
      <3>. QED BY <1>4, <1>6, <3>1 DEF Begins, a
    <2>2. Len(s) \in Nat /\ Len(u) \in Nat
      BY <1>3, <1>4, LenProperties
    <2>. QED BY <1>8, <1>9, <2>1, <2>2, TextLeads DEF Leads, a
  <1> DEFINE none == <<>>
             at   == Reading(e, none)
  <1>11. Walk(e, none) = e
    BY WalkIn DEF Reached, Paths
  <1>12. \A p, c : Where(p, a) = e /\ c = "/" => Go(p[a], c) = at
    BY DEF Where, Go, Reading
  <1>13. \A c : c = "/" => Go(at, c) = at
    BY <1>11 DEF Go, Reading
  <1> HIDE DEF at
  <1> DEFINE i == a + 2
             j == a + 1
             n == b - 1
  <1>14. /\ i \in Nat /\ j \in Nat /\ n \in Nat /\ i + n = a + 1 + b /\ j + n = a + b
         /\ j \in 1..Len(s) /\ i \in 1..Len(s) /\ j \in 1..Len(u) /\ j - 1 = a /\ i - 1 = j
         /\ Len(s) \in Nat /\ Len(u) \in Nat
         /\ i + n <= Len(s) /\ j + n <= Len(u)
         /\ i = a + 1 + 1 /\ 1 \in 1..b
         /\ \A m \in 1..n : m + 1 \in 1..b /\ i + m = a + 1 + (m + 1) /\ j + m = a + (m + 1)
    BY <1>1, <1>3, <1>4, <1>5, <1>6
  <1>15. s[j] = "/" /\ s[i] = "/" /\ u[j] = "/"
    BY <1>4, <1>6, <1>14
  <1> HIDE DEF i, j, n
  <1>16. ASSUME NEW m \in 1..n PROVE s[i + m] = u[j + m]
    <2> DEFINE c == m + 1
    <2>1. c \in 1..b /\ i + m = a + 1 + c /\ j + m = a + c
      BY <1>14
    <2> HIDE DEF c
    <2>2. s[a + 1 + c] = t[c] /\ u[a + c] = t[c]
      BY <1>4, <1>6, <2>1
    <2>. QED BY <2>1, <2>2
  <1>17. v[j] = at /\ w[j] = at
    <2>1. v[j] = Go(v[j - 1], s[j]) /\ w[j] = Go(w[j - 1], u[j])
      BY <1>8, <1>9, <1>14 DEF Resolves
    <2>. QED BY <1>10, <1>12, <1>14, <1>15, <2>1
  <1>18. v[i] = at
    <2>1. v[i] = Go(v[i - 1], s[i])
      BY <1>8, <1>14 DEF Resolves
    <2>. QED BY <1>13, <1>14, <1>15, <1>17, <2>1
  <1>19. v[i + n] = w[j + n]
    <2>1. v[i] = w[j]
      BY <1>17, <1>18
    <2>2. /\ i \in Nat /\ j \in Nat /\ n \in Nat /\ Len(s) \in Nat /\ Len(u) \in Nat
          /\ i + n <= Len(s) /\ j + n <= Len(u)
      BY <1>14
    <2>3. \A m \in 1..n : s[i + m] = u[j + m]
      BY <1>16
    <2>4. Alike(s, i, u, j, n)
      BY <2>2, <2>3 DEF Alike
    <2>. QED BY <1>8, <1>9, <2>1, <2>4, ResolveAlike
  <1>20. Realpath(s) = Walk(v[Len(s)].dir, v[Len(s)].name)
    BY <1>3, <1>7, <1>8, RealpathIs
  <1>21. Realpath(u) = Walk(w[Len(u)].dir, w[Len(u)].name)
    BY <1>4, <1>7, <1>9, RealpathIs
  <1>22. Realpath(s) = Realpath(u)
    BY <1>4, <1>6, <1>14, <1>19, <1>20, <1>21
  <1>23. ASSUME t = Slash PROVE Realpath(u) = e
    <2>1. b = 1
      BY <1>1, <1>23 DEF b
    <2>2. Len(u) = j
      BY <1>4, <2>1 DEF j
    <2>3. w[Len(u)].dir = e /\ w[Len(u)].name = none
      BY <1>17, <2>2 DEF at, Reading
    <2>. QED BY <1>11, <1>21, <2>3
  <1>. QED BY <1>22, <1>23 DEF s, u, x

\* What is left of the text of a directory below the root.
Left(d) == SubSeq(Text(d), Len(Root) + 1, Len(Text(d)))

LEMMA LeftIs ==
  ASSUME NEW d \in Dirs, InRoot(d), Rooted
  PROVE  /\ Left(d) \in Seq(PathChars) /\ Root \o Left(d) = Text(d)
         /\ Len(Text(d)) # Len(Root) => Left(d) # <<>>
  <1> DEFINE s == Text(d)
             a == Len(Root)
             n == Len(s)
             t == SubSeq(s, a + 1, n)
  <1>1. s \in Seq(PathChars) /\ n \in Nat /\ Root \in Seq(PathChars) /\ a \in Nat
    BY TextTyped DEF Paths, Rooted
  <1>2. a <= n /\ SubSeq(Root, 1, a) = SubSeq(s, 1, a)
    BY DEF InRoot, IsPrefix
  <1>3. SubSeq(Root, 1, a) = Root /\ SubSeq(s, 1, n) = s
    BY <1>1, SubSeqFull
  <1> HIDE DEF s, a, n
  <1>4. SubSeq(s, 1, a) \o SubSeq(s, a + 1, n) = SubSeq(s, 1, n)
    <2>1. 1 \in 1..(Len(s) + 1) /\ a \in (1 - 1)..Len(s) /\ n \in a..Len(s)
      BY <1>1, <1>2 DEF n
    <2>. QED BY <1>1, <2>1, ConcatAdjacentSubSeq
  <1>5. /\ t \in Seq(PathChars)
        /\ Len(t) = IF a + 1 <= n THEN n - (a + 1) + 1 ELSE 0
    <2> DEFINE k == a + 1
    <2>1. k \in Int /\ n \in Int /\ 1 <= k /\ n <= Len(s)
      BY <1>1 DEF n
    <2> HIDE DEF k
    <2>2. SubSeq(s, k, n) \in Seq(PathChars) /\ Len(SubSeq(s, k, n)) = IF k <= n THEN n - k + 1 ELSE 0
      BY <1>1, <2>1, PartOf
    <2>. QED BY <2>2 DEF k
  <1> HIDE DEF t
  <1>6. n # a => t # <<>>
    <2>1. n # a => Len(t) # 0
      BY <1>1, <1>2, <1>5
    <2>2. t = <<>> => Len(t) = 0
      BY EmptySeq
    <2>. QED BY <2>1, <2>2
  <1>7. Left(d) = t
    BY DEF Left, t, s, a, n
  <1>8. Root \o t = s
    BY <1>2, <1>3, <1>4 DEF t
  <1>. QED BY <1>5, <1>6, <1>7, <1>8 DEF s, n, a

\* The directories a session can be in, as cwd names them.
Places == {Slash} \cup {Left(d) : d \in {b \in Dirs : InRoot(b) /\ Len(Text(b)) # Len(Root)}}

LEMMA CdPlaces ==
  ASSUME NEW from \in Places, NEW dir
  PROVE  Cd(from, dir) \in Places
  <1> DEFINE path == Realpath(Below(from, dir))
  <1>1. Cd(from, dir) = IF path \in Dirs /\ InRoot(path)
                        THEN IF Len(Text(path)) = Len(Root) THEN Slash ELSE Left(path)
                        ELSE from
    BY DEF Cd, Left
  <1> HIDE DEF path
  <1>. QED BY <1>1 DEF Places

\* A session's directory leads to one below the root, and back to itself.
LEMMA PlaceIs ==
  ASSUME Rooted, NEW place \in Places, Head(place) = "/"
  PROVE  /\ CwdPath(place) \in Dirs /\ InRoot(CwdPath(place))
         /\ Cd(Slash, place) = place
  <1>1. PICK e \in Dirs : Root = Text(e)
    BY DEF Rooted
  <1>2. Head(place) = place[1]
    BY DEF Head
  <1>3. Slash \in Seq(PathChars) /\ Slash # <<>>
    BY DEF Slash, PathChars
  <1> DEFINE path == Realpath(Root \o Slash \o place)
  <1> HIDE DEF path
  <1>4. CwdPath(place) = path
    BY DEF CwdPath, path
  <1>5. ASSUME place # <<>>, path \in Dirs, InRoot(path)
        PROVE  Cd(Slash, place) = IF Len(Text(path)) = Len(Root) THEN Slash ELSE Left(path)
    <2>1. Below(Slash, place) = Root \o Slash \o place
      BY <1>5 DEF Below, Absolute
    <2>. QED BY <1>5, <2>1 DEF Cd, Left, path
  <1>6. CASE place = Slash
    <2>1. path = e
      <3> HIDE DEF Slash
      <3>1. Slash[1] = "/"
        BY <1>2, <1>6
      <3>2. /\ Realpath(Root \o Slash \o Slash) = Realpath(Root \o Slash)
            /\ Realpath(Root \o Slash) = e
        BY <1>1, <1>3, <3>1, AfterRoot
      <3>. QED BY <1>6, <3>2 DEF path
    <2>2. InRoot(e)
      <3> DEFINE a == Len(Root)
      <3>1. a \in Nat
        BY <1>1, TextTyped DEF Paths
      <3> HIDE DEF a
      <3>2. a <= a
        BY <3>1
      <3>. QED BY <1>1, <3>2 DEF InRoot, IsPrefix, a
    <2>. QED BY <1>1, <1>3, <1>4, <1>5, <1>6, <2>1, <2>2
  <1>7. CASE place # Slash
    <2>1. PICK d \in Dirs : InRoot(d) /\ Len(Text(d)) # Len(Root) /\ place = Left(d)
      BY <1>7 DEF Places
    <2>2. place \in Seq(PathChars) /\ Root \o place = Text(d) /\ place # <<>>
      BY <2>1, LeftIs
    <2>3. path = Realpath(Root \o place)
      <3>1. place[1] = "/"
        BY <1>2
      <3>. QED BY <1>1, <2>2, <3>1, AfterRoot DEF path
    <2>4. Text(d) # <<>> /\ Head(Text(d)) = "/"
      <3> DEFINE a == Len(Root)
                 s == Text(d)
      <3>1. /\ s \in Seq(PathChars) /\ Len(s) \in Nat /\ a \in Nat
            /\ Root \in Seq(PathChars) /\ Root # <<>> /\ Head(Root) = "/"
        BY <1>1, TextTyped, FilesAssumption DEF Paths
      <3>2. \A i \in 1..a : (Root \o place)[i] = Root[i]
        BY <2>2, <3>1, Joined
      <3>3. a # 0
        BY <3>1, EmptySeq
      <3>4. a <= Len(s)
        BY <2>1 DEF InRoot, IsPrefix
      <3> HIDE DEF a, s
      <3>5. 1 \in 1..a /\ Len(s) # 0
        BY <3>1, <3>3, <3>4
      <3>6. s[1] = Root[1]
        BY <2>2, <3>2, <3>5 DEF s
      <3>7. Head(s) = s[1] /\ Head(Root) = Root[1]
        BY DEF Head
      <3>8. s = <<>> => Len(s) = 0
        BY EmptySeq
      <3>. QED BY <3>1, <3>5, <3>6, <3>7, <3>8 DEF s
    <2>5. path = d
      BY <2>2, <2>3, <2>4, RealpathOfText
    <2>. QED BY <1>4, <1>5, <2>1, <2>2, <2>5
  <1>. QED BY <1>6, <1>7
=============================================================================
