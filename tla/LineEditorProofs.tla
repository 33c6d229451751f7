-------------------------- MODULE LineEditorProofs --------------------------
(***************************************************************************)
(* Proofs about LineEditor for every table of commands, every file system, *)
(* every history and every packet: types, that the arrow keys stay inside  *)
(* the history, that TAB completes for the command that was typed, and     *)
(* that the terminal shows the line.                                       *)
(***************************************************************************)
EXTENDS LineEditor, FilesProofs

-----------------------------------------------------------------------------
(* Sequences.                                                              *)

Line == Seq(Chars)
USE DEF Line

\* s is a suffix of t when the two agree from the end on.
LEMMA SuffixIs ==
  ASSUME NEW S, NEW s \in Seq(S), NEW t \in Seq(S)
  PROVE  IsSuffix(s, t) <=> /\ Len(s) <= Len(t)
                            /\ \A i \in 1..Len(s) : s[Len(s) - i + 1] = t[Len(t) - i + 1]
  <1> DEFINE a == [i \in 1..Len(s) |-> s[(Len(s) - i) + 1]]
             b == [i \in 1..Len(t) |-> t[(Len(t) - i) + 1]]
  <1>1. Len(s) \in Nat /\ Len(t) \in Nat
    BY LenProperties
  <1>2. a \in Seq(S) /\ Len(a) = Len(s) /\ b \in Seq(S) /\ Len(b) = Len(t)
    <2>1. a \in [1..Len(s) -> S] /\ b \in [1..Len(t) -> S]
      BY <1>1, ElementOfSeq
    <2>2. a \in Seq(S) /\ b \in Seq(S)
      BY <1>1, <2>1, SeqDef
    <2>. QED BY <1>1, <2>1, <2>2, LenProperties
  <1>3. IsSuffix(s, t) <=> Len(a) <= Len(b) /\ SubSeq(a, 1, Len(a)) = SubSeq(b, 1, Len(a))
    BY DEF IsSuffix, IsPrefix, Reverse
  <1>4. ASSUME Len(s) <= Len(t), NEW i \in 1..Len(s)
        PROVE  a[i] = s[Len(s) - i + 1] /\ b[i] = t[Len(t) - i + 1]
    BY <1>1, <1>4
  <1> HIDE DEF a, b
  <1>5. ASSUME Len(s) <= Len(t)
        PROVE  SubSeq(a, 1, Len(a)) = SubSeq(b, 1, Len(a)) <=> \A i \in 1..Len(s) : a[i] = b[i]
    <2>1. /\ SubSeq(a, 1, Len(s)) \in Seq(S) /\ Len(SubSeq(a, 1, Len(s))) = Len(s)
          /\ \A i \in 1..Len(s) : SubSeq(a, 1, Len(s))[i] = a[i]
      BY <1>1, <1>2, PartOf
    <2>2. /\ SubSeq(b, 1, Len(s)) \in Seq(S) /\ Len(SubSeq(b, 1, Len(s))) = Len(s)
          /\ \A i \in 1..Len(s) : SubSeq(b, 1, Len(s))[i] = b[i]
      BY <1>1, <1>2, <1>5, PartOf
    <2>3. ASSUME \A i \in 1..Len(s) : a[i] = b[i]
          PROVE  SubSeq(a, 1, Len(s)) = SubSeq(b, 1, Len(s))
      BY <2>1, <2>2, <2>3, SeqEqual
    <2>. QED BY <1>2, <2>1, <2>2, <2>3
  <1>. QED BY <1>2, <1>3, <1>4, <1>5

\* Three texts joined.
Regroups(s, t, u) == (s \o t) \o u = s \o (t \o u)

LEMMA Regrouped ==
  ASSUME NEW S, NEW s \in Seq(S), NEW t \in Seq(S), NEW u \in Seq(S)
  PROVE  Regroups(s, t, u)
  BY ConcatAssociative DEF Regroups

\* s is a prefix of t when the two agree as far as s goes.
LEMMA PrefixIs ==
  ASSUME NEW S, NEW s \in Seq(S), NEW t \in Seq(S)
  PROVE  IsPrefix(s, t) <=> Len(s) <= Len(t) /\ \A i \in 1..Len(s) : s[i] = t[i]
  <1> DEFINE n == Len(s)
  <1>1. n \in Nat /\ Len(t) \in Nat /\ SubSeq(s, 1, n) = s
    BY LenProperties, SubSeqFull
  <1>2. ASSUME n <= Len(t)
        PROVE  SubSeq(s, 1, n) = SubSeq(t, 1, n) <=> \A i \in 1..n : s[i] = t[i]
    <2>1. /\ SubSeq(t, 1, n) \in Seq(S) /\ Len(SubSeq(t, 1, n)) = n
          /\ \A i \in 1..n : SubSeq(t, 1, n)[i] = t[i]
      BY <1>1, <1>2, PartOf
    <2>2. ASSUME \A i \in 1..n : s[i] = t[i] PROVE s = SubSeq(t, 1, n)
      BY <2>1, <2>2, SeqEqual
    <2>. QED BY <1>1, <2>1, <2>2
  <1>. QED BY <1>2 DEF IsPrefix

\* A text is taken from another, after a prefix of it.
PartIs(S, s, t, n) ==
  /\ SubSeq(t, Len(s) + 1, n) \in Seq(S)
  /\ s \o SubSeq(t, Len(s) + 1, n) \in Seq(S)
  /\ Len(s \o SubSeq(t, Len(s) + 1, n)) = n
  /\ \A i \in 1..n : (s \o SubSeq(t, Len(s) + 1, n))[i] = t[i]

LEMMA PrefixPart ==
  ASSUME NEW S, NEW s \in Seq(S), NEW t \in Seq(S), IsPrefix(s, t),
         NEW n \in Int, Len(s) <= n, n <= Len(t)
  PROVE  PartIs(S, s, t, n)
  <1> DEFINE a == Len(s)
             r == SubSeq(t, a + 1, n)
             z == s \o r
  <1>1. a \in Nat /\ n \in Nat /\ a <= n /\ n <= Len(t) /\ \A i \in 1..a : s[i] = t[i]
    BY LenProperties, PrefixIs
  <1>2. r \in Seq(S) /\ Len(r) = n - a /\ \A i \in 1..(n - a) : r[i] = t[a + i]
    <2>1. a + 1 \in Int /\ n \in Int /\ 1 <= a + 1 /\ n <= Len(t)
      BY <1>1
    <2>2. /\ r \in Seq(S) /\ Len(r) = IF a + 1 <= n THEN n - (a + 1) + 1 ELSE 0
          /\ \A i \in 1..(n - (a + 1) + 1) : r[i] = t[a + 1 + i - 1]
      BY <2>1, PartOf
    <2> HIDE DEF r, a
    <2>. QED BY <1>1, <2>2
  <1> HIDE DEF r
  <1>3. /\ z \in Seq(S) /\ Len(z) = a + Len(r)
        /\ \A i \in 1..a : z[i] = s[i]
        /\ \A i \in 1..Len(r) : z[a + i] = r[i]
    BY <1>2, Joined
  <1> HIDE DEF z, a
  <1>4. ASSUME NEW i \in 1..n PROVE z[i] = t[i]
    <2>1. CASE i <= a
      <3>1. i \in 1..a
        BY <1>1, <2>1
      <3>. QED BY <1>1, <1>3, <3>1
    <2>2. CASE ~(i <= a)
      <3> DEFINE j == i - a
      <3>1. j \in 1..(n - a) /\ a + j = i
        BY <1>1, <2>2
      <3> HIDE DEF j
      <3>2. z[a + j] = r[j] /\ r[j] = t[a + j]
        BY <1>2, <1>3, <3>1
      <3>. QED BY <3>1, <3>2
    <2>. QED BY <2>1, <2>2
  <1>5. Len(z) = n
    BY <1>1, <1>2, <1>3
  <1>. QED BY <1>2, <1>3, <1>4, <1>5 DEF z, r, a, PartIs

\* The rest of a text after a prefix of it.
LEMMA PrefixRest ==
  ASSUME NEW S, NEW s \in Seq(S), NEW t \in Seq(S), IsPrefix(s, t)
  PROVE  s \o SubSeq(t, Len(s) + 1, Len(t)) = t /\ SubSeq(t, Len(s) + 1, Len(t)) \in Seq(S)
  <1> DEFINE n == Len(t)
             r == SubSeq(t, Len(s) + 1, n)
             z == s \o r
  <1>1. n \in Int /\ Len(s) <= n /\ n <= Len(t)
    BY LenProperties, PrefixIs
  <1> HIDE DEF n
  <1>2. r \in Seq(S) /\ z \in Seq(S) /\ Len(z) = n /\ \A i \in 1..n : z[i] = t[i]
    <2>1. PartIs(S, s, t, n)
      BY <1>1, PrefixPart
    <2>. QED BY <2>1 DEF PartIs
  <1> HIDE DEF r, z
  <1>3. z = t
    BY <1>2, SeqEqual DEF n
  <1>. QED BY <1>2, <1>3 DEF z, r, n

\* A text is a prefix of what it is continued to, and only of such.
LEMMA PrefixOn ==
  ASSUME NEW S, NEW s \in Seq(S), NEW t \in Seq(S), NEW u \in Seq(S)
  PROVE  /\ IsPrefix(s, s) /\ IsPrefix(s, s \o t)
         /\ IsPrefix(s, t) /\ IsPrefix(t, u) => IsPrefix(s, u)
         /\ IsPrefix(s, t) /\ IsPrefix(t, s) => s = t
  <1>1. /\ s \o t \in Seq(S) /\ Len(s) \in Nat /\ Len(t) \in Nat /\ Len(u) \in Nat
        /\ Len(s \o t) = Len(s) + Len(t)
        /\ \A i \in 1..Len(s) : (s \o t)[i] = s[i]
    BY Joined, LenProperties
  <1>2. IsPrefix(s, s)
    BY <1>1, PrefixIs
  <1>3. IsPrefix(s, s \o t)
    <2> DEFINE z == s \o t
    <2>1. z \in Seq(S) /\ Len(s) <= Len(z) /\ \A i \in 1..Len(s) : s[i] = z[i]
      BY <1>1
    <2> HIDE DEF z
    <2>2. IsPrefix(s, z)
      BY <2>1, PrefixIs
    <2>. QED BY <2>2 DEF z
  <1>4. ASSUME IsPrefix(s, t), IsPrefix(t, u) PROVE IsPrefix(s, u)
    <2>1. /\ Len(s) <= Len(t) /\ \A i \in 1..Len(s) : s[i] = t[i]
          /\ Len(t) <= Len(u) /\ \A i \in 1..Len(t) : t[i] = u[i]
      BY <1>4, PrefixIs
    <2>2. Len(s) <= Len(u) /\ \A i \in 1..Len(s) : i \in 1..Len(t)
      BY <1>1, <2>1
    <2>3. \A i \in 1..Len(s) : s[i] = u[i]
      BY <2>1, <2>2
    <2>. QED BY <2>2, <2>3, PrefixIs
  <1>5. ASSUME IsPrefix(s, t), IsPrefix(t, s) PROVE s = t
    <2>1. Len(s) <= Len(t) /\ Len(t) <= Len(s) /\ \A i \in 1..Len(s) : s[i] = t[i]
      BY <1>5, PrefixIs
    <2>2. Len(s) = Len(t)
      BY <1>1, <2>1
    <2>. QED BY <2>1, <2>2, SeqEqual
  <1>. QED BY <1>2, <1>3, <1>4, <1>5

-----------------------------------------------------------------------------
(* Words.                                                                  *)

\* The first space of a line that has one.
LEMMA FirstSpace ==
  ASSUME NEW line \in Line, Contains(line, Space)
  PROVE  \E k \in 1..Len(line) : /\ SelectInSeq(line, LAMBDA b : b = Space) = k
                                 /\ line[k] = Space
                                 /\ \A i \in 1..(k - 1) : line[i] # Space
  <1> DEFINE I == {i \in 1..Len(line) : line[i] = Space}
  <1>1. Len(line) \in Nat
    BY LenProperties
  <1>2. I # {} /\ I \in SUBSET (1..Len(line))
    BY DEF Contains
  <1>3. SelectInSeq(line, LAMBDA b : b = Space) = Min(I)
    BY <1>2 DEF SelectInSeq
  <1>4. Min(I) \in I /\ \A i \in I : Min(I) <= i
    BY <1>1, <1>2, Indexes
  <1> DEFINE k == Min(I)
  <1>5. k \in 1..Len(line) /\ line[k] = Space
    BY <1>4
  <1>6. \A i \in 1..Len(line) : line[i] = Space => k <= i
    BY <1>4
  <1> HIDE DEF k
  <1>7. \A i \in 1..(k - 1) : i \in 1..Len(line) /\ ~(k <= i)
    BY <1>1, <1>5
  <1>. QED BY <1>3, <1>5, <1>6, <1>7 DEF k

\* The first word ends before the first space, or with the line.
LEMMA FirstWordIs ==
  ASSUME NEW line \in Line
  PROVE  /\ FirstWord(line) \in Line
         /\ Len(FirstWord(line)) \in 0..Len(line)
         /\ \A i \in 1..Len(FirstWord(line)) : FirstWord(line)[i] = line[i] /\ line[i] # Space
         /\ IF Contains(line, Space)
            THEN Len(FirstWord(line)) < Len(line) /\ line[Len(FirstWord(line)) + 1] = Space
            ELSE FirstWord(line) = line
  <1>1. Len(line) \in Nat
    BY LenProperties
  <1>2. CASE Contains(line, Space)
    <2>1. PICK k \in 1..Len(line) : /\ SelectInSeq(line, LAMBDA b : b = Space) = k
                                    /\ line[k] = Space
                                    /\ \A i \in 1..(k - 1) : line[i] # Space
      BY <1>2, FirstSpace
    <2>2. FirstWord(line) = SubSeq(line, 1, k - 1)
      BY <1>2, <2>1 DEF FirstWord, Prefix
    <2>3. /\ FirstWord(line) \in Line /\ Len(FirstWord(line)) = k - 1
          /\ \A i \in 1..(k - 1) : FirstWord(line)[i] = line[i]
      BY <1>1, <2>2, PartOf
    <2>4. k - 1 \in 0..Len(line) /\ k - 1 < Len(line) /\ (k - 1) + 1 = k
      BY <1>1
    <2>. QED BY <1>2, <2>1, <2>3, <2>4
  <1>3. CASE ~Contains(line, Space)
    <2>1. FirstWord(line) = line
      BY <1>3, SubSeqFull DEF FirstWord, Prefix
    <2>2. \A i \in 1..Len(line) : line[i] # Space
      BY <1>3 DEF Contains
    <2>3. Len(line) \in 0..Len(line)
      BY <1>1
    <2>. QED BY <1>3, <2>1, <2>2, <2>3
  <1>. QED BY <1>2, <1>3

\* Lines that agree up to a space have the same first word.
LEMMA SameFirstWord ==
  ASSUME NEW a \in Line, NEW b \in Line, NEW n \in 1..Len(a), n <= Len(b), a[n] = Space,
         \A i \in 1..n : a[i] = b[i]
  PROVE  FirstWord(a) = FirstWord(b) /\ Contains(b, Space)
  <1>1. Len(a) \in Nat /\ Len(b) \in Nat
    BY LenProperties
  <1>2. Contains(a, Space)
    BY DEF Contains
  <1>3. n \in 1..Len(b) /\ b[n] = Space /\ n \in 1..n
    BY <1>1
  <1>4. Contains(b, Space)
    BY <1>3 DEF Contains
  <1> DEFINE v == FirstWord(a)
             w == FirstWord(b)
             j == Len(v)
             k == Len(w)
  <1>5. /\ v \in Line /\ j \in 0..Len(a) /\ a[j + 1] = Space
        /\ \A i \in 1..j : v[i] = a[i] /\ a[i] # Space
    BY <1>2, FirstWordIs
  <1>6. /\ w \in Line /\ k \in 0..Len(b) /\ b[k + 1] = Space
        /\ \A i \in 1..k : w[i] = b[i] /\ b[i] # Space
    BY <1>4, FirstWordIs
  <1> HIDE DEF v, w
  <1>7. j \in Nat /\ k \in Nat /\ n \in Nat
    BY <1>1, <1>5, <1>6
  <1>8. n \notin 1..j /\ n \notin 1..k
    BY <1>3, <1>5, <1>6
  <1>9. j < n /\ k < n
    BY <1>3, <1>7, <1>8
  <1>10. j + 1 \in 1..n /\ k + 1 \in 1..n
    BY <1>7, <1>9
  <1>11. b[j + 1] = Space /\ a[k + 1] = Space
    BY <1>5, <1>6, <1>10
  <1>12. j + 1 \notin 1..k /\ k + 1 \notin 1..j
    BY <1>5, <1>6, <1>11
  <1>13. j = k
    BY <1>7, <1>12
  <1>14. \A i \in 1..j : i \in 1..n
    BY <1>7, <1>9
  <1>15. \A i \in 1..j : v[i] = w[i]
    BY <1>5, <1>6, <1>13, <1>14
  <1>16. v = w
    BY <1>5, <1>6, <1>13, <1>15, SeqEqual
  <1>. QED BY <1>4, <1>16 DEF v, w

\* What is added to a line with a space changes neither.
LEMMA LongerLine ==
  ASSUME NEW line \in Line, NEW more \in Line
  PROVE  /\ line \o more \in Line
         /\ Contains(line, Space) => /\ Contains(line \o more, Space)
                                   /\ FirstWord(line \o more) = FirstWord(line)
  <1>1. Len(line) \in Nat /\ Len(more) \in Nat
    BY LenProperties
  <1>2. /\ line \o more \in Line /\ Len(line \o more) = Len(line) + Len(more)
        /\ \A i \in 1..Len(line) : (line \o more)[i] = line[i]
    BY <1>1, ConcatProperties
  <1>3. ASSUME Contains(line, Space)
        PROVE  Contains(line \o more, Space) /\ FirstWord(line \o more) = FirstWord(line)
    <2>1. PICK n \in 1..Len(line) : line[n] = Space
      BY <1>3 DEF Contains
    <2> DEFINE longer == line \o more
    <2>2. /\ n <= Len(longer) /\ longer \in Line
          /\ \A i \in 1..n : line[i] = longer[i]
      BY <1>1, <1>2
    <2> HIDE DEF longer
    <2>3. FirstWord(line) = FirstWord(longer) /\ Contains(longer, Space)
      BY <2>1, <2>2, SameFirstWord
    <2>. QED BY <2>3 DEF longer
  <1>. QED BY <1>2, <1>3

\* get_command_id finds an index of the table, or none.
LEMMA CommandIdIn ==
  ASSUME NEW word
  PROVE  CommandId(word) \in 0..Len(Commands)
  <1>1. Len(Commands) \in Nat \ {0}
    BY LineEditorAssumption, EmptySeq
  <1>2. CASE word = <<>>
    BY <1>1, <1>2 DEF CommandId
  <1>3. CASE word # <<>>
    <2> DEFINE I == {i \in 1..Len(Commands) : IsPrefix(word, Commands[i].name)}
    <2>1. CommandId(word) = IF I # {} THEN Min(I) ELSE 0
      BY <1>3 DEF CommandId, SelectInSeq
    <2>2. I # {} => Min(I) \in I
      BY <1>1, Indexes
    <2>. QED BY <1>1, <2>1, <2>2
  <1>. QED BY <1>2, <1>3

-----------------------------------------------------------------------------
(* Sorted lists of candidates.                                             *)

\* What is inserted is an element more, and the others keep their order.
LEMMA Inserted ==
  ASSUME NEW T, NEW s \in Seq(T), NEW p \in 1..(Len(s) + 1), NEW e \in T
  PROVE  /\ InsertAt(s, p, e) \in Seq(T)
         /\ Len(InsertAt(s, p, e)) = Len(s) + 1
         /\ \A i \in 1..(Len(s) + 1) :
              InsertAt(s, p, e)[i] = IF i < p THEN s[i] ELSE IF i = p THEN e ELSE s[i - 1]
  <1> DEFINE a == SubSeq(s, 1, p - 1)
             b == SubSeq(s, p, Len(s))
             x == a \o <<e>>
             n == Len(s)
  <1>1. n \in Nat /\ p \in Int /\ 1 <= p /\ p - 1 <= n
    BY LenProperties
  <1>2. /\ a \in Seq(T) /\ Len(a) = p - 1
        /\ \A i \in 1..(p - 1) : a[i] = s[i]
    BY <1>1, PartOf
  <1>3. /\ b \in Seq(T) /\ Len(b) = n - p + 1
        /\ \A i \in 1..(n - p + 1) : b[i] = s[p + i - 1]
    BY <1>1, PartOf
  <1>4. <<e>> \in Seq(T) /\ Len(<<e>>) = 1 /\ <<e>>[1] = e
    OBVIOUS
  <1> DEFINE c == <<e>>
  <1>5. InsertAt(s, p, e) = x \o b
    BY DEF InsertAt
  <1> HIDE DEF a, b, c
  <1>6. /\ x \in Seq(T) /\ Len(x) = p
        /\ \A i \in 1..p : x[i] = IF i <= p - 1 THEN a[i] ELSE c[i - (p - 1)]
    BY <1>1, <1>2, <1>4, ConcatProperties DEF c
  <1> HIDE DEF x, n
  <1>9. p + (n - p + 1) = n + 1
    BY <1>1
  <1>7. /\ x \o b \in Seq(T) /\ Len(x \o b) = n + 1
        /\ \A i \in 1..(n + 1) : (x \o b)[i] = IF i <= p THEN x[i] ELSE b[i - p]
    <2>1. /\ x \o b \in Seq(T) /\ Len(x \o b) = Len(x) + Len(b)
          /\ \A i \in 1..(Len(x) + Len(b)) :
               (x \o b)[i] = IF i <= Len(x) THEN x[i] ELSE b[i - Len(x)]
      BY <1>3, <1>6, ConcatProperties
    <2>. QED BY <1>3, <1>6, <1>9, <2>1
  <1>8. ASSUME NEW i \in 1..(n + 1)
        PROVE  (x \o b)[i] = IF i < p THEN s[i] ELSE IF i = p THEN e ELSE s[i - 1]
    <2>1. CASE i < p
      <3>1. i \in 1..(p - 1) /\ i \in 1..p /\ i <= p /\ i <= p - 1
        BY <1>1, <2>1
      <3>. QED BY <1>2, <1>6, <1>7, <2>1, <3>1
    <2>2. CASE i = p
      <3>1. i \in 1..p /\ i <= p /\ ~(i <= p - 1) /\ i - (p - 1) = 1
        BY <1>1, <2>2
      <3>2. c[1] = e
        BY <1>4 DEF c
      <3>. QED BY <1>6, <1>7, <2>2, <3>1, <3>2
    <2>3. CASE i > p
      <3>1. ~(i <= p) /\ ~(i < p) /\ i # p /\ i - p \in 1..(n - p + 1) /\ p + (i - p) - 1 = i - 1
        BY <1>1, <2>3
      <3>. QED BY <1>3, <1>7, <3>1
    <2>4. i < p \/ i = p \/ i > p
      BY <1>1
    <2>. QED BY <2>1, <2>2, <2>3, <2>4
  <1>. QED BY <1>5, <1>7, <1>8 DEF n

\* ll_add_sort puts a text into a list of others.
LEMMA Sorted ==
  ASSUME NEW T, NEW s \in Seq(T), NEW e \in T
  PROVE  \E p \in 1..(Len(s) + 1) : AddSorted(s, e) = InsertAt(s, p, e)
  <1> DEFINE I == {i \in 1..Len(s) : Less(e, s[i])}
  <1>1. Len(s) \in Nat
    BY LenProperties
  <1>2. SelectInSeq(s, LAMBDA d : Less(e, d)) = Found(I)
    BY DEF SelectInSeq, Found
  <1>3. Found(I) \in 0..Len(s)
    BY <1>1, FoundIn
  <1> DEFINE p == IF Found(I) = 0 THEN Len(s) + 1 ELSE Found(I)
  <1>4. AddSorted(s, e) = InsertAt(s, p, e)
    BY <1>2 DEF AddSorted
  <1>5. p \in 1..(Len(s) + 1)
    BY <1>1, <1>3
  <1>. QED BY <1>4, <1>5

\* The list has one text more, and the others keep their order.
Grown(s, e, t, p) ==
  /\ Len(t) = Len(s) + 1
  /\ \A i \in 1..(Len(s) + 1) : t[i] = IF i < p THEN s[i] ELSE IF i = p THEN e ELSE s[i - 1]

LEMMA Grows ==
  ASSUME NEW T, NEW s \in Seq(T), NEW e \in T
  PROVE  AddSorted(s, e) \in Seq(T) /\ \E p \in 1..(Len(s) + 1) : Grown(s, e, AddSorted(s, e), p)
  <1>1. PICK p \in 1..(Len(s) + 1) : AddSorted(s, e) = InsertAt(s, p, e)
    BY Sorted
  <1>2. /\ InsertAt(s, p, e) \in Seq(T) /\ Len(InsertAt(s, p, e)) = Len(s) + 1
        /\ \A i \in 1..(Len(s) + 1) :
             InsertAt(s, p, e)[i] = IF i < p THEN s[i] ELSE IF i = p THEN e ELSE s[i - 1]
    BY Inserted
  <1> DEFINE t == InsertAt(s, p, e)
  <1>3. Grown(s, e, t, p) /\ t \in Seq(T)
    BY <1>2 DEF Grown
  <1> HIDE DEF t
  <1>4. AddSorted(s, e) = t
    BY <1>1 DEF t
  <1>. QED BY <1>3, <1>4

\* A list of different texts, each of which is among the first n of the list that
\* is searched and starts with part.
Distinct(s) == \A i, j \in 1..Len(s) : s[i] = s[j] => i = j
Among(s, part, list, n) ==
  \A i \in 1..Len(s) : \E k \in 1..n : s[i] = list[k] /\ IsPrefix(part, list[k])

\* One text more has been looked at.
LEMMA OneAmong ==
  ASSUME NEW T, NEW part, NEW list \in Seq(T), Distinct(list), NEW n \in 1..Len(list),
         NEW s \in Seq(T), Distinct(s), Among(s, part, list, n - 1), IsPrefix(part, list[n])
  PROVE  /\ AddSorted(s, list[n]) \in Seq(T)
         /\ Distinct(AddSorted(s, list[n]))
         /\ Among(AddSorted(s, list[n]), part, list, n)
  <1>1. list[n] \in T /\ Len(s) \in Nat /\ Len(list) \in Nat
    BY LenProperties, ElementOfSeq
  <1>2. PICK p \in 1..(Len(s) + 1) : AddSorted(s, list[n]) = InsertAt(s, p, list[n])
    BY <1>1, Sorted
  <1> DEFINE e == list[n]
             t == InsertAt(s, p, e)
             m == Len(s)
  <1>3. /\ t \in Seq(T) /\ Len(t) = m + 1
        /\ \A i \in 1..(m + 1) :
             t[i] = IF i < p THEN s[i] ELSE IF i = p THEN e ELSE s[i - 1]
    <2>1. e \in T
      BY <1>1
    <2> HIDE DEF e
    <2>2. /\ InsertAt(s, p, e) \in Seq(T)
          /\ Len(InsertAt(s, p, e)) = Len(s) + 1
          /\ \A i \in 1..(Len(s) + 1) :
               InsertAt(s, p, e)[i] = IF i < p THEN s[i] ELSE IF i = p THEN e ELSE s[i - 1]
      BY <2>1, Inserted
    <2>. QED BY <2>2
  <1> HIDE DEF t
  <1>4. \A i \in 1..m : s[i] # list[n]
    <2> SUFFICES ASSUME NEW i \in 1..m, s[i] = list[n] PROVE FALSE
      OBVIOUS
    <2>1. PICK k \in 1..(n - 1) : s[i] = list[k]
      BY DEF Among
    <2>2. k \in 1..Len(list) /\ k # n
      BY <1>1
    <2>. QED BY <2>1, <2>2 DEF Distinct
  <1>5. m \in Nat /\ p \in 1..(m + 1)
    BY <1>1
  <1>6. \A i, j \in 1..m : s[i] = s[j] => i = j
    BY DEF Distinct
  <1>7. \A i \in 1..m : \E k \in 1..(n - 1) : s[i] = list[k] /\ IsPrefix(part, list[k])
    BY DEF Among
  <1> HIDE DEF m
  <1>8. \A i \in 1..(m + 1) : \/ i < p /\ i \in 1..m /\ t[i] = s[i]
                              \/ i = p /\ t[i] = list[n]
                              \/ i > p /\ i - 1 \in 1..m /\ t[i] = s[i - 1]
    <2> SUFFICES ASSUME NEW i \in 1..(m + 1)
                 PROVE  \/ i < p /\ i \in 1..m /\ t[i] = s[i]
                        \/ i = p /\ t[i] = list[n]
                        \/ i > p /\ i - 1 \in 1..m /\ t[i] = s[i - 1]
      OBVIOUS
    <2>1. \/ i < p /\ i \in 1..m
          \/ i = p /\ ~(i < p)
          \/ i > p /\ i - 1 \in 1..m /\ ~(i < p) /\ i # p
      BY <1>5
    <2>. QED BY <1>3, <2>1
  <1>9. ASSUME NEW i \in 1..(m + 1), NEW j \in 1..(m + 1), t[i] = t[j] PROVE i = j
    <2>1. \/ j < p /\ j \in 1..m /\ t[j] = s[j]
          \/ j = p /\ t[j] = list[n]
          \/ j > p /\ j - 1 \in 1..m /\ t[j] = s[j - 1]
      BY <1>8
    <2>2. CASE i < p /\ i \in 1..m /\ t[i] = s[i]
      <3>1. ~(j = p /\ t[j] = list[n])
        BY <1>4, <1>9, <2>2
      <3>2. ~(j > p /\ j - 1 \in 1..m /\ t[j] = s[j - 1])
        <4>1. j > p => i # j - 1
          BY <1>5, <2>2
        <4>. QED BY <1>6, <1>9, <2>2, <4>1
      <3>. QED BY <1>6, <1>9, <2>1, <2>2, <3>1, <3>2
    <2>3. CASE i = p /\ t[i] = list[n]
      BY <1>4, <1>9, <2>1, <2>3
    <2>4. CASE i > p /\ i - 1 \in 1..m /\ t[i] = s[i - 1]
      <3>1. ~(j = p /\ t[j] = list[n])
        BY <1>4, <1>9, <2>4
      <3>2. ~(j < p /\ j \in 1..m /\ t[j] = s[j])
        <4>1. j < p => j # i - 1
          BY <1>5, <2>4
        <4>. QED BY <1>6, <1>9, <2>4, <4>1
      <3>3. j - 1 \in 1..m /\ t[j] = s[j - 1]
        BY <2>1, <3>1, <3>2
      <3>4. i - 1 = j - 1
        BY <1>6, <1>9, <2>4, <3>3
      <3>. QED BY <3>4
    <2>. QED BY <1>8, <2>2, <2>3, <2>4
  <1>10. \A k \in 1..(n - 1) : k \in 1..n
    BY <1>1
  <1>11. n \in 1..n
    BY <1>1
  <1>12. \A i \in 1..(m + 1) : \E k \in 1..n : t[i] = list[k] /\ IsPrefix(part, list[k])
    BY <1>7, <1>8, <1>10, <1>11
  <1>13. AddSorted(s, list[n]) = t
    BY <1>2 DEF t
  <1>14. Distinct(t)
    BY <1>3, <1>9 DEF Distinct
  <1>15. Among(t, part, list, n)
    BY <1>3, <1>12 DEF Among
  <1>. QED BY <1>3, <1>13, <1>14, <1>15

\* No text of the first n that starts with part is missing.
Every(s, part, list, n) ==
  \A k \in 1..n : IsPrefix(part, list[k]) => \E i \in 1..Len(s) : s[i] = list[k]

LEMMA OneMoreOf ==
  ASSUME NEW T, NEW part, NEW list \in Seq(T), NEW n \in 1..Len(list),
         NEW s \in Seq(T), Every(s, part, list, n - 1)
  PROVE  Every(AddSorted(s, list[n]), part, list, n)
  <1>1. list[n] \in T /\ Len(s) \in Nat /\ Len(list) \in Nat
    BY LenProperties, ElementOfSeq
  <1> DEFINE e == list[n]
             m == Len(s)
             t == AddSorted(s, e)
  <1>2. e \in T
    BY <1>1
  <1> HIDE DEF e
  <1>3. PICK p \in 1..(m + 1) : Grown(s, e, t, p)
    BY <1>2, Grows
  <1>4. /\ Len(t) = m + 1
        /\ \A i \in 1..(m + 1) : t[i] = IF i < p THEN s[i] ELSE IF i = p THEN e ELSE s[i - 1]
    BY <1>3 DEF Grown
  <1> HIDE DEF t
  <1>5. m \in Nat
    BY <1>1
  <1> HIDE DEF m
  <1>6. ASSUME NEW i \in 1..m PROVE \E j \in 1..(m + 1) : t[j] = s[i]
    <2>1. CASE i < p
      <3>1. i \in 1..(m + 1)
        BY <1>5
      <3>. QED BY <1>4, <2>1, <3>1
    <2>2. CASE ~(i < p)
      <3> DEFINE j == i + 1
      <3>1. j \in 1..(m + 1) /\ ~(j < p) /\ j # p /\ j - 1 = i
        BY <1>5, <2>2
      <3> HIDE DEF j
      <3>. QED BY <1>4, <3>1
    <2>. QED BY <2>1, <2>2
  <1>7. t[p] = e /\ p \in 1..(m + 1)
    BY <1>4, <1>5
  <1>8. \A k \in 1..n : k = n \/ k \in 1..(n - 1)
    BY <1>1
  <1>9. Every(t, part, list, n)
    BY <1>4, <1>6, <1>7, <1>8 DEF Every, e, m
  <1>. QED BY <1>9 DEF t, e

\* The candidates are different texts of the list, they all start with part, and
\* none that does is missing.
LEMMA CandidatesAre ==
  ASSUME NEW T, NEW part, NEW list \in Seq(T), Distinct(list)
  PROVE  /\ Candidates(part, list) \in Seq(T)
         /\ Distinct(Candidates(part, list))
         /\ Among(Candidates(part, list), part, list, Len(list))
         /\ Every(Candidates(part, list), part, list, Len(list))
  <1> DEFINE n == Len(list)
             Step(s, i) == IF IsPrefix(part, list[i]) THEN AddSorted(s, list[i]) ELSE s
             step == [i \in 1..n |-> [s \in Seq(T) |-> Step(s, i)]]
             Body(f) == [i \in 0..n |-> IF i = 0 THEN <<>> ELSE Step(f[i - 1], i)]
             sorted == CHOOSE f : f = Body(f)
  <1>1. n \in Nat
    BY LenProperties
  <1>2. \A i \in 1..n, s \in Seq(T) : Step(s, i) \in Seq(T)
    <2> SUFFICES ASSUME NEW i \in 1..n, NEW s \in Seq(T) PROVE AddSorted(s, list[i]) \in Seq(T)
      OBVIOUS
    <2> DEFINE e == list[i]
    <2>1. e \in T
      BY ElementOfSeq
    <2> HIDE DEF e
    <2>2. AddSorted(s, e) \in Seq(T)
      BY <2>1, Grows
    <2>. QED BY <2>2 DEF e
  <1>3. Candidates(part, list) = sorted[n]
    BY DEF Candidates
  <1> HIDE DEF n, Step
  <1>4. <<>> \in Seq(T)
    OBVIOUS
  <1>5. step \in [1..n -> [Seq(T) -> Seq(T)]]
    BY <1>2
  <1>6. PICK f \in [0..n -> Seq(T)] : f[0] = <<>> /\ \A i \in 1..n : f[i] = step[i][f[i - 1]]
    <2>1. step \in Steps(n, Seq(T))
      BY <1>5 DEF Steps
    <2> HIDE DEF step
    <2>2. \E f : Iterates(f, n, Seq(T), <<>>, step)
      BY <1>1, <1>4, <2>1, Iteration
    <2>. QED BY <2>2 DEF Iterates
  <1>7. f = Body(f)
    <2>1. ASSUME NEW i \in 0..n
          PROVE  f[i] = IF i = 0 THEN <<>> ELSE Step(f[i - 1], i)
      <3>1. CASE i = 0
        BY <1>6, <3>1
      <3>2. CASE i # 0
        <4>1. i \in 1..n /\ i - 1 \in 0..n
          BY <1>1, <3>2
        <4>2. f[i - 1] \in Seq(T)
          BY <4>1
        <4>. QED BY <1>6, <3>2, <4>1, <4>2
      <3>. QED BY <3>1, <3>2
    <2>. QED BY <2>1
  <1>8. sorted = Body(sorted)
    <2> HIDE DEF Body
    <2>. QED BY <1>7
  <1> HIDE DEF sorted
  <1>9. \A i \in 0..n : sorted[i] = IF i = 0 THEN <<>> ELSE Step(sorted[i - 1], i)
    BY <1>8
  <1> DEFINE Good(s, k) == /\ s \in Seq(T) /\ Distinct(s)
                           /\ Among(s, part, list, k) /\ Every(s, part, list, k)
             K == {k \in Nat : k <= n => Good(sorted[k], k)}
  <1>10. 0 \in K
    <2>1. 0 \in 0..n
      BY <1>1
    <2>3. sorted[0] = <<>>
      BY <1>9, <2>1
    <2>2. Good(<<>>, 0)
      BY DEF Distinct, Among, Every
    <2>. QED BY <2>2, <2>3
  <1>11. ASSUME NEW k \in K PROVE k + 1 \in K
    <2> HIDE DEF Good
    <2>1. k \in Nat
      OBVIOUS
    <2> SUFFICES ASSUME k + 1 <= n PROVE Good(sorted[k + 1], k + 1)
      BY <2>1
    <2>2. k + 1 \in 1..n /\ k + 1 \in 0..n /\ k + 1 # 0 /\ (k + 1) - 1 = k
      BY <1>1, <2>1
    <2>3. Good(sorted[k], k)
      BY <1>1, <2>1
    <2>4. sorted[k + 1] = Step(sorted[k], k + 1)
      BY <1>9, <2>2
    <2>5. CASE IsPrefix(part, list[k + 1])
      <3>1. sorted[k + 1] = AddSorted(sorted[k], list[k + 1])
        BY <2>4, <2>5 DEF Step
      <3> DEFINE m == k + 1
      <3>2. m \in 1..Len(list) /\ m - 1 = k
        BY <2>2 DEF n
      <3> HIDE DEF m
      <3>3. Good(AddSorted(sorted[k], list[m]), m)
        BY <2>3, <2>5, <3>2, OneAmong, OneMoreOf DEF Good, m
      <3>. QED BY <3>1, <3>3 DEF m
    <2>6. CASE ~IsPrefix(part, list[k + 1])
      <3>1. sorted[k + 1] = sorted[k]
        BY <2>4, <2>6 DEF Step
      <3>2. \A i \in 1..k : i \in 1..(k + 1)
        BY <2>1
      <3>3. Among(sorted[k], part, list, k) => Among(sorted[k], part, list, k + 1)
        BY <3>2 DEF Among
      <3>4. Every(sorted[k], part, list, k) => Every(sorted[k], part, list, k + 1)
        <4>1. \A i \in 1..(k + 1) : i \in 1..k \/ i = k + 1
          BY <2>1
        <4>. QED BY <2>6, <4>1 DEF Every
      <3>. QED BY <2>3, <3>1, <3>3, <3>4 DEF Good
    <2>. QED BY <2>5, <2>6
  <1>12. K \in SUBSET Nat
    OBVIOUS
  <1> HIDE DEF K, Good
  <1>13. n \in K
    BY <1>1, <1>10, <1>11, <1>12, SetInduction
  <1>14. Good(sorted[n], n)
    BY <1>1, <1>13 DEF K
  <1>. QED BY <1>3, <1>14 DEF Good, n

-----------------------------------------------------------------------------
(* What the candidates share.                                              *)

\* The NUL that ends a text is none of its characters.
LEMMA NulEnds ==
  "NUL" \notin Chars
  <1>1. "NUL" \notin Letters
    BY LineEditorAssumption
  <1>2. "NUL" \notin Quotes
    BY Zenon DEF Quotes, DoubleQuote
  <1>3. "NUL" \notin Telnet
    BY Zenon DEF Telnet
  <1>4. "NUL" \notin {Space, "/", "[", "A", "B", "\n"}
    BY Zenon DEF Space
  <1>. QED BY <1>1, <1>2, <1>3, <1>4, Zenon DEF Chars

\* Different texts differ, at the latest where the first one ends.
LEMMA Differ ==
  ASSUME NEW s \in Line, NEW t \in Line, s # t
  PROVE  \E x \in 1..(Len(s) + 1) : CharAt(t, x) # CharAt(s, x)
  <1> SUFFICES ASSUME \A x \in 1..(Len(s) + 1) : CharAt(t, x) = CharAt(s, x) PROVE FALSE
    OBVIOUS
  <1> DEFINE k == Len(s)
             n == Len(t)
  <1>1. k \in Nat /\ n \in Nat /\ DOMAIN s = 1..k /\ DOMAIN t = 1..n
    BY LenProperties
  <1>2. \A x \in 1..k : s[x] \in Chars
    BY ElementOfSeq
  <1>3. \A x \in 1..n : t[x] \in Chars
    BY ElementOfSeq
  <1>4. \A x \in 1..(k + 1) : CharAt(t, x) = CharAt(s, x)
    OBVIOUS
  <1>5. s = t <=> k = n /\ \A x \in 1..k : s[x] = t[x]
    BY SeqEqual
  <1> HIDE DEF k, n
  <1>6. k + 1 \in 1..(k + 1) /\ k + 1 \notin 1..k /\ \A x \in 1..k : x \in 1..(k + 1)
    BY <1>1
  <1>7. CharAt(s, k + 1) = "NUL"
    BY <1>1, <1>6 DEF CharAt
  <1>8. k + 1 \notin 1..n
    BY <1>1, <1>3, <1>4, <1>6, <1>7, NulEnds DEF CharAt
  <1>9. \A x \in 1..k : x \in 1..n /\ s[x] = t[x]
    <2> SUFFICES ASSUME NEW x \in 1..k PROVE x \in 1..n /\ s[x] = t[x]
      OBVIOUS
    <2>1. CharAt(s, x) = s[x] /\ CharAt(t, x) = s[x]
      BY <1>1, <1>4, <1>6 DEF CharAt
    <2>. QED BY <1>1, <1>2, <2>1, NulEnds DEF CharAt
  <1>10. k = n
    <2>1. n <= k
      BY <1>1, <1>8
    <2>2. CASE k = 0
      BY <1>1, <2>1, <2>2
    <2>3. CASE k # 0
      <3>1. k \in 1..k
        BY <1>1, <2>3
      <3>2. k \in 1..n
        BY <1>9, <3>1
      <3>. QED BY <1>1, <2>1, <3>2
    <2>. QED BY <2>2, <2>3
  <1>. QED BY <1>5, <1>9, <1>10

\* get_unique returns a part of the first text, with which all texts go on.
LEMMA UniqueIs ==
  ASSUME NEW list \in Seq(Line), Distinct(list), Len(list) >= 2,
         NEW part \in Line, \A k \in 1..Len(list) : IsPrefix(part, list[k])
  PROVE  /\ GetUnique(list, Len(part)) \in Line
         /\ \A k \in 1..Len(list) : IsPrefix(part \o GetUnique(list, Len(part)), list[k])
  <1> DEFINE offset == Len(part)
             first == list[1]
             Agree(i) == \A k \in DOMAIN list : CharAt(list[k], i) = CharAt(first, i)
             X == {x \in 1..(Len(first) + 1) : ~Agree(x)}
             Shared(x) == /\ x \in 1..(Len(first) + 1)
                          /\ ~Agree(x) /\ \A y \in 1..(x - 1) : Agree(y)
  <1>1. Len(list) \in Nat /\ DOMAIN list = 1..Len(list)
    BY LenProperties
  <1>2. 1 \in 1..Len(list) /\ 2 \in 1..Len(list)
    BY <1>1
  <1>3. list[1] \in Line /\ list[2] \in Line /\ list[1] # list[2]
    <2>1. list[1] \in Line /\ list[2] \in Line
      BY <1>2, ElementOfSeq
    <2>. QED BY <1>2, <2>1 DEF Distinct
  <1>4. PICK z \in 1..(Len(first) + 1) : CharAt(list[2], z) # CharAt(first, z)
    BY <1>3, Differ
  <1>5. z \in X
    BY <1>1, <1>2, <1>4
  <1>6. Len(first) \in Nat
    BY <1>3, LenProperties
  <1> HIDE DEF Agree
  <1>7. X \in SUBSET Nat /\ X # {}
    <2>1. X \subseteq 1..(Len(first) + 1) /\ X # {}
      BY <1>5
    <2>2. 1..(Len(first) + 1) \subseteq Nat
      BY <1>6
    <2>. QED BY <2>1, <2>2
  <1>8. PICK w \in X : \A y \in X : w <= y
    BY <1>7, Smallest
  <1>9. Shared(w)
    <2>1. w \in 1..(Len(first) + 1) /\ ~Agree(w)
      BY <1>8
    <2>2. \A y \in 1..(w - 1) : y \in 1..(Len(first) + 1) /\ ~(w <= y)
      BY <1>6, <2>1
    <2>. QED BY <1>8, <2>1, <2>2
  <1> DEFINE x == CHOOSE x \in 1..(Len(first) + 1) : ~Agree(x) /\ \A y \in 1..(x - 1) : Agree(y)
  <1>10. x \in 1..(Len(first) + 1) /\ ~Agree(x) /\ \A y \in 1..(x - 1) : Agree(y)
    BY <1>9
  <1>11. GetUnique(list, offset) = SubSeq(first, offset + 1, x - 1)
    BY DEF GetUnique, Agree
  <1> HIDE DEF x
  <1>12. offset \in Nat /\ x \in Nat /\ x - 1 \in 0..Len(first)
    BY <1>6, <1>10, LenProperties
  <1>13. \A k \in 1..Len(list) : \A i \in 1..offset : CharAt(list[k], i) = part[i]
    <2> SUFFICES ASSUME NEW k \in 1..Len(list), NEW i \in 1..offset
                 PROVE  CharAt(list[k], i) = part[i]
      OBVIOUS
    <2>1. list[k] \in Line
      BY ElementOfSeq
    <2>2. DOMAIN list[k] = 1..Len(list[k]) /\ Len(list[k]) \in Nat
      BY <2>1, LenProperties
    <2>3. offset <= Len(list[k]) /\ \A j \in 1..offset : part[j] = list[k][j]
      BY <2>1, PrefixIs
    <2>4. i \in 1..Len(list[k])
      BY <1>12, <2>2, <2>3
    <2>. QED BY <2>2, <2>3, <2>4 DEF CharAt
  <1>14. \A i \in 1..offset : Agree(i)
    BY <1>1, <1>2, <1>13 DEF Agree
  <1>15. offset <= x - 1
    <2>1. x \notin 1..offset
      BY <1>10, <1>14
    <2>. QED BY <1>10, <1>12, <2>1
  <1> DEFINE b == x - 1
             u == SubSeq(first, offset + 1, b)
             whole == part \o u
  <1>16. IsPrefix(part, first) /\ b \in Int /\ offset <= b /\ b <= Len(first) /\ first \in Line
    <2>1. Len(first) \in Nat
      BY <1>3, LenProperties
    <2> HIDE DEF first, offset
    <2>2. b \in Int /\ offset <= b /\ b <= Len(first)
      BY <1>12, <1>15, <2>1
    <2>. QED BY <1>2, <1>3, <2>2 DEF first
  <1> HIDE DEF b, first
  <1>17. u \in Line /\ whole \in Line /\ Len(whole) = b /\ \A i \in 1..b : whole[i] = first[i]
    <2>1. IsPrefix(part, first) /\ first \in Line /\ b \in Int /\ Len(part) <= b /\ b <= Len(first)
      BY <1>16
    <2>2. PartIs(Chars, part, first, b)
      BY <2>1, PrefixPart
    <2>. QED BY <2>2 DEF PartIs
  <1>18. b \in Nat /\ x - 1 = b
    BY <1>12, <1>16 DEF b
  <1> HIDE DEF u, whole, offset
  <1>19. ASSUME NEW k \in 1..Len(list) PROVE IsPrefix(whole, list[k])
    <2>1. list[k] \in Line
      BY ElementOfSeq
    <2>2. DOMAIN list[k] = 1..Len(list[k]) /\ Len(list[k]) \in Nat
          /\ DOMAIN first = 1..Len(first) /\ Len(first) \in Nat
      BY <1>16, <2>1, LenProperties
    <2>3. \A i \in 1..b : i \in 1..(x - 1) /\ i \in 1..Len(first)
      BY <1>16, <1>18, <2>2
    <2>4. \A i \in 1..b : CharAt(list[k], i) = first[i] /\ first[i] \in Chars
      <3> SUFFICES ASSUME NEW i \in 1..b PROVE CharAt(list[k], i) = first[i] /\ first[i] \in Chars
        OBVIOUS
      <3>1. CharAt(list[k], i) = CharAt(first, i)
        BY <1>1, <1>10, <2>3 DEF Agree, first
      <3>2. CharAt(first, i) = first[i]
        BY <2>2, <2>3 DEF CharAt
      <3>3. first[i] \in Chars
        BY <1>16, <2>3, ElementOfSeq
      <3>. QED BY <3>1, <3>2, <3>3
    <2>5. \A i \in 1..b : i \in 1..Len(list[k]) /\ list[k][i] = first[i]
      BY <2>2, <2>4, NulEnds DEF CharAt
    <2>6. b <= Len(list[k])
      <3>1. CASE b = 0
        BY <2>2, <3>1
      <3>2. CASE b # 0
        <4>1. b \in 1..b
          BY <1>18, <3>2
        <4>2. b \in 1..Len(list[k])
          BY <2>5, <4>1
        <4>. QED BY <2>2, <4>2
      <3>. QED BY <3>1, <3>2
    <2> DEFINE t == list[k]
    <2>7. t \in Line /\ whole \in Line /\ Len(whole) <= Len(t)
      BY <1>17, <2>1, <2>6
    <2>8. \A i \in 1..Len(whole) : whole[i] = t[i]
      BY <1>17, <2>5
    <2> HIDE DEF t
    <2>9. IsPrefix(whole, t)
      BY <2>7, <2>8, PrefixIs
    <2>. QED BY <2>9 DEF t
  <1>20. GetUnique(list, offset) = u
    BY <1>11 DEF u, b, first, offset
  <1>. QED BY <1>17, <1>19, <1>20 DEF whole, offset

-----------------------------------------------------------------------------
(* What TAB adds to a line.                                                *)

LEMMA Texts ==
  /\ <<>> \in Line /\ <<Space>> \in Line /\ Slash \in Line /\ <<DoubleQuote>> \in Line
  /\ Letters \subseteq Chars /\ \A s \in Seq(Letters) : s \in Line
  <1>1. Space \in Chars /\ "/" \in Chars /\ DoubleQuote \in Chars /\ Letters \subseteq Chars
    BY Zenon DEF Chars, Quotes
  <1>2. <<Space>> \in Line /\ <<DoubleQuote>> \in Line /\ <<>> \in Line
    BY <1>1
  <1>3. Slash \in Line
    BY <1>1 DEF Slash
  <1>4. \A s \in Seq(Letters) : s \in Line
    BY <1>1, SeqMonotonic
  <1>. QED BY <1>1, <1>2, <1>3, <1>4

\* A text, cut anywhere.
LEMMA FromOn ==
  ASSUME NEW s \in Line, NEW m \in Nat \ {0}
  PROVE  SubSeq(s, m, Len(s)) \in Line
  <1>1. Len(s) \in Nat
    BY LenProperties
  <1>. QED BY <1>1, PartOf

LEMMA LineJoined ==
  ASSUME NEW s \in Line, NEW t \in Line
  PROVE  s \o t \in Line
  BY ConcatProperties

\* The last word of a line with a space starts there.
LEMMA LastWordIn ==
  ASSUME NEW line \in Line, Contains(line, Space)
  PROVE  LastWord(line) \in Line
  <1> DEFINE I == {i \in 1..Len(line) : line[i] = Space}
  <1>1. Len(line) \in Nat
    BY LenProperties
  <1>2. I # {} /\ I \in SUBSET (1..Len(line))
    BY DEF Contains
  <1>3. SelectLastInSeq(line, LAMBDA c : c = Space) = Max(I)
    BY <1>2 DEF SelectLastInSeq
  <1>4. Max(I) \in I
    BY <1>1, <1>2, Indexes
  <1>5. Max(I) \in Nat \ {0}
    BY <1>4
  <1> HIDE DEF I
  <1>. QED BY <1>3, <1>5, FromOn DEF LastWord

LEMMA TypedIn ==
  ASSUME NEW word \in Line
  PROVE  Typed(word).text \in Line
  <1> DEFINE I == {i \in 1..Len(word) : word[i] \notin Quotes \cup {Space}}
             skipped == Found(I)
             text    == IF skipped = 0 THEN <<>> ELSE SubSeq(word, skipped, Len(word))
             from    == IF Len(word) > 1 /\ word[2] \in Quotes THEN 3 ELSE 2
  <1>1. Len(word) \in Nat
    BY LenProperties
  <1>2. skipped \in 0..Len(word)
    BY <1>1, FoundIn
  <1>3. text \in Line
    <2> HIDE DEF skipped
    <2>1. skipped # 0 => skipped \in Nat \ {0}
      BY <1>1, <1>2
    <2>. QED BY <2>1, FromOn, Texts
  <1>4. SubSeq(word, from, Len(word)) \in Line
    BY FromOn
  <1>5. SelectInSeq(word, LAMBDA c : c \notin Quotes \cup {Space}) = skipped
    BY DEF SelectInSeq, Found
  <1>6. Typed(word).text = IF Absolute(text) THEN text ELSE SubSeq(word, from, Len(word))
    <2> HIDE DEF skipped
    <2>. QED BY <1>5 DEF Typed
  <1> HIDE DEF text
  <1>. QED BY <1>3, <1>4, <1>6

LEMMA BelowIn ==
  ASSUME NEW file \in Line
  PROVE  Below(Cwd, file) \in Line
  <1>1. Root \in Line /\ Cwd \in Line
    BY LineEditorAssumption
  <1>2. Root \o Slash \in Line
    BY <1>1, Texts, LineJoined
  <1>3. Root \o Slash \o file \in Line /\ Root \o Slash \o Cwd \in Line
    BY <1>1, <1>2, LineJoined
  <1>4. Root \o Slash \o Cwd \o Slash \in Line
    BY <1>3, Texts, LineJoined
  <1>5. Root \o Slash \o Cwd \o Slash \o file \in Line
    BY <1>4, LineJoined
  <1>. QED BY <1>3, <1>5 DEF Below, InCwd

\* What a completion returns.
Adds(found) ==
  /\ found.matches \in Nat /\ found.append \in Line
  /\ found.matches = 0 => found.append = <<>>

\* What is completed from a list of candidates, by its number.
Offers(part, list, found) == found = <<>> \/ found = Candidates(part, list)

Picks(part, list, found) ==
  /\ found \in Seq(Line) /\ Len(found) \in Nat
  /\ Len(found) = 1 => /\ found[1] = Head(found) /\ IsPrefix(part, found[1])
                       /\ \E k \in 1..Len(list) : found[1] = list[k]
                       /\ SubSeq(found[1], Len(part) + 1, Len(found[1])) \in Line
                       /\ \A k \in 1..Len(list) : IsPrefix(part, list[k]) => list[k] = found[1]
  /\ Len(found) \notin {0, 1} =>
       /\ GetUnique(found, Len(part)) \in Line
       /\ \E k \in 1..Len(list) : IsPrefix(part, list[k])
       /\ \A k \in 1..Len(list) : IsPrefix(part, list[k]) =>
                                    IsPrefix(part \o GetUnique(found, Len(part)), list[k])

LEMMA CandidatesAdd ==
  ASSUME NEW part \in Line, NEW list \in Seq(Line), Distinct(list),
         NEW found, Offers(part, list, found)
  PROVE  Picks(part, list, found)
  <1>1. /\ Candidates(part, list) \in Seq(Line)
        /\ Distinct(Candidates(part, list))
        /\ Among(Candidates(part, list), part, list, Len(list))
        /\ Every(Candidates(part, list), part, list, Len(list))
    BY CandidatesAre
  <1>2. /\ <<>> \in Seq(Line) /\ Distinct(<<>>) /\ Among(<<>>, part, list, Len(list))
    BY DEF Distinct, Among
  <1>3. found \in Seq(Line) /\ Distinct(found) /\ Among(found, part, list, Len(list))
    BY <1>1, <1>2 DEF Offers
  <1>0. Len(found) # 0 => Every(found, part, list, Len(list))
    <2>1. found = <<>> => Len(found) = 0
      BY EmptySeq
    <2>. QED BY <1>1, <2>1 DEF Offers
  <1>4. Len(found) \in Nat /\ Len(part) \in Nat
    BY <1>3, LenProperties
  <1>5. ASSUME Len(found) = 1
        PROVE  /\ found[1] = Head(found) /\ IsPrefix(part, found[1])
               /\ \E k \in 1..Len(list) : found[1] = list[k]
               /\ SubSeq(found[1], Len(part) + 1, Len(found[1])) \in Line
               /\ \A k \in 1..Len(list) : IsPrefix(part, list[k]) => list[k] = found[1]
    <2>1. 1 \in 1..Len(found)
      BY <1>5
    <2>2. found[1] \in Line
      BY <1>3, <2>1, ElementOfSeq
    <2>3. PICK k \in 1..Len(list) : found[1] = list[k] /\ IsPrefix(part, list[k])
      BY <1>3, <2>1 DEF Among
    <2>4. Len(part) + 1 \in Nat \ {0}
      BY <1>4
    <2>5. SubSeq(found[1], Len(part) + 1, Len(found[1])) \in Line
      BY <2>2, <2>4, FromOn
    <2>6. found[1] = Head(found)
      BY <1>3
    <2>7. \A k2 \in 1..Len(list) : IsPrefix(part, list[k2]) => list[k2] = found[1]
      <3>1. \A i \in 1..Len(found) : i = 1
        BY <1>5
      <3>. QED BY <1>0, <1>5, <3>1 DEF Every
    <2>. QED BY <2>3, <2>5, <2>6, <2>7
  <1>6. ASSUME Len(found) \notin {0, 1}
        PROVE  /\ GetUnique(found, Len(part)) \in Line
               /\ \E k \in 1..Len(list) : IsPrefix(part, list[k])
               /\ \A k \in 1..Len(list) : IsPrefix(part, list[k]) =>
                                            IsPrefix(part \o GetUnique(found, Len(part)), list[k])
    <2>1. \A m \in Nat : m \notin {0, 1} => m >= 2 /\ m # 0 /\ 1 \in 1..m
      OBVIOUS
    <2>2. Len(found) >= 2 /\ Len(found) # 0 /\ 1 \in 1..Len(found)
      BY <1>4, <1>6, <2>1
    <2>3. \A i \in 1..Len(found) : IsPrefix(part, found[i])
      BY <1>3 DEF Among
    <2>4. /\ GetUnique(found, Len(part)) \in Line
          /\ \A i \in 1..Len(found) : IsPrefix(part \o GetUnique(found, Len(part)), found[i])
      BY <1>3, <2>2, <2>3, UniqueIs
    <2>5. \E k \in 1..Len(list) : IsPrefix(part, list[k])
      BY <1>3, <2>2 DEF Among
    <2>6. \A k \in 1..Len(list) : IsPrefix(part, list[k]) =>
                                    IsPrefix(part \o GetUnique(found, Len(part)), list[k])
      BY <1>0, <2>2, <2>4 DEF Every
    <2>. QED BY <2>4, <2>5, <2>6
  <1>. QED BY <1>3, <1>4, <1>5, <1>6 DEF Picks

\* A path: what was typed of the last name, and the entries of the directory.
LEMMA DirsAdd ==
  ASSUME NEW line \in Line, Contains(line, Space)
  PROVE  Adds(CompleteDirs(Cwd, line))
  <1> DEFINE typed  == Typed(LastWord(line))
             full   == Below(Cwd, typed.text)
             I      == {i \in 1..Len(full) : full[i] = "/"}
             cut    == SelectLastInSeq(full, LAMBDA c : c = "/")
             dir    == SubSeq(full, 1, cut - 1)
             part   == SubSeq(full, cut + 1, Len(full))
             path   == Realpath(IF dir = <<>> THEN Slash ELSE dir)
             where  == IF path # NoPath /\ ~InRoot(path) THEN Realpath(Root) ELSE path
             found  == IF where \in Dirs THEN Candidates(part, Listing[where]) ELSE <<>>
             only   == Head(found)
             closed == IF Realpath(dir \o Slash \o only) \in Dirs THEN Slash ELSE <<>>
             quoted == IF typed.quote THEN <<DoubleQuote>> ELSE <<>>
             rest   == SubSeq(only, Len(part) + 1, Len(only))
             shared == GetUnique(found, Len(part))
             append == CASE Len(found) = 0 -> <<>>
                         [] Len(found) = 1 -> rest \o closed \o quoted
                         [] OTHER          -> shared
  <1>1. full \in Line
    BY LastWordIn, TypedIn, BelowIn
  <1>2. cut = IF I # {} THEN Max(I) ELSE 0
    BY DEF SelectLastInSeq
  <1>3. CompleteDirs(Cwd, line) = [matches |-> Len(found), append |-> append]
    BY DEF CompleteDirs
  <1> HIDE DEF full
  <1>4. cut \in Nat
    <2>1. Len(full) \in Nat /\ I \in SUBSET (1..Len(full))
      BY <1>1, LenProperties
    <2>2. I # {} => Max(I) \in I
      BY <2>1, Indexes
    <2>. QED BY <1>2, <2>1, <2>2
  <1> HIDE DEF cut
  <1>5. part \in Line
    BY <1>1, <1>4, FromOn
  <1>6. where \in Dirs => Listing[where] \in Seq(Line) /\ Distinct(Listing[where])
    <2> HIDE DEF where
    <2>1. where \in Dirs => /\ Listing[where] \in Seq(Line)
                            /\ \A i, j \in DOMAIN Listing[where] :
                                 Listing[where][i] = Listing[where][j] => i = j
      BY LineEditorAssumption
    <2>. QED BY <2>1, LenProperties DEF Distinct
  <1> HIDE DEF part, where
  <1>7. /\ found \in Seq(Line) /\ Len(found) \in Nat
        /\ Len(found) = 1 => /\ found[1] = only
                             /\ SubSeq(found[1], Len(part) + 1, Len(found[1])) \in Line
        /\ Len(found) \notin {0, 1} => shared \in Line
    <2>1. CASE where \in Dirs
      <3> DEFINE list == Listing[where]
      <3>1. list \in Seq(Line) /\ Distinct(list) /\ part \in Line
        BY <1>5, <1>6, <2>1
      <3>2. Offers(part, list, found)
        BY <2>1 DEF Offers
      <3> HIDE DEF list, found
      <3>3. Picks(part, list, found)
        BY <3>1, <3>2, CandidatesAdd
      <3>. QED BY <3>3 DEF Picks
    <2>2. CASE where \notin Dirs
      <3>1. found = <<>>
        BY <2>2
      <3> HIDE DEF found, shared
      <3>2. found \in Seq(Line) /\ Len(found) = 0
        BY <3>1, EmptySeq
      <3>. QED BY <3>2
    <2>. QED BY <2>1, <2>2
  <1>8. Len(found) = 1 => rest \in Line
    BY <1>7
  <1>9. closed \in Line /\ quoted \in Line
    BY Texts
  <1> HIDE DEF found, closed, quoted, rest, shared
  <1>10. Len(found) = 1 => rest \o closed \o quoted \in Line
    BY <1>8, <1>9, LineJoined
  <1>11. append \in Line
    BY <1>7, <1>10, Texts
  <1>. QED BY <1>3, <1>7, <1>11 DEF Adds

\* Some command starts with the line, and all that do go on with what is added.
AllGoOn(line, more) ==
  /\ \E n \in Names : IsPrefix(line, n)
  /\ \A n \in Names : IsPrefix(line, n) => IsPrefix(line \o more, n)

\* A command: the only one that the line starts is completed, and a space added.
LEMMA CommandsAdd ==
  ASSUME NEW line \in Line
  PROVE  /\ Adds(CompleteCommands(line))
         /\ CompleteCommands(line).matches # 0 => line # <<>>
         /\ CompleteCommands(line).matches = 1 =>
              \E name \in Seq(Letters) :
                /\ IsPrefix(line, name)
                /\ CompleteCommands(line).append = SubSeq(name, Len(line) + 1, Len(name)) \o <<Space>>
                /\ \A n \in Names : IsPrefix(line, n) => n = name
         /\ CompleteCommands(line).matches \notin {0, 1} =>
              AllGoOn(line, CompleteCommands(line).append)
  <1> DEFINE names  == [i \in DOMAIN Commands |-> Commands[i].name]
             found  == IF line = <<>> THEN <<>> ELSE Candidates(line, names)
             shared == GetUnique(found, Len(line))
             append == CASE Len(found) = 0 -> <<>>
                         [] Len(found) = 1 ->
                              SubSeq(found[1], Len(line) + 1, Len(found[1])) \o <<Space>>
                         [] OTHER -> shared
  <1>1. CompleteCommands(line) = [matches |-> Len(found), append |-> append]
    BY DEF CompleteCommands
  <1>2. /\ Len(Commands) \in Nat /\ DOMAIN Commands = 1..Len(Commands)
        /\ \A i \in 1..Len(Commands) : Commands[i].name \in Seq(Letters)
        /\ \A i, j \in 1..Len(Commands) : Commands[i].name = Commands[j].name => i = j
    <2>1. Commands \in Seq([name: Seq(Letters),
                              tab: {"dirs", "instances", "clients", "commands", "none"}])
      BY LineEditorAssumption
    <2>2. Len(Commands) \in Nat /\ DOMAIN Commands = 1..Len(Commands)
      BY <2>1, LenProperties
    <2>3. \A i \in 1..Len(Commands) : Commands[i].name \in Seq(Letters)
      <3> DEFINE Rows == [name: Seq(Letters),
                          tab: {"dirs", "instances", "clients", "commands", "none"}]
      <3>1. \A row \in Rows : row.name \in Seq(Letters)
        OBVIOUS
      <3>2. Commands \in Seq(Rows)
        BY <2>1
      <3> HIDE DEF Rows
      <3>. QED BY <3>1, <3>2, ElementOfSeq
    <2>4. \A i, j \in DOMAIN Commands : Commands[i].name = Commands[j].name => i = j
      BY LineEditorAssumption
    <2>. QED BY <2>2, <2>3, <2>4
  <1>3. /\ names \in Seq(Line) /\ Len(names) = Len(Commands)
        /\ \A i \in 1..Len(names) : names[i] \in Seq(Letters)
    <2>1. names \in [1..Len(Commands) -> Line]
      BY <1>2, Texts
    <2>2. names \in Seq(Line)
      BY <1>2, <2>1, SeqDef
    <2>3. Len(names) = Len(Commands)
      BY <1>2, <2>1, <2>2, LenProperties
    <2>. QED BY <1>2, <2>2, <2>3
  <1>4. Distinct(names)
    BY <1>2, <1>3 DEF Distinct
  <1>13. Names = {names[i] : i \in 1..Len(names)}
    BY <1>2, <1>3 DEF Names
  <1> HIDE DEF names
  <1>5. /\ found \in Seq(Line) /\ Len(found) \in Nat
        /\ Len(found) = 1 => /\ IsPrefix(line, found[1])
                             /\ \E k \in 1..Len(names) : found[1] = names[k]
                             /\ SubSeq(found[1], Len(line) + 1, Len(found[1])) \in Line
                             /\ \A k \in 1..Len(names) :
                                  IsPrefix(line, names[k]) => names[k] = found[1]
        /\ Len(found) \notin {0, 1} =>
             /\ shared \in Line
             /\ \E k \in 1..Len(names) : IsPrefix(line, names[k])
             /\ \A k \in 1..Len(names) :
                  IsPrefix(line, names[k]) => IsPrefix(line \o shared, names[k])
    <2>1. Offers(line, names, found) /\ names \in Seq(Line)
      BY <1>3 DEF Offers
    <2> HIDE DEF found
    <2>2. Picks(line, names, found)
      BY <1>4, <2>1, CandidatesAdd
    <2>. QED BY <2>2 DEF Picks
  <1>14. Len(found) # 0 => line # <<>>
    <2>1. line = <<>> => found = <<>>
      OBVIOUS
    <2> HIDE DEF found
    <2>. QED BY <2>1, EmptySeq
  <1> HIDE DEF found, shared
  <1>6. Len(found) = 1 => SubSeq(found[1], Len(line) + 1, Len(found[1])) \o <<Space>> \in Line
    BY <1>5, Texts, LineJoined
  <1>7. append \in Line
    BY <1>5, <1>6, Texts
  <1>8. Len(found) = 1 => found[1] \in Seq(Letters) /\ IsPrefix(line, found[1])
    BY <1>3, <1>5
  <1>9. Adds([matches |-> Len(found), append |-> append])
    BY <1>5, <1>7 DEF Adds
  <1>10. Len(found) = 1 =>
           append = SubSeq(found[1], Len(line) + 1, Len(found[1])) \o <<Space>>
    <2> DEFINE n     == Len(found)
               added == SubSeq(found[1], Len(line) + 1, Len(found[1])) \o <<Space>>
    <2> HIDE DEF n, added
    <2>1. n = 1 => (CASE n = 0 -> <<>> [] n = 1 -> added [] OTHER -> shared) = added
      OBVIOUS
    <2>. QED BY <2>1 DEF n, added
  <1> DEFINE r == [matches |-> Len(found), append |-> append]
  <1>11. r.matches = Len(found) /\ r.append = append
    OBVIOUS
  <1> HIDE DEF append, r
  <1>15. Len(found) = 1 => \A n \in Names : IsPrefix(line, n) => n = found[1]
    BY <1>5, <1>13
  <1>16. Len(found) \notin {0, 1} => AllGoOn(line, shared)
    BY <1>5, <1>13 DEF AllGoOn
  <1>12. r.matches = 1 =>
           \E name \in Seq(Letters) :
             /\ IsPrefix(line, name)
             /\ r.append = SubSeq(name, Len(line) + 1, Len(name)) \o <<Space>>
             /\ \A n \in Names : IsPrefix(line, n) => n = name
    BY <1>8, <1>10, <1>11, <1>15
  <1>17. Len(found) \notin {0, 1} => r.append = shared
    <2> DEFINE n     == Len(found)
               added == SubSeq(found[1], Len(line) + 1, Len(found[1])) \o <<Space>>
    <2> HIDE DEF n, added
    <2>1. n \notin {0, 1} => (CASE n = 0 -> <<>> [] n = 1 -> added [] OTHER -> shared) = shared
      OBVIOUS
    <2>. QED BY <1>11, <2>1 DEF n, added, append
  <1>18. /\ r.matches # 0 => line # <<>>
         /\ r.matches \notin {0, 1} => AllGoOn(line, r.append)
    BY <1>11, <1>14, <1>16, <1>17
  <1>. QED BY <1>1, <1>9, <1>12, <1>18 DEF r

LEMMA OthersAdd ==
  Adds(CompleteInstances) /\ Adds(CompleteClients)
  <1>1. Sessions \in Line /\ Online \in Nat
    BY LineEditorAssumption, Texts
  <1>2. Len(Sessions) \in Nat /\ Sessions \o <<Space>> \in Line
    BY <1>1, Texts, LineJoined, LenProperties
  <1> DEFINE ids   == Len(Sessions)
             added == IF ids = 1 THEN Sessions \o <<Space>> ELSE <<>>
  <1>3. ids \in Nat /\ added \in Line /\ (ids = 0 => added = <<>>)
    <2>1. ids \in Nat /\ Sessions \o <<Space>> \in Line
      BY <1>2
    <2> DEFINE with == Sessions \o <<Space>>
               none == <<>>
    <2>2. none \in Line /\ with \in Line
      BY <2>1, Texts
    <2> HIDE DEF ids, with, none
    <2>3. /\ (IF ids = 1 THEN with ELSE none) \in Line
          /\ ids = 0 => (IF ids = 1 THEN with ELSE none) = none
      BY <2>1, <2>2
    <2>. QED BY <2>1, <2>3 DEF with, none
  <1>4. CompleteInstances = [matches |-> ids, append |-> added]
    BY DEF CompleteInstances
  <1> HIDE DEF ids, added
  <1>5. Adds(CompleteInstances)
    BY <1>3, <1>4 DEF Adds
  <1>6. Adds(CompleteClients)
    BY <1>1, Texts DEF Adds, CompleteClients
  <1>. QED BY <1>5, <1>6

-----------------------------------------------------------------------------
(* The end of a line, as the terminal shows it.                            *)

LEMMA Erased ==
  ASSUME NEW s \in Line, NEW n \in Nat
  PROVE  /\ Erase(s, n) \in Line
         /\ Len(Erase(s, n)) = IF n > Len(s) THEN 0 ELSE Len(s) - n
         /\ \A i \in 1..Len(Erase(s, n)) : Erase(s, n)[i] = s[i]
         /\ n >= Len(s) => Erase(s, n) = <<>>
  <1> DEFINE k == Len(s)
             m == IF n > k THEN 0 ELSE k - n
  <1>1. k \in Nat
    BY LenProperties
  <1>2. Erase(s, n) = SubSeq(s, 1, m)
    BY DEF Erase, Prefix
  <1>3. m \in Nat /\ m <= k /\ m - 1 + 1 = m /\ (1 <= m \/ m = 0)
    BY <1>1
  <1> HIDE DEF m
  <1>4. /\ SubSeq(s, 1, m) \in Line /\ Len(SubSeq(s, 1, m)) = m
        /\ \A i \in 1..m : SubSeq(s, 1, m)[i] = s[i]
    BY <1>3, PartOf
  <1>5. n >= k => m = 0
    BY <1>1 DEF m
  <1>6. m = 0 => SubSeq(s, 1, m) = <<>>
    BY <1>4, EmptySeq
  <1>. QED BY <1>2, <1>4, <1>5, <1>6 DEF m

LEMMA SuffixOf ==
  ASSUME NEW s \in Line
  PROVE  IsSuffix(s, s) /\ IsSuffix(<<>>, s)
  <1>1. Len(s) \in Nat /\ <<>> \in Line /\ Len(<<>>) = 0
    BY LenProperties
  <1>2. IsSuffix(s, s)
    BY <1>1, SuffixIs
  <1> DEFINE none == <<>>
  <1>3. none \in Line /\ Len(none) = 0
    BY <1>1
  <1> HIDE DEF none
  <1>4. Len(none) <= Len(s) /\ \A i \in 1..Len(none) : FALSE
    BY <1>1, <1>3
  <1>5. IsSuffix(none, s)
    BY <1>3, <1>4, SuffixIs
  <1>. QED BY <1>2, <1>5 DEF none

\* The terminal shows what is added to the line.
LEMMA SuffixLonger ==
  ASSUME NEW s \in Line, NEW t \in Line, NEW u \in Line, IsSuffix(s, t)
  PROVE  IsSuffix(s \o u, t \o u)
  <1> DEFINE a == s \o u
             b == t \o u
             k == Len(s)
             m == Len(t)
             n == Len(u)
  <1>1. k \in Nat /\ m \in Nat /\ n \in Nat
    BY LenProperties
  <1>2. k <= m /\ \A i \in 1..k : s[k - i + 1] = t[m - i + 1]
    BY SuffixIs
  <1>3. /\ a \in Line /\ Len(a) = k + n
        /\ \A i \in 1..(k + n) : a[i] = IF i <= k THEN s[i] ELSE u[i - k]
    BY ConcatProperties
  <1>4. /\ b \in Line /\ Len(b) = m + n
        /\ \A i \in 1..(m + n) : b[i] = IF i <= m THEN t[i] ELSE u[i - m]
    BY ConcatProperties
  <1> HIDE DEF a, b, k, m, n
  <1>5. ASSUME NEW i \in 1..(k + n)
        PROVE  a[k + n - i + 1] = b[m + n - i + 1]
    <2> DEFINE x == k + n - i + 1
               y == m + n - i + 1
    <2>1. x \in 1..(k + n) /\ y \in 1..(m + n)
      BY <1>1, <1>2
    <2>2. CASE i <= n
      <3>1. ~(x <= k) /\ ~(y <= m) /\ x - k = y - m
        BY <1>1, <2>2
      <3> HIDE DEF x, y
      <3>2. a[x] = b[y]
        BY <1>3, <1>4, <2>1, <3>1
      <3>. QED BY <3>2 DEF x, y
    <2>3. CASE i > n
      <3>1. x <= k /\ y <= m /\ i - n \in 1..k /\ x = k - (i - n) + 1 /\ y = m - (i - n) + 1
        BY <1>1, <2>3
      <3>2. s[x] = t[y]
        BY <1>2, <3>1
      <3> HIDE DEF x, y
      <3>3. a[x] = b[y]
        BY <1>3, <1>4, <2>1, <3>1, <3>2
      <3>. QED BY <3>3 DEF x, y
    <2>4. i <= n \/ i > n
      BY <1>1
    <2>. QED BY <2>2, <2>3, <2>4
  <1>6. k + n <= m + n
    BY <1>1, <1>2
  <1> DEFINE p == k + n
             q == m + n
  <1>7. Len(a) <= Len(b) /\ \A i \in 1..Len(a) : a[Len(a) - i + 1] = b[Len(b) - i + 1]
    <2>1. Len(a) = p /\ Len(b) = q /\ p <= q
      BY <1>3, <1>4, <1>6
    <2>2. ASSUME NEW i \in 1..p PROVE a[p - i + 1] = b[q - i + 1]
      BY <1>1, <1>5
    <2> HIDE DEF p, q
    <2>. QED BY <2>1, <2>2
  <1>8. IsSuffix(a, b)
    BY <1>3, <1>4, <1>7, SuffixIs
  <1>. QED BY <1>8 DEF a, b

\* The last character is taken from both.
LEMMA SuffixShorter ==
  ASSUME NEW s \in Line, NEW t \in Line, IsSuffix(s, t), NEW n \in Nat, Len(t) = n + 1
  PROVE  /\ Prefix(t, n) \in Line /\ Len(Prefix(t, n)) = n
         /\ IsSuffix(Erase(s, 1), Prefix(t, n))
  <1> DEFINE k == Len(s)
             a == Erase(s, 1)
             b == Prefix(t, n)
             j == Len(a)
  <1>1. k \in Nat
    BY LenProperties
  <1>2. k <= n + 1 /\ \A i \in 1..k : s[k - i + 1] = t[(n + 1) - i + 1]
    BY SuffixIs
  <1>3. a \in Line /\ j = (IF 1 > k THEN 0 ELSE k - 1) /\ \A i \in 1..j : a[i] = s[i]
    BY Erased
  <1>4. b \in Line /\ Len(b) = n /\ \A i \in 1..n : b[i] = t[i]
    <2>1. n <= Len(t) /\ n - 1 + 1 = n /\ (1 <= n \/ n = 0)
      OBVIOUS
    <2>. QED BY <2>1, PartOf DEF Prefix
  <1> HIDE DEF k, a, b, j
  <1>5. j \in Nat /\ j <= n
    BY <1>1, <1>2, <1>3
  <1>6. ASSUME NEW i \in 1..j
        PROVE  a[j - i + 1] = b[n - i + 1]
    <2>1. j = k - 1 /\ k >= 1
      BY <1>1, <1>3, <1>5
    <2>2. /\ j - i + 1 \in 1..j /\ n - i + 1 \in 1..n /\ i + 1 \in 1..k
          /\ k - (i + 1) + 1 = j - i + 1 /\ (n + 1) - (i + 1) + 1 = n - i + 1
      BY <1>1, <1>5, <2>1
    <2>3. s[j - i + 1] = t[n - i + 1]
      BY <1>2, <2>2
    <2>. QED BY <1>3, <1>4, <2>2, <2>3
  <1>7. IsSuffix(a, b)
    BY <1>3, <1>4, <1>5, <1>6, SuffixIs DEF j
  <1>. QED BY <1>4, <1>7 DEF a, b

\* The whole line is taken from the terminal.
LEMMA SuffixErased ==
  ASSUME NEW s \in Line, NEW t \in Line, IsSuffix(s, t)
  PROVE  Erase(s, Len(t)) = <<>>
  <1>1. Len(t) \in Nat /\ Len(s) \in Nat
    BY LenProperties
  <1>2. Len(s) <= Len(t)
    BY SuffixIs
  <1>. QED BY <1>1, <1>2, Erased

\* A command that was completed is the line's first word.
LEMMA NameTyped ==
  ASSUME NEW line \in Line, NEW name \in Seq(Letters), IsPrefix(line, name)
  PROVE  LET done == line \o (SubSeq(name, Len(line) + 1, Len(name)) \o <<Space>>)
         IN  Contains(done, Space) /\ FirstWord(done) = Front(done) /\ FirstWord(done) = name
  <1> DEFINE k    == Len(line)
             n    == Len(name)
             rest == SubSeq(name, k + 1, n)
             done == name \o <<Space>>
  <1>1. name \in Line /\ <<Space>> \in Line /\ k \in Nat /\ n \in Nat
    BY Texts, LenProperties
  <1>2. k <= n /\ SubSeq(line, 1, k) = SubSeq(name, 1, k)
    BY DEF IsPrefix
  <1>3. line = SubSeq(name, 1, k)
    BY <1>2, SubSeqFull
  <1>4. line \o rest = name
    <2>1. 1 \in 1..(n + 1) /\ k \in (1 - 1)..n /\ n \in k..n
      BY <1>1, <1>2
    <2>2. SubSeq(name, 1, k) \o SubSeq(name, k + 1, n) = SubSeq(name, 1, n)
      BY <1>1, <2>1, ConcatAdjacentSubSeq
    <2>. QED BY <1>1, <1>3, <2>2, SubSeqFull
  <1>5. rest \in Line
    BY <1>1, FromOn
  <1>6. line \o (rest \o <<Space>>) = done
    <2> DEFINE space == <<Space>>
    <2>1. space \in Line
      BY <1>1
    <2> HIDE DEF space, rest
    <2>2. Regroups(line, rest, space)
      BY <1>5, <2>1, Regrouped
    <2>3. line \o (rest \o space) = name \o space
      BY <1>4, <2>2 DEF Regroups
    <2>. QED BY <2>3 DEF space
  <1>7. /\ done \in Line /\ Len(done) = n + 1
        /\ \A i \in 1..n : done[i] = name[i]
        /\ done[n + 1] = Space
    <2>1. done \in Line /\ Len(done) = Len(name) + Len(<<Space>>)
      BY <1>1, ConcatProperties
    <2>2. \A i \in 1..(Len(name) + Len(<<Space>>)) :
            done[i] = IF i <= Len(name) THEN name[i] ELSE <<Space>>[i - Len(name)]
      BY <1>1, ConcatProperties
    <2>3. Len(<<Space>>) = 1 /\ <<Space>>[1] = Space
      OBVIOUS
    <2> DEFINE c == <<Space>>
    <2> HIDE DEF done, c, n
    <2>4. n + 1 \in 1..(n + 1) /\ ~(n + 1 <= n) /\ (n + 1) - n = 1
      BY <1>1
    <2>5. \A i \in 1..n : i \in 1..(n + 1) /\ i <= n
      BY <1>1
    <2>6. \A i \in 1..(n + 1) : done[i] = IF i <= n THEN name[i] ELSE c[i - n]
      BY <2>2, <2>3 DEF c, n
    <2>. QED BY <2>1, <2>3, <2>4, <2>5, <2>6 DEF c, n
  <1>8. \A i \in 1..n : name[i] # Space
    BY LineEditorAssumption, ElementOfSeq
  <1> DEFINE w == FirstWord(done)
             j == Len(w)
  <1> HIDE DEF done, n, w
  <1>9. n + 1 \in 1..(n + 1)
    BY <1>1
  <1>10. Contains(done, Space)
    BY <1>7, <1>9 DEF Contains
  <1>11. /\ w \in Line /\ j \in 0..(n + 1) /\ j < n + 1 /\ done[j + 1] = Space
         /\ \A i \in 1..j : w[i] = done[i]
    BY <1>7, <1>10, FirstWordIs DEF w
  <1>12. j = n
    <2>1. j + 1 \notin 1..n
      BY <1>7, <1>8, <1>11
    <2>. QED BY <1>1, <1>11, <2>1
  <1>13. w = name
    BY <1>1, <1>7, <1>11, <1>12, SeqEqual DEF n
  <1>14. Front(done) = SubSeq(done, 1, n)
    BY <1>1, <1>7 DEF Front
  <1>15. SubSeq(done, 1, n) = name
    <2>1. n <= Len(done) /\ n - 1 + 1 = n /\ (1 <= n \/ n = 0)
      BY <1>1, <1>7
    <2>2. /\ SubSeq(done, 1, n) \in Line /\ Len(SubSeq(done, 1, n)) = n
          /\ \A i \in 1..n : SubSeq(done, 1, n)[i] = done[i]
      BY <1>1, <1>7, <2>1, PartOf
    <2>. QED BY <1>1, <1>7, <2>2, SeqEqual DEF n
  <1>16. FirstWord(done) = Front(done)
    BY <1>13, <1>14, <1>15 DEF w
  <1>. QED BY <1>6, <1>10, <1>13, <1>16 DEF n, w

-----------------------------------------------------------------------------
(* The state of the loop over a packet.                                    *)

Ed ==
  [buf: Line, shown: Line, mode: {"normal", "history"}, sought: Nat, position: 0..count,
   cmd: 0..Len(Commands), replaced: BOOLEAN, stray: {"no", "arrow", "search", "tab"},
   l: Nat, skip: Nat, stop: BOOLEAN, enter: BOOLEAN]

\* The command is that of the line, if there is one.
Fits(line, id) == id # 0 => Contains(line, Space) /\ id = CommandId(FirstWord(line))

Right(ed) ==
  /\ ~ed.replaced => Fits(ed.buf, ed.cmd)
  /\ ed.stray = "tab" => ed.replaced
  /\ ed.stray = "arrow" => count > HistorySize
  /\ ed.enter => ed.stop /\ ed.cmd = 0

Shows(ed) == IsSuffix(ed.shown, ed.buf)

\* The next byte is looked at.
Live(ed) == ed \in Ed /\ Right(ed) /\ ed.stray = "no" /\ ~ed.enter /\ ~ed.stop

Keeps(ed, next) == next \in Ed /\ Right(next) /\ (Shows(ed) => Shows(next))

HistoryIn == ring \in [0..(HistorySize - 1) -> Line] /\ count \in Nat

\* Every command but none is set for the first word of the line.
LEMMA SetCmdKeeps ==
  ASSUME NEW ed, Live(ed), NEW id \in 0..Len(Commands), Fits(ed.buf, id)
  PROVE  /\ Keeps(ed, SetCmd(ed, id)) /\ Live(SetCmd(ed, id))
         /\ SetCmd(ed, id).buf = ed.buf /\ SetCmd(ed, id).shown = ed.shown
         /\ SetCmd(ed, id).l = ed.l /\ SetCmd(ed, id).cmd = id
  <1> DEFINE next == SetCmd(ed, id)
  <1>1. ed \in Ed /\ ed.stray = "no" /\ ~ed.enter /\ ~ed.stop
    BY DEF Live
  <1>2. /\ next \in Ed /\ next.buf = ed.buf /\ next.shown = ed.shown /\ next.cmd = id
        /\ next.replaced = FALSE /\ next.stray = ed.stray /\ next.enter = ed.enter
        /\ next.stop = ed.stop /\ next.l = ed.l
    BY <1>1 DEF SetCmd, Ed
  <1> HIDE DEF next
  <1>3. Right(next)
    BY <1>1, <1>2 DEF Right
  <1>4. Live(next) /\ Keeps(ed, next)
    BY <1>1, <1>2, <1>3 DEF Live, Keeps, Shows
  <1>. QED BY <1>2, <1>4 DEF next

LEMMA CacheCommandKeeps ==
  ASSUME NEW ed, Live(ed)
  PROVE  /\ Keeps(ed, CacheCommand(ed)) /\ Live(CacheCommand(ed))
         /\ CacheCommand(ed).buf = ed.buf /\ CacheCommand(ed).shown = ed.shown
         /\ CacheCommand(ed).l = ed.l
  <1>1. CASE ed.cmd = 0 /\ Contains(ed.buf, Space)
    <2> DEFINE id == CommandId(FirstWord(ed.buf))
    <2>1. id \in 0..Len(Commands)
      BY CommandIdIn
    <2>2. Fits(ed.buf, id)
      BY <1>1 DEF Fits
    <2>3. CacheCommand(ed) = SetCmd(ed, id)
      BY <1>1 DEF CacheCommand
    <2> HIDE DEF id
    <2>. QED BY <2>1, <2>2, <2>3, SetCmdKeeps
  <1>2. CASE ~(ed.cmd = 0 /\ Contains(ed.buf, Space))
    <2>1. CacheCommand(ed) = ed
      BY <1>2 DEF CacheCommand
    <2>. QED BY <2>1 DEF Keeps, Live
  <1>. QED BY <1>1, <1>2

\* What is added to the line leaves its first word.
LEMMA CompleteKeeps ==
  ASSUME NEW ed, Live(ed), NEW found, Adds(found)
  PROVE  /\ Keeps(ed, Complete(ed, found)) /\ Live(Complete(ed, found))
         /\ Complete(ed, found).buf = ed.buf \o found.append
  <1> DEFINE line  == ed.buf \o found.append
             more  == ed.shown \o found.append
             shows == CASE found.matches = 0 -> ed.shown
                        [] found.matches = 1 -> more
                        [] OTHER             -> line
             next  == Complete(ed, found)
  <1>1. /\ ed \in Ed /\ Right(ed) /\ ed.stray = "no" /\ ~ed.enter /\ ~ed.stop
        /\ ed.buf \in Line /\ ed.shown \in Line /\ found.append \in Line /\ found.matches \in Nat
    BY DEF Live, Ed, Adds
  <1>2. /\ line \in Line /\ more \in Line
        /\ Contains(ed.buf, Space) => Contains(line, Space) /\ FirstWord(line) = FirstWord(ed.buf)
    BY <1>1, LongerLine, LineJoined
  <1>3. IsSuffix(ed.shown, ed.buf) =>
          /\ IsSuffix(more, line) /\ (found.matches = 0 => IsSuffix(ed.shown, line))
    <2>1. found.matches = 0 => line = ed.buf
      BY <1>1, ConcatEmptySeq DEF Adds
    <2>. QED BY <1>1, <2>1, SuffixLonger
  <1>4. IsSuffix(line, line)
    BY <1>2, SuffixOf
  <1>5. next = [ed EXCEPT !.buf = line, !.shown = shows]
    BY DEF Complete
  <1> HIDE DEF line, more
  <1>6. shows \in Line /\ (IsSuffix(ed.shown, ed.buf) => IsSuffix(shows, line))
    BY <1>1, <1>2, <1>3, <1>4
  <1> HIDE DEF shows, next
  <1>7. /\ next \in Ed /\ next.buf = line /\ next.shown = shows /\ next.cmd = ed.cmd
        /\ next.replaced = ed.replaced /\ next.stray = ed.stray /\ next.enter = ed.enter
        /\ next.stop = ed.stop
    BY <1>1, <1>2, <1>5, <1>6 DEF Ed
  <1>8. ~ed.replaced => Fits(line, ed.cmd)
    BY <1>1, <1>2 DEF Right, Fits
  <1>9. Right(next)
    BY <1>1, <1>7, <1>8 DEF Right
  <1>10. Live(next) /\ Keeps(ed, next)
    BY <1>1, <1>6, <1>7, <1>9 DEF Live, Keeps, Shows
  <1>. QED BY <1>7, <1>10 DEF line, next

-----------------------------------------------------------------------------
(* TAB.                                                                    *)

LEMMA TabCommandsKeeps ==
  ASSUME NEW ed, Live(ed)
  PROVE  Keeps(ed, TabCommands(ed))
  <1> DEFINE found == CompleteCommands(ed.buf)
             done  == Complete(ed, found)
  <1>1. ed.buf \in Line
    BY DEF Live, Ed
  <1>2. /\ Adds(found)
        /\ found.matches = 1 =>
             \E name \in Seq(Letters) :
               /\ IsPrefix(ed.buf, name)
               /\ found.append = SubSeq(name, Len(ed.buf) + 1, Len(name)) \o <<Space>>
    BY <1>1, CommandsAdd
  <1>3. TabCommands(ed) = IF found.matches = 1 THEN SetCmd(done, CommandId(Front(done.buf))) ELSE done
    BY DEF TabCommands
  <1> HIDE DEF found
  <1>4. Keeps(ed, done) /\ Live(done) /\ done.buf = ed.buf \o found.append
    BY <1>2, CompleteKeeps
  <1> HIDE DEF done
  <1>5. CASE found.matches = 1
    <2>1. PICK name \in Seq(Letters) :
            /\ IsPrefix(ed.buf, name)
            /\ found.append = SubSeq(name, Len(ed.buf) + 1, Len(name)) \o <<Space>>
      BY <1>2, <1>5
    <2> DEFINE added == SubSeq(name, Len(ed.buf) + 1, Len(name)) \o <<Space>>
    <2>7. /\ Contains(ed.buf \o added, Space)
          /\ FirstWord(ed.buf \o added) = Front(ed.buf \o added)
      BY <1>1, <2>1, NameTyped
    <2>8. done.buf = ed.buf \o added
      BY <1>4, <2>1
    <2> HIDE DEF added
    <2>2. Contains(done.buf, Space) /\ FirstWord(done.buf) = Front(done.buf)
      BY <2>7, <2>8
    <2> DEFINE id == CommandId(Front(done.buf))
    <2>3. id \in 0..Len(Commands)
      BY CommandIdIn
    <2>4. Fits(done.buf, id)
      BY <2>2 DEF Fits
    <2>5. TabCommands(ed) = SetCmd(done, id)
      BY <1>3, <1>5
    <2> HIDE DEF id
    <2>6. Keeps(done, SetCmd(done, id))
      BY <1>4, <2>3, <2>4, SetCmdKeeps
    <2>. QED BY <1>4, <2>5, <2>6 DEF Keeps
  <1>6. CASE found.matches # 1
    BY <1>3, <1>4, <1>6
  <1>. QED BY <1>5, <1>6

\* A path is only completed for a command, and its line has a space unless it
\* was replaced.
LEMMA TabDirsKeeps ==
  ASSUME NEW ed, Live(ed), ed.cmd # 0
  PROVE  Keeps(ed, TabDirs(ed))
  <1>1. ed \in Ed /\ ed.buf \in Line /\ Right(ed) /\ ~ed.enter
    BY DEF Live, Ed
  <1>2. CASE Contains(ed.buf, Space)
    <2> DEFINE found == CompleteDirs(Cwd, ed.buf)
    <2>1. Adds(found)
      BY <1>1, <1>2, DirsAdd
    <2>2. TabDirs(ed) = Complete(ed, found)
      BY <1>2 DEF TabDirs
    <2> HIDE DEF found
    <2>. QED BY <2>1, <2>2, CompleteKeeps
  <1>3. CASE ~Contains(ed.buf, Space)
    <2> DEFINE next == [ed EXCEPT !.stray = "tab"]
    <2>1. TabDirs(ed) = next
      BY <1>3 DEF TabDirs
    <2>2. /\ next \in Ed /\ next.buf = ed.buf /\ next.shown = ed.shown /\ next.cmd = ed.cmd
          /\ next.replaced = ed.replaced /\ next.stray = "tab" /\ next.enter = ed.enter
          /\ next.stop = ed.stop
      BY <1>1 DEF Ed
    <2> HIDE DEF next
    <2>3. ed.replaced
      <3>1. ~ed.replaced => Fits(ed.buf, ed.cmd)
        BY <1>1 DEF Right
      <3>2. ~Fits(ed.buf, ed.cmd)
        BY <1>3 DEF Fits
      <3>. QED BY <3>1, <3>2
    <2>4. Right(next)
      BY <1>1, <2>2, <2>3 DEF Right
    <2>. QED BY <2>1, <2>2, <2>4 DEF Keeps, Shows
  <1>. QED BY <1>2, <1>3

LEMMA KindIs ==
  ASSUME NEW id \in 0..Len(Commands)
  PROVE  TabFunction(id) \in {"dirs", "instances", "clients", "commands", "none"}
  <1> DEFINE Rows == [name: Seq(Letters),
                      tab: {"dirs", "instances", "clients", "commands", "none"}]
  <1>1. \A row \in Rows : row.tab \in {"dirs", "instances", "clients", "commands", "none"}
    OBVIOUS
  <1>2. Commands \in Seq(Rows)
    BY LineEditorAssumption
  <1>3. Len(Commands) \in Nat
    BY <1>2, LenProperties
  <1> HIDE DEF Rows
  <1>4. id # 0 => id \in 1..Len(Commands)
    BY <1>3
  <1>5. id # 0 => Commands[id] \in Rows
    BY <1>2, <1>4, ElementOfSeq
  <1>. QED BY <1>1, <1>5 DEF TabFunction

LEMMA TabKeeps ==
  ASSUME NEW ed, Live(ed)
  PROVE  Keeps(ed, Tab(ed))
  <1> DEFINE reset  == IF ed.l = 0 THEN SetCmd(ed, 0) ELSE ed
             cached == CacheCommand(reset)
             kind   == TabFunction(cached.cmd)
  <1>1. Keeps(ed, reset) /\ Live(reset)
    <2>1. 0 \in 0..Len(Commands) /\ Fits(ed.buf, 0)
      BY LineEditorAssumption, LenProperties DEF Fits
    <2>2. Keeps(ed, SetCmd(ed, 0)) /\ Live(SetCmd(ed, 0))
      BY <2>1, SetCmdKeeps
    <2>3. Keeps(ed, ed)
      BY DEF Keeps, Live
    <2>. QED BY <2>2, <2>3
  <1>2. Tab(ed) = CASE kind = "commands"  -> TabCommands(cached)
                    [] kind = "dirs"      -> TabDirs(cached)
                    [] kind = "instances" -> Complete(cached, CompleteInstances)
                    [] kind = "clients"   -> Complete(cached, CompleteClients)
                    [] kind = "none"      -> cached
    BY DEF Tab
  <1> HIDE DEF reset
  <1>3. Keeps(reset, cached) /\ Live(cached)
    BY <1>1, CacheCommandKeeps
  <1> HIDE DEF cached
  <1>4. kind \in {"dirs", "instances", "clients", "commands", "none"}
    BY <1>3, KindIs DEF Live, Ed
  <1>5. kind = "dirs" => cached.cmd # 0
    BY DEF TabFunction
  <1> HIDE DEF kind
  <1>6. Keeps(cached, TabCommands(cached))
    BY <1>3, TabCommandsKeeps
  <1>7. cached.cmd # 0 => Keeps(cached, TabDirs(cached))
    BY <1>3, TabDirsKeeps
  <1>8. /\ Keeps(cached, Complete(cached, CompleteInstances))
        /\ Keeps(cached, Complete(cached, CompleteClients))
    BY <1>3, OthersAdd, CompleteKeeps
  <1>9. Keeps(cached, cached)
    BY <1>3 DEF Keeps
  <1>10. Keeps(cached, Tab(ed))
    BY <1>2, <1>4, <1>5, <1>6, <1>7, <1>8, <1>9
  <1>. QED BY <1>1, <1>3, <1>10 DEF Keeps

-----------------------------------------------------------------------------
(* The other keys.                                                         *)

\* The line is replaced by a text of the history, or by none.
LEMMA ReplaceKeeps ==
  ASSUME NEW ed, Live(ed), NEW line \in Line, NEW p \in 0..count
  PROVE  LET next == [Replace(ed, line) EXCEPT !.position = p]
         IN  Keeps(ed, next) /\ Live(next)
  <1> DEFINE next  == [Replace(ed, line) EXCEPT !.position = p]
             shows == Erase(ed.shown, Len(ed.buf)) \o line
             anew  == ed.cmd # 0
  <1>1. /\ ed \in Ed /\ Right(ed) /\ ed.stray = "no" /\ ~ed.enter /\ ~ed.stop
        /\ ed.buf \in Line /\ ed.shown \in Line
    BY DEF Live, Ed
  <1>2. shows \in Line
    BY <1>1, LenProperties, Erased, LineJoined
  <1>3. IsSuffix(ed.shown, ed.buf) => shows = line
    BY <1>1, SuffixErased, ConcatEmptySeq
  <1>4. next = [ed EXCEPT !.shown = shows, !.buf = line, !.replaced = anew, !.position = p]
    BY <1>1 DEF Replace, Ed
  <1>5. anew \in BOOLEAN
    OBVIOUS
  <1> HIDE DEF next, shows, anew
  <1>6. /\ next \in Ed /\ next.buf = line /\ next.shown = shows /\ next.cmd = ed.cmd
        /\ next.replaced = anew /\ next.stray = ed.stray /\ next.enter = ed.enter
        /\ next.stop = ed.stop
    BY <1>1, <1>2, <1>4, <1>5 DEF Ed
  <1>7. ~anew => Fits(line, ed.cmd)
    BY DEF anew, Fits
  <1>8. Right(next)
    BY <1>1, <1>6, <1>7 DEF Right
  <1>9. Shows(ed) => Shows(next)
    BY <1>3, <1>6, SuffixOf DEF Shows
  <1>. QED BY <1>1, <1>6, <1>8, <1>9 DEF Live, Keeps, next

\* Only a full history has positions that the array does not.
LEMMA RecallKeeps ==
  ASSUME NEW ed, Live(ed), HistoryIn, NEW p \in Nat, p < count
  PROVE  Keeps(ed, Recall(ed, p))
  <1>1. p \in 0..count /\ count \in Nat
    BY DEF HistoryIn
  <1>2. CASE p \in DOMAIN ring
    <2>1. ring[p] \in Line
      BY <1>2 DEF HistoryIn
    <2>2. Recall(ed, p) = [Replace(ed, ring[p]) EXCEPT !.position = p]
      BY <1>2 DEF Recall
    <2>. QED BY <1>1, <2>1, <2>2, ReplaceKeeps
  <1>3. CASE p \notin DOMAIN ring
    <2> DEFINE next == [ed EXCEPT !.position = p, !.stray = "arrow"]
    <2>1. Recall(ed, p) = next
      BY <1>3 DEF Recall
    <2>2. count > HistorySize
      <3>1. HistorySize \in Nat
        BY LineEditorAssumption
      <3>2. p \notin 0..(HistorySize - 1)
        BY <1>3 DEF HistoryIn
      <3>. QED BY <1>1, <3>1, <3>2
    <2>3. ed \in Ed /\ Right(ed) /\ ~ed.enter /\ ed.stray = "no"
      BY DEF Live
    <2>4. /\ next \in Ed /\ next.buf = ed.buf /\ next.shown = ed.shown /\ next.cmd = ed.cmd
          /\ next.replaced = ed.replaced /\ next.stray = "arrow" /\ next.enter = ed.enter
          /\ next.stop = ed.stop
      BY <1>1, <2>3 DEF Ed
    <2> HIDE DEF next
    <2>5. Right(next)
      BY <2>2, <2>3, <2>4 DEF Right
    <2>. QED BY <2>1, <2>4, <2>5 DEF Keeps, Shows
  <1>. QED BY <1>2, <1>3

LEMMA UpKeeps ==
  ASSUME NEW ed, Live(ed), HistoryIn
  PROVE  Keeps(ed, Up(ed))
  <1>1. ed.position \in 0..count /\ count \in Nat /\ Keeps(ed, ed)
    BY DEF Live, Ed, Keeps, HistoryIn
  <1>2. CASE ed.position > 0 /\ count > 0
    <2>1. ed.position - 1 \in Nat /\ ed.position - 1 < count
      BY <1>1, <1>2
    <2>2. Up(ed) = Recall(ed, ed.position - 1)
      BY <1>2 DEF Up
    <2>. QED BY <2>1, <2>2, RecallKeeps
  <1>3. CASE ~(ed.position > 0 /\ count > 0)
    BY <1>1, <1>3 DEF Up
  <1>. QED BY <1>2, <1>3

LEMMA DownKeeps ==
  ASSUME NEW ed, Live(ed), HistoryIn
  PROVE  Keeps(ed, Down(ed))
  <1>1. ed \in Ed /\ ed.position \in 0..count /\ count \in Nat /\ Keeps(ed, ed)
    BY DEF Live, Ed, Keeps, HistoryIn
  <1>2. CASE ed.position >= count - 1
    BY <1>1, <1>2 DEF Down
  <1>3. CASE ~(ed.position >= count - 1) /\ ed.position + 2 = count
    <2> DEFINE p == ed.position + 1
    <2>1. p \in 0..count
      BY <1>1, <1>3
    <2>2. Replace(ed, <<>>).position = ed.position
      BY <1>1 DEF Replace, Ed
    <2>3. Down(ed) = [Replace(ed, <<>>) EXCEPT !.position = p]
      BY <1>3, <2>2 DEF Down
    <2> DEFINE none == <<>>
    <2>4. none \in Line
      BY Texts
    <2> HIDE DEF p, none
    <2>5. Keeps(ed, [Replace(ed, none) EXCEPT !.position = p])
      BY <2>1, <2>4, ReplaceKeeps
    <2>. QED BY <2>3, <2>5 DEF none
  <1>4. CASE ~(ed.position >= count - 1) /\ ed.position + 2 # count
    <2>1. ed.position + 1 \in Nat /\ ed.position + 1 < count
      BY <1>1, <1>4
    <2>2. Down(ed) = Recall(ed, ed.position + 1)
      BY <1>4 DEF Down
    <2>. QED BY <2>1, <2>2, RecallKeeps
  <1>. QED BY <1>2, <1>3, <1>4

LEMMA EscapeKeeps ==
  ASSUME NEW ed, Live(ed), HistoryIn, NEW packet, NEW i
  PROVE  Keeps(ed, Escape(ed, packet, i))
  <1> DEFINE mid == CASE After(packet, i) = <<"[", "A">> -> Up(ed)
                      [] After(packet, i) = <<"[", "B">> -> Down(ed)
                      [] OTHER -> ed
             next == [mid EXCEPT !.skip = 3]
  <1>1. Keeps(ed, ed)
    BY DEF Live, Keeps
  <1>2. Keeps(ed, mid)
    BY <1>1, UpKeeps, DownKeeps
  <1>3. Escape(ed, packet, i) = IF Len(packet) <= 2 THEN ed ELSE next
    BY DEF Escape
  <1> HIDE DEF mid
  <1>4. mid \in Ed /\ Right(mid)
    BY <1>2 DEF Keeps
  <1>5. /\ next \in Ed /\ next.buf = mid.buf /\ next.shown = mid.shown /\ next.cmd = mid.cmd
        /\ next.replaced = mid.replaced /\ next.stray = mid.stray /\ next.enter = mid.enter
        /\ next.stop = mid.stop
    BY <1>4 DEF Ed
  <1> HIDE DEF next
  <1>6. Right(next)
    BY <1>4, <1>5 DEF Right
  <1>7. Keeps(ed, next)
    BY <1>2, <1>5, <1>6 DEF Keeps, Shows
  <1>. QED BY <1>1, <1>3, <1>7

\* The last character goes from the line and from the terminal, if l is still the
\* length of the line.
LEMMA BackspaceKeeps ==
  ASSUME NEW ed, Live(ed)
  PROVE  /\ Backspace(ed) \in Ed /\ Right(Backspace(ed))
         /\ Shows(ed) /\ ed.l = Len(ed.buf) =>
              Shows(Backspace(ed)) /\ Backspace(ed).l = Len(Backspace(ed).buf)
  <1> DEFINE n     == ed.l - 1
             line  == IF Len(ed.buf) > n THEN Prefix(ed.buf, n) ELSE ed.buf
             shows == Erase(ed.shown, 1)
             cut   == Cut(ed)
  <1>1. /\ ed \in Ed /\ Right(ed) /\ ed.stray = "no" /\ ~ed.enter /\ ~ed.stop
        /\ ed.buf \in Line /\ ed.shown \in Line /\ ed.l \in Nat
    BY DEF Live, Ed
  <1>2. CASE ed.l = 0
    BY <1>1, <1>2 DEF Backspace
  <1>3. CASE ed.l # 0
    <2>1. n \in Nat
      BY <1>1, <1>3
    <2>2. line \in Line
      <3> HIDE DEF n
      <3>1. Len(ed.buf) \in Nat
        BY <1>1, LenProperties
      <3>2. Len(ed.buf) > n => Prefix(ed.buf, n) \in Line
        BY <1>1, <2>1, <3>1, PartOf DEF Prefix
      <3>. QED BY <1>1, <3>2
    <2>3. shows \in Line
      BY <1>1, Erased
    <2>4. ASSUME Shows(ed), ed.l = Len(ed.buf)
          PROVE  IsSuffix(shows, line) /\ n = Len(line)
      <3>1. Len(ed.buf) = n + 1 /\ Len(ed.buf) > n
        BY <1>1, <2>4
      <3> HIDE DEF n
      <3>2. line = Prefix(ed.buf, n)
        BY <3>1
      <3>. QED BY <1>1, <2>1, <2>4, <3>1, <3>2, SuffixShorter DEF Shows
    <2>5. cut = [ed EXCEPT !.l = n, !.shown = shows, !.buf = line]
      BY DEF Cut
    <2>6. Backspace(ed) = SetCmd(cut, 0)
      BY <1>3 DEF Backspace
    <2>7. 0 \in 0..Len(Commands)
      BY LineEditorAssumption, LenProperties
    <2> DEFINE next == SetCmd(cut, 0)
    <2> HIDE DEF n, line, shows, cut
    <2>8. /\ cut \in Ed /\ cut.l = n /\ cut.buf = line /\ cut.shown = shows
          /\ cut.stray = "no" /\ ~cut.enter /\ ~cut.stop
      BY <1>1, <2>1, <2>2, <2>3, <2>5 DEF Ed
    <2>9. /\ next \in Ed /\ next.l = n /\ next.buf = line /\ next.shown = shows
          /\ next.cmd = 0 /\ next.stray = "no" /\ ~next.enter
      BY <2>7, <2>8 DEF SetCmd, Ed
    <2> HIDE DEF next
    <2>10. Right(next)
      BY <2>9 DEF Right, Fits
    <2>. QED BY <2>4, <2>6, <2>9, <2>10 DEF Shows, next
  <1>. QED BY <1>2, <1>3

LEMMA EchoKeeps ==
  ASSUME NEW ed, Live(ed), NEW b \in Chars
  PROVE  Keeps(ed, Echo(ed, b)) /\ Live(Echo(ed, b))
  <1> DEFINE found == [matches |-> 1, append |-> <<b>>]
  <1>1. /\ ed \in Ed /\ ed.buf \in Line /\ ed.shown \in Line /\ <<b>> \in Line
    BY DEF Live, Ed
  <1>2. Append(ed.buf, b) = ed.buf \o <<b>> /\ Append(ed.shown, b) = ed.shown \o <<b>>
    BY <1>1, AppendIsConcat
  <1>3. Echo(ed, b) = Complete(ed, found)
    BY <1>2 DEF Echo, Complete
  <1>4. Adds(found)
    BY <1>1 DEF Adds
  <1> HIDE DEF found
  <1>. QED BY <1>3, <1>4, CompleteKeeps

-----------------------------------------------------------------------------
(* One byte.                                                               *)

\* What a byte b keeps: the terminal shows the end of the line, and DEL needs, and
\* keeps, an l that is the length of the line.
Handles(ed, b, next) ==
  /\ next \in Ed /\ Right(next)
  /\ b # "DEL" => (Shows(ed) => Shows(next))
  /\ b = "DEL" /\ Shows(ed) /\ ed.l = Len(ed.buf) => Shows(next) /\ next.l = Len(next.buf)

LEMMA InterruptKeeps ==
  ASSUME NEW ed, Live(ed), HistoryIn
  PROVE  Keeps(ed, Interrupt(ed))
  <1> DEFINE none == <<>>
             mid  == [ed EXCEPT !.buf = none, !.shown = none, !.l = 0, !.position = count]
             next == SetCmd(mid, 0)
  <1>1. ed \in Ed /\ ed.stray = "no" /\ ~ed.enter /\ ~ed.stop /\ count \in 0..count
    BY DEF Live, HistoryIn
  <1>2. none \in Line /\ IsSuffix(none, none)
    BY Texts, SuffixOf
  <1>3. 0 \in 0..Len(Commands)
    BY LineEditorAssumption, LenProperties
  <1>4. Interrupt(ed) = next
    BY DEF Interrupt
  <1> HIDE DEF none
  <1>5. /\ next \in Ed /\ next.buf = none /\ next.shown = none /\ next.cmd = 0
        /\ next.stray = "no" /\ ~next.enter
    BY <1>1, <1>2, <1>3 DEF SetCmd, Ed
  <1> HIDE DEF next
  <1>6. Right(next) /\ Shows(next)
    BY <1>2, <1>5 DEF Right, Fits, Shows
  <1>. QED BY <1>4, <1>5, <1>6 DEF Keeps

\* The keys that change no text: a return, telnet's bytes, the search, "?".
LEMMA ModesKeep ==
  ASSUME NEW ed, Live(ed)
  PROVE  /\ Keeps(ed, [ed EXCEPT !.stop = TRUE])
         /\ Keeps(ed, SetCmd([ed EXCEPT !.stop = TRUE, !.enter = TRUE], 0))
         /\ Keeps(ed, [ed EXCEPT !.mode = "history", !.sought = 0])
         /\ Keeps(ed, [ed EXCEPT !.shown = ed.buf])
  <1> DEFINE stopped == [ed EXCEPT !.stop = TRUE]
             entered == SetCmd([ed EXCEPT !.stop = TRUE, !.enter = TRUE], 0)
             search  == [ed EXCEPT !.mode = "history", !.sought = 0]
             again   == [ed EXCEPT !.shown = ed.buf]
  <1>1. /\ ed \in Ed /\ Right(ed) /\ ed.stray = "no" /\ ~ed.enter /\ ~ed.stop
        /\ ed.buf \in Line
    BY DEF Live, Ed
  <1>2. Keeps(ed, stopped)
    <2>1. /\ stopped \in Ed /\ stopped.buf = ed.buf /\ stopped.shown = ed.shown
          /\ stopped.cmd = ed.cmd /\ stopped.replaced = ed.replaced /\ stopped.stray = ed.stray
          /\ stopped.enter = ed.enter
      BY <1>1 DEF Ed
    <2> HIDE DEF stopped
    <2>. QED BY <1>1, <2>1 DEF Keeps, Right, Shows
  <1>3. Keeps(ed, entered)
    <2>1. 0 \in 0..Len(Commands)
      BY LineEditorAssumption, LenProperties
    <2>2. /\ entered \in Ed /\ entered.buf = ed.buf /\ entered.shown = ed.shown
          /\ entered.cmd = 0 /\ entered.stray = "no" /\ entered.stop = TRUE
      BY <1>1, <2>1 DEF SetCmd, Ed
    <2> HIDE DEF entered
    <2>. QED BY <1>1, <2>2 DEF Keeps, Right, Fits, Shows
  <1>4. Keeps(ed, search)
    <2>1. /\ search \in Ed /\ search.buf = ed.buf /\ search.shown = ed.shown
          /\ search.cmd = ed.cmd /\ search.replaced = ed.replaced /\ search.stray = ed.stray
          /\ search.enter = ed.enter
      BY <1>1 DEF Ed
    <2> HIDE DEF search
    <2>. QED BY <1>1, <2>1 DEF Keeps, Right, Shows
  <1>5. Keeps(ed, again)
    <2>1. /\ again \in Ed /\ again.buf = ed.buf /\ again.shown = ed.buf
          /\ again.cmd = ed.cmd /\ again.replaced = ed.replaced /\ again.stray = ed.stray
          /\ again.enter = ed.enter
      BY <1>1 DEF Ed
    <2> HIDE DEF again
    <2>. QED BY <1>1, <2>1, SuffixOf DEF Keeps, Right, Shows
  <1>. QED BY <1>2, <1>3, <1>4, <1>5

LEMMA KeyKeeps ==
  ASSUME NEW ed, Live(ed), HistoryIn, NEW packet \in Packets, NEW i \in 1..Len(packet)
  PROVE  Handles(ed, packet[i], Key(ed, packet, i))
  <1> DEFINE b       == packet[i]
             telnet  == b = "IAC" /\ i < Len(packet) /\ packet[i + 1] \in Telnet
             stopped == [ed EXCEPT !.stop = TRUE]
             entered == SetCmd([ed EXCEPT !.stop = TRUE, !.enter = TRUE], 0)
             spaced  == CacheCommand(Echo(ed, b))
             search  == [ed EXCEPT !.mode = "history", !.sought = 0]
             again   == [ed EXCEPT !.shown = ed.buf]
             echoed  == Echo(ed, b)
  <1>1. Key(ed, packet, i) = CASE telnet    -> stopped
                               [] b = "\r"  -> entered
                               [] b = Space -> spaced
                               [] b = "^C"  -> Interrupt(ed)
                               [] b = "DEL" -> Backspace(ed)
                               [] b = "ESC" -> Escape(ed, packet, i)
                               [] b = "^R"  -> search
                               [] b = "?"   -> again
                               [] b = "\t"  -> Tab(ed)
                               [] OTHER     -> echoed
    BY DEF Key
  <1>2. Space # "DEL"
    BY Zenon DEF Space
  <1>3. Space \in Chars
    BY Zenon DEF Chars
  <1>4. b \in Chars \cup {"?", "\r", "\t", "^C", "DEL", "ESC", "^R"}
    <2>1. packet \in Seq(Bytes)
      BY LineEditorAssumption
    <2>2. b \in Bytes
      BY <2>1, ElementOfSeq
    <2>. QED BY <2>2 DEF Bytes
  <1>5. /\ Keeps(ed, stopped) /\ Keeps(ed, entered) /\ Keeps(ed, search) /\ Keeps(ed, again)
    BY ModesKeep
  <1>6. b \in Chars => Keeps(ed, echoed) /\ Keeps(ed, spaced)
    <2> HIDE DEF b
    <2>1. b \in Chars => Keeps(ed, echoed) /\ Live(echoed)
      BY EchoKeeps
    <2> HIDE DEF echoed
    <2>2. Live(echoed) => Keeps(echoed, CacheCommand(echoed))
      BY CacheCommandKeeps
    <2>. QED BY <2>1, <2>2 DEF Keeps, echoed
  <1>7. Keeps(ed, Interrupt(ed)) /\ Keeps(ed, Escape(ed, packet, i)) /\ Keeps(ed, Tab(ed))
    BY InterruptKeeps, EscapeKeeps, TabKeeps
  <1>8. Handles(ed, "DEL", Backspace(ed))
    BY BackspaceKeeps DEF Handles
  <1>9. \A next : Keeps(ed, next) /\ b # "DEL" => Handles(ed, b, next)
    BY DEF Keeps, Handles
  <1> HIDE DEF b, stopped, entered, spaced, search, again, echoed
  <1>10. telnet => Handles(ed, b, stopped)
    BY <1>5, <1>9
  <1>11. b = "\r" => Handles(ed, b, entered)
    BY <1>5, <1>9
  <1>12. b = Space => Handles(ed, b, spaced)
    BY <1>2, <1>3, <1>6, <1>9
  <1>13. /\ b = "^C" => Handles(ed, b, Interrupt(ed))
         /\ b = "ESC" => Handles(ed, b, Escape(ed, packet, i))
         /\ b = "\t" => Handles(ed, b, Tab(ed))
    BY <1>7, <1>9
  <1>14. /\ b = "^R" => Handles(ed, b, search)
         /\ b = "?" => Handles(ed, b, again)
    BY <1>5, <1>9
  <1>15. b \notin {"?", "\r", "\t", "^C", "DEL", "ESC", "^R"} => Handles(ed, b, echoed)
    BY <1>4, <1>6, <1>9
  <1>16. b = "DEL" => Handles(ed, b, Backspace(ed))
    BY <1>8
  <1> HIDE DEF telnet
  <1>17. Handles(ed, b, Key(ed, packet, i))
    BY <1>1, <1>10, <1>11, <1>12, <1>13, <1>14, <1>15, <1>16
  <1>. QED BY <1>17 DEF b

LEMMA ByteKeeps ==
  ASSUME NEW ed \in Ed, Right(ed), HistoryIn, NEW packet \in Packets, NEW i \in 1..Len(packet)
  PROVE  Handles(ed, packet[i], Byte(ed, packet, i))
  <1>1. CASE ed.stop \/ ed.stray # "no"
    BY <1>1 DEF Byte, Handles
  <1>2. CASE ~(ed.stop \/ ed.stray # "no") /\ ed.skip > 0
    <2> DEFINE k    == ed.skip - 1
               next == [ed EXCEPT !.skip = k]
    <2>1. Byte(ed, packet, i) = next
      BY <1>2 DEF Byte
    <2>4. k \in Nat
      BY <1>2 DEF Ed
    <2> HIDE DEF k
    <2>2. /\ next \in Ed /\ next.buf = ed.buf /\ next.shown = ed.shown /\ next.cmd = ed.cmd
          /\ next.replaced = ed.replaced /\ next.stray = ed.stray /\ next.enter = ed.enter
          /\ next.stop = ed.stop /\ next.l = ed.l
      BY <2>4 DEF Ed
    <2> HIDE DEF next
    <2>3. Right(next)
      BY <2>2 DEF Right
    <2>. QED BY <2>1, <2>2, <2>3 DEF Handles, Shows
  <1>3. CASE ~(ed.stop \/ ed.stray # "no") /\ ~(ed.skip > 0)
    <2>1. Byte(ed, packet, i) = Key(ed, packet, i)
      BY <1>3 DEF Byte
    <2>2. ed.enter => ed.stop
      BY DEF Right
    <2>3. Live(ed)
      BY <1>3, <2>2 DEF Live
    <2>. QED BY <2>1, <2>3, KeyKeeps
  <1>. QED BY <1>1, <1>2, <1>3

-----------------------------------------------------------------------------
(* A packet.                                                               *)

\* Pasted text holds no control keys: a DEL comes alone, or after others.
Plain(packet) ==
  \A i \in 1..Len(packet) : packet[i] = "DEL" => \A j \in 1..i : packet[j] = "DEL"

LEMMA EditedIs ==
  ASSUME HistoryIn, Started \in Ed, Right(Started), NEW packet \in Packets
  PROVE  /\ Edited(packet) \in Ed /\ Right(Edited(packet))
         /\ Plain(packet) /\ Shows(Started) => Shows(Edited(packet))
  <1> DEFINE n    == Len(packet)
             Goods == {ed \in Ed : Right(ed)}
             step == [i \in 1..n |-> [ed \in Goods |-> Byte(ed, packet, i)]]
             Body(f) == [i \in 0..n |-> IF i = 0 THEN Started ELSE Byte(f[i - 1], packet, i)]
             edit == CHOOSE f : f = Body(f)
  <1>1. n \in Nat
    BY LineEditorAssumption, LenProperties
  <1>2. ASSUME NEW i \in 1..n, NEW ed \in Goods
        PROVE  Handles(ed, packet[i], Byte(ed, packet, i))
    BY ByteKeeps
  <1>3. Edited(packet) = edit[n]
    BY DEF Edited
  <1>4. \A i \in 1..n, ed \in Goods : Byte(ed, packet, i) \in Goods
    BY <1>2 DEF Handles
  <1>5. Started \in Goods
    OBVIOUS
  <1> HIDE DEF n, Goods
  <1>6. step \in Steps(n, Goods)
    BY <1>4 DEF Steps
  <1>7. PICK f \in [0..n -> Goods] : f[0] = Started /\ \A i \in 1..n : f[i] = step[i][f[i - 1]]
    <2> HIDE DEF step
    <2>1. \E f : Iterates(f, n, Goods, Started, step)
      BY <1>1, <1>5, <1>6, Iteration
    <2>. QED BY <2>1 DEF Iterates
  <1>8. f = Body(f)
    <2>1. ASSUME NEW i \in 0..n
          PROVE  f[i] = IF i = 0 THEN Started ELSE Byte(f[i - 1], packet, i)
      <3>1. CASE i = 0
        BY <1>7, <3>1
      <3>2. CASE i # 0
        <4>1. i \in 1..n /\ i - 1 \in 0..n
          BY <1>1, <3>2
        <4>2. f[i - 1] \in Goods
          BY <4>1
        <4>. QED BY <1>7, <3>2, <4>1, <4>2
      <3>. QED BY <3>1, <3>2
    <2>. QED BY <2>1
  <1>9. edit = Body(edit)
    <2> HIDE DEF Body
    <2>. QED BY <1>8
  <1> HIDE DEF edit
  <1>10. \A i \in 0..n : edit[i] = IF i = 0 THEN Started ELSE Byte(edit[i - 1], packet, i)
    BY <1>9
  <1> DEFINE Shown(k) ==
               Plain(packet) /\ Shows(Started) =>
                 /\ Shows(edit[k])
                 /\ (\A j \in 1..k : packet[j] = "DEL") => edit[k].l = Len(edit[k].buf)
             Good(k) == edit[k] \in Goods /\ Shown(k)
             K == {k \in Nat : k <= n => Good(k)}
  <1>11. 0 \in K
    <2>1. 0 \in 0..n
      BY <1>1
    <2>2. edit[0] = Started
      BY <1>10, <2>1
    <2>3. Started.l = Len(Started.buf)
      BY DEF Started
    <2>. QED BY <1>5, <2>2, <2>3
  <1>12. ASSUME NEW k \in K PROVE k + 1 \in K
    <2> HIDE DEF Shown
    <2>1. k \in Nat
      OBVIOUS
    <2> SUFFICES ASSUME k + 1 <= n PROVE Good(k + 1)
      BY <2>1
    <2> DEFINE m == k + 1
               b == packet[m]
    <2>2. m \in 1..n /\ m \in 0..n /\ m # 0 /\ m - 1 = k
      BY <1>1, <2>1
    <2>3. edit[k] \in Goods /\ Shown(k)
      BY <1>1, <2>1
    <2>4. \A j \in 1..k : j \in 1..m
      BY <2>1
    <2>5. m \in 1..m
      BY <2>1
    <2> HIDE DEF m
    <2>6. edit[m] = Byte(edit[k], packet, m)
      BY <1>10, <2>2
    <2>7. Handles(edit[k], b, edit[m])
      BY <1>2, <2>2, <2>3, <2>6
    <2>8. edit[m] \in Goods
      BY <2>7 DEF Handles, Goods
    <2>9. Shown(m)
      <3> SUFFICES ASSUME Plain(packet), Shows(Started)
                   PROVE  /\ Shows(edit[m])
                          /\ (\A j \in 1..m : packet[j] = "DEL") => edit[m].l = Len(edit[m].buf)
        BY DEF Shown
      <3>1. /\ Shows(edit[k])
            /\ (\A j \in 1..k : packet[j] = "DEL") => edit[k].l = Len(edit[k].buf)
        BY <2>3 DEF Shown
      <3>2. CASE b = "DEL"
        <4>1. \A j \in 1..m : packet[j] = "DEL"
          BY <2>2, <3>2 DEF Plain, n
        <4>2. edit[k].l = Len(edit[k].buf)
          BY <2>4, <3>1, <4>1
        <4>. QED BY <2>7, <3>1, <3>2, <4>2 DEF Handles
      <3>3. CASE b # "DEL"
        BY <2>5, <2>7, <3>1, <3>3 DEF Handles
      <3>. QED BY <3>2, <3>3
    <2>. QED BY <2>8, <2>9 DEF m
  <1>13. K \in SUBSET Nat
    OBVIOUS
  <1> HIDE DEF K, Good
  <1>14. n \in K
    BY <1>1, <1>11, <1>12, <1>13, SetInduction
  <1>15. Good(n)
    BY <1>1, <1>14 DEF K
  <1>. QED BY <1>3, <1>15 DEF Good, Goods

-----------------------------------------------------------------------------
(* The specification.                                                      *)

\* The invariant: types, and what the two properties say of every state.
IInv == TypeOK /\ CachedCommandFits /\ ArrowsStayInside

\* What a packet starts from, and what it leaves.
LEMMA StartedIs ==
  ASSUME IInv, stray = "no"
  PROVE  /\ HistoryIn /\ Started \in Ed /\ Right(Started)
         /\ IsSuffix(shown, buf) => Shows(Started)
  <1>1. TypeOK /\ HistorySize \in Nat \ {0}
    BY LineEditorAssumption DEF IInv
  <1>2. Len(buf) \in Nat
    BY <1>1, LenProperties DEF TypeOK
  <1>3. HistoryIn
    BY <1>1, LineEditorAssumption DEF TypeOK, HistoryIn
  <1>4. Started \in Ed
    BY <1>1, <1>2 DEF TypeOK, Started, Ed
  <1>5. /\ Started.buf = buf /\ Started.shown = shown /\ Started.cmd = cmd
        /\ Started.replaced = replaced /\ Started.stray = stray /\ Started.enter = FALSE
    BY DEF Started
  <1>6. Right(Started)
    BY <1>5 DEF Right, Fits, IInv, CachedCommandFits
  <1>. QED BY <1>3, <1>4, <1>5, <1>6 DEF Shows

\* A command that is completed is a line.
LEMMA CompletedIn ==
  ASSUME NEW line \in Line, NEW name \in Names, Matching(line) = {name}
  PROVE  Completed(line) \in Line
  <1>1. \A c \in Names : c \in Line
    <2> SUFFICES ASSUME NEW k \in DOMAIN Commands PROVE Commands[k].name \in Line
      BY DEF Names
    <2> DEFINE Rows == [name: Seq(Letters),
                        tab: {"dirs", "instances", "clients", "commands", "none"}]
    <2>1. \A row \in Rows : row.name \in Seq(Letters)
      OBVIOUS
    <2>2. Commands \in Seq(Rows)
      BY LineEditorAssumption
    <2> HIDE DEF Rows
    <2>3. Commands[k] \in Rows
      BY <2>2, LenProperties, ElementOfSeq
    <2>. QED BY <2>1, <2>3, Texts
  <1> DEFINE first == CHOOSE n \in Matching(line) : TRUE
             k     == Len(FirstWord(line)) + 1
  <1>2. first \in Line
    BY <1>1
  <1>3. k \in Nat \ {0}
    BY FirstWordIs, LenProperties
  <1>4. Completed(line) = first \o SubSeq(line, k, Len(line))
    BY DEF Completed
  <1> HIDE DEF first, k
  <1>. QED BY <1>2, <1>3, <1>4, FromOn, LineJoined

LEMMA Remainder ==
  ASSUME NEW a \in Nat, NEW n \in Nat \ {0}
  PROVE  a % n \in 0..a
  OBVIOUS

LEMMA EnterTypes ==
  ASSUME TypeOK, NEW ed \in Ed, Enter(ed)
  PROVE  /\ buf' \in Line /\ shown' \in Line
         /\ ring' \in [0..(HistorySize - 1) -> Line]
         /\ count' \in 0..MaxCount /\ position' \in 0..count'
         /\ IsSuffix(shown', buf')
  <1>1. ed.buf \in Line /\ ed.position \in 0..count /\ count \in Nat
    BY LineEditorAssumption DEF Ed, TypeOK
  <1>2. buf' \in Line /\ shown' = <<>>
    BY <1>1, Texts DEF Enter
  <1>3. shown' \in Line /\ IsSuffix(shown', buf')
    BY <1>2, Texts, SuffixOf
  <1>4. CASE \E n \in Names : Matching(ed.buf) = {n}
    <2>1. Completed(ed.buf) \in Line
      BY <1>1, <1>4, CompletedIn
    <2>2. count < MaxCount /\ AddHistory(Completed(ed.buf))
      BY <1>4 DEF Enter
    <2>3. ring' \in [0..(HistorySize - 1) -> Line]
      BY <2>1, <2>2 DEF AddHistory, TypeOK
    <2>4. count % HistorySize \in 0..count
      BY <1>1, LineEditorAssumption, Remainder
    <2>5. position' \in 0..count
      BY <2>2, <2>4 DEF AddHistory
    <2>6. count' = count + 1
      BY <2>2 DEF AddHistory
    <2>7. MaxCount \in Nat
      BY LineEditorAssumption
    <2>8. count' \in 0..MaxCount /\ position' \in 0..count'
      BY <1>1, <2>2, <2>5, <2>6, <2>7
    <2>. QED BY <1>2, <1>3, <2>3, <2>8
  <1>5. CASE ~\E n \in Names : Matching(ed.buf) = {n}
    BY <1>1, <1>2, <1>3, <1>5 DEF Enter, TypeOK
  <1>. QED BY <1>4, <1>5

LEMMA TypeStep ==
  ASSUME IInv, NEW packet \in Packets, Type(packet)
  PROVE  IInv' /\ (Plain(packet) /\ IsSuffix(shown, buf) => IsSuffix(shown', buf'))
  <1>1. TypeOK /\ stray = "no"
    BY DEF Type, IInv
  <1> DEFINE ed == Edited(packet)
  <1>2. /\ IF ed.enter /\ ed.stray = "no" THEN Enter(ed) ELSE Keep(ed)
        /\ mode' = ed.mode /\ sought' = ed.sought /\ stray' = ed.stray
        /\ cmd' = ed.cmd /\ replaced' = ed.replaced
    BY DEF Type
  <1>3. /\ ed \in Ed /\ Right(ed)
        /\ Plain(packet) /\ IsSuffix(shown, buf) => Shows(ed)
    BY <1>1, StartedIs, EditedIs
  <1> HIDE DEF ed
  <1>4. /\ mode' \in {"normal", "history"} /\ sought' \in Nat /\ cmd' \in 0..Len(Commands)
        /\ replaced' \in BOOLEAN /\ stray' \in {"no", "arrow", "search", "tab"}
    BY <1>2, <1>3 DEF Ed
  <1>5. stray' = "tab" => replaced'
    BY <1>2, <1>3 DEF Right
  <1>6. CASE ed.enter /\ ed.stray = "no"
    <2>1. Enter(ed)
      BY <1>2, <1>6
    <2>2. /\ buf' \in Line /\ shown' \in Line
          /\ ring' \in [0..(HistorySize - 1) -> Line]
          /\ count' \in 0..MaxCount /\ position' \in 0..count'
          /\ IsSuffix(shown', buf')
      BY <1>1, <1>3, <2>1, EnterTypes
    <2>3. TypeOK'
      BY <1>4, <2>2 DEF TypeOK
    <2>4. cmd' = 0 /\ stray' = "no"
      BY <1>2, <1>3, <1>6 DEF Right
    <2>5. CachedCommandFits' /\ ArrowsStayInside'
      BY <1>5, <2>4 DEF CachedCommandFits, ArrowsStayInside
    <2>. QED BY <2>2, <2>3, <2>5 DEF IInv
  <1>7. CASE ~(ed.enter /\ ed.stray = "no")
    <2>1. Keep(ed)
      BY <1>2, <1>7
    <2>2. /\ buf' = ed.buf /\ shown' = ed.shown /\ position' = ed.position
          /\ ring' = ring /\ count' = count
      BY <2>1 DEF Keep
    <2>3. TypeOK'
      BY <1>1, <1>3, <1>4, <2>2 DEF TypeOK, Ed
    <2>4. cmd' # 0 /\ ~replaced' =>
            Contains(buf', Space) /\ cmd' = CommandId(FirstWord(buf'))
      BY <1>2, <1>3, <2>2 DEF Right, Fits
    <2>5. CachedCommandFits'
      BY <1>5, <2>4 DEF CachedCommandFits
    <2>6. ArrowsStayInside'
      BY <1>2, <1>3, <2>2 DEF Right, ArrowsStayInside
    <2>7. Shows(ed) => IsSuffix(shown', buf')
      BY <2>2 DEF Shows
    <2>. QED BY <1>3, <2>3, <2>5, <2>6, <2>7 DEF IInv
  <1>. QED BY <1>6, <1>7

LEMMA NoRoomStep ==
  ASSUME IInv, NEW packet, NoRoom(packet)
  PROVE  IInv' /\ IsSuffix(shown', buf')
  <1>1. /\ buf' = <<>> /\ shown' = <<>> /\ replaced' = (cmd # 0) /\ stray = "no"
        /\ UNCHANGED <<mode, sought, ring, count, position, cmd, stray>>
    BY DEF NoRoom
  <1>2. buf' \in Line /\ shown' \in Line /\ replaced' \in BOOLEAN
    BY <1>1, Texts
  <1>3. TypeOK'
    BY <1>1, <1>2 DEF IInv, TypeOK
  <1>4. CachedCommandFits' /\ ArrowsStayInside'
    BY <1>1 DEF CachedCommandFits, ArrowsStayInside
  <1>5. IsSuffix(shown', buf')
    BY <1>1, <1>2, SuffixOf
  <1>. QED BY <1>3, <1>4, <1>5 DEF IInv

LEMMA SearchDigitStep ==
  ASSUME IInv, NEW d \in Digits, SearchDigit(d)
  PROVE  IInv' /\ (IsSuffix(shown, buf) => IsSuffix(shown', buf'))
  <1>1. /\ sought' = IF 10 * sought + d > HistorySize THEN HistorySize + 1 ELSE 10 * sought + d
        /\ UNCHANGED <<buf, shown, mode, ring, count, position, cmd, replaced, stray>>
    BY DEF SearchDigit
  <1>2. sought \in Nat /\ d \in Nat /\ HistorySize \in Nat
    BY LineEditorAssumption DEF IInv, TypeOK
  <1>3. sought' \in Nat
    BY <1>1, <1>2
  <1>4. TypeOK'
    BY <1>1, <1>3 DEF IInv, TypeOK
  <1>5. CachedCommandFits' /\ ArrowsStayInside'
    BY <1>1 DEF IInv, CachedCommandFits, ArrowsStayInside
  <1>. QED BY <1>1, <1>4, <1>5 DEF IInv

LEMMA SearchEndStep ==
  ASSUME IInv, SearchEnd
  PROVE  IInv' /\ (IsSuffix(shown, buf) => IsSuffix(shown', buf'))
  <1>1. /\ stray = "no" /\ mode' = "normal"
        /\ UNCHANGED <<sought, ring, count, position, cmd, replaced>>
        /\ \/ sought \in DOMAIN ring /\ shown' = ring[sought] /\ buf' = buf \o ring[sought]
              /\ stray' = stray
           \/ stray' = "search" /\ buf' = buf /\ shown' = shown
           \/ shown' = <<>> /\ buf' = buf /\ stray' = stray
    BY DEF SearchEnd
  <1>2. TypeOK /\ buf \in Line /\ shown \in Line /\ ring \in [0..(HistorySize - 1) -> Line]
    BY DEF IInv, TypeOK
  <1>3. stray' \in {"no", "search"}
    BY <1>1
  <1>4. /\ buf' \in Line /\ shown' \in Line
        /\ IsSuffix(shown, buf) => IsSuffix(shown', buf')
        /\ Contains(buf, Space) => Contains(buf', Space) /\ FirstWord(buf') = FirstWord(buf)
    <2>1. CASE /\ sought \in DOMAIN ring /\ shown' = ring[sought] /\ buf' = buf \o ring[sought]
      <3> DEFINE line == ring[sought]
      <3>1. line \in Line /\ <<>> \in Line /\ IsSuffix(<<>>, buf)
        BY <1>2, <2>1, Texts, SuffixOf
      <3> HIDE DEF line
      <3>2. <<>> \o line = line
        BY <3>1, ConcatEmptySeq
      <3>3. IsSuffix(<<>> \o line, buf \o line)
        BY <1>2, <3>1, SuffixLonger
      <3>4. IsSuffix(line, buf \o line)
        BY <3>2, <3>3
      <3>5. shown' = line /\ buf' = buf \o line
        BY <2>1 DEF line
      <3>. QED BY <1>2, <3>1, <3>4, <3>5, LongerLine
    <2>2. CASE buf' = buf /\ shown' = shown
      BY <1>2, <2>2
    <2>3. CASE shown' = <<>> /\ buf' = buf
      BY <1>2, <2>3, Texts, SuffixOf
    <2>. QED BY <1>1, <2>1, <2>2, <2>3
  <1>5. TypeOK'
    BY <1>1, <1>2, <1>3, <1>4 DEF TypeOK
  <1>6. CachedCommandFits'
    BY <1>1, <1>3, <1>4 DEF IInv, CachedCommandFits
  <1>7. ArrowsStayInside'
    BY <1>3 DEF ArrowsStayInside
  <1>. QED BY <1>4, <1>5, <1>6, <1>7 DEF IInv

LEMMA Initial ==
  ASSUME Init
  PROVE  IInv /\ IsSuffix(shown, buf)
  <1>1. /\ buf = <<>> /\ shown = <<>> /\ <<>> \in Line /\ IsSuffix(<<>>, <<>>)
    BY Texts, SuffixOf DEF Init
  <1>2. 0 \in 0..Len(Commands) /\ 0 \in 0..MaxCount
    BY LineEditorAssumption, LenProperties
  <1>3. ring \in [0..(HistorySize - 1) -> Line]
    BY <1>1 DEF Init
  <1>4. TypeOK
    <2>1. mode = "normal" /\ sought = 0 /\ count = 0 /\ position = 0 /\ cmd = 0
      BY DEF Init
    <2>2. replaced = FALSE /\ stray = "no"
      BY DEF Init
    <2>3. buf \in Line /\ shown \in Line /\ 0 \in 0..count /\ sought \in Nat
      BY <1>1, <2>1
    <2>. QED BY <1>2, <1>3, <2>1, <2>2, <2>3 DEF TypeOK
  <1>5. CachedCommandFits /\ ArrowsStayInside
    BY DEF Init, CachedCommandFits, ArrowsStayInside
  <1>. QED BY <1>1, <1>4, <1>5 DEF IInv

LEMMA Inductive ==
  ASSUME IInv, [Next]_vars
  PROVE  IInv'
  <1>1. CASE Next
    <2>1. ASSUME NEW packet \in Packets, Type(packet) PROVE IInv'
      BY <2>1, TypeStep
    <2>2. ASSUME NEW packet \in Packets, NoRoom(packet) PROVE IInv'
      BY <2>2, NoRoomStep
    <2>3. ASSUME NEW d \in Digits, SearchDigit(d) PROVE IInv'
      BY <2>3, SearchDigitStep
    <2>4. ASSUME SearchEnd PROVE IInv'
      BY <2>4, SearchEndStep
    <2>5. ASSUME Strayed PROVE IInv'
      BY <2>5 DEF Strayed, vars, IInv, TypeOK, CachedCommandFits, ArrowsStayInside
    <2>. QED BY <1>1, <2>1, <2>2, <2>3, <2>4, <2>5 DEF Next
  <1>2. CASE UNCHANGED vars
    BY <1>2 DEF vars, IInv, TypeOK, CachedCommandFits, ArrowsStayInside
  <1>. QED BY <1>1, <1>2

\* The end of the line stays on the terminal.
LEMMA StaysShown ==
  ASSUME IInv, IsSuffix(shown, buf), [Next]_vars, \A packet \in Packets : Plain(packet)
  PROVE  IsSuffix(shown', buf')
  <1>1. CASE Next
    <2>1. ASSUME NEW packet \in Packets, Type(packet) PROVE IsSuffix(shown', buf')
      BY <2>1, TypeStep
    <2>2. ASSUME NEW packet \in Packets, NoRoom(packet) PROVE IsSuffix(shown', buf')
      BY <2>2, NoRoomStep
    <2>3. ASSUME NEW d \in Digits, SearchDigit(d) PROVE IsSuffix(shown', buf')
      BY <2>3, SearchDigitStep
    <2>4. ASSUME SearchEnd PROVE IsSuffix(shown', buf')
      BY <2>4, SearchEndStep
    <2>5. ASSUME Strayed PROVE IsSuffix(shown', buf')
      BY <2>5 DEF Strayed, vars
    <2>. QED BY <1>1, <2>1, <2>2, <2>3, <2>4, <2>5 DEF Next
  <1>2. CASE UNCHANGED vars
    BY <1>2 DEF vars
  <1>. QED BY <1>1, <1>2

\* Every key leaves the line, the history and the cached command in their types:
\* the completion, too, only adds characters that can be typed.
THEOREM Typing == Spec => []TypeOK
  <1>1. Init => IInv
    BY Initial
  <1>2. IInv /\ [Next]_vars => IInv'
    BY Inductive
  <1>3. IInv => TypeOK
    BY DEF IInv
  <1>. QED BY <1>1, <1>2, <1>3, PTL DEF Spec

\* An arrow key leaves the array of the history only when that is full, for every
\* size of the history and every order of keys.
THEOREM Arrows == Spec => []ArrowsStayInside
  <1>1. Init => IInv
    BY Initial
  <1>2. IInv /\ [Next]_vars => IInv'
    BY Inductive
  <1>3. IInv => ArrowsStayInside
    BY DEF IInv
  <1>. QED BY <1>1, <1>2, <1>3, PTL DEF Spec

\* The command that TAB completes for is that of the line's first word, unless the
\* line was replaced, for every table of commands and every file system.
THEOREM Caching == Spec => []CachedCommandFits
  <1>1. Init => IInv
    BY Initial
  <1>2. IInv /\ [Next]_vars => IInv'
    BY Inductive
  <1>3. IInv => CachedCommandFits
    BY DEF IInv
  <1>. QED BY <1>1, <1>2, <1>3, PTL DEF Spec

\* The terminal shows the end of the line, when no packet holds a DEL after
\* another key.
THEOREM Showing ==
  ASSUME \A packet \in Packets : Plain(packet)
  PROVE  Spec => []ShowsTheLine
  <1>1. Init => IInv /\ IsSuffix(shown, buf)
    BY Initial
  <1>2. IInv /\ IsSuffix(shown, buf) /\ [Next]_vars => (IInv /\ IsSuffix(shown, buf))'
    BY Inductive, StaysShown
  <1>3. IsSuffix(shown, buf) => ShowsTheLine
    BY DEF ShowsTheLine
  <1>. QED BY <1>1, <1>2, <1>3, PTL DEF Spec
=============================================================================
