-------------------------- MODULE CommandLineProofs --------------------------
(***************************************************************************)
(* Proofs about CommandLine for every set of calls, every file system and  *)
(* every way in which TCP cuts what a client sends.                        *)
(***************************************************************************)
EXTENDS CommandLine, FilesProofs

-----------------------------------------------------------------------------
(* The session's buffer.                                                   *)

Mem == [0..(LineSize - 1) -> Letters \cup {NUL}]

LEMMA Characters ==
  /\ NUL \notin Letters /\ CR \notin Chars /\ CR # LF
  /\ Chars \subseteq Letters /\ CR \in Letters /\ LF \in Letters
  /\ Space \in Chars /\ DoubleQuote \in Chars
  <1>1. Range(Ends) = {CR, LF}
    <2>1. DOMAIN Ends = {1, 2} /\ Ends[1] = CR /\ Ends[2] = LF
      BY DEF Ends
    <2>. QED BY <2>1, Zenon DEF Range
  <1>2. NUL # CR /\ NUL # LF /\ CR # LF
    BY Zenon DEF NUL, CR, LF
  <1>3. Letters = Chars \cup {CR, LF} /\ Space \in Chars /\ DoubleQuote \in Chars
    BY <1>1, Zenon DEF Letters, Chars
  <1>. QED BY <1>2, <1>3, CommandLineAssumption

\* What Find finds: the first NUL or one of cs from p on.
LEMMA FindIs ==
  ASSUME NEW m \in Mem, NEW p \in 0..(LineSize + 1), NEW cs
  PROVE  /\ Find(m, p, cs) \in p..(LineSize + 1)
         /\ Cell(m, Find(m, p, cs)) \in cs \cup {NUL}
         /\ \A r \in p..(Find(m, p, cs) - 1) : Cell(m, r) \notin cs \cup {NUL}
         /\ p <= LineSize => Find(m, p, cs) <= LineSize
  <1> DEFINE I == {q \in Nat : p <= q /\ Cell(m, q) \in cs \cup {NUL}}
  <1>1. LineSize \in Nat /\ DOMAIN m = 0..(LineSize - 1)
    BY CommandLineAssumption DEF Mem
  <1>2. Cell(m, LineSize) = NUL /\ Cell(m, LineSize + 1) = NUL
    <2>1. LineSize \notin DOMAIN m /\ LineSize + 1 \notin DOMAIN m
      BY <1>1
    <2>. QED BY <2>1 DEF Cell
  <1>3. /\ LineSize + 1 \in I
        /\ p <= LineSize => LineSize \in I
    BY <1>1, <1>2
  <1>4. PICK q \in I : \A r \in I : q <= r
    <2>1. I \in SUBSET Nat /\ I # {}
      BY <1>3
    <2>. QED BY <2>1, Smallest
  <1>5. q \in p..(LineSize + 1) /\ (p <= LineSize => q <= LineSize)
    BY <1>1, <1>3, <1>4
  <1>6. \A r \in p..(q - 1) : Cell(m, r) \notin cs \cup {NUL}
    <2> SUFFICES ASSUME NEW r \in p..(q - 1), Cell(m, r) \in cs \cup {NUL} PROVE FALSE
      OBVIOUS
    <2>1. r \in Nat /\ p <= r /\ ~(q <= r)
      BY <1>1, <1>5
    <2>. QED BY <1>4, <2>1
  <1>7. Cell(m, q) \in cs \cup {NUL}
    BY <1>4
  <1> DEFINE P(x) == /\ Cell(m, x) \in cs \cup {NUL}
                     /\ \A r \in p..(x - 1) : Cell(m, r) \notin cs \cup {NUL}
  <1>8. q \in p..(LineSize + 1) /\ P(q)
    BY <1>5, <1>6, <1>7
  <1>9. Find(m, p, cs) = CHOOSE x \in p..(LineSize + 1) : P(x)
    BY DEF Find
  <1>10. Find(m, p, cs) \in p..(LineSize + 1) /\ P(Find(m, p, cs))
    <2> HIDE DEF P
    <2>. QED BY <1>8, <1>9
  <1> DEFINE f == Find(m, p, cs)
  <1>11. p <= LineSize => f <= LineSize
    <2> HIDE DEF f
    <2> SUFFICES ASSUME p <= LineSize, LineSize < f PROVE FALSE
      BY <1>1, <1>10 DEF f
    <2>1. f \in Nat /\ q \in p..(f - 1)
      BY <1>1, <1>5, <1>10 DEF f
    <2>. QED BY <1>7, <1>10, <2>1 DEF f
  <1>. QED BY <1>10, <1>11

LEMMA FindAt ==
  ASSUME NEW m \in Mem, NEW p \in 0..(LineSize + 1), NEW cs, NEW q \in p..(LineSize + 1),
         Cell(m, q) \in cs \cup {NUL}, \A r \in p..(q - 1) : Cell(m, r) \notin cs \cup {NUL}
  PROVE  Find(m, p, cs) = q
  <1> DEFINE f == Find(m, p, cs)
  <1>1. /\ f \in p..(LineSize + 1) /\ Cell(m, f) \in cs \cup {NUL}
        /\ \A r \in p..(f - 1) : Cell(m, r) \notin cs \cup {NUL}
    BY FindIs
  <1>2. LineSize \in Nat
    BY CommandLineAssumption
  <1> HIDE DEF f
  <1>3. f \notin p..(q - 1) /\ q \notin p..(f - 1)
    BY <1>1
  <1>. QED BY <1>1, <1>2, <1>3 DEF f

\* The line in the buffer ends at its first NUL.
LEMMA CurrentIs ==
  ASSUME NEW m \in Mem, NUL \in Range(m)
  PROVE  LET l == Len(Current(m))
         IN  /\ Current(m) \in Seq(Letters) /\ l \in 0..(LineSize - 1)
             /\ Find(m, 0, {}) = l /\ m[l] = NUL
             /\ \A i \in 1..l : Current(m)[i] = m[i - 1]
             /\ \A i \in 0..(l - 1) : m[i] # NUL
  <1> DEFINE f == Find(m, 0, {})
             l == Len(Current(m))
  <1>1. LineSize \in Nat \ {0} /\ DOMAIN m = 0..(LineSize - 1) /\ 0 \in 0..(LineSize + 1)
    BY CommandLineAssumption DEF Mem
  <1>2. /\ f \in 0..(LineSize + 1) /\ Cell(m, f) = NUL
        /\ \A r \in 0..(f - 1) : Cell(m, r) # NUL
    <2>1. {} \cup {NUL} = {NUL}
      OBVIOUS
    <2>. QED BY <1>1, <2>1, FindIs
  <1>3. PICK k \in 0..(LineSize - 1) : m[k] = NUL
    BY <1>1 DEF Range
  <1>4. Cell(m, k) = NUL
    BY <1>1, <1>3 DEF Cell
  <1> HIDE DEF f
  <1>5. f <= k
    BY <1>1, <1>2, <1>3, <1>4
  <1>6. f \in 0..(LineSize - 1)
    BY <1>1, <1>2, <1>3, <1>5
  <1>7. \A r \in 0..f : r \in DOMAIN m /\ m[r] \in Letters \cup {NUL} /\ m[r] = Cell(m, r)
    <2>1. \A r \in 0..f : r \in 0..(LineSize - 1)
      BY <1>1, <1>6
    <2>. QED BY <1>1, <2>1 DEF Mem, Cell
  <1>8. m[f] = NUL /\ \A i \in 0..(f - 1) : m[i] # NUL /\ m[i] \in Letters
    BY <1>1, <1>2, <1>6, <1>7
  <1>9. Current(m) = [i \in 1..f |-> m[i - 1]]
    BY <1>1, <1>6 DEF Current, Between, f
  <1>10. Current(m) \in [1..f -> Letters]
    <2>1. \A i \in 1..f : m[i - 1] \in Letters
      BY <1>6, <1>8
    <2>. QED BY <1>9, <2>1
  <1>11. Current(m) \in Seq(Letters) /\ l = f
    BY <1>6, <1>10, SeqDef, LenProperties
  <1>. QED BY <1>6, <1>8, <1>9, <1>11 DEF f

\* strcat of a text that fits.
LEMMA StrcatIs ==
  ASSUME NEW m \in Mem, NUL \in Range(m), NEW t \in Seq(Letters),
         Len(Current(m)) + Len(t) < LineSize
  PROVE  /\ Strcat(m, t) \in Mem /\ NUL \in Range(Strcat(m, t))
         /\ Current(Strcat(m, t)) = Current(m) \o t
  <1> DEFINE l == Len(Current(m))
             k == Len(t)
             s == Strcat(m, t)
  <1>1. LineSize \in Nat \ {0} /\ DOMAIN m = 0..(LineSize - 1)
    BY CommandLineAssumption DEF Mem
  <1>2. /\ Current(m) \in Seq(Letters) /\ l \in 0..(LineSize - 1)
        /\ \A i \in 1..l : Current(m)[i] = m[i - 1]
        /\ \A i \in 0..(l - 1) : m[i] # NUL
    BY CurrentIs
  <1>3. k \in Nat /\ \A i \in 1..k : t[i] \in Letters
    BY LenProperties, ElementOfSeq
  <1>4. s = [i \in 0..(LineSize - 1) |-> CASE i \in l..(l + k - 1) -> t[i - l + 1]
                                           [] i = l + k            -> NUL
                                           [] OTHER                -> m[i]]
    BY <1>1 DEF Strcat
  <1>5. l + k < LineSize
    OBVIOUS
  <1> HIDE DEF l, k, s
  <1>6. \A i \in l..(l + k - 1) : i # l + k /\ i - l + 1 \in 1..k /\ i \in 0..(LineSize - 1)
    BY <1>1, <1>2, <1>3, <1>5
  <1>7. l + k \in 0..(LineSize - 1) /\ l + k \notin l..(l + k - 1)
    BY <1>1, <1>2, <1>3, <1>5
  <1>8. s[l + k] = NUL
    BY <1>4, <1>7
  <1>9. \A i \in l..(l + k - 1) : s[i] = t[i - l + 1]
    BY <1>4, <1>6
  <1>10. \A i \in 0..(l - 1) : s[i] = m[i]
    <2>1. \A i \in 0..(l - 1) : i # l + k /\ i \notin l..(l + k - 1) /\ i \in 0..(LineSize - 1)
      BY <1>1, <1>2, <1>3
    <2>. QED BY <1>4, <2>1
  <1>11. s \in Mem
    <2>1. \A i \in 0..(LineSize - 1) : m[i] \in Letters \cup {NUL}
      BY DEF Mem
    <2>. QED BY <1>3, <1>4, <1>6, <2>1 DEF Mem
  <1>12. NUL \in Range(s)
    BY <1>7, <1>8, <1>11 DEF Range, Mem
  <1>13. Current(s) \in Seq(Letters) /\ Len(Current(s)) = l + k
         /\ \A i \in 1..(l + k) : Current(s)[i] = s[i - 1]
    <2>1. /\ Current(s) \in Seq(Letters) /\ Len(Current(s)) \in 0..(LineSize - 1)
          /\ s[Len(Current(s))] = NUL
          /\ \A i \in 1..Len(Current(s)) : Current(s)[i] = s[i - 1]
          /\ \A i \in 0..(Len(Current(s)) - 1) : s[i] # NUL
      BY <1>11, <1>12, CurrentIs
    <2> DEFINE n == Len(Current(s))
    <2> HIDE DEF n
    <2>2. \A i \in 0..(l + k - 1) : s[i] # NUL
      <3> SUFFICES ASSUME NEW i \in 0..(l + k - 1) PROVE s[i] # NUL
        OBVIOUS
      <3>1. i \in 0..(l - 1) \/ i \in l..(l + k - 1)
        BY <1>2, <1>3
      <3>. QED BY <1>2, <1>3, <1>6, <1>9, <1>10, <3>1, Characters
    <2>3. n \notin 0..(l + k - 1) /\ l + k \notin 0..(n - 1)
      BY <1>8, <2>1, <2>2 DEF n
    <2>4. n = l + k
      BY <1>2, <1>3, <2>1, <2>3 DEF n
    <2>. QED BY <2>1, <2>4 DEF n
  <1>14. /\ Current(m) \o t \in Seq(Letters) /\ Len(Current(m) \o t) = l + k
         /\ \A i \in 1..(l + k) :
              (Current(m) \o t)[i] = IF i <= l THEN Current(m)[i] ELSE t[i - l]
    BY <1>2, ConcatProperties DEF l, k
  <1>15. \A i \in 1..(l + k) : Current(s)[i] = (Current(m) \o t)[i]
    <2> SUFFICES ASSUME NEW i \in 1..(l + k) PROVE s[i - 1] = (Current(m) \o t)[i]
      BY <1>13
    <2>1. CASE i <= l
      <3>1. i \in 1..l /\ i - 1 \in 0..(l - 1)
        BY <1>2, <1>3, <2>1
      <3>. QED BY <1>2, <1>10, <1>14, <2>1, <3>1
    <2>2. CASE ~(i <= l)
      <3>1. i - 1 \in l..(l + k - 1) /\ (i - 1) - l + 1 = i - l
        BY <1>2, <1>3, <2>2
      <3>. QED BY <1>9, <1>14, <2>2, <3>1
    <2>. QED BY <2>1, <2>2
  <1>16. Current(s) = Current(m) \o t
    BY <1>13, <1>14, <1>15, SeqEqual
  <1>. QED BY <1>11, <1>12, <1>16 DEF s

\* buf[0] = '\0'.
LEMMA EmptiedIs ==
  ASSUME NEW m \in Mem
  PROVE  /\ Emptied(m) \in Mem /\ NUL \in Range(Emptied(m)) /\ Current(Emptied(m)) = <<>>
  <1> DEFINE e == Emptied(m)
  <1>1. LineSize \in Nat \ {0} /\ 0 \in 0..(LineSize - 1)
    BY CommandLineAssumption
  <1>2. e \in Mem /\ e[0] = NUL
    BY <1>1 DEF Mem, Emptied
  <1> HIDE DEF e
  <1>3. NUL \in Range(e)
    BY <1>1, <1>2 DEF Mem, Range
  <1>4. /\ Current(e) \in Seq(Letters) /\ Len(Current(e)) \in 0..(LineSize - 1)
        /\ \A i \in 0..(Len(Current(e)) - 1) : e[i] # NUL
    BY <1>2, <1>3, CurrentIs
  <1>5. 0 \notin 0..(Len(Current(e)) - 1)
    BY <1>2, <1>4
  <1>6. Len(Current(e)) = 0
    BY <1>1, <1>4, <1>5
  <1>7. Current(e) = <<>>
    BY <1>4, <1>6, EmptySeq
  <1>. QED BY <1>2, <1>3, <1>7 DEF e

-----------------------------------------------------------------------------
(* What clients send.                                                      *)

\* The words of a call, as they are written.
LEMMA WordsAre ==
  ASSUME NEW c \in Calls
  PROVE  /\ c.words \in Seq(Seq(Chars)) /\ Len(c.words) \in Nat \ {0}
         /\ Trail(c) \in Seq(Chars)
         /\ \A k \in 1..Len(c.words) : /\ c.words[k] \in Seq(Chars)
                                       /\ Word(c, k) \in Seq(Chars)
                                       /\ <<Space>> \o Word(c, k) \in Seq(Chars)
  <1>1. c.words \in Seq(Seq(Chars)) /\ c.words # <<>>
    BY CommandLineAssumption
  <1>2. Len(c.words) \in Nat \ {0}
    BY <1>1, LenProperties, EmptySeq
  <1>3. <<Space>> \in Seq(Chars) /\ <<DoubleQuote>> \in Seq(Chars) /\ <<>> \in Seq(Chars)
    BY Characters
  <1>4. \A k \in 1..Len(c.words) : c.words[k] \in Seq(Chars)
    BY <1>1, <1>2, ElementOfSeq
  <1>5. \A w \in Seq(Chars) : <<DoubleQuote>> \o w \in Seq(Chars) /\ w \o <<DoubleQuote>> \in Seq(Chars)
    BY <1>3, ConcatProperties
  <1>6. \A w \in Seq(Chars) : <<DoubleQuote>> \o w \o <<DoubleQuote>> \in Seq(Chars)
    BY <1>5
  <1>7. ASSUME NEW k \in 1..Len(c.words) PROVE Word(c, k) \in Seq(Chars)
    BY <1>4, <1>6 DEF Word, Quoted
  <1>8. \A w \in Seq(Chars) : <<Space>> \o w \in Seq(Chars)
    BY <1>3, ConcatProperties
  <1>9. Trail(c) \in Seq(Chars)
    BY <1>3 DEF Trail
  <1>. QED BY <1>1, <1>2, <1>4, <1>7, <1>8, <1>9

\* A line is made word by word.
Written(c, line) ==
  /\ line \in [1..Len(c.words) -> Seq(Chars)]
  /\ line[1] = c.words[1]
  /\ \A k \in 2..Len(c.words) : line[k] = line[k - 1] \o <<Space>> \o Word(c, k)

LEMMA LineIs ==
  ASSUME NEW c \in Calls
  PROVE  \E line : Written(c, line) /\ Line(c) = line[Len(c.words)] \o Trail(c)
  <1> DEFINE n    == Len(c.words)
             Body(f) == [k \in 1..n |-> IF k = 1 THEN c.words[1]
                                        ELSE f[k - 1] \o <<Space>> \o Word(c, k)]
             line == CHOOSE f : f = Body(f)
             T    == Seq(Chars)
             first == c.words[1]
             step == [i \in 1..(n - 1) |-> [s \in T |-> s \o <<Space>> \o Word(c, i + 1)]]
  <1>1. n \in Nat \ {0} /\ n - 1 \in Nat
    BY WordsAre
  <1>2. first \in T
    <2>1. 1 \in 1..n
      BY <1>1
    <2>. QED BY <2>1, WordsAre
  <1>3. \A k \in 1..n, s \in T : s \o <<Space>> \o Word(c, k) \in T
    <2> SUFFICES ASSUME NEW k \in 1..n, NEW s \in T PROVE s \o <<Space>> \o Word(c, k) \in T
      OBVIOUS
    <2>1. Word(c, k) \in T
      BY WordsAre
    <2>2. <<Space>> \in T
      BY Characters
    <2>3. s \o <<Space>> \in T
      BY <2>2, ConcatProperties
    <2>. QED BY <2>1, <2>3, ConcatProperties
  <1>4. Line(c) = line[n] \o Trail(c)
    BY DEF Line
  <1> HIDE DEF n, T, first
  <1>5. step \in Steps(n - 1, T)
    <2>1. \A i \in 1..(n - 1) : i + 1 \in 1..n
      BY <1>1
    <2>. QED BY <1>3, <2>1 DEF Steps
  <1>6. PICK g \in [0..(n - 1) -> T] :
          g[0] = first /\ \A i \in 1..(n - 1) : g[i] = step[i][g[i - 1]]
    <2> HIDE DEF step
    <2> DEFINE k == n - 1
    <2> HIDE DEF k
    <2>1. k \in Nat /\ step \in Steps(k, T)
      BY <1>1, <1>5 DEF k
    <2>2. \E f : Iterates(f, k, T, first, step)
      BY <1>2, <2>1, Iteration
    <2>. QED BY <2>2 DEF Iterates, k
  <1> DEFINE f == [k \in 1..n |-> g[k - 1]]
  <1>7. \A k \in 1..n : k - 1 \in 0..(n - 1) /\ f[k] = g[k - 1] /\ f[k] \in T
    BY <1>1
  <1>8. ASSUME NEW k \in 1..n
        PROVE  f[k] = IF k = 1 THEN c.words[1] ELSE f[k - 1] \o <<Space>> \o Word(c, k)
    <2>1. CASE k = 1
      BY <1>6, <1>7, <2>1 DEF first
    <2>2. CASE k # 1
      <3>1. /\ k - 1 \in 1..n /\ k - 1 \in 1..(n - 1) /\ (k - 1) + 1 = k
            /\ (k - 1) - 1 \in 0..(n - 1)
        BY <1>1, <2>2
      <3>2. f[k - 1] = g[(k - 1) - 1] /\ f[k - 1] \in T
        BY <1>7, <3>1
      <3>3. f[k] = step[k - 1][f[k - 1]]
        BY <1>6, <1>7, <3>1, <3>2
      <3> HIDE DEF f
      <3>. QED BY <2>2, <3>1, <3>2, <3>3
    <2>. QED BY <2>1, <2>2
  <1>9. f = Body(f)
    <2>1. \A k \in 1..n : f[k] = Body(f)[k]
      BY <1>8
    <2>. QED BY <1>8
  <1>10. line = Body(line)
    <2> HIDE DEF Body, f
    <2>. QED BY <1>9
  <1> HIDE DEF line
  <1>11. \A k \in 1..n : line[k] = IF k = 1 THEN c.words[1]
                                   ELSE line[k - 1] \o <<Space>> \o Word(c, k)
    BY <1>10
  <1> DEFINE K == {k \in Nat : k + 1 <= n => line[k + 1] \in T}
  <1>12. 0 \in K
    <2>1. 1 \in 1..n
      BY <1>1
    <2>. QED BY <1>2, <1>11, <2>1 DEF first
  <1>13. ASSUME NEW k \in K PROVE k + 1 \in K
    <2> SUFFICES ASSUME (k + 1) + 1 <= n PROVE line[(k + 1) + 1] \in T
      OBVIOUS
    <2>1. k \in Nat /\ line[k + 1] \in T /\ (k + 1) + 1 \in 1..n
      BY <1>1
    <2> DEFINE m == (k + 1) + 1
    <2>2. m # 1 /\ m - 1 = k + 1
      BY <2>1
    <2> HIDE DEF m
    <2>3. line[m] = line[k + 1] \o <<Space>> \o Word(c, m)
      BY <1>11, <2>1, <2>2 DEF m
    <2>. QED BY <1>3, <2>1, <2>3 DEF m
  <1>14. K = Nat
    <2>1. K \in SUBSET Nat
      OBVIOUS
    <2> HIDE DEF K
    <2>. QED BY <1>12, <1>13, <2>1, SetInduction
  <1>15. \A k \in 1..n : line[k] \in T
    <2> SUFFICES ASSUME NEW k \in 1..n PROVE line[k] \in T
      OBVIOUS
    <2>1. k - 1 \in Nat /\ (k - 1) + 1 = k /\ k <= n
      BY <1>1
    <2>2. k - 1 \in K
      BY <1>14, <2>1
    <2>. QED BY <2>1, <2>2
  <1>16. line \in [1..n -> T]
    <2>1. DOMAIN line = 1..n
      BY <1>10
    <2>2. line = [k \in 1..n |-> line[k]]
      BY <1>10
    <2>. QED BY <1>15, <2>2
  <1>17. line[1] = c.words[1] /\ \A k \in 2..n : line[k] = line[k - 1] \o <<Space>> \o Word(c, k)
    <2>1. 1 \in 1..n /\ \A k \in 2..n : k \in 1..n /\ k # 1
      BY <1>1
    <2>. QED BY <1>11, <2>1
  <1>18. Written(c, line)
    BY <1>16, <1>17 DEF Written, n, T
  <1>. QED BY <1>4, <1>18 DEF n

LEMMA LineTyped ==
  ASSUME NEW c \in Calls
  PROVE  Line(c) \in Seq(Chars) /\ Line(c) \in Seq(Letters) /\ \A i \in 1..Len(Line(c)) : Line(c)[i] # CR
  <1>1. PICK line : Written(c, line) /\ Line(c) = line[Len(c.words)] \o Trail(c)
    BY LineIs
  <1>2. Len(c.words) \in 1..Len(c.words) /\ Trail(c) \in Seq(Chars)
    BY WordsAre
  <1>3. line[Len(c.words)] \in Seq(Chars)
    BY <1>1, <1>2 DEF Written
  <1>4. Line(c) \in Seq(Chars)
    BY <1>1, <1>2, <1>3, ConcatProperties
  <1>5. \A i \in 1..Len(Line(c)) : Line(c)[i] \in Chars
    BY <1>4, LenProperties, ElementOfSeq
  <1>6. Line(c) \in Seq(Letters)
    BY <1>4, Characters, SeqMonotonic
  <1>. QED BY <1>4, <1>5, <1>6, Characters

-----------------------------------------------------------------------------
(* parse_arguments.                                                        *)

Texts == Seq(Letters \cup {NUL})

LEMMA BetweenIs ==
  ASSUME NEW m \in Mem, NEW p \in Nat, NEW q \in p..LineSize
  PROVE  /\ Between(m, p, q) \in Texts /\ Len(Between(m, p, q)) = q - p
         /\ \A i \in 1..(q - p) : Between(m, p, q)[i] = m[p + i - 1]
  <1> DEFINE b == Between(m, p, q)
  <1>1. LineSize \in Nat /\ q - p \in Nat
    BY CommandLineAssumption
  <1>2. \A i \in 1..(q - p) : p + i - 1 \in 0..(LineSize - 1)
    BY <1>1
  <1>3. \A i \in 1..(q - p) : m[p + i - 1] \in Letters \cup {NUL}
    BY <1>2 DEF Mem
  <1>4. b = [i \in 1..(q - p) |-> m[p + i - 1]]
    BY DEF Between
  <1>5. b \in [1..(q - p) -> Letters \cup {NUL}] /\ \A i \in 1..(q - p) : b[i] = m[p + i - 1]
    BY <1>3, <1>4
  <1> DEFINE n == q - p
  <1> HIDE DEF b, n
  <1>6. b \in [1..n -> Letters \cup {NUL}] /\ n \in Nat
    BY <1>1, <1>5 DEF n
  <1>7. b \in Texts /\ Len(b) = n
    BY <1>6, SeqDef, LenProperties DEF Texts
  <1>. QED BY <1>5, <1>7 DEF b, n

LEMMA BlanksIs ==
  ASSUME NEW m \in Mem, NEW p \in 0..LineSize
  PROVE  /\ Blanks(m, p) \in p..LineSize /\ Cell(m, Blanks(m, p)) # Space
         /\ \A r \in p..(Blanks(m, p) - 1) : Cell(m, r) = Space
  <1> DEFINE I == {q \in Nat : p <= q /\ Cell(m, q) # Space}
             P(x) == Cell(m, x) # Space /\ \A r \in p..(x - 1) : Cell(m, r) = Space
  <1>1. LineSize \in Nat /\ DOMAIN m = 0..(LineSize - 1)
    BY CommandLineAssumption DEF Mem
  <1>2. Cell(m, LineSize) = NUL /\ NUL # Space
    <2>1. LineSize \notin DOMAIN m
      BY <1>1
    <2>. QED BY <2>1, Characters DEF Cell
  <1>3. LineSize \in I
    BY <1>1, <1>2
  <1>4. PICK q \in I : \A r \in I : q <= r
    <2>1. I \in SUBSET Nat /\ I # {}
      BY <1>3
    <2>. QED BY <2>1, Smallest
  <1>5. q \in p..LineSize
    BY <1>1, <1>3, <1>4
  <1>6. \A r \in p..(q - 1) : Cell(m, r) = Space
    <2> SUFFICES ASSUME NEW r \in p..(q - 1), Cell(m, r) # Space PROVE FALSE
      OBVIOUS
    <2>1. r \in Nat /\ p <= r /\ ~(q <= r)
      BY <1>1, <1>5
    <2>. QED BY <1>4, <2>1
  <1>7. P(q)
    BY <1>4, <1>6
  <1>8. Blanks(m, p) = CHOOSE x \in p..LineSize : P(x)
    BY DEF Blanks
  <1> HIDE DEF P
  <1>9. Blanks(m, p) \in p..LineSize /\ P(Blanks(m, p))
    BY <1>5, <1>7, <1>8
  <1>. QED BY <1>9 DEF P

LEMMA PassedIs ==
  ASSUME NEW m \in Mem, NEW p \in 0..LineSize
  PROVE  /\ Passed(m, p) \in p..LineSize
         /\ Cell(m, p) # DoubleQuote => Passed(m, p) = p
         /\ Cell(m, p) = DoubleQuote =>
              /\ p < LineSize /\ Passed(m, p) = Find(m, p + 1, {DoubleQuote})
              /\ p < Passed(m, p)
  <1>1. LineSize \in Nat /\ DOMAIN m = 0..(LineSize - 1)
    BY CommandLineAssumption DEF Mem
  <1>2. CASE Cell(m, p) # DoubleQuote
    BY <1>1, <1>2 DEF Passed
  <1>3. CASE Cell(m, p) = DoubleQuote
    <2>1. p # LineSize
      <3>1. LineSize \notin DOMAIN m
        BY <1>1
      <3>. QED BY <1>3, <3>1, Characters DEF Cell
    <2>2. p + 1 \in 0..(LineSize + 1) /\ p + 1 <= LineSize
      BY <1>1, <2>1
    <2> DEFINE n == p + 1
               q == Find(m, n, {DoubleQuote})
    <2> HIDE DEF n
    <2>3. q \in n..(LineSize + 1) /\ q <= LineSize
      BY <2>2, FindIs DEF n
    <2>4. Passed(m, p) = q
      BY <1>3 DEF Passed, n
    <2> HIDE DEF q
    <2>5. q \in p..LineSize /\ p < q /\ p < LineSize
      BY <1>1, <2>2, <2>3 DEF n
    <2>. QED BY <1>3, <2>4, <2>5 DEF q, n
  <1>. QED BY <1>2, <1>3

\* What the loop of parse_arguments adds at p, and where it goes on.
Start(m, p)  == Blanks(m, p)
Stop(m, p)   == Find(m, Start(m, p), {Space, DoubleQuote})
End(m, p)    == Passed(m, Start(m, p))
Pieces(m, p) ==
  (IF p < Start(m, p) /\ Start(m, p) < Stop(m, p) THEN <<Between(m, Start(m, p), Stop(m, p))>> ELSE <<>>)
  \o (IF Start(m, p) < End(m, p) THEN <<Between(m, Start(m, p) + 1, End(m, p))>> ELSE <<>>)

LEMMA Singletons ==
  ASSUME NEW t \in Texts
  PROVE  <<t>> \in Seq(Texts) /\ Len(<<t>>) = 1 /\ <<t>>[1] = t
  OBVIOUS

LEMMA PiecesIs ==
  ASSUME NEW m \in Mem, NEW p \in 0..(LineSize + 2), Cell(m, p) # NUL
  PROVE  /\ Start(m, p) \in p..LineSize /\ Stop(m, p) \in Start(m, p)..LineSize
         /\ End(m, p) \in Start(m, p)..LineSize
         /\ Pieces(m, p) \in Seq(Texts)
         /\ End(m, p) + 1 \in (p + 1)..(LineSize + 2)
         /\ p \in DOMAIN m /\ Cell(m, p) = m[p] /\ p < LineSize
  <1> DEFINE start == Start(m, p)
             stop  == Stop(m, p)
             end   == End(m, p)
  <1>1. LineSize \in Nat /\ DOMAIN m = 0..(LineSize - 1)
    BY CommandLineAssumption DEF Mem
  <1>2. p \in DOMAIN m /\ Cell(m, p) = m[p]
    BY DEF Cell
  <1>3. p \in 0..LineSize /\ p < LineSize
    BY <1>1, <1>2
  <1>4. start \in p..LineSize
    BY <1>3, BlanksIs DEF Start
  <1>5. start \in 0..LineSize /\ start \in 0..(LineSize + 1)
    BY <1>1, <1>3, <1>4
  <1>6. end \in start..LineSize
    BY <1>5, PassedIs DEF End
  <1>7. stop \in start..LineSize
    <2>1. stop \in start..(LineSize + 1) /\ stop <= LineSize
      <3> HIDE DEF start
      <3>1. start <= LineSize
        BY <1>1, <1>5
      <3>2. /\ Find(m, start, {Space, DoubleQuote}) \in start..(LineSize + 1)
            /\ Find(m, start, {Space, DoubleQuote}) <= LineSize
        BY <1>5, <3>1, FindIs
      <3>. QED BY <3>2 DEF Stop, start
    <2>. QED BY <1>1, <1>5, <2>1
  <1> HIDE DEF start, stop, end
  <1> DEFINE none == <<>>
             a == IF p < start /\ start < stop THEN <<Between(m, start, stop)>> ELSE none
             b == IF start < end THEN <<Between(m, start + 1, end)>> ELSE none
  <1>8. none \in Seq(Texts)
    OBVIOUS
  <1>9. Pieces(m, p) = a \o b
    BY DEF Pieces, start, stop, end
  <1> HIDE DEF none
  <1>10. a \in Seq(Texts)
    <2>1. Between(m, start, stop) \in Texts
      BY <1>5, <1>7, BetweenIs
    <2>. QED BY <1>8, <2>1, Singletons
  <1>11. b \in Seq(Texts)
    <2>1. start < end => start + 1 \in Nat /\ end \in (start + 1)..LineSize
      BY <1>5, <1>6
    <2> DEFINE n == start + 1
    <2> HIDE DEF n
    <2>2. start < end => Between(m, n, end) \in Texts
      BY <2>1, BetweenIs DEF n
    <2>. QED BY <1>8, <2>2, Singletons DEF n
  <1> HIDE DEF a, b
  <1>12. Pieces(m, p) \in Seq(Texts)
    BY <1>9, <1>10, <1>11, ConcatProperties
  <1>13. end + 1 \in (p + 1)..(LineSize + 2)
    BY <1>1, <1>3, <1>4, <1>6
  <1>. QED BY <1>2, <1>3, <1>4, <1>6, <1>7, <1>12, <1>13 DEF start, stop, end

\* What parse_arguments returns, before and after it is cut to four.
Scans(m, scan) ==
  /\ scan \in [0..(LineSize + 2) -> Seq(Texts)]
  /\ \A p \in 0..(LineSize + 2) :
       scan[p] = IF Cell(m, p) = NUL THEN <<>> ELSE Pieces(m, p) \o scan[End(m, p) + 1]
Arguments(m, scan) ==
  LET first == Find(m, 0, {Space, DoubleQuote})
  IN  (IF first > 0 THEN <<Between(m, 0, first)>> ELSE <<>>) \o scan[first]
Four(args) == SubSeq(args, 1, IF Len(args) < 4 THEN Len(args) ELSE 4)

LEMMA ParseIs ==
  ASSUME NEW m \in Mem
  PROVE  \E scan : Scans(m, scan) /\ ParseArguments(m) = Four(Arguments(m, scan))
  <1> DEFINE n       == LineSize + 2
             S       == Seq(Texts)
             none    == <<>>
             stops   == {p \in 0..n : Cell(m, p) = NUL}
             next    == [p \in 0..n |-> End(m, p) + 1]
             step    == [p \in 0..n |-> [s \in S |-> IF p \in stops THEN s ELSE Pieces(m, p) \o s]]
             Body(f) == [p \in 0..n |-> IF Cell(m, p) = NUL THEN <<>>
                                        ELSE Pieces(m, p) \o f[End(m, p) + 1]]
             scan    == CHOOSE f : f = Body(f)
  <1>1. LineSize \in Nat /\ n \in Nat
    BY CommandLineAssumption
  <1>2. ParseArguments(m) = Four(Arguments(m, scan))
    BY DEF ParseArguments, Four, Arguments, Pieces, Start, Stop, End
  <1>3. \A p \in 0..n : p \notin stops => /\ Pieces(m, p) \in S
                                          /\ End(m, p) + 1 \in (p + 1)..n
    BY PiecesIs
  <1>4. none \in S
    OBVIOUS
  <1> HIDE DEF S, n
  <1>5. \A p \in 0..n, s \in S : p \notin stops => Pieces(m, p) \o s \in S
    BY <1>3, ConcatProperties DEF S
  <1>6. step \in Moves(n, S)
    <2> HIDE DEF stops
    <2>. QED BY <1>5 DEF Moves
  <1>7. \A p \in 0..n : p \notin stops => next[p] \in (p + 1)..n
    BY <1>3
  <1> HIDE DEF none, stops, next, step
  <1>8. PICK f : Descends(f, 0, n, S, stops, none, next, step)
    BY <1>1, <1>4, <1>6, <1>7, Descent
  <1>9. /\ f \in [0..n -> S]
        /\ \A p \in 0..n : f[p] = IF p \in stops THEN none ELSE step[p][f[next[p]]]
    BY <1>8 DEF Descends
  <1>10. ASSUME NEW p \in 0..n
         PROVE  f[p] = IF Cell(m, p) = NUL THEN <<>> ELSE Pieces(m, p) \o f[End(m, p) + 1]
    <2>1. CASE p \in stops
      BY <1>9, <2>1 DEF stops, none
    <2>2. CASE p \notin stops
      <3>1. next[p] = End(m, p) + 1
        BY DEF next
      <3>2. next[p] \in 0..n
        BY <1>1, <1>7, <2>2
      <3>3. f[next[p]] \in S
        BY <1>9, <3>2
      <3>4. step[p][f[next[p]]] = Pieces(m, p) \o f[next[p]]
        BY <2>2, <3>3 DEF step
      <3>5. Cell(m, p) # NUL
        BY <2>2 DEF stops
      <3>. QED BY <1>9, <2>2, <3>1, <3>4, <3>5
    <2>. QED BY <2>1, <2>2
  <1>11. f = Body(f)
    BY <1>9, <1>10
  <1>12. scan = Body(scan)
    <2> HIDE DEF Body
    <2>. QED BY <1>11
  <1> HIDE DEF scan
  <1>13. \A p \in 0..n : scan[p] = IF Cell(m, p) = NUL THEN <<>>
                                   ELSE Pieces(m, p) \o scan[End(m, p) + 1]
    BY <1>12
  <1>14. \A p \in 0..n : scan[p] \in S
    <2> DEFINE K == {k \in Nat : \A p \in 0..n : n - p <= k => scan[p] \in S}
    <2>1. 0 \in K
      <3> SUFFICES ASSUME NEW p \in 0..n, n - p <= 0 PROVE scan[p] \in S
        OBVIOUS
      <3>1. (p + 1)..n = {}
        BY <1>1
      <3>2. p \in stops
        BY <1>7, <3>1
      <3>. QED BY <1>4, <1>13, <3>2 DEF stops, none
    <2>2. ASSUME NEW k \in K PROVE k + 1 \in K
      <3> SUFFICES ASSUME NEW p \in 0..n, n - p <= k + 1 PROVE scan[p] \in S
        OBVIOUS
      <3>1. CASE p \in stops
        BY <1>4, <1>13, <3>1 DEF stops, none
      <3>2. CASE p \notin stops
        <4> DEFINE q == End(m, p) + 1
        <4>1. q \in (p + 1)..n
          BY <1>3, <3>2
        <4>2. scan[p] = Pieces(m, p) \o scan[q]
          BY <1>13, <3>2 DEF stops
        <4> HIDE DEF q
        <4>3. q \in 0..n /\ n - q <= k
          BY <1>1, <4>1
        <4>4. scan[q] \in S
          BY <4>3
        <4>. QED BY <1>3, <3>2, <4>2, <4>4, ConcatProperties DEF S
      <3>. QED BY <3>1, <3>2
    <2>3. K \in SUBSET Nat
      OBVIOUS
    <2> HIDE DEF K
    <2>4. n \in K
      BY <1>1, <2>1, <2>2, <2>3, SetInduction
    <2>5. \A p \in 0..n : n - p <= n
      BY <1>1
    <2>. QED BY <2>4, <2>5 DEF K
  <1>15. scan \in [0..n -> S]
    <2>1. scan = [p \in 0..n |-> scan[p]]
      BY <1>12
    <2>. QED BY <1>14, <2>1
  <1>16. Scans(m, scan)
    BY <1>13, <1>15 DEF Scans, n, S
  <1>. QED BY <1>2, <1>16

LEMMA ArgumentsIn ==
  ASSUME NEW m \in Mem, NEW scan, Scans(m, scan)
  PROVE  Arguments(m, scan) \in Seq(Texts)
  <1> DEFINE first == Find(m, 0, {Space, DoubleQuote})
             none  == <<>>
             a     == IF first > 0 THEN <<Between(m, 0, first)>> ELSE none
  <1>1. LineSize \in Nat /\ 0 \in 0..(LineSize + 1) /\ 0 <= LineSize
    BY CommandLineAssumption
  <1>2. first \in 0..(LineSize + 1) /\ first <= LineSize
    BY <1>1, FindIs
  <1>3. Arguments(m, scan) = a \o scan[first]
    BY DEF Arguments
  <1> HIDE DEF first
  <1>4. first \in 0..LineSize /\ first \in 0..(LineSize + 2)
    BY <1>1, <1>2
  <1>5. none \in Seq(Texts) /\ Between(m, 0, first) \in Texts
    BY <1>4, BetweenIs
  <1>6. scan[first] \in Seq(Texts)
    BY <1>4 DEF Scans
  <1> HIDE DEF none
  <1>7. a \in Seq(Texts)
    BY <1>5, Singletons
  <1> HIDE DEF a
  <1>. QED BY <1>3, <1>6, <1>7, ConcatProperties

LEMMA ParseTyped ==
  ASSUME NEW m \in Mem
  PROVE  ParseArguments(m) \in Seq(Texts) /\ Len(ParseArguments(m)) \in 0..4
  <1>1. PICK scan : Scans(m, scan) /\ ParseArguments(m) = Four(Arguments(m, scan))
    BY ParseIs
  <1> DEFINE args == Arguments(m, scan)
             len  == Len(args)
             n    == IF len < 4 THEN len ELSE 4
  <1>2. args \in Seq(Texts)
    BY <1>1, ArgumentsIn
  <1> HIDE DEF args
  <1>3. n \in 0..4 /\ n <= Len(args) /\ n \in Int
    <2>1. len \in Nat
      BY <1>2, LenProperties
    <2> HIDE DEF len
    <2>2. n \in 0..4 /\ n <= len /\ n \in Int
      BY <2>1
    <2>. QED BY <2>2 DEF len
  <1>4. ParseArguments(m) = SubSeq(args, 1, n)
    BY <1>1 DEF Four, args
  <1> HIDE DEF n
  <1>5. SubSeq(args, 1, n) \in Seq(Texts) /\ Len(SubSeq(args, 1, n)) = n
    BY <1>2, <1>3, PartOf
  <1>. QED BY <1>3, <1>4, <1>5

-----------------------------------------------------------------------------
(* The words that are found.                                               *)

\* A word, and what is written for it.
Unquoted(w) == Len(w) >= 1 /\ \A i \in 1..Len(w) : w[i] # Space
Readable(w) ==
  /\ w \in Seq(Chars) /\ Len(w) \in Nat
  /\ \A i \in 1..Len(w) : w[i] \in Chars /\ w[i] # DoubleQuote /\ w[i] # NUL
Spells(v, w, quoted) ==
  /\ Readable(w)
  /\ ~quoted => v = w
  /\ quoted => /\ Len(v) = Len(w) + 2
               /\ v[1] = DoubleQuote /\ v[Len(w) + 2] = DoubleQuote
               /\ \A i \in 1..Len(w) : v[i + 1] = w[i]

LEMMA WordIs ==
  ASSUME NEW c \in Calls, Sendable(c), NEW k \in 1..Len(c.words)
  PROVE  /\ Spells(Word(c, k), c.words[k], c.quoted)
         /\ k = 1 \/ ~c.quoted => Unquoted(c.words[k])
  <1> DEFINE w     == c.words[k]
             n     == Len(w)
             quote == <<DoubleQuote>>
  <1>1. w \in Seq(Chars)
    BY WordsAre
  <1>2. /\ DoubleQuote \notin Range(w)
        /\ k = 1 \/ ~c.quoted => w # <<>> /\ Space \notin Range(w)
    BY DEF Sendable
  <1>3. n \in Nat /\ DOMAIN w = 1..n
    BY <1>1, LenProperties
  <1>4. \A i \in 1..n : w[i] \in Chars /\ w[i] \in Range(w)
    BY <1>1, <1>3, ElementOfSeq DEF Range
  <1>5. \A i \in 1..n : w[i] \in Chars /\ w[i] # DoubleQuote /\ w[i] # NUL
    BY <1>2, <1>4, Characters
  <1>6. k = 1 \/ ~c.quoted => n >= 1 /\ \A i \in 1..n : w[i] # Space
    <2>1. w # <<>> => n # 0
      BY <1>1, EmptySeq
    <2>. QED BY <1>2, <1>3, <1>4, <2>1
  <1>7. ASSUME ~c.quoted PROVE Word(c, k) = w
    BY <1>7 DEF Word
  <1>8. ASSUME c.quoted
        PROVE  /\ Len(Word(c, k)) = n + 2
               /\ Word(c, k)[1] = DoubleQuote /\ Word(c, k)[n + 2] = DoubleQuote
               /\ \A i \in 1..n : Word(c, k)[i + 1] = w[i]
    <2>1. Word(c, k) = quote \o w \o quote
      BY <1>8 DEF Word, Quoted
    <2>2. quote \in Seq(Chars) /\ Len(quote) = 1 /\ quote[1] = DoubleQuote
      BY Characters
    <2> HIDE DEF w, n, quote
    <2> DEFINE a == quote \o w
    <2>3. /\ a \in Seq(Chars) /\ Len(a) = 1 + n
          /\ a[1] = DoubleQuote /\ \A i \in 1..n : a[i + 1] = w[i]
      <3>1. /\ a \in Seq(Chars) /\ Len(a) = Len(quote) + Len(w)
            /\ \A i \in 1..(Len(quote) + Len(w)) :
                 a[i] = IF i <= Len(quote) THEN quote[i] ELSE w[i - Len(quote)]
        BY <1>1, <2>2, ConcatProperties
      <3>2. \A i \in 1..(1 + n) : a[i] = IF i <= 1 THEN quote[i] ELSE w[i - 1]
        BY <2>2, <3>1 DEF n
      <3>3. 1 \in 1..(1 + n) /\ \A i \in 1..n : i + 1 \in 1..(1 + n) /\ ~(i + 1 <= 1) /\ i + 1 - 1 = i
        BY <1>3
      <3> HIDE DEF a
      <3>4. a[1] = quote[1]
        BY <3>2, <3>3
      <3>5. \A i \in 1..n : a[i + 1] = w[i]
        BY <3>2, <3>3
      <3>. QED BY <2>2, <3>1, <3>4, <3>5 DEF n
    <2> HIDE DEF a
    <2>4. /\ Len(a \o quote) = Len(a) + Len(quote)
          /\ \A i \in 1..(Len(a) + Len(quote)) :
               (a \o quote)[i] = IF i <= Len(a) THEN a[i] ELSE quote[i - Len(a)]
      BY <2>2, <2>3, ConcatProperties
    <2> DEFINE b == a \o quote
    <2>5. Len(b) = n + 2 /\ \A i \in 1..(n + 2) : b[i] = IF i <= 1 + n THEN a[i] ELSE quote[i - (1 + n)]
      BY <1>3, <2>2, <2>3, <2>4
    <2>6. b = Word(c, k)
      BY <2>1 DEF a
    <2> HIDE DEF b
    <2>7. /\ 1 \in 1..(n + 2) /\ n + 2 \in 1..(n + 2) /\ (n + 2) - (1 + n) = 1
          /\ 1 <= 1 + n /\ ~(n + 2 <= 1 + n)
          /\ \A i \in 1..n : i + 1 \in 1..(n + 2) /\ i + 1 <= 1 + n
      BY <1>3
    <2>8. b[1] = a[1] /\ b[n + 2] = quote[1]
      BY <2>5, <2>7
    <2>9. \A i \in 1..n : b[i + 1] = a[i + 1]
      BY <2>5, <2>7
    <2>. QED BY <2>2, <2>3, <2>5, <2>6, <2>8, <2>9
  <1>. QED BY <1>1, <1>3, <1>5, <1>6, <1>7, <1>8 DEF Spells, Readable, Unquoted

\* z is x, a blank, and w.
Spaced(x, w, z) ==
  /\ Len(x) \in Nat /\ Len(w) \in Nat /\ Len(z) = Len(x) + 1 + Len(w)
  /\ \A i \in 1..Len(x) : z[i] = x[i]
  /\ z[Len(x) + 1] = Space
  /\ \A i \in 1..Len(w) : z[Len(x) + 1 + i] = w[i]

\* What a word adds to the line: a blank, and what is written for the word.
LEMMA Added ==
  ASSUME NEW c \in Calls, NEW line, Written(c, line), NEW k \in 2..Len(c.words)
  PROVE  Spaced(line[k - 1], Word(c, k), line[k])
  <1> DEFINE x     == line[k - 1]
             w     == Word(c, k)
             blank == <<Space>>
             a     == Len(x)
             b     == Len(w)
             y     == x \o blank
             z     == y \o w
  <1>1. k - 1 \in 1..Len(c.words) /\ k \in 1..Len(c.words)
    BY WordsAre
  <1>2. x \in Seq(Chars) /\ w \in Seq(Chars) /\ line[k] = z
    BY <1>1, WordsAre DEF Written
  <1>3. blank \in Seq(Chars) /\ Len(blank) = 1 /\ blank[1] = Space
    BY Characters
  <1> HIDE DEF x, w, blank
  <1>4. /\ y \in Seq(Chars) /\ a \in Nat
        /\ Len(y) = a + Len(blank)
        /\ \A i \in 1..a : y[i] = x[i]
        /\ \A i \in 1..Len(blank) : y[a + i] = blank[i]
    <2>1. x \in Seq(Chars) /\ blank \in Seq(Chars)
      BY <1>2, <1>3
    <2>. QED BY <2>1, Joined
  <1>5. Len(y) = a + 1 /\ y[a + 1] = Space
    <2>1. 1 \in 1..Len(blank)
      BY <1>3
    <2> HIDE DEF y, a
    <2>. QED BY <1>3, <1>4, <2>1
  <1> HIDE DEF y
  <1>6. /\ Len(z) = Len(y) + b /\ b \in Nat
        /\ \A i \in 1..Len(y) : z[i] = y[i]
        /\ \A i \in 1..b : z[Len(y) + i] = w[i]
    <2>1. y \in Seq(Chars) /\ w \in Seq(Chars)
      BY <1>2, <1>4
    <2>. QED BY <2>1, Joined
  <1> HIDE DEF z, a, b
  <1>7. /\ Len(z) = a + 1 + b
        /\ \A i \in 1..(a + 1) : z[i] = y[i]
        /\ \A i \in 1..b : z[a + 1 + i] = w[i]
    BY <1>5, <1>6
  <1>8. a + 1 \in 1..(a + 1) /\ \A i \in 1..a : i \in 1..(a + 1)
    BY <1>4
  <1>9. z[a + 1] = Space /\ \A i \in 1..a : z[i] = x[i]
    BY <1>4, <1>5, <1>7, <1>8
  <1>. QED BY <1>2, <1>4, <1>6, <1>7, <1>9 DEF x, w, a, b, Spaced

\* Every word of the line is written at the end of the one before it.
LEMMA Grows ==
  ASSUME NEW c \in Calls, Sendable(c), NEW line, Written(c, line), NEW k \in 1..Len(c.words)
  PROVE  /\ Len(line[k]) \in Nat \ {0} /\ Len(line[Len(c.words)]) \in Nat
         /\ Len(line[k]) <= Len(line[Len(c.words)])
         /\ \A i \in 1..Len(line[k]) : line[Len(c.words)][i] = line[k][i]
  <1> DEFINE n        == Len(c.words)
             e        == [j \in 1..n |-> Len(line[j])]
             Up(a, b) == e[a] <= e[b] /\ \A i \in 1..e[a] : line[b][i] = line[a][i]
  <1>1. n \in Nat \ {0} /\ 1 \in 1..n /\ n \in 1..n
    BY WordsAre
  <1>2. \A j \in 1..n : e[j] \in Nat /\ e[j] = Len(line[j])
    <2>1. \A j \in 1..n : line[j] \in Seq(Chars)
      BY DEF Written
    <2>. QED BY <2>1, LenProperties
  <1>3. ASSUME NEW a \in 1..n, NEW j \in a..n, j + 1 <= n, Up(a, j)
        PROVE  Up(a, j + 1)
    <2> DEFINE b == j + 1
    <2>1. b \in 2..n /\ b - 1 = j /\ j \in 1..n /\ b \in 1..n
      BY <1>1, <1>3
    <2> HIDE DEF b
    <2>2. /\ Len(line[b]) = Len(line[j]) + 1 + Len(Word(c, b)) /\ Len(Word(c, b)) \in Nat
          /\ \A i \in 1..Len(line[j]) : line[b][i] = line[j][i]
      <3>1. b \in 2..Len(c.words) /\ b - 1 = j
        BY <2>1 DEF n
      <3>2. /\ Len(line[b]) = Len(line[b - 1]) + 1 + Len(Word(c, b)) /\ Len(Word(c, b)) \in Nat
            /\ \A i \in 1..Len(line[b - 1]) : line[b][i] = line[b - 1][i]
        BY <3>1, Added DEF Spaced
      <3>. QED BY <3>1, <3>2
    <2> HIDE DEF e, n
    <2>3. /\ e[b] = e[j] + 1 + Len(Word(c, b))
          /\ \A i \in 1..e[j] : line[b][i] = line[j][i]
      BY <1>2, <2>1, <2>2
    <2>4. e[j] \in Nat /\ e[a] \in Nat /\ e[a] <= e[j]
      BY <1>2, <1>3, <2>1
    <2>5. e[a] <= e[b]
      BY <2>2, <2>3, <2>4
    <2>6. \A i \in 1..e[a] : i \in 1..e[j]
      BY <2>4
    <2>7. \A i \in 1..e[a] : line[b][i] = line[a][i]
      BY <1>3, <2>3, <2>6
    <2>. QED BY <2>5, <2>7 DEF b
  <1> HIDE DEF n, e, Up
  <1>4. ASSUME NEW a \in 1..n, NEW b \in a..n PROVE Up(a, b)
    <2> DEFINE K == {j \in Nat : a + j <= n => Up(a, a + j)}
    <2>1. 0 \in K
      <3>1. a + 0 = a /\ e[a] <= e[a]
        BY <1>1, <1>2
      <3>2. Up(a, a)
        BY <3>1 DEF Up
      <3>. QED BY <3>1, <3>2
    <2>2. ASSUME NEW j \in K PROVE j + 1 \in K
      <3> SUFFICES ASSUME a + (j + 1) <= n PROVE Up(a, a + (j + 1))
        OBVIOUS
      <3> DEFINE i == a + j
      <3>1. Up(a, i) /\ i \in a..n /\ i + 1 <= n /\ i + 1 = a + (j + 1)
        BY <1>1
      <3> HIDE DEF i
      <3>2. Up(a, i + 1)
        BY <1>3, <3>1
      <3>. QED BY <3>1, <3>2
    <2>3. K \in SUBSET Nat
      OBVIOUS
    <2> HIDE DEF K
    <2>4. b - a \in K /\ a + (b - a) = b /\ b <= n
      <3>1. b - a \in Nat /\ a + (b - a) = b /\ b <= n
        BY <1>1
      <3>. QED BY <2>1, <2>2, <2>3, <3>1, SetInduction
    <2>. QED BY <2>4 DEF K
  <1>5. e[1] >= 1
    <2>1. line[1] = c.words[1] /\ 1 \in 1..Len(c.words)
      BY <1>1 DEF Written, n
    <2>2. Len(c.words[1]) >= 1
      BY <2>1, WordIs DEF Unquoted
    <2>. QED BY <1>1, <1>2, <2>1, <2>2
  <1>6. k \in 1..n /\ n \in k..n
    BY <1>1 DEF n
  <1>7. Up(k, n) /\ Up(1, k)
    <2>1. k \in 1..n
      BY <1>6
    <2>. QED BY <1>1, <1>4, <1>6, <2>1
  <1>8. e[k] \in Nat /\ e[n] \in Nat /\ e[1] \in Nat /\ e[k] # 0
    <2>1. e[k] \in Nat /\ e[n] \in Nat /\ e[1] \in Nat
      BY <1>1, <1>2, <1>6
    <2>2. e[1] <= e[k]
      BY <1>7 DEF Up
    <2>. QED BY <1>5, <2>1, <2>2
  <1>9. e[k] = Len(line[k]) /\ e[n] = Len(line[n])
    BY <1>1, <1>2, <1>6
  <1>10. e[k] <= e[n] /\ \A i \in 1..e[k] : line[n][i] = line[k][i]
    BY <1>7 DEF Up
  <1>. QED BY <1>8, <1>9, <1>10 DEF n

\* The buffer holds the line that is written for a call.
Holding(m, c, line) ==
  /\ Sendable(c) /\ Written(c, line) /\ m \in Mem /\ NUL \in Range(m)
  /\ Current(m) = line[Len(c.words)] \o Trail(c)

\* What is in the buffer when it holds a line: every word ends before a blank,
\* or before the NUL.
LEMMA Cells ==
  ASSUME NEW c \in Calls, NEW line, NEW m, Holding(m, c, line), NEW k \in 1..Len(c.words)
  PROVE  /\ Len(line[k]) \in 1..(LineSize - 1)
         /\ \A i \in 1..Len(line[k]) : Cell(m, i - 1) = line[k][i]
         /\ Cell(m, Len(line[k])) \in {Space, NUL}
         /\ k = Len(c.words) /\ ~c.blank => Cell(m, Len(line[k])) = NUL
  <1> DEFINE n    == Len(c.words)
             full == line[n]
             t    == Trail(c)
             cur  == Current(m)
             l    == Len(cur)
             e    == Len(line[k])
             f    == Len(full)
  <1>1. n \in Nat /\ n \in 1..n /\ t \in Seq(Chars)
    BY WordsAre
  <1>2. e \in Nat \ {0} /\ f \in Nat /\ e <= f /\ \A i \in 1..e : full[i] = line[k][i]
    BY Grows DEF Holding
  <1>3. full \in Seq(Chars)
    BY <1>1 DEF Holding, Written
  <1>4. /\ l \in 0..(LineSize - 1) /\ m[l] = NUL
        /\ \A i \in 1..l : cur[i] = m[i - 1]
    BY CurrentIs DEF Holding
  <1>5. cur = full \o t /\ m \in Mem
    BY DEF Holding
  <1> HIDE DEF t, cur
  <1>6. /\ l = f + Len(t) /\ Len(t) \in Nat
        /\ \A i \in 1..f : cur[i] = full[i]
        /\ \A i \in 1..Len(t) : cur[f + i] = t[i]
    <2> HIDE DEF full
    <2>1. /\ Len(full \o t) = Len(full) + Len(t) /\ Len(t) \in Nat
          /\ \A i \in 1..Len(full) : (full \o t)[i] = full[i]
          /\ \A i \in 1..Len(t) : (full \o t)[Len(full) + i] = t[i]
      BY <1>1, <1>3, Joined
    <2>. QED BY <1>5, <2>1
  <1> HIDE DEF full, l, e, f, n
  <1>7. LineSize \in Nat \ {0} /\ DOMAIN m = 0..(LineSize - 1)
    BY <1>5, CommandLineAssumption DEF Mem
  <1>8. \A i \in 0..(LineSize - 1) : Cell(m, i) = m[i]
    BY <1>7 DEF Cell
  <1>9. e \in 1..(LineSize - 1)
    BY <1>2, <1>4, <1>6, <1>7
  <1>10. \A i \in 1..e : Cell(m, i - 1) = line[k][i]
    <2>1. \A i \in 1..e : i \in 1..f /\ i \in 1..l /\ i - 1 \in 0..(LineSize - 1)
      BY <1>2, <1>4, <1>6, <1>7
    <2>. QED BY <1>2, <1>4, <1>6, <1>8, <2>1
  <1>11. ASSUME k = n PROVE Cell(m, e) \in {Space, NUL} /\ (~c.blank => Cell(m, e) = NUL)
    <2>1. e = f
      BY <1>11 DEF e, f, full
    <2>2. CASE c.blank
      <3>1. Len(t) = 1 /\ t[1] = Space
        BY <2>2 DEF t, Trail
      <3>2. cur[f + 1] = Space
        <4>1. 1 \in 1..Len(t)
          BY <3>1
        <4>. QED BY <1>6, <3>1, <4>1
      <3>3. f + 1 \in 1..l /\ f + 1 - 1 = f /\ f \in 0..(LineSize - 1)
        BY <1>2, <1>4, <1>6, <1>7, <3>1
      <3>4. m[f] = Space
        <4> DEFINE j == f + 1
        <4>1. j \in 1..l /\ j - 1 = f /\ cur[j] = Space
          BY <3>2, <3>3
        <4> HIDE DEF j
        <4>2. cur[j] = m[j - 1]
          BY <1>4, <4>1
        <4>. QED BY <4>1, <4>2
      <3>. QED BY <1>8, <2>1, <2>2, <3>3, <3>4
    <2>3. CASE ~c.blank
      <3>1. Len(t) = 0
        BY <2>3 DEF t, Trail
      <3>2. l = e /\ e \in 0..(LineSize - 1)
        BY <1>2, <1>4, <1>6, <2>1, <3>1
      <3>. QED BY <1>4, <1>8, <3>2
    <2>. QED BY <2>2, <2>3
  <1>12. ASSUME k # n PROVE Cell(m, e) = Space
    <2> DEFINE j == k + 1
    <2>1. j \in 2..Len(c.words) /\ j \in 1..Len(c.words) /\ j - 1 = k
      BY <1>1, <1>12 DEF n
    <2> HIDE DEF j
    <2>2. /\ Len(line[j]) = Len(line[k]) + 1 + Len(Word(c, j)) /\ Len(Word(c, j)) \in Nat
          /\ line[j][Len(line[k]) + 1] = Space
      <3>1. Written(c, line)
        BY DEF Holding
      <3>2. /\ Len(line[j]) = Len(line[j - 1]) + 1 + Len(Word(c, j)) /\ Len(Word(c, j)) \in Nat
            /\ line[j][Len(line[j - 1]) + 1] = Space
        <4>1. j \in 2..Len(c.words)
          BY <2>1
        <4>2. Spaced(line[j - 1], Word(c, j), line[j])
          BY <3>1, <4>1, Added
        <4>. QED BY <4>2 DEF Spaced
      <3>3. j - 1 = k
        BY <2>1
      <3>. QED BY <3>2, <3>3
    <2>3. Len(line[j]) \in Nat /\ Len(line[j]) <= f /\ \A i \in 1..Len(line[j]) : full[i] = line[j][i]
      BY <2>1, Grows DEF Holding, f, full, n
    <2>4. e + 1 \in 1..Len(line[j])
      <3> DEFINE b == Len(line[j])
                 d == Len(Word(c, j))
      <3>1. b = e + 1 + d /\ d \in Nat /\ e \in Nat
        BY <1>2, <2>2 DEF e
      <3> HIDE DEF b, d
      <3>2. e + 1 \in 1..b
        BY <3>1
      <3>. QED BY <3>2 DEF b
    <2>5. full[e + 1] = Space
      BY <2>2, <2>3, <2>4 DEF e
    <2>6. e + 1 \in 1..f /\ e + 1 \in 1..l /\ e + 1 - 1 = e /\ e \in 0..(LineSize - 1)
      BY <1>2, <1>4, <1>6, <1>7, <2>3, <2>4
    <2> DEFINE i == e + 1
    <2>7. i \in 1..f /\ i \in 1..l /\ i - 1 = e /\ full[i] = Space
      BY <2>5, <2>6
    <2> HIDE DEF i
    <2>8. m[i - 1] = Space
      BY <1>4, <1>6, <2>7
    <2>. QED BY <1>8, <2>6, <2>7, <2>8
  <1>. QED BY <1>9, <1>10, <1>11, <1>12 DEF n, e

LEMMA BlanksAt ==
  ASSUME NEW m \in Mem, NEW p \in 0..LineSize, NEW q \in p..LineSize,
         Cell(m, q) # Space, \A r \in p..(q - 1) : Cell(m, r) = Space
  PROVE  Blanks(m, p) = q
  <1> DEFINE f == Blanks(m, p)
  <1>1. /\ f \in p..LineSize /\ Cell(m, f) # Space
        /\ \A r \in p..(f - 1) : Cell(m, r) = Space
    BY BlanksIs
  <1>2. LineSize \in Nat
    BY CommandLineAssumption
  <1> HIDE DEF f
  <1>3. f \notin p..(q - 1) /\ q \notin p..(f - 1)
    BY <1>1
  <1>. QED BY <1>1, <1>2, <1>3 DEF f

LEMMA Apart == /\ Space # DoubleQuote /\ Space # NUL /\ DoubleQuote # NUL
  <1>1. Space # NUL /\ DoubleQuote # NUL
    BY Characters
  <1>2. Space # DoubleQuote
    BY Zenon DEF Space, DoubleQuote
  <1>. QED BY <1>1, <1>2

\* The text in the buffer from p on is w.
Holds(m, p, w) == \A i \in 1..Len(w) : Cell(m, p + i - 1) = w[i]

LEMMA HeldIs ==
  ASSUME NEW m \in Mem, NEW p \in Nat, NEW w \in Seq(Chars), p + Len(w) <= LineSize, Holds(m, p, w)
  PROVE  Between(m, p, p + Len(w)) = w
  <1> DEFINE l == Len(w)
             q == p + l
             b == Between(m, p, q)
  <1>1. l \in Nat /\ w = [i \in 1..l |-> w[i]]
    BY LenProperties
  <1>2. q - p = l
    BY <1>1
  <1>3. LineSize \in Nat /\ DOMAIN m = 0..(LineSize - 1)
    BY CommandLineAssumption DEF Mem
  <1>4. b = [i \in 1..l |-> m[p + i - 1]]
    BY <1>2 DEF Between
  <1>5. ASSUME NEW i \in 1..l PROVE m[p + i - 1] = w[i]
    <2>1. p + i - 1 \in DOMAIN m
      BY <1>1, <1>3
    <2>2. Cell(m, p + i - 1) = w[i]
      BY DEF Holds
    <2>. QED BY <2>1, <2>2 DEF Cell
  <1> HIDE DEF l
  <1>. QED BY <1>1, <1>4, <1>5 DEF l

\* In a word, the loop adds nothing until the word's end.
LEMMA Inside ==
  ASSUME NEW m \in Mem, NEW scan, Scans(m, scan), NEW p \in 0..LineSize, NEW q \in p..LineSize,
         \A r \in p..(q - 1) : Cell(m, r) \notin {Space, DoubleQuote, NUL}
  PROVE  scan[p] = scan[q]
  <1> DEFINE K == {j \in Nat : j <= q - p => scan[q - j] = scan[q]}
  <1>1. LineSize \in Nat
    BY CommandLineAssumption
  <1>2. 0 \in K
    BY <1>1
  <1>3. ASSUME NEW j \in K PROVE j + 1 \in K
    <2> SUFFICES ASSUME j + 1 <= q - p PROVE scan[q - (j + 1)] = scan[q]
      OBVIOUS
    <2> DEFINE x == q - (j + 1)
    <2>1. /\ scan[q - j] = scan[q] /\ x + 1 = q - j
          /\ x \in p..(q - 1) /\ x \in 0..(LineSize + 2) /\ x \in 0..LineSize
      BY <1>1
    <2> HIDE DEF x
    <2>2. Cell(m, x) # Space /\ Cell(m, x) # DoubleQuote /\ Cell(m, x) # NUL
      BY <2>1
    <2>3. Start(m, x) = x
      <3>1. x \in x..LineSize /\ \A r \in x..(x - 1) : Cell(m, r) = Space
        BY <2>1
      <3>. QED BY <2>1, <2>2, <3>1, BlanksAt DEF Start
    <2>4. End(m, x) = x
      BY <2>1, <2>2, <2>3, PassedIs DEF End
    <2>5. Pieces(m, x) = <<>> \o <<>>
      BY <2>1, <2>3, <2>4 DEF Pieces
    <2>6. scan[x] = Pieces(m, x) \o scan[End(m, x) + 1] /\ scan[x + 1] \in Seq(Texts)
      BY <1>1, <2>1, <2>2 DEF Scans
    <2>. QED BY <2>1, <2>4, <2>5, <2>6
  <1>4. K \in SUBSET Nat
    OBVIOUS
  <1> HIDE DEF K
  <1>5. q - p \in K /\ q - (q - p) = p
    <2>1. q - p \in Nat /\ q - (q - p) = p
      BY <1>1
    <2>. QED BY <1>2, <1>3, <1>4, <2>1, SetInduction
  <1>. QED BY <1>5 DEF K

\* A word without quotes is found after its blank.
LEMMA NoQuotes ==
  ASSUME NEW m \in Mem, NEW scan, Scans(m, scan), NEW p \in Nat,
         NEW w \in Seq(Chars), Readable(w), Unquoted(w), NEW q \in Nat, q = p + 1 + Len(w), q <= LineSize,
         Cell(m, p) = Space, Holds(m, p + 1, w), Cell(m, q) \in {Space, NUL}
  PROVE  scan[p] = <<w>> \o scan[q]
  <1> DEFINE l     == Len(w)
             start == p + 1
             stop  == p + 1 + l
             one   == <<w>>
             none  == <<>>
  <1>1. LineSize \in Nat /\ l \in Nat /\ l >= 1 /\ w \in Seq(Chars)
    BY CommandLineAssumption DEF Readable, Unquoted
  <1>2. \A r \in start..(stop - 1) : Cell(m, r) \notin {Space, DoubleQuote, NUL}
    <2> SUFFICES ASSUME NEW r \in start..(stop - 1) PROVE Cell(m, r) \notin {Space, DoubleQuote, NUL}
      OBVIOUS
    <2> DEFINE i == r - p
    <2>1. i \in 1..l /\ p + 1 + i - 1 = r
      BY <1>1
    <2> HIDE DEF i
    <2>2. Cell(m, p + 1 + i - 1) = w[i]
      BY <2>1 DEF Holds
    <2>3. w[i] # Space /\ w[i] # DoubleQuote /\ w[i] # NUL
      BY <2>1 DEF Readable, Unquoted
    <2>. QED BY <2>1, <2>2, <2>3
  <1>3. /\ start \in 0..LineSize /\ stop \in start..LineSize /\ start \in start..(stop - 1)
        /\ p \in 0..LineSize /\ p \in 0..(LineSize + 2) /\ start + 1 \in 0..LineSize
        /\ start \in p..LineSize /\ stop \in (start + 1)..LineSize /\ p < start /\ start < stop
        /\ start \in 0..(LineSize + 1) /\ stop \in start..(LineSize + 1)
        /\ \A r \in p..(start - 1) : r = p
    BY <1>1
  <1> HIDE DEF start, stop
  <1>4. Start(m, p) = start
    <2>1. Cell(m, start) # Space /\ \A r \in p..(start - 1) : Cell(m, r) = Space
      BY <1>2, <1>3
    <2>. QED BY <1>3, <2>1, BlanksAt DEF Start
  <1>5. Stop(m, p) = stop
    <2>1. /\ Cell(m, stop) \in {Space, DoubleQuote} \cup {NUL}
          /\ \A r \in start..(stop - 1) : Cell(m, r) \notin {Space, DoubleQuote} \cup {NUL}
      BY <1>2 DEF stop
    <2> DEFINE cs == {Space, DoubleQuote}
    <2> HIDE DEF cs
    <2>2. Find(m, start, cs) = stop
      BY <1>3, <2>1, FindAt DEF cs
    <2>. QED BY <1>4, <2>2 DEF Stop, cs
  <1>6. End(m, p) = start
    <2>1. Cell(m, start) # DoubleQuote
      BY <1>2, <1>3
    <2>. QED BY <1>3, <1>4, <2>1, PassedIs DEF End
  <1>7. Between(m, start, stop) = w
    <2>1. start \in Nat /\ start + Len(w) <= LineSize /\ Holds(m, start, w) /\ stop = start + Len(w)
      BY <1>1 DEF start, stop
    <2>. QED BY <1>1, <2>1, HeldIs
  <1>8. Pieces(m, p) = one \o none
    <2>1. Pieces(m, p) =
            (IF p < start /\ start < stop THEN <<Between(m, start, stop)>> ELSE none)
            \o (IF start < start THEN <<Between(m, start + 1, start)>> ELSE none)
      BY <1>4, <1>5, <1>6 DEF Pieces
    <2>2. ~(start < start)
      BY <1>3
    <2>. QED BY <1>3, <1>7, <2>1, <2>2
  <1>9. scan[p] = Pieces(m, p) \o scan[start + 1]
    BY <1>3, <1>6, Apart DEF Scans
  <1>10. scan[start + 1] = scan[stop]
    <2>1. \A r \in (start + 1)..(stop - 1) : r \in start..(stop - 1)
      BY <1>3
    <2> DEFINE n == start + 1
    <2>2. /\ n \in 0..LineSize /\ stop \in n..LineSize
          /\ \A r \in n..(stop - 1) : Cell(m, r) \notin {Space, DoubleQuote, NUL}
      BY <1>2, <1>3, <2>1
    <2> HIDE DEF n
    <2>3. scan[n] = scan[stop]
      BY <2>2, Inside
    <2>. QED BY <2>3 DEF n
  <1>11. one \o none = one
    <2>1. one \in Seq({w})
      OBVIOUS
    <2>. QED BY <2>1, ConcatEmptySeq
  <1>. QED BY <1>8, <1>9, <1>10, <1>11 DEF stop

\* So is one in quotes.
LEMMA InQuotes ==
  ASSUME NEW m \in Mem, NEW scan, Scans(m, scan), NEW p \in Nat,
         NEW w \in Seq(Chars), NEW v, Spells(v, w, TRUE), NEW q \in Nat, q = p + 1 + Len(v), q <= LineSize,
         Cell(m, p) = Space, Holds(m, p + 1, v)
  PROVE  scan[p] = <<w>> \o scan[q]
  <1> DEFINE l     == Len(w)
             start == p + 1
             text  == p + 2
             end   == p + 2 + l
             one   == <<w>>
             none  == <<>>
  <1>1. /\ LineSize \in Nat /\ l \in Nat /\ w \in Seq(Chars) /\ Readable(w)
        /\ Len(v) = l + 2 /\ v[1] = DoubleQuote /\ v[l + 2] = DoubleQuote
        /\ \A i \in 1..l : v[i + 1] = w[i]
    BY CommandLineAssumption DEF Spells, Readable
  <1>2. LineSize \in Nat /\ l \in Nat /\ w \in Seq(Chars) /\ q = p + 3 + l /\ p + 3 + l <= LineSize
    BY <1>1
  <1>3. \A i \in 1..(l + 2) : Cell(m, p + 1 + i - 1) = v[i]
    BY <1>1 DEF Holds
  <1>4. Cell(m, p + 1) = DoubleQuote
    <2>1. 1 \in 1..(l + 2) /\ p + 1 + 1 - 1 = p + 1
      BY <1>2
    <2>. QED BY <1>1, <1>3, <2>1
  <1>5. Cell(m, p + 2 + l) = DoubleQuote
    <2> DEFINE i == l + 2
    <2>1. i \in 1..(l + 2) /\ p + 1 + i - 1 = p + 2 + l /\ v[i] = DoubleQuote
      BY <1>1
    <2> HIDE DEF i
    <2>2. Cell(m, p + 1 + i - 1) = v[i]
      BY <1>3, <2>1
    <2>. QED BY <2>1, <2>2
  <1>6. Holds(m, p + 2, w)
    <2>1. ASSUME NEW i \in 1..l PROVE Cell(m, p + 2 + i - 1) = w[i]
      <3> DEFINE j == i + 1
      <3>1. j \in 1..(l + 2) /\ p + 1 + j - 1 = p + 2 + i - 1
        <4> HIDE DEF l
        <4>. QED BY <1>2
      <3>2. v[j] = w[i]
        BY <1>1
      <3> HIDE DEF j
      <3>3. Cell(m, p + 1 + j - 1) = v[j]
        BY <1>3, <3>1
      <3>. QED BY <3>1, <3>2, <3>3
    <2>. QED BY <2>1 DEF Holds
  <1>7. \A r \in text..(end - 1) : Cell(m, r) \notin {DoubleQuote, NUL}
    <2> SUFFICES ASSUME NEW r \in text..(end - 1) PROVE Cell(m, r) \notin {DoubleQuote, NUL}
      OBVIOUS
    <2> DEFINE i == r - p - 1
    <2>1. i \in 1..l /\ p + 2 + i - 1 = r
      BY <1>2
    <2> HIDE DEF i
    <2>2. Cell(m, p + 2 + i - 1) = w[i]
      BY <1>6, <2>1 DEF Holds
    <2>3. w[i] # DoubleQuote /\ w[i] # NUL
      BY <1>1, <2>1 DEF Readable
    <2>. QED BY <2>1, <2>2, <2>3
  <1>8. /\ start \in 0..LineSize /\ start \in p..LineSize /\ p < start /\ start + 1 = text
        /\ p \in 0..LineSize /\ p \in 0..(LineSize + 2) /\ text \in Nat
        /\ text \in 0..(LineSize + 1) /\ end \in text..(LineSize + 1) /\ start < end
        /\ start \in 0..(LineSize + 1) /\ start \in start..(LineSize + 1)
        /\ \A r \in p..(start - 1) : r = p
        /\ \A r \in start..(start - 1) : FALSE
        /\ end + 1 = q /\ text + l <= LineSize /\ end = text + l
    BY <1>2
  <1>9. Cell(m, start) = DoubleQuote /\ Cell(m, end) = DoubleQuote
    BY <1>4, <1>5
  <1>10. Between(m, text, end) = w
    <2>1. Between(m, text, text + Len(w)) = w
      <3>1. text \in Nat /\ text + Len(w) <= LineSize /\ Holds(m, text, w)
        BY <1>8, <1>6
      <3> HIDE DEF text
      <3>. QED BY <1>2, <3>1, HeldIs
    <2>. QED BY <1>8, <2>1
  <1> HIDE DEF start, text, end
  <1>11. Start(m, p) = start
    <2>1. Cell(m, start) # Space /\ \A r \in p..(start - 1) : Cell(m, r) = Space
      BY <1>8, <1>9, Apart
    <2>. QED BY <1>8, <2>1, BlanksAt DEF Start
  <1>12. Stop(m, p) = start
    <2> DEFINE cs == {Space, DoubleQuote}
    <2>1. /\ Cell(m, start) \in cs \cup {NUL}
          /\ \A r \in start..(start - 1) : Cell(m, r) \notin cs \cup {NUL}
      BY <1>8, <1>9
    <2> HIDE DEF cs
    <2>2. Find(m, start, cs) = start
      <3>1. start \in 0..(LineSize + 1) /\ start \in start..(LineSize + 1)
        BY <1>8
      <3>. QED BY <2>1, <3>1, FindAt
    <2>. QED BY <1>11, <2>2 DEF Stop, cs
  <1>13. End(m, p) = end
    <2> DEFINE cs == {DoubleQuote}
    <2>1. /\ Cell(m, end) \in cs \cup {NUL}
          /\ \A r \in text..(end - 1) : Cell(m, r) \notin cs \cup {NUL}
      BY <1>7, <1>9
    <2> HIDE DEF cs
    <2>2. Find(m, text, cs) = end
      <3>1. text \in 0..(LineSize + 1) /\ end \in text..(LineSize + 1)
        BY <1>8
      <3>. QED BY <2>1, <3>1, FindAt
    <2>3. Passed(m, start) = Find(m, start + 1, {DoubleQuote})
      BY <1>8, <1>9, PassedIs
    <2>. QED BY <1>8, <1>11, <2>2, <2>3 DEF End, cs
  <1>14. Pieces(m, p) = none \o one
    <2>1. Pieces(m, p) =
            (IF p < start /\ start < start THEN <<Between(m, start, start)>> ELSE none)
            \o (IF start < end THEN <<Between(m, start + 1, end)>> ELSE none)
      BY <1>11, <1>12, <1>13 DEF Pieces
    <2>2. ~(start < start)
      BY <1>8
    <2>. QED BY <1>8, <1>10, <2>1, <2>2
  <1>15. scan[p] = Pieces(m, p) \o scan[end + 1]
    BY <1>8, <1>13, Apart DEF Scans
  <1>16. none \o one = one
    <2>1. one \in Seq({w})
      OBVIOUS
    <2>. QED BY <2>1, ConcatEmptySeq
  <1>. QED BY <1>8, <1>14, <1>15, <1>16

\* Each word of the line is found where the one before it ends.
LEMMA WordFound ==
  ASSUME NEW c \in Calls, NEW line, NEW m, Holding(m, c, line), NEW scan, Scans(m, scan),
         NEW k \in 2..Len(c.words)
  PROVE  scan[Len(line[k - 1])] = <<c.words[k]>> \o scan[Len(line[k])]
  <1> DEFINE p == Len(line[k - 1])
             q == Len(line[k])
             w == c.words[k]
             v == Word(c, k)
  <1>1. k \in 1..Len(c.words) /\ k # 1 /\ k - 1 \in 1..Len(c.words)
    BY WordsAre
  <1>2. Spells(v, w, c.quoted) /\ (~c.quoted => Unquoted(w))
    BY <1>1, WordIs DEF Holding
  <1>3. /\ p \in Nat /\ Len(v) \in Nat /\ q = p + 1 + Len(v)
        /\ line[k][p + 1] = Space
        /\ \A i \in 1..Len(v) : line[k][p + 1 + i] = v[i]
    <2>1. Spaced(line[k - 1], Word(c, k), line[k])
      BY Added DEF Holding
    <2>. QED BY <2>1 DEF Spaced
  <1>4. /\ q \in 1..(LineSize - 1) /\ Cell(m, q) \in {Space, NUL}
        /\ \A i \in 1..q : Cell(m, i - 1) = line[k][i]
    BY <1>1, Cells
  <1>5. LineSize \in Nat /\ m \in Mem
    BY CommandLineAssumption DEF Holding
  <1> HIDE DEF p, q, w, v
  <1>6. Cell(m, p) = Space
    <2> DEFINE i == p + 1
    <2>1. i \in 1..q /\ i - 1 = p /\ line[k][i] = Space
      BY <1>3
    <2> HIDE DEF i
    <2>. QED BY <1>4, <2>1
  <1>7. \A i \in 1..Len(v) : Cell(m, p + i) = v[i]
    <2> SUFFICES ASSUME NEW i \in 1..Len(v) PROVE Cell(m, p + i) = v[i]
      OBVIOUS
    <2> DEFINE j == p + 1 + i
    <2>1. j \in 1..q /\ j - 1 = p + i /\ line[k][j] = v[i]
      BY <1>3
    <2> HIDE DEF j
    <2>. QED BY <1>4, <2>1
  <1>8. Holds(m, p + 1, v)
    <2>1. \A i \in 1..Len(v) : p + 1 + i - 1 = p + i
      BY <1>3
    <2>. QED BY <1>7, <2>1 DEF Holds
  <1>9. p \in Nat /\ q \in Nat /\ q <= LineSize /\ w \in Seq(Chars) /\ Cell(m, q) \in {Space, NUL}
    BY <1>2, <1>3, <1>4, <1>5 DEF Spells, Readable
  <1>10. scan[p] = <<w>> \o scan[q]
    <2>1. CASE ~c.quoted
      <3>1. v = w
        BY <1>2, <2>1 DEF Spells
      <3>2. Readable(w) /\ Unquoted(w) /\ q = p + 1 + Len(w) /\ Holds(m, p + 1, w)
        BY <1>2, <1>3, <1>8, <2>1, <3>1 DEF Spells
      <3>3. /\ m \in Mem /\ p \in Nat /\ w \in Seq(Chars) /\ Readable(w) /\ Unquoted(w)
            /\ q \in Nat /\ q = p + 1 + Len(w) /\ q <= LineSize
            /\ Cell(m, p) = Space /\ Holds(m, p + 1, w) /\ Cell(m, q) \in {Space, NUL}
        BY <1>5, <1>6, <1>9, <3>2
      <3>. QED BY <3>3, NoQuotes, ZenonT(40)
    <2>2. CASE c.quoted
      <3>1. Spells(v, w, TRUE)
        BY <1>2, <2>2 DEF Spells
      <3>2. q = p + 1 + Len(v)
        BY <1>3
      <3>. QED BY <1>5, <1>6, <1>8, <1>9, <3>1, <3>2, InQuotes, ZenonT(40)
    <2>. QED BY <2>1, <2>2
  <1>. QED BY <1>10 DEF p, q, w

LEMMA Rejoin ==
  \A a, b, c \in Seq(Texts) : (a \o b) \o c = a \o (b \o c)
  BY ConcatAssociative

\* All of them are found, before whatever else the buffer holds.
LEMMA AllFound ==
  ASSUME NEW c \in Calls, NEW line, NEW m, Holding(m, c, line), NEW scan, Scans(m, scan)
  PROVE  /\ scan[Len(line[Len(c.words)])] \in Seq(Texts)
         /\ Arguments(m, scan) = c.words \o scan[Len(line[Len(c.words)])]
         /\ ~c.blank => scan[Len(line[Len(c.words)])] = <<>>
  <1> DEFINE n     == Len(c.words)
             w     == c.words
             e     == [k \in 1..n |-> Len(line[k])]
             args  == Arguments(m, scan)
  <1>1. n \in Nat \ {0} /\ 1 \in 1..n /\ n \in 1..n /\ w \in Seq(Seq(Chars))
    BY WordsAre
  <1>2. LineSize \in Nat /\ m \in Mem
    BY CommandLineAssumption DEF Holding
  <1>3. w \in Seq(Texts) /\ \A k \in 1..n : w[k] \in Texts
    <2>1. Chars \subseteq Letters \cup {NUL}
      BY Characters
    <2>2. Seq(Chars) \subseteq Texts
      BY <2>1, SeqMonotonic DEF Texts
    <2>3. w \in Seq(Texts)
      BY <1>1, <2>2, SeqMonotonic
    <2>. QED BY <2>3, ElementOfSeq
  <1>4. \A k \in 1..n : /\ e[k] = Len(line[k]) /\ e[k] \in 1..(LineSize - 1)
                        /\ e[k] \in 0..(LineSize + 2) /\ e[k] \in 0..LineSize
    <2> SUFFICES ASSUME NEW k \in 1..n
                 PROVE  /\ e[k] = Len(line[k]) /\ e[k] \in 1..(LineSize - 1)
                        /\ e[k] \in 0..(LineSize + 2) /\ e[k] \in 0..LineSize
      OBVIOUS
    <2>1. e[k] = Len(line[k])
      OBVIOUS
    <2>2. Len(line[k]) \in 1..(LineSize - 1)
      BY Cells
    <2> HIDE DEF e
    <2>. QED BY <1>2, <2>1, <2>2
  <1>5. \A k \in 1..n : scan[e[k]] \in Seq(Texts)
    <2> HIDE DEF e
    <2>. QED BY <1>4 DEF Scans
  <1>6. args = <<w[1]>> \o scan[e[1]]
    <2> DEFINE cs == {Space, DoubleQuote}
               f  == e[1]
    <2>1. /\ line[1] = w[1] /\ Len(w[1]) = f
          /\ \A i \in 1..f : Cell(m, i - 1) = w[1][i]
          /\ Cell(m, f) \in {Space, NUL}
      <3>1. line[1] = w[1]
        BY DEF Holding, Written
      <3>. QED BY <1>1, <3>1, Cells
    <2>2. \A i \in 1..f : w[1][i] \notin {Space, DoubleQuote, NUL}
      <3>1. \A i \in 1..Len(w[1]) : w[1][i] # Space /\ w[1][i] # DoubleQuote /\ w[1][i] # NUL
        <4> DEFINE x == c.words[1]
        <4>1. Spells(Word(c, 1), x, c.quoted) /\ Unquoted(x)
          BY <1>1, WordIs DEF Holding
        <4> HIDE DEF x
        <4>2. \A i \in 1..Len(x) : x[i] # Space /\ x[i] # DoubleQuote /\ x[i] # NUL
          BY <4>1 DEF Spells, Readable, Unquoted
        <4>. QED BY <4>2 DEF x
      <3> HIDE DEF f
      <3>. QED BY <2>1, <3>1
    <2>3. f \in 1..(LineSize - 1)
      BY <1>1, <1>4
    <2> HIDE DEF f, e, w, args
    <2>4. \A r \in 0..(f - 1) : Cell(m, r) \notin {Space, DoubleQuote, NUL}
      <3> SUFFICES ASSUME NEW r \in 0..(f - 1) PROVE Cell(m, r) \notin {Space, DoubleQuote, NUL}
        OBVIOUS
      <3> DEFINE i == r + 1
      <3>1. i \in 1..f /\ i - 1 = r
        BY <2>3
      <3> HIDE DEF i
      <3>. QED BY <2>1, <2>2, <3>1
    <2>5. Find(m, 0, cs) = f
      <3>1. /\ 0 \in 0..(LineSize + 1) /\ f \in 0..(LineSize + 1)
            /\ Cell(m, f) \in cs \cup {NUL}
            /\ \A r \in 0..(f - 1) : Cell(m, r) \notin cs \cup {NUL}
        BY <1>2, <2>1, <2>3, <2>4
      <3> HIDE DEF cs
      <3>. QED BY <1>2, <3>1, FindAt
    <2>6. Between(m, 0, f) = w[1]
      <3>1. Holds(m, 0, w[1])
        <4>1. ASSUME NEW i \in 1..Len(w[1]) PROVE Cell(m, 0 + i - 1) = w[1][i]
          <5>1. i \in 1..f /\ 0 + i - 1 = i - 1
            BY <2>1, <2>3
          <5>. QED BY <2>1, <5>1
        <4>. QED BY <4>1 DEF Holds
      <3>2. 0 + Len(w[1]) = f /\ f <= LineSize /\ w[1] \in Seq(Chars) /\ 0 \in Nat
        BY <1>1, <1>2, <2>1, <2>3, ElementOfSeq DEF n, w
      <3>3. Between(m, 0, 0 + Len(w[1])) = w[1]
        BY <1>2, <3>1, <3>2, HeldIs
      <3>. QED BY <3>2, <3>3
    <2>7. f > 0
      BY <2>3
    <2>. QED BY <2>5, <2>6, <2>7 DEF Arguments, args, cs, f
  <1>7. ASSUME NEW k \in 2..n PROVE scan[e[k - 1]] = <<w[k]>> \o scan[e[k]]
    <2>1. k \in 1..n /\ k - 1 \in 1..n
      BY <1>1
    <2>2. k \in 2..Len(c.words)
      OBVIOUS
    <2> HIDE DEF n, e, args
    <2>3. scan[Len(line[k - 1])] = <<w[k]>> \o scan[Len(line[k])]
      BY <2>2, WordFound, ZenonT(40)
    <2>. QED BY <1>4, <2>1, <2>3
  <1> HIDE DEF n, w, e, args
  <1> DEFINE Done(i) == args = SubSeq(w, 1, i) \o scan[e[i]]
             K       == {j \in Nat : j + 1 <= n => Done(j + 1)}
  <1>8. Done(1)
    <2>1. SubSeq(w, 1, 1) = <<w[1]>>
      <3> DEFINE x == SubSeq(w, 1, 1)
      <3>1. x \in Seq(Texts) /\ Len(x) = 1 /\ x[1] = w[1]
        <4>1. /\ 1 \in Int /\ 1 <= 1 /\ 1 <= Len(w) /\ 1 - 1 + 1 = 1 /\ 1 + 1 - 1 = 1
              /\ 1 \in 1..(1 - 1 + 1)
          BY <1>1 DEF n, w
        <4>2. /\ x \in Seq(Texts) /\ Len(x) = 1 - 1 + 1
              /\ \A i \in 1..(1 - 1 + 1) : x[i] = w[1 + i - 1]
          BY <1>3, <4>1, PartOf
        <4> HIDE DEF x
        <4>. QED BY <4>1, <4>2
      <3> HIDE DEF x
      <3>2. x = <<x[1]>>
        BY <3>1
      <3>. QED BY <3>1, <3>2 DEF x
    <2>. QED BY <1>6, <2>1
  <1>9. ASSUME NEW i \in 1..n, i + 1 <= n, Done(i) PROVE Done(i + 1)
    <2> DEFINE k    == i + 1
               a    == SubSeq(w, 1, i)
               b    == SubSeq(w, 1, k)
               one  == <<w[k]>>
               tail == scan[e[k]]
    <2>1. k \in 2..n /\ k \in 1..n /\ k - 1 = i
      BY <1>1, <1>9
    <2>2. args = a \o scan[e[i]]
      BY <1>9
    <2>3. scan[e[i]] = one \o tail
      <3> HIDE DEF k
      <3>. QED BY <1>7, <2>1
    <2>4. a \in Seq(Texts) /\ Len(a) = i /\ \A j \in 1..i : a[j] = w[j]
      <3>1. 1 \in Int /\ i \in Int /\ 1 <= 1 /\ i <= Len(w) /\ 1 <= i /\ i - 1 + 1 = i
            /\ \A j \in 1..i : 1 + j - 1 = j
        BY <1>1 DEF n, w
      <3>2. /\ a \in Seq(Texts) /\ Len(a) = IF 1 <= i THEN i - 1 + 1 ELSE 0
            /\ \A j \in 1..(i - 1 + 1) : a[j] = w[1 + j - 1]
        BY <1>3, <3>1, PartOf
      <3> HIDE DEF a
      <3>. QED BY <3>1, <3>2
    <2>5. b \in Seq(Texts) /\ Len(b) = k /\ \A j \in 1..k : b[j] = w[j]
      <3>1. 1 \in Int /\ k \in Int /\ 1 <= 1 /\ k <= Len(w) /\ 1 <= k /\ k - 1 + 1 = k
            /\ \A j \in 1..k : 1 + j - 1 = j
        BY <1>1, <1>9 DEF n, w
      <3> HIDE DEF k
      <3>2. /\ b \in Seq(Texts) /\ Len(b) = IF 1 <= k THEN k - 1 + 1 ELSE 0
            /\ \A j \in 1..(k - 1 + 1) : b[j] = w[1 + j - 1]
        BY <1>3, <3>1, PartOf
      <3> HIDE DEF b
      <3>. QED BY <3>1, <3>2
    <2>6. one \in Seq(Texts) /\ Len(one) = 1 /\ one[1] = w[k] /\ tail \in Seq(Texts)
      <3>1. w[k] \in Texts /\ tail \in Seq(Texts)
        <4> HIDE DEF k
        <4>. QED BY <1>3, <1>5, <2>1
      <3> HIDE DEF k, tail
      <3>. QED BY <3>1, Singletons
    <2> HIDE DEF a, b, one, tail
    <2>7. b = a \o one
      <3> DEFINE x == a \o one
      <3>1. /\ x \in Seq(Texts) /\ Len(x) = Len(a) + Len(one)
            /\ \A j \in 1..Len(a) : x[j] = a[j]
            /\ \A j \in 1..Len(one) : x[Len(a) + j] = one[j]
        <4>1. a \in Seq(Texts) /\ one \in Seq(Texts)
          BY <2>4, <2>6
        <4>. QED BY <4>1, Joined
      <3> HIDE DEF x
      <3>2. Len(x) = k /\ \A j \in 1..k : x[j] = b[j]
        <4>1. Len(x) = i + 1 /\ \A j \in 1..i : x[j] = w[j]
          BY <2>4, <2>6, <3>1
        <4>2. x[i + 1] = w[i + 1]
          <5>1. 1 \in 1..Len(one)
            BY <2>6
          <5>2. x[Len(a) + 1] = one[1]
            BY <3>1, <5>1
          <5>. QED BY <2>4, <2>6, <5>2
        <4>3. \A j \in 1..k : j \in 1..i \/ j = i + 1
          OBVIOUS
        <4>. QED BY <2>5, <4>1, <4>2, <4>3
      <3>3. x = b
        <4>1. Len(x) = Len(b) /\ \A j \in 1..Len(x) : x[j] = b[j]
          BY <2>5, <3>2
        <4>. QED BY <2>5, <3>1, <4>1, SeqEqual
      <3>. QED BY <3>3 DEF x
    <2>8. (a \o one) \o tail = a \o (one \o tail)
      BY <2>4, <2>6, Rejoin
    <2>9. args = b \o tail
      BY <2>2, <2>3, <2>7, <2>8
    <2>. QED BY <2>9 DEF b, tail
  <1> HIDE DEF Done
  <1>10. 0 \in K
    BY <1>8
  <1>11. ASSUME NEW j \in K PROVE j + 1 \in K
    <2> SUFFICES ASSUME j + 1 + 1 <= n PROVE Done(j + 1 + 1)
      OBVIOUS
    <2> DEFINE i == j + 1
    <2>1. i \in 1..n /\ i + 1 <= n /\ Done(i)
      BY <1>1
    <2> HIDE DEF i
    <2>2. Done(i + 1)
      BY <1>9, <2>1
    <2>. QED BY <2>2 DEF i
  <1>12. K \in SUBSET Nat
    OBVIOUS
  <1> HIDE DEF K
  <1>13. Done(n)
    <2>1. n - 1 \in Nat /\ n - 1 + 1 = n /\ n <= n
      BY <1>1
    <2>2. n - 1 \in K
      BY <1>10, <1>11, <1>12, <2>1, SetInduction
    <2>. QED BY <2>1, <2>2 DEF K
  <1>14. args = w \o scan[e[n]]
    <2>1. SubSeq(w, 1, n) = w
      BY <1>3, SubSeqFull DEF n, w
    <2>. QED BY <1>13, <2>1 DEF Done
  <1>15. ASSUME ~c.blank PROVE scan[e[n]] = <<>>
    <2>1. Cell(m, Len(line[n])) = NUL
      BY <1>1, <1>15, Cells DEF n
    <2>. QED BY <1>1, <1>4, <2>1 DEF Scans
  <1>16. e[n] = Len(line[n])
    BY <1>1, <1>4
  <1>. QED BY <1>1, <1>5, <1>14, <1>15, <1>16 DEF n, w, args

\* The arguments are the first four of the words that were sent, where only a
\* line that ends in a blank can get more.
AsSent(c, args) ==
  LET words == Four(c.words)
  IN  IsPrefix(words, args) /\ (~c.blank => args = words)

LEMMA FourIs ==
  ASSUME NEW s \in Seq(Texts)
  PROVE  /\ Four(s) \in Seq(Texts)
         /\ Len(Four(s)) = IF Len(s) < 4 THEN Len(s) ELSE 4
         /\ \A i \in 1..Len(Four(s)) : i \in 1..Len(s) /\ Four(s)[i] = s[i]
         /\ Len(s) <= 4 => Four(s) = s
  <1> DEFINE l == Len(s)
             k == IF l < 4 THEN l ELSE 4
             f == SubSeq(s, 1, k)
  <1>1. l \in Nat /\ k \in 0..4 /\ k <= l /\ k \in Int
    <2>1. l \in Nat
      BY LenProperties
    <2> HIDE DEF l
    <2>. QED BY <2>1
  <1> HIDE DEF k, l
  <1>2. /\ f \in Seq(Texts) /\ Len(f) = IF 1 <= k THEN k - 1 + 1 ELSE 0
        /\ \A i \in 1..(k - 1 + 1) : f[i] = s[1 + i - 1]
    BY <1>1, PartOf DEF l
  <1>3. /\ (IF 1 <= k THEN k - 1 + 1 ELSE 0) = k /\ k - 1 + 1 = k
        /\ \A i \in 1..k : 1 + i - 1 = i /\ i \in 1..l
    BY <1>1
  <1>4. Len(f) = k /\ \A i \in 1..k : i \in 1..l /\ f[i] = s[i]
    <2> HIDE DEF f
    <2>. QED BY <1>2, <1>3
  <1>5. Four(s) = f
    BY DEF Four, f, k, l
  <1>6. ASSUME l <= 4 PROVE f = s
    <2>1. k = l
      BY <1>1, <1>6 DEF k
    <2>2. Len(f) = Len(s) /\ \A i \in 1..Len(f) : f[i] = s[i]
      BY <1>4, <2>1 DEF l
    <2> HIDE DEF f
    <2>. QED BY <1>2, <2>2, SeqEqual
  <1> HIDE DEF f
  <1>. QED BY <1>2, <1>4, <1>5, <1>6 DEF k, l

LEMMA TextsHold == Seq(Seq(Chars)) \subseteq Seq(Texts)
  <1>1. Chars \subseteq Letters \cup {NUL}
    BY Characters
  <1>2. Seq(Chars) \subseteq Texts
    BY <1>1, SeqMonotonic DEF Texts
  <1>. QED BY <1>2, SeqMonotonic

LEMMA WordsFound ==
  ASSUME NEW c \in Calls, Sendable(c), NEW m \in Mem, NUL \in Range(m), Current(m) = Line(c)
  PROVE  AsSent(c, ParseArguments(m))
  <1>1. PICK line : Written(c, line) /\ Line(c) = line[Len(c.words)] \o Trail(c)
    BY LineIs
  <1>2. PICK scan : Scans(m, scan) /\ ParseArguments(m) = Four(Arguments(m, scan))
    BY ParseIs
  <1>3. Holding(m, c, line)
    BY <1>1 DEF Holding
  <1> DEFINE w    == c.words
             tail == scan[Len(line[Len(c.words)])]
             all  == w \o tail
             x    == Four(w)
             y    == Four(all)
  <1>4. tail \in Seq(Texts) /\ Arguments(m, scan) = all /\ (~c.blank => tail = <<>>)
    BY <1>2, <1>3, AllFound
  <1>5. w \in Seq(Texts)
    BY WordsAre, TextsHold
  <1>6. ParseArguments(m) = y
    BY <1>2, <1>4
  <1> HIDE DEF w, tail
  <1>7. /\ all \in Seq(Texts) /\ Len(w) \in Nat /\ Len(tail) \in Nat
        /\ Len(all) = Len(w) + Len(tail)
        /\ \A i \in 1..Len(w) : all[i] = w[i]
    BY <1>4, <1>5, Joined
  <1>8. /\ x \in Seq(Texts) /\ Len(x) = IF Len(w) < 4 THEN Len(w) ELSE 4
        /\ \A i \in 1..Len(x) : i \in 1..Len(w) /\ x[i] = w[i]
    BY <1>5, FourIs
  <1> HIDE DEF all
  <1>9. /\ y \in Seq(Texts) /\ Len(y) = IF Len(all) < 4 THEN Len(all) ELSE 4
        /\ \A i \in 1..Len(y) : i \in 1..Len(all) /\ y[i] = all[i]
    BY <1>7, FourIs
  <1> HIDE DEF x, y
  <1>10. Len(x) \in Nat /\ Len(x) <= Len(y) /\ \A i \in 1..Len(x) : y[i] = x[i]
    <2>1. Len(x) \in Nat /\ Len(x) <= Len(y) /\ Len(y) \in Nat
      BY <1>7, <1>8, <1>9
    <2>2. \A i \in 1..Len(x) : i \in 1..Len(y)
      BY <2>1
    <2>. QED BY <1>7, <1>8, <1>9, <2>1, <2>2
  <1>11. IsPrefix(x, y)
    <2> DEFINE k == Len(x)
               a == SubSeq(x, 1, k)
               b == SubSeq(y, 1, k)
    <2>1. a = x
      BY <1>8, SubSeqFull
    <2>2. k \in Nat /\ k \in Int /\ k <= Len(y)
      BY <1>10
    <2> HIDE DEF k
    <2>3. /\ b \in Seq(Texts) /\ Len(b) = IF 1 <= k THEN k - 1 + 1 ELSE 0
          /\ \A i \in 1..(k - 1 + 1) : b[i] = y[1 + i - 1]
      BY <1>9, <2>2, PartOf
    <2>4. /\ (IF 1 <= k THEN k - 1 + 1 ELSE 0) = k /\ k - 1 + 1 = k
          /\ \A i \in 1..k : 1 + i - 1 = i
      BY <2>2
    <2> HIDE DEF b
    <2>5. Len(x) = Len(b) /\ \A i \in 1..Len(x) : x[i] = b[i]
      BY <1>10, <2>3, <2>4 DEF k
    <2>6. x = b
      BY <1>8, <2>3, <2>5, SeqEqual
    <2>. QED BY <1>10, <2>1, <2>6 DEF IsPrefix, b, k
  <1>12. ASSUME ~c.blank PROVE y = x
    <2>1. all = w
      BY <1>4, <1>5, <1>12, ConcatEmptySeq DEF all
    <2>. QED BY <2>1 DEF x, y
  <1>. QED BY <1>6, <1>11, <1>12 DEF AsSent, x, w

-----------------------------------------------------------------------------
(* The handlers.                                                           *)

CwdChars == UNION {Range(Text(d)) : d \in Dirs}

LEMMA Directory ==
  ASSUME NEW d \in Dirs
  PROVE  Text(d) \in Seq(CwdChars) /\ Len(Text(d)) \in Nat
  <1>1. Text(d) \in Seq(PathChars) /\ Len(Text(d)) \in Nat
    BY TextTyped DEF Paths
  <1>2. Range(Text(d)) \subseteq CwdChars
    BY DEF CwdChars
  <1>. QED BY <1>1, <1>2, OwnElements

LEMMA SlashIn == Slash \in Seq(CwdChars)
  <1>1. <<>> \in Dirs /\ Text(<<>>) = Slash
    BY FilesAssumption DEF Text
  <1>. QED BY <1>1, Directory

LEMMA CdIn ==
  ASSUME NEW from \in Seq(CwdChars), NEW dir
  PROVE  Cd(from, dir) \in Seq(CwdChars)
  <1> DEFINE path == Realpath(Below(from, dir))
  <1>1. Cd(from, dir) = IF path \in Dirs /\ InRoot(path)
                        THEN IF Len(Text(path)) = Len(Root) THEN Slash
                             ELSE SubSeq(Text(path), Len(Root) + 1, Len(Text(path)))
                        ELSE from
    BY DEF Cd
  <1>2. Len(Root) \in Nat
    BY FilesAssumption, LenProperties
  <1> HIDE DEF path
  <1>3. ASSUME path \in Dirs
        PROVE  SubSeq(Text(path), Len(Root) + 1, Len(Text(path))) \in Seq(CwdChars)
    <2> DEFINE t == Text(path)
               k == Len(Root) + 1
    <2>1. t \in Seq(CwdChars) /\ Len(t) \in Nat /\ k \in Int /\ 1 <= k
      BY <1>2, <1>3, Directory
    <2> HIDE DEF t, k
    <2>2. SubSeq(t, k, Len(t)) \in Seq(CwdChars)
      BY <2>1, PartOf
    <2>. QED BY <2>2 DEF t, k
  <1>. QED BY <1>1, <1>3, SlashIn

\* What a handler answers, and which may fault.
Faulty == {"id3", "dirdump", "filedump"}
LEMMA HandleIs ==
  ASSUME NEW cmd, NEW args, NEW rest
  PROVE  LET r == Handle(cmd, args, rest)
         IN  /\ r.reply \in {"ran", "refused", "quit", "fault"}
             /\ r.reply = "fault" => cmd \in Faulty /\ Len(args) > 1 /\ rest = <<>>
             /\ r.cwd \in {cwd, Slash, Cd(cwd, Head(rest))}
  <1> DEFINE Plain(r) == r.reply \in {"ran", "refused"} /\ r.cwd = cwd
             Ok(r) == /\ r.reply \in {"ran", "refused", "quit", "fault"}
                      /\ r.reply = "fault" => cmd \in Faulty /\ Len(args) > 1 /\ rest = <<>>
                      /\ r.cwd \in {cwd, Slash, Cd(cwd, Head(rest))}
  <1>1. \A text : Plain(Ran(text)) /\ Ran(text).reply = "ran"
    BY DEF Ran
  <1>2. Plain(Refused)
    BY DEF Refused
  <1>3. \A r : Plain(r) => Ok(r)
    OBVIOUS
  <1> HIDE DEF Plain
  <1>4. Plain(Optional(rest))
    BY <1>1 DEF Optional
  <1>5. \A left : Plain(Required(left))
    BY <1>1, <1>2 DEF Required
  <1>6. Ok(RunCd(rest))
    <2>1. RunCd(rest) = [Optional(rest) EXCEPT !.cwd = IF rest = <<>> THEN Slash ELSE Cd(cwd, Head(rest))]
      BY DEF RunCd
    <2>. QED BY <2>1 DEF Optional, Ran
  <1>7. Plain(RunLs(rest))
    BY <1>1 DEF RunLs
  <1>8. \A n : Plain(Numbered(n))
    BY <1>1, <1>2 DEF Numbered
  <1>9. Plain(RunQload(rest))
    BY <1>2, <1>8 DEF RunQload
  <1>10. Plain(RunLoad(rest))
    BY <1>1, <1>2, <1>8 DEF RunLoad
  <1>11. Plain(RunDvd(args))
    BY <1>5 DEF RunDvd
  <1>12. Ok(RunShutdown(rest))
    <2>1. CASE rest # <<>> /\ Head(rest) = <<"now">>
      <3>1. RunShutdown(rest) = [Ran(Head(rest)) EXCEPT !.reply = "quit"]
        BY <2>1 DEF RunShutdown
      <3>. QED BY <3>1 DEF Ran
    <2>2. CASE ~(rest # <<>> /\ Head(rest) = <<"now">>)
      <3>1. RunShutdown(rest) = Refused
        BY <2>2 DEF RunShutdown
      <3>. QED BY <1>2, <1>3, <3>1
    <2>. QED BY <2>1, <2>2
  <1>13. Ok([Ran(<<>>) EXCEPT !.reply = "quit"])
    BY DEF Ran
  <1>14. \A path : Plain(OnPath(cmd, path))
    BY <1>1, <1>2 DEF OnPath
  <1>15. cmd \in Faulty => Ok(RunOnPath(cmd, args, rest))
    <2> SUFFICES ASSUME cmd \in Faulty PROVE Ok(RunOnPath(cmd, args, rest))
      OBVIOUS
    <2>1. CASE Len(args) = 1
      <3>1. RunOnPath(cmd, args, rest) = Refused
        BY <2>1 DEF RunOnPath
      <3>. QED BY <1>2, <1>3, <3>1
    <2>2. CASE Len(args) # 1 /\ Len(args) > 1 /\ rest = <<>>
      <3>1. RunOnPath(cmd, args, rest) = [Refused EXCEPT !.reply = "fault"]
        BY <2>2 DEF RunOnPath
      <3>. QED BY <2>2, <3>1 DEF Refused
    <2>3. CASE Len(args) # 1 /\ ~(Len(args) > 1 /\ rest = <<>>)
      <3>1. RunOnPath(cmd, args, rest) = OnPath(cmd, CheckPath(cwd, Head(rest)))
        BY <2>3 DEF RunOnPath
      <3>. QED BY <1>3, <1>14, <3>1
    <2>. QED BY <2>1, <2>2, <2>3
  <1> HIDE DEF Ok
  <1>16. Ok(Handle(cmd, args, rest))
    <2>1. Ok(Ran(<<>>)) /\ Ok(Optional(rest)) /\ Ok(Required(rest)) /\ Ok(RunLs(rest))
          /\ Ok(RunLoad(rest)) /\ Ok(RunQload(rest)) /\ Ok(RunDvd(args))
      BY <1>1, <1>3, <1>4, <1>5, <1>7, <1>9, <1>10, <1>11
    <2>2. CASE cmd \in Faulty
      <3>1. cmd \notin {"cd", "ls", "load", "qload", "dvd", "shutdown", "quit"}
        BY <2>2, Zenon DEF Faulty
      <3>2. Handle(cmd, args, rest) = RunOnPath(cmd, args, rest)
        BY <2>2, <3>1 DEF Handle, Faulty
      <3>. QED BY <1>15, <2>2, <3>2
    <2>3. CASE cmd \notin Faulty
      BY <1>6, <1>12, <1>13, <2>1, <2>3 DEF Handle, Faulty
    <2>. QED BY <2>2, <2>3
  <1>. QED BY <1>16 DEF Ok

\* What is left of the arguments, when nothing is.
LEMMA RestIs ==
  ASSUME NEW args \in Seq(Texts), NEW number
  PROVE  /\ Rest(args, number) \in Seq(Texts)
         /\ Len(args) > 1 /\ Rest(args, number) = <<>> => Len(args) = 2
  <1> DEFINE k == IF number = 0 THEN 2 ELSE 3
             r == Rest(args, number)
  <1>1. Len(args) \in Nat /\ k \in {2, 3}
    BY LenProperties
  <1>2. r = SubSeq(args, k, Len(args))
    BY DEF Rest
  <1> HIDE DEF k, r
  <1>3. r \in Seq(Texts) /\ Len(r) = IF k <= Len(args) THEN Len(args) - k + 1 ELSE 0
    BY <1>1, <1>2, PartOf
  <1>4. r = <<>> => Len(r) = 0
    BY EmptySeq
  <1> DEFINE len  == Len(args)
             left == Len(r)
  <1>5. len > 1 /\ left = 0 => len = 2
    <2>1. len \in Nat /\ left = IF k <= len THEN len - k + 1 ELSE 0
      BY <1>1, <1>3
    <2> HIDE DEF len, left
    <2>. QED BY <1>1, <2>1
  <1>. QED BY <1>3, <1>4, <1>5 DEF r

\* What a session's directory can become.
Changed(new) == new \in {cwd, Slash} \/ \E dir : new = Cd(cwd, dir)

LEMMA ProcessIs ==
  ASSUME NEW m \in Mem, cwd \in Seq(CwdChars)
  PROVE  LET p == Process(m)
         IN  /\ DOMAIN p.command = DOMAIN Nothing
             /\ p.command.line = Current(m)
             /\ p.command.args = ParseArguments(m)
             /\ p.command.reply \in Replies
             /\ p.cwd \in Seq(CwdChars) /\ Changed(p.cwd)
             /\ p.command.reply = "fault" => /\ p.command.args[1][1] \in Faulty
                                             /\ Len(p.command.args) = 2
                                             /\ p.command.inst \in Instances
  <1> DEFINE args   == ParseArguments(m)
             number == IF Len(args) > 1 THEN Strtol(args[2]) ELSE 0
             inst   == IF number = 0 THEN 1 ELSE number
             rest   == Rest(args, number)
             result == IF inst \in Instances THEN Handle(Head(args)[1], args, rest)
                       ELSE [Refused EXCEPT !.reply = "invalid instance"]
             p      == Process(m)
  <1>1. p = [command |-> [line |-> Current(m), args |-> args, inst |-> inst,
                          reply |-> result.reply, given |-> result.given],
             cwd |-> result.cwd]
    BY DEF Process
  <1>2. args \in Seq(Texts)
    BY ParseTyped
  <1> HIDE DEF args, number, result, p
  <1>3. CASE inst \in Instances
    <2> DEFINE cmd == Head(args)[1]
    <2>1. result = Handle(cmd, args, rest)
      BY <1>3 DEF result
    <2> HIDE DEF cmd, inst
    <2>2. /\ result.reply \in {"ran", "refused", "quit", "fault"}
          /\ result.reply = "fault" => cmd \in Faulty /\ Len(args) > 1 /\ rest = <<>>
          /\ result.cwd \in {cwd, Slash, Cd(cwd, Head(rest))}
      <3> HIDE DEF rest
      <3>. QED BY <2>1, HandleIs
    <2>3. result.cwd \in Seq(CwdChars)
      BY <2>2, SlashIn, CdIn
    <2>4. result.reply \in Replies /\ Changed(result.cwd)
      BY <2>2 DEF Replies, Changed
    <2>5. result.reply = "fault" => Len(args) = 2 /\ cmd = args[1][1]
      <3>1. Head(args) = args[1]
        BY DEF Head
      <3>. QED BY <1>2, <2>2, <3>1, RestIs DEF cmd
    <2>6. /\ p.command.line = Current(m) /\ p.command.args = args /\ p.command.inst = inst
          /\ p.command.reply = result.reply /\ p.cwd = result.cwd
          /\ DOMAIN p.command = DOMAIN Nothing
      BY <1>1 DEF Nothing
    <2>. QED BY <1>3, <2>2, <2>3, <2>4, <2>5, <2>6 DEF args, p
  <1>4. CASE inst \notin Instances
    <2>1. result = [Refused EXCEPT !.reply = "invalid instance"]
      BY <1>4 DEF result
    <2>2. result.reply = "invalid instance" /\ result.cwd = cwd /\ Changed(result.cwd)
      BY <2>1 DEF Refused, Changed
    <2> HIDE DEF inst
    <2>3. /\ p.command.line = Current(m) /\ p.command.args = args /\ p.command.inst = inst
          /\ p.command.reply = result.reply /\ p.cwd = result.cwd
          /\ DOMAIN p.command = DOMAIN Nothing
      BY <1>1 DEF Nothing
    <2>. QED BY <2>2, <2>3 DEF args, p, Replies
  <1>. QED BY <1>3, <1>4

\* A handler that takes one argument, whether the caller must give it or may.
LEMMA TakerIs ==
  ASSUME NEW cmd \in Takers, NEW args, NEW rest, rest # <<>>
  PROVE  Handle(cmd, args, rest).given = Head(rest)
  <1>1. cmd \notin {"cd", "ls", "load", "qload", "dvd", "shutdown", "quit", "id3", "dirdump",
                   "filedump"}
    BY Zenon DEF Takers
  <1>2. CASE cmd \in {"help", "arguments"}
    <2>1. Handle(cmd, args, rest) = Optional(rest)
      BY <1>1, <1>2 DEF Handle
    <2>. QED BY <2>1 DEF Optional, Ran
  <1>3. CASE cmd \in {"osd", "seek_percent", "seek_absolute", "seek_relative", "literal",
                     "volume", "kill"}
    <2>1. cmd \notin {"help", "arguments"}
      BY <1>3, Zenon
    <2>2. Handle(cmd, args, rest) = Required(rest)
      BY <1>1, <1>3, <2>1 DEF Handle
    <2>. QED BY <2>2 DEF Required, Ran
  <1>. QED BY <1>2, <1>3 DEF Takers

\* The instance a command was run for, and what the handler got, by its arguments.
Number(args) == IF Len(args) > 1 THEN Strtol(args[2]) ELSE 0
For(args)    == IF Number(args) = 0 THEN 1 ELSE Number(args)
Given(d) ==
  LET rest == Rest(d.args, Number(d.args))
  IN  /\ d.inst = For(d.args)
      /\ d.args[1][1] \in Takers /\ d.inst \in Instances /\ rest # <<>> => d.given = Head(rest)

LEMMA ProcessGives ==
  ASSUME NEW m \in Mem
  PROVE  Given(Process(m).command)
  <1> DEFINE args   == ParseArguments(m)
             number == IF Len(args) > 1 THEN Strtol(args[2]) ELSE 0
             inst   == IF number = 0 THEN 1 ELSE number
             rest   == Rest(args, number)
             cmd    == Head(args)[1]
             result == IF inst \in Instances THEN Handle(cmd, args, rest)
                       ELSE [Refused EXCEPT !.reply = "invalid instance"]
             d      == Process(m).command
  <1>1. Process(m) = [command |-> [line |-> Current(m), args |-> args, inst |-> inst,
                                   reply |-> result.reply, given |-> result.given],
                      cwd |-> result.cwd]
    BY DEF Process
  <1>2. number = Number(args) /\ inst = For(args)
    BY DEF Number, For
  <1> HIDE DEF args, number, inst, result
  <1>3. d.args = args /\ d.inst = inst /\ d.given = result.given
    BY <1>1
  <1> HIDE DEF d
  <1>4. ASSUME args[1][1] \in Takers, inst \in Instances, rest # <<>>
        PROVE  result.given = Head(rest)
    <2>1. Head(args) = args[1]
      BY DEF Head
    <2>2. cmd \in Takers
      BY <1>4, <2>1
    <2>3. result = Handle(cmd, args, rest)
      BY <1>4 DEF result
    <2> HIDE DEF cmd, rest
    <2>4. Handle(cmd, args, rest).given = Head(rest)
      BY <1>4, <2>2, TakerIs
    <2>. QED BY <2>3, <2>4
  <1>. QED BY <1>2, <1>3, <1>4 DEF Given, d

\* The last of the arguments, when it is all that is left.
LEMMA LastLeft ==
  ASSUME NEW args \in Seq(Texts), NEW number, Len(args) = IF number = 0 THEN 2 ELSE 3
  PROVE  Rest(args, number) # <<>> /\ Head(Rest(args, number)) = Last(args)
  <1> DEFINE k == IF number = 0 THEN 2 ELSE 3
             r == SubSeq(args, k, k)
  <1>1. Rest(args, number) = r
    BY DEF Rest
  <1>2. k \in Int /\ 1 <= k /\ k <= Len(args) /\ k - k + 1 = 1 /\ k + 1 - 1 = k /\ Len(args) = k
    OBVIOUS
  <1> HIDE DEF k
  <1>3. /\ r \in Seq(Texts) /\ Len(r) = IF k <= k THEN k - k + 1 ELSE 0
        /\ \A i \in 1..(k - k + 1) : r[i] = args[k + i - 1]
    BY <1>2, PartOf
  <1> HIDE DEF r
  <1>4. Len(r) = 1 /\ 1 \in 1..(k - k + 1)
    BY <1>2, <1>3
  <1>5. r[1] = args[k]
    BY <1>2, <1>3, <1>4
  <1>6. r # <<>>
    <2>1. r = <<>> => Len(r) = 0
      BY EmptySeq
    <2>. QED BY <1>4, <2>1
  <1>7. Head(r) = r[1] /\ Last(args) = args[k]
    BY <1>2 DEF Head, Last
  <1>. QED BY <1>1, <1>5, <1>6, <1>7

\* What ArgumentReachesHandler says of a command.
LEMMA Delivered ==
  ASSUME NEW c \in Calls, ~c.blank, NEW d, AsSent(c, d.args), Given(d), c.words[1][1] \in Takers
  PROVE  LET w     == c.words
             plain == Len(w) = 2 /\ Strtol(w[2]) = 0
             named == Len(w) = 3 /\ Strtol(w[2]) \in Instances
         IN  plain \/ named =>
               d.given = Last(w) /\ d.inst = (IF named THEN Strtol(w[2]) ELSE 1)
  <1> DEFINE w    == c.words
             args == d.args
             n    == Strtol(w[2])
  <1>1. w \in Seq(Texts)
    BY WordsAre, TextsHold
  <1>2. args = Four(w)
    BY DEF AsSent
  <1> HIDE DEF w, args
  <1>3. Len(w) = 2 \/ Len(w) = 3 => args = w
    <2>1. Len(w) <= 4 => args = w
      BY <1>1, <1>2, FourIs
    <2> DEFINE l == Len(w)
    <2> HIDE DEF l
    <2>2. l = 2 \/ l = 3 => l <= 4
      OBVIOUS
    <2>. QED BY <2>1, <2>2 DEF l
  <1>4. d.inst = For(args)
        /\ (args[1][1] \in Takers /\ d.inst \in Instances /\ Rest(args, Number(args)) # <<>>
              => d.given = Head(Rest(args, Number(args))))
    BY DEF Given, args
  <1>5. 0 \notin Instances /\ 1 \in Instances
    BY CommandLineAssumption
  <1>6. CASE Len(w) = 2 /\ n = 0
    <2>1. Number(args) = 0 /\ For(args) = 1
      BY <1>3, <1>6 DEF Number, For
    <2>2. Rest(args, 0) # <<>> /\ Head(Rest(args, 0)) = Last(w)
      BY <1>1, <1>3, <1>6, LastLeft
    <2>3. d.given = Last(w) /\ d.inst = 1
      BY <1>3, <1>4, <1>5, <1>6, <2>1, <2>2 DEF w
    <2>4. Len(w) # 3
      BY <1>6
    <2>. QED BY <2>3, <2>4 DEF w
  <1>7. CASE Len(w) = 3 /\ n \in Instances
    <2>1. n # 0
      BY <1>5, <1>7
    <2>2. Number(args) = n /\ For(args) = n
      <3> DEFINE l == Len(w)
      <3>1. l = 3 /\ args = w
        BY <1>3, <1>7
      <3> HIDE DEF l
      <3>2. l > 1
        BY <3>1
      <3>3. Number(args) = n
        BY <3>1, <3>2, Zenon DEF Number, l
      <3> HIDE DEF n
      <3>. QED BY <2>1, <3>3, Zenon DEF For
    <2> HIDE DEF n
    <2>3. Rest(args, n) # <<>> /\ Head(Rest(args, n)) = Last(w)
      BY <1>1, <1>3, <1>7, <2>1, LastLeft
    <2>4. d.given = Last(w) /\ d.inst = n
      BY <1>3, <1>4, <1>7, <2>2, <2>3 DEF w
    <2>. QED BY <1>7, <2>4 DEF w, n
  <1>. QED BY <1>6, <1>7 DEF w, n

-----------------------------------------------------------------------------
(* The invariant.                                                          *)

\* Where the line that was sent last is, as long as nothing was upset: with the
\* client's answer, or partly in the buffer and partly on its way.  The LF that
\* ends a line may still be on its way when the line has been run.
Sending ==
  /\ call \in Calls
  /\ \/ stream = <<LF>> \o (Line(call) \o Ends) /\ Current(mem) = <<>>
     \/ /\ Current(mem) \o stream = Line(call) \o Ends
        /\ Len(Current(mem)) <= Len(Line(call))
        /\ Current(mem) # <<>> => Current(mem)[1] # LF
Understood(c, d) == d.reply # "unknown" => (Sendable(c) => AsSent(c, d.args)) /\ Given(d)
Resting ==
  /\ stream \in {<<>>, <<LF>>}
  /\ client = "ready" => Current(mem) = <<>>
  /\ call # NoCall => call \in Calls /\ done.line = Line(call) /\ Understood(call, done)
Whole == ~upset => IF client = "waiting" THEN Sending ELSE Resting

\* The session is in a directory that CMD_CD can enter.
Entered == cwd \in Places

IInv == TypeOK /\ FaultsOnlyWithoutPath /\ Whole /\ Entered

\* What is taken from a piece of the stream: all of it, or what is before a return.
LEMMA ReceivedIs ==
  ASSUME NEW piece \in Seq(Letters)
  PROVE  /\ Received(piece) \in Seq(Letters) /\ Len(Received(piece)) <= Len(piece)
         /\ \A i \in 1..Len(Received(piece)) : Received(piece)[i] = piece[i]
         /\ CR \notin Range(piece) => Received(piece) = piece
         /\ CR \in Range(piece) =>
              /\ First(piece, CR) \in 1..Len(piece)
              /\ Received(piece) = SubSeq(piece, 1, First(piece, CR) - 1)
  <1> DEFINE j   == First(piece, CR)
             len == Len(piece)
  <1>1. SelectInSeq(piece, LAMBDA b : b = CR) = j
    BY DEF SelectInSeq, First, Found
  <1>2. len \in Nat
    BY LenProperties
  <1>3. j \in 0..len /\ (CR \in Range(piece) => j # 0)
    BY FirstIs
  <1>4. CASE CR \in Range(piece)
    <2>1. Received(piece) = SubSeq(piece, 1, j - 1)
      BY <1>1, <1>4 DEF Received
    <2> HIDE DEF j, len
    <2>2. j \in 1..len /\ j - 1 \in 0..len /\ j - 1 \in Int /\ j - 1 <= len
      BY <1>2, <1>3, <1>4
    <2> DEFINE k == j - 1
    <2> HIDE DEF k
    <2>3. /\ SubSeq(piece, 1, k) \in Seq(Letters)
          /\ Len(SubSeq(piece, 1, k)) = IF 1 <= k THEN k - 1 + 1 ELSE 0
          /\ \A i \in 1..(k - 1 + 1) : SubSeq(piece, 1, k)[i] = piece[1 + i - 1]
      BY <2>2, PartOf DEF k, len
    <2>4. /\ (IF 1 <= k THEN k - 1 + 1 ELSE 0) = k /\ k <= len
          /\ k - 1 + 1 = k /\ \A i \in 1..k : 1 + i - 1 = i
      BY <1>2, <2>2 DEF k
    <2>5. /\ SubSeq(piece, 1, k) \in Seq(Letters) /\ Len(SubSeq(piece, 1, k)) = k
          /\ \A i \in 1..k : SubSeq(piece, 1, k)[i] = piece[i]
      BY <2>3, <2>4
    <2>. QED BY <1>4, <2>1, <2>2, <2>4, <2>5 DEF j, k, len
  <1>5. CASE CR \notin Range(piece)
    <2>1. Received(piece) = SubSeq(piece, 1, Len(piece))
      BY <1>5 DEF Received
    <2>2. SubSeq(piece, 1, Len(piece)) = piece
      BY SubSeqFull
    <2> HIDE DEF len
    <2>3. len <= len
      BY <1>2
    <2>. QED BY <1>5, <2>1, <2>2, <2>3 DEF len
  <1>. QED BY <1>4, <1>5

\* A sequence cut in two.
LEMMA Parts ==
  ASSUME NEW s \in Seq(Letters), NEW n \in 1..Len(s)
  PROVE  /\ SubSeq(s, 1, n) \in Seq(Letters) /\ Len(SubSeq(s, 1, n)) = n
         /\ \A i \in 1..n : SubSeq(s, 1, n)[i] = s[i]
         /\ SubSeq(s, n + 1, Len(s)) \in Seq(Letters)
         /\ Len(SubSeq(s, n + 1, Len(s))) = Len(s) - n
         /\ \A i \in 1..(Len(s) - n) : SubSeq(s, n + 1, Len(s))[i] = s[n + i]
         /\ SubSeq(s, 1, n) \o SubSeq(s, n + 1, Len(s)) = s
  <1> DEFINE len == Len(s)
             k   == n + 1
             a   == SubSeq(s, 1, n)
             b   == SubSeq(s, k, len)
  <1>1. len \in Nat
    BY LenProperties
  <1> HIDE DEF len, k
  <1>2. k \in Int /\ 1 <= k /\ k = n + 1 /\ n \in Int /\ n <= len /\ 1 <= n /\ len <= len
    BY <1>1 DEF k, len
  <1>3. /\ a \in Seq(Letters) /\ Len(a) = n - 1 + 1
        /\ \A i \in 1..(n - 1 + 1) : a[i] = s[1 + i - 1]
    BY <1>2, PartOf DEF len
  <1>4. /\ b \in Seq(Letters) /\ Len(b) = IF k <= len THEN len - k + 1 ELSE 0
        /\ \A i \in 1..(len - k + 1) : b[i] = s[k + i - 1]
    BY <1>1, <1>2, PartOf DEF len
  <1> HIDE DEF a, b
  <1>5. n - 1 + 1 = n /\ \A i \in 1..n : 1 + i - 1 = i
    BY <1>2
  <1>6. Len(a) = n /\ \A i \in 1..n : a[i] = s[i]
    BY <1>3, <1>5
  <1>7. len - k + 1 = len - n /\ (IF k <= len THEN len - k + 1 ELSE 0) = len - n
        /\ \A i \in 1..(len - n) : k + i - 1 = n + i
    BY <1>1, <1>2
  <1>8. Len(b) = len - n /\ \A i \in 1..(len - n) : b[i] = s[n + i]
    BY <1>4, <1>7
  <1>9. /\ a \o b \in Seq(Letters) /\ Len(a \o b) = n + (len - n)
        /\ \A i \in 1..(n + (len - n)) : (a \o b)[i] = IF i <= n THEN a[i] ELSE b[i - n]
    <2>1. /\ a \o b \in Seq(Letters) /\ Len(a \o b) = Len(a) + Len(b)
          /\ \A i \in 1..(Len(a) + Len(b)) :
               (a \o b)[i] = IF i <= Len(a) THEN a[i] ELSE b[i - Len(a)]
      BY <1>3, <1>4, ConcatProperties
    <2>. QED BY <1>6, <1>8, <2>1
  <1>10. n + (len - n) = len
    BY <1>1, <1>2
  <1>11. ASSUME NEW i \in 1..len PROVE (a \o b)[i] = s[i]
    <2>1. CASE i <= n
      <3>1. i \in 1..n
        BY <1>1, <2>1
      <3>. QED BY <1>6, <1>9, <1>10, <2>1, <3>1
    <2>2. CASE ~(i <= n)
      <3>1. i - n \in 1..(len - n) /\ n + (i - n) = i
        BY <1>1, <1>2, <2>2
      <3>. QED BY <1>8, <1>9, <1>10, <2>2, <3>1
    <2>. QED BY <2>1, <2>2
  <1>12. a \o b = s
    BY <1>9, <1>10, <1>11, SeqEqual DEF len
  <1>. QED BY <1>3, <1>4, <1>6, <1>8, <1>12 DEF a, b, k, len

LEMMA Regroup ==
  \A a, b, c \in Seq(Letters) : (a \o b) \o c = a \o (b \o c)
  BY ConcatAssociative

LEMMA EndsIs ==
  /\ Ends \in Seq(Letters) /\ Len(Ends) = 2 /\ Ends[1] = CR /\ Ends[2] = LF
  BY Characters DEF Ends

\* Where the return is in what is still on its way.
LEMMA Cut ==
  ASSUME NEW cur \in Seq(Letters), NEW s \in Seq(Letters), NEW line \in Seq(Letters),
         \A i \in 1..Len(line) : line[i] # CR,
         cur \o s = line \o Ends, Len(cur) <= Len(line), NEW n \in 1..Len(s)
  PROVE  LET piece == SubSeq(s, 1, n)
             rest  == SubSeq(s, n + 1, Len(s))
         IN  IF CR \in Range(piece)
             THEN cur \o Received(piece) = line /\ rest \in {<<>>, <<LF>>}
             ELSE (cur \o piece) \o rest = line \o Ends /\ Len(cur \o piece) <= Len(line)
  <1> DEFINE a     == Len(cur)
             l     == Len(line)
             k     == Len(s)
             piece == SubSeq(s, 1, n)
             rest  == SubSeq(s, n + 1, Len(s))
  <1>1. a \in Nat /\ l \in Nat /\ k \in Nat /\ a <= l /\ n \in 1..k
    BY LenProperties
  <1>2. /\ cur \o s \in Seq(Letters) /\ Len(cur \o s) = a + k
        /\ \A i \in 1..(a + k) : (cur \o s)[i] = IF i <= a THEN cur[i] ELSE s[i - a]
    BY ConcatProperties
  <1>3. /\ Len(line \o Ends) = l + 2
        /\ \A i \in 1..(l + 2) : (line \o Ends)[i] = IF i <= l THEN line[i] ELSE Ends[i - l]
    <2>1. /\ Len(line \o Ends) = Len(line) + Len(Ends)
          /\ \A i \in 1..(Len(line) + Len(Ends)) :
               (line \o Ends)[i] = IF i <= Len(line) THEN line[i] ELSE Ends[i - Len(line)]
      BY EndsIs, ConcatProperties
    <2>. QED BY <2>1, EndsIs
  <1>4. /\ piece \in Seq(Letters) /\ Len(piece) = n /\ \A i \in 1..n : piece[i] = s[i]
        /\ rest \in Seq(Letters) /\ Len(rest) = k - n /\ \A i \in 1..(k - n) : rest[i] = s[n + i]
        /\ piece \o rest = s
    BY Parts
  <1> HIDE DEF a, l, k, piece, rest
  <1>5. a + k = l + 2
    BY <1>2, <1>3
  <1>6. \A i \in 1..k : s[i] = IF a + i <= l THEN line[a + i] ELSE Ends[(a + i) - l]
    <2> SUFFICES ASSUME NEW i \in 1..k
                 PROVE  s[i] = IF a + i <= l THEN line[a + i] ELSE Ends[(a + i) - l]
      OBVIOUS
    <2> DEFINE j == a + i
    <2>1. j \in 1..(a + k) /\ ~(j <= a) /\ j - a = i /\ j \in 1..(l + 2)
      BY <1>1, <1>5
    <2> HIDE DEF j
    <2>2. s[i] = (cur \o s)[j]
      BY <1>2, <2>1
    <2>3. s[i] = IF j <= l THEN line[j] ELSE Ends[j - l]
      BY <1>3, <2>1, <2>2
    <2>. QED BY <2>3 DEF j
  <1>7. \A i \in 1..k : i < l + 1 - a => s[i] # CR
    <2> SUFFICES ASSUME NEW i \in 1..k, i < l + 1 - a PROVE s[i] # CR
      OBVIOUS
    <2>1. a + i <= l /\ a + i \in 1..l
      BY <1>1
    <2>. QED BY <1>6, <2>1 DEF l
  <1>8. l + 1 - a \in 1..k /\ s[l + 1 - a] = CR
    <2> DEFINE i == l + 1 - a
    <2>1. i \in 1..k /\ ~(a + i <= l) /\ (a + i) - l = 1
      BY <1>1, <1>5
    <2> HIDE DEF i
    <2>2. s[i] = CR
      BY <1>6, <2>1, EndsIs
    <2>. QED BY <2>1, <2>2 DEF i
  <1>9. \A i \in 1..k : i > l + 1 - a => i = k /\ s[i] = LF
    <2> SUFFICES ASSUME NEW i \in 1..k, i > l + 1 - a PROVE i = k /\ s[i] = LF
      OBVIOUS
    <2>1. i = k /\ ~(a + i <= l) /\ (a + i) - l = 2
      BY <1>1, <1>5
    <2>2. s[i] = Ends[(a + i) - l]
      BY <1>6, <2>1
    <2>3. Ends[2] = LF
      BY EndsIs
    <2>. QED BY <2>1, <2>2, <2>3
  <1> DEFINE q == l + 1 - a
             j == First(piece, CR)
  <1>10. /\ CR \in Range(piece) => j \in 1..n /\ piece[j] = CR /\ \A i \in 1..(j - 1) : piece[i] # CR
         /\ CR \notin Range(piece) => \A i \in 1..n : piece[i] # CR
    <2>1. j \in 0..n
      BY <1>4, FirstIs
    <2>2. CR \in Range(piece) => j # 0
      BY <1>4, FirstIs
    <2>3. j # 0 => piece[j] = CR /\ \A i \in 1..(j - 1) : piece[i] # CR
      BY <1>4, FirstIs
    <2>4. CR \notin Range(piece) => j = 0
      BY <1>4, FirstIs
    <2>5. j = 0 => \A i \in 1..n : piece[i] # CR
      BY <1>4, FirstIs, ZenonT(40)
    <2> HIDE DEF j
    <2>6. j \in 0..n /\ j # 0 => j \in 1..n
      OBVIOUS
    <2>. QED BY <2>1, <2>2, <2>3, <2>4, <2>5, <2>6
  <1>11. CASE CR \in Range(piece)
    <2> HIDE DEF j
    <2>1. j \in 1..n /\ piece[j] = CR /\ j \in 1..k /\ s[j] = CR
      <3>1. j \in 1..n /\ piece[j] = CR
        BY <1>10, <1>11
      <3>. QED BY <1>1, <1>4, <3>1
    <2>2. j = q
      <3>1. ~(j < q)
        BY <1>7, <2>1
      <3>2. ~(j > q)
        BY <1>9, <2>1, Characters
      <3>. QED BY <1>1, <2>1, <3>1, <3>2
    <2>3. Received(piece) = SubSeq(piece, 1, q - 1)
      BY <1>4, <1>11, <2>2, ReceivedIs DEF j
    <2> DEFINE r == SubSeq(piece, 1, q - 1)
               p == q - 1
    <2>4. p = l - a /\ p \in 0..n /\ p \in Int /\ p <= n
      BY <1>1, <2>1, <2>2
    <2> HIDE DEF p
    <2>5. /\ r \in Seq(Letters) /\ Len(r) = (IF 1 <= p THEN p - 1 + 1 ELSE 0)
          /\ \A i \in 1..(p - 1 + 1) : r[i] = piece[1 + i - 1]
      BY <1>4, <2>4, PartOf DEF p
    <2>6. (IF 1 <= p THEN p - 1 + 1 ELSE 0) = p /\ p - 1 + 1 = p /\ \A i \in 1..p : 1 + i - 1 = i
      BY <2>4
    <2> HIDE DEF r
    <2>7. r \in Seq(Letters) /\ Len(r) = p /\ \A i \in 1..p : r[i] = piece[i]
      BY <2>5, <2>6
    <2>8. \A i \in 1..p : r[i] = s[i]
      <3>1. \A i \in 1..p : i \in 1..n
        BY <2>4
      <3>. QED BY <1>4, <2>7, <3>1
    <2>9. /\ cur \o r \in Seq(Letters) /\ Len(cur \o r) = a + p
          /\ \A i \in 1..(a + p) : (cur \o r)[i] = IF i <= a THEN cur[i] ELSE r[i - a]
      BY <2>7, ConcatProperties DEF a
    <2>10. a + p = l
      BY <1>1, <2>4
    <2>11. ASSUME NEW i \in 1..l PROVE (cur \o r)[i] = line[i]
      <3>1. i \in 1..(a + k) /\ i \in 1..(l + 2) /\ i <= l
        BY <1>1, <1>5
      <3>2. line[i] = IF i <= a THEN cur[i] ELSE s[i - a]
        BY <1>2, <1>3, <3>1
      <3>3. CASE i <= a
        BY <2>9, <2>10, <3>2, <3>3
      <3>4. CASE ~(i <= a)
        <4>1. i - a \in 1..p
          BY <1>1, <2>10, <3>4, <2>4
        <4>. QED BY <2>8, <2>9, <2>10, <3>2, <3>4, <4>1
      <3>. QED BY <3>3, <3>4
    <2>12. cur \o r = line
      BY <2>9, <2>10, <2>11, SeqEqual DEF l
    <2>13. rest \in {<<>>, <<LF>>}
      <3>1. k = q + 1
        BY <1>1, <1>5
      <3>2. CASE n = k
        <4>1. Len(rest) = 0
          BY <1>1, <1>4, <3>2
        <4>. QED BY <1>4, <4>1, EmptySeq
      <3>3. CASE n # k
        <4>1. k - n = 1 /\ n + 1 = k /\ k > q /\ 1 \in 1..1 /\ k \in 1..k
          BY <1>1, <2>1, <2>2, <3>1, <3>3
        <4>2. rest[1] = LF
          <5>1. rest[1] = s[k]
            BY <1>4, <4>1
          <5>. QED BY <1>9, <4>1, <5>1
        <4>3. rest = <<LF>>
          <5> DEFINE one == <<LF>>
          <5>1. one \in Seq(Letters) /\ Len(one) = 1 /\ one[1] = LF
            BY Characters
          <5> HIDE DEF one
          <5>2. Len(rest) = Len(one) /\ \A i \in 1..Len(rest) : rest[i] = one[i]
            BY <1>4, <4>1, <4>2, <5>1
          <5>3. rest = one
            BY <1>4, <5>1, <5>2, SeqEqual
          <5>. QED BY <5>3 DEF one
        <4>. QED BY <4>3
      <3>. QED BY <3>2, <3>3
    <2>14. Received(piece) = r
      BY <2>3 DEF r
    <2>. QED BY <1>11, <2>12, <2>13, <2>14 DEF piece, rest
  <1>12. CASE CR \notin Range(piece)
    <2> HIDE DEF j
    <2>1. \A i \in 1..n : s[i] # CR
      BY <1>4, <1>10, <1>12
    <2>2. q \notin 1..n
      BY <1>8, <2>1
    <2>3. a + n <= l
      BY <1>1, <1>8, <2>2
    <2>4. (cur \o piece) \o rest = cur \o s
      <3>1. cur \in Seq(Letters) /\ piece \in Seq(Letters) /\ rest \in Seq(Letters)
            /\ piece \o rest = s
        BY <1>4
      <3> HIDE DEF piece, rest
      <3>2. (cur \o piece) \o rest = cur \o (piece \o rest)
        BY <3>1, Regroup, ZenonT(40)
      <3>. QED BY <3>1, <3>2
    <2>5. Len(cur \o piece) = a + n
      BY <1>4, ConcatProperties DEF a
    <2>. QED BY <1>12, <2>3, <2>4, <2>5 DEF piece, rest, l
  <1>. QED BY <1>11, <1>12

-----------------------------------------------------------------------------
(* The invariant is kept.                                                  *)

LEMMA Types ==
  ASSUME TypeOK
  PROVE  /\ mem \in Mem /\ NUL \in Range(mem) /\ stream \in Seq(Letters) /\ Len(stream) \in Nat
         /\ cwd \in Seq(CwdChars) /\ Current(mem) \in Seq(Letters) /\ Len(Current(mem)) \in Nat
  <1>1. mem \in Mem /\ NUL \in Range(mem) /\ stream \in Seq(Letters) /\ cwd \in Seq(CwdChars)
    BY DEF TypeOK, Mem, CwdChars
  <1>. QED BY <1>1, CurrentIs, LenProperties

\* A line that is returned is run or refused, and then dropped: only one that
\* begins with a LF is not.
LEMMA ReturnIs ==
  ASSUME TypeOK, NEW m \in Mem, NUL \in Range(m), Return(m)
  PROVE  /\ mem' \in Mem /\ NUL \in Range(mem')
         /\ Cell(m, 0) # LF => Current(mem') = <<>>
         /\ client' \in {"ready", "closed"}
         /\ cwd' \in Seq(CwdChars) /\ Changed(cwd')
         /\ DOMAIN done' = DOMAIN Nothing /\ done'.reply \in Replies /\ Len(done'.args) <= 4
         /\ done'.line = Current(m)
         /\ done'.reply # "unknown" => done'.args = ParseArguments(m) /\ Given(done')
         /\ FaultsOnlyWithoutPath'
  <1>1. cwd \in Seq(CwdChars)
    BY Types
  <1>2. Emptied(m) \in Mem /\ NUL \in Range(Emptied(m)) /\ Current(Emptied(m)) = <<>>
    BY EmptiedIs
  <1>3. CASE FirstWord(Current(m)) \in {<<c>> : c \in Commands}
    <2> DEFINE p == Process(m)
    <2>1. /\ done' = p.command /\ cwd' = p.cwd /\ mem' = Emptied(m)
          /\ client' = IF p.command.reply \in {"quit", "fault"} THEN "closed" ELSE "ready"
      BY <1>3 DEF Return
    <2>2. /\ DOMAIN p.command = DOMAIN Nothing
          /\ p.command.line = Current(m)
          /\ p.command.args = ParseArguments(m)
          /\ p.command.reply \in Replies
          /\ p.cwd \in Seq(CwdChars) /\ Changed(p.cwd)
          /\ p.command.reply = "fault" => /\ p.command.args[1][1] \in Faulty
                                          /\ Len(p.command.args) = 2
                                          /\ p.command.inst \in Instances
      BY <1>1, ProcessIs
    <2> HIDE DEF p
    <2>3. Len(ParseArguments(m)) <= 4
      <3> DEFINE l == Len(ParseArguments(m))
      <3>1. l \in 0..4
        BY ParseTyped
      <3> HIDE DEF l
      <3>2. l <= 4
        BY <3>1
      <3>. QED BY <3>2 DEF l
    <2>4. FaultsOnlyWithoutPath'
      BY <2>1, <2>2 DEF FaultsOnlyWithoutPath, Faulty
    <2>5. Given(done')
      BY <2>1, ProcessGives DEF p
    <2>. QED BY <1>2, <2>1, <2>2, <2>3, <2>4, <2>5
  <1>4. CASE FirstWord(Current(m)) \notin {<<c>> : c \in Commands}
    <2>1. /\ done' = [Nothing EXCEPT !.line = Current(m), !.reply = "unknown"]
          /\ mem' = IF Cell(m, 0) = LF THEN m ELSE Emptied(m)
          /\ client' = "ready" /\ cwd' = cwd
      BY <1>4 DEF Return
    <2>2. /\ DOMAIN done' = DOMAIN Nothing /\ done'.reply = "unknown" /\ done'.args = <<>>
          /\ done'.line = Current(m)
      BY <2>1 DEF Nothing
    <2>3. Len(done'.args) <= 4
      BY <2>2
    <2>4. FaultsOnlyWithoutPath'
      BY <2>2 DEF FaultsOnlyWithoutPath
    <2>5. Changed(cwd')
      BY <2>1 DEF Changed
    <2>. QED BY <1>1, <1>2, <2>1, <2>2, <2>3, <2>4, <2>5 DEF Replies
  <1>. QED BY <1>3, <1>4

LEMMA SendKeeps ==
  ASSUME IInv, NEW c \in Calls, Send(c)
  PROVE  IInv'
  <1>1. /\ client = "ready" /\ sent < MaxCalls /\ sent' = sent + 1 /\ client' = "waiting"
        /\ call' = c /\ stream' = stream \o Line(c) \o Ends
        /\ upset' = upset /\ mem' = mem /\ cwd' = cwd /\ done' = done
    BY DEF Send
  <1>2. TypeOK
    BY DEF IInv
  <1>3. stream \in Seq(Letters) /\ Line(c) \in Seq(Letters) /\ Ends \in Seq(Letters)
    BY <1>2, Types, LineTyped, EndsIs
  <1>4. /\ stream \o Line(c) \in Seq(Letters)
        /\ stream \o Line(c) \o Ends \in Seq(Letters) /\ Line(c) \o Ends \in Seq(Letters)
        /\ stream \o Line(c) \o Ends = stream \o (Line(c) \o Ends)
    <2>1. stream \o Line(c) \in Seq(Letters) /\ Line(c) \o Ends \in Seq(Letters)
      BY <1>3, ConcatProperties
    <2>2. stream \o Line(c) \o Ends \in Seq(Letters)
      BY <1>3, <2>1, ConcatProperties
    <2>3. (stream \o Line(c)) \o Ends = stream \o (Line(c) \o Ends)
      BY <1>3, ConcatAssociative
    <2>. QED BY <2>1, <2>2, <2>3
  <1>5. TypeOK'
    <2>1. sent + 1 \in 0..MaxCalls
      BY <1>1, <1>2, CommandLineAssumption DEF TypeOK
    <2>. QED BY <1>1, <1>2, <1>4, <2>1 DEF TypeOK
  <1>6. FaultsOnlyWithoutPath'
    BY <1>1 DEF IInv, FaultsOnlyWithoutPath
  <1>7. Whole'
    <2> SUFFICES ASSUME ~upset PROVE Sending'
      BY <1>1 DEF Whole
    <2>1. Resting
      BY <1>1 DEF IInv, Whole
    <2>2. stream \in {<<>>, <<LF>>} /\ Current(mem) = <<>>
      BY <1>1, <2>1 DEF Resting
    <2> DEFINE whole == Line(c) \o Ends
    <2>3. stream' = stream \o whole /\ whole \in Seq(Letters) /\ Current(mem)' = <<>>
      BY <1>1, <1>4, <2>2
    <2>4. CASE stream = <<LF>>
      BY <1>1, <2>3, <2>4 DEF Sending
    <2>5. CASE stream = <<>>
      <3> HIDE DEF whole
      <3>1. <<>> \o whole = whole
        BY <2>3, ConcatEmptySeq
      <3>2. stream' = whole /\ Current(mem)' \o stream' = whole
        BY <2>3, <2>5, <3>1
      <3>3. Len(Current(mem)') <= Len(Line(c))
        <4> DEFINE l == Len(Line(c))
        <4>1. Len(Current(mem)') = 0 /\ l \in Nat
          BY <1>3, <2>3, LenProperties, EmptySeq
        <4> HIDE DEF l
        <4>2. 0 <= l
          BY <4>1
        <4>. QED BY <4>1, <4>2 DEF l
      <3>. QED BY <1>1, <3>2, <3>3 DEF Sending, whole
    <2>. QED BY <2>2, <2>4, <2>5
  <1>8. Entered'
    BY <1>1 DEF IInv, Entered
  <1>. QED BY <1>5, <1>6, <1>7, <1>8 DEF IInv

LEMMA NoRoomKeeps ==
  ASSUME IInv, NEW n \in 1..Len(stream), RecvNoRoom(n)
  PROVE  IInv'
  <1>1. /\ stream' = SubSeq(stream, n + 1, Len(stream))
        /\ upset' = TRUE /\ mem' = Emptied(mem) /\ done' = [Nothing EXCEPT !.reply = "refused"]
        /\ client' = "ready" /\ call' = call /\ sent' = sent /\ cwd' = cwd
    BY DEF RecvNoRoom, Consume
  <1>2. TypeOK
    BY DEF IInv
  <1>3. stream' \in Seq(Letters)
    BY <1>1, <1>2, Types, Parts
  <1>4. mem' \in Mem /\ NUL \in Range(mem')
    BY <1>1, <1>2, Types, EmptiedIs
  <1>5. done'.reply = "refused" /\ DOMAIN done' = DOMAIN Nothing /\ Len(done'.args) <= 4
    BY <1>1 DEF Nothing
  <1>6. TypeOK'
    BY <1>1, <1>2, <1>3, <1>4, <1>5 DEF TypeOK, Mem, Replies
  <1>7. FaultsOnlyWithoutPath' /\ Whole' /\ Entered'
    BY <1>1, <1>5 DEF FaultsOnlyWithoutPath, Whole, IInv, Entered
  <1>. QED BY <1>6, <1>7 DEF IInv

\* What recv() took, and what it left in the buffer when it fits.
LEMMA TakenIs ==
  ASSUME TypeOK, NEW n \in 1..Len(stream), Fits(SubSeq(stream, 1, n))
  PROVE  LET piece == SubSeq(stream, 1, n)
             m     == Strcat(mem, Received(piece))
         IN  /\ piece \in Seq(Letters) /\ Len(piece) = n /\ Head(piece) = stream[1]
             /\ m \in Mem /\ NUL \in Range(m)
             /\ Current(m) = Current(mem) \o Received(piece)
             /\ Received(piece) \in Seq(Letters)
  <1> DEFINE piece == SubSeq(stream, 1, n)
  <1>1. /\ mem \in Mem /\ NUL \in Range(mem) /\ stream \in Seq(Letters)
        /\ Len(Current(mem)) \in Nat /\ LineSize \in Nat
    BY Types, CommandLineAssumption
  <1>2. piece \in Seq(Letters) /\ Len(piece) = n /\ \A i \in 1..n : piece[i] = stream[i]
    BY <1>1, Parts
  <1>3. Len(Current(mem)) + Len(piece) < LineSize
    BY DEF Fits
  <1> HIDE DEF piece
  <1> DEFINE r == Received(piece)
  <1>4. r \in Seq(Letters) /\ Len(r) <= Len(piece)
    BY <1>2, ReceivedIs
  <1> HIDE DEF r
  <1>5. Len(Current(mem)) + Len(r) < LineSize
    <2> DEFINE a == Len(Current(mem))
               b == Len(r)
               d == Len(piece)
    <2>1. a \in Nat /\ b \in Nat /\ d \in Nat /\ b <= d /\ a + d < LineSize
      BY <1>1, <1>2, <1>3, <1>4, LenProperties
    <2> HIDE DEF a, b, d
    <2>2. a + b < LineSize
      BY <1>1, <2>1
    <2>. QED BY <2>2 DEF a, b
  <1>6. /\ Strcat(mem, r) \in Mem /\ NUL \in Range(Strcat(mem, r))
        /\ Current(Strcat(mem, r)) = Current(mem) \o r
    BY <1>1, <1>4, <1>5, StrcatIs
  <1>7. Head(piece) = stream[1]
    <2>1. 1 \in 1..n
      BY <1>1, LenProperties
    <2>2. Head(piece) = piece[1]
      BY DEF Head
    <2>. QED BY <1>2, <2>1, <2>2
  <1>. QED BY <1>2, <1>4, <1>6, <1>7 DEF piece, r

\* A piece that fits: the whole line is run, or what came of it is kept.
LEMMA RecvKeeps ==
  ASSUME IInv, NEW n \in 1..Len(stream), Recv(n)
  PROVE  IInv'
  <1> DEFINE piece == SubSeq(stream, 1, n)
             r     == Received(piece)
             m     == Strcat(mem, r)
             rest  == SubSeq(stream, n + 1, Len(stream))
             cur   == Current(mem)
  <1>1. /\ client # "closed" /\ stream' = rest /\ Fits(piece)
        /\ upset' = (upset \/ Head(piece) = LF)
        /\ IF CR \in Range(piece) THEN Return(m) ELSE mem' = m /\ UNCHANGED <<client, cwd, done>>
        /\ call' = call /\ sent' = sent
    BY DEF Recv, Consume
  <1>2. TypeOK /\ Whole /\ FaultsOnlyWithoutPath /\ Entered
    BY DEF IInv
  <1>3. /\ piece \in Seq(Letters) /\ Head(piece) = stream[1]
        /\ m \in Mem /\ NUL \in Range(m) /\ Current(m) = cur \o r /\ r \in Seq(Letters)
    BY <1>1, <1>2, TakenIs
  <1>4. /\ rest \in Seq(Letters) /\ stream \in Seq(Letters) /\ cwd \in Seq(CwdChars)
        /\ cur \in Seq(Letters)
    BY <1>2, Types, Parts
  <1> HIDE DEF piece, m, rest, r, cur
  <1>5. TypeOK' /\ FaultsOnlyWithoutPath' /\ Entered'
    <2>1. CASE CR \in Range(piece)
      <3>1. Return(m)
        BY <1>1, <2>1
      <3>2. /\ mem' \in Mem /\ NUL \in Range(mem') /\ client' \in {"ready", "closed"}
            /\ cwd' \in Seq(CwdChars) /\ Changed(cwd')
            /\ DOMAIN done' = DOMAIN Nothing /\ done'.reply \in Replies /\ Len(done'.args) <= 4
            /\ FaultsOnlyWithoutPath'
        BY <1>2, <1>3, <3>1, ReturnIs
      <3>3. upset' \in BOOLEAN
        BY <1>1
      <3>4. Entered'
        <4>1. cwd \in Places /\ Slash \in Places
          BY <1>2 DEF Entered, Places
        <4>. QED BY <3>2, <4>1, CdPlaces DEF Changed, Entered
      <3>. QED BY <1>1, <1>2, <1>4, <3>2, <3>3, <3>4 DEF TypeOK, Mem, CwdChars
    <2>2. CASE CR \notin Range(piece)
      <3>1. mem' = m /\ client' = client /\ cwd' = cwd /\ done' = done
        BY <1>1, <2>2
      <3>2. FaultsOnlyWithoutPath'
        BY <1>2, <3>1 DEF FaultsOnlyWithoutPath
      <3>3. upset' \in BOOLEAN
        BY <1>1
      <3>4. Entered'
        BY <1>2, <3>1 DEF Entered
      <3>. QED BY <1>1, <1>2, <1>3, <1>4, <3>1, <3>2, <3>3, <3>4 DEF TypeOK, Mem
    <2>. QED BY <2>1, <2>2
  <1>6. Whole'
    <2> SUFFICES ASSUME ~upset, Head(piece) # LF
                 PROVE  IF client' = "waiting" THEN Sending' ELSE Resting'
      BY <1>1 DEF Whole
    <2>1. client = "waiting"
      <3> SUFFICES ASSUME client # "waiting" PROVE FALSE
        OBVIOUS
      <3>1. stream \in {<<>>, <<LF>>}
        BY <1>2 DEF Whole, Resting
      <3>2. stream # <<>>
        <4>1. Len(stream) # 0
          <5> DEFINE k == Len(stream)
          <5>1. n \in 1..k
            OBVIOUS
          <5> HIDE DEF k
          <5>2. k # 0
            BY <5>1
          <5>. QED BY <5>2 DEF k
        <4>. QED BY <4>1, EmptySeq
      <3>3. stream[1] = LF
        BY <3>1, <3>2
      <3>. QED BY <1>3, <3>3
    <2>2. Sending
      BY <1>2, <2>1 DEF Whole
    <2> DEFINE line == Line(call)
    <2>3. call \in Calls /\ line \in Seq(Letters) /\ \A i \in 1..Len(line) : line[i] # CR
      BY <2>2, LineTyped DEF Sending
    <2>4. cur \o stream = line \o Ends /\ Len(cur) <= Len(line)
      <3>1. CASE stream = <<LF>> \o (line \o Ends)
        <4> DEFINE one   == <<LF>>
                   whole == line \o Ends
        <4>1. one \in Seq(Letters) /\ Len(one) = 1 /\ one[1] = LF
          BY Characters
        <4>2. whole \in Seq(Letters)
          BY <2>3, EndsIs, ConcatProperties
        <4>3. stream = one \o whole
          BY <3>1
        <4> HIDE DEF one, whole
        <4>4. \A i \in 1..(Len(one) + Len(whole)) :
                (one \o whole)[i] = IF i <= Len(one) THEN one[i] ELSE whole[i - Len(one)]
          BY <4>1, <4>2, ConcatProperties
        <4>5. Len(whole) \in Nat
          BY <4>2, LenProperties
        <4>6. 1 \in 1..(Len(one) + Len(whole)) /\ 1 <= Len(one)
          BY <4>1, <4>5
        <4>7. stream[1] = LF
          BY <4>1, <4>3, <4>4, <4>6
        <4>. QED BY <1>3, <4>7
      <3>2. CASE ~(stream = <<LF>> \o (line \o Ends))
        BY <2>2, <3>2 DEF Sending, cur
      <3>. QED BY <3>1, <3>2
    <2>5. IF CR \in Range(piece)
          THEN cur \o r = line /\ rest \in {<<>>, <<LF>>}
          ELSE (cur \o piece) \o rest = line \o Ends /\ Len(cur \o piece) <= Len(line)
      <3> HIDE DEF line
      <3>. QED BY <1>4, <2>3, <2>4, Cut DEF piece, r, rest
    <2>6. Current(m) # <<>> => Current(m)[1] # LF
      <3> SUFFICES ASSUME Current(m) # <<>> PROVE Current(m)[1] # LF
        OBVIOUS
      <3> DEFINE w == Current(m)
      <3>1. w = cur \o r /\ w # <<>>
        BY <1>3
      <3> HIDE DEF w
      <3>2. CASE cur = <<>>
        <4>1. w = r /\ r # <<>>
          BY <1>3, <3>1, <3>2, ConcatEmptySeq
        <4>2. Len(r) \in Nat \ {0}
          BY <1>3, <4>1, EmptySeq
        <4>3. 1 \in 1..Len(r)
          BY <4>2
        <4>4. r[1] = piece[1]
          BY <1>3, <4>3, ReceivedIs DEF r
        <4>5. Head(piece) = piece[1]
          BY DEF Head
        <4>. QED BY <4>1, <4>4, <4>5 DEF w
      <3>3. CASE cur # <<>>
        <4>1. cur[1] # LF
          <5>1. CASE stream = <<LF>> \o (line \o Ends) /\ cur = <<>>
            BY <3>3, <5>1
          <5>2. CASE ~(stream = <<LF>> \o (line \o Ends) /\ cur = <<>>)
            BY <2>2, <3>3, <5>2 DEF Sending, cur
          <5>. QED BY <5>1, <5>2
        <4>2. Len(cur) \in Nat \ {0} /\ Len(r) \in Nat
          BY <1>3, <1>4, <3>3, EmptySeq, LenProperties
        <4>3. 1 \in 1..(Len(cur) + Len(r)) /\ 1 <= Len(cur)
          BY <4>2
        <4>4. (cur \o r)[1] = cur[1]
          BY <1>3, <1>4, <4>3, ConcatProperties
        <4>. QED BY <3>1, <4>1, <4>4 DEF w
      <3>. QED BY <3>2, <3>3
    <2>7. CASE CR \in Range(piece)
      <3>1. Return(m) /\ Current(m) = line /\ rest \in {<<>>, <<LF>>}
        BY <1>1, <1>3, <2>5, <2>7
      <3>2. /\ Cell(m, 0) # LF => Current(mem') = <<>>
            /\ client' \in {"ready", "closed"}
            /\ done'.line = Current(m)
            /\ done'.reply # "unknown" => done'.args = ParseArguments(m) /\ Given(done')
        BY <1>2, <1>3, <3>1, ReturnIs
      <3>3. Cell(m, 0) # LF
        <4> SUFFICES ASSUME Cell(m, 0) = LF PROVE FALSE
          OBVIOUS
        <4> DEFINE w == Current(m)
                   l == Len(w)
        <4>1. /\ w \in Seq(Letters) /\ l \in 0..(LineSize - 1) /\ m[l] = NUL
              /\ \A i \in 1..l : w[i] = m[i - 1]
          BY <1>3, CurrentIs
        <4>2. m[0] = LF
          <5>1. 0 \in DOMAIN m
            BY CommandLineAssumption, <1>3 DEF Mem
          <5>. QED BY <5>1 DEF Cell
        <4> HIDE DEF w
        <4>3. w # <<>>
          <5>1. LF # NUL
            BY Characters
          <5>2. l # 0
            BY <4>1, <4>2, <5>1
          <5>. QED BY <5>2, EmptySeq
        <4>4. l \in Nat \ {0}
          BY <4>1, <4>3, EmptySeq
        <4> HIDE DEF l
        <4>5. 1 \in 1..l /\ 1 - 1 = 0
          BY <4>4
        <4>6. w[1] = m[1 - 1]
          BY <4>1, <4>5
        <4>. QED BY <2>6, <4>2, <4>3, <4>5, <4>6 DEF w
      <3>4. Sendable(call) => AsSent(call, ParseArguments(m))
        BY <1>3, <2>3, <3>1, WordsFound
      <3>5. Understood(call, done)'
        BY <1>1, <3>2, <3>4 DEF Understood
      <3>. QED BY <1>1, <2>3, <3>1, <3>2, <3>3, <3>5 DEF Resting
    <2>8. CASE CR \notin Range(piece)
      <3>1. mem' = m /\ client' = "waiting" /\ r = piece
        BY <1>1, <1>3, <2>1, <2>8, ReceivedIs DEF r
      <3>2. Current(mem)' = cur \o piece /\ Current(mem)' = Current(m)
        BY <1>3, <3>1
      <3>3. Sending'
        BY <1>1, <2>3, <2>5, <2>8, <2>6, <3>2 DEF Sending
      <3>. QED BY <3>1, <3>3
    <2>. QED BY <2>7, <2>8
  <1>. QED BY <1>5, <1>6 DEF IInv

-----------------------------------------------------------------------------
(* The theorems.                                                           *)

LEMMA Initial == Init => IInv
  <1> SUFFICES ASSUME Init PROVE IInv
    OBVIOUS
  <1> USE DEF Init
  <1>1. LineSize \in Nat \ {0} /\ 0 \in 0..(LineSize - 1) /\ 0 \in 0..MaxCalls
    BY CommandLineAssumption
  <1>2. mem \in Mem /\ NUL \in Range(mem)
    BY <1>1 DEF Mem, Range
  <1>3. Current(mem) = <<>>
    <2>1. \A i \in 0..(LineSize - 1) : mem[i] = NUL
      OBVIOUS
    <2>2. /\ Current(mem) \in Seq(Letters) /\ Len(Current(mem)) \in 0..(LineSize - 1)
          /\ \A i \in 0..(Len(Current(mem)) - 1) : mem[i] # NUL
      BY <1>2, CurrentIs
    <2> DEFINE l == Len(Current(mem))
    <2>3. l = 0
      <3> HIDE DEF l
      <3>1. l \in Nat /\ l # 0 => 0 \in 0..(l - 1)
        OBVIOUS
      <3>. QED BY <1>1, <2>1, <2>2, <3>1 DEF l
    <2>. QED BY <2>2, <2>3, EmptySeq
  <1>4. done.reply = "none" /\ DOMAIN done = DOMAIN Nothing /\ Len(done.args) <= 4
    BY DEF Nothing
  <1>5. stream \in Seq(Letters) /\ cwd \in Seq(CwdChars)
    BY SlashIn
  <1>6. TypeOK
    BY <1>1, <1>2, <1>4, <1>5 DEF TypeOK, Mem, CwdChars, Replies
  <1>7. FaultsOnlyWithoutPath /\ Whole /\ Entered
    BY <1>3, <1>4 DEF FaultsOnlyWithoutPath, Whole, Resting, Entered, Places
  <1>. QED BY <1>6, <1>7 DEF IInv

LEMMA Inductive == IInv /\ [Next]_vars => IInv'
  <1> SUFFICES ASSUME IInv, [Next]_vars PROVE IInv'
    OBVIOUS
  <1>1. ASSUME NEW c \in Calls, Send(c) PROVE IInv'
    BY <1>1, SendKeeps
  <1>2. ASSUME NEW n \in 1..Len(stream), Recv(n) PROVE IInv'
    BY <1>2, RecvKeeps
  <1>3. ASSUME NEW n \in 1..Len(stream), RecvNoRoom(n) PROVE IInv'
    BY <1>3, NoRoomKeeps
  <1>4. CASE UNCHANGED vars
    BY <1>4 DEF vars, IInv, TypeOK, FaultsOnlyWithoutPath, Whole, Sending, Resting, Understood, Entered
  <1>. QED BY <1>1, <1>2, <1>3, <1>4 DEF Next, Over

LEMMA Invariance == Spec => []IInv
  BY Initial, Inductive, PTL DEF Spec

\* Types: what is in the buffer and on its way are characters, the buffer always
\* keeps a NUL, so that strcat never leaves it, and the directory is the rest of
\* the text of one there is.
THEOREM Typing == Spec => []TypeOK
  <1>1. IInv => TypeOK
    BY DEF IInv
  <1>. QED BY <1>1, Invariance, PTL

\* However TCP cuts what clients send, the line that is run is the line that was
\* sent, and it is run before the prompt: client_request loses no byte of a line
\* and takes none of another, as long as no piece begins with a LF.
THEOREM Running == Spec => []RunsWhatIsSent
  <1>1. IInv => RunsWhatIsSent
    <2> SUFFICES ASSUME IInv, client # "waiting", call # NoCall, ~upset
                 PROVE  done.line = Line(call)
      BY DEF RunsWhatIsSent, Answered
    <2>. QED BY DEF IInv, Whole, Resting
  <1>. QED BY <1>1, Invariance, PTL

\* parse_arguments finds the words that were sent, the first four of them: what
\* earlier, longer lines left in the buffer can only add to a line that ends in
\* a blank.
THEOREM Parsing == Spec => []ArgumentsAreTheWords
  <1>1. IInv => ArgumentsAreTheWords
    <2> SUFFICES ASSUME IInv, client # "waiting", call # NoCall, ~upset, Sendable(call),
                        done.reply # "unknown"
                 PROVE  AsSent(call, done.args)
      BY DEF ArgumentsAreTheWords, Answered, AsSent, Four
    <2>. QED BY DEF IInv, Whole, Resting, Understood
  <1>. QED BY <1>1, Invariance, PTL

\* A handler that takes one argument is given the last word that was sent, for
\* the instance that was named before it or for the first: mp_process_command
\* confuses them only where the argument alone is a number.
THEOREM Reaching == Spec => []ArgumentReachesHandler
  <1>1. IInv => ArgumentReachesHandler
    <2> SUFFICES ASSUME IInv, client # "waiting", call # NoCall, ~upset, Sendable(call), ~call.blank,
                        done.reply # "unknown", call.words[1][1] \in Takers
                 PROVE  LET w     == call.words
                            plain == Len(w) = 2 /\ Strtol(w[2]) = 0
                            named == Len(w) = 3 /\ Strtol(w[2]) \in Instances
                        IN  plain \/ named =>
                              done.given = Last(w) /\ done.inst = (IF named THEN Strtol(w[2]) ELSE 1)
      BY DEF ArgumentReachesHandler, Answered
    <2>1. call \in Calls /\ AsSent(call, done.args) /\ Given(done)
      BY DEF IInv, Whole, Resting, Understood
    <2>. QED BY <2>1, Delivered
  <1>. QED BY <1>1, Invariance, PTL

\* Only id3, dirdump and filedump, with one argument that is taken for an
\* instance, make the daemon read an argument that is not there.
THEOREM Faulting == Spec => []FaultsOnlyWithoutPath
  <1>1. IInv => FaultsOnlyWithoutPath
    BY DEF IInv
  <1>. QED BY <1>1, Invariance, PTL

\* The session's directory is one below the root, and cd of what pwd prints leads
\* back to it, whatever sequence of cd was run: a root that is not written as
\* realpath writes it would be no prefix of any directory, and cwd no path.
THEOREM Entering == Rooted => (Spec => []CwdIsEntered)
  <1> SUFFICES ASSUME Rooted PROVE Spec => []CwdIsEntered
    OBVIOUS
  <1>1. IInv => CwdIsEntered
    BY PlaceIs DEF IInv, Entered, CwdIsEntered
  <1>. QED BY <1>1, Invariance, PTL

\* load_dir and load_dir_entry number the entries of a directory alike, in any
\* file system, also where load_dir stops at its limit.
THEOREM Numbering == Spec => []NumbersAgree
  <1>1. NumbersAgree
    <2> DEFINE path == CwdPath(cwd)
               list == Listing[path]
    <2> SUFFICES ASSUME path \in Dirs, NEW n \in DOMAIN Listed(path)
                 PROVE  LoadDirEntry(path, n) = Listed(path)[n]
      BY DEF NumbersAgree
    <2> HIDE DEF path
    <2>1. list \in Seq(Seq(NameChars))
      BY FilesAssumption
    <2>2. Listed(path) = SubSeq(list, 1, IF Len(list) < MaxListed + 2 THEN Len(list)
                                         ELSE MaxListed + 2)
      BY DEF Listed, LoadDir
    <2> HIDE DEF list
    <2> DEFINE len == Len(list)
               k   == IF len < MaxListed + 2 THEN len ELSE MaxListed + 2
    <2>3. len \in Nat /\ DOMAIN list = 1..len
      BY <2>1, LenProperties
    <2>4. Listed(path) = SubSeq(list, 1, k)
      BY <2>2
    <2> HIDE DEF len
    <2>5. k \in 0..len
      BY <2>3, FilesAssumption
    <2> HIDE DEF k
    <2>6. k \in Int /\ k <= len /\ (IF 1 <= k THEN k - 1 + 1 ELSE 0) = k /\ k - 1 + 1 = k
          /\ \A i \in 1..k : 1 + i - 1 = i
      BY <2>3, <2>5
    <2>7. /\ SubSeq(list, 1, k) \in Seq(Seq(NameChars))
          /\ Len(SubSeq(list, 1, k)) = (IF 1 <= k THEN k - 1 + 1 ELSE 0)
          /\ \A i \in 1..(k - 1 + 1) : SubSeq(list, 1, k)[i] = list[1 + i - 1]
      BY <2>1, <2>6, PartOf DEF len
    <2>8. n \in 1..k /\ Listed(path)[n] = list[n]
      BY <2>4, <2>6, <2>7, LenProperties
    <2>9. n \in DOMAIN list
      BY <2>3, <2>5, <2>8
    <2>. QED BY <2>8, <2>9 DEF LoadDirEntry, list
  <1>. QED BY <1>1, PTL
=============================================================================
