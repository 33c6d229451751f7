----------------------------- MODULE Completion -----------------------------
(***************************************************************************)
(* The two list algorithms that TAB completion rests on: ll_add_sort of    *)
(* the linked list library, and get_unique.  Text is a sequence of         *)
(* characters, a list the sequence of the texts its next pointers link     *)
(* (the prev pointers of sorted lists are never followed).                 *)
(***************************************************************************)
EXTENDS Integers, Sequences, SequencesExt

CONSTANT Alphabet   \* the characters, in the order of their codes

Code(c) == SelectInSeq(Alphabet, LAMBDA d : d = c)

\* strcmp(s, t) < 0
Less(s, t) ==
  \/ IsStrictPrefix(s, t)
  \/ \E i \in DOMAIN s \cap DOMAIN t :
       SubSeq(s, 1, i - 1) = SubSeq(t, 1, i - 1) /\ Code(s[i]) < Code(t[i])

\* ll_add_sort: the new node goes before the first one it is less than.
AddSorted(list, data) ==
  LET next == SelectInSeq(list, LAMBDA d : Less(data, d))
  IN  InsertAt(list, IF next = 0 THEN Len(list) + 1 ELSE next, data)

\* The texts that start with part: each is added to the sorted list in its turn.
Candidates(part, list) ==
  LET sorted[n \in 0..Len(list)] ==
        IF n = 0 THEN <<>>
        ELSE IF IsPrefix(part, list[n]) THEN AddSorted(sorted[n - 1], list[n])
        ELSE sorted[n - 1]
  IN  sorted[Len(list)]

\* A text and the NUL that ends it.
CharAt(s, i) == IF i \in DOMAIN s THEN s[i] ELSE "NUL"

\* Mutant of GetUnique: the first two texts are compared and not all.
GetUniqueOfTwo(list, offset) ==
  LET first == list[1]
      x == CHOOSE x \in 1..(Len(first) + 1) :
             /\ CharAt(list[2], x) # CharAt(first, x)
             /\ \A y \in 1..(x - 1) : CharAt(list[2], y) = CharAt(first, y)
  IN  SubSeq(first, offset + 1, x - 1)

\* get_unique: what all texts have in common after offset, for two texts or more.
GetUnique(list, offset) ==
  LET first == list[1]
      Agree(i) == \A k \in DOMAIN list : CharAt(list[k], i) = CharAt(first, i)
      x == CHOOSE x \in 1..(Len(first) + 1) : ~Agree(x) /\ \A y \in 1..(x - 1) : Agree(y)
  IN  SubSeq(first, offset + 1, x - 1)
=============================================================================
