-------------------------- MODULE CompletionProofs --------------------------
(***************************************************************************)
(* Proofs about LineEditor, continued: that a completion keeps the         *)
(* commands and the files that the line could have named, for every table  *)
(* of commands and every file system.                                      *)
(*                                                                         *)
(* A path is read twice.  Read follows realpath(), which knows no quotes;  *)
(* Spells is what the path means, quotes left out.  Where they part, the   *)
(* directory is not found and nothing is completed (Parallel).  Where they *)
(* agree, what is chosen among the entries of the directory is on the way  *)
(* to every file the line could name (ChosenFollows), and nothing that is  *)
(* added brings a file back (Shrinks).                                     *)
(***************************************************************************)
EXTENDS LineEditorProofs
USE DEF Line

-----------------------------------------------------------------------------
(* What TAB keeps.                                                         *)

\* A text of letters has one word, and so has what it starts with.
LEMMA OneWord ==
  ASSUME NEW name \in Seq(Letters), NEW line \in Line, IsPrefix(line, name)
  PROVE  ~Contains(line, Space) /\ FirstWord(line) = line
  <1>1. name \in Line
    BY Texts
  <1>2. /\ Len(line) <= Len(name) /\ \A i \in 1..Len(line) : line[i] = name[i]
        /\ Len(line) \in Nat /\ Len(name) \in Nat
    BY <1>1, PrefixIs, LenProperties
  <1>3. \A i \in 1..Len(name) : name[i] # Space
    BY LineEditorAssumption, ElementOfSeq
  <1>4. ~Contains(line, Space)
    BY <1>2, <1>3 DEF Contains
  <1>. QED BY <1>4, FirstWordIs

\* A command whose name starts with the line is one the line could mean.
LEMMA NamesAre ==
  \A n \in Names : n \in Seq(Letters) /\ n \in Line
  <1> DEFINE Rows == [name: Seq(Letters), tab: {"dirs", "instances", "clients", "commands", "none"}]
  <1>1. \A row \in Rows : row.name \in Seq(Letters)
    OBVIOUS
  <1>2. Commands \in Seq(Rows)
    BY LineEditorAssumption
  <1> HIDE DEF Rows
  <1>3. \A i \in DOMAIN Commands : Commands[i].name \in Seq(Letters)
    BY <1>1, <1>2, ElementOfSeq, LenProperties
  <1>. QED BY <1>3, Texts DEF Names

\* The completion of a command leaves the commands that the line could mean.
LEMMA CommandsLeft ==
  ASSUME NEW line \in Line
  PROVE  /\ Matching(line \o CompleteCommands(line).append) = Matching(line)
         /\ Contains(line, Space) => line \o CompleteCommands(line).append = line
  <1> DEFINE found == CompleteCommands(line)
             more  == found.append
             done  == line \o more
  <1>1. /\ Adds(found)
        /\ found.matches # 0 => line # <<>>
        /\ found.matches = 1 =>
             \E name \in Seq(Letters) :
               /\ IsPrefix(line, name)
               /\ more = SubSeq(name, Len(line) + 1, Len(name)) \o <<Space>>
               /\ \A n \in Names : IsPrefix(line, n) => n = name
        /\ found.matches \notin {0, 1} => AllGoOn(line, more)
    BY CommandsAdd
  <1> HIDE DEF found
  <1>2. more \in Line /\ done \in Line
    BY <1>1, LineJoined DEF Adds
  <1>3. CASE found.matches = 0
    <2>1. done = line
      BY <1>1, <1>3, ConcatEmptySeq DEF Adds
    <2>. QED BY <2>1 DEF found
  <1>4. CASE found.matches = 1
    <2>1. PICK name \in Seq(Letters) :
                 /\ IsPrefix(line, name)
                 /\ more = SubSeq(name, Len(line) + 1, Len(name)) \o <<Space>>
                 /\ \A n \in Names : IsPrefix(line, n) => n = name
      BY <1>1, <1>4
    <2> DEFINE added == SubSeq(name, Len(line) + 1, Len(name)) \o <<Space>>
    <2>2. Contains(line \o added, Space) /\ FirstWord(line \o added) = name
      BY <2>1, NameTyped
    <2>3. added = more
      BY <2>1
    <2> HIDE DEF added
    <2>4. Contains(done, Space) /\ FirstWord(done) = name
      BY <2>2, <2>3
    <2> HIDE DEF done, more, found
    <2>5. done # <<>> /\ line # <<>>
      BY <1>1, <1>4, <2>4, EmptySeq DEF Contains
    <2>6. FirstWord(line) = line /\ ~Contains(line, Space)
      BY <2>1, OneWord
    <2>7. ASSUME NEW n \in Names PROVE IsPrefix(name, n) <=> IsPrefix(line, n)
      <3>1. n \in Line /\ name \in Line
        BY NamesAre, Texts
      <3>2. IsPrefix(line, name) /\ (IsPrefix(line, n) => n = name)
        BY <2>1
      <3>3. IsPrefix(line, name) /\ IsPrefix(name, n) => IsPrefix(line, n)
        BY <3>1, PrefixOn
      <3>4. IsPrefix(name, name)
        BY <3>1, PrefixOn
      <3>. QED BY <3>2, <3>3, <3>4
    <2>8. Matching(done) = {n \in Names : IsPrefix(name, n)}
      BY <2>4, <2>5 DEF Matching
    <2>9. Matching(line) = {n \in Names : IsPrefix(line, n)}
      BY <2>5, <2>6 DEF Matching
    <2>10. Matching(done) = Matching(line)
      BY <2>7, <2>8, <2>9
    <2>. QED BY <2>6, <2>10 DEF done, more, found
  <1>5. CASE found.matches \notin {0, 1}
    <2>1. AllGoOn(line, more) /\ line # <<>>
      BY <1>1, <1>5
    <2>2. IsPrefix(line, done)
      BY <1>2, PrefixOn
    <2>3. \A n \in Names : IsPrefix(line, n) => IsPrefix(done, n)
      BY <2>1 DEF AllGoOn
    <2>4. PICK name \in Names : IsPrefix(line, name)
      BY <2>1 DEF AllGoOn
    <2> HIDE DEF done, more, found
    <2>5. name \in Seq(Letters) /\ IsPrefix(done, name)
      BY <2>3, <2>4, NamesAre
    <2>6. /\ FirstWord(line) = line /\ ~Contains(line, Space)
          /\ FirstWord(done) = done
      BY <1>2, <2>4, <2>5, OneWord
    <2>7. done # <<>>
      <3>1. Len(line) <= Len(done) /\ Len(line) \in Nat /\ Len(done) \in Nat
        BY <1>2, <2>2, PrefixIs, LenProperties
      <3>2. Len(line) # 0
        BY <2>1, EmptySeq
      <3>3. done = <<>> => Len(done) = 0
        BY EmptySeq
      <3>. QED BY <3>1, <3>2, <3>3
    <2>8. ASSUME NEW n \in Names PROVE IsPrefix(done, n) <=> IsPrefix(line, n)
      <3>1. n \in Line
        BY NamesAre
      <3>2. IsPrefix(line, done) /\ IsPrefix(done, n) => IsPrefix(line, n)
        BY <1>2, <3>1, PrefixOn
      <3>. QED BY <2>2, <2>3, <3>2
    <2>9. Matching(done) = {n \in Names : IsPrefix(done, n)}
      BY <2>6, <2>7 DEF Matching
    <2>10. Matching(line) = {n \in Names : IsPrefix(line, n)}
      BY <2>1, <2>6 DEF Matching
    <2>11. Matching(done) = Matching(line)
      BY <2>8, <2>9, <2>10
    <2>. QED BY <2>6, <2>11 DEF done, more, found
  <1>. QED BY <1>3, <1>4, <1>5 DEF found

\* What TAB adds, and for which command.
Tabbed(line, next) ==
  \/ next.buf = line
  \/ next.buf = line \o CompleteCommands(line).append
  \/ /\ Contains(line, Space)
     /\ next.buf = line \o CompleteDirs(Cwd, line).append
  \/ /\ TabFunction(next.cmd) = "instances"
     /\ next.buf = line \o CompleteInstances.append
     /\ ~next.replaced => Contains(line, Space)

\* The line a completion leaves.
LEMMA CompleteIs ==
  ASSUME NEW ed, Live(ed), NEW found, Adds(found)
  PROVE  /\ Live(Complete(ed, found))
         /\ Complete(ed, found).buf = ed.buf \o found.append
         /\ Complete(ed, found).cmd = ed.cmd
         /\ Complete(ed, found).replaced = ed.replaced
  <1>1. ed \in Ed
    BY DEF Live
  <1> DEFINE line  == ed.buf \o found.append
             shows == CASE found.matches = 0 -> ed.shown
                        [] found.matches = 1 -> ed.shown \o found.append
                        [] OTHER             -> line
             next  == [ed EXCEPT !.buf = line, !.shown = shows]
  <1>2. Complete(ed, found) = next
    BY DEF Complete
  <1> HIDE DEF line, shows
  <1>3. next.cmd = ed.cmd /\ next.replaced = ed.replaced
    BY <1>1 DEF Ed
  <1> HIDE DEF next
  <1>. QED BY <1>2, <1>3, CompleteKeeps

\* TAB on the name of a command.
LEMMA TabCommandsIs ==
  ASSUME NEW ed, Live(ed)
  PROVE  ~TabCommands(ed).enter /\ TabCommands(ed).buf = ed.buf \o CompleteCommands(ed.buf).append
  <1> DEFINE found == CompleteCommands(ed.buf)
             done  == Complete(ed, found)
             id    == CommandId(Front(done.buf))
             next  == [done EXCEPT !.cmd = id, !.replaced = FALSE]
  <1>1. Adds(found)
    BY CommandsAdd DEF Live, Ed
  <1>2. TabCommands(ed) = IF found.matches = 1 THEN next ELSE done
    BY DEF TabCommands, SetCmd
  <1> HIDE DEF found
  <1>3. Live(done) /\ done.buf = ed.buf \o found.append
    BY <1>1, CompleteIs
  <1> HIDE DEF done, id
  <1>4. next.buf = done.buf /\ next.enter = done.enter
    BY <1>3 DEF Live, Ed
  <1> HIDE DEF next
  <1>. QED BY <1>2, <1>3, <1>4 DEF Live, found

\* TAB, for each kind of command.
LEMMA TabIs ==
  ASSUME NEW ed, Live(ed)
  PROVE  ~Tab(ed).enter /\ (Tab(ed).stray = "no" => Tabbed(ed.buf, Tab(ed)))
  <1> DEFINE reset  == IF ed.l = 0 THEN SetCmd(ed, 0) ELSE ed
             cached == CacheCommand(reset)
             kind   == TabFunction(cached.cmd)
  <1>1. Live(reset) /\ reset.buf = ed.buf
    <2>1. 0 \in 0..Len(Commands) /\ Fits(ed.buf, 0)
      BY LineEditorAssumption, LenProperties DEF Fits
    <2>2. Live(SetCmd(ed, 0)) /\ SetCmd(ed, 0).buf = ed.buf
      BY <2>1, SetCmdKeeps
    <2>. QED BY <2>2
  <1>2. Tab(ed) = CASE kind = "commands"  -> TabCommands(cached)
                    [] kind = "dirs"      -> TabDirs(cached)
                    [] kind = "instances" -> Complete(cached, CompleteInstances)
                    [] kind = "clients"   -> Complete(cached, CompleteClients)
                    [] kind = "none"      -> cached
    BY DEF Tab
  <1> HIDE DEF reset
  <1>3. Live(cached) /\ cached.buf = ed.buf
    BY <1>1, CacheCommandKeeps
  <1> HIDE DEF cached
  <1>4. kind \in {"dirs", "instances", "clients", "commands", "none"}
    BY <1>3, KindIs DEF Live, Ed
  <1>5. cached \in Ed /\ cached.buf \in Line /\ ~cached.enter /\ Right(cached) /\ cached.stray = "no"
    BY <1>3 DEF Live, Ed
  <1>6. CASE kind = "commands"
    <2>1. Tab(ed) = TabCommands(cached)
      BY <1>2, <1>6
    <2>. QED BY <1>3, <2>1, TabCommandsIs DEF Tabbed
  <1>7. CASE kind = "dirs"
    <2>1. Tab(ed) = TabDirs(cached)
      BY <1>2, <1>7
    <2>2. CASE Contains(cached.buf, Space)
      <3> DEFINE found == CompleteDirs(Cwd, cached.buf)
      <3>1. Adds(found) /\ TabDirs(cached) = Complete(cached, found)
        BY <1>5, <2>2, DirsAdd DEF TabDirs
      <3> HIDE DEF found
      <3>2. Live(Complete(cached, found)) /\ Complete(cached, found).buf = cached.buf \o found.append
        BY <1>3, <3>1, CompleteIs
      <3>3. ~Tab(ed).enter /\ Tab(ed).buf = ed.buf \o found.append
        BY <1>3, <2>1, <3>1, <3>2 DEF Live
      <3>. QED BY <1>3, <2>2, <3>3 DEF Tabbed, found
    <2>3. CASE ~Contains(cached.buf, Space)
      <3> DEFINE next == [cached EXCEPT !.stray = "tab"]
      <3>1. Tab(ed) = next
        BY <2>1, <2>3 DEF TabDirs
      <3>2. next.stray = "tab" /\ next.enter = cached.enter
        BY <1>5 DEF Ed
      <3> HIDE DEF next
      <3>. QED BY <1>5, <3>1, <3>2
    <2>. QED BY <2>2, <2>3
  <1>8. CASE kind = "instances"
    <2> DEFINE next == Complete(cached, CompleteInstances)
    <2>1. Tab(ed) = next
      BY <1>2, <1>8
    <2>2. /\ Live(next) /\ next.buf = cached.buf \o CompleteInstances.append
          /\ next.cmd = cached.cmd /\ next.replaced = cached.replaced
      BY <1>3, OthersAdd, CompleteIs
    <2> HIDE DEF next
    <2>3. cached.cmd # 0
      BY <1>8 DEF TabFunction
    <2>4. ~next.replaced => Contains(cached.buf, Space)
      BY <1>5, <2>2, <2>3 DEF Right, Fits
    <2>5. TabFunction(next.cmd) = "instances"
      BY <1>8, <2>2
    <2>. QED BY <1>3, <2>1, <2>2, <2>4, <2>5 DEF Tabbed, Live
  <1>9. CASE kind = "clients"
    <2> DEFINE next == Complete(cached, CompleteClients)
    <2>1. Tab(ed) = next
      BY <1>2, <1>9
    <2>2. Live(next) /\ next.buf = cached.buf \o CompleteClients.append
      BY <1>3, OthersAdd, CompleteIs
    <2> HIDE DEF next
    <2>3. CompleteClients.append = <<>>
      BY DEF CompleteClients
    <2>4. next.buf = cached.buf
      BY <1>5, <2>2, <2>3, ConcatEmptySeq
    <2>. QED BY <1>3, <2>1, <2>2, <2>4 DEF Tabbed, Live
  <1>10. CASE kind = "none"
    <2>1. Tab(ed) = cached
      BY <1>2, <1>10
    <2>. QED BY <1>3, <1>5, <2>1 DEF Tabbed
  <1>. QED BY <1>4, <1>6, <1>7, <1>8, <1>9, <1>10

\* A packet that is a TAB.
LEMMA TabStep ==
  ASSUME IInv, Type(<<"\t">>)
  PROVE  /\ buf \in Line
         /\ stray' = "no" => /\ Tabbed(buf, [buf |-> buf', cmd |-> cmd', replaced |-> replaced'])
  <1> DEFINE packet == <<"\t">>
             ed     == Edited(packet)
             Body(f) == [i \in 0..Len(packet) |->
                           IF i = 0 THEN Started ELSE Byte(f[i - 1], packet, i)]
             edit   == CHOOSE f : f = Body(f)
             f      == [i \in 0..1 |-> IF i = 0 THEN Started ELSE Byte(Started, packet, 1)]
  <1>1. stray = "no" /\ Started \in Ed /\ Right(Started) /\ Started.buf = buf /\ buf \in Line
    BY StartedIs DEF Type, IInv, TypeOK, Started
  <1>2. /\ Started.stray = "no" /\ Started.enter = FALSE /\ Started.stop = FALSE /\ Started.skip = 0
    BY <1>1 DEF Started
  <1>3. Len(packet) = 1 /\ packet[1] = "\t" /\ 1 \in DOMAIN packet
    OBVIOUS
  <1>4. ed = edit[Len(packet)]
    BY DEF Edited
  <1> HIDE DEF packet, ed
  <1>5. f = Body(f)
    <2>1. \A i \in 0..1 : f[i] = IF i = 0 THEN Started ELSE Byte(f[i - 1], packet, i)
      OBVIOUS
    <2>2. f[0] = Started /\ f[1] = Byte(Started, packet, 1)
      OBVIOUS
    <2> HIDE DEF f
    <2>3. DOMAIN f = 0..1 /\ f = [i \in 0..1 |-> f[i]]
      BY DEF f
    <2>. QED BY <1>3, <2>1, <2>3
  <1>6. edit = Body(edit)
    <2> HIDE DEF Body
    <2>. QED BY <1>5
  <1> HIDE DEF edit
  <1>7. \A i \in 0..1 : edit[i] = IF i = 0 THEN Started ELSE Byte(edit[i - 1], packet, i)
    BY <1>3, <1>6
  <1>8. ed = Byte(Started, packet, 1)
    <2>1. edit[0] = Started
      BY <1>7
    <2>2. edit[1] = Byte(edit[0], packet, 1)
      BY <1>7
    <2>. QED BY <1>3, <1>4, <2>1, <2>2
  <1>9. Live(Started)
    BY <1>1, <1>2 DEF Live
  <1>10. Byte(Started, packet, 1) = Key(Started, packet, 1)
    BY <1>2 DEF Byte
  <1>11. Key(Started, packet, 1) = Tab(Started)
    <2>1. Space # "\t"
      BY Zenon DEF Space
    <2>. QED BY <1>3, <2>1 DEF Key
  <1>12. ~ed.enter /\ (ed.stray = "no" => Tabbed(buf, ed))
    BY <1>1, <1>8, <1>9, <1>10, <1>11, TabIs
  <1>13. /\ IF ed.enter /\ ed.stray = "no" THEN Enter(ed) ELSE Keep(ed)
         /\ stray' = ed.stray /\ cmd' = ed.cmd /\ replaced' = ed.replaced
    BY DEF Type, packet, ed
  <1>14. buf' = ed.buf
    BY <1>12, <1>13 DEF Keep
  <1>. QED BY <1>1, <1>12, <1>13, <1>14 DEF Tabbed

\* The commands that the line could mean stay.
LEMMA MatchingStays ==
  ASSUME IInv, Type(<<"\t">>), stray' = "no"
  PROVE  CommandsKept
  <1> DEFINE next == [buf |-> buf', cmd |-> cmd', replaced |-> replaced']
  <1>1. buf \in Line /\ Tabbed(buf, next)
    BY TabStep
  <1>2. next.buf = buf' /\ next.cmd = cmd' /\ next.replaced = replaced'
    OBVIOUS
  <1> HIDE DEF next
  <1>3. ASSUME Contains(buf, Space), NEW more \in Line, buf' = buf \o more
        PROVE  Matching(buf') = Matching(buf)
    <2>1. Contains(buf', Space) /\ FirstWord(buf') = FirstWord(buf)
      BY <1>1, <1>3, LongerLine
    <2>2. buf' # <<>> /\ buf # <<>>
      BY <1>3, <2>1, EmptySeq DEF Contains
    <2>. QED BY <2>1, <2>2 DEF Matching
  <1>4. CASE buf' = buf
    BY <1>4 DEF CommandsKept
  <1>5. CASE buf' = buf \o CompleteCommands(buf).append
    BY <1>1, <1>5, CommandsLeft DEF CommandsKept
  <1>6. CASE Contains(buf, Space) /\ buf' = buf \o CompleteDirs(Cwd, buf).append
    <2>1. CompleteDirs(Cwd, buf).append \in Line
      BY <1>1, <1>6, DirsAdd DEF Adds
    <2>. QED BY <1>3, <1>6, <2>1 DEF CommandsKept
  <1>7. CASE /\ TabFunction(cmd') = "instances" /\ buf' = buf \o CompleteInstances.append
             /\ ~replaced' => Contains(buf, Space)
    <2>1. CompleteInstances.append \in Line
      BY OthersAdd DEF Adds
    <2>. QED BY <1>3, <1>7, <2>1 DEF CommandsKept
  <1>. QED BY <1>1, <1>2, <1>4, <1>5, <1>6, <1>7 DEF Tabbed

-----------------------------------------------------------------------------
(* Texts that grow by a character.                                         *)

\* A set of texts that holds the empty one and grows by every character.
LEMMA SeqGrows ==
  ASSUME NEW S, NEW K \in SUBSET Seq(S), NEW none, none = <<>>, none \in K,
         \A s \in K : \A c \in S : Append(s, c) \in K
  PROVE  \A s \in Seq(S) : s \in K
  <1> DEFINE N == {n \in Nat : \A s \in Seq(S) : Len(s) = n => s \in K}
  <1>1. 0 \in N
    <2>1. \A s \in Seq(S) : Len(s) = 0 => s = none
      BY EmptySeq
    <2>. QED BY <2>1
  <1>2. ASSUME NEW n \in N PROVE n + 1 \in N
    <2>1. n \in Nat
      OBVIOUS
    <2> SUFFICES ASSUME NEW s \in Seq(S), Len(s) = n + 1 PROVE s \in K
      BY <2>1
    <2> DEFINE p == SubSeq(s, 1, n)
               c == s[n + 1]
    <2>2. p \in Seq(S) /\ Len(p) = n /\ Append(p, c) = SubSeq(s, 1, n + 1)
      BY <2>1, OneMore
    <2>3. c \in S
      BY <2>1, ElementOfSeq
    <2>4. SubSeq(s, 1, n + 1) = s
      BY SubSeqFull
    <2> HIDE DEF p, c
    <2>5. p \in K
      BY <2>2
    <2>. QED BY <2>2, <2>3, <2>4, <2>5
  <1>3. N \in SUBSET Nat
    OBVIOUS
  <1>4. \A n \in Nat : n \in N
    <2> HIDE DEF N
    <2>. QED BY <1>1, <1>2, <1>3, SetInduction
  <1>. QED BY <1>4, LenProperties

\* Joining and appending.
LEMMA JoinedMore ==
  ASSUME NEW S, NEW s \in Seq(S), NEW t \in Seq(S), NEW c \in S
  PROVE  s \o Append(t, c) = Append(s \o t, c) /\ Append(s, c) = s \o <<c>>
  <1> DEFINE one == <<c>>
  <1>1. one \in Seq(S)
    OBVIOUS
  <1>2. Append(t, c) = t \o one /\ Append(s, c) = s \o one
    BY AppendIsConcat
  <1>3. s \o t \in Seq(S)
    BY ConcatProperties
  <1>4. Append(s \o t, c) = (s \o t) \o one
    BY <1>3, AppendIsConcat
  <1> HIDE DEF one
  <1>5. (s \o t) \o one = s \o (t \o one)
    BY <1>1, ConcatAssociative
  <1>. QED BY <1>2, <1>4, <1>5 DEF one

\* The characters of texts and of names.
AnyChar == Chars \cup NameChars

\* Every character there is, typed or in a name.
LEMMA AnyIs ==
  /\ NameChars \subseteq AnyChar /\ Chars \subseteq AnyChar /\ "/" \in AnyChar /\ PathChars \subseteq AnyChar
  /\ \A s \in Seq(NameChars) : s \in Seq(AnyChar)
  /\ \A s \in Line : s \in Seq(AnyChar)
  /\ \A s \in Seq(PathChars) : s \in Seq(AnyChar)
  /\ Slash \in Seq(AnyChar)
  <1>1. "/" \in Chars
    BY Zenon DEF Chars
  <1>2. NameChars \subseteq AnyChar /\ Chars \subseteq AnyChar
    BY DEF AnyChar
  <1>3. "/" \in AnyChar /\ PathChars \subseteq AnyChar
    BY <1>1, <1>2 DEF PathChars
  <1>4. Slash \in Seq(AnyChar)
    BY <1>3 DEF Slash
  <1>. QED BY <1>2, <1>3, <1>4, SeqMonotonic

-----------------------------------------------------------------------------
(* What a path spells.                                                     *)

Spot == [dir : Seq(Seq(AnyChar)), name : Seq(AnyChar)]
Notes(text, at) ==
  /\ DOMAIN at = 0..Len(text)
  /\ at[0] = Top
  /\ \A k \in 1..Len(text) : at[k] = Spell(at[k - 1], text[k])

\* One character, spelled.
LEMMA SpellIs ==
  ASSUME NEW at \in Spot, NEW c \in AnyChar
  PROVE  /\ Spell(at, c) \in Spot
         /\ c \in Quotes => Spell(at, c) = at
         /\ c = "/" => /\ Spell(at, c).name = <<>>
                       /\ Spell(at, c).dir = IF at.name = <<>> THEN at.dir ELSE Append(at.dir, at.name)
         /\ c \notin Quotes /\ c # "/" => /\ Spell(at, c).dir = at.dir
                                          /\ Spell(at, c).name = Append(at.name, c)
  <1> DEFINE none == <<>>
             dir  == IF at.name = <<>> THEN at.dir ELSE Append(at.dir, at.name)
             more == Append(at.name, c)
             q == [dir |-> dir, name |-> none]
             r == [at EXCEPT !.name = more]
  <1>1. at.dir \in Seq(Seq(AnyChar)) /\ at.name \in Seq(AnyChar)
    BY DEF Spot
  <1>2. dir \in Seq(Seq(AnyChar)) /\ more \in Seq(AnyChar) /\ none \in Seq(AnyChar)
    BY <1>1
  <1>3. "/" \notin Quotes
    BY Zenon DEF Quotes, DoubleQuote
  <1>4. Spell(at, c) = CASE c \in Quotes -> at [] c = "/" -> q [] OTHER -> r
    BY DEF Spell
  <1> HIDE DEF none, dir, more
  <1>5. q \in Spot /\ q.dir = dir /\ q.name = none
    BY <1>2 DEF Spot
  <1>6. r \in Spot /\ r.dir = at.dir /\ r.name = more
    BY <1>2 DEF Spot
  <1> HIDE DEF q, r
  <1>7. c \in Quotes => Spell(at, c) = at
    BY <1>3, <1>4
  <1>8. c = "/" => Spell(at, c) = q
    BY <1>3, <1>4
  <1>9. c \notin Quotes /\ c # "/" => Spell(at, c) = r
    BY <1>4
  <1>. QED BY <1>5, <1>6, <1>7, <1>8, <1>9 DEF none, dir, more

\* Two texts spell the same as far as they agree.
LEMMA NotesAlike ==
  ASSUME NEW s, NEW a, NEW t, NEW b, Notes(s, a), Notes(t, b), Len(s) \in Nat, Len(t) \in Nat,
         NEW n \in Nat, n <= Len(s), n <= Len(t), \A i \in 1..n : s[i] = t[i]
  PROVE  a[n] = b[n]
  <1> DEFINE K == {k \in Nat : k <= n => a[k] = b[k]}
  <1>1. 0 \in K
    BY DEF Notes
  <1>2. ASSUME NEW k \in K PROVE k + 1 \in K
    <2> SUFFICES ASSUME k + 1 <= n PROVE a[k + 1] = b[k + 1]
      OBVIOUS
    <2> DEFINE m == k + 1
    <2>1. a[k] = b[k] /\ m \in 1..Len(s) /\ m \in 1..Len(t) /\ m \in 1..n /\ m - 1 = k
      OBVIOUS
    <2> HIDE DEF m
    <2>2. a[m] = Spell(a[m - 1], s[m]) /\ b[m] = Spell(b[m - 1], t[m])
      BY <2>1 DEF Notes
    <2>3. a[m] = b[m]
      BY <2>1, <2>2
    <2>. QED BY <2>3 DEF m
  <1>3. K \in SUBSET Nat
    OBVIOUS
  <1> HIDE DEF K
  <1>4. n \in K
    BY <1>1, <1>2, <1>3, SetInduction
  <1>. QED BY <1>4 DEF K

\* What Spells computes, from the start of the text on.
LEMMA NotesIs ==
  ASSUME NEW text \in Seq(AnyChar)
  PROVE  \E at \in [0..Len(text) -> Spot] : Notes(text, at) /\ Spells(text) = at[Len(text)]
  <1> DEFINE n    == Len(text)
             step == [k \in 1..n |-> [p \in Spot |-> Spell(p, text[k])]]
             Body(f) == [k \in 0..n |->
                           IF k = 0 THEN [dir |-> <<>>, name |-> <<>>] ELSE Spell(f[k - 1], text[k])]
             f    == CHOOSE g : g = Body(g)
  <1>1. n \in Nat /\ \A k \in 1..n : text[k] \in AnyChar
    BY LenProperties, ElementOfSeq
  <1>2. step \in Steps(n, Spot)
    BY <1>1, SpellIs DEF Steps
  <1>3. Top \in Spot
    <2> DEFINE none == <<>>
    <2>1. none \in Seq(Seq(AnyChar)) /\ none \in Seq(AnyChar) /\ Top = [dir |-> none, name |-> none]
      BY DEF Top
    <2> HIDE DEF none
    <2>. QED BY <2>1 DEF Spot
  <1>4. Spells(text) = f[n]
    BY DEF Spells
  <1> HIDE DEF n
  <1>5. PICK at \in [0..n -> Spot] : at[0] = Top /\ \A k \in 1..n : at[k] = step[k][at[k - 1]]
    <2> HIDE DEF step
    <2>1. \E g : Iterates(g, n, Spot, Top, step)
      BY <1>1, <1>2, <1>3, Iteration
    <2>. QED BY <2>1 DEF Iterates
  <1>6. ASSUME NEW k \in 1..n PROVE at[k] = Spell(at[k - 1], text[k])
    <2>1. k - 1 \in 0..n
      BY <1>1
    <2>2. at[k - 1] \in Spot
      BY <2>1
    <2>. QED BY <1>5, <2>2
  <1>7. Notes(text, at)
    BY <1>5, <1>6 DEF Notes, n
  <1>8. at = Body(at)
    <2>1. ASSUME NEW k \in 0..n
          PROVE  at[k] = IF k = 0 THEN [dir |-> <<>>, name |-> <<>>] ELSE Spell(at[k - 1], text[k])
      <3>1. CASE k = 0
        BY <1>5, <3>1 DEF Top
      <3>2. CASE k # 0
        <4>1. k \in 1..n
          BY <1>1, <3>2
        <4>. QED BY <1>6, <3>2, <4>1
      <3>. QED BY <3>1, <3>2
    <2>. QED BY <2>1
  <1>9. f = Body(f)
    <2> HIDE DEF Body
    <2>. QED BY <1>8
  <1> HIDE DEF f
  <1>10. Notes(text, f)
    <2>1. 0 \in 0..n /\ \A k \in 1..n : k \in 0..n /\ k # 0
      BY <1>1
    <2>2. f[0] = Top
      BY <1>9, <2>1 DEF Top
    <2>3. \A k \in 1..n : f[k] = Spell(f[k - 1], text[k])
      BY <1>9, <2>1
    <2>4. DOMAIN f = 0..n
      BY <1>9
    <2>. QED BY <2>2, <2>3, <2>4 DEF Notes, n
  <1>11. f[n] = at[n]
    <2>1. n <= n /\ \A i \in 1..n : text[i] = text[i]
      BY <1>1
    <2>. QED BY <1>1, <1>7, <1>10, <2>1, NotesAlike DEF n
  <1>. QED BY <1>4, <1>7, <1>11 DEF n

\* A text that a character is added to.
LEMMA SpellsIs ==
  /\ Spells(<<>>) = Top
  /\ \A text \in Seq(AnyChar) : /\ Spells(text) \in Spot
                            /\ \A c \in AnyChar : Spells(Append(text, c)) = Spell(Spells(text), c)
  <1>1. Spells(<<>>) = Top
    <2> DEFINE none == <<>>
    <2>1. none \in Seq(AnyChar) /\ Len(none) = 0
      OBVIOUS
    <2> HIDE DEF none
    <2>2. PICK at \in [0..Len(none) -> Spot] : Notes(none, at) /\ Spells(none) = at[Len(none)]
      BY <2>1, NotesIs
    <2>3. Spells(none) = Top
      BY <2>1, <2>2 DEF Notes
    <2>. QED BY <2>3 DEF none
  <1>2. ASSUME NEW text \in Seq(AnyChar)
        PROVE  /\ Spells(text) \in Spot
               /\ \A c \in AnyChar : Spells(Append(text, c)) = Spell(Spells(text), c)
    <2> DEFINE n == Len(text)
    <2>1. n \in Nat /\ n \in 0..n
      BY LenProperties
    <2> HIDE DEF n
    <2>2. PICK at \in [0..n -> Spot] : Notes(text, at) /\ Spells(text) = at[n]
      BY NotesIs DEF n
    <2>3. ASSUME NEW c \in AnyChar PROVE Spells(Append(text, c)) = Spell(Spells(text), c)
      <3> DEFINE more == Append(text, c)
                 m    == n + 1
      <3>1. /\ more \in Seq(AnyChar) /\ Len(more) = m /\ more[m] = c
            /\ \A i \in 1..n : text[i] = more[i]
        BY AppendProperties DEF n
      <3> HIDE DEF more
      <3>2. PICK b \in [0..m -> Spot] : Notes(more, b) /\ Spells(more) = b[m]
        BY <3>1, NotesIs
      <3>3. m \in Nat /\ m \in 1..m /\ m - 1 = n /\ n <= m /\ n <= n
        BY <2>1
      <3> HIDE DEF m
      <3>4. b[m] = Spell(b[n], c)
        BY <3>1, <3>2, <3>3 DEF Notes
      <3>5. at[n] = b[n]
        <4>1. Len(text) = n /\ Len(more) = m
          BY <3>1 DEF n
        <4>2. Notes(text, at) /\ Notes(more, b) /\ \A i \in 1..n : text[i] = more[i]
          BY <2>2, <3>1, <3>2
        <4>. QED BY <2>1, <3>3, <4>1, <4>2, NotesAlike
      <3>. QED BY <2>2, <3>2, <3>4, <3>5 DEF more
    <2>. QED BY <2>1, <2>2, <2>3
  <1>. QED BY <1>1, <1>2

-----------------------------------------------------------------------------
(* What realpath() has read of a text.                                     *)

Read(text) ==
  LET at == CHOOSE at : Resolves(text, at) IN at[Len(text)]

\* Two texts are read the same as far as they agree.
LEMMA ReadAlike ==
  ASSUME NEW s, NEW a, NEW t, NEW b, Resolves(s, a), Resolves(t, b), Len(s) \in Nat, Len(t) \in Nat,
         NEW n \in Nat, n <= Len(s), n <= Len(t), \A i \in 1..n : s[i] = t[i]
  PROVE  a[n] = b[n]
  <1> DEFINE z == 0
  <1>1. Alike(s, z, t, z, n) /\ z + n = n /\ a[z] = b[z]
    BY DEF Alike, Resolves
  <1> HIDE DEF z
  <1>2. a[z + n] = b[z + n]
    BY <1>1, ResolveAlike
  <1>. QED BY <1>1, <1>2

\* What is read does not depend on the choice.
LEMMA ReadAt ==
  ASSUME NEW text \in Seq(AnyChar), NEW at, Resolves(text, at)
  PROVE  Read(text) = at[Len(text)]
  <1> DEFINE b == CHOOSE b : Resolves(text, b)
             n == Len(text)
  <1>1. Resolves(text, b)
    OBVIOUS
  <1>2. Read(text) = b[n]
    BY DEF Read
  <1> HIDE DEF b
  <1>3. n \in Nat
    BY LenProperties
  <1>4. n <= n /\ \A i \in 1..n : text[i] = text[i]
    BY <1>3
  <1>5. at[n] = b[n]
    BY <1>1, <1>3, <1>4, ReadAlike
  <1>. QED BY <1>2, <1>5

\* A text that a character is added to.
LEMMA ReadOn ==
  ASSUME NEW text \in Seq(AnyChar), NEW c \in AnyChar
  PROVE  Read(Append(text, c)) = Go(Read(text), c)
  <1> DEFINE more == Append(text, c)
             n    == Len(text)
             m    == n + 1
  <1>1. /\ more \in Seq(AnyChar) /\ Len(more) = m /\ more[m] = c
        /\ \A i \in 1..n : text[i] = more[i]
    BY AppendProperties
  <1>2. PICK at : Resolves(text, at)
    BY ResolvesIs
  <1> HIDE DEF more
  <1>3. PICK b : Resolves(more, b)
    BY <1>1, ResolvesIs
  <1>4. Read(text) = at[n] /\ Read(more) = b[m]
    BY <1>1, <1>2, <1>3, ReadAt
  <1>5. n \in Nat
    BY LenProperties
  <1>6. /\ Resolves(text, at) /\ Resolves(more, b) /\ Len(text) \in Nat /\ Len(more) \in Nat
        /\ n \in Nat /\ n <= Len(text) /\ n <= Len(more) /\ \A i \in 1..n : text[i] = more[i]
    BY <1>1, <1>2, <1>3, <1>5
  <1> HIDE DEF n
  <1>7. at[n] = b[n]
    BY <1>6, ReadAlike
  <1>8. m \in 1..Len(more) /\ m - 1 = n
    BY <1>1, <1>5
  <1> HIDE DEF m
  <1>9. b[m] = Go(b[m - 1], more[m])
    BY <1>3, <1>8 DEF Resolves
  <1>. QED BY <1>1, <1>4, <1>7, <1>8, <1>9 DEF more

\* Where the reading of a text starts, and how it goes on.
LEMMA ReadIs ==
  /\ Read(<<>>) = Top
  /\ \A text \in Seq(AnyChar) : /\ Read(text) \in Place(AnyChar)
                            /\ \A c \in AnyChar : Read(Append(text, c)) = Go(Read(text), c)
  <1>1. Read(<<>>) = Top
    <2> DEFINE none == <<>>
    <2>1. none \in Seq(AnyChar) /\ Len(none) = 0
      OBVIOUS
    <2> HIDE DEF none
    <2>2. PICK at \in [0..Len(none) -> Place(AnyChar)] : Resolves(none, at)
      BY <2>1, ResolvesIs
    <2>3. Read(none) = Top
      BY <2>1, <2>2, ReadAt DEF Resolves
    <2>. QED BY <2>3 DEF none
  <1>2. ASSUME NEW text \in Seq(AnyChar)
        PROVE  Read(text) \in Place(AnyChar)
    <2> DEFINE n == Len(text)
    <2>1. n \in Nat /\ n \in 0..n
      BY LenProperties
    <2>2. PICK at \in [0..n -> Place(AnyChar)] : Resolves(text, at)
      BY ResolvesIs
    <2>3. Read(text) = at[n]
      BY <2>2, ReadAt
    <2> HIDE DEF n
    <2>. QED BY <2>1, <2>2, <2>3
  <1>. QED BY <1>1, <1>2, ReadOn

\* realpath() looks up what it has read.
LEMMA RealpathRead ==
  ASSUME NEW text \in Seq(AnyChar), text # <<>>, Head(text) = "/"
  PROVE  Realpath(text) = Walk(Read(text).dir, Read(text).name)
  <1>1. PICK at : Resolves(text, at)
    BY ResolvesIs
  <1>2. Realpath(text) = Walk(at[Len(text)].dir, at[Len(text)].name)
    BY <1>1, RealpathIs
  <1>. QED BY <1>1, <1>2, ReadAt

\* One character, read.
LEMMA GoIs ==
  ASSUME NEW at \in Place(AnyChar), NEW c \in AnyChar
  PROVE  /\ c = "/" => Go(at, c).dir = Walk(at.dir, at.name) /\ Go(at, c).name = <<>>
         /\ c # "/" => Go(at, c).dir = at.dir /\ Go(at, c).name = Append(at.name, c)
  <1> DEFINE none == <<>>
             dir  == Walk(at.dir, at.name)
             more == Append(at.name, c)
             q    == [dir |-> dir, name |-> none]
             r    == [at EXCEPT !.name = more]
  <1>1. Go(at, c) = IF c = "/" THEN q ELSE r
    BY DEF Go
  <1> HIDE DEF none, dir, more
  <1>2. q.dir = dir /\ q.name = none
    OBVIOUS
  <1>3. r.dir = at.dir /\ r.name = more
    BY DEF Place
  <1> HIDE DEF q, r
  <1>. QED BY <1>1, <1>2, <1>3 DEF none, dir, more

\* A name is read, and a slash.
LEMMA ReadName ==
  ASSUME NEW s \in Seq(AnyChar), NEW t \in Seq(AnyChar), \A i \in 1..Len(t) : t[i] # "/"
  PROVE  Read(s \o t).dir = Read(s).dir /\ Read(s \o t).name = Read(s).name \o t
  <1> DEFINE C == {c \in AnyChar : c # "/"}
             G(u) == Read(s \o u).dir = Read(s).dir /\ Read(s \o u).name = Read(s).name \o u
             K == {u \in Seq(C) : G(u)}
             none == <<>>
  <1>0. Read(s) \in Place(AnyChar) /\ Read(s).name \in Seq(AnyChar)
    BY ReadIs DEF Place
  <1>1. none \in K
    <2>1. s \o none = s /\ Read(s).name \o none = Read(s).name
      BY <1>0, ConcatEmptySeq
    <2>2. none \in Seq(C)
      OBVIOUS
    <2> HIDE DEF none
    <2>. QED BY <2>1, <2>2
  <1>2. ASSUME NEW u \in K, NEW c \in C PROVE Append(u, c) \in K
    <2> DEFINE x == s \o u
               v == Append(u, c)
    <2>1. u \in Seq(AnyChar) /\ u \in Seq(C) /\ c \in AnyChar /\ c # "/"
      BY SeqMonotonic
    <2>2. s \o v = Append(x, c)
      BY <2>1, JoinedMore
    <2>3. x \in Seq(AnyChar) /\ v \in Seq(C)
      BY <2>1, ConcatProperties, AppendProperties
    <2>4. Read(x).dir = Read(s).dir /\ Read(x).name = Read(s).name \o u
      OBVIOUS
    <2>5. Read(s).name \o v = Append(Read(s).name \o u, c)
      <3> DEFINE w == Read(s).name
      <3>1. w \in Seq(AnyChar)
        BY <1>0
      <3> HIDE DEF w
      <3>2. w \o Append(u, c) = Append(w \o u, c)
        BY <2>1, <3>1, JoinedMore
      <3>. QED BY <3>2 DEF w
    <2> HIDE DEF x, v
    <2>6. Read(x) \in Place(AnyChar) /\ Read(Append(x, c)) = Go(Read(x), c)
      BY <2>1, <2>3, ReadIs
    <2>7. /\ Read(s \o v).dir = Read(x).dir
          /\ Read(s \o v).name = Append(Read(x).name, c)
      BY <2>1, <2>2, <2>6, GoIs
    <2>8. G(v)
      BY <2>4, <2>5, <2>7
    <2>. QED BY <2>3, <2>8 DEF v
  <1>3. t \in Seq(C)
    <2>1. Range(t) \subseteq C
      <3>1. \A i \in 1..Len(t) : t[i] \in C
        BY ElementOfSeq
      <3>. QED BY <3>1, LenProperties DEF Range
    <2> HIDE DEF C
    <2>. QED BY <2>1, OwnElements
  <1>4. K \in SUBSET Seq(C) /\ none = <<>>
    OBVIOUS
  <1>5. t \in K
    <2> HIDE DEF K, C, none
    <2>. QED BY <1>1, <1>2, <1>3, <1>4, SeqGrows
  <1>. QED BY <1>5

\* A slash at the end is where the last name is looked up.
LEMMA ReadSlash ==
  ASSUME NEW s \in Seq(AnyChar)
  PROVE  /\ Read(s \o Slash).dir = Walk(Read(s).dir, Read(s).name)
         /\ Read(s \o Slash).name = <<>>
  <1> DEFINE c == "/"
  <1>1. s \o Slash = Append(s, c)
    BY AppendIsConcat, AnyIs DEF Slash
  <1>2. c \in AnyChar /\ c = "/"
    BY AnyIs
  <1> HIDE DEF c
  <1>3. Read(s) \in Place(AnyChar) /\ Read(Append(s, c)) = Go(Read(s), c)
    BY <1>2, ReadIs
  <1>. QED BY <1>1, <1>2, <1>3, GoIs

-----------------------------------------------------------------------------
(* What is spelled, as the text goes on.                                   *)

\* File names can be typed: none holds a quote or a space.
PlainFiles == NameChars \cap (Quotes \cup {Space}) = {}

\* A name at the end is added to the last name spelled.
LEMMA SpellNames ==
  ASSUME PlainFiles, NEW s \in Seq(AnyChar), NEW t \in Seq(NameChars)
  PROVE  Spells(s \o t).dir = Spells(s).dir /\ Spells(s \o t).name = Spells(s).name \o t
  <1> DEFINE G(u) == Spells(s \o u).dir = Spells(s).dir /\ Spells(s \o u).name = Spells(s).name \o u
             K == {u \in Seq(NameChars) : G(u)}
             none == <<>>
  <1>0. Spells(s) \in Spot /\ Spells(s).name \in Seq(AnyChar)
    BY SpellsIs DEF Spot
  <1>1. none \in K
    <2>1. s \o none = s /\ Spells(s).name \o none = Spells(s).name
      BY <1>0, ConcatEmptySeq
    <2>2. none \in Seq(NameChars)
      OBVIOUS
    <2> HIDE DEF none
    <2>. QED BY <2>1, <2>2
  <1>2. ASSUME NEW u \in K, NEW c \in NameChars PROVE Append(u, c) \in K
    <2> DEFINE x == s \o u
               v == Append(u, c)
    <2>1. u \in Seq(AnyChar) /\ u \in Seq(NameChars) /\ c \in AnyChar
      BY AnyIs
    <2>9. c # "/" /\ c \notin Quotes
      BY FilesAssumption DEF PlainFiles
    <2>2. s \o v = Append(x, c)
      BY <2>1, JoinedMore
    <2>3. x \in Seq(AnyChar) /\ v \in Seq(NameChars)
      BY <2>1, ConcatProperties, AppendProperties
    <2>4. Spells(x).dir = Spells(s).dir /\ Spells(x).name = Spells(s).name \o u
      OBVIOUS
    <2>5. Spells(s).name \o v = Append(Spells(s).name \o u, c)
      <3> DEFINE w == Spells(s).name
      <3>1. w \in Seq(AnyChar)
        BY <1>0
      <3> HIDE DEF w
      <3>2. w \o Append(u, c) = Append(w \o u, c)
        BY <2>1, <3>1, JoinedMore
      <3>. QED BY <3>2 DEF w
    <2> HIDE DEF x, v
    <2>6. Spells(x) \in Spot /\ Spells(Append(x, c)) = Spell(Spells(x), c)
      BY <2>1, <2>3, SpellsIs
    <2>7. /\ Spells(s \o v).dir = Spells(x).dir
          /\ Spells(s \o v).name = Append(Spells(x).name, c)
      BY <2>1, <2>2, <2>6, <2>9, SpellIs
    <2>8. G(v)
      BY <2>4, <2>5, <2>7
    <2>. QED BY <2>3, <2>8 DEF v
  <1>4. K \in SUBSET Seq(NameChars) /\ none = <<>>
    OBVIOUS
  <1>5. t \in K
    <2> HIDE DEF K, none
    <2>. QED BY <1>1, <1>2, <1>4, SeqGrows
  <1>. QED BY <1>5

\* Quotes at the end spell nothing.
LEMMA SpellQuotes ==
  ASSUME NEW s \in Seq(AnyChar), NEW t \in Seq(Quotes)
  PROVE  t \in Seq(AnyChar) /\ Spells(s \o t) = Spells(s)
  <1> DEFINE K == {u \in Seq(Quotes) : Spells(s \o u) = Spells(s)}
             none == <<>>
  <1>0. Quotes \subseteq AnyChar
    <2>1. Quotes \subseteq Chars
      BY DEF Chars
    <2>. QED BY <2>1, AnyIs
  <1>1. none \in K
    <2>1. s \o none = s
      BY ConcatEmptySeq
    <2>2. none \in Seq(Quotes)
      OBVIOUS
    <2> HIDE DEF none
    <2>. QED BY <2>1, <2>2
  <1>2. ASSUME NEW u \in K, NEW c \in Quotes PROVE Append(u, c) \in K
    <2> DEFINE x == s \o u
               v == Append(u, c)
    <2>1. u \in Seq(AnyChar) /\ u \in Seq(Quotes) /\ c \in AnyChar /\ c \in Quotes
      BY <1>0, SeqMonotonic
    <2>2. s \o v = Append(x, c)
      BY <2>1, JoinedMore
    <2>3. x \in Seq(AnyChar) /\ v \in Seq(Quotes)
      BY <2>1, ConcatProperties, AppendProperties
    <2>4. Spells(x) = Spells(s)
      OBVIOUS
    <2> HIDE DEF x, v
    <2>6. Spells(x) \in Spot /\ Spells(Append(x, c)) = Spell(Spells(x), c)
      BY <2>1, <2>3, SpellsIs
    <2>7. Spells(s \o v) = Spells(x)
      BY <2>1, <2>2, <2>6, SpellIs
    <2>. QED BY <2>3, <2>4, <2>7 DEF v
  <1>4. K \in SUBSET Seq(Quotes) /\ none = <<>>
    OBVIOUS
  <1>5. t \in K
    <2> HIDE DEF K, none
    <2>. QED BY <1>1, <1>2, <1>4, SeqGrows
  <1>6. t \in Seq(AnyChar)
    BY <1>0, SeqMonotonic
  <1>. QED BY <1>5, <1>6

\* Texts that spell the same, and go on alike.
LEMMA SpellAlike ==
  ASSUME NEW s \in Seq(AnyChar), NEW r \in Seq(AnyChar), NEW t \in Seq(AnyChar), Spells(s) = Spells(r)
  PROVE  Spells(s \o t) = Spells(r \o t)
  <1> DEFINE K == {u \in Seq(AnyChar) : Spells(s \o u) = Spells(r \o u)}
             none == <<>>
  <1>1. none \in K
    <2>1. s \o none = s /\ r \o none = r
      BY ConcatEmptySeq
    <2>2. none \in Seq(AnyChar)
      OBVIOUS
    <2> HIDE DEF none
    <2>. QED BY <2>1, <2>2
  <1>2. ASSUME NEW u \in K, NEW c \in AnyChar PROVE Append(u, c) \in K
    <2> DEFINE x == s \o u
               y == r \o u
               v == Append(u, c)
    <2>1. u \in Seq(AnyChar)
      OBVIOUS
    <2>2. s \o v = Append(x, c) /\ r \o v = Append(y, c)
      BY <2>1, JoinedMore
    <2>3. x \in Seq(AnyChar) /\ y \in Seq(AnyChar) /\ v \in Seq(AnyChar)
      BY <2>1, ConcatProperties, AppendProperties
    <2>4. Spells(x) = Spells(y)
      OBVIOUS
    <2> HIDE DEF x, y, v
    <2>6. Spells(Append(x, c)) = Spell(Spells(x), c) /\ Spells(Append(y, c)) = Spell(Spells(y), c)
      BY <2>3, SpellsIs
    <2>. QED BY <2>2, <2>3, <2>4, <2>6 DEF v
  <1>4. K \in SUBSET Seq(AnyChar) /\ none = <<>>
    OBVIOUS
  <1>5. t \in K
    <2> HIDE DEF K, none
    <2>. QED BY <1>1, <1>2, <1>4, SeqGrows
  <1>. QED BY <1>5

\* The files that what is spelled could go on to.
Ahead(at) == {f \in Regular : IsStrictPrefix(at.dir, f) /\ IsPrefix(at.name, f[Len(at.dir) + 1])}

-----------------------------------------------------------------------------
(* The files ahead of what is spelled.                                     *)

\* A regular file and the directories above it.
LEMMA FileIs ==
  ASSUME NEW f \in Regular
  PROVE  /\ f \in Paths /\ f \notin Dirs /\ f \in Seq(Seq(NameChars)) /\ f \in Seq(Seq(AnyChar)) /\ Len(f) \in Nat
         /\ \A k \in 1..Len(f) : /\ f[k] \in Seq(NameChars) /\ f[k] \in Seq(AnyChar) /\ f[k] # <<>>
                                 /\ SubSeq(f, 1, k) \in Paths
                                 /\ SubSeq(f, 1, k - 1) \in Dirs
                                 /\ k < Len(f) => SubSeq(f, 1, k) \in Dirs
  <1>1. f \in Paths /\ f \notin Dirs
    BY FilesAssumption DEF Paths
  <1>2. /\ f \in Seq(Seq(NameChars)) /\ Len(f) \in Nat
        /\ \A k \in 1..Len(f) : f[k] \in Seq(NameChars) /\ f[k] # <<>>
    BY <1>1, PathIs
  <1>3. \A w \in Seq(NameChars) : w \in Seq(AnyChar)
    BY AnyIs
  <1>4. f \in Seq(Seq(AnyChar))
    <2>1. Seq(NameChars) \subseteq Seq(AnyChar)
      BY <1>3
    <2> DEFINE A == Seq(NameChars)
               B == Seq(AnyChar)
    <2> HIDE DEF A, B
    <2>2. A \subseteq B /\ f \in Seq(A)
      BY <1>2, <2>1 DEF A, B
    <2>3. f \in Seq(B)
      BY <2>2, SeqMonotonic
    <2>. QED BY <2>3 DEF B
  <1>5. ASSUME NEW k \in 1..Len(f)
        PROVE  /\ SubSeq(f, 1, k) \in Paths /\ SubSeq(f, 1, k - 1) \in Dirs
               /\ k < Len(f) => SubSeq(f, 1, k) \in Dirs
    <2>1. k \in Nat /\ k <= Len(f) /\ k - 1 \in Nat /\ k - 1 <= Len(f) /\ k - 1 < Len(f)
      BY <1>2
    <2>. QED BY <1>1, <2>1, Ancestors
  <1>. QED BY <1>1, <1>2, <1>3, <1>4, <1>5

\* The files ahead, by their names.
LEMMA AheadIs ==
  ASSUME NEW at \in Spot, NEW f
  PROVE  f \in Ahead(at) <=> /\ f \in Regular /\ Len(at.dir) < Len(f)
                             /\ \A i \in 1..Len(at.dir) : at.dir[i] = f[i]
                             /\ IsPrefix(at.name, f[Len(at.dir) + 1])
  <1> DEFINE d == at.dir
             S == Seq(AnyChar)
  <1>1. d \in Seq(S)
    BY DEF Spot
  <1> HIDE DEF d, S
  <1>2. ASSUME f \in Regular
        PROVE  IsStrictPrefix(d, f) <=> Len(d) < Len(f) /\ \A i \in 1..Len(d) : d[i] = f[i]
    <2>1. f \in Seq(S)
      BY <1>2, FileIs DEF S
    <2>2. Len(d) \in Nat /\ Len(f) \in Nat
      BY <1>1, <2>1, LenProperties
    <2>3. IsPrefix(d, f) <=> Len(d) <= Len(f) /\ \A i \in 1..Len(d) : d[i] = f[i]
      BY <1>1, <2>1, PrefixIs
    <2>4. Len(d) = Len(f) /\ (\A i \in 1..Len(d) : d[i] = f[i]) => d = f
      BY <1>1, <2>1, SeqEqual
    <2>5. IsStrictPrefix(d, f) <=> IsPrefix(d, f) /\ d # f
      BY DEF IsStrictPrefix
    <2>. QED BY <2>2, <2>3, <2>4, <2>5
  <1>3. f \in Ahead(at) <=> f \in Regular /\ IsStrictPrefix(d, f) /\ IsPrefix(at.name, f[Len(d) + 1])
    BY DEF Ahead, d
  <1>. QED BY <1>2, <1>3 DEF d

\* The directory of a file ahead.
LEMMA DirAhead ==
  ASSUME NEW at \in Spot, NEW f \in Ahead(at)
  PROVE  /\ f \in Regular /\ Len(at.dir) \in Nat /\ Len(at.dir) + 1 \in 1..Len(f)
         /\ at.dir \in Dirs
         /\ Append(at.dir, f[Len(at.dir) + 1]) = SubSeq(f, 1, Len(at.dir) + 1)
         /\ Append(at.dir, f[Len(at.dir) + 1]) \in Paths
  <1> DEFINE d == at.dir
             n == Len(d)
             m == n + 1
             S == Seq(AnyChar)
             p == SubSeq(f, 1, n)
  <1>1. d \in Seq(S)
    BY DEF Spot
  <1>2. f \in Regular /\ n < Len(f) /\ \A i \in 1..n : d[i] = f[i]
    BY AheadIs
  <1> HIDE DEF d, S
  <1>3. f \in Seq(S) /\ Len(f) \in Nat /\ n \in Nat
    BY <1>1, <1>2, FileIs, LenProperties DEF S
  <1> HIDE DEF n
  <1>4. m \in 1..Len(f) /\ n + 1 <= Len(f) /\ 1 <= 1 /\ n <= Len(f) /\ n \in Int /\ m - 1 = n
    BY <1>2, <1>3
  <1>5. p \in Seq(S) /\ Len(p) = n /\ Append(p, f[n + 1]) = SubSeq(f, 1, n + 1)
    BY <1>3, <1>4, OneMore
  <1>6. \A i \in 1..n : p[i] = f[i]
    <2>1. \A i \in 1..(n - 1 + 1) : p[i] = f[1 + i - 1]
      BY <1>3, <1>4, PartOf
    <2>2. \A i \in 1..n : i \in 1..(n - 1 + 1) /\ 1 + i - 1 = i
      BY <1>3
    <2>. QED BY <2>1, <2>2
  <1> HIDE DEF p
  <1>7. Len(d) = Len(p) /\ \A i \in 1..Len(d) : d[i] = p[i]
    BY <1>2, <1>5, <1>6 DEF n
  <1>8. d = p
    BY <1>1, <1>5, <1>7, SeqEqual
  <1>9. SubSeq(f, 1, m) \in Paths /\ SubSeq(f, 1, m - 1) \in Dirs
    <2> HIDE DEF m
    <2>. QED BY <1>2, <1>4, FileIs
  <1>10. d \in Dirs
    BY <1>4, <1>8, <1>9 DEF p
  <1>. QED BY <1>2, <1>3, <1>4, <1>5, <1>8, <1>9, <1>10 DEF n, d

\* One more character leaves no other files, and goes on from the directory.
LEMMA OneLess ==
  ASSUME NEW at \in Spot, NEW c \in AnyChar
  PROVE  Ahead(Spell(at, c)) \subseteq Ahead(at) /\ IsPrefix(at.dir, Spell(at, c).dir)
  <1> DEFINE to == Spell(at, c)
             d  == at.dir
             e  == to.dir
             w  == at.name
             n  == Len(d)
             none == <<>>
             S  == Seq(AnyChar)
  <1>1. to \in Spot /\ d \in Seq(S) /\ e \in Seq(S) /\ w \in Seq(AnyChar) /\ w \in S
    BY SpellIs DEF Spot
  <1>2. CASE to.dir = d /\ to.name = w
    <2>1. IsPrefix(d, d)
      BY <1>1, PrefixOn
    <2>2. Ahead(to) = Ahead(at)
      BY <1>2 DEF Ahead
    <2>. QED BY <1>2, <2>1, <2>2
  <1>3. CASE c = "/" /\ w = none
    <2>1. to.dir = d /\ to.name = w
      BY <1>3, SpellIs
    <2>. QED BY <1>2, <2>1
  <1>4. CASE c \notin Quotes /\ c # "/"
    <2>1. to.dir = d /\ to.name = Append(w, c)
      BY <1>4, SpellIs
    <2>2. IsPrefix(d, d)
      BY <1>1, PrefixOn
    <2>3. ASSUME NEW f \in Ahead(to) PROVE f \in Ahead(at)
      <3> DEFINE x == f[n + 1]
                 v == Append(w, c)
      <3>0. /\ f \in Regular /\ Len(to.dir) < Len(f) /\ (\A i \in 1..Len(to.dir) : to.dir[i] = f[i])
            /\ IsPrefix(to.name, f[Len(to.dir) + 1])
        <4> HIDE DEF to
        <4>. QED BY <1>1, AheadIs
      <3>1. f \in Regular /\ n < Len(f) /\ (\A i \in 1..n : d[i] = f[i]) /\ IsPrefix(v, x)
        BY <2>1, <3>0
      <3>2. n + 1 \in 1..Len(f)
        BY <1>1, <3>1, LenProperties, FileIs
      <3> HIDE DEF w
      <3>7. w \in Seq(AnyChar) /\ <<c>> \in Seq(AnyChar)
        BY <1>1
      <3>8. v \in Seq(AnyChar) /\ v = w \o <<c>>
        BY <3>7, AppendProperties, AppendIsConcat
      <3> HIDE DEF v
      <3>3. x \in Seq(AnyChar) /\ v \in Seq(AnyChar) /\ v = w \o <<c>> /\ <<c>> \in Seq(AnyChar)
        BY <3>1, <3>2, <3>7, <3>8, FileIs
      <3> HIDE DEF x
      <3>4. IsPrefix(w, v)
        BY <1>1, <3>3, PrefixOn
      <3>5. IsPrefix(w, x)
        BY <1>1, <3>1, <3>3, <3>4, PrefixOn
      <3>. QED BY <3>1, <3>5, AheadIs DEF x, w
    <2>. QED BY <2>1, <2>2, <2>3
  <1>5. CASE c = "/" /\ w # none
    <2>1. e = Append(d, w)
      BY <1>5, SpellIs
    <2> HIDE DEF to, d, w, S, none
    <2>2. Len(e) = n + 1 /\ e[n + 1] = w /\ n \in Nat /\ \A i \in 1..n : e[i] = d[i]
      BY <1>1, <2>1, AppendProperties, LenProperties
    <2> HIDE DEF e
    <2>3. IsPrefix(d, e)
      <3>1. n <= Len(e) /\ \A i \in 1..n : d[i] = e[i]
        BY <2>2
      <3>. QED BY <1>1, <3>1, PrefixIs
    <2>4. ASSUME NEW f \in Ahead(to) PROVE f \in Ahead(at)
      <3>1. f \in Regular /\ Len(e) < Len(f) /\ (\A i \in 1..Len(e) : e[i] = f[i])
        BY <1>1, AheadIs DEF e
      <3>2. Len(f) \in Nat
        BY <3>1, FileIs
      <3>3. n < Len(f) /\ n + 1 \in 1..Len(e) /\ \A i \in 1..n : i \in 1..Len(e)
        BY <2>2, <3>1, <3>2
      <3>4. f[n + 1] = w /\ \A i \in 1..n : d[i] = f[i]
        BY <2>2, <3>1, <3>3
      <3>5. IsPrefix(w, w)
        BY <1>1, PrefixOn
      <3>6. IsPrefix(w, f[n + 1])
        BY <3>4, <3>5
      <3>. QED BY <3>1, <3>3, <3>4, <3>6, AheadIs DEF d, w
    <2>. QED BY <2>3, <2>4 DEF e, to, d
  <1>6. CASE c \in Quotes
    <2>1. to = at
      BY <1>6, SpellIs
    <2>. QED BY <1>2, <2>1
  <1>. QED BY <1>3, <1>4, <1>5, <1>6

\* What is added to a text takes files away at most.
LEMMA Shrinks ==
  ASSUME NEW s \in Seq(AnyChar), NEW t \in Seq(AnyChar)
  PROVE  /\ Ahead(Spells(s \o t)) \subseteq Ahead(Spells(s))
         /\ IsPrefix(Spells(s).dir, Spells(s \o t).dir)
  <1> DEFINE S == Seq(AnyChar)
             G(u) == /\ Ahead(Spells(s \o u)) \subseteq Ahead(Spells(s))
                     /\ IsPrefix(Spells(s).dir, Spells(s \o u).dir)
             K == {u \in Seq(AnyChar) : G(u)}
             none == <<>>
  <1>0. \A u \in Seq(AnyChar) : Spells(u) \in Spot /\ Spells(u).dir \in Seq(S)
    BY SpellsIs DEF Spot
  <1>1. none \in K
    <2>1. s \o none = s
      BY ConcatEmptySeq
    <2>2. none \in Seq(AnyChar)
      OBVIOUS
    <2>3. IsPrefix(Spells(s).dir, Spells(s).dir)
      BY <1>0, PrefixOn
    <2> HIDE DEF none
    <2>. QED BY <2>1, <2>2, <2>3
  <1>2. ASSUME NEW u \in K, NEW c \in AnyChar PROVE Append(u, c) \in K
    <2> DEFINE x == s \o u
               v == Append(u, c)
               a == Spells(s).dir
               b == Spells(x).dir
               z == Spells(s \o v).dir
    <2>1. u \in Seq(AnyChar)
      OBVIOUS
    <2>2. s \o v = Append(x, c)
      BY <2>1, JoinedMore
    <2>3. x \in Seq(AnyChar) /\ v \in Seq(AnyChar) /\ s \o v \in Seq(AnyChar)
      BY <2>1, ConcatProperties, AppendProperties
    <2>4. Ahead(Spells(x)) \subseteq Ahead(Spells(s)) /\ IsPrefix(a, b)
      OBVIOUS
    <2>5. a \in Seq(S) /\ b \in Seq(S) /\ z \in Seq(S)
      BY <1>0, <2>3
    <2> HIDE DEF x, v
    <2>6. Spells(x) \in Spot /\ Spells(s \o v) = Spell(Spells(x), c)
      BY <2>2, <2>3, SpellsIs
    <2>7. Ahead(Spells(s \o v)) \subseteq Ahead(Spells(x)) /\ IsPrefix(b, z)
      BY <2>6, OneLess
    <2> HIDE DEF a, b, z, S
    <2>8. IsPrefix(a, z)
      BY <2>4, <2>5, <2>7, PrefixOn
    <2>9. G(v)
      BY <2>4, <2>7, <2>8 DEF a, z
    <2>. QED BY <2>3, <2>9 DEF v
  <1>4. K \in SUBSET Seq(AnyChar) /\ none = <<>>
    OBVIOUS
  <1>5. t \in K
    <2> HIDE DEF K, none
    <2>. QED BY <1>1, <1>2, <1>4, SeqGrows
  <1>. QED BY <1>5

\* What was read is in no directory, or holds a quote.
Spoilt(at) == at.dir = NoPath \/ Range(at.name) \cap Quotes # {}

\* What is spoilt is not found.
LEMMA WalkNot ==
  ASSUME PlainFiles, NEW at \in Place(AnyChar), Spoilt(at)
  PROVE  Walk(at.dir, at.name) = NoPath
  <1> DEFINE dots == {<<>>, <<".">>}
             up   == <<".", ".">>
             dir  == at.dir
             name == at.name
  <1>1. Walk(dir, name) = CASE dir \in Dirs /\ name \in dots -> dir
                            [] dir \in Dirs /\ name = up -> IF dir = <<>> THEN <<>> ELSE Front(dir)
                            [] dir \in Dirs /\ Append(dir, name) \in Paths -> Append(dir, name)
                            [] OTHER -> NoPath
    BY DEF Walk
  <1>2. name \in Seq(AnyChar)
    BY DEF Place
  <1>3. CASE dir = NoPath
    <2>1. dir \notin Dirs
      BY <1>3, NoPathIs DEF Paths
    <2> HIDE DEF dots, up, dir, name
    <2>. QED BY <1>1, <2>1 DEF dir, name
  <1>4. CASE Range(name) \cap Quotes # {}
    <2>1. PICK i \in 1..Len(name) : name[i] \in Quotes
      BY <1>2, <1>4, LenProperties DEF Range
    <2>2. name \notin dots /\ name # up
      <3>1. "." \notin Quotes
        BY Zenon DEF Quotes, DoubleQuote
      <3>2. name # <<>>
        <4>1. Len(name) # 0
          BY <1>2, <2>1, LenProperties
        <4>. QED BY <4>1, EmptySeq
      <3>3. name # <<".">>
        <4>1. ASSUME name = <<".">> PROVE FALSE
          <5>1. Len(name) = 1 /\ name[1] = "."
            BY <4>1
          <5> HIDE DEF name
          <5>2. i = 1
            BY <2>1, <5>1
          <5>. QED BY <2>1, <3>1, <5>1, <5>2
        <4>. QED BY <4>1
      <3>4. name # up
        <4>1. ASSUME name = up PROVE FALSE
          <5>1. Len(name) = 2 /\ name[1] = "." /\ name[2] = "."
            BY <4>1
          <5> HIDE DEF name, up
          <5>2. i = 1 \/ i = 2
            BY <2>1, <5>1
          <5>. QED BY <2>1, <3>1, <5>1, <5>2
        <4>. QED BY <4>1
      <3>. QED BY <3>2, <3>3, <3>4
    <2>3. ASSUME dir \in Dirs PROVE Append(dir, name) \notin Paths
      <3> SUFFICES ASSUME Append(dir, name) \in Paths PROVE FALSE
        OBVIOUS
      <3> DEFINE p == Append(dir, name)
                 T == Seq(NameChars)
                 U == T \cup {name}
                 n == Len(dir) + 1
      <3>1. dir \in Seq(T)
        BY <2>3, PathIs DEF Paths
      <3> HIDE DEF T, dir, name
      <3>2. dir \in Seq(U) /\ name \in U
        BY <3>1, SeqMonotonic
      <3>3. Len(p) = n /\ p[n] = name /\ n \in 1..n
        BY <3>2, AppendProperties, LenProperties
      <3> HIDE DEF p
      <3>4. p \in Paths
        BY DEF p
      <3>5. p[n] \in T
        BY <3>3, <3>4, PathIs DEF T
      <3>6. name \in Seq(NameChars)
        BY <3>3, <3>5 DEF T
      <3>7. name[i] \in NameChars
        BY <2>1, <3>6, ElementOfSeq
      <3>. QED BY <2>1, <3>7 DEF PlainFiles
    <2> HIDE DEF dots, up, dir, name
    <2>. QED BY <1>1, <2>2, <2>3 DEF dir, name
  <1>. QED BY <1>3, <1>4 DEF Spoilt

\* As long as there is a file ahead, what is read is what is spelled.
LEMMA Parallel ==
  ASSUME PlainFiles, NEW text \in Seq(AnyChar), Ahead(Spells(text)) # {}
  PROVE  \/ Spoilt(Read(text))
         \/ Read(text).dir = Spells(text).dir /\ Read(text).name = Spells(text).name
  <1> DEFINE Same(u) == Read(u).dir = Spells(u).dir /\ Read(u).name = Spells(u).name
             G(u) == Ahead(Spells(u)) # {} => Spoilt(Read(u)) \/ Same(u)
             K == {u \in Seq(AnyChar) : G(u)}
             none == <<>>
  <1>1. none \in K
    <2>1. Read(none) = Spells(none)
      BY ReadIs, SpellsIs
    <2>2. none \in Seq(AnyChar)
      OBVIOUS
    <2> HIDE DEF none
    <2>. QED BY <2>1, <2>2
  <1>2. ASSUME NEW u \in K, NEW c \in AnyChar PROVE Append(u, c) \in K
    <2> DEFINE v  == Append(u, c)
               at == Read(u)
               sp == Spells(u)
               d  == sp.dir
               w  == sp.name
    <2>1. u \in Seq(AnyChar) /\ v \in Seq(AnyChar)
      BY AppendProperties
    <2>2. at \in Place(AnyChar) /\ Read(v) = Go(at, c)
      BY <2>1, ReadIs
    <2>3. sp \in Spot /\ Spells(v) = Spell(sp, c)
      BY <2>1, SpellsIs
    <2>4. d \in Seq(Seq(AnyChar)) /\ w \in Seq(AnyChar)
      BY <2>3 DEF Spot
    <2>5. at.name \in Seq(AnyChar)
      BY <2>2 DEF Place
    <2> SUFFICES ASSUME NEW f \in Ahead(Spells(v)) PROVE Spoilt(Read(v)) \/ Same(v)
      BY <2>1
    <2>6. f \in Ahead(sp)
      BY <2>3, OneLess
    <2>7. Spoilt(at) \/ (at.dir = d /\ at.name = w)
      BY <2>1, <2>6
    <2> HIDE DEF v, at, sp, none
    <2>8. "/" \notin Quotes
      BY Zenon DEF Quotes, DoubleQuote
    <2>9. CASE Spoilt(at)
      <3>1. CASE c = "/"
        <4>1. Read(v).dir = NoPath
          BY <2>2, <2>9, <3>1, GoIs, WalkNot
        <4>. QED BY <4>1 DEF Spoilt
      <3>2. CASE c # "/"
        <4>1. Read(v).dir = at.dir /\ Read(v).name = Append(at.name, c)
          BY <2>2, <3>2, GoIs
        <4> DEFINE name == at.name
        <4>2. Range(name) \subseteq Range(Append(name, c))
          <5>1. name \in Seq(AnyChar)
            BY <2>5
          <5> HIDE DEF name
          <5> DEFINE more == Append(name, c)
          <5>2. /\ more \in Seq(AnyChar) /\ Len(more) = Len(name) + 1 /\ Len(name) \in Nat
                /\ \A i \in 1..Len(name) : more[i] = name[i]
            BY <5>1, AppendProperties, LenProperties
          <5> HIDE DEF more
          <5>3. DOMAIN name = 1..Len(name) /\ DOMAIN more = 1..Len(more)
            BY <5>1, <5>2, LenProperties
          <5>4. \A i \in 1..Len(name) : i \in 1..Len(more)
            BY <5>2
          <5>5. Range(name) \subseteq Range(more)
            BY <5>2, <5>3, <5>4 DEF Range
          <5>. QED BY <5>5 DEF more
        <4>. QED BY <2>9, <4>1, <4>2 DEF Spoilt
      <3>. QED BY <3>1, <3>2
    <2>10. CASE at.dir = d /\ at.name = w
      <3>1. CASE c = "/" /\ w = none
        <4>1. Spells(v).dir = d /\ Spells(v).name = none
          BY <2>3, <3>1, SpellIs DEF none
        <4>2. d \in Dirs
          BY <2>3, <2>6, DirAhead
        <4>3. Walk(d, none) = d
          BY <4>2, WalkIn DEF Reached, Paths, none
        <4>4. Read(v).dir = d /\ Read(v).name = none
          BY <2>2, <2>10, <3>1, <4>3, GoIs DEF none
        <4>. QED BY <4>1, <4>4
      <3>2. CASE c = "/" /\ w # none
        <4>1. Spells(v).dir = Append(d, w) /\ Spells(v).name = none /\ Spells(v) \in Spot
          BY <2>3, <3>2, SpellIs DEF none
        <4>2. Append(d, w) \in Dirs
          BY <4>1, DirAhead
        <4>3. d \in Dirs
          BY <2>3, <2>6, DirAhead
        <4>9. Walk(d, w) = Append(d, w)
          BY <4>2, <4>3, WalkTo DEF Paths
        <4>10. Read(v).dir = Append(d, w) /\ Read(v).name = none
          BY <2>2, <2>10, <3>2, <4>9, GoIs DEF none
        <4>. QED BY <4>1, <4>10
      <3>3. CASE c # "/" /\ c \notin Quotes
        <4>1. Spells(v).dir = d /\ Spells(v).name = Append(w, c)
          BY <2>3, <3>3, SpellIs
        <4>2. Read(v).dir = d /\ Read(v).name = Append(w, c)
          BY <2>2, <2>10, <3>3, GoIs
        <4>. QED BY <4>1, <4>2
      <3>4. CASE c \in Quotes
        <4>1. Read(v).name = Append(w, c)
          BY <2>2, <2>8, <2>10, <3>4, GoIs
        <4> HIDE DEF w
        <4>2. c \in Range(Append(w, c))
          <5> DEFINE more == Append(w, c)
                     n == Len(w) + 1
          <5>1. more \in Seq(AnyChar) /\ Len(more) = n /\ more[n] = c /\ n \in 1..n
            BY <2>4, AppendProperties, LenProperties
          <5> HIDE DEF more, n
          <5>2. n \in DOMAIN more
            BY <5>1, LenProperties
          <5>3. c \in Range(more)
            BY <5>1, <5>2 DEF Range
          <5>. QED BY <5>3 DEF more
        <4>. QED BY <3>4, <4>1, <4>2 DEF Spoilt
      <3>. QED BY <3>1, <3>2, <3>3, <3>4
    <2>. QED BY <2>7, <2>9, <2>10
  <1>4. K \in SUBSET Seq(AnyChar) /\ none = <<>>
    OBVIOUS
  <1>5. text \in K
    <2> HIDE DEF K, none
    <2>. QED BY <1>1, <1>2, <1>4, SeqGrows
  <1>. QED BY <1>5

\* The text of a directory is where the texts of the paths below it start.
LEMMA TextGrows ==
  ASSUME NEW path \in Paths, NEW n \in Nat, n <= Len(path)
  PROVE  IsPrefix(Text(SubSeq(path, 1, n)), Text(path))
  <1> DEFINE q == SubSeq(path, 1, n)
             l == Len(path)
             none == <<>>
             T == Seq(PathChars)
  <1>1. path \in Seq(Seq(NameChars)) /\ l \in Nat
    BY PathIs
  <1>2. q \in Paths /\ Len(q) = n /\ \A k \in 1..n : q[k] = path[k]
    <2>1. q \in Paths
      BY Ancestors
    <2>2. Len(q) = n /\ \A k \in 1..n : q[k] = path[k]
      <3>1. n \in Int /\ 1 <= n + 1 /\ n <= Len(path) /\ n - 1 + 1 = n
        OBVIOUS
      <3>2. Len(q) = (IF 1 <= n THEN n - 1 + 1 ELSE 0) /\ \A k \in 1..(n - 1 + 1) : q[k] = path[1 + k - 1]
        BY <1>1, <3>1, PartOf
      <3>3. \A k \in 1..n : 1 + k - 1 = k
        OBVIOUS
      <3> HIDE DEF q
      <3>. QED BY <3>1, <3>2, <3>3
    <2>. QED BY <2>1, <2>2
  <1>3. PICK t : Spelled(path, t) /\ Text(path) = IF path = none THEN Slash ELSE t[l]
    BY TextIs
  <1>4. PICK u : Spelled(q, u) /\ Text(q) = IF q = none THEN Slash ELSE u[n]
    <2>1. PICK u : Spelled(q, u) /\ Text(q) = IF q = none THEN Slash ELSE u[Len(q)]
      BY <1>2, TextIs
    <2>. QED BY <1>2, <2>1
  <1> HIDE DEF q, l
  <1>5. /\ \A k \in 0..l : t[k] \in T
        /\ \A k \in 1..l : t[k] = t[k - 1] \o Slash \o path[k]
        /\ t[0] = none
    BY <1>3 DEF Spelled, l
  <1>6. u[0] = none /\ \A k \in 1..n : u[k] = u[k - 1] \o Slash \o q[k]
    BY <1>2, <1>4 DEF Spelled
  <1>7. u[n] = t[n]
    <2> DEFINE K == {k \in Nat : k <= n => u[k] = t[k]}
    <2>1. 0 \in K
      BY <1>5, <1>6
    <2>2. ASSUME NEW k \in K PROVE k + 1 \in K
      <3> SUFFICES ASSUME k + 1 <= n PROVE u[k + 1] = t[k + 1]
        OBVIOUS
      <3> DEFINE m == k + 1
      <3>1. m \in 1..n /\ m \in 1..l /\ m - 1 = k /\ u[k] = t[k]
        BY <1>1 DEF l
      <3> HIDE DEF m
      <3>2. u[m] = u[m - 1] \o Slash \o q[m] /\ t[m] = t[m - 1] \o Slash \o path[m]
        BY <1>5, <1>6, <3>1
      <3>3. u[m] = t[m]
        BY <1>2, <3>1, <3>2
      <3>. QED BY <3>3 DEF m
    <2>3. K \in SUBSET Nat
      OBVIOUS
    <2> HIDE DEF K
    <2>4. n \in K
      BY <2>1, <2>2, <2>3, SetInduction
    <2>. QED BY <2>4 DEF K
  <1>8. ASSUME NEW m \in 0..l PROVE IsPrefix(t[m], t[l])
    <2> DEFINE K == {k \in Nat : m + k <= l => IsPrefix(t[m], t[m + k])}
    <2>0. m \in Nat
      BY <1>1
    <2>1. 0 \in K
      <3>1. m + 0 = m /\ t[m] \in T
        BY <1>5, <2>0
      <3> HIDE DEF T
      <3>2. IsPrefix(t[m], t[m])
        BY <3>1, PrefixOn DEF T
      <3>. QED BY <3>1, <3>2
    <2>2. ASSUME NEW k \in K PROVE k + 1 \in K
      <3> SUFFICES ASSUME m + (k + 1) <= l PROVE IsPrefix(t[m], t[m + (k + 1)])
        OBVIOUS
      <3> DEFINE i == m + k
                 j == m + (k + 1)
      <3>1. k \in Nat /\ i <= l /\ i \in 0..l /\ j \in 0..l /\ j \in 1..l /\ j - 1 = i
        BY <1>1, <2>0
      <3>2. IsPrefix(t[m], t[i])
        BY <3>1
      <3> HIDE DEF i, j
      <3> DEFINE a == t[m]
                 b == t[i]
                 s == Slash \o path[j]
      <3>3. a \in T /\ b \in T
        BY <1>5, <3>1
      <3>4. s \in T
        BY <3>1, PathIs DEF l
      <3>5. t[j] = b \o Slash \o path[j]
        BY <1>5, <3>1
      <3>6. t[j] = b \o s
        <4>1. path[j] \in Seq(NameChars)
          BY <3>1, PathIs DEF l
        <4>2. path[j] \in T /\ Slash \in T
          <5>1. NameChars \subseteq PathChars
            BY DEF PathChars
          <5>2. Slash \in T
            BY DEF Slash, PathChars
          <5>. QED BY <4>1, <5>1, <5>2, SeqMonotonic
        <4> DEFINE slash == Slash
                   w == path[j]
        <4> HIDE DEF b, T, slash, w
        <4>3. b \in Seq(PathChars) /\ slash \in Seq(PathChars) /\ w \in Seq(PathChars)
          BY <3>3, <4>2 DEF T, slash, w
        <4>4. Regroups(b, slash, w)
          BY <4>3, Regrouped
        <4>. QED BY <3>5, <4>4 DEF slash, w, Regroups
      <3>7. IsPrefix(a, b \o s)
        <4> HIDE DEF a, b, s
        <4>1. b \o s \in Seq(PathChars) /\ IsPrefix(b, b \o s)
          BY <3>3, <3>4, PrefixOn, ConcatProperties DEF T
        <4> DEFINE c == b \o s
        <4> HIDE DEF c
        <4>2. a \in Seq(PathChars) /\ b \in Seq(PathChars) /\ c \in Seq(PathChars) /\ IsPrefix(a, b) /\ IsPrefix(b, c)
          BY <3>2, <3>3, <4>1 DEF a, b, c, T
        <4>3. IsPrefix(a, c)
          BY <4>2, PrefixOn
        <4>. QED BY <4>3 DEF c
      <3>. QED BY <3>6, <3>7 DEF j
    <2>3. K \in SUBSET Nat
      OBVIOUS
    <2> DEFINE k == l - m
    <2>4. k \in Nat /\ m + k = l /\ m + k <= l
      BY <1>1, <2>0
    <2> HIDE DEF K, k
    <2>5. k \in K
      BY <2>1, <2>2, <2>3, <2>4, SetInduction
    <2>. QED BY <2>4, <2>5 DEF K
  <1>9. CASE q # none
    <2>1. n \in 0..l /\ n # 0
      BY <1>1, <1>2, <1>9, EmptySeq DEF l
    <2>2. path # none
      <3>1. l # 0
        BY <1>1, <2>1
      <3>. QED BY <3>1, EmptySeq DEF l
    <2>. QED BY <1>3, <1>4, <1>7, <1>8, <1>9, <2>1, <2>2 DEF q
  <1>10. CASE q = none /\ path # none
    <2>1. l # 0
      BY <1>1, <1>10, EmptySeq DEF l
    <2>2. 1 \in 1..l /\ 1 - 1 = 0 /\ 1 \in 0..l
      BY <1>1, <2>1
    <2> DEFINE slash == Slash
               w == path[1]
               a == t[1]
               b == t[l]
    <2>3. a = none \o slash \o w
      BY <1>5, <2>2
    <2>4. w \in Seq(PathChars) /\ slash \in Seq(PathChars)
      <3>1. w \in Seq(NameChars)
        BY <2>2, PathIs DEF l
      <3>2. NameChars \subseteq PathChars
        BY DEF PathChars
      <3>3. slash \in Seq(PathChars)
        BY DEF Slash, PathChars
      <3>. QED BY <3>1, <3>2, <3>3, SeqMonotonic
    <2>5. a \in Seq(PathChars) /\ b \in Seq(PathChars) /\ IsPrefix(a, b)
      BY <1>1, <1>5, <1>8, <2>2
    <2> HIDE DEF none, slash, w, a, b
    <2>6. none \o slash = slash
      BY <2>4, ConcatEmptySeq DEF none
    <2>7. IsPrefix(slash, a)
      BY <2>3, <2>4, <2>6, PrefixOn
    <2>8. IsPrefix(slash, b)
      BY <2>4, <2>5, <2>7, PrefixOn
    <2>. QED BY <1>3, <1>4, <1>10, <2>8 DEF slash, b, q
  <1>11. CASE q = none /\ path = none
    <2> DEFINE slash == Slash
    <2>1. slash \in Seq(PathChars)
      BY DEF Slash, PathChars
    <2> HIDE DEF slash
    <2>2. IsPrefix(slash, slash)
      BY <2>1, PrefixOn
    <2>. QED BY <1>3, <1>4, <1>11, <2>2 DEF slash, q
  <1>. QED BY <1>9, <1>10, <1>11

\* A file ahead of a text that starts at the root is in it.
LEMMA RootBelow ==
  ASSUME Rooted, PlainFiles, NEW more \in Seq(AnyChar),
         Ahead(Spells(Root \o Slash \o more)) # {}
  PROVE  /\ Root \in Seq(AnyChar) /\ Root \o Slash \in Seq(AnyChar)
         /\ InRoot(Spells(Root \o Slash \o more).dir)
  <1> DEFINE r == Root \o Slash
             d == Spells(r \o more).dir
  <1>1. PICK e \in Dirs : Root = Text(e)
    BY DEF Rooted
  <1>2. Root \in Seq(AnyChar) /\ Root # <<>> /\ Head(Root) = "/"
    <2>1. Root \in Seq(PathChars)
      BY <1>1, TextTyped DEF Paths
    <2>. QED BY <2>1, AnyIs, FilesAssumption
  <1>3. r \in Seq(AnyChar)
    BY <1>2, AnyIs, ConcatProperties
  <1>4. Read(r).dir = e /\ Read(r).name = <<>>
    <2>1. Realpath(Root) = e
      BY <1>1, <1>2, RealpathOfText
    <2>2. Realpath(Root) = Walk(Read(Root).dir, Read(Root).name)
      BY <1>2, RealpathRead
    <2>. QED BY <1>2, <2>1, <2>2, ReadSlash
  <1>5. ~Spoilt(Read(r))
    <2>1. e # NoPath
      BY NoPathIs DEF Paths
    <2>2. Range(Read(r).name) = {}
      BY <1>4 DEF Range
    <2>. QED BY <1>4, <2>1, <2>2 DEF Spoilt
  <1> HIDE DEF r
  <1>6. Ahead(Spells(r \o more)) # {}
    BY DEF r
  <1>7. Ahead(Spells(r)) # {} /\ IsPrefix(Spells(r).dir, d)
    BY <1>3, <1>6, Shrinks
  <1>8. Spells(r).dir = e
    BY <1>3, <1>4, <1>5, <1>7, Parallel
  <1>9. d \in Dirs
    <2>1. Spells(r \o more) \in Spot
      BY <1>3, ConcatProperties, SpellsIs
    <2>. QED BY <1>6, <2>1, DirAhead
  <1> HIDE DEF d
  <1>10. Len(e) \in Nat /\ Len(e) <= Len(d) /\ e = SubSeq(d, 1, Len(e))
    <2>1. IsPrefix(e, d)
      BY <1>7, <1>8
    <2>2. e \in Seq(Seq(NameChars))
      BY PathIs DEF Paths
    <2>3. Len(e) \in Nat /\ SubSeq(e, 1, Len(e)) = e
      BY <2>2, LenProperties, SubSeqFull
    <2>. QED BY <2>1, <2>3 DEF IsPrefix
  <1>11. IsPrefix(Text(e), Text(d))
    <2> DEFINE n == Len(e)
    <2>1. n \in Nat /\ n <= Len(d) /\ e = SubSeq(d, 1, n) /\ d \in Paths
      BY <1>9, <1>10 DEF Paths
    <2> HIDE DEF n
    <2>2. IsPrefix(Text(SubSeq(d, 1, n)), Text(d))
      BY <2>1, TextGrows
    <2>. QED BY <2>1, <2>2
  <1>12. InRoot(d)
    BY <1>1, <1>11 DEF InRoot
  <1>. QED BY <1>2, <1>3, <1>12 DEF d, r

\* The entries of a directory.
LEMMA ListedIs ==
  ASSUME NEW d \in Dirs
  PROVE  /\ Listing[d] \in Seq(Line) /\ Listing[d] \in Seq(Seq(NameChars)) /\ Distinct(Listing[d])
         /\ \A k \in 1..Len(Listing[d]) : /\ Listing[d][k] \in Seq(NameChars) /\ Listing[d][k] # <<>>
                                          /\ Listing[d][k] \in Line
         /\ \A x \in Seq(NameChars) : Append(d, x) \in Paths => \E k \in 1..Len(Listing[d]) : Listing[d][k] = x
  <1> DEFINE list == Listing[d]
             T == Seq(NameChars)
  <1>1. /\ list \in Seq(Line) /\ \A i, j \in DOMAIN list : list[i] = list[j] => i = j
    BY LineEditorAssumption
  <1>2. /\ list \in Seq(T)
        /\ Range(list) = {Last(p) : p \in {q \in Paths : q # <<>> /\ Front(q) = d}}
    BY FilesAssumption
  <1> HIDE DEF list
  <1>3. DOMAIN list = 1..Len(list) /\ Len(list) \in Nat
    BY <1>1, LenProperties
  <1>4. Distinct(list)
    BY <1>1, <1>3 DEF Distinct
  <1>5. ASSUME NEW k \in 1..Len(list) PROVE list[k] \in T /\ list[k] # <<>> /\ list[k] \in Line
    <2>1. list[k] \in T /\ list[k] \in Line
      BY <1>1, <1>2, ElementOfSeq
    <2>2. list[k] \in Range(list)
      BY <1>3 DEF Range
    <2>3. PICK p \in Paths : p # <<>> /\ list[k] = Last(p)
      BY <1>2, <2>2
    <2>4. Len(p) \in Nat /\ Len(p) # 0
      BY <2>3, PathIs, EmptySeq
    <2>5. Len(p) \in 1..Len(p)
      BY <2>4
    <2>6. p[Len(p)] # <<>>
      BY <2>5, PathIs
    <2>. QED BY <2>1, <2>3, <2>6 DEF Last
  <1>6. ASSUME NEW x \in T, Append(d, x) \in Paths PROVE \E k \in 1..Len(list) : list[k] = x
    <2> DEFINE p == Append(d, x)
    <2>1. d \in Seq(T)
      BY PathIs DEF Paths
    <2> HIDE DEF T
    <2> DEFINE n == Len(d)
               m == n + 1
    <2>7. p \in Seq(T) /\ Len(p) = m /\ p[m] = x /\ n \in Nat /\ \A i \in 1..n : p[i] = d[i]
      BY <1>6, <2>1, AppendProperties, LenProperties
    <2> HIDE DEF p, n
    <2>8. m # 0 /\ m - 1 = n /\ n + 1 <= Len(p)
      BY <2>7
    <2> DEFINE q == SubSeq(p, 1, n)
    <2>9. q \in Seq(T) /\ Len(q) = n
      BY <2>7, <2>8, OneMore
    <2>10. \A i \in 1..n : q[i] = p[i]
      <3>1. 1 <= 1 /\ n \in Int /\ n <= Len(p) /\ \A i \in 1..n : i \in 1..(n - 1 + 1) /\ 1 + i - 1 = i
        BY <2>7, <2>8
      <3>2. \A i \in 1..(n - 1 + 1) : q[i] = p[1 + i - 1]
        BY <2>7, <3>1, PartOf
      <3> HIDE DEF q
      <3>. QED BY <3>1, <3>2
    <2> HIDE DEF q
    <2>11. q = d
      BY <2>1, <2>7, <2>9, <2>10, SeqEqual DEF n
    <2>2. Len(p) # 0 /\ Last(p) = x /\ Front(p) = d
      BY <2>7, <2>8, <2>11 DEF Last, Front, q
    <2>3. p # <<>> /\ p \in Paths
      BY <1>6, <2>2, EmptySeq DEF p
    <2>4. x \in Range(list)
      BY <1>2, <2>2, <2>3
    <2>. QED BY <1>3, <2>4 DEF Range
  <1>. QED BY <1>1, <1>2, <1>4, <1>5, <1>6 DEF list

-----------------------------------------------------------------------------
(* What is completed: the path, cut at its last slash.                     *)

\* A text cut at its last slash.
LEMMA CutAt ==
  ASSUME NEW S, NEW full \in Seq(S), NEW cut \in 2..Len(full), full[cut] = "/", Slash \in Seq(S),
         \A i \in 1..Len(full) : full[i] = "/" => i <= cut
  PROVE  LET dir  == SubSeq(full, 1, cut - 1)
             part == SubSeq(full, cut + 1, Len(full))
         IN  /\ dir \in Seq(S) /\ Len(dir) # 0 /\ dir[1] = full[1]
             /\ part \in Seq(S) /\ \A i \in 1..Len(part) : part[i] # "/"
             /\ full = dir \o Slash \o part
  <1> DEFINE n == Len(full)
             slash == Slash
             dir  == SubSeq(full, 1, cut - 1)
             part == SubSeq(full, cut + 1, n)
  <1>1. slash \in Seq(S) /\ Len(slash) = 1 /\ slash[1] = "/"
    BY DEF Slash
  <1> HIDE DEF slash
  <1>6. n \in Nat /\ n = Len(full) /\ cut \in Nat /\ cut - 1 \in Nat /\ 1 <= cut - 1 /\ cut - 1 <= n /\ cut <= n /\ cut + 1 >= 1
    BY LenProperties
  <1> HIDE DEF n
  <1>7. dir \in Seq(S) /\ Len(dir) = cut - 1 /\ \A i \in 1..(cut - 1) : dir[i] = full[i]
    <2>1. /\ 1 \in Int /\ cut - 1 \in Int /\ 1 <= 1 /\ cut - 1 <= Len(full) /\ cut - 1 - 1 + 1 = cut - 1
          /\ \A i \in 1..(cut - 1) : 1 + i - 1 = i
      BY <1>6
    <2>2. /\ dir \in Seq(S) /\ Len(dir) = (IF 1 <= cut - 1 THEN cut - 1 - 1 + 1 ELSE 0)
          /\ \A i \in 1..(cut - 1 - 1 + 1) : dir[i] = full[1 + i - 1]
      BY <2>1, PartOf
    <2> HIDE DEF dir
    <2>. QED BY <1>6, <2>1, <2>2
  <1>8. part \in Seq(S) /\ Len(part) = n - cut /\ \A i \in 1..(n - cut) : part[i] = full[cut + i]
    <2>1. /\ cut + 1 \in Int /\ n \in Int /\ 1 <= cut + 1 /\ n <= Len(full) /\ n - (cut + 1) + 1 = n - cut
          /\ (IF cut + 1 <= n THEN n - (cut + 1) + 1 ELSE 0) = n - cut
          /\ \A i \in 1..(n - cut) : cut + 1 + i - 1 = cut + i
      BY <1>6
    <2>2. /\ part \in Seq(S) /\ Len(part) = (IF cut + 1 <= n THEN n - (cut + 1) + 1 ELSE 0)
          /\ \A i \in 1..(n - (cut + 1) + 1) : part[i] = full[cut + 1 + i - 1]
      BY <2>1, PartOf
    <2> HIDE DEF part
    <2>. QED BY <1>6, <2>1, <2>2
  <1> HIDE DEF dir, part
  <1>9. \A i \in 1..Len(part) : part[i] # "/"
    <2> SUFFICES ASSUME NEW i \in 1..Len(part), full[cut + i] = "/" PROVE FALSE
      BY <1>8
    <2>1. cut + i \in 1..n /\ ~(cut + i <= cut)
      BY <1>6, <1>8
    <2>. QED BY <2>1 DEF n
  <1>10. Len(dir) # 0 /\ dir[1] = full[1]
    <2>1. 1 \in 1..(cut - 1) /\ Len(dir) # 0
      BY <1>6, <1>7
    <2>. QED BY <1>7, <2>1
  <1>11. full = dir \o slash \o part
    <2> DEFINE y == dir \o slash
               x == y \o part
    <2>0. dir \in Seq(S) /\ slash \in Seq(S)
      BY <1>1, <1>7
    <2>1. /\ y \in Seq(S) /\ Len(y) = Len(dir) + Len(slash)
          /\ \A i \in 1..Len(dir) : y[i] = dir[i]
          /\ \A i \in 1..Len(slash) : y[Len(dir) + i] = slash[i]
      BY <2>0, Joined
    <2>2. Len(y) = cut /\ y[cut] = "/" /\ \A i \in 1..(cut - 1) : y[i] = full[i]
      <3>1. 1 \in 1..Len(slash) /\ Len(dir) + 1 = cut
        BY <1>1, <1>6, <1>7
      <3> HIDE DEF y
      <3>. QED BY <1>1, <1>6, <1>7, <2>1, <3>1
    <2> HIDE DEF y
    <2>7. y \in Seq(S) /\ part \in Seq(S)
      BY <1>8, <2>1
    <2>3. /\ x \in Seq(S) /\ Len(x) = Len(y) + Len(part)
          /\ \A i \in 1..Len(y) : x[i] = y[i]
          /\ \A i \in 1..Len(part) : x[Len(y) + i] = part[i]
      BY <2>7, Joined
    <2> HIDE DEF x
    <2>4. Len(x) = n
      BY <1>6, <1>8, <2>2, <2>3
    <2>5. ASSUME NEW i \in 1..n PROVE x[i] = full[i]
      <3>1. CASE i < cut
        <4>1. i \in 1..(cut - 1) /\ i \in 1..Len(y)
          BY <1>6, <2>2, <3>1
        <4>. QED BY <2>2, <2>3, <4>1
      <3>2. CASE i = cut
        <4>1. i \in 1..Len(y)
          BY <1>6, <2>2, <3>2
        <4>. QED BY <2>2, <2>3, <3>2, <4>1
      <3>3. CASE i > cut
        <4> DEFINE j == i - cut
        <4>1. j \in 1..(n - cut) /\ cut + j = i
          BY <1>6, <3>3
        <4> HIDE DEF j
        <4>. QED BY <1>8, <2>2, <2>3, <4>1
      <3>. QED BY <1>6, <3>1, <3>2, <3>3
    <2>6. x = full
      BY <2>3, <2>4, <2>5, SeqEqual DEF n
    <2>. QED BY <2>6 DEF x, y
  <1>. QED BY <1>7, <1>8, <1>9, <1>10, <1>11 DEF dir, part, slash, n

Slashes(text) == {i \in 1..Len(text) : text[i] = "/"}
Slashed(text, S) ==
  /\ text \in Seq(S) /\ Slashes(text) # {}
  /\ Max(Slashes(text)) \in 2..Len(text) /\ text[Max(Slashes(text))] = "/"
  /\ \A i \in 1..Len(text) : text[i] = "/" => i <= Max(Slashes(text))

\* Where the last slash of a path below r is.
LEMMA CutIs ==
  ASSUME NEW S, NEW r \in Seq(S), Len(r) # 0, NEW more \in Seq(S), Slash \in Seq(S)
  PROVE  Slashed(r \o Slash \o more, S) /\ (r \o Slash \o more)[1] = r[1]
  <1> DEFINE full == r \o Slash \o more
             I == {i \in 1..Len(full) : full[i] = "/"}
             n == Len(full)
             a == Len(r)
             b == Len(more)
             slash == Slash
             z == r \o slash
  <1>1. slash \in Seq(S) /\ Len(slash) = 1 /\ slash[1] = "/"
    BY DEF Slash
  <1>0. full = z \o more
    OBVIOUS
  <1> HIDE DEF slash, full
  <1>2. /\ z \in Seq(S) /\ Len(z) = a + 1 /\ z[a + 1] = "/" /\ a \in Nat /\ a # 0
        /\ \A i \in 1..a : z[i] = r[i]
    <2>0. r \in Seq(S) /\ slash \in Seq(S)
      BY <1>1
    <2>1. /\ z \in Seq(S) /\ a \in Nat /\ Len(z) = a + Len(slash)
          /\ \A i \in 1..a : z[i] = r[i]
          /\ \A i \in 1..Len(slash) : z[a + i] = slash[i]
      BY <2>0, Joined
    <2>3. 1 \in 1..Len(slash)
      BY <1>1
    <2> HIDE DEF z
    <2>. QED BY <1>1, <2>1, <2>3
  <1> HIDE DEF z
  <1>3. /\ full \in Seq(S) /\ n = a + 1 + b /\ b \in Nat
        /\ \A i \in 1..(a + 1) : full[i] = z[i]
    <2>2. z \o more \in Seq(S) /\ Len(z \o more) = Len(z) + b /\ b \in Nat /\ \A i \in 1..Len(z) : (z \o more)[i] = z[i]
      BY <1>2, Joined
    <2>. QED BY <1>0, <1>2, <2>2
  <1> HIDE DEF a, b, n
  <1>4. full[a + 1] = "/" /\ full[1] = r[1]
    <2>1. a + 1 \in 1..(a + 1) /\ 1 \in 1..a /\ 1 \in 1..(a + 1)
      BY <1>2
    <2>. QED BY <1>2, <1>3, <2>1
  <1>5. I \in SUBSET (1..n) /\ a + 1 \in I /\ n \in Nat
    BY <1>2, <1>3, <1>4 DEF n
  <1>6. Max(I) \in I /\ \A i \in I : Max(I) >= i
    BY <1>5, Indexes
  <1>7. Max(I) \in 2..n
    BY <1>2, <1>5, <1>6
  <1>8. full[Max(I)] = "/"
    BY <1>6
  <1>9. \A i \in 1..n : full[i] = "/" => i <= Max(I)
    BY <1>5, <1>6, <1>7 DEF n
  <1>. QED BY <1>3, <1>4, <1>5, <1>7, <1>8, <1>9 DEF n, full, Slashed, Slashes

\* The path that a completion is looked for, and what is found for it.
Full(line) == Below(Cwd, Typed(LastWord(line)).text)

Searched(dir) ==
  IF Realpath(dir) # NoPath /\ ~InRoot(Realpath(dir)) THEN Realpath(Root) ELSE Realpath(dir)

Chosen(dir, part, list, append) ==
  \/ \E k \in 1..Len(list), quote \in {<<>>, <<DoubleQuote>>} :
       /\ IsPrefix(part, list[k])
       /\ \A j \in 1..Len(list) : IsPrefix(part, list[j]) => list[j] = list[k]
       /\ append = SubSeq(list[k], Len(part) + 1, Len(list[k]))
                   \o (IF Realpath(dir \o Slash \o list[k]) \in Dirs THEN Slash ELSE <<>>) \o quote
  \/ /\ append \in Line
     /\ \E k \in 1..Len(list) : IsPrefix(part, list[k])
     /\ \A k \in 1..Len(list) : IsPrefix(part, list[k]) => IsPrefix(part \o append, list[k])

\* The full path is below the root, as it is written.
LEMMA BelowIs ==
  ASSUME NEW file \in Line
  PROVE  \E more \in Line : Below(Cwd, file) = Root \o Slash \o more
  <1> DEFINE slash == Slash
             r == Root \o slash
             m == Cwd \o slash
  <1>1. slash \in Line /\ Root \in Line /\ Cwd \in Line
    BY Texts, LineEditorAssumption
  <1>2. Below(Cwd, file) = IF Absolute(file) THEN r \o file ELSE ((r \o Cwd) \o slash) \o file
    BY DEF Below, InCwd
  <1> HIDE DEF slash
  <1>3. r \in Line /\ m \in Line
    BY <1>1, LineJoined
  <1> HIDE DEF r
  <1> DEFINE cwd == Cwd
  <1>6. cwd \in Line
    BY <1>1
  <1> HIDE DEF cwd
  <1>7. Regroups(r, cwd, slash)
    BY <1>1, <1>3, <1>6, Regrouped
  <1>4. (r \o Cwd) \o slash = r \o m
    BY <1>7 DEF cwd, Regroups
  <1> HIDE DEF m
  <1>5. (r \o m) \o file = r \o (m \o file) /\ m \o file \in Line
    <2>1. Regroups(r, m, file) /\ m \o file \in Line
      BY <1>3, Regrouped, LineJoined
    <2>. QED BY <2>1 DEF Regroups
  <1>. QED BY <1>2, <1>4, <1>5 DEF r, slash

\* What a path is completed from, and by what.
LEMMA DirsAre ==
  ASSUME NEW line \in Line, Contains(line, Space), CompleteDirs(Cwd, line).append # <<>>
  PROVE  \E dir \in Line, part \in Line :
           /\ Full(line) = dir \o Slash \o part
           /\ dir # <<>> /\ Head(dir) = "/" /\ \A i \in 1..Len(part) : part[i] # "/"
           /\ Searched(dir) \in Dirs
           /\ Chosen(dir, part, Listing[Searched(dir)], CompleteDirs(Cwd, line).append)
  <1> DEFINE typed  == Typed(LastWord(line))
             full   == Below(Cwd, typed.text)
             I      == {i \in 1..Len(full) : full[i] = "/"}
             cut    == SelectLastInSeq(full, LAMBDA c : c = "/")
             dir    == SubSeq(full, 1, cut - 1)
             part   == SubSeq(full, cut + 1, Len(full))
             path   == Realpath(IF dir = <<>> THEN Slash ELSE dir)
             where  == IF path # NoPath /\ ~InRoot(path) THEN Realpath(Root) ELSE path
             found  == IF where \in Dirs THEN Candidates(part, Listing[where]) ELSE <<>>
             only   == Head(found)
             closed == IF Realpath(dir \o Slash \o only) \in Dirs THEN Slash ELSE <<>>
             quoted == IF typed.quote THEN <<DoubleQuote>> ELSE <<>>
             rest   == SubSeq(only, Len(part) + 1, Len(only))
             shared == GetUnique(found, Len(part))
             append == CASE Len(found) = 0 -> <<>>
                         [] Len(found) = 1 -> rest \o closed \o quoted
                         [] OTHER          -> shared
             list   == Listing[where]
  <1>1. PICK more \in Line : full = Root \o Slash \o more
    BY LastWordIn, TypedIn, BelowIs
  <1>2. Root \in Line /\ Root # <<>> /\ Head(Root) = "/" /\ Slash \in Line
    BY FilesAssumption, LineEditorAssumption, Texts
  <1>3. CompleteDirs(Cwd, line) = [matches |-> Len(found), append |-> append]
    BY DEF CompleteDirs
  <1>4. CompleteDirs(Cwd, line).append = append
    <2> HIDE DEF found, append
    <2>. QED BY <1>3
  <1>5. Full(line) = full
    BY DEF Full
  <1>17. cut = IF I # {} THEN Max(I) ELSE 0
    BY DEF SelectLastInSeq
  <1>18. /\ full \in Line /\ full[1] = Root[1] /\ I # {}
         /\ Max(I) \in 2..Len(full) /\ full[Max(I)] = "/"
         /\ \A i \in 1..Len(full) : full[i] = "/" => i <= Max(I)
    <2> DEFINE a == Root
    <2>1. a \in Line /\ Len(a) # 0
      BY <1>2, EmptySeq
    <2> HIDE DEF a, full, typed
    <2>4. a \in Line /\ Len(a) # 0 /\ more \in Line /\ Slash \in Line
      BY <1>2, <2>1
    <2> HIDE DEF I
    <2>2. Slashed(a \o Slash \o more, Chars) /\ (a \o Slash \o more)[1] = a[1]
      BY <2>4, CutIs
    <2> USE DEF I
    <2>3. full = a \o Slash \o more
      BY <1>1 DEF a
    <2>. QED BY <2>2, <2>3 DEF a, Slashed, Slashes
  <1> HIDE DEF full
  <1>19. cut \in 2..Len(full) /\ full[cut] = "/" /\ \A i \in 1..Len(full) : full[i] = "/" => i <= cut
    BY <1>17, <1>18
  <1> HIDE DEF cut, I
  <1>6. /\ dir \in Line /\ Len(dir) # 0 /\ dir[1] = full[1]
        /\ part \in Line /\ \A i \in 1..Len(part) : part[i] # "/"
        /\ full = dir \o Slash \o part
    BY <1>2, <1>18, <1>19, CutAt
  <1>20. dir # <<>>
    BY <1>6, EmptySeq
  <1>7. Head(dir) = "/"
    BY <1>2, <1>6, <1>18 DEF Head
  <1>8. where = Searched(dir)
    BY <1>20 DEF Searched
  <1> HIDE DEF dir, part, where, list
  <1>9. where \in Dirs
    <2>1. ASSUME where \notin Dirs PROVE FALSE
      <3>1. found = <<>>
        BY <2>1
      <3> HIDE DEF found
      <3>2. Len(found) = 0
        BY <3>1, EmptySeq
      <3>3. append = <<>>
        BY <3>2
      <3>. QED BY <1>4, <3>3
    <2>. QED BY <2>1
  <1>10. list \in Seq(Line) /\ Distinct(list)
    BY <1>9, ListedIs DEF list
  <1>11. found = Candidates(part, list)
    BY <1>9 DEF list
  <1> HIDE DEF found, closed, quoted, rest, shared
  <1>12. /\ found \in Seq(Line) /\ Len(found) \in Nat
         /\ Len(found) = 1 => /\ found[1] = Head(found) /\ IsPrefix(part, found[1])
                              /\ \E k \in 1..Len(list) : found[1] = list[k]
                              /\ \A k \in 1..Len(list) : IsPrefix(part, list[k]) => list[k] = found[1]
         /\ Len(found) \notin {0, 1} =>
              /\ GetUnique(found, Len(part)) \in Line
              /\ \E k \in 1..Len(list) : IsPrefix(part, list[k])
              /\ \A k \in 1..Len(list) : IsPrefix(part, list[k]) =>
                                           IsPrefix(part \o GetUnique(found, Len(part)), list[k])
    <2>1. part \in Line /\ Offers(part, list, found)
      BY <1>6, <1>11 DEF Offers
    <2>2. Picks(part, list, found)
      BY <1>10, <2>1, CandidatesAdd
    <2>. QED BY <2>2 DEF Picks
  <1>13. append # <<>>
    BY <1>4
  <1>14. CASE Len(found) = 0
    <2>1. append = <<>>
      BY <1>14
    <2>. QED BY <1>13, <2>1
  <1>15. CASE Len(found) = 1
    <2>1. append = rest \o closed \o quoted
      BY <1>15
    <2>2. PICK k \in 1..Len(list) : found[1] = list[k]
      BY <1>12, <1>15
    <2>3. only = list[k]
      BY <1>12, <1>15, <2>2
    <2> HIDE DEF only
    <2>4. rest = SubSeq(list[k], Len(part) + 1, Len(list[k]))
      BY <2>3 DEF rest
    <2>5. closed = IF Realpath(dir \o Slash \o list[k]) \in Dirs THEN Slash ELSE <<>>
      BY <2>3 DEF closed
    <2>6. quoted \in {<<>>, <<DoubleQuote>>}
      BY DEF quoted
    <2>7. IsPrefix(part, list[k]) /\ \A j \in 1..Len(list) : IsPrefix(part, list[j]) => list[j] = list[k]
      BY <1>12, <1>15, <2>2
    <2> HIDE DEF append
    <2>8. Chosen(dir, part, list, append)
      BY <2>1, <2>4, <2>5, <2>6, <2>7 DEF Chosen
    <2>. QED BY <1>4, <1>5, <1>6, <1>7, <1>8, <1>9, <1>20, <2>8 DEF list
  <1>16. CASE Len(found) \notin {0, 1}
    <2>1. append = shared
      BY <1>16
    <2> HIDE DEF append
    <2>2. Chosen(dir, part, list, append)
      BY <1>12, <1>16, <2>1 DEF Chosen, shared
    <2>. QED BY <1>4, <1>5, <1>6, <1>7, <1>8, <1>9, <1>20, <2>2 DEF list
  <1>. QED BY <1>14, <1>15, <1>16

-----------------------------------------------------------------------------
(* What is chosen for the part after the slash.                            *)

\* A prefix has the elements of the whole.
LEMMA PrefixInto ==
  ASSUME NEW S, NEW T, NEW s \in Seq(S), NEW t \in Seq(T), IsPrefix(s, t)
  PROVE  s \in Seq(T)
  <1> DEFINE n == Len(s)
  <1>1. n \in Nat /\ SubSeq(s, 1, n) = s
    BY LenProperties, SubSeqFull
  <1>2. n <= Len(t) /\ s = SubSeq(t, 1, n)
    BY <1>1 DEF IsPrefix
  <1> HIDE DEF n
  <1>3. 1 \in Int /\ n \in Int /\ 1 <= 1 /\ n <= Len(t)
    BY <1>1, <1>2
  <1>4. SubSeq(t, 1, n) \in Seq(T)
    BY <1>3, PartOf
  <1>. QED BY <1>2, <1>4

\* And so has the rest.
LEMMA RestInto ==
  ASSUME NEW S, NEW T, NEW s \in Seq(S), NEW u \in Seq(S), s \o u \in Seq(T)
  PROVE  u \in Seq(T)
  <1> DEFINE z == s \o u
  <1>1. z \in Seq(S) /\ Len(s) \in Nat /\ Len(u) \in Nat /\ Len(z) = Len(s) + Len(u)
        /\ \A i \in 1..Len(u) : z[Len(s) + i] = u[i]
    BY Joined
  <1>2. z \in Seq(T)
    OBVIOUS
  <1> HIDE DEF z
  <1>3. ASSUME NEW i \in 1..Len(u) PROVE u[i] \in T
    <2>1. Len(s) + i \in 1..Len(z)
      BY <1>1
    <2>2. z[Len(s) + i] \in T
      BY <1>2, <2>1, ElementOfSeq
    <2>. QED BY <1>1, <2>2
  <1>4. Range(u) \subseteq T
    BY <1>3, LenProperties DEF Range
  <1>. QED BY <1>4, OwnElements

\* What is added to the end of the part typed, for it to become a name.
LEMMA RestIs ==
  ASSUME NEW part \in Line, NEW x \in Line, x \in Seq(NameChars), IsPrefix(part, x)
  PROVE  /\ part \in Seq(NameChars)
         /\ SubSeq(x, Len(part) + 1, Len(x)) \in Seq(NameChars)
         /\ part \o SubSeq(x, Len(part) + 1, Len(x)) = x
  <1> DEFINE rest == SubSeq(x, Len(part) + 1, Len(x))
  <1>1. part \o rest = x /\ rest \in Line
    BY PrefixRest
  <1>2. part \in Seq(NameChars)
    BY PrefixInto
  <1> HIDE DEF rest
  <1>3. part \o rest \in Seq(NameChars)
    BY <1>1
  <1>4. rest \in Seq(NameChars)
    BY <1>1, <1>3, RestInto
  <1>. QED BY <1>1, <1>2, <1>4 DEF rest

\* What names share are their characters.
LEMMA SharedIs ==
  ASSUME NEW part \in Line, NEW append \in Line, NEW x \in Seq(NameChars), x \in Line,
         IsPrefix(part \o append, x)
  PROVE  part \in Seq(NameChars) /\ append \in Seq(NameChars)
  <1> DEFINE z == part \o append
  <1>1. z \in Line /\ IsPrefix(part, z)
    BY LineJoined, PrefixOn
  <1>2. IsPrefix(z, x)
    OBVIOUS
  <1> HIDE DEF z
  <1>3. IsPrefix(part, x)
    BY <1>1, <1>2, PrefixOn
  <1>4. part \in Seq(NameChars) /\ z \in Seq(NameChars)
    BY <1>1, <1>2, <1>3, PrefixInto
  <1>5. append \in Seq(NameChars)
    BY <1>4, RestInto DEF z
  <1>. QED BY <1>4, <1>5

\* The characters a completion adds.
Addable == NameChars \cup {"/", DoubleQuote}

\* What is added to a path, by its characters.
LEMMA ChosenIs ==
  ASSUME NEW dir, NEW part \in Line, NEW d \in Dirs, NEW append, append # <<>>,
         Chosen(dir, part, Listing[d], append)
  PROVE  /\ part \in Seq(NameChars) /\ append \in Seq(Addable)
         /\ part = <<>> => append[1] \in NameChars
  <1> DEFINE list == Listing[d]
             none == <<>>
             slash == Slash
             quotes == <<DoubleQuote>>
  <1>1. \A k \in 1..Len(list) : list[k] \in Seq(NameChars) /\ list[k] # none /\ list[k] \in Line
    BY ListedIs
  <1>2. \A s \in Seq(NameChars) : s \in Seq(Addable)
    <2>1. NameChars \subseteq Addable
      BY DEF Addable
    <2>. QED BY <2>1, SeqMonotonic
  <1>3. none \in Seq(Addable) /\ slash \in Seq(Addable) /\ quotes \in Seq(Addable)
    BY DEF Addable, Slash
  <1>4. \/ \E k \in 1..Len(list), quote \in {none, quotes} :
             /\ IsPrefix(part, list[k])
             /\ append = SubSeq(list[k], Len(part) + 1, Len(list[k]))
                         \o (IF Realpath(dir \o slash \o list[k]) \in Dirs THEN slash ELSE none) \o quote
        \/ /\ append \in Line
           /\ \E k \in 1..Len(list) : IsPrefix(part, list[k])
           /\ \A k \in 1..Len(list) : IsPrefix(part, list[k]) => IsPrefix(part \o append, list[k])
    BY DEF Chosen
  <1>5. append # none
    OBVIOUS
  <1>6. part = none => Len(part) = 0
    OBVIOUS
  <1> HIDE DEF list, none, slash, quotes
  <1>7. ASSUME NEW k \in 1..Len(list), NEW quote \in {none, quotes}, IsPrefix(part, list[k]),
               append = SubSeq(list[k], Len(part) + 1, Len(list[k]))
                        \o (IF Realpath(dir \o slash \o list[k]) \in Dirs THEN slash ELSE none) \o quote
        PROVE  /\ part \in Seq(NameChars) /\ append \in Seq(Addable)
               /\ part = none => append[1] \in NameChars
    <2> DEFINE x      == list[k]
               rest   == SubSeq(x, Len(part) + 1, Len(x))
               closed == IF Realpath(dir \o slash \o x) \in Dirs THEN slash ELSE none
               y      == rest \o closed
    <2>1. x \in Seq(NameChars) /\ x # none /\ x \in Line
      BY <1>1
    <2>2. part \in Seq(NameChars) /\ rest \in Seq(NameChars)
      <3> HIDE DEF x
      <3>. QED BY <1>7, <2>1, RestIs DEF x
    <2>3. append = y \o quote
      BY <1>7
    <2>4. part = none => rest = x
      <3>1. ASSUME part = none PROVE rest = x
        <4>1. Len(part) + 1 = 1
          BY <1>6, <3>1
        <4>2. SubSeq(x, 1, Len(x)) = x
          BY <2>1, SubSeqFull
        <4>. QED BY <4>1, <4>2
      <3>. QED BY <3>1
    <2>5. closed \in Seq(Addable)
      BY <1>3
    <2> HIDE DEF x, rest, closed
    <2>6. rest \in Seq(Addable)
      BY <1>2, <2>2
    <2>7. y \in Seq(Addable) /\ \A i \in 1..Len(rest) : y[i] = rest[i]
      BY <2>5, <2>6, Joined
    <2>8. Len(y) = Len(rest) + Len(closed) /\ Len(rest) \in Nat /\ Len(closed) \in Nat
      BY <2>5, <2>6, Joined
    <2>9. quote \in Seq(Addable)
      BY <1>3
    <2> HIDE DEF y
    <2>10. append \in Seq(Addable) /\ \A i \in 1..Len(y) : append[i] = y[i]
      <3>1. y \o quote \in Seq(Addable) /\ \A i \in 1..Len(y) : (y \o quote)[i] = y[i]
        BY <2>7, <2>9, Joined
      <3>. QED BY <2>3, <3>1
    <2>11. ASSUME part = none PROVE append[1] \in NameChars
      <3>1. rest # none /\ rest \in Seq(NameChars)
        BY <2>1, <2>2, <2>4, <2>11
      <3>2. Len(rest) # 0
        BY <3>1, EmptySeq DEF none
      <3>3. 1 \in 1..Len(rest) /\ 1 \in 1..Len(y)
        BY <2>8, <3>2
      <3>4. rest[1] \in NameChars
        BY <3>1, <3>3, ElementOfSeq
      <3>. QED BY <2>7, <2>10, <3>3, <3>4
    <2>. QED BY <2>2, <2>10, <2>11
  <1>8. ASSUME append \in Line, NEW k \in 1..Len(list), IsPrefix(part \o append, list[k])
        PROVE  /\ part \in Seq(NameChars) /\ append \in Seq(Addable)
               /\ part = none => append[1] \in NameChars
    <2>1. part \in Seq(NameChars) /\ append \in Seq(NameChars)
      <3> DEFINE x == list[k]
      <3>1. x \in Seq(NameChars) /\ x \in Line /\ IsPrefix(part \o append, x)
        BY <1>1, <1>8
      <3> HIDE DEF x
      <3>. QED BY <1>8, <3>1, SharedIs
    <2>2. Len(append) # 0 /\ Len(append) \in Nat
      BY <1>5, <2>1, EmptySeq, LenProperties DEF none
    <2>3. 1 \in 1..Len(append)
      BY <2>2
    <2>4. append[1] \in NameChars
      BY <2>1, <2>3, ElementOfSeq
    <2>. QED BY <1>2, <2>1, <2>4
  <1>9. /\ part \in Seq(NameChars) /\ append \in Seq(Addable)
        /\ part = none => append[1] \in NameChars
    BY <1>4, <1>7, <1>8
  <1>. QED BY <1>9 DEF none

-----------------------------------------------------------------------------
(* A file ahead stays ahead when the completion is added.                  *)

\* The slash after a directory on the way to a file.
LEMMA AheadSlash ==
  ASSUME NEW at \in Spot, NEW f \in Ahead(at), at.name = f[Len(at.dir) + 1], Len(at.dir) + 1 < Len(f),
         NEW c, c = "/"
  PROVE  f \in Ahead(Spell(at, c))
  <1> DEFINE d == at.dir
             w == at.name
             n == Len(d)
             e == Append(d, w)
             to == Spell(at, c)
             none == <<>>
  <1>1. d \in Seq(Seq(AnyChar)) /\ w \in Seq(AnyChar)
    BY DEF Spot
  <1>2. f \in Regular /\ n \in Nat /\ n + 1 \in 1..Len(f) /\ \A i \in 1..n : d[i] = f[i]
    BY DirAhead, AheadIs
  <1>3. w # none
    BY <1>2, FileIs
  <1>4. to \in Spot /\ to.dir = e /\ to.name = none
    BY <1>3, SpellIs, AnyIs
  <1>5. Len(e) = n + 1 /\ e[n + 1] = w /\ \A i \in 1..n : e[i] = d[i]
    BY <1>1, AppendProperties, LenProperties
  <1>6. w = f[n + 1] /\ n + 1 < Len(f)
    OBVIOUS
  <1>10. Len(f) \in Nat
    BY <1>2, FileIs
  <1> HIDE DEF e, n, d, w, to
  <1>7. Len(e) < Len(f) /\ \A i \in 1..Len(e) : e[i] = f[i]
    <2>1. ASSUME NEW i \in 1..Len(e) PROVE e[i] = f[i]
      <3>1. i \in 1..n \/ i = n + 1
        BY <1>2, <1>5
      <3>. QED BY <1>2, <1>5, <1>6, <3>1
    <2>. QED BY <1>5, <1>6, <2>1
  <1>8. IsPrefix(none, f[Len(e) + 1])
    <2> DEFINE x == f[Len(e) + 1]
    <2>1. Len(e) + 1 \in 1..Len(f)
      BY <1>2, <1>5, <1>7, <1>10
    <2>2. x \in Seq(AnyChar)
      BY <1>2, <2>1, FileIs
    <2>3. none \in Seq(AnyChar) /\ Len(none) = 0
      BY DEF none
    <2> HIDE DEF x, none
    <2>4. Len(none) <= Len(x) /\ \A i \in 1..Len(none) : none[i] = x[i]
      BY <2>2, <2>3, LenProperties
    <2>5. IsPrefix(none, x)
      BY <2>2, <2>3, <2>4, PrefixIs
    <2>. QED BY <2>5 DEF x
  <1> HIDE DEF none
  <1>9. f \in Ahead(to)
    BY <1>2, <1>4, <1>7, <1>8, AheadIs
  <1>. QED BY <1>9 DEF to

\* The first character stays when more is added.
LEMMA HeadStays ==
  ASSUME NEW S, NEW s \in Seq(S), Len(s) # 0, NEW t \in Seq(S)
  PROVE  s \o t \in Seq(S) /\ Len(s \o t) # 0 /\ (s \o t)[1] = s[1]
  <1> DEFINE z == s \o t
  <1>1. z \in Seq(S) /\ Len(s) \in Nat /\ Len(t) \in Nat /\ Len(z) = Len(s) + Len(t)
        /\ \A i \in 1..Len(s) : z[i] = s[i]
    BY Joined
  <1> HIDE DEF z
  <1>2. 1 \in 1..Len(s) /\ Len(z) # 0
    BY <1>1
  <1>. QED BY <1>1, <1>2 DEF z

OneByOne(s, t, u, v) == ((s \o t) \o u) \o v
AtOnce(s, t, u, v)   == s \o (t \o u \o v)

\* Four texts joined one by one, and at once to the first.
LEMMA FourParts ==
  ASSUME NEW S, NEW s \in Seq(S), NEW t \in Seq(S), NEW u \in Seq(S), NEW v \in Seq(S)
  PROVE  OneByOne(s, t, u, v) = AtOnce(s, t, u, v)
  <1> DEFINE m == t \o u
  <1>1. m \in Seq(S)
    BY ConcatProperties
  <1>2. Regroups(s, t, u)
    BY Regrouped
  <1> HIDE DEF m
  <1>3. Regroups(s, m, v)
    BY <1>1, Regrouped
  <1>. QED BY <1>2, <1>3 DEF m, OneByOne, AtOnce, Regroups

\* A path is read as its directory and what follows the last slash.
LEMMA ReadPart ==
  ASSUME NEW dir \in Line, dir # <<>>, Head(dir) = "/",
         NEW part \in Line, \A i \in 1..Len(part) : part[i] # "/"
  PROVE  /\ Read(dir \o Slash \o part).dir = Realpath(dir)
         /\ Read(dir \o Slash \o part).name = part
  <1> DEFINE s == dir \o Slash
  <1>1. dir \in Seq(AnyChar) /\ part \in Seq(AnyChar) /\ Slash \in Seq(AnyChar)
    BY AnyIs
  <1>2. s \in Seq(AnyChar)
    BY <1>1, ConcatProperties
  <1>3. Realpath(dir) = Walk(Read(dir).dir, Read(dir).name)
    BY <1>1, RealpathRead
  <1>4. Read(s).dir = Realpath(dir) /\ Read(s).name = <<>>
    BY <1>1, <1>3, ReadSlash
  <1> HIDE DEF s
  <1>5. Read(s \o part).dir = Read(s).dir /\ Read(s \o part).name = Read(s).name \o part
    BY <1>1, <1>2, ReadName
  <1>6. Read(s).name \o part = part
    BY <1>1, <1>4, ConcatEmptySeq
  <1>. QED BY <1>4, <1>5, <1>6 DEF s

\* An entry of the directory, looked up for the slash at its end.
LEMMA LookedUp ==
  ASSUME NEW dir \in Line, dir # <<>>, Head(dir) = "/", NEW d \in Dirs, Realpath(dir) = d,
         NEW x \in Line, x \in Seq(NameChars), x # <<>>, Append(d, x) \in Paths
  PROVE  Realpath(dir \o Slash \o x) = Append(d, x)
  <1> DEFINE t == dir \o Slash \o x
             s == dir \o Slash
  <1>1. \A i \in 1..Len(x) : x[i] # "/"
    <2>1. \A i \in 1..Len(x) : x[i] \in NameChars
      BY ElementOfSeq
    <2>2. "/" \notin NameChars
      BY FilesAssumption
    <2>. QED BY <2>1, <2>2
  <1>2. Read(t).dir = d /\ Read(t).name = x
    BY <1>1, ReadPart
  <1>3. t \in Seq(AnyChar) /\ t # <<>> /\ Head(t) = "/"
    <2> DEFINE slash == Slash
               r == dir \o slash
               u == r \o x
    <2>1. dir \in Line /\ slash \in Line /\ x \in Line /\ Len(dir) # 0
      BY Texts, EmptySeq
    <2>2. dir[1] = "/"
      BY DEF Head
    <2> HIDE DEF slash
    <2>3. r \in Line /\ Len(r) # 0 /\ r[1] = dir[1]
      BY <2>1, HeadStays
    <2> HIDE DEF r
    <2>4. u \in Line /\ Len(u) # 0 /\ u[1] = r[1]
      BY <2>1, <2>3, HeadStays
    <2> HIDE DEF u
    <2>7. u \in Seq(AnyChar) /\ u # <<>> /\ Head(u) = "/"
      BY <2>2, <2>3, <2>4, AnyIs, EmptySeq DEF Head
    <2>. QED BY <2>7 DEF u, r, slash
  <1>4. Realpath(t) = Walk(Read(t).dir, Read(t).name)
    BY <1>3, RealpathRead
  <1>. QED BY <1>2, <1>4, WalkTo

\* What may follow the one name.
Closing(dir, x) == IF Realpath(dir \o Slash \o x) \in Dirs THEN Slash ELSE <<>>
QuoteTexts == {<<>>, <<DoubleQuote>>}

\* The text full spells the directory d and the part of the name x, on the way to f.
Towards(dir, d, full, f, part, x) ==
  /\ dir \in Line /\ dir # <<>> /\ Head(dir) = "/"
  /\ d \in Dirs /\ Realpath(dir) = d
  /\ full \in Seq(AnyChar) /\ Spells(full).dir = d /\ Spells(full).name = part
  /\ f \in Ahead(Spells(full))
  /\ part \in Line /\ x \in Line /\ x = f[Len(d) + 1]

\* f is still ahead of full when the rest of the name x and what closes it are added.
StillAhead(f, full, part, x, closed, quote) ==
  f \in Ahead(Spells(full \o (SubSeq(x, Len(part) + 1, Len(x)) \o closed \o quote)))

\* The one name is added.
LEMMA OnlyFollows ==
  ASSUME PlainFiles, NEW dir, NEW d, NEW full, NEW f, NEW part, NEW x, Towards(dir, d, full, f, part, x),
         NEW quote \in QuoteTexts, NEW closed, closed = Closing(dir, x)
  PROVE  StillAhead(f, full, part, x, closed, quote)
  <1>. SUFFICES f \in Ahead(Spells(full \o (SubSeq(x, Len(part) + 1, Len(x)) \o closed \o quote)))
    BY DEF StillAhead
  <1>. dir \in Line /\ dir # <<>> /\ Head(dir) = "/"
    BY DEF Towards
  <1>. d \in Dirs /\ Realpath(dir) = d
    BY DEF Towards
  <1>. full \in Seq(AnyChar) /\ Spells(full).dir = d /\ Spells(full).name = part
    BY DEF Towards
  <1>. f \in Ahead(Spells(full)) /\ part \in Line /\ x \in Line /\ x = f[Len(d) + 1]
    BY DEF Towards
  <1> DEFINE rest  == SubSeq(x, Len(part) + 1, Len(x))
             sp    == Spells(full)
             a     == full \o rest
             n     == Len(d)
             slash == Slash
             none  == <<>>
             t     == dir \o Slash \o x
  <1>1. sp \in Spot
    BY SpellsIs
  <1>2. /\ f \in Regular /\ n \in Nat /\ n + 1 \in 1..Len(f)
        /\ Append(d, x) = SubSeq(f, 1, n + 1) /\ Append(d, x) \in Paths
    BY <1>1, DirAhead
  <1>3. x \in Seq(NameChars) /\ x # <<>>
    BY <1>2, FileIs
  <1>4. IsPrefix(part, x)
    BY <1>1, AheadIs
  <1>5. part \o rest = x /\ rest \in Seq(NameChars)
    BY <1>3, <1>4, RestIs
  <1>6. Realpath(t) = Append(d, x)
    BY <1>2, <1>3, LookedUp
  <1>7. closed = IF Realpath(t) \in Dirs THEN slash ELSE none
    BY DEF Closing
  <1>8. slash \in Seq(AnyChar) /\ none \in Seq(AnyChar)
    BY AnyIs
  <1>17. quote \in Seq(Quotes)
    <2> DEFINE q == <<DoubleQuote>>
    <2>1. DoubleQuote \in Quotes
      BY DEF Quotes
    <2>2. q \in Seq(Quotes) /\ none \in Seq(Quotes) /\ quote \in {none, q}
      BY <2>1 DEF QuoteTexts
    <2> HIDE DEF q, none
    <2>. QED BY <2>2
  <1> HIDE DEF rest, t, slash, none
  <1>9. rest \in Seq(AnyChar) /\ a \in Seq(AnyChar)
    BY <1>5, AnyIs, ConcatProperties
  <1>10. Spells(a).dir = d /\ Spells(a).name = x
    BY <1>5, SpellNames
  <1> HIDE DEF a
  <1>11. Spells(a) \in Spot
    BY <1>9, SpellsIs
  <1>12. f \in Ahead(Spells(a))
    <2>1. IsPrefix(x, x)
      BY PrefixOn
    <2>2. IsStrictPrefix(d, f)
      BY DEF Ahead
    <2>. QED BY <1>2, <1>10, <2>1, <2>2 DEF Ahead
  <1>13. f \in Ahead(Spells(a \o closed)) /\ closed \in Seq(AnyChar)
    <2>1. CASE Realpath(t) \notin Dirs
      <3>1. closed = none
        BY <1>7, <2>1
      <3>2. a \o closed = a
        BY <1>9, <3>1, ConcatEmptySeq DEF none
      <3>. QED BY <1>8, <1>12, <3>1, <3>2
    <2>2. CASE Realpath(t) \in Dirs
      <3>1. closed = slash
        BY <1>7, <2>2
      <3> DEFINE c == "/"
      <3>2. a \o closed = Append(a, c) /\ c \in AnyChar /\ c = "/"
        BY <1>9, <3>1, AppendIsConcat, AnyIs DEF slash, Slash
      <3>3. n + 1 < Len(f)
        <4>1. f \in Seq(Seq(NameChars)) /\ f \notin Dirs /\ Len(f) \in Nat
          BY <1>2, FileIs
        <4>2. SubSeq(f, 1, n + 1) \in Dirs
          BY <1>2, <1>6, <2>2
        <4> HIDE DEF n
        <4>3. n + 1 # Len(f)
          <5>1. SubSeq(f, 1, Len(f)) = f
            BY <4>1, SubSeqFull
          <5>. QED BY <4>1, <4>2, <5>1
        <4>. QED BY <1>2, <4>1, <4>3
      <3> HIDE DEF c
      <3>4. Spells(Append(a, c)) = Spell(Spells(a), c)
        BY <1>9, <3>2, SpellsIs
      <3>5. f \in Ahead(Spell(Spells(a), c))
        BY <1>10, <1>11, <1>12, <3>2, <3>3, AheadSlash
      <3>. QED BY <1>8, <3>1, <3>2, <3>4, <3>5
    <2>. QED BY <2>1, <2>2
  <1>14. a \o closed \in Seq(AnyChar)
    BY <1>9, <1>13, ConcatProperties
  <1>15. Spells((a \o closed) \o quote) = Spells(a \o closed) /\ quote \in Seq(AnyChar)
    BY <1>14, <1>17, SpellQuotes
  <1>16. (a \o closed) \o quote = full \o (rest \o closed \o quote)
    <2> DEFINE b == full
               c == closed
               e == quote
    <2>1. b \in Seq(AnyChar) /\ rest \in Seq(AnyChar) /\ c \in Seq(AnyChar) /\ e \in Seq(AnyChar)
      BY <1>9, <1>13, <1>15
    <2> HIDE DEF b, c, e
    <2>2. OneByOne(b, rest, c, e) = AtOnce(b, rest, c, e)
      BY <2>1, FourParts
    <2>. QED BY <2>2 DEF a, b, c, e, OneByOne, AtOnce
  <1>. QED BY <1>13, <1>15, <1>16 DEF rest

\* What the names share is added.
LEMMA SharedFollows ==
  ASSUME PlainFiles, NEW full \in Seq(AnyChar), NEW f \in Ahead(Spells(full)),
         NEW part \in Line, Spells(full).name = part,
         NEW x \in Line, x = f[Len(Spells(full).dir) + 1],
         NEW append \in Line, IsPrefix(part \o append, x)
  PROVE  f \in Ahead(Spells(full \o append))
  <1>1. Spells(full) \in Spot
    BY SpellsIs
  <1>2. f \in Regular /\ Len(Spells(full).dir) + 1 \in 1..Len(f)
    BY <1>1, DirAhead
  <1>3. x \in Seq(NameChars)
    BY <1>2, FileIs
  <1>4. append \in Seq(NameChars)
    BY <1>3, SharedIs
  <1>5. Spells(full \o append).dir = Spells(full).dir /\ Spells(full \o append).name = part \o append
    BY <1>4, SpellNames
  <1>. QED BY <1>5 DEF Ahead

\* Whatever is chosen for the part, the files ahead stay ahead.
LEMMA ChosenFollows ==
  ASSUME PlainFiles, NEW dir \in Line, dir # <<>>, Head(dir) = "/", NEW d \in Dirs, Realpath(dir) = d,
         NEW full \in Seq(AnyChar), Spells(full).dir = d, NEW f \in Ahead(Spells(full)),
         NEW part \in Line, Spells(full).name = part,
         NEW append, Chosen(dir, part, Listing[d], append)
  PROVE  f \in Ahead(Spells(full \o append))
  <1> DEFINE list == Listing[d]
             x == f[Len(d) + 1]
             none == <<>>
             quotes == <<DoubleQuote>>
             slash == Slash
  <1>1. Spells(full) \in Spot
    BY SpellsIs
  <1>2. f \in Regular /\ Len(d) + 1 \in 1..Len(f) /\ Append(d, x) \in Paths /\ IsPrefix(part, x)
    BY <1>1, DirAhead, AheadIs
  <1>3. x \in Seq(NameChars)
    BY <1>2, FileIs
  <1>4. PICK m \in 1..Len(list) : list[m] = x
    BY <1>2, <1>3, ListedIs
  <1>5. x \in Line
    BY <1>4, ListedIs
  <1>6. \/ \E k \in 1..Len(list), quote \in {none, quotes} :
             /\ IsPrefix(part, list[k])
             /\ \A j \in 1..Len(list) : IsPrefix(part, list[j]) => list[j] = list[k]
             /\ append = SubSeq(list[k], Len(part) + 1, Len(list[k]))
                         \o (IF Realpath(dir \o slash \o list[k]) \in Dirs THEN slash ELSE none) \o quote
        \/ /\ append \in Line
           /\ \E k \in 1..Len(list) : IsPrefix(part, list[k])
           /\ \A k \in 1..Len(list) : IsPrefix(part, list[k]) => IsPrefix(part \o append, list[k])
    BY DEF Chosen
  <1> HIDE DEF list, none, quotes, slash, x
  <1>7. ASSUME NEW k \in 1..Len(list), NEW quote \in {none, quotes}, list[m] = list[k],
               append = SubSeq(list[k], Len(part) + 1, Len(list[k]))
                        \o (IF Realpath(dir \o slash \o list[k]) \in Dirs THEN slash ELSE none) \o quote
        PROVE  f \in Ahead(Spells(full \o append))
    <2> DEFINE closed == IF Realpath(dir \o slash \o x) \in Dirs THEN slash ELSE none
    <2>1. append = SubSeq(x, Len(part) + 1, Len(x)) \o closed \o quote
      BY <1>4, <1>7
    <2>2. closed = Closing(dir, x)
      BY DEF slash, none, Closing
    <2>3. quote \in QuoteTexts /\ x = f[Len(d) + 1]
      BY DEF none, quotes, x, QuoteTexts
    <2> HIDE DEF closed
    <2>4. Towards(dir, d, full, f, part, x) /\ PlainFiles
      BY <1>5, <2>3 DEF Towards
    <2>5. StillAhead(f, full, part, x, closed, quote)
      BY <2>2, <2>3, <2>4, OnlyFollows
    <2>. QED BY <2>1, <2>5 DEF StillAhead
  <1>8. ASSUME append \in Line, IsPrefix(part \o append, x)
        PROVE  f \in Ahead(Spells(full \o append))
    <2>1. x = f[Len(Spells(full).dir) + 1]
      BY DEF x
    <2>. QED BY <1>5, <1>8, <2>1, SharedFollows
  <1>. QED BY <1>2, <1>4, <1>6, <1>7, <1>8

-----------------------------------------------------------------------------
(* The last word of the line.                                              *)

\* The rest of a text, when more is added.
LEMMA RestOn ==
  ASSUME NEW S, NEW s \in Seq(S), NEW t \in Seq(S), NEW k \in 1..Len(s)
  PROVE  SubSeq(s \o t, k, Len(s \o t)) = SubSeq(s, k, Len(s)) \o t
  <1> DEFINE z == s \o t
             a == Len(s)
             b == Len(t)
             n == Len(z)
             u == SubSeq(z, k, n)
             v == SubSeq(s, k, a)
             w == v \o t
  <1>1. /\ z \in Seq(S) /\ a \in Nat /\ b \in Nat /\ n = a + b
        /\ \A i \in 1..a : z[i] = s[i]
        /\ \A i \in 1..b : z[a + i] = t[i]
    BY Joined
  <1>2. k \in Nat /\ 1 <= k /\ k <= a /\ k \in Int /\ n \in Int /\ a \in Int /\ k <= n
    BY <1>1
  <1> HIDE DEF z, n
  <1>3. /\ u \in Seq(S) /\ Len(u) = n - k + 1
        /\ \A i \in 1..(n - k + 1) : u[i] = z[k + i - 1]
    BY <1>1, <1>2, PartOf DEF n
  <1>4. /\ v \in Seq(S) /\ Len(v) = a - k + 1
        /\ \A i \in 1..(a - k + 1) : v[i] = s[k + i - 1]
    BY <1>2, PartOf
  <1> HIDE DEF u, v
  <1>5. /\ w \in Seq(S) /\ Len(w) = Len(v) + b
        /\ \A i \in 1..Len(v) : w[i] = v[i]
        /\ \A i \in 1..b : w[Len(v) + i] = t[i]
    <2>1. v \in Seq(S)
      BY <1>4
    <2>. QED BY <2>1, Joined
  <1> HIDE DEF w, a, b
  <1>6. Len(u) = Len(w)
    BY <1>1, <1>2, <1>3, <1>4, <1>5
  <1>7. ASSUME NEW i \in 1..Len(u) PROVE u[i] = w[i]
    <2>1. CASE i <= a - k + 1
      <3> DEFINE m == n - k + 1
                 p == a - k + 1
      <3>0. m \in Nat /\ p \in Nat /\ Len(u) = m /\ Len(v) = p /\ i <= p /\ k \in Nat /\ 1 <= k
            /\ a \in Nat /\ k + p = a + 1
        <4>1. n \in Nat /\ a \in Nat /\ b \in Nat /\ n = a + b
          BY <1>1
        <4>2. Len(u) = n - k + 1 /\ Len(v) = a - k + 1
          BY <1>3, <1>4
        <4>. QED BY <1>2, <4>1, <4>2, <2>1
      <3> HIDE DEF m, p
      <3>2. i \in 1..m /\ i \in 1..p /\ i \in 1..Len(v) /\ k + i - 1 \in 1..a
        BY <3>0
      <3>1. i \in 1..(n - k + 1) /\ i \in 1..(a - k + 1) /\ i \in 1..Len(v) /\ k + i - 1 \in 1..a
        BY <3>2 DEF m, p
      <3>. QED BY <1>1, <1>3, <1>4, <1>5, <3>1
    <2>2. CASE i > a - k + 1
      <3> DEFINE m == n - k + 1
                 p == a - k + 1
                 j == i - p
      <3>0. m \in Nat /\ p \in Nat /\ Len(u) = m /\ Len(v) = p /\ i > p /\ k \in Nat
            /\ a \in Nat /\ b \in Nat /\ k + p = a + 1 /\ m = p + b
        <4>1. n \in Nat /\ a \in Nat /\ b \in Nat /\ n = a + b
          BY <1>1
        <4>2. Len(u) = n - k + 1 /\ Len(v) = a - k + 1
          BY <1>3, <1>4
        <4>. QED BY <1>2, <4>1, <4>2, <2>2
      <3> HIDE DEF m, p
      <3>2. i \in 1..m /\ j \in 1..b /\ k + i - 1 = a + j /\ i = Len(v) + j
        BY <3>0
      <3>1. i \in 1..(n - k + 1) /\ j \in 1..b /\ k + i - 1 = a + j /\ i = Len(v) + j
        BY <3>2 DEF m
      <3> HIDE DEF j
      <3>3. u[i] = z[k + i - 1]
        BY <1>3, <3>1
      <3>4. z[a + j] = t[j]
        BY <1>1, <3>1
      <3>5. w[Len(v) + j] = t[j]
        BY <1>5, <3>1
      <3>. QED BY <3>1, <3>3, <3>4, <3>5, Zenon
    <2>. QED BY <1>1, <1>2, <1>3, <2>1, <2>2
  <1>8. u = w
    BY <1>3, <1>5, <1>6, <1>7, SeqEqual
  <1>. QED BY <1>8 DEF u, w, v, z, n, a

\* A word: a space and what follows it.
Word(word) ==
  /\ word \in Line /\ Len(word) # 0 /\ word # <<>> /\ word[1] = Space
  /\ \A i \in 2..Len(word) : word[i] # Space

\* The last word starts at the last space.
LEMMA LastSpace ==
  ASSUME NEW line \in Line, NEW k \in 1..Len(line), line[k] = Space,
         \A i \in 1..Len(line) : line[i] = Space => i <= k
  PROVE  LastWord(line) = SubSeq(line, k, Len(line))
  <1> DEFINE I == {i \in 1..Len(line) : line[i] = Space}
  <1>1. Len(line) \in Nat
    BY LenProperties
  <1>2. k \in I /\ I # {} /\ I \in SUBSET (1..Len(line)) /\ \A i \in I : i <= k
    OBVIOUS
  <1>3. SelectLastInSeq(line, LAMBDA c : c = Space) = Max(I)
    BY <1>2 DEF SelectLastInSeq
  <1>4. Max(I) \in I /\ \A i \in I : Max(I) >= i
    BY <1>1, <1>2, Indexes
  <1>5. Max(I) \in Nat
    BY <1>4
  <1> HIDE DEF I
  <1>6. Max(I) = k
    BY <1>2, <1>4, <1>5
  <1>. QED BY <1>3, <1>6 DEF LastWord

\* What starts there is a word.
LEMMA WordOf ==
  ASSUME NEW line \in Line, NEW k \in 1..Len(line), line[k] = Space,
         \A i \in 1..Len(line) : line[i] = Space => i <= k
  PROVE  Word(SubSeq(line, k, Len(line)))
  <1> DEFINE n == Len(line)
             w == SubSeq(line, k, n)
  <1>1. n \in Nat /\ k \in Int /\ n \in Int /\ 1 <= k /\ n <= Len(line) /\ k <= n
    BY LenProperties
  <1>2. w \in Line /\ Len(w) = n - k + 1 /\ \A i \in 1..(n - k + 1) : w[i] = line[k + i - 1]
    BY <1>1, PartOf
  <1> HIDE DEF w
  <1>3. 1 \in 1..(n - k + 1) /\ k + 1 - 1 = k
    BY <1>1
  <1>4. Len(w) # 0 /\ w # <<>> /\ w[1] = Space
    BY <1>1, <1>2, <1>3, EmptySeq
  <1>5. ASSUME NEW i \in 2..Len(w) PROVE w[i] # Space
    <2>1. i \in 1..(n - k + 1) /\ k + i - 1 \in 1..Len(line) /\ ~(k + i - 1 <= k)
      BY <1>1, <1>2
    <2>. QED BY <1>2, <2>1
  <1>. QED BY <1>2, <1>4, <1>5 DEF Word, w, n

\* What is added goes to the last word.
LEMMA WordGrows ==
  ASSUME NEW line \in Line, Contains(line, Space), NEW append \in Line,
         \A i \in 1..Len(append) : append[i] # Space
  PROVE  Word(LastWord(line)) /\ LastWord(line \o append) = LastWord(line) \o append
  <1> DEFINE z == line \o append
             a == Len(line)
             b == Len(append)
             I == {i \in 1..a : line[i] = Space}
             k == Max(I)
  <1>1. /\ z \in Line /\ a \in Nat /\ b \in Nat /\ Len(z) = a + b
        /\ \A i \in 1..a : z[i] = line[i]
        /\ \A i \in 1..b : z[a + i] = append[i]
    BY Joined
  <1>2. I # {} /\ I \in SUBSET (1..a)
    BY DEF Contains
  <1>3. k \in I /\ \A i \in I : k >= i
    BY <1>1, <1>2, Indexes
  <1>4. k \in 1..a /\ line[k] = Space
    BY <1>3
  <1>5. \A i \in 1..a : line[i] = Space => i <= k
    BY <1>3, <1>4
  <1> HIDE DEF k, I
  <1>6. LastWord(line) = SubSeq(line, k, a) /\ Word(SubSeq(line, k, a))
    BY <1>4, <1>5, LastSpace, WordOf
  <1>7. LastWord(z) = SubSeq(z, k, Len(z))
    <2> HIDE DEF z
    <2>1. k \in 1..Len(z) /\ z[k] = Space
      BY <1>1, <1>4
    <2>2. ASSUME NEW i \in 1..Len(z), z[i] = Space PROVE i <= k
      <3>1. CASE i <= a
        <4>1. i \in 1..a
          BY <3>1
        <4>. QED BY <1>1, <1>5, <2>2, <4>1
      <3>2. CASE i > a
        <4>1. i - a \in 1..b /\ a + (i - a) = i
          BY <1>1, <3>2
        <4>. QED BY <1>1, <2>2, <4>1
      <3>. QED BY <1>1, <3>1, <3>2
    <2>. QED BY <1>1, <2>1, <2>2, LastSpace
  <1>8. SubSeq(z, k, Len(z)) = SubSeq(line, k, a) \o append
    BY <1>4, RestOn
  <1> HIDE DEF z
  <1>9. LastWord(z) = LastWord(line) \o append
    BY <1>6, <1>7, <1>8
  <1>. QED BY <1>6, <1>9 DEF z

\* What follows the space goes on as the line does.
LEMMA TailGrows ==
  ASSUME NEW word \in Line, Len(word) # 0, NEW append \in Line
  PROVE  Tail(word) \in Line /\ Tail(word \o append) = Tail(word) \o append
  <1> DEFINE z == word \o append
             v == Tail(word)
             u == Tail(z)
             w == v \o append
             a == Len(word)
             b == Len(append)
  <1>1. /\ z \in Line /\ a \in Nat /\ a # 0 /\ b \in Nat /\ Len(z) = a + b
        /\ \A i \in 1..a : z[i] = word[i]
        /\ \A i \in 1..b : z[a + i] = append[i]
    BY Joined
  <1> HIDE DEF z
  <1>2. z # <<>> /\ word # <<>>
    BY <1>1, EmptySeq
  <1>3. v \in Line /\ Len(v) = a - 1 /\ \A i \in 1..Len(v) : v[i] = word[i + 1]
    BY <1>2, HeadTailProperties
  <1>4. u \in Line /\ Len(u) = Len(z) - 1 /\ \A i \in 1..Len(u) : u[i] = z[i + 1]
    BY <1>1, <1>2, HeadTailProperties
  <1> HIDE DEF u, v
  <1>5. /\ w \in Line /\ Len(w) = Len(v) + b
        /\ \A i \in 1..Len(v) : w[i] = v[i]
        /\ \A i \in 1..b : w[Len(v) + i] = append[i]
    <2>1. v \in Line
      BY <1>3
    <2>. QED BY <2>1, Joined
  <1> HIDE DEF w, a, b
  <1>6. ASSUME NEW i \in 1..Len(u) PROVE u[i] = w[i]
    <2>1. CASE i <= a - 1
      <3>1. i \in 1..Len(v) /\ i + 1 \in 1..a
        BY <1>1, <1>3, <2>1
      <3>. QED BY <1>1, <1>3, <1>4, <1>5, <3>1
    <2>2. CASE i > a - 1
      <3> DEFINE j == i - (a - 1)
      <3>1. j \in 1..b /\ i = Len(v) + j /\ i + 1 = a + j
        BY <1>1, <1>3, <1>4, <2>2
      <3> HIDE DEF j
      <3>. QED BY <1>1, <1>4, <1>5, <3>1
    <2>. QED BY <1>1, <1>3, <1>4, <2>1, <2>2
  <1>7. u = w
    BY <1>1, <1>3, <1>4, <1>5, <1>6, SeqEqual
  <1>. QED BY <1>3, <1>7 DEF u, v, w, z

\* A path that starts with a slash, after quotes at most.
Rising(word) == \E i \in 1..Len(word) : word[i] = "/" /\ \A j \in 1..(i - 1) : word[j] \in Quotes

\* The same, by the index.
LEMMA RisingIs ==
  ASSUME NEW word \in Line
  PROVE  Rising(word)
         <=> \E i \in DOMAIN word : word[i] = "/" /\ Range(SubSeq(word, 1, i - 1)) \subseteq Quotes
  <1>1. DOMAIN word = 1..Len(word) /\ Len(word) \in Nat
    BY LenProperties
  <1>2. ASSUME NEW i \in 1..Len(word)
        PROVE  Range(SubSeq(word, 1, i - 1)) \subseteq Quotes <=> \A j \in 1..(i - 1) : word[j] \in Quotes
    <2> DEFINE s == SubSeq(word, 1, i - 1)
    <2>1. 1 \in Int /\ i - 1 \in Int /\ 1 <= 1 /\ i - 1 <= Len(word) /\ i - 1 - 1 + 1 = i - 1 /\ i \in Nat
          /\ (IF 1 <= i - 1 THEN i - 1 - 1 + 1 ELSE 0) = i - 1 /\ \A j \in 1..(i - 1) : 1 + j - 1 = j
      BY <1>1
    <2>2. /\ s \in Line /\ Len(s) = (IF 1 <= i - 1 THEN i - 1 - 1 + 1 ELSE 0)
          /\ \A j \in 1..(i - 1 - 1 + 1) : s[j] = word[1 + j - 1]
      BY <2>1, PartOf
    <2> HIDE DEF s
    <2>3. DOMAIN s = 1..(i - 1) /\ \A j \in 1..(i - 1) : s[j] = word[j]
      BY <2>1, <2>2, LenProperties
    <2>4. Range(s) = {word[j] : j \in 1..(i - 1)}
      BY <2>3 DEF Range
    <2>. QED BY <2>4 DEF s
  <1>. QED BY <1>1, <1>2 DEF Rising

\* What is added leaves it so.
LEMMA RisingStays ==
  ASSUME PlainFiles, NEW word \in Line, NEW append \in Line, Len(append) # 0,
         (\A i \in 1..Len(word) : word[i] \in Quotes) => append[1] \in NameChars
  PROVE  Rising(word \o append) <=> Rising(word)
  <1> DEFINE z == word \o append
             a == Len(word)
             b == Len(append)
  <1>1. /\ z \in Line /\ a \in Nat /\ b \in Nat /\ b # 0 /\ Len(z) = a + b
        /\ \A i \in 1..a : z[i] = word[i]
        /\ \A i \in 1..b : z[a + i] = append[i]
    BY Joined
  <1> HIDE DEF z, b
  <1>2. ASSUME NEW i \in 1..a, word[i] = "/", \A j \in 1..(i - 1) : word[j] \in Quotes PROVE Rising(z)
    <2>1. i \in 1..Len(z) /\ \A j \in 1..(i - 1) : j \in 1..a
      BY <1>1
    <2>. QED BY <1>1, <1>2, <2>1 DEF Rising
  <1>3. ASSUME NEW i \in 1..Len(z), z[i] = "/", \A j \in 1..(i - 1) : z[j] \in Quotes PROVE Rising(word)
    <2>1. CASE i <= a
      <3>1. i \in 1..a /\ \A j \in 1..(i - 1) : j \in 1..a
        BY <1>1, <2>1
      <3>. QED BY <1>1, <1>3, <3>1 DEF Rising
    <2>2. CASE i > a
      <3>1. \A j \in 1..a : j \in 1..(i - 1)
        BY <1>1, <2>2
      <3>2. append[1] \in NameChars
        BY <1>1, <1>3, <3>1
      <3>3. 1 \in 1..b /\ (a + 1 = i \/ a + 1 \in 1..(i - 1))
        BY <1>1, <2>2
      <3>4. append[1] = z[a + 1]
        BY <1>1, <3>3
      <3>5. append[1] = "/" \/ append[1] \in Quotes
        BY <1>3, <3>3, <3>4
      <3>. QED BY <3>2, <3>5, FilesAssumption DEF PlainFiles
    <2>. QED BY <1>1, <2>1, <2>2
  <1>4. Rising(word) => Rising(z)
    BY <1>2 DEF Rising
  <1>5. Rising(z) => Rising(word)
    BY <1>3 DEF Rising
  <1>. QED BY <1>4, <1>5 DEF z

\* What Typed leaves out of a word is quotes, and it tells the two kinds of path
\* apart as Rising does.
LEMMA TypedIs ==
  ASSUME NEW word, Word(word)
  PROVE  /\ Tail(word) \in Line /\ Typed(word).text \in Line
         /\ \E q \in Seq(Quotes) : q \in Line /\ Tail(word) = q \o Typed(word).text
         /\ Rising(Tail(word)) <=> Absolute(Typed(word).text)
  <1> DEFINE I == {i \in 1..Len(word) : word[i] \notin Quotes \cup {Space}}
             n == Len(word)
             skipped == Found(I)
             text    == IF skipped = 0 THEN <<>> ELSE SubSeq(word, skipped, Len(word))
             from    == IF Len(word) > 1 /\ word[2] \in Quotes THEN 3 ELSE 2
             w       == Tail(word)
             typed   == Typed(word).text
  <1>1. word \in Line /\ n \in Nat /\ n # 0 /\ word # <<>> /\ word[1] = Space /\ \A i \in 2..n : word[i] # Space
    BY LenProperties DEF Word
  <1>2. skipped \in 0..n /\ (skipped # 0 => skipped \in I)
    BY <1>1, FoundIn
  <1>3. \A i \in I : skipped # 0 /\ skipped <= i
    <2>1. I # {} => Min(I) \in I /\ \A i \in I : Min(I) <= i
      BY <1>1, Indexes
    <2>. QED BY <2>1 DEF Found
  <1>4. SelectInSeq(word, LAMBDA c : c \notin Quotes \cup {Space}) = skipped
    BY DEF SelectInSeq, Found
  <1>5. typed = IF Absolute(text) THEN text ELSE SubSeq(word, from, Len(word))
    <2> HIDE DEF skipped
    <2>. QED BY <1>4 DEF Typed
  <1>6. typed \in Line
    BY <1>1, TypedIn
  <1>7. /\ w \in Line /\ Len(w) = n - 1 /\ \A i \in 1..Len(w) : w[i] = word[i + 1]
        /\ w = SubSeq(word, 2, n)
    BY <1>1, HeadTailProperties, TailIsSubSeq
  <1>8. \A i \in 1..n : i \in I <=> word[i] \notin Quotes \cup {Space}
    OBVIOUS
  <1>9. "/" \notin Quotes \cup {Space} /\ Quotes \subseteq Chars
    BY Zenon DEF Quotes, Space, Chars, DoubleQuote
  <1> HIDE DEF I, skipped, w, typed
  <1>10. ASSUME NEW m \in 2..(n + 1), typed = SubSeq(word, m, n),
                \A i \in 2..(m - 1) : word[i] \in Quotes
         PROVE  \E q \in Seq(Quotes) : q \in Line /\ w = q \o typed
    <2> DEFINE q == SubSeq(word, 2, m - 1)
    <2>1. 2 \in 1..(Len(word) + 1) /\ m - 1 \in (2 - 1)..Len(word) /\ n \in (m - 1)..Len(word) /\ m - 1 + 1 = m
      BY <1>1
    <2>2. q \o SubSeq(word, m - 1 + 1, n) = SubSeq(word, 2, n)
      BY <1>1, <2>1, ConcatAdjacentSubSeq
    <2>3. 2 \in Int /\ m - 1 \in Int /\ 1 <= 2 /\ m - 1 <= Len(word)
      BY <1>1
    <2>4. q \in Line /\ Len(q) = (IF 2 <= m - 1 THEN m - 1 - 2 + 1 ELSE 0)
          /\ \A i \in 1..(m - 1 - 2 + 1) : q[i] = word[2 + i - 1]
      BY <1>1, <2>3, PartOf
    <2>5. w = q \o typed
      BY <1>7, <1>10, <2>1, <2>2
    <2> HIDE DEF q
    <2>6. ASSUME NEW i \in 1..Len(q) PROVE q[i] \in Quotes
      <3>1. i \in 1..(m - 1 - 2 + 1) /\ 2 + i - 1 \in 2..(m - 1)
        BY <2>3, <2>4
      <3>. QED BY <1>10, <2>4, <3>1
    <2>7. Range(q) \subseteq Quotes
      BY <2>4, <2>6, LenProperties DEF Range
    <2>8. q \in Seq(Quotes)
      BY <2>4, <2>7, OwnElements
    <2>. QED BY <2>4, <2>5, <2>8
  <1>11. ASSUME NEW m \in 2..(n + 1), typed = SubSeq(word, m, n), Absolute(typed)
         PROVE  m \in 2..n /\ word[m] = "/"
    <2>1. typed # <<>> /\ Head(typed) = "/"
      BY <1>11 DEF Absolute
    <2>2. m # n + 1
      <3>1. ASSUME m = n + 1 PROVE FALSE
        <4>1. m \in Int /\ n \in Int /\ n < m
          BY <1>1, <3>1
        <4>. QED BY <1>11, <2>1, <4>1, SubSeqEmpty
      <3>. QED BY <3>1
    <2>3. m \in 2..n /\ m \in 1..Len(word) /\ n \in m..Len(word)
      BY <1>1, <2>2
    <2>4. Head(SubSeq(word, m, n)) = word[m]
      BY <1>1, <2>3, HeadTailOfSubSeq
    <2>. QED BY <1>11, <2>1, <2>3, <2>4
  <1>12. ASSUME NEW m \in 2..n, word[m] = "/", \A i \in 2..(m - 1) : word[i] \in Quotes
         PROVE  /\ Rising(w) /\ m \in 1..n
                /\ skipped = m
    <2>1. m \in 1..n /\ m \in I
      BY <1>1, <1>8, <1>9, <1>12
    <2>2. m - 1 \in 1..Len(w) /\ m - 1 + 1 = m /\ \A j \in 1..(m - 1 - 1) : j + 1 \in 2..(m - 1) /\ j \in 1..Len(w)
      BY <1>1, <1>7
    <2>3. w[m - 1] = "/" /\ \A j \in 1..(m - 1 - 1) : w[j] \in Quotes
      BY <1>7, <1>12, <2>2
    <2>4. Rising(w)
      BY <2>2, <2>3 DEF Rising
    <2>5. skipped # 0 /\ skipped <= m /\ skipped \in I /\ skipped \in 1..n
      BY <1>2, <1>3, <2>1
    <2>6. word[skipped] \notin Quotes \cup {Space}
      BY <1>8, <2>5
    <2>7. skipped # 1 /\ skipped \notin 2..(m - 1)
      BY <1>1, <1>12, <2>6
    <2>8. skipped = m
      BY <1>1, <2>5, <2>7
    <2>. QED BY <2>1, <2>4, <2>8
  <1>13. ASSUME Rising(w)
         PROVE  \E m \in 2..n : word[m] = "/" /\ \A i \in 2..(m - 1) : word[i] \in Quotes
    <2>1. PICK k \in 1..Len(w) : w[k] = "/" /\ \A j \in 1..(k - 1) : w[j] \in Quotes
      BY <1>13 DEF Rising
    <2> DEFINE m == k + 1
    <2>2. m \in 2..n /\ \A i \in 2..(m - 1) : i - 1 \in 1..(k - 1) /\ i - 1 \in 1..Len(w) /\ i - 1 + 1 = i
      BY <1>1, <1>7
    <2>3. word[m] = "/"
      BY <1>7, <2>1
    <2> HIDE DEF m
    <2>4. ASSUME NEW i \in 2..(m - 1) PROVE word[i] \in Quotes
      <3>1. i - 1 \in 1..(k - 1) /\ i - 1 \in 1..Len(w) /\ i - 1 + 1 = i
        BY <2>2
      <3>2. w[i - 1] = word[i - 1 + 1]
        BY <1>7, <3>1
      <3>. QED BY <2>1, <3>1, <3>2
    <2>. QED BY <2>2, <2>3, <2>4
  <1>14. CASE Absolute(text)
    <2>1. typed = text /\ Absolute(typed)
      BY <1>5, <1>14
    <2>2. skipped # 0
      <3>1. text # <<>>
        BY <1>14 DEF Absolute
      <3>. QED BY <3>1
    <2>3. typed = SubSeq(word, skipped, n)
      BY <2>1, <2>2
    <2>4. skipped \in I /\ skipped \in 1..n
      BY <1>2, <2>2
    <2>5. skipped # 1
      BY <1>1, <1>8, <2>4
    <2>6. skipped \in 2..(n + 1)
      BY <1>1, <2>4, <2>5
    <2>7. ASSUME NEW i \in 2..(skipped - 1) PROVE word[i] \in Quotes
      <3>1. i \in 1..n /\ i \in 2..n /\ ~(skipped <= i)
        BY <1>1, <2>4
      <3>2. i \notin I
        BY <1>3, <3>1
      <3>. QED BY <1>1, <1>8, <3>1, <3>2
    <2>8. \E q \in Seq(Quotes) : q \in Line /\ w = q \o typed
      BY <1>10, <2>3, <2>6, <2>7
    <2>9. skipped \in 2..n /\ word[skipped] = "/"
      BY <1>11, <2>1, <2>3, <2>6
    <2>10. Rising(w)
      BY <1>12, <2>7, <2>9
    <2>. QED BY <1>6, <1>7, <2>1, <2>8, <2>10 DEF w, typed
  <1>15. CASE ~Absolute(text)
    <2>1. typed = SubSeq(word, from, n)
      BY <1>5, <1>15
    <2>2. from \in 2..(n + 1) /\ \A i \in 2..(from - 1) : word[i] \in Quotes
      <3>1. CASE n > 1 /\ word[2] \in Quotes
        <4>1. from = 3
          BY <3>1
        <4>. QED BY <1>1, <3>1, <4>1
      <3>2. CASE ~(n > 1 /\ word[2] \in Quotes)
        <4>1. from = 2
          BY <3>2
        <4>. QED BY <1>1, <4>1
      <3>. QED BY <3>1, <3>2
    <2> HIDE DEF from
    <2>3. \E q \in Seq(Quotes) : q \in Line /\ w = q \o typed
      BY <1>10, <2>1, <2>2
    <2>4. ASSUME NEW m \in 2..n, word[m] = "/", \A i \in 2..(m - 1) : word[i] \in Quotes
          PROVE  FALSE
      <3>1. skipped = m /\ m \in 1..n
        BY <1>12, <2>4
      <3>2. text = SubSeq(word, m, n)
        BY <1>1, <3>1
      <3>3. n \in m..Len(word)
        BY <1>1
      <3> HIDE DEF text
      <3>4. Head(text) = "/"
        BY <1>1, <2>4, <3>1, <3>2, <3>3, HeadTailOfSubSeq
      <3>5. text # <<>>
        <4>1. m \in Int /\ n \in Int /\ 1 <= m /\ n <= Len(word) /\ m <= n /\ n - m + 1 # 0
          BY <1>1
        <4>2. text \in Line /\ Len(text) = n - m + 1
          BY <1>1, <3>2, <4>1, PartOf
        <4>. QED BY <4>1, <4>2, EmptySeq
      <3>. QED BY <1>15, <3>4, <3>5 DEF Absolute
    <2>5. ~Rising(w)
      BY <1>13, <2>4
    <2>6. ~Absolute(typed)
      BY <1>11, <2>1, <2>2, <2>4
    <2>. QED BY <1>6, <1>7, <2>3, <2>5, <2>6 DEF w, typed
  <1>. QED BY <1>14, <1>15

\* Where a path is looked for.
Start(absolute) == (IF absolute THEN Root ELSE Root \o Slash \o Cwd) \o Slash

\* The path starts with a directory, ended by its slash.
LEMMA StartIs ==
  ASSUME NEW absolute
  PROVE  /\ Start(absolute) \in Line /\ Start(absolute) \in Seq(AnyChar)
         /\ Read(Start(absolute)).name = <<>>
  <1> DEFINE r == IF absolute THEN Root ELSE Root \o Slash \o Cwd
             slash == Slash
  <1>1. Root \in Line /\ Cwd \in Line /\ slash \in Line
    BY LineEditorAssumption, Texts
  <1>2. r \in Line
    <2> HIDE DEF slash
    <2>1. Root \o slash \in Line
      BY <1>1, LineJoined
    <2>2. (Root \o slash) \o Cwd \in Line
      BY <1>1, <2>1, LineJoined
    <2>. QED BY <1>1, <2>2 DEF slash
  <1> HIDE DEF r
  <1>3. Start(absolute) = r \o Slash
    BY DEF Start, r
  <1>4. r \in Seq(AnyChar)
    BY <1>2, AnyIs
  <1>5. r \o Slash \in Line
    BY <1>1, <1>2, LineJoined
  <1>6. Read(r \o Slash).name = <<>>
    BY <1>4, ReadSlash
  <1> HIDE DEF slash
  <1>. QED BY <1>3, <1>5, <1>6, AnyIs

\* The path that is completed, from where it starts.
LEMMA BelowStart ==
  ASSUME NEW file \in Line
  PROVE  Below(Cwd, file) = Start(Absolute(file)) \o file
  <1>1. CASE Absolute(file)
    BY <1>1 DEF Below, Start
  <1>2. CASE ~Absolute(file)
    BY <1>2 DEF Below, InCwd, Start
  <1>. QED BY <1>1, <1>2

\* What a line could be completed to: the files ahead of its last word.
LEMMA MeantIs ==
  ASSUME NEW line, Tail(LastWord(line)) \in Line
  PROVE  CouldName(line)
         = Ahead(Spells(Start(Rising(Tail(LastWord(line)))) \o Tail(LastWord(line))))
  <1> DEFINE word     == Tail(LastWord(line))
             absolute == \E i \in DOMAIN word : word[i] = "/" /\ Range(SubSeq(word, 1, i - 1)) \subseteq Quotes
             meant    == Spells((IF absolute THEN Root ELSE Root \o Slash \o Cwd) \o Slash \o word)
  <1>1. CouldName(line) = {f \in Regular : IsStrictPrefix(meant.dir, f) /\ IsPrefix(meant.name, f[Len(meant.dir) + 1])}
    BY DEF CouldName
  <1>2. absolute <=> Rising(word)
    BY RisingIs
  <1> HIDE DEF absolute, word
  <1>3. meant = Spells(Start(Rising(word)) \o word)
    <2>1. CASE Rising(word)
      BY <1>2, <2>1 DEF Start
    <2>2. CASE ~Rising(word)
      BY <1>2, <2>2 DEF Start
    <2>. QED BY <2>1, <2>2
  <1> HIDE DEF meant
  <1>. QED BY <1>1, <1>3 DEF Ahead, word

\* The quotes that Typed leaves out spell nothing.
LEMMA Unquoted ==
  ASSUME NEW word, Word(word)
  PROVE  /\ Below(Cwd, Typed(word).text) \in Seq(AnyChar)
         /\ Spells(Start(Rising(Tail(word))) \o Tail(word)) = Spells(Below(Cwd, Typed(word).text))
         /\ (\A i \in 1..Len(Tail(word)) : Tail(word)[i] \in Quotes) =>
              /\ Read(Below(Cwd, Typed(word).text)).name = Typed(word).text
              /\ \A i \in 1..Len(Typed(word).text) : Typed(word).text[i] \in Quotes
  <1> DEFINE text == Typed(word).text
             w    == Tail(word)
             b    == Start(Rising(w))
             B    == Below(Cwd, text)
  <1>1. w \in Line /\ text \in Line /\ Rising(w) <=> Absolute(text)
    BY TypedIs
  <1>2. PICK q \in Seq(Quotes) : q \in Line /\ w = q \o text
    BY TypedIs
  <1> HIDE DEF text, w
  <1>3. w \in Line /\ text \in Line
    BY <1>1, TypedIs DEF text, w
  <1>4. B = b \o text
    <2>1. B = Start(Absolute(text)) \o text
      BY <1>3, BelowStart
    <2>2. Start(Absolute(text)) = Start(Rising(w))
      <3>1. Rising(w) <=> Absolute(text)
        BY <1>1, TypedIs DEF text, w
      <3>. QED BY <3>1 DEF Start
    <2>. QED BY <2>1, <2>2
  <1>5. b \in Line /\ b \in Seq(AnyChar) /\ Read(b).name = <<>>
    BY <1>3, StartIs
  <1>6. q \in Seq(AnyChar) /\ text \in Seq(AnyChar)
    BY <1>2, <1>3, AnyIs
  <1> HIDE DEF b, B
  <1>7. b \o q \in Seq(AnyChar) /\ b \o text \in Seq(AnyChar)
    BY <1>5, <1>6, ConcatProperties
  <1>8. Spells(b \o w) = Spells(b \o text)
    <2> DEFINE c == b \o q
    <2>1. Spells(c) = Spells(b)
      BY <1>5, <1>2, SpellQuotes
    <2>2. c \in Seq(AnyChar)
      BY <1>7
    <2>6. Regroups(b, q, text)
      BY <1>5, <1>6, Regrouped
    <2>3. c \o text = b \o (q \o text)
      BY <2>6 DEF Regroups
    <2> HIDE DEF c
    <2>4. Spells(c \o text) = Spells(b \o text)
      BY <1>5, <1>6, <2>1, <2>2, SpellAlike
    <2>5. c \o text = b \o w
      BY <1>2, <2>3
    <2>. QED BY <2>4, <2>5
  <1>9. ASSUME \A i \in 1..Len(w) : w[i] \in Quotes
        PROVE  Read(B).name = text /\ \A i \in 1..Len(text) : text[i] \in Quotes
    <2>1. \A i \in 1..Len(text) : text[i] \in Quotes
      <3>0. q \in Line /\ text \in Line
        BY <1>2, <1>3
      <3> DEFINE z == q \o text
      <3>1. /\ z \in Line /\ Len(q) \in Nat /\ Len(text) \in Nat /\ Len(z) = Len(q) + Len(text)
            /\ \A i \in 1..Len(text) : z[Len(q) + i] = text[i]
        BY <3>0, Joined
      <3>2. z = w
        BY <1>2
      <3> HIDE DEF z
      <3>3. \A i \in 1..Len(text) : Len(q) + i \in 1..Len(w)
        BY <3>1, <3>2
      <3>. QED BY <1>9, <3>1, <3>2, <3>3
    <2>2. "/" \notin Quotes
      BY Zenon DEF Quotes, DoubleQuote
    <2>3. \A i \in 1..Len(text) : text[i] # "/"
      BY <2>1, <2>2
    <2>4. Read(b \o text).name = Read(b).name \o text
      BY <1>5, <1>6, <2>3, ReadName
    <2>5. Read(b).name \o text = text
      BY <1>5, <1>6, ConcatEmptySeq
    <2>. QED BY <1>4, <2>1, <2>4, <2>5
  <1>. QED BY <1>4, <1>7, <1>8, <1>9 DEF text, w, b, B

\* A completion keeps the spelling of the last word, and adds to it.
LEMMA CouldNameMore ==
  ASSUME PlainFiles, NEW line \in Line, Contains(line, Space), NEW append \in Line, Len(append) # 0,
         \A i \in 1..Len(append) : append[i] # Space,
         Read(Full(line)).name \in Seq(NameChars),
         Read(Full(line)).name = <<>> => append[1] \in NameChars
  PROVE  /\ Full(line) \in Seq(AnyChar)
         /\ CouldName(line) = Ahead(Spells(Full(line)))
         /\ CouldName(line \o append) = Ahead(Spells(Full(line) \o append))
  <1> DEFINE word == LastWord(line)
             more == line \o append
             w    == Tail(word)
             v    == Tail(LastWord(more))
             b    == Start(Rising(w))
             full == Full(line)
  <1>1. Word(word) /\ LastWord(more) = word \o append
    BY WordGrows
  <1>2. full = Below(Cwd, Typed(word).text)
    BY DEF Full
  <1> HIDE DEF more, word
  <1>3. /\ full \in Seq(AnyChar) /\ Spells(b \o w) = Spells(full)
        /\ (\A i \in 1..Len(w) : w[i] \in Quotes) =>
             /\ Read(full).name = Typed(word).text
             /\ \A i \in 1..Len(Typed(word).text) : Typed(word).text[i] \in Quotes
    BY <1>1, <1>2, Unquoted
  <1>4. w \in Line /\ v = w \o append
    <2>1. word \in Line /\ Len(word) # 0
      BY <1>1 DEF Word
    <2>. QED BY <1>1, <2>1, TailGrows
  <1> HIDE DEF w, v, full
  <1>5. ASSUME \A i \in 1..Len(w) : w[i] \in Quotes PROVE append[1] \in NameChars
    <2> DEFINE text == Typed(word).text
    <2>1. text \in Seq(NameChars) /\ \A i \in 1..Len(text) : text[i] \in Quotes
      BY <1>3, <1>5 DEF full
    <2>2. Read(full).name = text
      BY <1>3, <1>5
    <2> HIDE DEF text
    <2>3. Len(text) = 0
      <3>1. ASSUME Len(text) # 0 PROVE FALSE
        <4>1. 1 \in 1..Len(text)
          BY <2>1, <3>1, LenProperties
        <4>2. text[1] \in NameChars /\ text[1] \in Quotes
          BY <2>1, <4>1, ElementOfSeq
        <4>. QED BY <4>2 DEF PlainFiles
      <3>. QED BY <3>1
    <2>4. text = <<>>
      BY <2>1, <2>3, EmptySeq
    <2>. QED BY <2>2, <2>4 DEF full
  <1>6. Rising(w \o append) <=> Rising(w)
    BY <1>4, <1>5, RisingStays
  <1>7. b \in Seq(AnyChar) /\ w \in Seq(AnyChar) /\ append \in Seq(AnyChar)
    BY <1>4, StartIs, AnyIs
  <1>8. Start(Rising(v)) = b
    <2>1. Rising(v) <=> Rising(w)
      BY <1>4, <1>6
    <2>. QED BY <2>1 DEF Start
  <1> HIDE DEF b
  <1>9. v \in Line
    BY <1>4, LineJoined
  <1>10. CouldName(line) = Ahead(Spells(b \o w))
    BY <1>4, MeantIs DEF w, b, word
  <1>11. CouldName(more) = Ahead(Spells(b \o v))
    BY <1>8, <1>9, MeantIs DEF v
  <1>12. Spells(b \o v) = Spells(full \o append)
    <2> DEFINE s == b \o w
    <2>1. s \in Seq(AnyChar)
      BY <1>7, ConcatProperties
    <2> DEFINE e == append
    <2>5. b \in Seq(AnyChar) /\ w \in Seq(AnyChar) /\ e \in Seq(AnyChar)
      BY <1>7
    <2> HIDE DEF e
    <2>6. Regroups(b, w, e)
      BY <2>5, Regrouped
    <2>2. s \o append = b \o (w \o append)
      BY <2>6 DEF e, Regroups
    <2>3. Spells(s) = Spells(full)
      BY <1>3
    <2> HIDE DEF s
    <2>4. Spells(s \o append) = Spells(full \o append)
      BY <1>3, <1>7, <2>1, <2>3, SpellAlike
    <2>. QED BY <1>4, <2>2, <2>4
  <1>. QED BY <1>3, <1>10, <1>11, <1>12 DEF more, full

-----------------------------------------------------------------------------
(* What TAB keeps of files.                                                *)

\* The files that a line could be completed to stay, through the resolution of
\* the directory, the choice among its entries, and what is added of them.
LEMMA DirsKeep ==
  ASSUME Rooted, PlainFiles, NEW line \in Line, Contains(line, Space)
  PROVE  CouldName(line \o CompleteDirs(Cwd, line).append) = CouldName(line)
  <1> DEFINE append == CompleteDirs(Cwd, line).append
             full   == Full(line)
             none   == <<>>
  <1>1. append \in Line
    BY DirsAdd DEF Adds
  <1>2. CASE append = none
    <2>1. line \o append = line
      BY <1>2, ConcatEmptySeq
    <2>. QED BY <2>1
  <1>3. CASE append # none
    <2>1. PICK dir \in Line, part \in Line :
            /\ full = dir \o Slash \o part
            /\ dir # <<>> /\ Head(dir) = "/" /\ \A i \in 1..Len(part) : part[i] # "/"
            /\ Searched(dir) \in Dirs
            /\ Chosen(dir, part, Listing[Searched(dir)], append)
      BY <1>3, DirsAre
    <2> DEFINE d == Searched(dir)
    <2>2. Len(append) # 0
      BY <1>1, <1>3, EmptySeq
    <2> HIDE DEF append
    <2>3. /\ part \in Seq(NameChars) /\ append \in Seq(Addable)
          /\ part = <<>> => append[1] \in NameChars
      BY <1>3, <2>1, ChosenIs
    <2>4. \A i \in 1..Len(append) : append[i] # Space
      <3>1. \A i \in 1..Len(append) : append[i] \in Addable
        BY <2>3, ElementOfSeq
      <3>2. Space \notin Addable
        <4>1. Space # "/" /\ Space # DoubleQuote
          BY Zenon DEF Space, DoubleQuote
        <4>. QED BY <4>1, Zenon DEF PlainFiles, Addable
      <3>. QED BY <3>1, <3>2
    <2>5. Read(full).dir = Realpath(dir) /\ Read(full).name = part
      BY <2>1, ReadPart
    <2> HIDE DEF full, d
    <2>6. /\ full \in Seq(AnyChar)
          /\ CouldName(line) = Ahead(Spells(full))
          /\ CouldName(line \o append) = Ahead(Spells(full \o append))
      BY <1>1, <2>2, <2>3, <2>4, <2>5, CouldNameMore DEF full
    <2>7. append \in Seq(AnyChar)
      BY <1>1, AnyIs
    <2>8. Ahead(Spells(full \o append)) \subseteq Ahead(Spells(full))
      BY <2>6, <2>7, Shrinks
    <2>9. ASSUME NEW f \in Ahead(Spells(full))
          PROVE  f \in Ahead(Spells(full \o append))
      <3>1. ~Spoilt(Read(full))
        <4>1. Realpath(dir) # NoPath
          <5>1. NoPath \notin Dirs
            BY NoPathIs DEF Paths
          <5>2. Realpath(dir) = NoPath => Searched(dir) = NoPath
            BY DEF Searched
          <5>. QED BY <2>1, <5>1, <5>2
        <4>2. Range(part) \cap Quotes = {}
          <5>1. Range(part) \subseteq NameChars
            BY <2>3, ElementOfSeq, LenProperties DEF Range
          <5>. QED BY <5>1 DEF PlainFiles
        <4>. QED BY <2>5, <4>1, <4>2 DEF Spoilt
      <3>2. Spells(full).dir = Realpath(dir) /\ Spells(full).name = part
        BY <2>5, <2>6, <3>1, Parallel
      <3>3. InRoot(Spells(full).dir)
        <4>1. PICK more \in Line : full = Root \o Slash \o more
          BY LastWordIn, TypedIn, BelowIs DEF full, Full
        <4>2. more \in Seq(AnyChar)
          BY AnyIs
        <4>. QED BY <4>1, <4>2, RootBelow
      <3>4. d = Realpath(dir)
        BY <3>2, <3>3 DEF d, Searched
      <3>5. /\ d \in Dirs /\ Chosen(dir, part, Listing[d], append)
            /\ dir # <<>> /\ Head(dir) = "/"
        BY <2>1 DEF d
      <3>. QED BY <2>6, <3>2, <3>4, <3>5, ChosenFollows
    <2>10. Ahead(Spells(full \o append)) = Ahead(Spells(full))
      <3> DEFINE A == Ahead(Spells(full))
                 B == Ahead(Spells(full \o append))
      <3>1. B \subseteq A /\ \A f \in A : f \in B
        BY <2>8, <2>9
      <3> HIDE DEF A, B
      <3>2. B = A
        BY <3>1
      <3>. QED BY <3>2 DEF A, B
    <2>11. CouldName(line \o append) = CouldName(line)
      BY <2>6, <2>10, Zenon
    <2>. QED BY <2>11 DEF append
  <1>. QED BY <1>2, <1>3

\* A TAB that completes a path keeps the files.
LEMMA FilesStay ==
  ASSUME Rooted, PlainFiles, IInv, Type(<<"\t">>), stray' = "no"
  PROVE  FilesKept
  <1> DEFINE next == [buf |-> buf', cmd |-> cmd', replaced |-> replaced']
  <1> SUFFICES ASSUME TabFunction(cmd') = "dirs", Contains(buf, Space)
               PROVE  CouldName(buf') = CouldName(buf)
    BY DEF FilesKept
  <1>1. buf \in Line /\ Tabbed(buf, next)
    BY TabStep
  <1>2. next.buf = buf' /\ next.cmd = cmd'
    OBVIOUS
  <1> HIDE DEF next
  <1>3. CASE buf' = buf
    BY <1>3
  <1>4. CASE buf' = buf \o CompleteCommands(buf).append
    BY <1>1, <1>4, CommandsLeft
  <1>5. CASE buf' = buf \o CompleteDirs(Cwd, buf).append
    BY <1>1, <1>5, DirsKeep
  <1>. QED BY <1>1, <1>2, <1>3, <1>4, <1>5 DEF Tabbed

\* TAB keeps the commands and the files a line could mean, for every table of
\* commands and every file system whose names hold no space and no quote, when
\* config->root is an absolute path without dots to one of its directories.
THEOREM Completing ==
  ASSUME Rooted, PlainFiles
  PROVE  Spec => CompletionKeeps
  <1> DEFINE AnswerKept == buf' # buf /\ stray' = "no" /\ Type(<<"\t">>) => CommandsKept /\ FilesKept
  <1>1. Init => IInv
    BY Initial
  <1>2. IInv /\ [Next]_vars => IInv'
    BY Inductive
  <1>3. IInv => [AnswerKept]_vars
    BY MatchingStays, FilesStay
  <1>. QED BY <1>1, <1>2, <1>3, PTL DEF Spec, CompletionKeeps
=============================================================================
