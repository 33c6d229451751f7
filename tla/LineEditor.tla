----------------------------- MODULE LineEditor -----------------------------
(***************************************************************************)
(* The line editor of one client session: client_request up to the call of *)
(* mp_process_command, the command history, the history search, and TAB    *)
(* completion with the command that is cached for it.                      *)
(*                                                                         *)
(* One step is one call of client_request: what recv() returned is handled *)
(* byte by byte, with l, the length the line had at the start.  A byte is  *)
(* the character, or the name of the key that sends it; an arrow key sends *)
(* three.  shown is what the client's terminal shows after the prompt, as  *)
(* the echoes leave it.  Failing sends are left out.  An index outside the *)
(* history, or a NULL in place of the text to complete, makes the editor   *)
(* stray: nothing is said of what it does then.                            *)
(***************************************************************************)
EXTENDS Files

CONSTANTS
  Letters,      \* characters that stand for themselves, other than the space
  Digits,       \* the digits typed in the search mode, as numbers
  Commands,     \* command_list: the names, and what TAB completes after each
  Cwd,          \* clients[idx].cwd, which no key changes
  Sessions,     \* ids of the instances there are
  Online,       \* the number of clients there are
  Packets,      \* what one recv() may return
  HistorySize,  \* HISTORY_SIZE
  LineSize,     \* MAX_COMMAND_LENGTH
  MaxCount      \* bound: the commands that are added to the history

Names == {Commands[i].name : i \in DOMAIN Commands}
\* What telnet sends of its own: IAC is 255, and WILL a byte of at least 240.
Telnet == {"IAC", "WILL"}
Chars  == Letters \cup Quotes \cup Telnet \cup {Space, "/", "[", "A", "B", "\n"}
Bytes  == Chars \cup {"?", "\r", "\t", "^C", "DEL", "ESC", "^R"}

\* No two commands, and no two entries of a directory, have the same name.
ASSUME LineEditorAssumption ==
  /\ Commands \in Seq([name: Seq(Letters),
                       tab: {"dirs", "instances", "clients", "commands", "none"}])
  /\ Commands # <<>>
  /\ \A i, j \in DOMAIN Commands : Commands[i].name = Commands[j].name => i = j
  /\ \A dir \in Dirs : /\ Listing[dir] \in Seq(Seq(Chars))
                       /\ \A i, j \in DOMAIN Listing[dir] :
                            Listing[dir][i] = Listing[dir][j] => i = j
  /\ Root \in Seq(Chars) /\ Cwd \in Seq(Chars)
  /\ Space \notin Letters /\ "NUL" \notin Letters
  /\ Sessions \in Seq(Letters) /\ Online \in Nat \ {0}
  /\ Packets \subseteq Seq(Bytes) \ {<<>>}
  /\ HistorySize \in Nat \ {0} /\ LineSize \in Nat /\ MaxCount \in Nat
  /\ Digits \subseteq Nat

VARIABLES
  buf,       \* the line being edited
  shown,     \* the line as the client's terminal shows it
  mode,      \* CL_NORMAL_MODE or CL_HISTORY_MODE
  sought,    \* hbuf, as a number
  ring,      \* history.commands
  count,     \* history.count
  position,  \* history.position
  cmd,       \* clients[idx].cmd, cached for TAB; 0 is none
  replaced,  \* the line has been replaced since cmd was set
  stray      \* which code left its arrays or texts, if any

vars == <<buf, shown, mode, sought, ring, count, position, cmd, replaced, stray>>

TypeOK ==
  /\ buf \in Seq(Chars) /\ shown \in Seq(Chars)
  /\ mode \in {"normal", "history"}
  /\ sought \in Nat
  /\ ring \in [0..(HistorySize - 1) -> Seq(Chars)]
  /\ count \in 0..MaxCount
  /\ position \in 0..count
  /\ cmd \in 0..Len(Commands) /\ replaced \in BOOLEAN
  /\ stray \in {"no", "arrow", "search", "tab"}

Init ==
  /\ buf = <<>> /\ shown = <<>>
  /\ mode = "normal" /\ sought = 0
  /\ ring = [i \in 0..(HistorySize - 1) |-> <<>>]
  /\ count = 0 /\ position = 0
  /\ cmd = 0 /\ replaced = FALSE
  /\ stray = "no"

-----------------------------------------------------------------------------
(* The command a line starts with.                                         *)

Prefix(s, n) == SubSeq(s, 1, n)

FirstWord(line) ==
  Prefix(line, IF Contains(line, Space) THEN SelectInSeq(line, LAMBDA b : b = Space) - 1
               ELSE Len(line))
Matching(line) == {n \in Names : line # <<>> /\ IsPrefix(FirstWord(line), n)}

\* get_command_id: the first command that starts so; for no text, the first.
CommandId(word) ==
  IF word = <<>> THEN 1 ELSE SelectInSeq(Commands, LAMBDA c : IsPrefix(word, c.name))

SetCmd(ed, id) == [ed EXCEPT !.cmd = id, !.replaced = FALSE]

\* A space caches the command, if none is.
CacheCommand(ed) ==
  IF ed.cmd = 0 /\ Contains(ed.buf, Space) THEN SetCmd(ed, CommandId(FirstWord(ed.buf))) ELSE ed

-----------------------------------------------------------------------------
(* TAB: tab_complete and the functions of command_list.                    *)

CompleteCommands(line) ==
  LET names == [i \in DOMAIN Commands |-> Commands[i].name]
      found == IF line = <<>> THEN <<>> ELSE Candidates(line, names)
  IN  [matches |-> Len(found),
       append  |-> CASE Len(found) = 0 -> <<>>
                     [] Len(found) = 1 -> SubSeq(found[1], Len(line) + 1, Len(found[1])) \o <<Space>>
                     [] OTHER          -> GetUnique(found, Len(line))]

\* What was typed of the id is not looked at.
CompleteInstances ==
  [matches |-> Len(Sessions),
   append  |-> IF Len(Sessions) = 1 THEN Sessions \o <<Space>> ELSE <<>>]

CompleteClients == [matches |-> Online, append |-> <<>>]

\* The one match is added; for several, what they share is, and they are listed
\* and the line is shown again.
Complete(ed, found) ==
  LET line == ed.buf \o found.append
  IN  [ed EXCEPT !.buf = line,
                 !.shown = CASE found.matches = 0 -> @
                             [] found.matches = 1 -> @ \o found.append
                             [] OTHER             -> line]

TabFunction(id) == IF id = 0 THEN "commands" ELSE Commands[id].tab

TabCommands(ed) ==
  LET found == CompleteCommands(ed.buf)
      done  == Complete(ed, found)
  IN  IF found.matches = 1 THEN SetCmd(done, CommandId(Front(done.buf))) ELSE done

\* strrchr finds no space, and its NULL is dereferenced, when the command was
\* cached for another line.
TabDirs(ed) ==
  IF Contains(ed.buf, Space) THEN Complete(ed, CompleteDirs(Cwd, ed.buf))
  ELSE [ed EXCEPT !.stray = "tab"]

Tab(ed) ==
  LET cached == CacheCommand(IF ed.l = 0 THEN SetCmd(ed, 0) ELSE ed)
  IN  CASE TabFunction(cached.cmd) = "commands"  -> TabCommands(cached)
        [] TabFunction(cached.cmd) = "dirs"      -> TabDirs(cached)
        [] TabFunction(cached.cmd) = "instances" -> Complete(cached, CompleteInstances)
        [] TabFunction(cached.cmd) = "clients"   -> Complete(cached, CompleteClients)
        [] TabFunction(cached.cmd) = "none"      -> cached

-----------------------------------------------------------------------------
(* One byte, in the normal mode.  ed is the state of the loop: l, the bytes *)
(* still to skip, and whether the rest is ignored, by telnet or by a return *)

Erase(s, n) == Prefix(s, IF n > Len(s) THEN 0 ELSE Len(s) - n)

\* The line is replaced, on the terminal and in the buffer.
Replace(ed, line) ==
  [ed EXCEPT !.shown = Erase(@, Len(ed.buf)) \o line, !.buf = line, !.replaced = ed.cmd # 0]

Recall(ed, p) ==
  IF p \in DOMAIN ring THEN [Replace(ed, ring[p]) EXCEPT !.position = p]
  ELSE [ed EXCEPT !.position = p, !.stray = "arrow"]

\* Mutant of Up: the first position is not tested for.
UpUnguarded(ed) ==
  IF count > 0 THEN Recall(ed, ed.position - 1) ELSE ed

Up(ed) ==
  IF ed.position > 0 /\ count > 0 THEN Recall(ed, ed.position - 1) ELSE ed

\* Mutant of Down: the last position passes the test.
DownPastEnd(ed) ==
  IF ed.position >= count THEN ed
  ELSE IF ed.position + 2 = count
       THEN [Replace(ed, <<>>) EXCEPT !.position = @ + 1]
       ELSE Recall(ed, ed.position + 1)

Down(ed) ==
  IF ed.position >= count - 1 THEN ed
  ELSE IF ed.position + 2 = count
       THEN [Replace(ed, <<>>) EXCEPT !.position = @ + 1]
       ELSE Recall(ed, ed.position + 1)

\* The two bytes after an escape, if both are in the packet.
After(packet, i) == IF i + 2 \in DOMAIN packet THEN SubSeq(packet, i + 1, i + 2) ELSE <<>>

\* An escape in a short packet is dropped; otherwise three more bytes are
\* skipped, whatever they are.
Escape(ed, packet, i) ==
  IF Len(packet) <= 2 THEN ed
  ELSE [(CASE After(packet, i) = <<"[", "A">> -> Up(ed)
           [] After(packet, i) = <<"[", "B">> -> Down(ed)
           [] OTHER -> ed) EXCEPT !.skip = 3]

\* l counts down from the length at the start, so the line is cut there.
Cut(ed) ==
  [ed EXCEPT !.l = @ - 1, !.shown = Erase(@, 1),
             !.buf = IF Len(@) > ed.l - 1 THEN Prefix(@, ed.l - 1) ELSE @]

\* Mutant of Backspace: the command stays cached.
BackspaceKeepsCmd(ed) ==
  IF ed.l = 0 THEN ed ELSE Cut(ed)

Backspace(ed) ==
  IF ed.l = 0 THEN ed ELSE SetCmd(Cut(ed), 0)

Echo(ed, b) == [ed EXCEPT !.buf = Append(@, b), !.shown = Append(@, b)]

Interrupt(ed) ==
  SetCmd([ed EXCEPT !.buf = <<>>, !.shown = <<>>, !.l = 0, !.position = count], 0)

\* The last byte of a packet is never taken for telnet's.
Key(ed, packet, i) ==
  LET b == packet[i]
  IN  CASE b = "IAC" /\ i < Len(packet) /\ packet[i + 1] \in Telnet -> [ed EXCEPT !.stop = TRUE]
        [] b = "\r"  -> SetCmd([ed EXCEPT !.stop = TRUE, !.enter = TRUE], 0)
        [] b = Space -> CacheCommand(Echo(ed, b))
        [] b = "^C"  -> Interrupt(ed)
        [] b = "DEL" -> Backspace(ed)
        [] b = "ESC" -> Escape(ed, packet, i)
        [] b = "^R"  -> [ed EXCEPT !.mode = "history", !.sought = 0]
        [] b = "?"   -> [ed EXCEPT !.shown = ed.buf]
        [] b = "\t"  -> Tab(ed)
        [] OTHER     -> Echo(ed, b)

Byte(ed, packet, i) ==
  IF ed.stop \/ ed.stray # "no" THEN ed
  ELSE IF ed.skip > 0 THEN [ed EXCEPT !.skip = @ - 1]
  ELSE Key(ed, packet, i)

Started ==
  [buf |-> buf, shown |-> shown, mode |-> mode, sought |-> sought, position |-> position,
   cmd |-> cmd, replaced |-> replaced, stray |-> stray,
   l |-> Len(buf), skip |-> 0, stop |-> FALSE, enter |-> FALSE]

Edited(packet) ==
  LET edit[i \in 0..Len(packet)] == IF i = 0 THEN Started ELSE Byte(edit[i - 1], packet, i)
  IN  edit[Len(packet)]

-----------------------------------------------------------------------------
(* The end of the line: the command is completed, recorded and processed.  *)

Completed(line) ==
  (CHOOSE n \in Matching(line) : TRUE) \o SubSeq(line, Len(FirstWord(line)) + 1, Len(line))

\* The position becomes that of the command just recorded.
AddHistory(line) ==
  /\ ring' = [ring EXCEPT ![count % HistorySize] = line]
  /\ position' = count % HistorySize
  /\ count' = count + 1

\* One command matches: it is recorded and processed.  Otherwise the client
\* is told; a line that starts with a LF stays.  Either way a new prompt is shown.
Enter(ed) ==
  /\ IF \E n \in Names : Matching(ed.buf) = {n}
     THEN count < MaxCount /\ AddHistory(Completed(ed.buf))
     ELSE position' = ed.position /\ UNCHANGED <<ring, count>>
  /\ buf' = IF ed.buf # <<>> /\ Head(ed.buf) = "\n" THEN ed.buf ELSE <<>>
  /\ shown' = <<>>

Keep(ed) ==
  /\ buf' = ed.buf /\ shown' = ed.shown /\ position' = ed.position
  /\ UNCHANGED <<ring, count>>

-----------------------------------------------------------------------------
(* client_request.                                                         *)

Room(packet) == Len(buf) + Len(packet) < LineSize

Type(packet) ==
  /\ stray = "no" /\ mode = "normal"
  /\ Room(packet)
  /\ \E ed \in {Edited(packet)} :
       /\ IF ed.enter /\ ed.stray = "no" THEN Enter(ed) ELSE Keep(ed)
       /\ mode' = ed.mode /\ sought' = ed.sought /\ stray' = ed.stray
       /\ cmd' = ed.cmd /\ replaced' = ed.replaced

\* The line is dropped when the packet does not fit.
NoRoom(packet) ==
  /\ stray = "no" /\ mode = "normal"
  /\ ~Room(packet)
  /\ buf' = <<>> /\ shown' = <<>>
  /\ replaced' = (cmd # 0)
  /\ UNCHANGED <<mode, sought, ring, count, position, cmd, stray>>

\* client_history_search: digits are collected, up to HISTORY_SIZE of them.
SearchDigit(d) ==
  /\ stray = "no" /\ mode = "history"
  /\ sought' = IF 10 * sought + d > HistorySize THEN HistorySize + 1 ELSE 10 * sought + d
  /\ UNCHANGED <<buf, shown, mode, ring, count, position, cmd, replaced, stray>>

\* Mutant of SearchEnd: the command found is shown and not added to the line.
SearchEndShows ==
  /\ stray = "no" /\ mode = "history"
  /\ mode' = "normal"
  /\ shown' = IF sought \in DOMAIN ring THEN ring[sought] ELSE <<>>
  /\ UNCHANGED <<buf, sought, ring, count, position, cmd, replaced, stray>>

\* At the return the command with that index is shown on a new prompt, and
\* added to the line, which still holds what was typed before the search.
SearchEnd ==
  /\ stray = "no" /\ mode = "history"
  /\ mode' = "normal"
  /\ \/ /\ sought \in DOMAIN ring
        /\ shown' = ring[sought] /\ buf' = buf \o ring[sought]
        /\ UNCHANGED stray
     \/ /\ sought = HistorySize
        /\ stray' = "search"
        /\ UNCHANGED <<buf, shown>>
     \/ /\ sought > HistorySize
        /\ shown' = <<>>
        /\ UNCHANGED <<buf, stray>>
  /\ UNCHANGED <<sought, ring, count, position, cmd, replaced>>

Strayed == stray # "no" /\ UNCHANGED vars

Next ==
  \/ \E packet \in Packets : Type(packet) \/ NoRoom(packet)
  \/ \E d \in Digits : SearchDigit(d)
  \/ SearchEnd
  \/ Strayed

Spec == Init /\ [][Next]_vars

-----------------------------------------------------------------------------

\* What the terminal shows is the end of the line that a return will run,
\* when keys arrive one at a time and pasted text holds no control keys: the
\* echoes and the buffer agree through editing, recalls and searches.
ShowsTheLine ==
  stray = "no" /\ mode = "normal" => IsSuffix(shown, buf)

\* As long as the history is not full, the arrow keys stay inside it, although
\* add_history and ^C leave the position at different places.
ArrowsStayInside ==
  stray = "arrow" => count > HistorySize

\* The command TAB completes for is that of the line's first word, although it
\* was looked up when the first space came, unless an arrow key or a full buffer
\* has replaced the line since; only then can TAB meet a line without a space.
CachedCommandFits ==
  /\ cmd # 0 /\ ~replaced => Contains(buf, Space) /\ cmd = CommandId(FirstWord(buf))
  /\ stray = "tab" => replaced

\* What a path spells, without its quotes: the names that a slash ends, and the
\* one it ends in.
Spell(at, c) ==
  CASE c \in Quotes -> at
    [] c = "/"      -> [dir  |-> IF at.name = <<>> THEN at.dir ELSE Append(at.dir, at.name),
                        name |-> <<>>]
    [] OTHER        -> [at EXCEPT !.name = Append(@, c)]

Spells(text) ==
  LET at[n \in 0..Len(text)] ==
        IF n = 0 THEN [dir |-> <<>>, name |-> <<>>] ELSE Spell(at[n - 1], text[n])
  IN  at[Len(text)]

\* The regular files a line could still be completed to, its last word being a
\* path without dots.
CouldName(line) ==
  LET word     == Tail(LastWord(line))
      absolute == \E i \in DOMAIN word : word[i] = "/" /\ Range(SubSeq(word, 1, i - 1)) \subseteq Quotes
      meant    == Spells((IF absolute THEN Root ELSE Root \o Slash \o Cwd) \o Slash \o word)
  IN  {f \in Regular : /\ IsStrictPrefix(meant.dir, f)
                       /\ IsPrefix(meant.name, f[Len(meant.dir) + 1])}

\* What a completion leaves: the commands that the line could mean, and the files.
\* The id of the one instance is added to any line, and where the command cached
\* is that of a line that was replaced, to its first word.
CommandsKept ==
  ~(replaced' /\ TabFunction(cmd') = "instances") => Matching(buf') = Matching(buf)
FilesKept ==
  TabFunction(cmd') = "dirs" /\ Contains(buf, Space) => CouldName(buf') = CouldName(buf)

\* TAB never completes a line away from a command or a file it could have named,
\* through ll_add_sort, get_unique and the resolution of the path.
CompletionKeeps ==
  [][buf' # buf /\ stray' = "no" /\ Type(<<"\t">>) => CommandsKept /\ FilesKept]_vars
=============================================================================
