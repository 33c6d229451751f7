---------------------------- MODULE CommandLine ----------------------------
(***************************************************************************)
(* A command's way from a client to its handler: the client sends a line   *)
(* and waits for the prompt, as pymplayerd does; TCP hands the bytes over  *)
(* in pieces of any size; client_request gathers them in the session's     *)
(* buffer; mp_process_command splits the line into arguments, guesses      *)
(* whether the first is an instance, and runs the handler.                 *)
(*                                                                         *)
(* mem is all of clients[idx].buf: a line ends at its first NUL, but what  *)
(* earlier lines left after it stays.  A "character" stands for a run of   *)
(* characters the code treats alike: the name of a command, of a file, a   *)
(* digit.  Editing keys and abbreviations are LineEditor's, the player's   *)
(* work Playback's, the list of instances Instances'; the session's        *)
(* history search has not been used, so that hbuf is empty.                *)
(***************************************************************************)
EXTENDS Files

CONSTANTS
  Calls,      \* the lines clients send: words, and how they write them
  Instances,  \* ids of the instances there are
  LineSize,   \* MAX_COMMAND_LENGTH
  MaxCalls    \* bound: the lines that are sent

NUL  == "NUL"
CR   == "\r"
LF   == "\n"
Ends == <<CR, LF>>

\* What the client writes for a call: every word but the command in quotes, or
\* none, and a blank after the last word, or none.
Quoted(word) == <<DoubleQuote>> \o word \o <<DoubleQuote>>
Word(call, n) == IF call.quoted THEN Quoted(call.words[n]) ELSE call.words[n]
Trail(call)   == IF call.blank THEN <<Space>> ELSE <<>>
Line(call) ==
  LET line[n \in 1..Len(call.words)] ==
        IF n = 1 THEN call.words[1] ELSE line[n - 1] \o <<Space>> \o Word(call, n)
  IN  line[Len(call.words)] \o Trail(call)

Chars   == {Space, DoubleQuote} \cup (UNION {UNION {Range(word) : word \in Range(c.words)} : c \in Calls})
Letters == Chars \cup Range(Ends)

ASSUME CommandLineAssumption ==
  /\ \A c \in Calls : /\ c \in [words : Seq(Seq(Chars)), quoted : BOOLEAN, blank : BOOLEAN]
                      /\ c.words # <<>>
  /\ NUL \notin Chars /\ CR \notin Chars
  /\ Instances \in SUBSET (Nat \ {0}) /\ 1 \in Instances
  /\ LineSize \in Nat \ {0} /\ MaxCalls \in Nat

\* What a line can say: there is no way to write a quote, and only a word in
\* quotes can be empty or have blanks.
Sendable(c) ==
  \A n \in 1..Len(c.words) :
    /\ DoubleQuote \notin Range(c.words[n])
    /\ n = 1 \/ ~c.quoted => c.words[n] # <<>> /\ Space \notin Range(c.words[n])

VARIABLES
  client,  \* "ready" to send, "waiting" for the prompt, or "closed"
  call,    \* the call it sent last
  sent,    \* the number of lines sent
  stream,  \* bytes on their way to the daemon
  upset,   \* a LF came at the start of a piece, or a piece did not fit
  mem,     \* clients[idx].buf
  cwd,     \* clients[idx].cwd
  done     \* the command that was processed last

vars == <<client, call, sent, stream, upset, mem, cwd, done>>

NoCall  == [words |-> <<>>, quoted |-> FALSE, blank |-> FALSE]
Nothing == [line |-> <<>>, args |-> <<>>, inst |-> 1, reply |-> "none", given |-> <<>>]

Replies == {"none", "ran", "refused", "invalid instance", "unknown", "quit", "fault"}

TypeOK ==
  /\ client \in {"ready", "waiting", "closed"}
  /\ call \in Calls \cup {NoCall}
  /\ sent \in 0..MaxCalls
  /\ stream \in Seq(Letters)
  /\ upset \in BOOLEAN
  /\ mem \in [0..(LineSize - 1) -> Letters \cup {NUL}] /\ NUL \in Range(mem)
  /\ cwd \in Seq(UNION {Range(Text(d)) : d \in Dirs})
  /\ DOMAIN done = DOMAIN Nothing /\ done.reply \in Replies /\ Len(done.args) <= 4

Init ==
  /\ client = "ready" /\ call = NoCall /\ sent = 0 /\ stream = <<>> /\ upset = FALSE
  /\ mem = [i \in 0..(LineSize - 1) |-> NUL]
  /\ cwd = Slash
  /\ done = Nothing

-----------------------------------------------------------------------------
(* Strings in the buffer.                                                  *)

\* The text from p up to q, and the first position from p that holds one of cs.
Cell(m, p)       == IF p \in DOMAIN m THEN m[p] ELSE NUL
Between(m, p, q) == [i \in 1..(q - p) |-> m[p + i - 1]]
Find(m, p, cs) ==
  CHOOSE q \in p..(LineSize + 1) :
    Cell(m, q) \in cs \cup {NUL} /\ \A r \in p..(q - 1) : Cell(m, r) \notin cs \cup {NUL}

Current(m)       == Between(m, 0, Find(m, 0, {}))

\* strcat, and buf[0] = '\0'.
Strcat(m, text) ==
  LET l == Len(Current(m))
  IN  [i \in DOMAIN m |-> CASE i \in l..(l + Len(text) - 1) -> text[i - l + 1]
                            [] i = l + Len(text)            -> NUL
                            [] OTHER                        -> m[i]]
Emptied(m) == [m EXCEPT ![0] = NUL]

-----------------------------------------------------------------------------
(* parse_arguments and strtol.                                             *)

\* Mutant of Passed: the text in quotes is read again as words.
PassedQuote(m, p) == p

\* Where a text in quotes that starts at p ends: at its second quote or at a NUL.
Passed(m, p) ==
  IF Cell(m, p) = DoubleQuote THEN Find(m, p + 1, {DoubleQuote}) ELSE p

Blanks(m, p) ==
  CHOOSE q \in p..LineSize : Cell(m, q) # Space /\ \A r \in p..(q - 1) : Cell(m, r) = Space

\* scan[p] is what the loop adds from p on.  It does not move over the words it
\* adds, and steps over the quote that ends a text, or the NUL in its place.
ParseArguments(m) ==
  LET first == Find(m, 0, {Space, DoubleQuote})
      scan[p \in 0..(LineSize + 2)] ==
        IF Cell(m, p) = NUL THEN <<>>
        ELSE LET start == Blanks(m, p)
                 stop  == Find(m, start, {Space, DoubleQuote})
                 end   == Passed(m, start)
             IN  (IF p < start /\ start < stop THEN <<Between(m, start, stop)>> ELSE <<>>)
                 \o (IF start < end THEN <<Between(m, start + 1, end)>> ELSE <<>>)
                 \o scan[end + 1]
      args == (IF first > 0 THEN <<Between(m, 0, first)>> ELSE <<>>) \o scan[first]
  IN  SubSeq(args, 1, IF Len(args) < 4 THEN Len(args) ELSE 4)

Digits == <<"0", "1", "2", "3", "4", "5", "6", "7", "8", "9">>

\* The decimal number text begins with, or 0.
Strtol(text) ==
  FoldLeft(LAMBDA a, c : IF a.on /\ c \in Range(Digits)
                         THEN [a EXCEPT !.n = 10 * @ + SelectInSeq(Digits, LAMBDA d : d = c) - 1]
                         ELSE [a EXCEPT !.on = FALSE],
           [n |-> 0, on |-> TRUE], text).n

-----------------------------------------------------------------------------
(* command_list.                                                           *)

Commands ==
  {"cd", "pwd", "ls", "version", "status", "quit", "shutdown", "help", "load", "pause",
   "fullscreen", "stop", "osd", "seek_percent", "seek_absolute", "seek_relative", "literal",
   "volume", "mute", "kill", "history", "reset", "qload", "clear", "instances", "new",
   "delete", "who", "arguments", "dvd", "length", "id3", "dirdump", "filedump"}

-----------------------------------------------------------------------------
(* The handlers: what they are given, once an instance was taken off the   *)
(* front of the arguments or not.  off is 1 or 0, and rest what is left.   *)

Ran(text)     == [reply |-> "ran", given |-> text, cwd |-> cwd]
Refused       == [reply |-> "refused", given |-> <<>>, cwd |-> cwd]
Optional(rest) == Ran(IF rest = <<>> THEN <<>> ELSE Head(rest))

\* Mutant of Required: the instance is counted as the argument.
RequiredUncounted(rest) ==
  IF rest = <<>> THEN [Refused EXCEPT !.reply = "fault"] ELSE Ran(Head(rest))

Required(rest) ==
  IF rest = <<>> THEN Refused ELSE Ran(Head(rest))

\* A relative or absolute directory; none means the root.
RunCd(rest) ==
  [Optional(rest) EXCEPT !.cwd = IF rest = <<>> THEN Slash ELSE Cd(cwd, Head(rest))]

RunLs(rest) ==
  Ran(FoldLeft(LAMBDA text, name : text \o Slash \o name, <<>>,
               Listed(IF rest = <<>> THEN CwdPath(cwd) ELSE LsPath(cwd, Head(rest)))))

\* The entry of that number, in the session's directory.
Numbered(n) ==
  LET entry == LoadDirEntry(CwdPath(cwd), n)
  IN  IF entry = NoEntry THEN Refused ELSE Ran(InCwd(cwd, entry))

RunQload(rest) == IF rest = <<>> THEN Refused ELSE Numbered(Strtol(Head(rest)))

\* A URL is given to the player as it is; a file that is not there as a number.
RunLoad(rest) ==
  LET url  == "://" \in Range(Head(rest))
      path == CheckPath(cwd, Head(rest))
  IN  CASE rest = <<>>                          -> Refused
        [] rest # <<>> /\ url                   -> Ran(Head(rest))
        [] rest # <<>> /\ ~url /\ path # NoPath -> Ran(Text(path))
        [] OTHER                                -> Numbered(Strtol(Head(rest)))

\* The title is the first argument, also where that was taken for an instance.
RunDvd(args) == Required(Tail(args))

\* The tags of a file, or the paths below a directory: opendir() fails on a file.
OnPath(cmd, path) ==
  CASE path = NoPath                        -> Refused
    [] cmd = "id3" /\ path # NoPath         -> Ran(Text(path))
    [] cmd = "dirdump" /\ path \in Dirs     -> Ran({Text(d) : d \in DirDump(path)})
    [] cmd = "filedump" /\ path \in Dirs    -> Ran({Text(f) : f \in FileDump(path)})
    [] OTHER                                -> Refused

\* The arguments are counted with the instance, and one that is not there is
\* dereferenced.
RunOnPath(cmd, args, rest) ==
  CASE Len(args) = 1                 -> Refused
    [] Len(args) > 1 /\ rest = <<>> -> [Refused EXCEPT !.reply = "fault"]
    [] OTHER                         -> OnPath(cmd, CheckPath(cwd, Head(rest)))

RunShutdown(rest) ==
  IF rest # <<>> /\ Head(rest) = <<"now">> THEN [Ran(Head(rest)) EXCEPT !.reply = "quit"]
  ELSE Refused

Handle(cmd, args, rest) ==
  CASE cmd = "cd"       -> RunCd(rest)
    [] cmd = "ls"       -> RunLs(rest)
    [] cmd = "load"     -> RunLoad(rest)
    [] cmd = "qload"    -> RunQload(rest)
    [] cmd = "dvd"      -> RunDvd(args)
    [] cmd = "shutdown" -> RunShutdown(rest)
    [] cmd = "quit"     -> [Ran(<<>>) EXCEPT !.reply = "quit"]
    [] cmd \in {"id3", "dirdump", "filedump"} -> RunOnPath(cmd, args, rest)
    [] cmd \in {"help", "arguments"}          -> Optional(rest)
    [] cmd \in {"osd", "seek_percent", "seek_absolute", "seek_relative", "literal",
                "volume", "kill"}             -> Required(rest)
    [] OTHER            -> Ran(<<>>)

\* Mutant of Rest: the instance is not taken off.
RestKeepsInstance(args, number) == Tail(args)

\* The arguments after the command and, if there is one, the instance.
Rest(args, number) ==
  SubSeq(args, IF number = 0 THEN 2 ELSE 3, Len(args))

\* A number other than 0 after the command is taken for the instance.
Process(m) ==
  LET args   == ParseArguments(m)
      number == IF Len(args) > 1 THEN Strtol(args[2]) ELSE 0
      inst   == IF number = 0 THEN 1 ELSE number
      result == IF inst \in Instances THEN Handle(Head(args)[1], args, Rest(args, number))
                ELSE [Refused EXCEPT !.reply = "invalid instance"]
  IN  [command |-> [line |-> Current(m), args |-> args, inst |-> inst,
                    reply |-> result.reply, given |-> result.given],
       cwd     |-> result.cwd]

-----------------------------------------------------------------------------
(* client_request, for a line without editing keys.                        *)

FirstWord(line) ==
  SubSeq(line, 1, IF Space \in Range(line) THEN SelectInSeq(line, LAMBDA c : c = Space) - 1
                  ELSE Len(line))

\* A command that is unknown is told so and dropped, unless it starts with a LF.
Return(m) ==
  IF FirstWord(Current(m)) \in {<<c>> : c \in Commands}
  THEN \E result \in {Process(m)} :
         /\ done' = result.command
         /\ cwd' = result.cwd
         /\ mem' = Emptied(m)
         /\ client' = IF result.command.reply \in {"quit", "fault"} THEN "closed" ELSE "ready"
  ELSE /\ done' = [Nothing EXCEPT !.line = Current(m), !.reply = "unknown"]
       /\ mem' = IF Cell(m, 0) = LF THEN m ELSE Emptied(m)
       /\ client' = "ready"
       /\ UNCHANGED cwd

\* Mutant of Received: the bytes after the return are kept.
ReceivedAll(piece) == SelectSeq(piece, LAMBDA b : b # CR)

\* The bytes of a piece that are added to the line: what follows a return is lost.
Received(piece) ==
  SubSeq(piece, 1, IF CR \in Range(piece) THEN SelectInSeq(piece, LAMBDA b : b = CR) - 1
                   ELSE Len(piece))

\* Mutant of Fits: the NUL is forgotten.
FitsExactly(piece) ==
  Len(Current(mem)) + Len(piece) <= LineSize

Fits(piece) ==
  Len(Current(mem)) + Len(piece) < LineSize

\* recv() returns n bytes.
Consume(n) ==
  /\ client # "closed"
  /\ stream' = SubSeq(stream, n + 1, Len(stream))

Recv(n) ==
  /\ Consume(n)
  /\ \E piece \in {SubSeq(stream, 1, n)} : \E m \in {Strcat(mem, Received(piece))} :
       /\ Fits(piece)
       /\ upset' = (upset \/ Head(piece) = LF)
       /\ IF CR \in Range(piece) THEN Return(m)
          ELSE mem' = m /\ UNCHANGED <<client, cwd, done>>
  /\ UNCHANGED <<call, sent>>

\* Mutant of RecvNoRoom: no prompt is sent.
RecvNoRoomSilent(n) ==
  /\ Consume(n)
  /\ ~Fits(SubSeq(stream, 1, n))
  /\ upset' = TRUE
  /\ mem' = Emptied(mem)
  /\ UNCHANGED <<client, call, sent, cwd, done>>

\* The line is dropped, the piece with it, and a prompt is sent.
RecvNoRoom(n) ==
  /\ Consume(n)
  /\ ~Fits(SubSeq(stream, 1, n))
  /\ upset' = TRUE
  /\ mem' = Emptied(mem)
  /\ done' = [Nothing EXCEPT !.reply = "refused"]
  /\ client' = "ready"
  /\ UNCHANGED <<call, sent, cwd>>

\* command() of pymplayerd: the line is written, then the prompt read.
Send(c) ==
  /\ client = "ready"
  /\ sent < MaxCalls /\ sent' = sent + 1
  /\ client' = "waiting"
  /\ call' = c
  /\ stream' = stream \o Line(c) \o Ends
  /\ UNCHANGED <<upset, mem, cwd, done>>

Over == (client = "closed" \/ sent = MaxCalls) /\ UNCHANGED vars

Next ==
  \/ \E c \in Calls : Send(c)
  \/ \E n \in 1..Len(stream) : Recv(n) \/ RecvNoRoom(n)
  \/ Over

Spec == Init /\ [][Next]_vars

\* The session's thread goes on reading, and handles what it reads: a step that
\* consumes bytes is one of Recv or RecvNoRoom.  Clients may stop sending.
FairSpec == Spec /\ WF_stream(\E n \in 1..Len(stream) : Consume(n))

-----------------------------------------------------------------------------
(* Properties.                                                             *)

\* The client has been answered, and no piece of what it sent began with a LF
\* or found the buffer full: the cases client_request does not recover from.
Answered == client # "waiting" /\ call # NoCall /\ ~upset

\* However TCP cuts a line, client_request runs it once, whole, and before it
\* prompts for the next, as long as no piece starts with the LF of a line: the
\* bytes it leaves unread after a return belong to no other line.
RunsWhatIsSent == Answered => done.line = Line(call)

\* parse_arguments finds the words that were sent, at most four of them, in
\* quotes or not, whatever earlier lines left in the buffer, unless a quote is
\* among them; a line that ends in a blank can get more from there, but never
\* fewer or others.
ArgumentsAreTheWords ==
  Answered /\ Sendable(call) /\ done.reply # "unknown" =>
    LET words == SubSeq(call.words, 1, IF Len(call.words) < 4 THEN Len(call.words) ELSE 4)
    IN  /\ IsPrefix(words, done.args)
        /\ ~call.blank => done.args = words

\* mp_process_command tells an instance from an argument when both are given,
\* or when the argument is not a number: the handler is given what was meant.
Takers == {"osd", "seek_percent", "seek_absolute", "seek_relative", "literal", "volume",
           "kill", "help", "arguments"}
ArgumentReachesHandler ==
  Answered /\ Sendable(call) /\ ~call.blank /\ done.reply # "unknown" =>
    LET w     == call.words
        plain == Len(w) = 2 /\ Strtol(w[2]) = 0
        named == Len(w) = 3 /\ Strtol(w[2]) \in Instances
    IN  w[1][1] \in Takers /\ (plain \/ named) =>
          done.given = Last(w) /\ done.inst = (IF named THEN Strtol(w[2]) ELSE 1)

\* The daemon dies of a command only for an id3, dirdump or filedump whose one
\* argument is taken for an instance, also when bytes left in the buffer make
\* up that argument.
FaultsOnlyWithoutPath ==
  done.reply = "fault" =>
    /\ done.args[1][1] \in {"id3", "dirdump", "filedump"}
    /\ Len(done.args) = 2 /\ done.inst \in Instances

\* The session's directory is one below config->root, and pwd prints the path
\* that leads there again, through cd with .. and with absolute paths.  Where
\* CMD_CD lets a directory pass whose name continues that of the root, cwd does
\* not start with a slash.
CwdIsEntered ==
  Head(cwd) = "/" => /\ CwdPath(cwd) \in Dirs /\ InRoot(CwdPath(cwd))
                     /\ Cd(Slash, cwd) = cwd

\* The number that ls prints before an entry is the one under which qload and
\* load find it: load_dir and load_dir_entry count alike.
NumbersAgree ==
  CwdPath(cwd) \in Dirs =>
    \A n \in DOMAIN Listed(CwdPath(cwd)) :
      LoadDirEntry(CwdPath(cwd), n) = Listed(CwdPath(cwd))[n]

\* A client that sends a line gets a prompt, whatever happens to the line, or
\* the session ends.
PromptComes == (client = "waiting") ~> (client # "waiting")
=============================================================================
