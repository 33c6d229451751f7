------------------------------ MODULE Playback ------------------------------
(***************************************************************************)
(* The playback engine of mplayerd: the mplayer instances, the client      *)
(* threads that run playback commands on them, the load thread started by  *)
(* each accepted load, the mplayer process that thread forks, and the      *)
(* message thread that reads what the players print.                       *)
(*                                                                         *)
(* Threads are program counters; a step is one access to shared memory or  *)
(* one system call.  One step each: the test of both descriptors           *)
(* (CommandCheck), a command's first test of the status (Issue), a lock    *)
(* and what follows it at once (VolumeLock, LoadLock, MsgLock, LoadMark).  *)
(* Client threads hold no lock while they use an instance: the lock calls  *)
(* around every playback command but volume are commented out in           *)
(* mp_process_command.  get_instance is taken to find the instance (its    *)
(* races are in Instances), a closed descriptor number not to be reused,   *)
(* and the text of a command to be one of three: pause, quit, another.     *)
(*                                                                         *)
(* A stream stands for what one accepted load creates: a load thread, the  *)
(* command pipe fdin, the output pipe fdout and one mplayer process.  The  *)
(* mplayer process is external to the repository.                          *)
(***************************************************************************)
EXTENDS Naturals, Sequences, FiniteSets

CONSTANTS
  Clients,       \* client threads, one per connection slot
  Streams,       \* identities for accepted loads; bounds their number
  NumInstances,  \* instances in mp_instances, with ids 1..NumInstances
  Commands,      \* kinds of playback command the clients may issue
  Events,        \* what the environment may do: system calls of the load
                 \* thread that fail, players that print or are killed
  PipeSize,      \* lines a pipe holds before its writer blocks
  MsgThread,     \* the message thread, as the owner of a mutex
  Nobody,        \* the owner of a free mutex
  NoFd           \* the value 0 of readfd and writefd

Instances == 1..NumInstances
Threads   == Clients \cup Streams \cup {MsgThread}

AllCommands == {"load", "pause", "stop", "key", "raw", "volume", "reset"}

ASSUME PlaybackAssumption ==
  /\ NumInstances \in Nat \ {0}
  /\ PipeSize \in Nat \ {0}
  /\ IsFiniteSet(Streams)
  /\ Commands \subseteq AllCommands
  /\ Events \subseteq {"pipe", "fork", "print", "kill"}
  /\ Nobody \notin Threads
  /\ NoFd \notin Streams
  /\ MsgThread \notin Clients \cup Streams
  /\ Clients \cap Streams = {}

VARIABLES
  status,   \* mpx->status of each instance
  readfd,   \* mpx->readfd: the stream whose output pipe it reads, or NoFd
  writefd,  \* mpx->writefd: the stream whose command pipe it writes, or NoFd
  lock,     \* owner of each instance's lock
  mutex,    \* owner of instances_mutex
  cl,       \* client threads
  ld,       \* load threads
  msg,      \* the message thread
  open,     \* descriptors of each stream open in the daemon
  player,   \* mplayer processes
  crashed   \* the daemon has aborted

mpx  == <<status, readfd, writefd>>
vars == <<status, readfd, writefd, lock, mutex, cl, ld, msg, open, player, crashed>>

Status == {"stopped", "paused", "playing"}

\* "rd" is fdout[0], "wr" is fdin[1]; "peer" is the pair fdin[0], fdout[1]
\* that the load thread keeps until its wait() returns.
Ends == {"rd", "wr", "peer"}

UnloadPC == {"closeRead", "closeWrite", "clearRead", "clearWrite", "stop"}
ClientPC == UnloadPC \cup
            {"idle", "lock", "zeroRead", "zeroWrite", "pauseEntry", "check", "write",
             "toggleRead", "toggleWrite"}
LoadPC   == {"unused", "get", "lock", "publishRead", "publishWrite", "fork", "wait",
             "hangup", "mark", "done"}
MsgPC    == UnloadPC \cup {"begin", "lock", "check", "enter", "read", "next"}

ClientRecord == [pc: ClientPC, op: AllCommands, inst: Instances,
                 unpausing: BOOLEAN, ok: BOOLEAN, seen: Status]
PlayerRecord == [state: {"none", "running", "zombie", "reaped"}, paused: BOOLEAN,
                 cmds: Seq({"pause", "quit", "key"}), out: Seq({"line", "Exiting"}),
                 holds: SUBSET Streams]

TypeOK ==
  /\ status \in [Instances -> Status]
  /\ readfd \in [Instances -> Streams \cup {NoFd}]
  /\ writefd \in [Instances -> Streams \cup {NoFd}]
  /\ lock \in [Instances -> Threads \cup {Nobody}]
  /\ mutex \in Threads \cup {Nobody}
  /\ cl \in [Clients -> ClientRecord]
  /\ ld \in [Streams -> [pc: LoadPC, inst: Instances]]
  /\ msg \in [pc: MsgPC, inst: Instances, fd: Streams \cup {NoFd}]
  /\ open \in [Streams -> SUBSET Ends]
  /\ player \in [Streams -> PlayerRecord]
  /\ crashed \in BOOLEAN

\* A client thread between two commands.
Idle == [pc |-> "idle", op |-> "pause", inst |-> 1,
         unpausing |-> FALSE, ok |-> TRUE, seen |-> "stopped"]

Init ==
  /\ status = [i \in Instances |-> "stopped"]
  /\ readfd = [i \in Instances |-> NoFd]
  /\ writefd = [i \in Instances |-> NoFd]
  /\ lock = [i \in Instances |-> Nobody]
  /\ mutex = Nobody
  /\ cl = [c \in Clients |-> Idle]
  /\ ld = [s \in Streams |-> [pc |-> "unused", inst |-> 1]]
  /\ msg = [pc |-> "begin", inst |-> 1, fd |-> NoFd]
  /\ open = [s \in Streams |-> {}]
  /\ player = [s \in Streams |-> [state |-> "none", paused |-> FALSE, cmds |-> <<>>,
                                  out |-> <<>>, holds |-> {}]]
  /\ crashed = FALSE

-----------------------------------------------------------------------------
(* mplayer_unload, by whichever thread runs it on instance i: the close    *)
(* calls, then the stores that forget the descriptors and the status.      *)

Without(fd, end) == [s \in Streams |-> IF s = fd THEN open[s] \ {end} ELSE open[s]]

\* Mutant: unload closes the descriptors but does not forget writefd.
UnloadKeepsWriteFd(label, i) ==
  \/ /\ label = "closeRead"
     /\ open' = Without(readfd[i], "rd")
     /\ UNCHANGED mpx
  \/ /\ label = "closeWrite"
     /\ open' = Without(writefd[i], "wr")
     /\ UNCHANGED mpx
  \/ /\ label = "clearRead"
     /\ readfd' = [readfd EXCEPT ![i] = NoFd]
     /\ UNCHANGED <<status, writefd, open>>
  \/ /\ label = "clearWrite"
     /\ UNCHANGED <<mpx, open>>
  \/ /\ label = "stop"
     /\ status' = [status EXCEPT ![i] = "stopped"]
     /\ UNCHANGED <<readfd, writefd, open>>

Unload(label, i) ==
  \/ /\ label = "closeRead"
     /\ open' = Without(readfd[i], "rd")
     /\ UNCHANGED mpx
  \/ /\ label = "closeWrite"
     /\ open' = Without(writefd[i], "wr")
     /\ UNCHANGED mpx
  \/ /\ label = "clearRead"
     /\ readfd' = [readfd EXCEPT ![i] = NoFd]
     /\ UNCHANGED <<status, writefd, open>>
  \/ /\ label = "clearWrite"
     /\ writefd' = [writefd EXCEPT ![i] = NoFd]
     /\ UNCHANGED <<status, readfd, open>>
  \/ /\ label = "stop"
     /\ status' = [status EXCEPT ![i] = "stopped"]
     /\ UNCHANGED <<readfd, writefd, open>>

\* The label after each, and after the last one the caller's next.
AfterUnload(label, return) ==
  CASE label = "closeRead"  -> "closeWrite"
    [] label = "closeWrite" -> "clearRead"
    [] label = "clearRead"  -> "clearWrite"
    [] label = "clearWrite" -> "stop"
    [] label = "stop"       -> return

\* A pipe of s still has an end outside mpx: the daemon's own copy, its
\* player, or a player forked while the daemon's copy was open.
PeerAlive(s) ==
  \/ "peer" \in open[s]
  \/ player[s].state = "running"
  \/ \E t \in Streams : player[t].state = "running" /\ s \in player[t].holds

-----------------------------------------------------------------------------
(* Client threads: mp_process_command and the mplayer_* functions it calls *)

\* The command in progress is forgotten when its handler returns.
At(c, label)   == ~crashed /\ cl[c].pc = label
Goto(c, label) == cl' = IF label = "idle" THEN [cl EXCEPT ![c] = Idle]
                        ELSE [cl EXCEPT ![c].pc = label]
Inst(c)        == cl[c].inst

\* Where the first test of status sends a command on instance i.  "key"
\* stands for the commands that unpause before they write (seek_*, osd,
\* fullscreen, mute), "raw" for those that only write (literal, length).
\* mplayer_load and mplayer_pause refuse by status; the others unpause a
\* paused player first.
FirstTest(op, i) ==
  CASE op = "load"  -> IF status[i] = "stopped" THEN "zeroRead" ELSE "idle"
    [] op = "pause" -> IF status[i] = "stopped" THEN "idle" ELSE "check"
    [] op \in {"stop", "key", "volume"} ->
                       IF status[i] = "paused" THEN "pauseEntry" ELSE "check"
    [] op = "raw"   -> "check"
    [] op = "reset" -> "closeRead"

\* A client issues a command; what the handler does before its first test is
\* its own, so the test is part of the step.  CMD_VOLUME locks first.
Issue(c, op, i) ==
  /\ At(c, "idle")
  /\ op # "volume" => FirstTest(op, i) # "idle"
  /\ cl' = [cl EXCEPT ![c] =
       [Idle EXCEPT !.op = op, !.inst = i,
                    !.pc = IF op = "volume" THEN "lock" ELSE FirstTest(op, i),
                    !.unpausing = op # "volume" /\ FirstTest(op, i) = "pauseEntry"]]
  /\ UNCHANGED <<mpx, lock, mutex, ld, msg, open, player, crashed>>

\* The unlock that follows mplayer_volume is commented out.
VolumeLock(c) ==
  /\ At(c, "lock")
  /\ lock[Inst(c)] = Nobody
  /\ lock' = [lock EXCEPT ![Inst(c)] = c]
  /\ cl' = [cl EXCEPT ![c].pc = FirstTest("volume", Inst(c)),
                      ![c].unpausing = status[Inst(c)] = "paused"]
  /\ UNCHANGED <<mpx, mutex, ld, msg, open, player, crashed>>

\* mplayer_load, when the test has passed: the stores and the new thread.
\* When the streams are used up, pthread_create fails.
LoadZeroRead(c) ==
  /\ At(c, "zeroRead")
  /\ readfd' = [readfd EXCEPT ![Inst(c)] = NoFd]
  /\ Goto(c, "zeroWrite")
  /\ UNCHANGED <<status, writefd, lock, mutex, ld, msg, open, player, crashed>>

LoadStart(c) ==
  /\ At(c, "zeroWrite")
  /\ writefd' = [writefd EXCEPT ![Inst(c)] = NoFd]
  /\ LET unused == {s \in Streams : ld[s].pc = "unused"}
     IN  \/ /\ unused = {}
            /\ UNCHANGED ld
         \/ \E s \in unused : ld' = [ld EXCEPT ![s] = [pc |-> "get", inst |-> Inst(c)]]
  /\ Goto(c, "idle")
  /\ UNCHANGED <<status, readfd, lock, mutex, msg, open, player, crashed>>

\* mplayer_pause as a prelude tests the status again.
PauseEntry(c) ==
  /\ At(c, "pauseEntry")
  /\ Goto(c, IF status[Inst(c)] = "stopped" THEN "idle" ELSE "check")
  /\ UNCHANGED <<mpx, lock, mutex, ld, msg, open, player, crashed>>

Word(c) ==
  IF cl[c].op = "pause" \/ cl[c].unpausing THEN "pause"
  ELSE IF cl[c].op = "stop" THEN "quit" ELSE "key"

\* Where a thread goes when mplayer_command returns, and when mplayer_pause
\* does: to the command proper if the pause was its prelude and succeeded.
AfterCommand(c) ==
  CASE Word(c) = "pause" -> "toggleRead"
    [] Word(c) = "quit"  -> "closeRead"
    [] OTHER             -> "idle"
PauseReturns(c) ==
  IF cl[c].op = "pause" \/ ~cl[c].ok THEN Goto(c, "idle")
  ELSE cl' = [cl EXCEPT ![c] = [Idle EXCEPT !.pc = "check", !.op = cl[c].op,
                                            !.inst = cl[c].inst]]

\* mplayer_command: the test of the descriptors, then the write.
CommandCheck(c) ==
  /\ At(c, "check")
  /\ IF NoFd \in {readfd[Inst(c)], writefd[Inst(c)]}
     THEN IF Word(c) = "pause"
          THEN cl' = [cl EXCEPT ![c].pc = "toggleRead", ![c].ok = FALSE]
          ELSE Goto(c, AfterCommand(c))
     ELSE Goto(c, "write")
  /\ UNCHANGED <<mpx, lock, mutex, ld, msg, open, player, crashed>>

\* The write reaches the command pipe, and blocks while the pipe is full.
WritePipe(c) ==
  /\ At(c, "write")
  /\ \E s \in Streams :
       /\ writefd[Inst(c)] = s
       /\ "wr" \in open[s] /\ PeerAlive(s)
       /\ Len(player[s].cmds) < PipeSize
       /\ player' = [player EXCEPT ![s].cmds = Append(@, Word(c))]
  /\ Goto(c, AfterCommand(c))
  /\ UNCHANGED <<mpx, lock, mutex, ld, msg, open, crashed>>

\* The descriptors were reset after the test: the write goes to descriptor 0.
WriteStdin(c) ==
  /\ At(c, "write")
  /\ writefd[Inst(c)] = NoFd
  /\ Goto(c, AfterCommand(c))
  /\ UNCHANGED <<mpx, lock, mutex, ld, msg, open, player, crashed>>

\* The write fails (closed descriptor, no reader, or a read-only descriptor
\* 0): the error path frees the buffer on the stack and the daemon aborts.
WriteFails(c) ==
  /\ At(c, "write")
  /\ \A s \in Streams :
       writefd[Inst(c)] = s => ~("wr" \in open[s] /\ PeerAlive(s))
  /\ crashed' = TRUE
  /\ UNCHANGED <<mpx, lock, mutex, cl, ld, msg, open, player>>

\* mplayer_pause toggles the status: a load, then a store.
ToggleRead(c) ==
  /\ At(c, "toggleRead")
  /\ IF status[Inst(c)] = "stopped" THEN PauseReturns(c)
     ELSE cl' = [cl EXCEPT ![c].pc = "toggleWrite", ![c].seen = status[Inst(c)]]
  /\ UNCHANGED <<mpx, lock, mutex, ld, msg, open, player, crashed>>

ToggleWrite(c) ==
  /\ At(c, "toggleWrite")
  /\ status' = [status EXCEPT ![Inst(c)] =
                  IF cl[c].seen = "playing" THEN "paused" ELSE "playing"]
  /\ PauseReturns(c)
  /\ UNCHANGED <<readfd, writefd, lock, mutex, ld, msg, open, player, crashed>>

ClientUnload(c) ==
  /\ ~crashed
  /\ cl[c].pc \in UnloadPC
  /\ Unload(cl[c].pc, Inst(c))
  /\ Goto(c, AfterUnload(cl[c].pc, "idle"))
  /\ UNCHANGED <<lock, mutex, ld, msg, player, crashed>>

ClientStep(c) ==
  \/ VolumeLock(c) \/ LoadZeroRead(c) \/ LoadStart(c) \/ PauseEntry(c) \/ CommandCheck(c)
  \/ WritePipe(c) \/ WriteStdin(c) \/ WriteFails(c)
  \/ ToggleRead(c) \/ ToggleWrite(c)
  \/ ClientUnload(c)

-----------------------------------------------------------------------------
(* Load threads: mplayer_load_thread                                       *)

LoadAt(s, label)   == ~crashed /\ ld[s].pc = label
LoadGoto(s, label) == ld' = [ld EXCEPT ![s].pc = label]

\* get_instance under instances_mutex.
LoadGet(s) ==
  /\ LoadAt(s, "get")
  /\ mutex = Nobody
  /\ LoadGoto(s, "lock")
  /\ UNCHANGED <<mpx, lock, mutex, cl, msg, open, player, crashed>>

\* Mutant: the load thread does not wait for the instance's lock.
LoadLockUnlocked(s) ==
  /\ LoadAt(s, "lock")
  /\ open' = [open EXCEPT ![s] = Ends]
  /\ status' = [status EXCEPT ![ld[s].inst] = "playing"]
  /\ LoadGoto(s, "publishRead")
  /\ UNCHANGED <<readfd, writefd, lock, mutex, cl, msg, player, crashed>>

\* The pipes are created and the status set while the lock is held.
LoadLock(s) ==
  /\ LoadAt(s, "lock")
  /\ lock[ld[s].inst] = Nobody
  /\ lock' = [lock EXCEPT ![ld[s].inst] = s]
  /\ open' = [open EXCEPT ![s] = Ends]
  /\ status' = [status EXCEPT ![ld[s].inst] = "playing"]
  /\ LoadGoto(s, "publishRead")
  /\ UNCHANGED <<readfd, writefd, mutex, cl, msg, player, crashed>>

\* pipe() fails: the thread exits and keeps the lock.
PipeFails(s) ==
  /\ "pipe" \in Events
  /\ LoadAt(s, "lock")
  /\ lock[ld[s].inst] = Nobody
  /\ lock' = [lock EXCEPT ![ld[s].inst] = s]
  /\ LoadGoto(s, "done")
  /\ UNCHANGED <<mpx, mutex, cl, msg, open, player, crashed>>

LoadPublishRead(s) ==
  /\ LoadAt(s, "publishRead")
  /\ readfd' = [readfd EXCEPT ![ld[s].inst] = s]
  /\ LoadGoto(s, "publishWrite")
  /\ UNCHANGED <<status, writefd, lock, mutex, cl, msg, open, player, crashed>>

LoadPublishWrite(s) ==
  /\ LoadAt(s, "publishWrite")
  /\ writefd' = [writefd EXCEPT ![ld[s].inst] = s]
  /\ lock' = [lock EXCEPT ![ld[s].inst] = Nobody]
  /\ LoadGoto(s, "fork")
  /\ UNCHANGED <<status, readfd, mutex, cl, msg, open, player, crashed>>

\* The child inherits the pipe ends the daemon has open for other streams.
LoadFork(s) ==
  /\ LoadAt(s, "fork")
  /\ player' = [player EXCEPT ![s].state = "running",
                              ![s].holds = {t \in Streams \ {s} : "peer" \in open[t]}]
  /\ LoadGoto(s, "wait")
  /\ UNCHANGED <<mpx, lock, mutex, cl, msg, open, crashed>>

\* fork() fails: the thread exits and leaves status and descriptors as set.
ForkFails(s) ==
  /\ "fork" \in Events
  /\ LoadAt(s, "fork")
  /\ LoadGoto(s, "done")
  /\ UNCHANGED <<mpx, lock, mutex, cl, msg, open, player, crashed>>

\* Mutant: the load thread goes on without waiting for a child.
LoadWaitNone(s) ==
  /\ LoadAt(s, "wait")
  /\ LoadGoto(s, "hangup")
  /\ UNCHANGED <<mpx, lock, mutex, cl, msg, open, player, crashed>>

\* wait(NULL) returns for any child of the process that has terminated.
LoadWait(s) ==
  /\ LoadAt(s, "wait")
  /\ \E t \in Streams :
       /\ player[t].state = "zombie"
       /\ player' = [player EXCEPT ![t].state = "reaped"]
  /\ LoadGoto(s, "hangup")
  /\ UNCHANGED <<mpx, lock, mutex, cl, msg, open, crashed>>

\* Mutant: the load thread forgets to close its copy of the player's ends.
LoadHangupLeaks(s) ==
  /\ LoadAt(s, "hangup")
  /\ LoadGoto(s, "mark")
  /\ UNCHANGED <<mpx, lock, mutex, cl, msg, open, player, crashed>>

LoadHangup(s) ==
  /\ LoadAt(s, "hangup")
  /\ open' = [open EXCEPT ![s] = @ \ {"peer"}]
  /\ LoadGoto(s, "mark")
  /\ UNCHANGED <<mpx, lock, mutex, cl, msg, player, crashed>>

\* The status is set once more, so that the message thread looks at the
\* instance and finds the end of the output.
LoadMark(s) ==
  /\ LoadAt(s, "mark")
  /\ lock[ld[s].inst] = Nobody
  /\ status' = [status EXCEPT ![ld[s].inst] = "playing"]
  /\ LoadGoto(s, "done")
  /\ UNCHANGED <<readfd, writefd, lock, mutex, cl, msg, open, player, crashed>>

LoadStep(s) ==
  \/ LoadGet(s) \/ LoadLock(s) \/ PipeFails(s)
  \/ LoadPublishRead(s) \/ LoadPublishWrite(s)
  \/ LoadFork(s) \/ ForkFails(s) \/ LoadWait(s) \/ LoadHangup(s) \/ LoadMark(s)

-----------------------------------------------------------------------------
(* The message thread: mplayer_message_thread and mplayer_message          *)

MsgAt(label)   == ~crashed /\ msg.pc = label
MsgGoto(label) == msg' = [msg EXCEPT !.pc = label]

MsgBegin ==
  /\ MsgAt("begin")
  /\ mutex = Nobody
  /\ mutex' = MsgThread
  /\ MsgGoto("lock")
  /\ UNCHANGED <<mpx, lock, cl, ld, open, player, crashed>>

\* The lock, and under it the test of the status.
MsgLock ==
  /\ MsgAt("lock")
  /\ lock[msg.inst] = Nobody
  /\ lock' = [lock EXCEPT ![msg.inst] = MsgThread]
  /\ msg' = [msg EXCEPT !.pc = IF status[msg.inst] = "playing" THEN "check" ELSE "next"]
  /\ UNCHANGED <<mpx, mutex, cl, ld, open, player, crashed>>

MsgCheck ==
  /\ MsgAt("check")
  /\ MsgGoto(IF readfd[msg.inst] = NoFd THEN "closeRead" ELSE "enter")
  /\ UNCHANGED <<mpx, lock, mutex, cl, ld, open, player, crashed>>

\* read() is called on the current descriptor; a closed one fails at once.
MsgEnter ==
  /\ MsgAt("enter")
  /\ \E fd \in {readfd[msg.inst]} :
       msg' = [msg EXCEPT !.fd = fd,
                          !.pc = IF fd # NoFd /\ "rd" \notin open[fd]
                                 THEN "closeRead" ELSE "read"]
  /\ UNCHANGED <<mpx, lock, mutex, cl, ld, open, player, crashed>>

\* All lines in the pipe are read; "Exiting..." among them ends the stream.
MsgReadLines ==
  /\ MsgAt("read")
  /\ \E s \in Streams :
       /\ msg.fd = s
       /\ player[s].out # <<>>
       /\ MsgGoto(IF \E k \in DOMAIN player[s].out : player[s].out[k] = "Exiting"
                  THEN "closeRead" ELSE "next")
       /\ player' = [player EXCEPT ![s].out = <<>>]
  /\ UNCHANGED <<mpx, lock, mutex, cl, ld, open, crashed>>

\* End of file: the pipe is empty and nobody holds its write end.
MsgReadEnd ==
  /\ MsgAt("read")
  /\ \E s \in Streams :
       /\ msg.fd = s
       /\ player[s].out = <<>> /\ ~PeerAlive(s)
  /\ MsgGoto("closeRead")
  /\ UNCHANGED <<mpx, lock, mutex, cl, ld, open, player, crashed>>

\* readfd was reset after the test: descriptor 0 is read instead.
MsgReadStdin ==
  /\ MsgAt("read")
  /\ msg.fd = NoFd
  /\ \E label \in {"closeRead", "next"} : MsgGoto(label)
  /\ UNCHANGED <<mpx, lock, mutex, cl, ld, open, player, crashed>>

\* Mutant: the lock is released before the stream is unloaded.
MsgUnloadUnlocked ==
  /\ ~crashed
  /\ msg.pc \in UnloadPC
  /\ Unload(msg.pc, msg.inst)
  /\ MsgGoto(AfterUnload(msg.pc, "next"))
  /\ lock' = [lock EXCEPT ![msg.inst] = IF @ = MsgThread THEN Nobody ELSE @]
  /\ UNCHANGED <<mutex, cl, ld, player, crashed>>

MsgUnload ==
  /\ ~crashed
  /\ msg.pc \in UnloadPC
  /\ Unload(msg.pc, msg.inst)
  /\ MsgGoto(AfterUnload(msg.pc, "next"))
  /\ UNCHANGED <<lock, mutex, cl, ld, player, crashed>>

\* Mutant: the loop over the instances runs one past the last.
MsgNextPastEnd ==
  /\ MsgAt("next")
  /\ lock' = [lock EXCEPT ![msg.inst] = Nobody]
  /\ IF msg.inst <= NumInstances
     THEN /\ msg' = [pc |-> "lock", inst |-> msg.inst + 1, fd |-> NoFd]
          /\ UNCHANGED mutex
     ELSE /\ msg' = [pc |-> "begin", inst |-> 1, fd |-> NoFd]
          /\ mutex' = Nobody
  /\ UNCHANGED <<mpx, cl, ld, open, player, crashed>>

\* The lock is released after the pause of the loop; instances_mutex only
\* after the last instance.
MsgNext ==
  /\ MsgAt("next")
  /\ lock' = [lock EXCEPT ![msg.inst] = Nobody]
  /\ IF msg.inst < NumInstances
     THEN /\ msg' = [pc |-> "lock", inst |-> msg.inst + 1, fd |-> NoFd]
          /\ UNCHANGED mutex
     ELSE /\ msg' = [pc |-> "begin", inst |-> 1, fd |-> NoFd]
          /\ mutex' = Nobody
  /\ UNCHANGED <<mpx, cl, ld, open, player, crashed>>

MsgStep ==
  \/ MsgBegin \/ MsgLock \/ MsgCheck \/ MsgEnter
  \/ MsgReadLines \/ MsgReadEnd \/ MsgReadStdin
  \/ MsgUnload \/ MsgNext

-----------------------------------------------------------------------------
(* The mplayer processes (external).                                       *)

Running(s) == ~crashed /\ player[s].state = "running"

\* Lines wait in the pipe while somebody can still read them, and are lost
\* otherwise.
InPipe(s, lines) ==
  IF "rd" \in open[s] \/ (msg.pc = "read" /\ msg.fd = s) THEN lines ELSE <<>>
Printed(s, line) == InPipe(s, Append(player[s].out, line))

\* A dead player releases its descriptors; what it printed stays in the pipe.
Dead(s, lines) ==
  [state |-> "zombie", paused |-> FALSE, cmds |-> <<>>, out |-> InPipe(s, lines), holds |-> {}]

PlayerObeys(s) ==
  /\ Running(s)
  /\ player[s].cmds # <<>>
  /\ \/ /\ Head(player[s].cmds) = "pause"
        /\ player' = [player EXCEPT ![s].cmds = Tail(@), ![s].paused = ~@]
     \/ /\ Head(player[s].cmds) = "quit"
        /\ player' = [player EXCEPT ![s] = Dead(s, Printed(s, "Exiting"))]
     \/ /\ Head(player[s].cmds) = "key"
        /\ player' = [player EXCEPT ![s].cmds = Tail(@)]
  /\ UNCHANGED <<mpx, lock, mutex, cl, ld, msg, open, crashed>>

PlayerPrints(s) ==
  /\ "print" \in Events
  /\ Running(s)
  /\ ~player[s].paused
  /\ Len(player[s].out) < PipeSize
  /\ player' = [player EXCEPT ![s].out = Printed(s, "line")]
  /\ UNCHANGED <<mpx, lock, mutex, cl, ld, msg, open, crashed>>

\* The end of the medium.
PlayerEnds(s) ==
  /\ Running(s)
  /\ ~player[s].paused
  /\ player' = [player EXCEPT ![s] = Dead(s, Printed(s, "Exiting"))]
  /\ UNCHANGED <<mpx, lock, mutex, cl, ld, msg, open, crashed>>

\* The player is killed, or execvp() fails: nothing is printed.
PlayerDies(s) ==
  /\ "kill" \in Events
  /\ Running(s)
  /\ player' = [player EXCEPT ![s] = Dead(s, player[s].out)]
  /\ UNCHANGED <<mpx, lock, mutex, cl, ld, msg, open, crashed>>

PlayerStep(s) == PlayerObeys(s) \/ PlayerPrints(s) \/ PlayerEnds(s) \/ PlayerDies(s)

-----------------------------------------------------------------------------

Aborted == crashed /\ UNCHANGED vars

Next ==
  \/ \E c \in Clients, op \in Commands, i \in Instances : Issue(c, op, i)
  \/ \E c \in Clients : ClientStep(c)
  \/ \E s \in Streams : LoadStep(s)
  \/ MsgStep
  \/ \E s \in Streams : PlayerStep(s)
  \/ Aborted

Spec == Init /\ [][Next]_vars

\* Every thread of the daemon that can take a step eventually does, and a
\* player obeys its commands; users need not issue any, and a medium need not
\* end.
Fairness ==
  /\ \A c \in Clients : WF_vars(ClientStep(c))
  /\ \A s \in Streams : WF_vars(LoadStep(s)) /\ WF_vars(PlayerObeys(s))
  /\ WF_vars(MsgStep)

FairSpec == Spec /\ Fairness

\* More than the pthread library promises: no thread starves at a mutex, and
\* a player that is not paused keeps printing its position.
FairMutexSpec ==
  /\ FairSpec
  /\ SF_vars(MsgStep)
  /\ \A c \in Clients : SF_vars(ClientStep(c))
  /\ \A s \in Streams : SF_vars(LoadStep(s)) /\ WF_vars(PlayerPrints(s))

-----------------------------------------------------------------------------

\* A thread that unloads instance i is at one of the labels.
UnloadAt(i, labels) ==
  \/ msg.pc \in labels /\ msg.inst = i
  \/ \E c \in Clients : cl[c].pc \in labels /\ cl[c].inst = i

\* An instance refers to a closed descriptor only while a thread that unloads
\* it is between the close and the store of 0 (mplayer_unload), whatever
\* threads unload and load the instance at the same time without a lock.
NoDanglingDescriptor ==
  \A i \in Instances, s \in Streams :
    /\ (readfd[i] = s /\ "rd" \notin open[s]) => UnloadAt(i, {"closeWrite", "clearRead"})
    /\ (writefd[i] = s /\ "wr" \notin open[s]) => UnloadAt(i, {"clearRead", "clearWrite"})

\* When the message thread reads a stream and unloads the instance at its
\* end, the instance holds that stream or none: a load that starts in the
\* meantime is not torn down, because the lock is held from the test of the
\* status to the end of the unload (mplayer_message_thread) and while the
\* descriptors are published (mplayer_load_thread).
UnloadsOnlyWhatEnded ==
  msg.pc \in UnloadPC \cup {"read"} =>
    /\ readfd[msg.inst] \in {msg.fd, NoFd}
    /\ msg.fd # NoFd => writefd[msg.inst] \in {msg.fd, NoFd}

Unreaped == {s \in Streams : player[s].state \in {"running", "zombie"}}

\* There are as many load threads in wait() as children not yet reaped:
\* although wait(NULL) returns for any child, no child stays a zombie for
\* want of a waiter and no wait() lacks a child (mplayer_load_thread).
EveryChildHasAWaiter ==
  Cardinality(Unreaped) = Cardinality({s \in Streams : ld[s].pc = "wait"})

-----------------------------------------------------------------------------

\* Nothing of stream s is left: its load thread is through and its player is
\* reaped, or it was never started.
Over(s) == ld[s].pc \in {"unused", "done"} /\ player[s].state \in {"none", "reaped"}

\* When the last player of the daemon is gone, no instance is reported as
\* playing for ever: the message thread finds the end of the output and
\* unloads the instance (mplayer_message_thread, LoadMark's second store).
PlayingNeedsAPlayer ==
  \A i \in Instances :
    (status[i] = "playing" /\ \A s \in Streams : Over(s)) ~>
      (status[i] # "playing" \/ crashed \/ \E s \in Streams : ~Over(s))

\* Every playback command returns to its client: a write to a full pipe is
\* released by the player that reads it or by the load thread that closes the
\* pipe's last reader (mplayer_command, mplayer_load_thread).  A client is
\* stuck for ever only if the pipe of a player already reaped stays open: in
\* a load thread whose wait(NULL) returned for another player, or in another
\* player that inherited it.
CommandsReturn ==
  \A c \in Clients :
    \/ []<>(cl[c].pc = "idle" \/ crashed)
    \/ <>[](\E s, t \in Streams :
              /\ player[s].state = "reaped" /\ player[t].state = "running"
              /\ ld[s].pc = "wait" \/ s \in player[t].holds)

\* CHANGELOG 0.0.5: status is updated to stop when mplayer exits normally.
StoppedAfterExit ==
  \A i \in Instances :
    (\E s \in Streams : ld[s].inst = i /\ player[s].state = "zombie") ~>
      (status[i] = "stopped" \/ crashed)

\* docs/commands.txt: load $file into mplayer.  An accepted load starts its
\* player.
AcceptedLoadStarts ==
  \A s \in Streams :
    (ld[s].pc = "get") ~> (ld[s].pc \notin {"get", "lock"} \/ crashed)
=============================================================================
