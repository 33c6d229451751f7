--------------------------- MODULE PlaybackProofs ---------------------------
(***************************************************************************)
(* Proofs about Playback for every set of clients and streams, every       *)
(* number of instances, and every mix of commands and faults.              *)
(***************************************************************************)
EXTENDS Playback, FiniteSetTheorems, TLAPS

-----------------------------------------------------------------------------
(* Type correctness.                                                       *)

\* The first label of a command is a label.
LEMMA FirstTestTyped ==
  ASSUME NEW op \in AllCommands, NEW i
  PROVE  FirstTest(op, i) \in ClientPC
  BY DEF FirstTest, AllCommands, ClientPC, UnloadPC

\* mplayer_unload steps through its own labels and then returns.
LEMMA AfterUnloadTyped ==
  ASSUME NEW label \in UnloadPC, NEW return
  PROVE  AfterUnload(label, return) \in UnloadPC \cup {return}
  BY DEF AfterUnload, UnloadPC

\* mplayer_unload keeps the types of what it writes.
LEMMA UnloadTyped ==
  ASSUME TypeOK, NEW label, NEW i \in Instances, Unload(label, i)
  PROVE  /\ status' \in [Instances -> Status]
         /\ readfd' \in [Instances -> Streams \cup {NoFd}]
         /\ writefd' \in [Instances -> Streams \cup {NoFd}]
         /\ open' \in [Streams -> SUBSET Ends]
  <1>1. status' \in [Instances -> Status]
    BY DEF Unload, TypeOK, mpx, Status
  <1>2. readfd' \in [Instances -> Streams \cup {NoFd}]
    BY DEF Unload, TypeOK, mpx
  <1>3. writefd' \in [Instances -> Streams \cup {NoFd}]
    BY DEF Unload, TypeOK, mpx
  <1>4. open' \in [Streams -> SUBSET Ends]
    <2>1. \A fd, end : Without(fd, end) \in [Streams -> SUBSET Ends]
      BY DEF Without, TypeOK
    <2>2. QED BY <2>1 DEF Unload, TypeOK
  <1>5. QED BY <1>1, <1>2, <1>3, <1>4

\* The record of a client between two commands is a client record.
LEMMA IdleTyped == Idle \in ClientRecord
  <1>1. 1 \in Instances
    BY PlaybackAssumption DEF Instances
  <1>2. QED
    BY <1>1 DEF Idle, ClientRecord, ClientPC, AllCommands, Status

\* A client thread keeps its record's type when it goes to a label.
LEMMA GotoTyped ==
  ASSUME TypeOK, NEW c \in Clients, NEW label \in ClientPC, Goto(c, label)
  PROVE  cl' \in [Clients -> ClientRecord]
  <1>1. CASE label = "idle"
    BY <1>1, IdleTyped DEF Goto, TypeOK
  <1>2. CASE label # "idle"
    <2>1. [cl[c] EXCEPT !.pc = label] \in ClientRecord
      BY DEF TypeOK, ClientRecord
    <2>2. cl' = [cl EXCEPT ![c] = [cl[c] EXCEPT !.pc = label]]
      BY <1>2 DEF Goto, TypeOK
    <2>3. QED BY <2>1, <2>2 DEF TypeOK
  <1>3. QED BY <1>1, <1>2

\* The end of mplayer_pause leaves the client a record of its type.
LEMMA PauseReturnsTyped ==
  ASSUME TypeOK, NEW c \in Clients, PauseReturns(c)
  PROVE  cl' \in [Clients -> ClientRecord]
  <1>1. CASE cl[c].op = "pause" \/ ~cl[c].ok
    <2>1. Goto(c, "idle")
      BY <1>1 DEF PauseReturns
    <2>2. QED BY <2>1, GotoTyped DEF ClientPC
  <1>2. CASE ~(cl[c].op = "pause" \/ ~cl[c].ok)
    <2> DEFINE r == [Idle EXCEPT !.pc = "check", !.op = cl[c].op, !.inst = cl[c].inst]
    <2>1. cl' = [cl EXCEPT ![c] = r]
      BY <1>2 DEF PauseReturns
    <2>2. r \in ClientRecord
      BY IdleTyped DEF TypeOK, ClientRecord, ClientPC
    <2>3. QED BY <2>1, <2>2 DEF TypeOK
  <1>3. QED BY <1>1, <1>2

\* Every step of a client thread keeps the types.
LEMMA ClientTyped ==
  ASSUME TypeOK, NEW c \in Clients, ClientStep(c)
  PROVE  TypeOK'
  <1> cl[c] \in ClientRecord /\ Inst(c) \in Instances
    BY DEF TypeOK, Inst, ClientRecord
  <1>1. CASE VolumeLock(c)
    <2> DEFINE r == [cl[c] EXCEPT !.pc = FirstTest("volume", Inst(c)),
                                  !.unpausing = status[Inst(c)] = "paused"]
    <2>1. FirstTest("volume", Inst(c)) \in ClientPC
      BY FirstTestTyped DEF AllCommands
    <2>2. r \in ClientRecord
      BY <2>1 DEF ClientRecord
    <2>3. cl' = [cl EXCEPT ![c] = r]
      BY <1>1 DEF VolumeLock, TypeOK, ClientRecord
    <2>4. cl' \in [Clients -> ClientRecord]
      BY <2>2, <2>3 DEF TypeOK
    <2>5. lock' \in [Instances -> Threads \cup {Nobody}]
      BY <1>1 DEF VolumeLock, TypeOK, Threads
    <2>6. QED BY <1>1, <2>4, <2>5 DEF VolumeLock, TypeOK, mpx
  <1>2. CASE LoadZeroRead(c)
    <2>1. cl' \in [Clients -> ClientRecord]
      BY <1>2, GotoTyped DEF LoadZeroRead, ClientPC
    <2>2. QED BY <1>2, <2>1 DEF LoadZeroRead, TypeOK
  <1>3. CASE LoadStart(c)
    <2>1. cl' \in [Clients -> ClientRecord]
      BY <1>3, GotoTyped DEF LoadStart, ClientPC
    <2>2. ld' \in [Streams -> [pc: LoadPC, inst: Instances]]
      BY <1>3 DEF LoadStart, TypeOK, LoadPC
    <2>3. QED BY <1>3, <2>1, <2>2 DEF LoadStart, TypeOK
  <1>4. CASE PauseEntry(c)
    <2>1. cl' \in [Clients -> ClientRecord]
      BY <1>4, GotoTyped DEF PauseEntry, ClientPC
    <2>2. QED BY <1>4, <2>1 DEF PauseEntry, TypeOK, mpx
  <1>5. CASE CommandCheck(c)
    <2> DEFINE r == [cl[c] EXCEPT !.pc = "toggleRead", !.ok = FALSE]
    <2>1. r \in ClientRecord
      BY DEF ClientRecord, ClientPC
    <2>2. AfterCommand(c) \in ClientPC /\ "write" \in ClientPC
      BY DEF AfterCommand, ClientPC, UnloadPC
    <2>3. \/ cl' = [cl EXCEPT ![c] = r]
          \/ Goto(c, AfterCommand(c))
          \/ Goto(c, "write")
      BY <1>5 DEF CommandCheck, TypeOK, ClientRecord
    <2>4. cl' \in [Clients -> ClientRecord]
      BY <2>1, <2>2, <2>3, GotoTyped DEF TypeOK
    <2>5. QED BY <1>5, <2>4 DEF CommandCheck, TypeOK, mpx
  <1>6. CASE WritePipe(c)
    <2>1. Word(c) \in {"pause", "quit", "key"}
      BY DEF Word
    <2>2. AfterCommand(c) \in ClientPC
      BY DEF AfterCommand, ClientPC, UnloadPC
    <2>3. PICK s \in Streams : player' = [player EXCEPT ![s].cmds = Append(@, Word(c))]
      BY <1>6 DEF WritePipe
    <2> DEFINE r == [player[s] EXCEPT !.cmds = Append(player[s].cmds, Word(c))]
    <2>4. player[s] \in PlayerRecord
      BY DEF TypeOK
    <2>5. Append(player[s].cmds, Word(c)) \in Seq({"pause", "quit", "key"})
      BY <2>1, <2>4 DEF PlayerRecord
    <2>6. r \in PlayerRecord
      BY <2>4, <2>5 DEF PlayerRecord
    <2>7. player' = [player EXCEPT ![s] = r]
      BY <2>3, <2>4 DEF TypeOK, PlayerRecord
    <2>8. player' \in [Streams -> PlayerRecord]
      BY <2>6, <2>7 DEF TypeOK
    <2>9. cl' \in [Clients -> ClientRecord]
      BY <1>6, <2>2, GotoTyped DEF WritePipe
    <2>10. QED BY <1>6, <2>8, <2>9 DEF WritePipe, TypeOK, mpx
  <1>7. CASE WriteStdin(c)
    <2>1. AfterCommand(c) \in ClientPC
      BY DEF AfterCommand, ClientPC, UnloadPC
    <2>2. cl' \in [Clients -> ClientRecord]
      BY <1>7, <2>1, GotoTyped DEF WriteStdin
    <2>3. QED BY <1>7, <2>2 DEF WriteStdin, TypeOK, mpx
  <1>8. CASE WriteFails(c)
    BY <1>8 DEF WriteFails, TypeOK, mpx
  <1>9. CASE ToggleRead(c)
    <2> DEFINE r == [cl[c] EXCEPT !.pc = "toggleWrite", !.seen = status[Inst(c)]]
    <2>1. r \in ClientRecord
      BY DEF ClientRecord, ClientPC, TypeOK
    <2>2. PauseReturns(c) \/ cl' = [cl EXCEPT ![c] = r]
      BY <1>9 DEF ToggleRead, TypeOK, ClientRecord
    <2>3. cl' \in [Clients -> ClientRecord]
      BY <2>1, <2>2, PauseReturnsTyped DEF TypeOK
    <2>4. QED BY <1>9, <2>3 DEF ToggleRead, TypeOK, mpx
  <1>10. CASE ToggleWrite(c)
    <2>1. cl' \in [Clients -> ClientRecord]
      BY <1>10, PauseReturnsTyped DEF ToggleWrite
    <2>2. status' \in [Instances -> Status]
      BY <1>10 DEF ToggleWrite, TypeOK, Status
    <2>3. QED BY <1>10, <2>1, <2>2 DEF ToggleWrite, TypeOK
  <1>11. CASE ClientUnload(c)
    <2>1. AfterUnload(cl[c].pc, "idle") \in ClientPC
      BY <1>11, AfterUnloadTyped DEF ClientUnload, ClientPC
    <2>2. cl' \in [Clients -> ClientRecord]
      BY <1>11, <2>1, GotoTyped DEF ClientUnload
    <2>3. QED BY <1>11, <2>2, UnloadTyped DEF ClientUnload, TypeOK
  <1>12. QED
    BY <1>1, <1>2, <1>3, <1>4, <1>5, <1>6, <1>7, <1>8, <1>9, <1>10, <1>11
       DEF ClientStep

\* Every step of a load thread keeps the types.
LEMMA LoadTyped ==
  ASSUME TypeOK, NEW s \in Streams, LoadStep(s)
  PROVE  TypeOK'
  <1> ld[s].inst \in Instances /\ s \in Threads
    BY DEF TypeOK, Threads
  <1>1. \A label \in LoadPC :
          LoadGoto(s, label) => ld' \in [Streams -> [pc: LoadPC, inst: Instances]]
    BY DEF LoadGoto, TypeOK
  <1>2. CASE LoadGet(s)
    BY <1>1, <1>2 DEF LoadGet, TypeOK, mpx, LoadPC
  <1>3. CASE LoadLock(s)
    <2>1. open' \in [Streams -> SUBSET Ends]
      BY <1>3 DEF LoadLock, TypeOK
    <2>2. status' \in [Instances -> Status]
      BY <1>3 DEF LoadLock, TypeOK, Status
    <2>3. QED BY <1>1, <1>3, <2>1, <2>2 DEF LoadLock, TypeOK, LoadPC
  <1>4. CASE PipeFails(s)
    BY <1>1, <1>4 DEF PipeFails, TypeOK, mpx, LoadPC
  <1>5. CASE LoadPublishRead(s)
    BY <1>1, <1>5 DEF LoadPublishRead, TypeOK, LoadPC
  <1>6. CASE LoadPublishWrite(s)
    BY <1>1, <1>6 DEF LoadPublishWrite, TypeOK, LoadPC
  <1>7. CASE LoadFork(s)
    <2> DEFINE h == {t \in Streams \ {s} : "peer" \in open[t]}
               r == [player[s] EXCEPT !.state = "running", !.holds = h]
    <2>1. player[s] \in PlayerRecord
      BY DEF TypeOK
    <2>2. r \in PlayerRecord
      BY <2>1 DEF PlayerRecord
    <2>3. player' = [player EXCEPT ![s] = r]
      BY <1>7, <2>1 DEF LoadFork, TypeOK, PlayerRecord
    <2>4. player' \in [Streams -> PlayerRecord]
      BY <2>2, <2>3 DEF TypeOK
    <2>5. QED BY <1>1, <1>7, <2>4 DEF LoadFork, TypeOK, mpx, LoadPC
  <1>8. CASE ForkFails(s)
    BY <1>1, <1>8 DEF ForkFails, TypeOK, mpx, LoadPC
  <1>9. CASE LoadWait(s)
    <2>1. PICK t \in Streams : player' = [player EXCEPT ![t].state = "reaped"]
      BY <1>9 DEF LoadWait
    <2> DEFINE r == [player[t] EXCEPT !.state = "reaped"]
    <2>2. player[t] \in PlayerRecord
      BY DEF TypeOK
    <2>3. r \in PlayerRecord
      BY <2>2 DEF PlayerRecord
    <2>4. player' = [player EXCEPT ![t] = r]
      BY <2>1, <2>2 DEF TypeOK, PlayerRecord
    <2>5. player' \in [Streams -> PlayerRecord]
      BY <2>3, <2>4 DEF TypeOK
    <2>6. QED BY <1>1, <1>9, <2>5 DEF LoadWait, TypeOK, mpx, LoadPC
  <1>10. CASE LoadHangup(s)
    BY <1>1, <1>10 DEF LoadHangup, TypeOK, mpx, LoadPC
  <1>11. CASE LoadMark(s)
    <2>1. status' \in [Instances -> Status]
      BY <1>11 DEF LoadMark, TypeOK, Status
    <2>2. QED BY <1>1, <1>11, <2>1 DEF LoadMark, TypeOK, LoadPC
  <1>12. QED
    BY <1>2, <1>3, <1>4, <1>5, <1>6, <1>7, <1>8, <1>9, <1>10, <1>11 DEF LoadStep

\* Every step of the message thread keeps the types.
LEMMA MsgTyped ==
  ASSUME TypeOK, MsgStep
  PROVE  TypeOK'
  <1> DEFINE MsgRecord == [pc: MsgPC, inst: Instances, fd: Streams \cup {NoFd}]
  <1> msg \in MsgRecord /\ msg.inst \in Instances /\ MsgThread \in Threads
    BY DEF TypeOK, Threads
  <1>1. \A label \in MsgPC : MsgGoto(label) => msg' \in MsgRecord
    BY DEF MsgGoto
  <1>2. CASE MsgBegin
    <2>1. msg' \in MsgRecord
      BY <1>1, <1>2 DEF MsgBegin, MsgPC
    <2>2. QED BY <1>2, <2>1 DEF MsgBegin, TypeOK, mpx
  <1>3. CASE MsgLock
    <2>1. msg' \in MsgRecord
      BY <1>3 DEF MsgLock, MsgPC
    <2>2. QED BY <1>3, <2>1 DEF MsgLock, TypeOK, mpx
  <1>4. CASE MsgCheck
    <2>1. msg' \in MsgRecord
      BY <1>1, <1>4 DEF MsgCheck, MsgPC, UnloadPC
    <2>2. QED BY <1>4, <2>1 DEF MsgCheck, TypeOK, mpx
  <1>5. CASE MsgEnter
    <2>1. readfd[msg.inst] \in Streams \cup {NoFd}
      BY DEF TypeOK
    <2>2. msg' \in MsgRecord
      BY <1>5, <2>1 DEF MsgEnter, MsgPC, UnloadPC
    <2>3. QED BY <1>5, <2>2 DEF MsgEnter, TypeOK, mpx
  <1>6. CASE MsgReadLines
    <2>1. msg' \in MsgRecord
      BY <1>1, <1>6 DEF MsgReadLines, MsgPC, UnloadPC
    <2>2. PICK s \in Streams : player' = [player EXCEPT ![s].out = <<>>]
      BY <1>6 DEF MsgReadLines
    <2> DEFINE r == [player[s] EXCEPT !.out = <<>>]
    <2>3. player[s] \in PlayerRecord
      BY DEF TypeOK
    <2>4. <<>> \in Seq({"line", "Exiting"})
      OBVIOUS
    <2>5. r \in PlayerRecord
      BY <2>3, <2>4 DEF PlayerRecord
    <2>6. player' \in [Streams -> PlayerRecord]
      BY <2>2, <2>5 DEF TypeOK
    <2>7. QED BY <1>6, <2>1, <2>6 DEF MsgReadLines, TypeOK, mpx
  <1>7. CASE MsgReadEnd
    <2>1. msg' \in MsgRecord
      BY <1>1, <1>7 DEF MsgReadEnd, MsgPC, UnloadPC
    <2>2. QED BY <1>7, <2>1 DEF MsgReadEnd, TypeOK, mpx
  <1>8. CASE MsgReadStdin
    <2>1. msg' \in MsgRecord
      BY <1>1, <1>8 DEF MsgReadStdin, MsgPC, UnloadPC
    <2>2. QED BY <1>8, <2>1 DEF MsgReadStdin, TypeOK, mpx
  <1>9. CASE MsgUnload
    <2>1. AfterUnload(msg.pc, "next") \in MsgPC
      BY <1>9, AfterUnloadTyped DEF MsgUnload, MsgPC
    <2>2. msg' \in MsgRecord
      BY <1>1, <1>9, <2>1 DEF MsgUnload
    <2>3. QED BY <1>9, <2>2, UnloadTyped DEF MsgUnload, TypeOK
  <1>10. CASE MsgNext
    <2>1. CASE msg.inst < NumInstances
      <3>1. msg.inst + 1 \in Instances
        BY <2>1, PlaybackAssumption DEF Instances
      <3>2. QED BY <1>10, <2>1, <3>1 DEF MsgNext, TypeOK, MsgPC, mpx
    <2>2. CASE ~(msg.inst < NumInstances)
      <3>1. 1 \in Instances
        BY PlaybackAssumption DEF Instances
      <3>2. QED BY <1>10, <2>2, <3>1 DEF MsgNext, TypeOK, MsgPC, mpx
    <2>3. QED BY <2>1, <2>2
  <1>11. QED
    BY <1>2, <1>3, <1>4, <1>5, <1>6, <1>7, <1>8, <1>9, <1>10 DEF MsgStep

\* A command that a client issues starts with a client record.
LEMMA IssueTyped ==
  ASSUME TypeOK, NEW c \in Clients, NEW op \in Commands, NEW i \in Instances,
         Issue(c, op, i)
  PROVE  TypeOK'
  <1>1. op \in AllCommands
    BY PlaybackAssumption
  <1> DEFINE pc == IF op = "volume" THEN "lock" ELSE FirstTest(op, i)
             r  == [Idle EXCEPT !.op = op, !.inst = i, !.pc = pc,
                      !.unpausing = op # "volume" /\ FirstTest(op, i) = "pauseEntry"]
  <1>2. pc \in ClientPC
    BY <1>1, FirstTestTyped DEF ClientPC
  <1>3. r \in ClientRecord
    <2> HIDE DEF pc
    <2>1. QED BY <1>1, <1>2, IdleTyped DEF ClientRecord
  <1>4. cl' = [cl EXCEPT ![c] = r]
    BY DEF Issue
  <1>5. cl' \in [Clients -> ClientRecord]
    <2> HIDE DEF r
    <2>1. QED BY <1>3, <1>4 DEF TypeOK
  <1>6. QED BY <1>5 DEF Issue, TypeOK, mpx

\* What a player that dies leaves is a player record.
LEMMA DeadTyped ==
  ASSUME TypeOK, NEW s \in Streams, NEW lines \in Seq({"line", "Exiting"})
  PROVE  Dead(s, lines) \in PlayerRecord
  <1>1. InPipe(s, lines) \in Seq({"line", "Exiting"})
    BY DEF InPipe
  <1>2. QED BY <1>1 DEF Dead, PlayerRecord

\* Every step of a player keeps the types.
LEMMA PlayerTyped ==
  ASSUME TypeOK, NEW s \in Streams, PlayerStep(s)
  PROVE  TypeOK'
  <1> DEFINE p == player[s]
  <1>1. p \in PlayerRecord
    BY DEF TypeOK
  <1>2. \A line \in {"line", "Exiting"} : Printed(s, line) \in Seq({"line", "Exiting"})
    BY <1>1 DEF Printed, InPipe, PlayerRecord
  <1>3. \A r \in PlayerRecord :
          player' = [player EXCEPT ![s] = r] => player' \in [Streams -> PlayerRecord]
    BY DEF TypeOK
  <1>4. CASE PlayerObeys(s)
    <2> DEFINE a == [p EXCEPT !.cmds = Tail(p.cmds), !.paused = ~p.paused]
               b == [p EXCEPT !.cmds = Tail(p.cmds)]
               d == Dead(s, Printed(s, "Exiting"))
    <2>1. Tail(p.cmds) \in Seq({"pause", "quit", "key"})
      BY <1>1, <1>4 DEF PlayerObeys, PlayerRecord
    <2>2. a \in PlayerRecord /\ b \in PlayerRecord
      BY <1>1, <2>1 DEF PlayerRecord
    <2>3. d \in PlayerRecord
      BY <1>2, DeadTyped
    <2>4. \E r \in {a, b, d} : player' = [player EXCEPT ![s] = r]
      <3>1. CASE player' = [player EXCEPT ![s].cmds = Tail(@), ![s].paused = ~@]
        <4>1. player' = [player EXCEPT ![s] = a]
          BY <1>1, <3>1 DEF TypeOK, PlayerRecord
        <4>2. QED BY <4>1
      <3>2. CASE player' = [player EXCEPT ![s].cmds = Tail(@)]
        <4>1. player' = [player EXCEPT ![s] = b]
          BY <1>1, <3>2 DEF TypeOK, PlayerRecord
        <4>2. QED BY <4>1
      <3>3. CASE player' = [player EXCEPT ![s] = d]
        BY <3>3
      <3>4. QED BY <1>4, <3>1, <3>2, <3>3 DEF PlayerObeys
    <2> HIDE DEF a, b, d
    <2>5. player' \in [Streams -> PlayerRecord]
      BY <1>3, <2>2, <2>3, <2>4
    <2>6. QED BY <1>4, <2>5 DEF PlayerObeys, TypeOK, mpx
  <1>5. CASE PlayerPrints(s)
    <2> DEFINE r == [p EXCEPT !.out = Printed(s, "line")]
    <2>1. r \in PlayerRecord
      BY <1>1, <1>2 DEF PlayerRecord
    <2>2. player' = [player EXCEPT ![s] = r]
      BY <1>1, <1>5 DEF PlayerPrints, TypeOK, PlayerRecord
    <2> HIDE DEF r
    <2>3. player' \in [Streams -> PlayerRecord]
      BY <1>3, <2>1, <2>2
    <2>4. QED BY <1>5, <2>3 DEF PlayerPrints, TypeOK, mpx
  <1>6. CASE PlayerEnds(s)
    <2>1. Dead(s, Printed(s, "Exiting")) \in PlayerRecord
      BY <1>2, DeadTyped
    <2>2. player' \in [Streams -> PlayerRecord]
      BY <1>3, <1>6, <2>1 DEF PlayerEnds
    <2>3. QED BY <1>6, <2>2 DEF PlayerEnds, TypeOK, mpx
  <1>7. CASE PlayerDies(s)
    <2>1. Dead(s, p.out) \in PlayerRecord
      BY <1>1, DeadTyped DEF PlayerRecord
    <2>2. player' \in [Streams -> PlayerRecord]
      BY <1>3, <1>7, <2>1 DEF PlayerDies
    <2>3. QED BY <1>7, <2>2 DEF PlayerDies, TypeOK, mpx
  <1>8. QED BY <1>4, <1>5, <1>6, <1>7 DEF PlayerStep

\* Every state the daemon reaches has the types TypeOK gives its variables.
THEOREM Typing == Spec => []TypeOK
  <1>1. Init => TypeOK
    <2> SUFFICES ASSUME Init PROVE TypeOK
      OBVIOUS
    <2>1. 1 \in Instances
      BY PlaybackAssumption DEF Instances
    <2>2. <<>> \in Seq({"pause", "quit", "key"}) /\ <<>> \in Seq({"line", "Exiting"})
      OBVIOUS
    <2>3. player \in [Streams -> PlayerRecord]
      BY <2>2 DEF Init, PlayerRecord
    <2>4. cl \in [Clients -> ClientRecord]
      BY IdleTyped DEF Init
    <2>5. status \in [Instances -> Status]
      BY DEF Init, Status
    <2>6. ld \in [Streams -> [pc: LoadPC, inst: Instances]]
      BY <2>1 DEF Init, LoadPC
    <2>7. msg \in [pc: MsgPC, inst: Instances, fd: Streams \cup {NoFd}]
      BY <2>1 DEF Init, MsgPC
    <2>8. /\ readfd \in [Instances -> Streams \cup {NoFd}]
          /\ writefd \in [Instances -> Streams \cup {NoFd}]
          /\ lock \in [Instances -> Threads \cup {Nobody}]
          /\ mutex \in Threads \cup {Nobody}
          /\ open \in [Streams -> SUBSET Ends]
          /\ crashed \in BOOLEAN
      BY DEF Init
    <2>9. QED
      BY <2>3, <2>4, <2>5, <2>6, <2>7, <2>8 DEF TypeOK
  <1>2. TypeOK /\ [Next]_vars => TypeOK'
    <2> SUFFICES ASSUME TypeOK, [Next]_vars PROVE TypeOK'
      OBVIOUS
    <2>1. CASE UNCHANGED vars
      BY <2>1 DEF vars, mpx, TypeOK
    <2>2. CASE Next
      BY <2>1, <2>2, IssueTyped, ClientTyped, LoadTyped, MsgTyped, PlayerTyped
         DEF Next, Aborted
    <2>3. QED BY <2>1, <2>2
  <1>3. QED BY <1>1, <1>2, PTL DEF Spec

-----------------------------------------------------------------------------
(* The descriptors of an instance.  What keeps them sound although client  *)
(* threads hold no lock: descriptors are stored only by a load thread that *)
(* holds the lock, each stream is stored in one instance and once, and     *)
(* everybody else only stores 0.                                           *)

\* The message thread holds the lock of the instance it looks at, and a load
\* thread the lock of the instance it publishes descriptors in.
LockHeld ==
  /\ msg.pc \in UnloadPC \cup {"check", "enter", "read", "next"} => lock[msg.inst] = MsgThread
  /\ \A s \in Streams :
       ld[s].pc \in {"publishRead", "publishWrite"} => lock[ld[s].inst] = s

Published == {"fork", "wait", "hangup", "mark", "done"}

\* Only the instance a stream was loaded into refers to it, and not before its
\* load thread has published it there.
OwnStreams ==
  \A i \in Instances, s \in Streams :
    /\ readfd[i] = s => ld[s].inst = i /\ ld[s].pc \in Published \cup {"publishWrite"}
    /\ writefd[i] = s => ld[s].inst = i /\ ld[s].pc \in Published

\* Nobody closes a pipe before it is published.
Fresh ==
  \A s \in Streams :
    /\ ld[s].pc = "publishRead" => {"rd", "wr"} \subseteq open[s]
    /\ ld[s].pc = "publishWrite" => "wr" \in open[s]

\* The two descriptors of an instance belong to one stream, except while a
\* load thread is between its two stores.
Paired ==
  \A i \in Instances :
    \/ readfd[i] = NoFd
    \/ writefd[i] \in {readfd[i], NoFd}
    \/ \E s \in Streams : ld[s].pc = "publishWrite" /\ ld[s].inst = i

BetweenStores ==
  \A s \in Streams : ld[s].pc = "publishWrite" => readfd[ld[s].inst] \in {s, NoFd}

\* The message thread has no descriptor before it reads one.
NotYetRead == msg.pc \in {"begin", "lock", "check", "enter"} => msg.fd = NoFd

DescriptorInv ==
  /\ TypeOK
  /\ LockHeld
  /\ OwnStreams
  /\ Fresh
  /\ Paired
  /\ BetweenStores
  /\ NotYetRead
  /\ NoDanglingDescriptor
  /\ UnloadsOnlyWhatEnded

\* Steps that touch no descriptor of an instance: threads move between labels
\* that mean the same to the invariant, unloaders stay where they are.
LEMMA QuietStep ==
  ASSUME DescriptorInv, TypeOK', LockHeld',
         UNCHANGED <<readfd, writefd, msg>>,
         \A c \in Clients : cl[c].pc \in UnloadPC => cl'[c] = cl[c],
         \A s \in Streams : open[s] \ {"peer"} \subseteq open'[s],
         \A s \in Streams :
           \/ ld'[s] = ld[s]
           \/ ld[s].pc \in Published /\ ld'[s].pc \in Published /\ ld'[s].inst = ld[s].inst
           \/ ld[s].pc \in {"unused", "get", "lock"} /\ ld'[s].pc \in {"get", "lock", "done"}
  PROVE  DescriptorInv'
  <1>1. OwnStreams'
    BY DEF DescriptorInv, OwnStreams, Published
  <1>2. Fresh'
    BY DEF DescriptorInv, Fresh, Published
  <1>3. Paired'
    BY DEF DescriptorInv, Paired, Published
  <1>4. BetweenStores'
    BY DEF DescriptorInv, BetweenStores, Published
  <1>5. \A i \in Instances, labels \in SUBSET UnloadPC :
          UnloadAt(i, labels) => UnloadAt(i, labels)'
    BY DEF UnloadAt
  <1>6. NoDanglingDescriptor'
    BY <1>5 DEF DescriptorInv, NoDanglingDescriptor, UnloadPC
  <1>7. NotYetRead' /\ UnloadsOnlyWhatEnded'
    BY DEF DescriptorInv, NotYetRead, UnloadsOnlyWhatEnded
  <1>8. QED
    BY <1>1, <1>2, <1>3, <1>4, <1>6, <1>7 DEF DescriptorInv

\* Steps that forget descriptors: an instance's descriptor is kept or set to 0.
LEMMA ForgettingStep ==
  ASSUME DescriptorInv, TypeOK', UNCHANGED <<ld, lock>>,
         \A i \in Instances : readfd'[i] \in {readfd[i], NoFd} /\ writefd'[i] \in {writefd[i], NoFd},
         \A s \in Streams : ld[s].pc \in {"publishRead", "publishWrite"} => open'[s] = open[s]
  PROVE  OwnStreams' /\ Fresh' /\ Paired' /\ BetweenStores'
  <1>1. NoFd \notin Streams
    BY PlaybackAssumption
  <1>2. \A s \in Streams : ld[s].inst \in Instances
    BY DEF DescriptorInv, TypeOK
  <1>3. OwnStreams'
    BY <1>1 DEF DescriptorInv, OwnStreams
  <1>4. Fresh'
    BY DEF DescriptorInv, Fresh
  <1>5. Paired'
    BY DEF DescriptorInv, Paired
  <1>6. BetweenStores'
    BY <1>2 DEF DescriptorInv, BetweenStores
  <1>7. QED BY <1>3, <1>4, <1>5, <1>6

\* A thread that unloads instance i moves on as it closes and forgets the
\* descriptors; the other unloaders stay where they are.
LEMMA UnloadStep ==
  ASSUME DescriptorInv, TypeOK', UNCHANGED <<ld, lock>>,
         NEW i \in Instances, NEW label \in UnloadPC, Unload(label, i),
         label = "closeRead" => UnloadAt(i, {"closeWrite", "clearRead"})',
         label = "closeWrite" => UnloadAt(i, {"closeWrite", "clearRead"})',
         label = "closeWrite" => UnloadAt(i, {"clearRead", "clearWrite"})',
         label = "clearRead" => UnloadAt(i, {"clearRead", "clearWrite"})',
         \A j \in Instances, labels \in SUBSET UnloadPC :
           UnloadAt(j, labels) /\ ~(j = i /\ label \in labels) => UnloadAt(j, labels)'
  PROVE  /\ OwnStreams' /\ Fresh' /\ Paired' /\ BetweenStores' /\ NoDanglingDescriptor'
         /\ \A j \in Instances :
              readfd'[j] \in {readfd[j], NoFd} /\ writefd'[j] \in {writefd[j], NoFd}
  <1>1. NoFd \notin Streams
    BY PlaybackAssumption
  <1>2. \A j \in Instances :
          readfd'[j] \in {readfd[j], NoFd} /\ writefd'[j] \in {writefd[j], NoFd}
    BY DEF Unload, mpx, DescriptorInv, TypeOK
  <1>3. \A s \in Streams :
          \/ open'[s] = open[s]
          \/ label = "closeRead" /\ readfd[i] = s /\ open'[s] = open[s] \ {"rd"}
          \/ label = "closeWrite" /\ writefd[i] = s /\ open'[s] = open[s] \ {"wr"}
    BY DEF Unload, Without, UnloadPC
  <1>4. Fresh'
    <2>1. ASSUME NEW s \in Streams, ld[s].pc = "publishRead"
          PROVE  open'[s] = open[s]
      BY <1>3, <2>1 DEF DescriptorInv, OwnStreams, Published
    <2>2. ASSUME NEW s \in Streams, ld[s].pc = "publishWrite"
          PROVE  open'[s] \in {open[s], open[s] \ {"rd"}}
      BY <1>3, <2>2 DEF DescriptorInv, OwnStreams, Published
    <2>3. QED BY <2>1, <2>2 DEF DescriptorInv, Fresh
  <1>5. OwnStreams' /\ Paired' /\ BetweenStores'
    <2>1. OwnStreams'
      BY <1>1, <1>2 DEF DescriptorInv, OwnStreams
    <2>2. Paired'
      BY <1>2 DEF DescriptorInv, Paired
    <2>3. BetweenStores'
      BY <1>2 DEF DescriptorInv, BetweenStores, TypeOK
    <2>4. QED BY <2>1, <2>2, <2>3
  <1>6. ASSUME NEW j \in Instances, NEW s \in Streams,
               readfd'[j] = s, "rd" \notin open'[s]
        PROVE  UnloadAt(j, {"closeWrite", "clearRead"})'
    <2> DEFINE labels == {"closeWrite", "clearRead"}
    <2>1. readfd[j] = s
      BY <1>1, <1>2, <1>6
    <2>2. CASE "rd" \in open[s]
      <3>1. label = "closeRead" /\ readfd[i] = s
        BY <1>3, <1>6, <2>2
      <3>2. i = j
        BY <2>1, <3>1 DEF DescriptorInv, OwnStreams
      <3>3. QED BY <3>1, <3>2
    <2>3. CASE "rd" \notin open[s]
      <3>1. UnloadAt(j, labels)
        BY <2>1, <2>3 DEF DescriptorInv, NoDanglingDescriptor
      <3>2. CASE j = i /\ label \in labels
        <4>1. label # "clearRead"
          BY <1>1, <1>6, <3>2 DEF Unload, DescriptorInv, TypeOK
        <4>2. QED BY <3>2, <4>1
      <3>3. CASE ~(j = i /\ label \in labels)
        BY <3>1, <3>3 DEF UnloadPC
      <3>4. QED BY <3>2, <3>3
    <2>4. QED BY <2>2, <2>3
  <1>7. ASSUME NEW j \in Instances, NEW s \in Streams,
               writefd'[j] = s, "wr" \notin open'[s]
        PROVE  UnloadAt(j, {"clearRead", "clearWrite"})'
    <2> DEFINE labels == {"clearRead", "clearWrite"}
    <2>1. writefd[j] = s
      BY <1>1, <1>2, <1>7
    <2>2. CASE "wr" \in open[s]
      <3>1. label = "closeWrite" /\ writefd[i] = s
        BY <1>3, <1>7, <2>2
      <3>2. i = j
        BY <2>1, <3>1 DEF DescriptorInv, OwnStreams
      <3>3. QED BY <3>1, <3>2
    <2>3. CASE "wr" \notin open[s]
      <3>1. UnloadAt(j, labels)
        BY <2>1, <2>3 DEF DescriptorInv, NoDanglingDescriptor
      <3>2. CASE j = i /\ label \in labels
        <4>1. label # "clearWrite"
          BY <1>1, <1>7, <3>2 DEF Unload, DescriptorInv, TypeOK
        <4>2. QED BY <3>2, <4>1
      <3>3. CASE ~(j = i /\ label \in labels)
        BY <3>1, <3>3 DEF UnloadPC
      <3>4. QED BY <3>2, <3>3
    <2>4. QED BY <2>2, <2>3
  <1>8. NoDanglingDescriptor'
    BY <1>6, <1>7 DEF NoDanglingDescriptor
  <1>9. QED BY <1>2, <1>4, <1>5, <1>8

\* A client thread changes its own record only, and unloads step by step.
LEMMA ClientMoves ==
  ASSUME TypeOK, NEW c \in Clients, ClientStep(c)
  PROVE  /\ \A d \in Clients \ {c} : cl'[d] = cl[d]
         /\ cl[c].pc \in UnloadPC => ClientUnload(c)
  BY DEF ClientStep, VolumeLock, LoadZeroRead, LoadStart, PauseEntry, CommandCheck, WritePipe,
         WriteStdin, WriteFails, ToggleRead, ToggleWrite, ClientUnload, At, Goto, PauseReturns,
         UnloadPC, TypeOK

\* No step of a client thread upsets the descriptors.
LEMMA ClientDescriptors ==
  ASSUME DescriptorInv, TypeOK', NEW c \in Clients, ClientStep(c)
  PROVE  DescriptorInv'
  <1>1. /\ \A d \in Clients \ {c} : cl'[d] = cl[d]
        /\ cl[c].pc \in UnloadPC => ClientUnload(c)
    BY ClientMoves DEF DescriptorInv
  <1>2. Inst(c) \in Instances /\ NoFd \notin Streams /\ MsgThread # Nobody
        /\ \A s \in Streams : s # Nobody
    BY PlaybackAssumption DEF DescriptorInv, TypeOK, Inst, ClientRecord, Threads
  <1>3. CASE cl[c].pc \notin UnloadPC /\ UNCHANGED <<readfd, writefd, ld, open>>
    <2>1. \A d \in Clients : cl[d].pc \in UnloadPC => cl'[d] = cl[d]
      BY <1>1, <1>3
    <2>2. UNCHANGED msg
      BY DEF ClientStep, VolumeLock, LoadZeroRead, LoadStart, PauseEntry, CommandCheck,
             WritePipe, WriteStdin, WriteFails, ToggleRead, ToggleWrite, ClientUnload
    <2>3. UNCHANGED lock \/ VolumeLock(c)
      BY DEF ClientStep, LoadZeroRead, LoadStart, PauseEntry, CommandCheck,
             WritePipe, WriteStdin, WriteFails, ToggleRead, ToggleWrite, ClientUnload
    <2>4. LockHeld'
      BY <1>2, <1>3, <2>2, <2>3 DEF DescriptorInv, LockHeld, VolumeLock, TypeOK
    <2>5. QED BY <1>3, <2>1, <2>2, <2>4, QuietStep
  <1>4. CASE LoadZeroRead(c) \/ LoadStart(c)
    <2>1. cl[c].pc \notin UnloadPC
      BY <1>4 DEF LoadZeroRead, LoadStart, At, UnloadPC
    <2>2. /\ \A i \in Instances : /\ readfd'[i] \in {readfd[i], NoFd}
                                  /\ writefd'[i] \in {writefd[i], NoFd}
          /\ UNCHANGED <<lock, msg, open>>
      BY <1>4 DEF LoadZeroRead, LoadStart, DescriptorInv, TypeOK
    <2>3. \A s \in Streams : ld'[s] = ld[s] \/ (ld[s].pc = "unused" /\ ld'[s].pc = "get")
      <3>1. CASE UNCHANGED ld
        BY <3>1
      <3>2. CASE \E t \in Streams : /\ ld[t].pc = "unused"
                                    /\ ld' = [ld EXCEPT ![t] = [pc |-> "get", inst |-> Inst(c)]]
        BY <3>2 DEF DescriptorInv, TypeOK
      <3>3. QED BY <1>4, <3>1, <3>2 DEF LoadZeroRead, LoadStart
    <2>4. LockHeld'
      BY <2>2, <2>3 DEF DescriptorInv, LockHeld
    <2>5. OwnStreams' /\ Fresh' /\ Paired' /\ BetweenStores'
      <3>1. OwnStreams'
        BY <1>2, <2>2, <2>3 DEF DescriptorInv, OwnStreams, Published
      <3>2. Fresh'
        BY <2>2, <2>3 DEF DescriptorInv, Fresh
      <3>3. Paired'
        BY <2>2, <2>3 DEF DescriptorInv, Paired
      <3>4. BetweenStores'
        BY <2>2, <2>3 DEF DescriptorInv, BetweenStores, TypeOK
      <3>5. QED BY <3>1, <3>2, <3>3, <3>4
    <2>6. \A i \in Instances, labels \in SUBSET UnloadPC :
            UnloadAt(i, labels) => UnloadAt(i, labels)'
      BY <1>1, <2>1, <2>2 DEF UnloadAt
    <2>7. NoDanglingDescriptor'
      BY <1>2, <2>2, <2>6 DEF DescriptorInv, NoDanglingDescriptor, UnloadPC
    <2>8. NotYetRead' /\ UnloadsOnlyWhatEnded'
      BY <2>2 DEF DescriptorInv, NotYetRead, UnloadsOnlyWhatEnded, TypeOK
    <2>9. QED BY <2>4, <2>5, <2>7, <2>8 DEF DescriptorInv
  <1>5. CASE ClientUnload(c)
    <2>1. PICK i \in Instances, label \in UnloadPC : i = Inst(c) /\ label = cl[c].pc
      BY <1>2, <1>5 DEF ClientUnload
    <2>2. Unload(label, i) /\ UNCHANGED <<ld, lock, msg>>
      BY <1>5, <2>1 DEF ClientUnload
    <2>3. /\ label = "closeRead" => cl'[c].pc = "closeWrite" /\ cl'[c].inst = i
          /\ label = "closeWrite" => cl'[c].pc = "clearRead" /\ cl'[c].inst = i
          /\ label = "clearRead" => cl'[c].pc = "clearWrite" /\ cl'[c].inst = i
      BY <1>5, <2>1 DEF ClientUnload, Goto, AfterUnload, DescriptorInv, TypeOK, ClientRecord, Inst
    <2>4. /\ label = "closeRead" => UnloadAt(i, {"closeWrite", "clearRead"})'
          /\ label = "closeWrite" => UnloadAt(i, {"closeWrite", "clearRead"})'
          /\ label = "closeWrite" => UnloadAt(i, {"clearRead", "clearWrite"})'
          /\ label = "clearRead" => UnloadAt(i, {"clearRead", "clearWrite"})'
      BY <2>3 DEF UnloadAt
    <2>5. \A j \in Instances, labels \in SUBSET UnloadPC :
            UnloadAt(j, labels) /\ ~(j = i /\ label \in labels) => UnloadAt(j, labels)'
      BY <1>1, <2>1, <2>2 DEF UnloadAt, Inst
    <2>6. /\ OwnStreams' /\ Fresh' /\ Paired' /\ BetweenStores' /\ NoDanglingDescriptor'
          /\ \A j \in Instances :
               readfd'[j] \in {readfd[j], NoFd} /\ writefd'[j] \in {writefd[j], NoFd}
      BY <2>2, <2>4, <2>5, UnloadStep
    <2>7. LockHeld' /\ NotYetRead'
      BY <2>2 DEF DescriptorInv, LockHeld, NotYetRead
    <2>8. UnloadsOnlyWhatEnded'
      BY <2>2, <2>6 DEF DescriptorInv, UnloadsOnlyWhatEnded, TypeOK
    <2>9. QED BY <2>6, <2>7, <2>8 DEF DescriptorInv
  <1>6. QED
    BY <1>1, <1>3, <1>4, <1>5
       DEF ClientStep, VolumeLock, PauseEntry, CommandCheck, WritePipe,
           WriteStdin, WriteFails, ToggleRead, ToggleWrite, mpx

\* The stores of a load thread are under the lock, and the stream it stores
\* is one that nobody has referred to or closed.
LEMMA LoadDescriptors ==
  ASSUME DescriptorInv, TypeOK', NEW s \in Streams, LoadStep(s)
  PROVE  DescriptorInv'
  <1>1. UNCHANGED <<cl, msg>> /\ \A t \in Streams \ {s} : ld'[t] = ld[t]
    BY DEF LoadStep, LoadGet, LoadLock, PipeFails, LoadPublishRead, LoadPublishWrite, LoadFork,
           ForkFails, LoadWait, LoadHangup, LoadMark, LoadGoto, DescriptorInv, TypeOK
  <1>2. /\ ld[s].inst \in Instances /\ NoFd \notin Streams
        /\ MsgThread \notin Streams /\ Nobody \notin Threads
    BY PlaybackAssumption DEF DescriptorInv, TypeOK
  <1>3. \A label : LoadGoto(s, label) => ld'[s].pc = label /\ ld'[s].inst = ld[s].inst
    BY DEF LoadGoto, DescriptorInv, TypeOK
  <1>4. \A i \in Instances, labels \in SUBSET UnloadPC :
          UnloadAt(i, labels) => UnloadAt(i, labels)'
    BY <1>1 DEF UnloadAt
  <1>5. NotYetRead'
    BY <1>1 DEF DescriptorInv, NotYetRead
  <1>6. CASE LoadGet(s) \/ PipeFails(s) \/ LoadFork(s) \/ ForkFails(s) \/ LoadWait(s)
             \/ LoadHangup(s) \/ LoadMark(s)
    <2>1. UNCHANGED <<readfd, writefd>>
      BY <1>6 DEF LoadGet, PipeFails, LoadFork, ForkFails, LoadWait, LoadHangup, LoadMark, mpx
    <2>2. \A t \in Streams : open[t] \ {"peer"} \subseteq open'[t]
      BY <1>6 DEF LoadGet, PipeFails, LoadFork, ForkFails, LoadWait, LoadHangup, LoadMark,
                  DescriptorInv, TypeOK
    <2>3. \/ ld[s].pc \in Published /\ ld'[s].pc \in Published /\ ld'[s].inst = ld[s].inst
          \/ ld[s].pc \in {"unused", "get", "lock"} /\ ld'[s].pc \in {"get", "lock", "done"}
      BY <1>3, <1>6 DEF LoadGet, PipeFails, LoadFork, ForkFails, LoadWait, LoadHangup, LoadMark,
                        LoadAt, Published
    <2>4. \A t \in Streams : ld'[t].pc \in {"publishRead", "publishWrite"} => ld'[t] = ld[t]
      BY <1>1, <2>3 DEF Published
    <2>5. \A i \in Instances : lock'[i] = lock[i] \/ lock[i] = Nobody
      BY <1>2, <1>6 DEF LoadGet, PipeFails, LoadFork, ForkFails, LoadWait, LoadHangup, LoadMark,
                        DescriptorInv, TypeOK
    <2>6. LockHeld'
      BY <1>1, <1>2, <2>4, <2>5 DEF DescriptorInv, LockHeld, TypeOK, Threads
    <2>7. QED BY <1>1, <2>1, <2>2, <2>3, <2>6, QuietStep
  <1>7. CASE LoadLock(s)
    <2>1. /\ lock[ld[s].inst] = Nobody /\ ld[s].pc = "lock"
          /\ lock' = [lock EXCEPT ![ld[s].inst] = s]
          /\ open' = [open EXCEPT ![s] = Ends]
          /\ UNCHANGED <<readfd, writefd>>
          /\ ld'[s].pc = "publishRead" /\ ld'[s].inst = ld[s].inst
      BY <1>3, <1>7 DEF LoadLock, LoadAt
    <2>2. LockHeld'
      <3>1. /\ lock'[ld[s].inst] = s
            /\ \A i \in Instances : lock[i] # Nobody => lock'[i] = lock[i]
        BY <1>2, <2>1 DEF DescriptorInv, TypeOK
      <3>2. msg.inst \in Instances /\ \A t \in Streams : ld[t].inst \in Instances
        BY DEF DescriptorInv, TypeOK
      <3>3. MsgThread # Nobody /\ \A t \in Streams : t # Nobody
        BY <1>2 DEF Threads
      <3>. QED BY <1>1, <2>1, <3>1, <3>2, <3>3 DEF DescriptorInv, LockHeld
    <2>3. OwnStreams'
      BY <1>1, <2>1 DEF DescriptorInv, OwnStreams, Published
    <2>4. Fresh'
      BY <1>1, <2>1 DEF DescriptorInv, Fresh, Ends, TypeOK
    <2>5. Paired' /\ BetweenStores'
      BY <1>1, <2>1 DEF DescriptorInv, Paired, BetweenStores
    <2>6. NoDanglingDescriptor'
      BY <1>4, <2>1 DEF DescriptorInv, NoDanglingDescriptor, Ends, UnloadPC, TypeOK
    <2>7. UnloadsOnlyWhatEnded'
      BY <1>1, <2>1 DEF DescriptorInv, UnloadsOnlyWhatEnded
    <2>8. QED BY <1>5, <2>2, <2>3, <2>4, <2>5, <2>6, <2>7 DEF DescriptorInv
  <1>8. CASE LoadPublishRead(s)
    <2>1. /\ ld[s].pc = "publishRead" /\ UNCHANGED <<lock, open, writefd>>
          /\ readfd' = [readfd EXCEPT ![ld[s].inst] = s]
          /\ ld'[s].pc = "publishWrite" /\ ld'[s].inst = ld[s].inst
      BY <1>3, <1>8 DEF LoadPublishRead, LoadAt
    <2>2. LockHeld'
      BY <1>1, <2>1 DEF DescriptorInv, LockHeld
    <2>3. OwnStreams'
      BY <1>1, <1>2, <2>1 DEF DescriptorInv, OwnStreams, Published, TypeOK
    <2>4. Fresh'
      BY <1>1, <2>1 DEF DescriptorInv, Fresh
    <2>5. Paired'
      BY <1>1, <1>2, <2>1 DEF DescriptorInv, Paired, TypeOK
    <2>6. BetweenStores'
      <3> SUFFICES ASSUME NEW t \in Streams, ld'[t].pc = "publishWrite"
                   PROVE  readfd'[ld'[t].inst] \in {t, NoFd}
        BY DEF BetweenStores
      <3>1. CASE t = s
        BY <1>2, <2>1, <3>1 DEF DescriptorInv, TypeOK
      <3>2. CASE t # s
        <4>1. ld'[t] = ld[t] /\ readfd[ld[t].inst] \in {t, NoFd}
          BY <1>1, <3>2 DEF DescriptorInv, BetweenStores
        <4>2. ld[t].inst # ld[s].inst
          BY <2>1, <3>2, <4>1 DEF DescriptorInv, LockHeld
        <4>3. readfd'[ld[t].inst] = readfd[ld[t].inst]
          BY <2>1, <4>2 DEF DescriptorInv, TypeOK
        <4>. QED BY <4>1, <4>3
      <3>. QED BY <3>1, <3>2
    <2>7. NoDanglingDescriptor'
      BY <1>2, <1>4, <2>1 DEF DescriptorInv, NoDanglingDescriptor, Fresh, UnloadPC, TypeOK
    <2>8. UnloadsOnlyWhatEnded'
      BY <1>1, <1>2, <2>1 DEF DescriptorInv, UnloadsOnlyWhatEnded, LockHeld, TypeOK
    <2>9. QED BY <1>5, <2>2, <2>3, <2>4, <2>5, <2>6, <2>7, <2>8 DEF DescriptorInv
  <1>9. CASE LoadPublishWrite(s)
    <2>1. /\ ld[s].pc = "publishWrite" /\ UNCHANGED <<open, readfd>>
          /\ writefd' = [writefd EXCEPT ![ld[s].inst] = s]
          /\ lock' = [lock EXCEPT ![ld[s].inst] = Nobody]
          /\ ld'[s].pc = "fork" /\ ld'[s].inst = ld[s].inst
      BY <1>3, <1>9 DEF LoadPublishWrite, LoadAt
    <2>2. LockHeld'
      BY <1>1, <1>2, <2>1 DEF DescriptorInv, LockHeld, TypeOK
    <2>3. OwnStreams'
      BY <1>1, <1>2, <2>1 DEF DescriptorInv, OwnStreams, Published, TypeOK
    <2>4. Fresh'
      BY <1>1, <2>1 DEF DescriptorInv, Fresh
    <2>5. Paired'
      BY <1>1, <1>2, <2>1 DEF DescriptorInv, Paired, BetweenStores, TypeOK
    <2>6. BetweenStores'
      BY <1>1, <2>1 DEF DescriptorInv, BetweenStores
    <2>7. NoDanglingDescriptor'
      BY <1>2, <1>4, <2>1 DEF DescriptorInv, NoDanglingDescriptor, Fresh, UnloadPC, TypeOK
    <2>8. UnloadsOnlyWhatEnded'
      BY <1>1, <1>2, <2>1 DEF DescriptorInv, UnloadsOnlyWhatEnded, LockHeld, TypeOK
    <2>9. QED BY <1>5, <2>2, <2>3, <2>4, <2>5, <2>6, <2>7, <2>8 DEF DescriptorInv
  <1>10. QED BY <1>6, <1>7, <1>8, <1>9 DEF LoadStep

\* While the message thread reads and unloads an instance it holds its lock,
\* so that no load thread publishes descriptors there.
LEMMA MsgDescriptors ==
  ASSUME DescriptorInv, TypeOK', MsgStep
  PROVE  DescriptorInv'
  <1>1. UNCHANGED <<cl, ld>> /\ msg \in [pc: MsgPC, inst: Instances, fd: Streams \cup {NoFd}]
    BY DEF MsgStep, MsgBegin, MsgLock, MsgCheck, MsgEnter, MsgReadLines, MsgReadEnd, MsgReadStdin,
           MsgUnload, MsgNext, DescriptorInv, TypeOK
  <1>2. /\ \A s \in Streams : ld[s].inst \in Instances
        /\ NoFd \notin Streams /\ MsgThread \notin Streams /\ Nobody \notin Threads
    BY PlaybackAssumption DEF DescriptorInv, TypeOK
  <1>3. \A label : MsgGoto(label) =>
          msg'.pc = label /\ msg'.inst = msg.inst /\ msg'.fd = msg.fd
    BY <1>1 DEF MsgGoto
  <1>4. CASE ~(msg.pc \in UnloadPC)
    <2>1. UNCHANGED <<readfd, writefd, open>>
      BY <1>4 DEF MsgStep, MsgBegin, MsgLock, MsgCheck, MsgEnter, MsgReadLines, MsgReadEnd,
                  MsgReadStdin, MsgUnload, MsgNext, mpx
    <2>2. OwnStreams' /\ Fresh' /\ Paired' /\ BetweenStores'
      BY <1>1, <2>1 DEF DescriptorInv, OwnStreams, Fresh, Paired, BetweenStores
    <2>3. \A i \in Instances, labels \in SUBSET UnloadPC :
            UnloadAt(i, labels) => UnloadAt(i, labels)'
      BY <1>1, <1>4 DEF UnloadAt
    <2>4. NoDanglingDescriptor'
      BY <2>1, <2>3 DEF DescriptorInv, NoDanglingDescriptor, UnloadPC
    <2>5. CASE MsgBegin
      <3>1. msg'.pc = "lock" /\ msg'.fd = msg.fd /\ msg.pc = "begin" /\ UNCHANGED lock
        BY <1>3, <2>5 DEF MsgBegin, MsgAt
      <3>2. LockHeld' /\ NotYetRead' /\ UnloadsOnlyWhatEnded'
        BY <1>1, <3>1 DEF DescriptorInv, LockHeld, NotYetRead, UnloadsOnlyWhatEnded, UnloadPC
      <3>3. QED BY <2>2, <2>4, <3>2 DEF DescriptorInv
    <2>6. CASE MsgLock
      <3>1. /\ msg.pc = "lock" /\ lock[msg.inst] = Nobody
            /\ lock' = [lock EXCEPT ![msg.inst] = MsgThread]
            /\ msg'.pc \in {"check", "next"} /\ msg'.inst = msg.inst /\ msg'.fd = msg.fd
        BY <1>1, <2>6 DEF MsgLock, MsgAt
      <3>2. LockHeld'
        BY <1>1, <1>2, <3>1 DEF DescriptorInv, LockHeld, TypeOK, Threads
      <3>3. NotYetRead' /\ UnloadsOnlyWhatEnded'
        BY <1>1, <3>1 DEF DescriptorInv, NotYetRead, UnloadsOnlyWhatEnded, UnloadPC
      <3>4. QED BY <2>2, <2>4, <3>2, <3>3 DEF DescriptorInv
    <2>7. CASE MsgCheck
      <3>1. /\ msg.pc = "check" /\ UNCHANGED lock /\ msg'.inst = msg.inst /\ msg'.fd = msg.fd
            /\ msg'.pc = IF readfd[msg.inst] = NoFd THEN "closeRead" ELSE "enter"
        BY <1>3, <2>7 DEF MsgCheck, MsgAt
      <3>2. LockHeld' /\ NotYetRead'
        BY <1>1, <3>1 DEF DescriptorInv, LockHeld, NotYetRead
      <3>3. UnloadsOnlyWhatEnded'
        BY <2>1, <3>1 DEF DescriptorInv, NotYetRead, UnloadsOnlyWhatEnded, UnloadPC
      <3>4. QED BY <2>2, <2>4, <3>2, <3>3 DEF DescriptorInv
    <2>8. CASE MsgEnter
      <3>1. /\ msg.pc = "enter" /\ UNCHANGED lock /\ msg'.inst = msg.inst
            /\ msg'.fd = readfd[msg.inst] /\ msg'.pc \in {"closeRead", "read"}
        BY <1>1, <2>8 DEF MsgEnter, MsgAt
      <3>2. LockHeld' /\ NotYetRead'
        BY <1>1, <3>1 DEF DescriptorInv, LockHeld, NotYetRead
      <3>3. lock[msg.inst] = MsgThread
        BY <3>1 DEF DescriptorInv, LockHeld
      <3>4. ~\E s \in Streams : ld[s].pc = "publishWrite" /\ ld[s].inst = msg.inst
        BY <1>2, <3>3 DEF DescriptorInv, LockHeld
      <3>5. UnloadsOnlyWhatEnded'
        BY <1>1, <2>1, <3>1, <3>4 DEF DescriptorInv, Paired, UnloadsOnlyWhatEnded
      <3>6. QED BY <2>2, <2>4, <3>2, <3>5 DEF DescriptorInv
    <2>9. CASE MsgReadLines \/ MsgReadEnd \/ MsgReadStdin
      <3>1. /\ msg.pc = "read" /\ UNCHANGED lock /\ msg'.inst = msg.inst /\ msg'.fd = msg.fd
            /\ msg'.pc \in {"closeRead", "next"}
        BY <1>3, <2>9 DEF MsgReadLines, MsgReadEnd, MsgReadStdin, MsgAt
      <3>2. LockHeld' /\ NotYetRead'
        BY <1>1, <3>1 DEF DescriptorInv, LockHeld, NotYetRead
      <3>3. UnloadsOnlyWhatEnded'
        BY <2>1, <3>1 DEF DescriptorInv, UnloadsOnlyWhatEnded
      <3>4. QED BY <2>2, <2>4, <3>2, <3>3 DEF DescriptorInv
    <2>10. CASE MsgNext
      <3>1. /\ msg.pc = "next" /\ lock' = [lock EXCEPT ![msg.inst] = Nobody]
            /\ msg'.pc \in {"lock", "begin"} /\ msg'.fd = NoFd
        BY <2>10 DEF MsgNext, MsgAt
      <3>2. LockHeld'
        BY <1>1, <1>2, <3>1 DEF DescriptorInv, LockHeld, UnloadPC, TypeOK
      <3>3. NotYetRead' /\ UnloadsOnlyWhatEnded'
        BY <3>1 DEF NotYetRead, UnloadsOnlyWhatEnded, UnloadPC
      <3>4. QED BY <2>2, <2>4, <3>2, <3>3 DEF DescriptorInv
    <2>11. QED
      BY <1>4, <2>5, <2>6, <2>7, <2>8, <2>9, <2>10 DEF MsgStep, MsgUnload
  <1>5. CASE msg.pc \in UnloadPC
    <2>1. PICK i \in Instances, label \in UnloadPC : i = msg.inst /\ label = msg.pc
      BY <1>1, <1>5
    <2>2. MsgUnload
      BY <1>5 DEF MsgStep, MsgBegin, MsgLock, MsgCheck, MsgEnter, MsgReadLines, MsgReadEnd,
                  MsgReadStdin, MsgNext, MsgAt, UnloadPC
    <2>3. Unload(label, i) /\ UNCHANGED <<ld, lock, cl>>
      BY <2>1, <2>2 DEF MsgUnload
    <2>4. /\ msg'.inst = i /\ msg'.fd = msg.fd /\ msg'.pc = AfterUnload(label, "next")
          /\ msg'.pc \in UnloadPC \cup {"next"}
      BY <1>3, <2>1, <2>2, AfterUnloadTyped DEF MsgUnload
    <2>5. /\ label = "closeRead" => UnloadAt(i, {"closeWrite", "clearRead"})'
          /\ label = "closeWrite" => UnloadAt(i, {"closeWrite", "clearRead"})'
          /\ label = "closeWrite" => UnloadAt(i, {"clearRead", "clearWrite"})'
          /\ label = "clearRead" => UnloadAt(i, {"clearRead", "clearWrite"})'
      BY <2>4 DEF UnloadAt, AfterUnload
    <2>6. \A j \in Instances, labels \in SUBSET UnloadPC :
            UnloadAt(j, labels) /\ ~(j = i /\ label \in labels) => UnloadAt(j, labels)'
      BY <2>1, <2>3 DEF UnloadAt
    <2>7. /\ OwnStreams' /\ Fresh' /\ Paired' /\ BetweenStores' /\ NoDanglingDescriptor'
          /\ \A j \in Instances :
               readfd'[j] \in {readfd[j], NoFd} /\ writefd'[j] \in {writefd[j], NoFd}
      BY <2>3, <2>5, <2>6, UnloadStep
    <2>8. LockHeld' /\ NotYetRead'
      BY <2>1, <2>3, <2>4 DEF DescriptorInv, LockHeld, NotYetRead, UnloadPC
    <2>9. UnloadsOnlyWhatEnded'
      BY <2>1, <2>4, <2>7 DEF DescriptorInv, UnloadsOnlyWhatEnded
    <2>10. QED BY <2>7, <2>8, <2>9 DEF DescriptorInv
  <1>6. QED BY <1>4, <1>5

\* The environment and a client that issues a command touch no descriptor.
LEMMA OtherDescriptors ==
  ASSUME DescriptorInv, TypeOK',
         \/ UNCHANGED vars
         \/ \E s \in Streams : PlayerStep(s)
         \/ \E c \in Clients, op \in Commands, i \in Instances : Issue(c, op, i)
  PROVE  DescriptorInv'
  <1>1. UNCHANGED <<readfd, writefd, lock, ld, msg, open>>
    BY DEF vars, mpx, PlayerStep, PlayerObeys, PlayerPrints, PlayerEnds, PlayerDies, Issue
  <1>2. \A c \in Clients : cl[c].pc \in UnloadPC => cl'[c] = cl[c]
    BY DEF vars, PlayerStep, PlayerObeys, PlayerPrints, PlayerEnds, PlayerDies, Issue, At,
           UnloadPC, DescriptorInv, TypeOK
  <1>3. LockHeld'
    BY <1>1 DEF DescriptorInv, LockHeld
  <1>4. QED BY <1>1, <1>2, <1>3, QuietStep

\* The invariant of the descriptors holds in every state the daemon reaches.
THEOREM Descriptors == Spec => []DescriptorInv
  <1>1. Init /\ TypeOK => DescriptorInv
    <2>1. NoFd \notin Streams
      BY PlaybackAssumption
    <2>2. QED
      BY <2>1 DEF Init, DescriptorInv, LockHeld, OwnStreams, Fresh, Paired, BetweenStores,
                  NotYetRead, NoDanglingDescriptor, UnloadsOnlyWhatEnded, UnloadPC
  <1>2. DescriptorInv /\ TypeOK' /\ [Next]_vars => DescriptorInv'
    BY ClientDescriptors, LoadDescriptors, MsgDescriptors, OtherDescriptors DEF Next, Aborted
  <1>3. QED BY <1>1, <1>2, Typing, PTL DEF Spec

\* No instance refers to a closed descriptor, except where an unload is about
\* to forget it: for any number of clients, streams and instances.
THEOREM NoDangling == Spec => []NoDanglingDescriptor
  <1>1. DescriptorInv => NoDanglingDescriptor
    BY DEF DescriptorInv
  <1>2. QED BY <1>1, Descriptors, PTL

\* The message thread tears down only the stream whose end it has read.
THEOREM UnloadsEnded == Spec => []UnloadsOnlyWhatEnded
  <1>1. DescriptorInv => UnloadsOnlyWhatEnded
    BY DEF DescriptorInv
  <1>2. QED BY <1>1, Descriptors, PTL

-----------------------------------------------------------------------------
(* Children and the load threads that wait for them.                       *)

\* Every child of the daemon that is not reaped was forked by its load thread.
Unborn ==
  \A s \in Streams :
    ld[s].pc \in {"unused", "get", "lock", "publishRead", "publishWrite", "fork"} =>
      player[s].state = "none"

Waiting == {s \in Streams : ld[s].pc = "wait"}

ChildInv == TypeOK /\ Unborn /\ Cardinality(Unreaped) = Cardinality(Waiting)

NotForked == {"unused", "get", "lock", "publishRead", "publishWrite", "fork"}

\* A step by which no child is forked or reaped and no load thread enters or
\* leaves wait().
LEMMA ChildrenStay ==
  ASSUME ChildInv, TypeOK',
         \A s \in Streams : \/ player'[s].state = player[s].state
                            \/ player[s].state = "running" /\ player'[s].state = "zombie",
         \A s \in Streams : \/ ld'[s].pc = ld[s].pc
                            \/ /\ ld[s].pc # "wait" /\ ld'[s].pc # "wait"
                               /\ ld'[s].pc \in NotForked => ld[s].pc \in NotForked
  PROVE  ChildInv'
  <1>1. Waiting' = Waiting
    BY DEF Waiting
  <1>2. Unreaped' = Unreaped
    BY DEF Unreaped
  <1>3. Unborn'
    BY DEF ChildInv, Unborn, NotForked
  <1>4. QED BY <1>1, <1>2, <1>3 DEF ChildInv

\* A load thread keeps the children and those that wait for them in step.
LEMMA LoadChildren ==
  ASSUME ChildInv, TypeOK', NEW s \in Streams, LoadStep(s)
  PROVE  ChildInv'
  <1>1. \A label : LoadGoto(s, label) =>
          ld'[s].pc = label /\ \A t \in Streams \ {s} : ld'[t] = ld[t]
    BY DEF LoadGoto, ChildInv, TypeOK
  <1>2. IsFiniteSet(Unreaped) /\ IsFiniteSet(Waiting)
    BY PlaybackAssumption, FS_Subset DEF Unreaped, Waiting
  <1>3. CASE LoadFork(s)
    <2>1. /\ ld[s].pc = "fork" /\ ld'[s].pc = "wait"
          /\ \A t \in Streams \ {s} : ld'[t] = ld[t]
      BY <1>1, <1>3 DEF LoadFork, LoadAt
    <2>2. player'[s].state = "running" /\ \A t \in Streams \ {s} : player'[t] = player[t]
      <3> DEFINE h == {t \in Streams \ {s} : "peer" \in open[t]}
      <3>1. player' = [player EXCEPT ![s].state = "running", ![s].holds = h]
        BY <1>3 DEF LoadFork
      <3> HIDE DEF h
      <3>2. QED BY <3>1 DEF ChildInv, TypeOK, PlayerRecord
    <2>3. player[s].state = "none"
      BY <2>1 DEF ChildInv, Unborn
    <2>4. Waiting' = Waiting \cup {s} /\ s \notin Waiting
      BY <2>1 DEF Waiting
    <2>5. Unreaped' = Unreaped \cup {s} /\ s \notin Unreaped
      BY <2>2, <2>3 DEF Unreaped
    <2>6. Cardinality(Unreaped \cup {s}) = Cardinality(Waiting \cup {s})
      <3>1. Cardinality(Unreaped \cup {s}) = Cardinality(Unreaped) + 1
        BY <1>2, <2>5, FS_AddElement
      <3>2. Cardinality(Waiting \cup {s}) = Cardinality(Waiting) + 1
        BY <1>2, <2>4, FS_AddElement
      <3>3. QED BY <3>1, <3>2 DEF ChildInv
    <2>7. Unborn'
      BY <2>1, <2>2 DEF ChildInv, Unborn
    <2>8. QED BY <2>4, <2>5, <2>6, <2>7 DEF ChildInv
  <1>4. CASE LoadWait(s)
    <2>1. /\ ld[s].pc = "wait" /\ ld'[s].pc = "hangup"
          /\ \A t \in Streams \ {s} : ld'[t] = ld[t]
      BY <1>1, <1>4 DEF LoadWait, LoadAt
    <2>2. PICK t \in Streams : /\ player[t].state = "zombie"
                               /\ player' = [player EXCEPT ![t].state = "reaped"]
      BY <1>4 DEF LoadWait
    <2>3. player'[t].state = "reaped" /\ \A u \in Streams \ {t} : player'[u] = player[u]
      BY <2>2 DEF ChildInv, TypeOK, PlayerRecord
    <2>4. Waiting' = Waiting \ {s} /\ s \in Waiting
      BY <2>1 DEF Waiting
    <2>5. Unreaped' = Unreaped \ {t} /\ t \in Unreaped
      BY <2>2, <2>3 DEF Unreaped
    <2>6. Cardinality(Unreaped \ {t}) = Cardinality(Waiting \ {s})
      <3>1. Cardinality(Unreaped \ {t}) = Cardinality(Unreaped) - 1
        BY <1>2, <2>5, FS_RemoveElement
      <3>2. Cardinality(Waiting \ {s}) = Cardinality(Waiting) - 1
        BY <1>2, <2>4, FS_RemoveElement
      <3>3. QED BY <3>1, <3>2 DEF ChildInv
    <2>7. Unborn'
      BY <2>1, <2>2, <2>3 DEF ChildInv, Unborn
    <2>8. QED BY <2>4, <2>5, <2>6, <2>7 DEF ChildInv
  <1>5. CASE ~LoadFork(s) /\ ~LoadWait(s)
    <2>1. UNCHANGED player
      BY <1>5 DEF LoadStep, LoadGet, LoadLock, PipeFails, LoadPublishRead, LoadPublishWrite,
                  ForkFails, LoadHangup, LoadMark
    <2>2. /\ ld[s].pc # "wait" /\ ld'[s].pc # "wait"
          /\ ld'[s].pc \in NotForked => ld[s].pc \in NotForked
          /\ \A t \in Streams \ {s} : ld'[t] = ld[t]
      BY <1>1, <1>5 DEF LoadStep, LoadGet, LoadLock, PipeFails, LoadPublishRead, LoadAt, NotForked,
                        LoadPublishWrite, ForkFails, LoadHangup, LoadMark
    <2>3. QED BY <2>1, <2>2, ChildrenStay
  <1>6. QED BY <1>3, <1>4, <1>5

\* Every other step leaves the children alone, or ends a player, which stays unreaped.
LEMMA OtherChildren ==
  ASSUME ChildInv, TypeOK', [Next]_vars, \A s \in Streams : ~LoadStep(s)
  PROVE  ChildInv'
  <1>1. \A s \in Streams : \/ ld'[s].pc = ld[s].pc
                           \/ ld[s].pc = "unused" /\ ld'[s].pc = "get"
    <2>1. CASE UNCHANGED ld
      BY <2>1
    <2>2. ASSUME NEW c \in Clients, LoadStart(c), ~UNCHANGED ld
          PROVE  <1>1!:
      <3>1. PICK t \in Streams : /\ ld[t].pc = "unused"
                                 /\ ld' = [ld EXCEPT ![t] = [pc |-> "get", inst |-> Inst(c)]]
        BY <2>2 DEF LoadStart
      <3>2. QED BY <3>1 DEF ChildInv, TypeOK
    <2>3. QED
      BY <2>1, <2>2 DEF Next, Aborted, vars, Issue, ClientStep, VolumeLock, LoadZeroRead, PauseEntry,
        CommandCheck, WritePipe, WriteStdin, WriteFails, ToggleRead, ToggleWrite, ClientUnload,
        MsgStep, MsgBegin, MsgLock, MsgCheck, MsgEnter, MsgReadLines, MsgReadEnd, MsgReadStdin,
        MsgUnload, MsgNext, PlayerStep, PlayerObeys, PlayerPrints, PlayerEnds, PlayerDies
  <1>2. \A s \in Streams : \/ player'[s].state = player[s].state
                           \/ player[s].state = "running" /\ player'[s].state = "zombie"
    <2>1. CASE UNCHANGED player
      BY <2>1
    <2>2. ASSUME NEW t \in Streams, PlayerStep(t)
          PROVE  <1>2!:
      <3>1. player[t].state = "running" /\ player[t] \in PlayerRecord
        BY <2>2 DEF PlayerStep, PlayerObeys, PlayerPrints, PlayerEnds, PlayerDies, Running,
                    ChildInv, TypeOK
      <3>2. CASE \E lines : player' = [player EXCEPT ![t] = Dead(t, lines)]
        BY <3>1, <3>2 DEF Dead, ChildInv, TypeOK
      <3>3. CASE PlayerPrints(t)
        BY <3>3 DEF PlayerPrints, ChildInv, TypeOK, PlayerRecord
      <3>4. CASE player' = [player EXCEPT ![t].cmds = Tail(@), ![t].paused = ~@]
        BY <3>1, <3>4 DEF ChildInv, TypeOK, PlayerRecord
      <3>5. CASE player' = [player EXCEPT ![t].cmds = Tail(@)]
        BY <3>1, <3>5 DEF ChildInv, TypeOK, PlayerRecord
      <3>6. QED
        BY <2>2, <3>2, <3>3, <3>4, <3>5 DEF PlayerStep, PlayerObeys, PlayerEnds, PlayerDies
    <2>3. ASSUME NEW c \in Clients, WritePipe(c)
          PROVE  <1>2!:
      BY <2>3 DEF WritePipe, ChildInv, TypeOK, PlayerRecord
    <2>4. ASSUME MsgReadLines
          PROVE  <1>2!:
      BY <2>4 DEF MsgReadLines, ChildInv, TypeOK, PlayerRecord
    <2>5. QED
      BY <2>1, <2>2, <2>3, <2>4
         DEF Next, Aborted, vars, Issue, ClientStep, VolumeLock, LoadZeroRead, LoadStart, PauseEntry,
        CommandCheck, WriteStdin, WriteFails, ToggleRead, ToggleWrite, ClientUnload,
        MsgStep, MsgBegin, MsgLock, MsgCheck, MsgEnter, MsgReadEnd, MsgReadStdin, MsgUnload, MsgNext
  <1>3. QED BY <1>1, <1>2, ChildrenStay DEF NotForked

\* There is a load thread in wait() for every child that is not reaped, for
\* any number of streams and although wait(NULL) may reap another's child.
THEOREM Children == Spec => []EveryChildHasAWaiter
  <1>1. Init /\ TypeOK => ChildInv
    <2>1. Init => Unreaped = {} /\ Waiting = {}
      BY DEF Init, Unreaped, Waiting
    <2>2. Init => Unborn
      BY DEF Init, Unborn
    <2>3. QED BY <2>1, <2>2 DEF ChildInv
  <1>2. ChildInv /\ TypeOK' /\ [Next]_vars => ChildInv'
    BY LoadChildren, OtherChildren
  <1>3. ChildInv => EveryChildHasAWaiter
    BY DEF ChildInv, EveryChildHasAWaiter, Waiting
  <1>4. QED BY <1>1, <1>2, <1>3, Typing, PTL DEF Spec
=============================================================================
