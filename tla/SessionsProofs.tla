--------------------------- MODULE SessionsProofs ---------------------------
(***************************************************************************)
(* Proofs about Sessions: types, and that until the first kill, shutdown   *)
(* or signal the table lists every open connection and every session reads *)
(* the requests of its own client.                                         *)
(***************************************************************************)
EXTENDS Sessions, NaturalLemmas

-----------------------------------------------------------------------------
(* Types.                                                                  *)

\* The labels of kill_client.
Killing == {"shutdown", "close", "store", "cancel", "join", "joining"}

\* A thread in kill_client has the index of a slot; the thread it waits for in the
\* join is that of a session.
AimedAt(r) ==
  /\ r.pc \in Killing => r.target \in Slots
  /\ r.pc = "joining" => r.joins \in Conns

Aimed == \A t \in Threads : AimedAt(th[t])

\* The slot whose thread is joined holds a handle: pthread_cancel was called with it,
\* and a handle is never taken back.
Joinable == \A t \in Threads : th[t].pc = "join" => slot[th[t].target].pthread \in Conns

\* What becomes of a thread when it takes a step.
Becomes(t, r) == th' = [th EXCEPT ![t] = r] /\ r \in ThreadRecord /\ AimedAt(r)

\* The lowest of some numbers is one of them.
LEMMA MinIn ==
  ASSUME NEW S \in SUBSET Nat, S # {}
  PROVE  Min(S) \in S
  BY Smallest DEF Min

\* The slot main takes is a free one.
LEMMA FreeSlotIn ==
  ASSUME \E i \in Slots : ~Listed(i)
  PROVE  FreeSlot \in Slots /\ ~Listed(FreeSlot)
  <1> DEFINE S == {i \in Slots : ~Listed(i)}
  <1>1. S \in SUBSET Nat /\ S # {}
    BY SessionsAssumption DEF Slots
  <1>2. Min(S) \in S
    BY <1>1, MinIn
  <1>. QED BY <1>2 DEF FreeSlot

\* The thread's new record leaves all records typed.
LEMMA BecomesTyped ==
  ASSUME TypeOK, Aimed, NEW t \in Threads, NEW r, Becomes(t, r)
  PROVE  th' \in [Threads -> ThreadRecord] /\ Aimed'
  BY DEF TypeOK, Aimed, Becomes

\* The records a thread becomes.
LEMMA MovesTyped ==
  ASSUME TypeOK, Aimed, NEW t \in Threads
  PROVE  /\ th[t] \in ThreadRecord /\ AimedAt(th[t])
         /\ \A label \in Labels \ Killing : Goto(t, label) => \E r : Becomes(t, r)
         /\ \A label \in Killing \ {"joining"} : th[t].target \in Slots /\ Goto(t, label) => \E r : Becomes(t, r)
         /\ \A label \in {"request", "ended"} : Leave(t, label) => \E r : Becomes(t, r)
         /\ \A i \in Slots, after \in {"request", "loop", "ended"} :
              KillClient(t, i, after) => \E r : Becomes(t, r)
  <1>1. th[t] \in ThreadRecord /\ AimedAt(th[t]) /\ th \in [Threads -> ThreadRecord]
    BY DEF TypeOK, Aimed
  <1>2. ASSUME NEW label \in Labels, label # "joining", Goto(t, label),
               label \in Killing => th[t].target \in Slots
        PROVE  \E r : Becomes(t, r)
    <2> DEFINE r == [th[t] EXCEPT !.pc = label, !.conn = Free]
    <2>1. th' = [th EXCEPT ![t] = r]
      BY <1>1, <1>2 DEF Goto
    <2>2. r \in ThreadRecord /\ AimedAt(r)
      BY <1>1, <1>2 DEF ThreadRecord, AimedAt
    <2>. QED BY <2>1, <2>2 DEF Becomes
  <1>3. ASSUME NEW label \in {"request", "ended"}, Leave(t, label) PROVE \E r : Becomes(t, r)
    <2> DEFINE r == [th[t] EXCEPT !.pc = label, !.conn = Free, !.target = 1, !.after = "ended",
                                  !.joins = Free]
    <2>1. th' = [th EXCEPT ![t] = r]
      BY <1>1, <1>3 DEF Leave
    <2>2. 1 \in 1..(MaxClients + 1)
      BY SessionsAssumption
    <2>3. r \in ThreadRecord /\ AimedAt(r)
      BY <1>1, <1>3, <2>2 DEF ThreadRecord, AimedAt, Labels, Killing
    <2>. QED BY <2>1, <2>3 DEF Becomes
  <1>4. ASSUME NEW i \in Slots, NEW after \in {"request", "loop", "ended"}, KillClient(t, i, after)
        PROVE  \E r : Becomes(t, r)
    <2> DEFINE r == [th[t] EXCEPT !.pc = "shutdown", !.conn = Free, !.target = i, !.after = after]
    <2>1. th' = [th EXCEPT ![t] = r]
      BY <1>1, <1>4 DEF KillClient
    <2>2. i \in 1..(MaxClients + 1)
      BY SessionsAssumption DEF Slots
    <2>3. r \in ThreadRecord /\ AimedAt(r)
      BY <1>1, <2>2 DEF ThreadRecord, AimedAt, Labels, Killing
    <2>. QED BY <2>1, <2>3 DEF Becomes
  <1>5. Killing \subseteq Labels
    BY DEF Killing, Labels
  <1>6. ASSUME NEW label \in Labels \ Killing, Goto(t, label) PROVE \E r : Becomes(t, r)
    BY <1>2, <1>6 DEF Killing
  <1>7. ASSUME NEW label \in Killing \ {"joining"}, th[t].target \in Slots, Goto(t, label)
        PROVE  \E r : Becomes(t, r)
    BY <1>2, <1>5, <1>7
  <1>. QED BY <1>1, <1>3, <1>4, <1>6, <1>7


\* kill_client returns to the loop of mplayerd_quit, or to its caller.
LEMMA ReturnTyped ==
  ASSUME TypeOK, Aimed, NEW t \in Threads, th[t].pc \in {"join", "joining"}, Return(t)
  PROVE  \E r : Becomes(t, r)
  <1>1. th[t] \in ThreadRecord /\ th \in [Threads -> ThreadRecord] /\ th[t].target \in Slots
    BY DEF TypeOK, Aimed, AimedAt, Killing
  <1>2. CASE th[t].after = "loop"
    <2> DEFINE r == [th[t] EXCEPT !.pc = "loop", !.joins = Free, !.target = @ + 1]
    <2>1. th' = [th EXCEPT ![t] = r]
      BY <1>1, <1>2 DEF Return
    <2>2. th[t].target + 1 \in 1..(MaxClients + 1)
      BY <1>1, SessionsAssumption DEF Slots
    <2>3. r \in ThreadRecord /\ AimedAt(r)
      BY <1>1, <2>2 DEF ThreadRecord, AimedAt, Labels, Killing
    <2>. QED BY <2>1, <2>3 DEF Becomes
  <1>3. CASE th[t].after # "loop"
    <2>1. th[t].after \in {"request", "ended"} /\ Leave(t, th[t].after)
      BY <1>1, <1>3 DEF Return, ThreadRecord
    <2>. QED BY <2>1, MovesTyped
  <1>. QED BY <1>2, <1>3

\* A step of a session thread, or of the handler.
LEMMA ThreadStepTyped ==
  ASSUME TypeOK, Aimed, Joinable, NEW t \in Threads, ThreadStep(t)
  PROVE  TypeOK' /\ Aimed'
  <1>1. /\ th[t] \in ThreadRecord /\ AimedAt(th[t])
        /\ th \in [Threads -> ThreadRecord]
        /\ slot \in [Slots -> [socket: Fds \cup {Free}, pthread: Conns \cup {Free}]]
        /\ fd \in [Fds -> Conns \cup {Free}]
        /\ fresh \subseteq Conns /\ gone \subseteq Conns
        /\ main \in [pc: {"accept", "create"}, slot: Slots]
        /\ msg \in {"runs", "cancelled", "ended"}
        /\ kills \in 0..MaxKills
        /\ exited \in {"no", "exit", "fault"}
    BY DEF TypeOK, Aimed
  <1>2. /\ th[t].id \in Slots /\ th[t].after \in {"request", "loop", "ended"}
        /\ th[t].target \in 1..(MaxClients + 1)
        /\ {"recv", "quit", "loop", "cancelMain", "joinMsg", "joinMain", "mutex", "request"}
             \subseteq Labels \ Killing
    BY <1>1 DEF ThreadRecord, Labels, Killing
  \* What is left of the types when the thread's record is one.
  <1>3. ASSUME \E r : Becomes(t, r), UNCHANGED <<slot, fd, gone, others>>
        PROVE  TypeOK' /\ Aimed'
    BY <1>1, <1>3, BecomesTyped DEF TypeOK, others
  <1>4. CASE Request(t)
    <2> DEFINE s == slot[th[t].id].socket
    <2>1. CASE s # Free /\ fd[s] # Free
      <3> DEFINE r == [th[t] EXCEPT !.pc = "recv", !.conn = fd[s]]
      <3>1. th' = [th EXCEPT ![t] = r]
        BY <1>1, <1>4, <2>1 DEF Request
      <3>2. fd[s] \in Conns
        BY <1>1, <1>2, <2>1
      <3> HIDE DEF s
      <3>3. r \in ThreadRecord /\ AimedAt(r)
        BY <1>1, <1>2, <3>2 DEF ThreadRecord, AimedAt, Killing
      <3>. QED BY <1>3, <1>4, <3>1, <3>3 DEF Becomes, Request
    <2>2. CASE ~(s # Free /\ fd[s] # Free)
      <3>1. KillClient(t, th[t].id, "ended")
        BY <1>4, <2>2 DEF Request
      <3>. QED BY <1>2, <1>3, <1>4, <3>1, MovesTyped DEF Request
    <2>. QED BY <2>1, <2>2
  <1>5. CASE Hangup(t)
    <2>1. KillClient(t, th[t].id, "ended") /\ UNCHANGED <<slot, fd, gone, others>>
      BY <1>5 DEF Hangup
    <2>. QED BY <1>2, <1>3, <2>1, MovesTyped
  <1>6. CASE Cancelled(t)
    <2>1. Leave(t, "ended") /\ UNCHANGED <<slot, fd, gone, others>>
      BY <1>6 DEF Cancelled
    <2>. QED BY <1>3, <2>1, MovesTyped
  <1>7. CASE KillShutdown(t)
    <2>1. th[t].target \in Slots
      BY <1>1, <1>7 DEF KillShutdown, At, AimedAt, Killing
    <2>2. \E r : Becomes(t, r)
      <3>1. Goto(t, "close") \/ Goto(t, "store")
        BY <1>7 DEF KillShutdown
      <3>. QED BY <2>1, <3>1, MovesTyped DEF Killing
    <2>3. gone' \subseteq Conns
      <3>1. CASE Listed(th[t].target)
        <4>1. slot[th[t].target].socket \in Fds
          BY <1>1, <2>1, <3>1 DEF Listed
        <4>2. fd[slot[th[t].target].socket] \in Conns \cup {Free}
          BY <1>1, <4>1
        <4>. QED BY <1>1, <1>7, <3>1, <4>2 DEF KillShutdown
      <3>2. CASE ~Listed(th[t].target)
        BY <1>1, <1>7, <3>2 DEF KillShutdown
      <3>. QED BY <3>1, <3>2
    <2>. QED BY <1>1, <1>7, <2>2, <2>3, BecomesTyped DEF KillShutdown, TypeOK, others
  <1>8. CASE KillClose(t)
    <2>1. th[t].target \in Slots /\ Goto(t, "store")
      BY <1>1, <1>8 DEF KillClose, At, AimedAt, Killing
    <2>2. \E r : Becomes(t, r)
      BY <2>1, MovesTyped DEF Killing
    <2>3. fd' \in [Fds -> Conns \cup {Free}]
      BY <1>1, <1>8 DEF KillClose
    <2>. QED BY <1>1, <1>8, <2>2, <2>3, BecomesTyped DEF KillClose, TypeOK, others
  <1>9. CASE KillStore(t)
    <2>1. th[t].target \in Slots /\ Goto(t, "cancel")
      BY <1>1, <1>9 DEF KillStore, At, AimedAt, Killing
    <2>2. \E r : Becomes(t, r)
      BY <2>1, MovesTyped DEF Killing
    <2>3. slot' \in [Slots -> [socket: Fds \cup {Free}, pthread: Conns \cup {Free}]]
      BY <1>1, <1>9, <2>1 DEF KillStore
    <2>. QED BY <1>1, <1>9, <2>2, <2>3, BecomesTyped DEF KillStore, TypeOK, others
  <1>10. CASE KillCancel(t)
    <2> DEFINE u == slot[th[t].target].pthread
    <2>1. th[t].target \in Slots
      BY <1>1, <1>10 DEF KillCancel, At, AimedAt, Killing
    <2>2. CASE u = Free
      BY <1>1, <1>10, <2>2 DEF KillCancel, TypeOK, Aimed
    <2>3. CASE u # Free
      <3>1. u \in Threads
        BY <1>1, <2>1, <2>3 DEF Threads
      <3> DEFINE flagged == [th EXCEPT ![u] = [th[u] EXCEPT !.cancelled = TRUE]]
      <3>2. [th[u] EXCEPT !.cancelled = TRUE] \in ThreadRecord /\ AimedAt([th[u] EXCEPT !.cancelled = TRUE])
        <4>1. th[u] \in ThreadRecord /\ AimedAt(th[u])
          BY <3>1 DEF TypeOK, Aimed
        <4>. QED BY <4>1 DEF ThreadRecord, AimedAt
      <3>3. flagged \in [Threads -> ThreadRecord] /\ \A v \in Threads : AimedAt(flagged[v])
        BY <3>1, <3>2 DEF TypeOK, Aimed
      <3>4. th' = [flagged EXCEPT ![t] = [flagged[t] EXCEPT !.pc = "join"]]
        BY <1>1, <1>10, <2>3, <3>1 DEF KillCancel
      <3>5. flagged[t] \in ThreadRecord /\ flagged[t].target = th[t].target
        BY <1>1, <3>1, <3>2 DEF ThreadRecord
      <3> HIDE DEF flagged, u
      <3>6. [flagged[t] EXCEPT !.pc = "join"] \in ThreadRecord /\ AimedAt([flagged[t] EXCEPT !.pc = "join"])
        BY <2>1, <3>5 DEF ThreadRecord, AimedAt, Labels, Killing
      <3>7. th' \in [Threads -> ThreadRecord] /\ \A v \in Threads : AimedAt(th'[v])
        BY <3>3, <3>4, <3>6
      <3>8. UNCHANGED <<slot, fd, fresh, gone, main, msg, kills, exited>>
        BY <1>10, <2>3 DEF KillCancel, u
      <3>. QED BY <1>1, <3>7, <3>8 DEF TypeOK, Aimed
    <2>. QED BY <2>2, <2>3
  <1>11. CASE KillJoin(t)
    <2> DEFINE u == slot[th[t].target].pthread
    <2>1. th[t].pc = "join" /\ th[t].target \in Slots
      BY <1>1, <1>11 DEF KillJoin, At, AimedAt, Killing
    <2>2. CASE Return(t)
      BY <1>3, <1>11, <2>1, <2>2, ReturnTyped DEF KillJoin
    <2>3. CASE ~Return(t)
      <3> DEFINE r == [th[t] EXCEPT !.pc = "joining", !.joins = u]
      <3>1. th' = [th EXCEPT ![t] = r]
        BY <1>1, <1>11, <2>3 DEF KillJoin
      <3>2. u \in Conns
        BY <2>1 DEF Joinable
      <3> HIDE DEF u
      <3>3. r \in ThreadRecord /\ AimedAt(r)
        BY <1>1, <2>1, <3>2 DEF ThreadRecord, AimedAt, Labels, Killing
      <3>. QED BY <1>3, <1>11, <3>1, <3>3 DEF Becomes, KillJoin
    <2>. QED BY <2>2, <2>3
  <1>12. CASE KillJoined(t)
    <2>1. th[t].pc = "joining" /\ Return(t) /\ UNCHANGED <<slot, fd, gone, others>>
      BY <1>12 DEF KillJoined, At
    <2>. QED BY <1>3, <2>1, ReturnTyped
  <1>13. CASE Quit(t)
    <2> DEFINE r == [th[t] EXCEPT !.pc = "loop", !.target = 1]
    <2>1. th' = [th EXCEPT ![t] = r]
      BY <1>1, <1>13 DEF Quit
    <2>2. 1 \in 1..(MaxClients + 1) /\ "loop" \in Labels \ Killing /\ "joining" \in Killing
      BY SessionsAssumption DEF Labels, Killing
    <2>4. r \in ThreadRecord /\ AimedAt(r)
      BY <1>1, <2>2 DEF ThreadRecord, AimedAt
    <2>3. \E q : Becomes(t, q)
      BY <2>1, <2>4 DEF Becomes
    <2>. QED BY <1>1, <1>13, <2>3, BecomesTyped DEF Quit, TypeOK
  <1>14. CASE QuitLoop(t)
    <2>1. CASE Goto(t, "cancelMain")
      BY <1>2, <1>3, <1>14, <2>1, MovesTyped DEF QuitLoop
    <2>2. CASE th[t].target \in Slots /\ th' = [th EXCEPT ![t].target = th[t].target + 1]
      <3> DEFINE r == [th[t] EXCEPT !.target = th[t].target + 1]
      <3>1. th' = [th EXCEPT ![t] = r]
        BY <1>1, <2>2
      <3>2. th[t].target + 1 \in 1..(MaxClients + 1)
        BY <2>2, SessionsAssumption DEF Slots
      <3>3. r \in ThreadRecord /\ AimedAt(r)
        BY <1>1, <1>14, <3>2 DEF ThreadRecord, AimedAt, QuitLoop, At, Killing
      <3>. QED BY <1>3, <1>14, <3>1, <3>3 DEF Becomes, QuitLoop
    <2>3. CASE th[t].target \in Slots /\ KillClient(t, th[t].target, "loop")
      BY <1>3, <1>14, <2>3, MovesTyped DEF QuitLoop
    <2>. QED BY <1>14, <2>1, <2>2, <2>3 DEF QuitLoop
  <1>15. CASE QuitCancelMain(t)
    <2> DEFINE flagged == [th EXCEPT ![Main] = [th[Main] EXCEPT !.cancelled = TRUE]]
    <2>1. Main \in Threads
      BY DEF Threads
    <2>2. [th[Main] EXCEPT !.cancelled = TRUE] \in ThreadRecord
          /\ AimedAt([th[Main] EXCEPT !.cancelled = TRUE])
      <3>1. th[Main] \in ThreadRecord /\ AimedAt(th[Main])
        BY <2>1 DEF TypeOK, Aimed
      <3>. QED BY <3>1 DEF ThreadRecord, AimedAt
    <2>3. flagged \in [Threads -> ThreadRecord] /\ \A v \in Threads : AimedAt(flagged[v])
      BY <2>1, <2>2 DEF TypeOK, Aimed
    <2>4. th' = [flagged EXCEPT ![t] = [flagged[t] EXCEPT !.pc = "joinMsg"]]
      BY <1>1, <1>15, <2>1 DEF QuitCancelMain
    <2> HIDE DEF flagged
    <2>5. [flagged[t] EXCEPT !.pc = "joinMsg"] \in ThreadRecord
          /\ AimedAt([flagged[t] EXCEPT !.pc = "joinMsg"])
      BY <2>3 DEF ThreadRecord, AimedAt, Labels, Killing
    <2>6. th' \in [Threads -> ThreadRecord] /\ \A v \in Threads : AimedAt(th'[v])
      BY <2>3, <2>4, <2>5
    <2>. QED BY <1>1, <1>15, <2>6 DEF QuitCancelMain, TypeOK, Aimed, others
  <1>16. CASE QuitJoinMsg(t)
    BY <1>2, <1>3, <1>16, MovesTyped DEF QuitJoinMsg
  <1>17. CASE QuitExit(t)
    BY <1>1, <1>17 DEF QuitExit, TypeOK, Aimed
  <1>. QED BY <1>4, <1>5, <1>6, <1>7, <1>8, <1>9, <1>10, <1>11, <1>12, <1>13, <1>14, <1>15, <1>16,
              <1>17 DEF ThreadStep


\* A step of main; one that the environment takes for a thread.
LEMMA MainStepTyped ==
  ASSUME TypeOK, Aimed, MainStep
  PROVE  TypeOK' /\ Aimed'
  <1>1. /\ th \in [Threads -> ThreadRecord]
        /\ slot \in [Slots -> [socket: Fds \cup {Free}, pthread: Conns \cup {Free}]]
        /\ fd \in [Fds -> Conns \cup {Free}]
        /\ fresh \subseteq Conns /\ gone \subseteq Conns
        /\ main \in [pc: {"accept", "create"}, slot: Slots]
        /\ msg \in {"runs", "cancelled", "ended"}
        /\ kills \in 0..MaxKills
        /\ exited \in {"no", "exit", "fault"}
    BY DEF TypeOK
  <1>2. fresh # {} => NextConn \in Conns
    BY <1>1 DEF NextConn
  <1>3. \A c \in Conns : c \in Threads
    BY DEF Threads
  <1>4. /\ Main \in Threads /\ MaxKills \in Nat
        /\ {"none", "ended", "quit", "request"} \subseteq Labels \ Killing
    BY SessionsAssumption DEF Threads, Labels, Killing
  <1>5. ASSUME NEW t \in Threads, NEW label \in {"ended", "quit"},
               th' = [th EXCEPT ![t].pc = label]
        PROVE  th' \in [Threads -> ThreadRecord] /\ Aimed'
    <2> DEFINE r == [th[t] EXCEPT !.pc = label]
    <2>1. th[t] \in ThreadRecord /\ AimedAt(th[t]) /\ th' = [th EXCEPT ![t] = r]
      BY <1>1, <1>5 DEF Aimed
    <2>2. r \in ThreadRecord /\ AimedAt(r)
      BY <1>4, <2>1 DEF ThreadRecord, AimedAt, Killing
    <2>. QED BY <2>1, <2>2, BecomesTyped DEF Becomes
  <1>6. CASE Refuse
    BY <1>1, <1>2, <1>6 DEF Refuse, TypeOK, Aimed
  <1>7. CASE Accept
    <2> DEFINE idle == {m \in Fds : fd[m] = Free}
    <2>1. Min(idle) \in Fds
      <3>1. idle \in SUBSET Nat /\ idle # {}
        BY <1>7, SessionsAssumption DEF Accept, Fds
      <3>. QED BY <3>1, MinIn
    <2>2. FreeSlot \in Slots
      BY <1>7, FreeSlotIn DEF Accept
    <2>3. NextConn \in Conns /\ fresh' = fresh \ {NextConn}
      BY <1>2, <1>7 DEF Accept
    <2>4. /\ fd' = [fd EXCEPT ![Min(idle)] = NextConn]
          /\ slot' = [slot EXCEPT ![FreeSlot] = [slot[FreeSlot] EXCEPT !.socket = Min(idle)]]
          /\ main' = [main EXCEPT !.pc = "create", !.slot = FreeSlot]
          /\ UNCHANGED <<gone, th, msg, kills, exited>>
      BY <1>1, <1>7, <2>2 DEF Accept
    <2> HIDE DEF idle
    <2>5. fd' \in [Fds -> Conns \cup {Free}] /\ main' \in [pc: {"accept", "create"}, slot: Slots]
      BY <1>1, <2>1, <2>2, <2>3, <2>4
    <2>6. slot' \in [Slots -> [socket: Fds \cup {Free}, pthread: Conns \cup {Free}]]
      <3>1. [slot[FreeSlot] EXCEPT !.socket = Min(idle)]
              \in [socket: Fds \cup {Free}, pthread: Conns \cup {Free}]
        BY <1>1, <2>1, <2>2
      <3>. QED BY <1>1, <2>2, <2>4, <3>1
    <2>. QED BY <1>1, <2>3, <2>4, <2>5, <2>6 DEF TypeOK, Aimed
  <1>8. CASE Create
    <2>1. PICK c \in Conns :
            /\ slot' = [slot EXCEPT ![main.slot].pthread = c]
            /\ th' = [th EXCEPT ![c].pc = "request", ![c].id = main.slot]
      BY <1>8 DEF Create
    <2>2. main.slot \in Slots /\ c \in Threads
      BY <1>1, <1>3
    <2> DEFINE r == [th[c] EXCEPT !.pc = "request", !.id = main.slot]
    <2>3. th[c] \in ThreadRecord /\ AimedAt(th[c]) /\ th' = [th EXCEPT ![c] = r]
      BY <1>1, <2>1, <2>2 DEF Aimed
    <2>4. r \in ThreadRecord /\ AimedAt(r)
      BY <1>4, <2>2, <2>3 DEF ThreadRecord, AimedAt, Killing
    <2>5. th' \in [Threads -> ThreadRecord] /\ Aimed'
      BY <2>2, <2>3, <2>4, BecomesTyped DEF Becomes
    <2>6. slot' \in [Slots -> [socket: Fds \cup {Free}, pthread: Conns \cup {Free}]]
      <3>1. [slot[main.slot] EXCEPT !.pthread = c]
              \in [socket: Fds \cup {Free}, pthread: Conns \cup {Free}]
        BY <1>1, <2>2
      <3>. QED BY <1>1, <2>1, <2>2, <3>1
    <2>. QED BY <1>1, <1>8, <2>5, <2>6 DEF Create, TypeOK
  <1>9. CASE CreateFails
    BY <1>1, <1>9 DEF CreateFails, TypeOK, Aimed
  <1>10. CASE MainCancelled
    <2>1. /\ th' = [th EXCEPT ![Main].pc = "ended"]
          /\ UNCHANGED <<slot, fd, fresh, gone, main, msg, kills, exited>>
      BY <1>10 DEF MainCancelled, others
    <2>. QED BY <1>1, <1>4, <1>5, <2>1 DEF TypeOK
  <1>11. CASE Signal
    <2>1. /\ th' = [th EXCEPT ![Main].pc = "quit"]
          /\ UNCHANGED <<slot, fd, fresh, gone, main, msg, exited>>
          /\ kills' \in 0..MaxKills
      BY <1>1, <1>4, <1>11 DEF Signal
    <2>. QED BY <1>1, <1>4, <1>5, <2>1 DEF TypeOK
  <1>. QED BY <1>6, <1>7, <1>8, <1>9, <1>10, <1>11 DEF MainStep

\* What a client or a player makes a thread do.
LEMMA OutsideStepTyped ==
  ASSUME TypeOK, Aimed,
         MsgCancelled \/ PeerLeaves \/ \E c \in Conns : Serve(c) \/ Command(c) \/ Locked(c)
  PROVE  TypeOK' /\ Aimed'
  <1>1. CASE MsgCancelled
    BY <1>1 DEF MsgCancelled, TypeOK, Aimed
  <1>2. CASE PeerLeaves
    BY <1>2 DEF PeerLeaves, TypeOK, Aimed
  <1>3. ASSUME NEW c \in Conns, Serve(c) \/ Command(c) \/ Locked(c) PROVE TypeOK' /\ Aimed'
    <2>1. c \in Threads /\ th[c].id \in Slots
      BY DEF Threads, TypeOK, ThreadRecord
    <2>2. {"request", "mutex", "quit"} \subseteq Labels \ Killing
      BY DEF Labels, Killing
    <2>3. \E r : Becomes(c, r)
      <3>1. \/ \E label \in {"request", "mutex", "quit"} : Goto(c, label)
            \/ \E i \in Slots, after \in {"request", "ended"} : KillClient(c, i, after)
        BY <1>3, <2>1 DEF Serve, Command, Locked
      <3>2. CASE \E label \in {"request", "mutex", "quit"} : Goto(c, label)
        BY <2>1, <2>2, <3>2, MovesTyped
      <3>3. CASE \E i \in Slots, after \in {"request", "ended"} : KillClient(c, i, after)
        BY <2>1, <3>3, MovesTyped
      <3>. QED BY <3>1, <3>2, <3>3
    <2>4. th' \in [Threads -> ThreadRecord] /\ Aimed'
      BY <2>1, <2>3, BecomesTyped
    <2>5. UNCHANGED <<slot, fd, fresh, gone, main, msg, exited>> /\ kills' \in 0..MaxKills
      <3>1. kills \in 0..MaxKills /\ MaxKills \in Nat
        BY SessionsAssumption DEF TypeOK
      <3>. QED BY <1>3, <3>1 DEF Serve, Command, Locked, others
    <2>. QED BY <2>4, <2>5 DEF TypeOK
  <1>. QED BY <1>1, <1>2, <1>3


-----------------------------------------------------------------------------
(* Handles.                                                                *)

\* A thread that was not about to join a slot's thread is not after a step that does
\* not take it there; a handle stays one.
NoNewJoin ==
  \A u \in Threads : th'[u].pc = "join" => th[u].pc = "join" /\ th'[u].target = th[u].target
HandlesKept ==
  \A i \in Slots : slot[i].pthread \in Conns => slot'[i].pthread \in Conns

\* Only pthread_cancel takes a thread to its join, and with a handle it has read.
LEMMA JoinableKept ==
  ASSUME TypeOK, Aimed, Joinable, [Next]_vars
  PROVE  Joinable'
  <1>1. /\ th \in [Threads -> ThreadRecord]
        /\ slot \in [Slots -> [socket: Fds \cup {Free}, pthread: Conns \cup {Free}]]
        /\ main.slot \in Slots
    BY DEF TypeOK
  <1>2. \A c \in Conns : c \in Threads
    BY DEF Threads
  <1>3. \A u \in Threads : th[u].pc = "join" => th[u].target \in Slots
    BY DEF Aimed, AimedAt, Killing
  <1>4. NoNewJoin /\ HandlesKept => Joinable'
    BY <1>3 DEF NoNewJoin, HandlesKept, Joinable
  <1>5. \A t \in Threads, label \in Labels : label # "join" /\ Goto(t, label) => NoNewJoin
    BY <1>1 DEF Goto, NoNewJoin
  <1>6. \A t \in Threads, i \in Slots, after \in {"request", "loop", "ended"} :
          KillClient(t, i, after) => NoNewJoin
    BY <1>1 DEF KillClient, NoNewJoin
  <1>7. \A t \in Threads, label \in {"request", "ended"} : Leave(t, label) => NoNewJoin
    BY <1>1 DEF Leave, NoNewJoin
  <1>8. UNCHANGED slot => HandlesKept
    BY DEF HandlesKept
  <1>9. UNCHANGED th => NoNewJoin
    BY DEF NoNewJoin
  <1>10. ASSUME NEW t \in Threads, Return(t) PROVE NoNewJoin
    <2>1. CASE th[t].after = "loop"
      <3> DEFINE r == [th[t] EXCEPT !.pc = "loop", !.joins = Free, !.target = @ + 1]
      <3>1. th' = [th EXCEPT ![t] = r] /\ r.pc # "join"
        BY <1>1, <1>10, <2>1 DEF Return, ThreadRecord
      <3> HIDE DEF r
      <3>. QED BY <1>1, <3>1 DEF NoNewJoin
    <2>2. CASE th[t].after # "loop"
      <3>1. th[t].after \in {"request", "ended"} /\ Leave(t, th[t].after)
        BY <1>1, <1>10, <2>2 DEF Return, ThreadRecord
      <3>. QED BY <1>7, <3>1
    <2>. QED BY <2>1, <2>2
  <1>11. CASE MainStep
    <2>1. CASE Refuse \/ CreateFails
      BY <1>4, <1>8, <1>9, <2>1 DEF Refuse, CreateFails
    <2>2. CASE Accept
      <3>1. FreeSlot \in Slots /\ UNCHANGED th
        BY <2>2, FreeSlotIn DEF Accept
      <3>2. PICK n \in {Min({m \in Fds : fd[m] = Free})} : slot' = [slot EXCEPT ![FreeSlot].socket = n]
        BY <2>2 DEF Accept
      <3>3. HandlesKept
        BY <1>1, <3>1, <3>2 DEF HandlesKept
      <3>. QED BY <1>4, <1>9, <3>1, <3>3
    <2>3. CASE Create
      <3>1. PICK c \in Conns :
              /\ slot' = [slot EXCEPT ![main.slot].pthread = c]
              /\ th' = [th EXCEPT ![c].pc = "request", ![c].id = main.slot]
        BY <2>3 DEF Create
      <3>2. NoNewJoin /\ HandlesKept
        BY <1>1, <1>2, <3>1 DEF NoNewJoin, HandlesKept
      <3>. QED BY <1>4, <3>2
    <2>4. CASE MainCancelled \/ Signal
      <3>1. /\ \E label \in {"ended", "quit"} : th' = [th EXCEPT ![Main].pc = label]
            /\ Main \in Threads /\ UNCHANGED slot
        BY <2>4 DEF MainCancelled, Signal, Threads
      <3>2. NoNewJoin
        BY <1>1, <3>1 DEF NoNewJoin
      <3>. QED BY <1>4, <1>8, <3>1, <3>2
    <2>. QED BY <1>11, <2>1, <2>2, <2>3, <2>4 DEF MainStep
  <1>12. CASE MsgCancelled \/ PeerLeaves \/ UNCHANGED vars
    BY <1>4, <1>8, <1>9, <1>12 DEF MsgCancelled, PeerLeaves, vars
  <1>13. ASSUME NEW c \in Conns, Serve(c) \/ Command(c) \/ Locked(c) PROVE Joinable'
    <2>1. c \in Threads /\ th[c].id \in Slots /\ {"request", "mutex", "quit"} \subseteq Labels
      BY <1>1, <1>2 DEF ThreadRecord, Labels
    <2>2. /\ \/ \E label \in {"request", "mutex", "quit"} : Goto(c, label)
             \/ \E i \in Slots, after \in {"request", "ended"} : KillClient(c, i, after)
          /\ UNCHANGED slot
      BY <1>13, <2>1 DEF Serve, Command, Locked
    <2>3. NoNewJoin
      BY <1>5, <1>6, <2>1, <2>2
    <2>. QED BY <1>4, <1>8, <2>2, <2>3
  <1>14. ASSUME NEW t \in Threads, ThreadStep(t) PROVE Joinable'
    <2>1. {"recv", "close", "store", "cancel", "joining", "loop", "cancelMain", "joinMsg", "joinMain"}
            \subseteq Labels /\ th[t].id \in Slots
      BY <1>1 DEF Labels, ThreadRecord
    <2>2. CASE Request(t)
      <3>1. CASE KillClient(t, th[t].id, "ended")
        BY <1>4, <1>6, <1>8, <2>1, <2>2, <3>1 DEF Request
      <3>2. CASE \E d : th' = [th EXCEPT ![t].pc = "recv", ![t].conn = d]
        BY <1>1, <1>4, <1>8, <2>2, <3>2 DEF Request, NoNewJoin
      <3>. QED BY <2>2, <3>1, <3>2 DEF Request
    <2>3. CASE Hangup(t)
      BY <1>4, <1>6, <1>8, <2>1, <2>3 DEF Hangup
    <2>4. CASE Cancelled(t)
      BY <1>4, <1>7, <1>8, <2>4 DEF Cancelled
    <2>5. CASE KillShutdown(t) \/ KillClose(t)
      <3>1. (Goto(t, "close") \/ Goto(t, "store")) /\ UNCHANGED slot
        BY <2>5 DEF KillShutdown, KillClose
      <3>. QED BY <1>4, <1>5, <1>8, <2>1, <3>1
    <2>6. CASE KillStore(t)
      <3>1. th[t].target \in Slots
        BY <2>6 DEF KillStore, At, Aimed, AimedAt, Killing
      <3>2. HandlesKept
        BY <1>1, <2>6, <3>1 DEF KillStore, HandlesKept
      <3>. QED BY <1>4, <1>5, <2>1, <2>6, <3>2 DEF KillStore
    <2>7. CASE KillCancel(t)
      <3> DEFINE u == slot[th[t].target].pthread
      <3>1. th[t].target \in Slots /\ UNCHANGED slot
        BY <2>7 DEF KillCancel, At, Aimed, AimedAt, Killing
      <3>2. CASE u = Free
        BY <1>4, <1>8, <1>9, <2>7, <3>2 DEF KillCancel
      <3>3. CASE u # Free
        <4>1. u \in Conns /\ u \in Threads
          BY <1>1, <1>2, <3>1, <3>3
        <4>2. th' = [th EXCEPT ![u].cancelled = TRUE, ![t].pc = "join"]
          BY <2>7, <3>3 DEF KillCancel
        <4>3. slot'[th'[t].target].pthread \in Conns
          <5>1. th'[t].target = th[t].target
            BY <1>1, <4>1, <4>2
          <5>. QED BY <3>1, <4>1, <5>1
        <4>4. ASSUME NEW v \in Threads \ {t}
              PROVE  th'[v].pc = "join" => th[v].pc = "join" /\ th'[v].target = th[v].target
          <5>1. th'[v] = th[v] \/ th'[v] = [th[v] EXCEPT !.cancelled = TRUE]
            <6>1. CASE v = u
              BY <1>1, <4>2, <6>1
            <6>2. CASE v # u
              BY <1>1, <4>2, <6>2
            <6>. QED BY <6>1, <6>2
          <5>2. th[v] \in ThreadRecord
            BY <1>1
          <5>. QED BY <5>1, <5>2 DEF ThreadRecord
        <4>. QED BY <1>3, <3>1, <4>3, <4>4 DEF Joinable
      <3>. QED BY <3>2, <3>3
    <2>8. CASE KillJoin(t)
      <3>1. CASE Return(t)
        BY <1>4, <1>8, <1>10, <2>8, <3>1 DEF KillJoin
      <3>2. CASE \E u : th' = [th EXCEPT ![t].pc = "joining", ![t].joins = u]
        BY <1>1, <1>4, <1>8, <2>8, <3>2 DEF KillJoin, NoNewJoin
      <3>. QED BY <2>8, <3>1, <3>2 DEF KillJoin
    <2>9. CASE KillJoined(t)
      BY <1>4, <1>8, <1>10, <2>9 DEF KillJoined
    <2>10. CASE Quit(t)
      BY <1>1, <1>4, <1>8, <2>10 DEF Quit, NoNewJoin
    <2>11. CASE QuitLoop(t)
      <3>1. CASE Goto(t, "cancelMain") \/ (th[t].target \in Slots /\ KillClient(t, th[t].target, "loop"))
        BY <1>4, <1>5, <1>6, <1>8, <2>1, <2>11, <3>1 DEF QuitLoop
      <3>2. CASE th' = [th EXCEPT ![t].target = th[t].target + 1]
        BY <1>1, <1>4, <1>8, <2>11, <3>2 DEF QuitLoop, At, NoNewJoin
      <3>. QED BY <2>11, <3>1, <3>2 DEF QuitLoop
    <2>12. CASE QuitCancelMain(t)
      <3>1. Main \in Threads
        BY DEF Threads
      <3>2. ASSUME NEW v \in Threads
            PROVE  th'[v].pc = "join" => th[v].pc = "join" /\ th'[v].target = th[v].target
        <4>1. th'[v] = th[v] \/ th'[v] = [th[v] EXCEPT !.cancelled = TRUE] \/ th'[v].pc = "joinMsg"
          <5>1. CASE v = t
            <6>1. th'[t].pc = "joinMsg"
              BY <1>1, <2>12, <3>1 DEF QuitCancelMain, ThreadRecord
            <6>. QED BY <5>1, <6>1
          <5>2. CASE v # t
            BY <1>1, <2>12, <3>1, <5>2 DEF QuitCancelMain
          <5>. QED BY <5>1, <5>2
        <4>2. th[v] \in ThreadRecord
          BY <1>1
        <4>. QED BY <4>1, <4>2 DEF ThreadRecord
      <3>3. UNCHANGED slot
        BY <2>12 DEF QuitCancelMain
      <3>. QED BY <1>4, <1>8, <3>2, <3>3 DEF NoNewJoin
    <2>13. CASE QuitJoinMsg(t)
      BY <1>4, <1>5, <1>8, <2>1, <2>13 DEF QuitJoinMsg
    <2>14. CASE QuitExit(t)
      BY <1>4, <1>8, <1>9, <2>14 DEF QuitExit
    <2>. QED BY <1>14, <2>2, <2>3, <2>4, <2>5, <2>6, <2>7, <2>8, <2>9, <2>10, <2>11, <2>12, <2>13,
                <2>14 DEF ThreadStep
  <1>. QED BY <1>11, <1>12, <1>13, <1>14 DEF Next

\* The types, with what the steps of kill_client need.
LEMMA Handles == Spec => [](TypeOK /\ Aimed /\ Joinable)
  <1>1. Init => TypeOK /\ Aimed /\ Joinable
    <2> SUFFICES ASSUME Init PROVE TypeOK /\ Aimed /\ Joinable
      OBVIOUS
    <2>1. 1 \in Slots /\ 1 \in 1..(MaxClients + 1) /\ 0 \in 0..MaxKills
      BY SessionsAssumption DEF Slots
    <2> DEFINE idle == [pc |-> "none", id |-> 1, conn |-> Free, target |-> 1, after |-> "ended",
                        joins |-> Free, cancelled |-> FALSE]
    <2>2. idle \in ThreadRecord
      BY <2>1 DEF ThreadRecord, Labels
    <2>3. th = [c \in Threads |-> idle]
      BY DEF Init
    <2>4. th \in [Threads -> ThreadRecord] /\ Aimed /\ Joinable
      BY <2>2, <2>3 DEF Aimed, AimedAt, Joinable, Killing
    <2>. QED BY <2>1, <2>4 DEF Init, TypeOK
  <1>2. TypeOK /\ Aimed /\ Joinable /\ [Next]_vars => (TypeOK /\ Aimed /\ Joinable)'
    <2> SUFFICES ASSUME TypeOK, Aimed, Joinable, [Next]_vars PROVE TypeOK' /\ Aimed'
      BY JoinableKept
    <2>1. CASE UNCHANGED vars
      BY <2>1 DEF vars, TypeOK, Aimed, AimedAt
    <2>. QED BY <2>1, MainStepTyped, OutsideStepTyped, ThreadStepTyped DEF Next
  <1>. QED BY <1>1, <1>2, PTL DEF Spec

\* Every variable keeps its type: kill_client gets indexes of the table only, and
\* never joins a thread through a slot that has none.
THEOREM Typing == Spec => []TypeOK
  BY Handles, PTL


-----------------------------------------------------------------------------
(* Until the first kill, shutdown or signal, the threads and the table.    *)

\* A session uses its slot from its first request to the store of -1.
Occupying == {"request", "recv", "mutex", "shutdown", "close", "store"}

\* kill_client runs in sessions only, each on its own slot and as its last act.
Orderly ==
  /\ th[Main].pc = "none" /\ ~th[Main].cancelled
  /\ \A c \in Conns :
       /\ th[c].pc \in {"none", "ended"} \cup Occupying \cup Killing
       /\ th[c].pc \in Killing => th[c].target = th[c].id /\ th[c].after = "ended"

\* The slot of a session is taken until the session gives it up, and by no other
\* session; main starts one only in a slot it has taken.
Occupied ==
  /\ \A c \in Conns : th[c].pc \in Occupying =>
       Listed(th[c].id) /\ (main.pc = "create" => main.slot # th[c].id)
  /\ \A c, d \in Conns :
       th[c].pc \in Occupying /\ th[d].pc \in Occupying /\ th[c].id = th[d].id => c = d
  /\ main.pc = "create" => Listed(main.slot)

\* The descriptor in its slot is that of the session's connection; an open
\* connection without a thread is the one main has just accepted.
Owned ==
  /\ \A c \in Conns :
       th[c].pc \in Occupying \ {"store"} => fd[slot[th[c].id].socket] = c
  /\ \A c \in Conns, n \in Fds : fd[n] = c /\ th[c].pc = "none" =>
       main.pc = "create" /\ slot[main.slot].socket = n
  /\ \A c \in fresh : th[c].pc = "none" /\ \A n \in Fds : fd[n] # c
  /\ \A c \in Conns : th[c].pc = "recv" => th[c].conn = c

\* Every open descriptor is in a slot that no session is about to clear.
Kept ==
  \A n \in Fds : fd[n] # Free =>
    \E i \in Slots : /\ slot[i].socket = n
                     /\ \A c \in Conns : th[c].pc = "store" => th[c].target # i

Undisturbed == Orderly /\ Occupied /\ Owned /\ Kept

\* What Undisturbed reads of a thread.
Same(t) == /\ th'[t].pc = th[t].pc /\ th'[t].id = th[t].id /\ th'[t].target = th[t].target
           /\ th'[t].after = th[t].after /\ th'[t].conn = th[t].conn

\* c takes a step that leaves the table and the descriptors alone.
Moving(c) ==
  /\ \A d \in Conns \ {c} : Same(d)
  /\ Same(Main) /\ ~th'[Main].cancelled
  /\ UNCHANGED <<slot, fd, fresh, main>>
  /\ th'[c].id = th[c].id
  /\ th[c].pc # "none"
  /\ th'[c].pc \in {"ended"} \cup (Occupying \ {"store"}) \cup (Killing \ {"store"})
  /\ th'[c].pc \in Occupying => th[c].pc \in Occupying \ {"store"}
  /\ th'[c].pc \in Killing => th'[c].target = th[c].id /\ th'[c].after = "ended"
  /\ th'[c].pc = "recv" => th'[c].conn = c

\* Such a step keeps Undisturbed.
LEMMA MovesKeep ==
  ASSUME TypeOK, Undisturbed, NEW c \in Conns, Moving(c)
  PROVE  Undisturbed'
  <1>1. \A d \in Conns : d # c => Same(d)
    BY DEF Moving
  <1>2. \A d \in Conns : /\ th'[d].id = th[d].id
                         /\ th'[d].pc \in Occupying => th[d].pc \in Occupying
                         /\ th'[d].pc \in Occupying \ {"store"} => th[d].pc \in Occupying \ {"store"}
                         /\ th'[d].pc = "none" <=> th[d].pc = "none"
                         /\ th'[d].pc = "store" => th[d].pc = "store" /\ th'[d].target = th[d].target
    BY <1>1 DEF Moving, Same, Occupying, Killing
  <1>3. UNCHANGED <<slot, fd, fresh, main>> /\ \A i : Listed(i)' <=> Listed(i)
    BY DEF Moving, Listed
  <1>4. Orderly'
    BY <1>1 DEF Moving, Same, Undisturbed, Orderly
  <1>5. Occupied'
    BY <1>2, <1>3 DEF Undisturbed, Occupied
  <1>6. Owned'
    <2>1. fresh \subseteq Conns
      BY DEF TypeOK
    <2>2. \A d \in Conns : th'[d].pc = "recv" => th'[d].conn = d
      BY <1>1 DEF Moving, Same, Undisturbed, Owned
    <2>. QED BY <1>2, <1>3, <2>1, <2>2 DEF Undisturbed, Owned
  <1>7. Kept'
    BY <1>2, <1>3 DEF Undisturbed, Kept
  <1>. QED BY <1>4, <1>5, <1>6, <1>7 DEF Undisturbed

\* A step that leaves the threads, the table and the descriptors alone, but may
\* forget fresh connections.
LEMMA StillKeeps ==
  ASSUME TypeOK, Undisturbed, UNCHANGED <<slot, fd, main, th>>, fresh' \subseteq fresh
  PROVE  Undisturbed'
  <1>1. \A i : Listed(i)' <=> Listed(i)
    BY DEF Listed
  <1>2. Orderly' /\ Occupied' /\ Kept'
    BY <1>1 DEF Undisturbed, Orderly, Occupied, Kept
  <1>3. Owned'
    BY DEF Undisturbed, Owned
  <1>. QED BY <1>2, <1>3 DEF Undisturbed

\* main puts a new connection into a slot that no session uses.
LEMMA AcceptKeeps ==
  ASSUME TypeOK, Undisturbed, Accept
  PROVE  Undisturbed'
  <1> DEFINE idle == {m \in Fds : fd[m] = Free}
             n == Min(idle)
             f == FreeSlot
             k == NextConn
  <1>1. n \in Fds /\ fd[n] = Free
    <2>1. idle \in SUBSET Nat /\ idle # {}
      BY SessionsAssumption DEF Accept, Fds
    <2>2. n \in idle
      BY <2>1, MinIn
    <2>. QED BY <2>2
  <1>2. f \in Slots /\ ~Listed(f)
    BY FreeSlotIn DEF Accept
  <1>3. k \in fresh /\ k \in Conns
    BY DEF Accept, NextConn, TypeOK
  <1>4. /\ fresh' = fresh \ {k} /\ fd' = [fd EXCEPT ![n] = k]
        /\ slot' = [slot EXCEPT ![f] = [slot[f] EXCEPT !.socket = n]]
        /\ main' = [main EXCEPT !.pc = "create", !.slot = f]
        /\ UNCHANGED th /\ main.pc = "accept"
    BY DEF Accept, Accepting, TypeOK
  <1> HIDE DEF n, f, k
  <1>5. /\ slot \in [Slots -> [socket: Fds \cup {Free}, pthread: Conns \cup {Free}]]
        /\ fd \in [Fds -> Conns \cup {Free}]
        /\ main \in [pc: {"accept", "create"}, slot: Slots]
        /\ \A c \in Conns : th[c].id \in Slots
        /\ fresh \subseteq Conns
        /\ Free \notin Fds /\ Free \notin Conns
    <2>1. \A c \in Conns : th[c] \in ThreadRecord
      BY DEF TypeOK, Threads
    <2>. QED BY <2>1, SessionsAssumption DEF TypeOK, ThreadRecord, Fds, Threads
  <1>6. /\ \A i \in Slots \ {f} : slot'[i] = slot[i]
        /\ slot'[f].socket = n
        /\ \A m \in Fds \ {n} : fd'[m] = fd[m]
        /\ fd'[n] = k
        /\ main'.pc = "create" /\ main'.slot = f
    BY <1>1, <1>2, <1>4, <1>5
  <1>7. (\A i \in Slots : Listed(i) => i # f /\ slot'[i].socket # Free) /\ slot'[f].socket # Free
    <2>1. n # Free
      BY <1>1, <1>5
    <2>. QED BY <1>2, <1>6, <2>1 DEF Listed
  <1>8. \A c \in Conns : th[c].pc \in Occupying => Listed(th[c].id) /\ th[c].id # f
    BY <1>2 DEF Undisturbed, Occupied
  <1>9. Orderly'
    BY <1>4 DEF Undisturbed, Orderly
  <1>10. Occupied'
    <2>1. \A c \in Conns : th[c].pc \in Occupying => slot'[th[c].id].socket # Free /\ f # th[c].id
      BY <1>5, <1>7, <1>8
    <2>2. UNCHANGED th /\ main'.slot = f
      BY <1>4, <1>6
    <2>. QED BY <1>7, <2>1, <2>2 DEF Undisturbed, Occupied, Listed
  <1>11. Owned'
    <2>1. ASSUME NEW c \in Conns, th[c].pc \in Occupying \ {"store"}
          PROVE  fd'[slot'[th[c].id].socket] = c
      <3> DEFINE s == slot[th[c].id].socket
      <3>1. fd[s] = c /\ slot'[th[c].id] = slot[th[c].id] /\ s \in Fds
        BY <1>5, <1>6, <1>8, <2>1 DEF Undisturbed, Owned, Listed
      <3>2. s # n
        BY <1>1, <1>5, <3>1
      <3>. QED BY <1>6, <3>1, <3>2
    <2>2. ASSUME NEW c \in Conns, NEW m \in Fds, fd'[m] = c, th[c].pc = "none"
          PROVE  m = n
      BY <1>4, <1>6, <2>2 DEF Undisturbed, Owned
    <2>3. ASSUME NEW c \in fresh \ {k} PROVE th[c].pc = "none" /\ \A m \in Fds : fd'[m] # c
      BY <1>6, <2>3 DEF Undisturbed, Owned
    <2>4. \A c \in Conns : th[c].pc = "recv" => th[c].conn = c
      BY DEF Undisturbed, Owned
    <2>5. UNCHANGED th /\ fresh' = fresh \ {k} /\ main'.pc = "create" /\ slot'[main'.slot].socket = n
      BY <1>4, <1>6
    <2>. QED BY <2>1, <2>2, <2>3, <2>4, <2>5 DEF Owned
  <1>12. Kept'
    <2>1. \A c \in Conns : th[c].pc = "store" => th[c].target # f
      BY <1>8 DEF Undisturbed, Orderly, Occupying, Killing
    <2>2. SUFFICES ASSUME NEW m \in Fds, fd'[m] # Free
                   PROVE  \E i \in Slots : /\ slot'[i].socket = m
                                           /\ \A c \in Conns : th[c].pc = "store" => th[c].target # i
      BY <1>4 DEF Kept
    <2>3. CASE m = n
      BY <1>2, <1>6, <2>1, <2>3
    <2>4. CASE m # n
      <3>1. PICK i \in Slots : /\ slot[i].socket = m
                               /\ \A c \in Conns : th[c].pc = "store" => th[c].target # i
        BY <1>6, <2>2, <2>4 DEF Undisturbed, Kept
      <3>2. i # f
        BY <1>2, <1>5, <3>1 DEF Listed
      <3>. QED BY <1>6, <3>1, <3>2
    <2>. QED BY <2>3, <2>4
  <1>. QED BY <1>9, <1>10, <1>11, <1>12 DEF Undisturbed


\* main creates the session of the connection it has just accepted.
LEMMA CreateKeeps ==
  ASSUME TypeOK, Undisturbed, Create
  PROVE  Undisturbed'
  <1>1. PICK c \in Conns : /\ Accepted(c)
                           /\ slot' = [slot EXCEPT ![main.slot].pthread = c]
                           /\ th' = [th EXCEPT ![c].pc = "request", ![c].id = main.slot]
    BY DEF Create
  <1> DEFINE f == main.slot
  <1>2. /\ slot \in [Slots -> [socket: Fds \cup {Free}, pthread: Conns \cup {Free}]]
        /\ th \in [Threads -> ThreadRecord]
        /\ main \in [pc: {"accept", "create"}, slot: Slots]
        /\ f \in Slots /\ main.pc = "create" /\ th[c].pc = "none"
        /\ c \in Threads /\ fresh \subseteq Conns
    BY <1>1 DEF TypeOK, Accepted, Accepting, Threads
  <1>3. PICK n \in Fds : fd[n] = c
    BY <1>1 DEF Accepted
  <1>4. slot[f].socket = n
    BY <1>2, <1>3 DEF Undisturbed, Owned
  <1>5. /\ UNCHANGED <<fd, fresh>> /\ main'.pc = "accept" /\ \A i \in Slots : slot'[i].socket = slot[i].socket
        /\ main'.slot = f
    BY <1>1, <1>2 DEF Create
  <1>6. /\ \A t \in Threads \ {c} : th'[t] = th[t]
        /\ th'[c].pc = "request" /\ th'[c].id = f
    BY <1>1, <1>2 DEF ThreadRecord
  <1>7. \A d \in Conns : d \in Threads /\ th[d].id \in Slots
    BY <1>2 DEF Threads, ThreadRecord
  <1>8. Main \in Threads \ {c}
    BY SessionsAssumption DEF Threads
  <1>9. Orderly'
    BY <1>6, <1>7, <1>8 DEF Undisturbed, Orderly, Occupying, Killing
  <1>10. Occupied'
    <2>1. \A d \in Conns \ {c} : th[d].pc \in Occupying => th[d].id # f /\ slot'[th[d].id].socket # Free
      BY <1>2, <1>5, <1>7 DEF Undisturbed, Occupied, Listed
    <2>2. slot'[f].socket # Free
      BY <1>2, <1>5 DEF Undisturbed, Occupied, Listed
    <2>3. \A d, e \in Conns \ {c} :
            th[d].pc \in Occupying /\ th[e].pc \in Occupying /\ th[d].id = th[e].id => d = e
      BY DEF Undisturbed, Occupied
    <2>4. \A d \in Conns : d = c \/ th'[d] = th[d]
      BY <1>6, <1>7
    <2>5. main'.pc # "create"
      BY <1>5
    <2>6. \A d \in Conns : th'[d].pc \in Occupying => slot'[th'[d].id].socket # Free
      BY <1>6, <2>1, <2>2, <2>4
    <2>7. ASSUME NEW d \in Conns, NEW e \in Conns, th'[d].pc \in Occupying, th'[e].pc \in Occupying,
                 th'[d].id = th'[e].id
          PROVE  d = e
      BY <1>6, <2>1, <2>3, <2>4, <2>7
    <2>. QED BY <2>5, <2>6, <2>7 DEF Occupied, Listed
  <1>11. Owned'
    <2>1. \A d \in Conns \ {c} : th[d].pc \in Occupying \ {"store"} => fd[slot'[th[d].id].socket] = d
      BY <1>5, <1>7 DEF Undisturbed, Owned
    <2>2. fd[slot'[f].socket] = c
      BY <1>2, <1>3, <1>4, <1>5
    <2>3. \A d \in Conns : d = c \/ th'[d] = th[d]
      BY <1>6, <1>7
    <2>4. \A d \in Conns : th'[d].pc \in Occupying \ {"store"} => fd[slot'[th'[d].id].socket] = d
      BY <1>6, <2>1, <2>2, <2>3
    <2>5. ASSUME NEW d \in Conns, NEW m \in Fds, fd[m] = d, th'[d].pc = "none" PROVE FALSE
      <3>1. d # c /\ th[d].pc = "none"
        BY <1>6, <2>3, <2>5
      <3>2. m = n
        BY <1>4, <2>5, <3>1 DEF Undisturbed, Owned
      <3>. QED BY <1>3, <2>5, <3>1, <3>2
    <2>6. \A d \in fresh : th'[d].pc = "none" /\ \A m \in Fds : fd[m] # d
      BY <1>2, <1>3, <2>3 DEF Undisturbed, Owned
    <2>7. \A d \in Conns : th'[d].pc = "recv" => th'[d].conn = d
      BY <1>6, <2>3 DEF Undisturbed, Owned
    <2>. QED BY <1>5, <2>4, <2>5, <2>6, <2>7 DEF Owned
  <1>12. Kept'
    <2>1. \A d \in Conns : th'[d].pc = "store" => th[d].pc = "store" /\ th'[d].target = th[d].target
      BY <1>6, <1>7
    <2>. QED BY <1>5, <2>1 DEF Undisturbed, Kept
  <1>. QED BY <1>9, <1>10, <1>11, <1>12 DEF Undisturbed

\* main closes the connection it has just accepted, and that one only.
LEMMA CreateFailsKeeps ==
  ASSUME TypeOK, Undisturbed, CreateFails
  PROVE  Undisturbed'
  <1>1. PICK c \in Conns : Accepted(c) /\ fd' = [n \in Fds |-> IF fd[n] = c THEN Free ELSE fd[n]]
    BY DEF CreateFails
  <1>2. /\ main \in [pc: {"accept", "create"}, slot: Slots] /\ main'.pc = "accept"
        /\ slot \in [Slots -> [socket: Fds \cup {Free}, pthread: Conns \cup {Free}]]
        /\ fd \in [Fds -> Conns \cup {Free}] /\ Free \notin Conns
        /\ fresh \subseteq Conns /\ th[c].pc = "none"
        /\ UNCHANGED <<slot, th, fresh>>
        /\ \A d \in Conns : th[d].id \in Slots
    <2>1. \A d \in Conns : th[d] \in ThreadRecord
      BY DEF TypeOK, Threads
    <2>. QED BY <1>1, <2>1, SessionsAssumption DEF CreateFails, TypeOK, Accepted, ThreadRecord, Threads
  <1>3. PICK n \in Fds : fd[n] = c
    BY <1>1 DEF Accepted
  <1>4. slot[main.slot].socket = n
    BY <1>2, <1>3 DEF Undisturbed, Owned
  <1>5. Orderly' /\ Occupied'
    BY <1>2 DEF Undisturbed, Orderly, Occupied, Listed
  <1>6. Owned'
    <2>1. ASSUME NEW d \in Conns, th[d].pc \in Occupying \ {"store"}
          PROVE  fd'[slot[th[d].id].socket] = d
      <3> DEFINE s == slot[th[d].id].socket
      <3>1. s \in Fds /\ fd[s] = d
        BY <1>2, <2>1 DEF Undisturbed, Owned, Occupied, Listed
      <3>2. d # c
        BY <1>2, <2>1 DEF Occupying
      <3>. QED BY <1>1, <3>1, <3>2
    <2>2. ASSUME NEW d \in Conns, NEW m \in Fds, fd'[m] = d, th[d].pc = "none" PROVE FALSE
      <3>1. d # c /\ fd[m] = d
        BY <1>1, <1>2, <2>2
      <3>2. m = n
        BY <1>4, <2>2, <3>1 DEF Undisturbed, Owned
      <3>. QED BY <1>3, <3>1, <3>2
    <2>3. \A d \in fresh : th[d].pc = "none" /\ \A m \in Fds : fd'[m] # d
      BY <1>1, <1>2 DEF Undisturbed, Owned
    <2>4. \A d \in Conns : th[d].pc = "recv" => th[d].conn = d
      BY DEF Undisturbed, Owned
    <2>. QED BY <1>2, <2>1, <2>2, <2>3, <2>4 DEF Owned
  <1>7. Kept'
    <2>1. \A m \in Fds : fd'[m] # Free => fd[m] # Free
      BY <1>1
    <2>. QED BY <1>2, <2>1 DEF Undisturbed, Kept
  <1>. QED BY <1>5, <1>6, <1>7 DEF Undisturbed

\* A session closes the descriptor of its own connection, whose slot it is about to clear.
LEMMA CloseKeeps ==
  ASSUME TypeOK, Undisturbed, NEW c \in Conns, KillClose(c)
  PROVE  Undisturbed'
  <1> DEFINE s == slot[th[c].target].socket
  <1>1. /\ th \in [Threads -> ThreadRecord] /\ c \in Threads /\ Main \in Threads /\ Main # c
        /\ \A d \in Conns : d \in Threads /\ th[d].id \in Slots
        /\ slot \in [Slots -> [socket: Fds \cup {Free}, pthread: Conns \cup {Free}]]
        /\ fd \in [Fds -> Conns \cup {Free}] /\ Free \notin Conns
        /\ fresh \subseteq Conns
    BY SessionsAssumption DEF TypeOK, Threads, ThreadRecord
  <1>2. th[c].pc = "close" /\ th[c].target = th[c].id /\ th[c].after = "ended"
    BY DEF KillClose, At, Undisturbed, Orderly, Killing
  <1>3. fd[s] = c /\ s \in Fds
    BY <1>1, <1>2 DEF Undisturbed, Owned, Occupied, Listed, Occupying
  <1>4. /\ fd' = [n \in Fds |-> IF n = s THEN Free ELSE fd[n]]
        /\ UNCHANGED <<slot, fresh, main>>
    BY DEF KillClose, others
  <1>5. /\ \A t \in Threads \ {c} : th'[t] = th[t]
        /\ th'[c].pc = "store" /\ th'[c].id = th[c].id /\ th'[c].target = th[c].id
        /\ th'[c].after = "ended"
    BY <1>1, <1>2 DEF KillClose, Goto, ThreadRecord
  <1> HIDE DEF s
  <1>6. \A d \in Conns : d = c \/ th'[d] = th[d]
    BY <1>1, <1>5
  <1>7. Orderly'
    <2>1. th'[Main] = th[Main]
      BY <1>1, <1>5
    <2>. QED BY <1>5, <1>6, <2>1 DEF Undisturbed, Orderly, Occupying, Killing
  <1>8. Occupied'
    <2>1. \A d \in Conns : th'[d].id = th[d].id /\ (th'[d].pc \in Occupying => th[d].pc \in Occupying)
      BY <1>2, <1>5, <1>6 DEF Occupying
    <2>. QED BY <1>4, <2>1 DEF Undisturbed, Occupied, Listed
  <1>9. Owned'
    <2>1. ASSUME NEW d \in Conns, th'[d].pc \in Occupying \ {"store"}
          PROVE  fd'[slot[th'[d].id].socket] = d
      <3>1. d # c /\ th'[d] = th[d]
        BY <1>5, <1>6, <2>1
      <3>2. fd[slot[th[d].id].socket] = d /\ slot[th[d].id].socket \in Fds
        BY <1>1, <2>1, <3>1 DEF Undisturbed, Owned, Occupied, Listed
      <3>. QED BY <1>3, <1>4, <3>1, <3>2
    <2>2. \A d \in Conns, m \in Fds : fd'[m] = d => fd[m] = d
      BY <1>1, <1>4
    <2>3. \A d \in Conns : th'[d].pc = "none" => th[d].pc = "none"
      BY <1>5, <1>6
    <2>4. \A d \in fresh : th'[d].pc = "none" /\ \A m \in Fds : fd'[m] # d
      <3>1. \A d \in fresh : th[d].pc = "none" /\ \A m \in Fds : fd[m] # d
        BY DEF Undisturbed, Owned
      <3>. QED BY <1>1, <1>2, <1>6, <2>2, <3>1
    <2>5. \A d \in Conns : th'[d].pc = "recv" => th'[d].conn = d
      BY <1>5, <1>6 DEF Undisturbed, Owned
    <2>. QED BY <1>4, <2>1, <2>2, <2>3, <2>4, <2>5 DEF Undisturbed, Owned
  <1>10. Kept'
    <2> SUFFICES ASSUME NEW m \in Fds, fd'[m] # Free
                 PROVE  \E i \in Slots : /\ slot[i].socket = m
                                         /\ \A d \in Conns : th'[d].pc = "store" => th'[d].target # i
      BY <1>4 DEF Kept
    <2>1. m # s /\ fd[m] # Free
      BY <1>4
    <2>2. PICK i \in Slots : /\ slot[i].socket = m
                             /\ \A d \in Conns : th[d].pc = "store" => th[d].target # i
      BY <2>1 DEF Undisturbed, Kept
    <2>3. i # th[c].id
      BY <1>2, <2>1, <2>2 DEF s
    <2>. QED BY <1>5, <1>6, <2>2, <2>3
  <1>. QED BY <1>7, <1>8, <1>9, <1>10 DEF Undisturbed

\* A session gives up its slot, which holds no open descriptor any more.
LEMMA StoreKeeps ==
  ASSUME TypeOK, Undisturbed, NEW c \in Conns, KillStore(c)
  PROVE  Undisturbed'
  <1> DEFINE j == th[c].id
  <1>1. /\ th \in [Threads -> ThreadRecord] /\ c \in Threads /\ Main \in Threads /\ Main # c
        /\ \A d \in Conns : d \in Threads /\ th[d].id \in Slots
        /\ slot \in [Slots -> [socket: Fds \cup {Free}, pthread: Conns \cup {Free}]]
        /\ fresh \subseteq Conns
        /\ main.slot \in Slots
    BY SessionsAssumption DEF TypeOK, Threads, ThreadRecord
  <1>2. th[c].pc = "store" /\ th[c].target = j /\ th[c].after = "ended"
    BY DEF KillStore, At, Undisturbed, Orderly, Killing
  <1>3. /\ slot' = [slot EXCEPT ![j].socket = Free]
        /\ UNCHANGED <<fd, fresh, main>>
    BY <1>2 DEF KillStore, others
  <1>4. /\ \A t \in Threads \ {c} : th'[t] = th[t]
        /\ th'[c].pc = "cancel" /\ th'[c].id = j /\ th'[c].target = j
        /\ th'[c].after = "ended"
    BY <1>1, <1>2 DEF KillStore, Goto, ThreadRecord
  <1> HIDE DEF j
  <1>5. \A d \in Conns : d = c \/ th'[d] = th[d]
    BY <1>1, <1>4
  <1>6. \A i \in Slots : i # j => slot'[i] = slot[i]
    BY <1>1, <1>3
  <1>7. \A d \in Conns : th'[d].pc \in Occupying =>
          d # c /\ th'[d] = th[d] /\ th[d].id # j /\ slot'[th[d].id] = slot[th[d].id]
    BY <1>1, <1>2, <1>4, <1>5, <1>6 DEF Undisturbed, Occupied, Occupying, j
  <1>8. main.pc = "create" => main.slot # j /\ slot'[main.slot] = slot[main.slot]
    BY <1>1, <1>2, <1>6 DEF Undisturbed, Occupied, Occupying, j
  <1>9. Orderly'
    <2>1. th'[Main] = th[Main]
      BY <1>1, <1>4
    <2>. QED BY <1>4, <1>5, <2>1 DEF Undisturbed, Orderly, Occupying, Killing
  <1>10. Occupied'
    BY <1>3, <1>7, <1>8 DEF Undisturbed, Occupied, Listed
  <1>11. Owned'
    <2>1. \A d \in Conns : th'[d].pc \in Occupying \ {"store"} => fd[slot'[th'[d].id].socket] = d
      BY <1>7 DEF Undisturbed, Owned
    <2>2. \A d \in Conns : th'[d].pc = "none" <=> th[d].pc = "none"
      BY <1>2, <1>4, <1>5
    <2>3. \A d \in Conns : th'[d].pc = "recv" => th'[d].conn = d
      BY <1>4, <1>5 DEF Undisturbed, Owned
    <2>4. \A d \in Conns, n \in Fds : fd[n] = d /\ th[d].pc = "none" =>
            main.pc = "create" /\ slot'[main.slot].socket = n
      BY <1>8 DEF Undisturbed, Owned
    <2>5. \A d \in fresh : th'[d].pc = "none" /\ \A n \in Fds : fd[n] # d
      BY <1>1, <2>2 DEF Undisturbed, Owned
    <2>. QED BY <1>3, <2>1, <2>2, <2>3, <2>4, <2>5 DEF Owned
  <1>12. Kept'
    <2> SUFFICES ASSUME NEW m \in Fds, fd[m] # Free
                 PROVE  \E i \in Slots : /\ slot'[i].socket = m
                                         /\ \A d \in Conns : th'[d].pc = "store" => th'[d].target # i
      BY <1>3 DEF Kept
    <2>1. PICK i \in Slots : /\ slot[i].socket = m
                             /\ \A d \in Conns : th[d].pc = "store" => th[d].target # i
      BY DEF Undisturbed, Kept
    <2>2. i # j
      BY <1>2, <2>1
    <2>. QED BY <1>4, <1>5, <1>6, <2>1, <2>2
  <1>. QED BY <1>9, <1>10, <1>11, <1>12 DEF Undisturbed


\* Any other step of a session is one of those that MovesKeep is about.
LEMMA SessionsMove ==
  ASSUME TypeOK, Aimed, Joinable, Undisturbed, NEW c \in Conns, kills' = kills,
         \/ Serve(c) \/ Command(c) \/ Locked(c)
         \/ ThreadStep(c) /\ ~KillClose(c) /\ ~KillStore(c)
  PROVE  Undisturbed'
  <1>1. /\ th \in [Threads -> ThreadRecord] /\ c \in Threads /\ Main \in Threads /\ Main # c
        /\ \A d \in Conns : d \in Threads /\ th[d].id \in Slots
        /\ slot \in [Slots -> [socket: Fds \cup {Free}, pthread: Conns \cup {Free}]]
        /\ kills \in Nat
    BY SessionsAssumption DEF TypeOK, Threads, ThreadRecord
  <1>2. /\ th[c].pc \in {"none", "ended"} \cup Occupying \cup Killing
        /\ th[c].pc \in Killing => th[c].target = th[c].id /\ th[c].after = "ended"
        /\ th[Main].pc = "none" /\ ~th[Main].cancelled
    BY DEF Undisturbed, Orderly
  \* The ways a session moves.
  <1>3. ASSUME NEW r \in ThreadRecord, th' = [th EXCEPT ![c] = r],
               UNCHANGED <<slot, fd, fresh, main>>, r.id = th[c].id, th[c].pc # "none",
               r.pc \in {"ended"} \cup (Occupying \ {"store"}) \cup (Killing \ {"store"}),
               r.pc \in Occupying => th[c].pc \in Occupying \ {"store"},
               r.pc \in Killing => r.target = th[c].id /\ r.after = "ended",
               r.pc = "recv" => r.conn = c
        PROVE  Undisturbed'
    <2>1. th'[c] = r /\ \A t \in Threads \ {c} : th'[t] = th[t]
      BY <1>1, <1>3
    <2>2. Moving(c)
      BY <1>1, <1>2, <1>3, <2>1 DEF Moving, Same
    <2>. QED BY <2>2, MovesKeep
  <1>4. ASSUME NEW label \in {"request", "mutex", "close"}, Goto(c, label),
               UNCHANGED <<slot, fd, fresh, main>>,
               th[c].pc \in Occupying \ {"store"},
               label = "close" => th[c].pc = "shutdown"
        PROVE  Undisturbed'
    <2> DEFINE r == [th[c] EXCEPT !.pc = label, !.conn = Free]
    <2>1. th[c] \in ThreadRecord
      BY <1>1
    <2>2. r \in ThreadRecord
      BY <2>1 DEF ThreadRecord, Labels
    <2>3. /\ r.pc = label /\ r.id = th[c].id /\ r.target = th[c].target /\ r.after = th[c].after
          /\ th' = [th EXCEPT ![c] = r]
      BY <1>1, <1>4, <2>1 DEF Goto, ThreadRecord
    <2> HIDE DEF r
    <2>4. th[c].pc # "none" /\ r.pc \in Occupying \ {"store"} /\ r.pc # "recv"
      BY <1>4, <2>3 DEF Occupying
    <2>5. r.pc \in Killing => r.target = th[c].id /\ r.after = "ended"
      BY <1>2, <1>4, <2>3 DEF Killing
    <2>. QED BY <1>3, <1>4, <2>2, <2>3, <2>4, <2>5
  <1>5. ASSUME Leave(c, "ended"), UNCHANGED <<slot, fd, fresh, main>>, th[c].pc # "none"
        PROVE  Undisturbed'
    <2> DEFINE r == [th[c] EXCEPT !.pc = "ended", !.conn = Free, !.target = 1,
                                  !.after = "ended", !.joins = Free]
    <2>1. th[c] \in ThreadRecord /\ 1 \in 1..(MaxClients + 1)
      BY <1>1, SessionsAssumption
    <2>2. r \in ThreadRecord
      BY <2>1 DEF ThreadRecord, Labels
    <2>3. r.pc = "ended" /\ r.id = th[c].id /\ th' = [th EXCEPT ![c] = r]
      BY <1>1, <1>5, <2>1 DEF Leave, ThreadRecord
    <2> HIDE DEF r
    <2>. QED BY <1>3, <1>5, <2>2, <2>3 DEF Occupying, Killing
  <1>6. ASSUME KillClient(c, th[c].id, "ended"), UNCHANGED <<slot, fd, fresh, main>>,
               th[c].pc \in {"request", "recv"}
        PROVE  Undisturbed'
    <2> DEFINE r == [th[c] EXCEPT !.pc = "shutdown", !.conn = Free, !.target = th[c].id,
                                  !.after = "ended"]
    <2>1. th[c] \in ThreadRecord /\ th[c].id \in 1..(MaxClients + 1)
      BY <1>1, SessionsAssumption DEF Slots
    <2>2. r \in ThreadRecord
      BY <2>1 DEF ThreadRecord, Labels
    <2>3. /\ r.pc = "shutdown" /\ r.id = th[c].id /\ r.target = th[c].id /\ r.after = "ended"
          /\ th' = [th EXCEPT ![c] = r]
      BY <1>1, <1>6, <2>1 DEF KillClient, ThreadRecord
    <2> HIDE DEF r
    <2>. QED BY <1>3, <1>6, <2>2, <2>3 DEF Occupying, Killing
  <1>7. CASE Serve(c) \/ Command(c) \/ Locked(c)
    <2>1. /\ UNCHANGED <<slot, fd, fresh, main>>
          /\ \/ th[c].pc = "recv" /\ (Goto(c, "request") \/ Goto(c, "mutex"))
             \/ th[c].pc = "mutex" /\ Goto(c, "request")
             \/ th[c].pc = "recv" /\ KillClient(c, th[c].id, "ended")
      BY <1>1, <1>7 DEF Serve, Command, Locked, At, others
    <2>. QED BY <1>4, <1>6, <2>1 DEF Occupying
  <1>8. CASE ThreadStep(c) /\ ~KillClose(c) /\ ~KillStore(c)
    <2>1. CASE Request(c)
      <3> DEFINE s == slot[th[c].id].socket
                 r == [th[c] EXCEPT !.pc = "recv", !.conn = fd[s]]
      <3>1. th[c].pc = "request" /\ UNCHANGED <<slot, fd, fresh, main>>
        BY <2>1 DEF Request, At, others
      <3>2. fd[s] = c /\ s # Free
        BY <3>1 DEF Undisturbed, Owned, Occupied, Listed, Occupying
      <3>3. fd[s] # Free
        BY <3>2, SessionsAssumption DEF Threads
      <3>4. th' = [th EXCEPT ![c] = r]
        BY <1>1, <2>1, <3>2, <3>3 DEF Request
      <3>5. th[c] \in ThreadRecord
        BY <1>1
      <3>6. r \in ThreadRecord /\ r.pc = "recv" /\ r.id = th[c].id /\ r.conn = c
        BY <3>2, <3>5 DEF ThreadRecord, Labels
      <3> HIDE DEF r
      <3>. QED BY <1>3, <3>1, <3>4, <3>6 DEF Occupying, Killing
    <2>2. CASE Hangup(c)
      BY <1>6, <2>2 DEF Hangup, At, others
    <2>3. CASE Cancelled(c)
      <3>1. th[c].pc # "none" /\ Leave(c, "ended") /\ UNCHANGED <<slot, fd, fresh, main>>
        BY <2>3 DEF Cancelled, At, others
      <3>. QED BY <1>5, <3>1
    <2>4. CASE KillShutdown(c)
      <3>1. th[c].pc = "shutdown" /\ th[c].target = th[c].id /\ UNCHANGED <<slot, fd, fresh, main>>
        BY <1>2, <2>4 DEF KillShutdown, At, others, Killing
      <3>2. Listed(th[c].target)
        BY <3>1 DEF Undisturbed, Occupied, Occupying
      <3>3. Goto(c, "close")
        BY <2>4, <3>2 DEF KillShutdown
      <3>. QED BY <1>4, <3>1, <3>3 DEF Occupying
    <2>5. CASE KillCancel(c)
      <3> DEFINE u == slot[th[c].target].pthread
      <3>1. /\ th[c].pc = "cancel" /\ th[c].target = th[c].id /\ th[c].after = "ended"
            /\ UNCHANGED <<slot, fd, fresh, main>>
        BY <1>2, <2>5 DEF KillCancel, At, Killing
      <3>2. CASE u = Free
        <4>1. UNCHANGED th
          BY <2>5, <3>2 DEF KillCancel
        <4>. QED BY <3>1, <4>1, StillKeeps
      <3>3. CASE u # Free
        <4>1. u \in Conns /\ u \in Threads /\ u # Main
          BY <1>1, <3>1, <3>3, SessionsAssumption
        <4>2. th' = [th EXCEPT ![u].cancelled = TRUE, ![c].pc = "join"]
          BY <2>5, <3>3 DEF KillCancel
        <4> HIDE DEF u
        <4>3. \A t \in Threads : th[t] \in ThreadRecord
          BY <1>1
        <4>4. \A t \in Threads \ {c} : th'[t] = th[t] \/ th'[t] = [th[t] EXCEPT !.cancelled = TRUE]
          BY <1>1, <4>1, <4>2
        <4>5. \A t \in Threads \ {c} : Same(t)
          BY <4>3, <4>4 DEF Same, ThreadRecord
        <4>6. th'[Main] = th[Main]
          BY <1>1, <4>1, <4>2
        <4>7. /\ th'[c].pc = "join" /\ th'[c].id = th[c].id /\ th'[c].target = th[c].target
              /\ th'[c].after = th[c].after
          <5>1. \/ th'[c] = [th[c] EXCEPT !.pc = "join"]
                \/ th'[c] = [th[c] EXCEPT !.cancelled = TRUE, !.pc = "join"]
            BY <1>1, <4>1, <4>2
          <5>. QED BY <1>1, <4>3, <5>1 DEF ThreadRecord
        <4>8. Moving(c)
          BY <1>1, <1>2, <3>1, <4>5, <4>6, <4>7 DEF Moving, Occupying, Killing
        <4>. QED BY <4>8, MovesKeep
      <3>. QED BY <3>2, <3>3
    <2>6. CASE KillJoin(c) \/ KillJoined(c)
      <3>1. /\ th[c].pc \in {"join", "joining"} /\ th[c].target = th[c].id /\ th[c].after = "ended"
            /\ UNCHANGED <<slot, fd, fresh, main>>
        BY <1>2, <2>6 DEF KillJoin, KillJoined, At, others, Killing
      <3>2. CASE Return(c)
        BY <1>5, <3>1, <3>2 DEF Return
      <3>3. CASE ~Return(c)
        <4> DEFINE u == slot[th[c].target].pthread
                   r == [th[c] EXCEPT !.pc = "joining", !.joins = u]
        <4>1. th' = [th EXCEPT ![c] = r] /\ th[c].pc = "join"
          BY <1>1, <2>6, <3>3 DEF KillJoin, KillJoined, At
        <4>2. u \in Conns
          BY <1>1, <4>1 DEF Joinable
        <4>3. th[c] \in ThreadRecord
          BY <1>1
        <4> HIDE DEF u
        <4>4. /\ r \in ThreadRecord /\ r.pc = "joining" /\ r.id = th[c].id
              /\ r.target = th[c].target /\ r.after = th[c].after
          BY <4>2, <4>3 DEF ThreadRecord, Labels
        <4> HIDE DEF r
        <4>. QED BY <1>3, <3>1, <4>1, <4>4 DEF Occupying, Killing
      <3>. QED BY <3>2, <3>3
    <2>7. CASE \/ Quit(c) \/ QuitLoop(c) \/ QuitCancelMain(c) \/ QuitJoinMsg(c) \/ QuitExit(c)
      BY <1>2, <2>7 DEF Quit, QuitLoop, QuitCancelMain, QuitJoinMsg, QuitExit, At, Occupying, Killing
    <2>. QED BY <1>8, <2>1, <2>2, <2>3, <2>4, <2>5, <2>6, <2>7 DEF ThreadStep
  <1>. QED BY <1>7, <1>8

\* No step that leaves kills at 0 upsets the table.
LEMMA UndisturbedKept ==
  ASSUME TypeOK, Aimed, Joinable, Undisturbed, kills = 0, kills' = 0, [Next]_vars
  PROVE  Undisturbed'
  <1>1. CASE UNCHANGED vars
    BY <1>1, StillKeeps DEF vars
  <1>2. CASE MainStep
    <2>1. CASE Refuse
      BY <2>1, StillKeeps DEF Refuse
    <2>2. ~MainCancelled /\ ~Signal
      BY DEF MainCancelled, Signal, Undisturbed, Orderly
    <2>. QED BY <1>2, <2>1, <2>2, AcceptKeeps, CreateKeeps, CreateFailsKeeps DEF MainStep
  <1>3. CASE MsgCancelled \/ PeerLeaves
    BY <1>3, StillKeeps DEF MsgCancelled, PeerLeaves
  <1>4. CASE \E c \in Conns : Serve(c) \/ Command(c) \/ Locked(c)
    BY <1>4, SessionsMove
  <1>5. CASE \E t \in Threads : ThreadStep(t)
    <2>1. PICK t \in Threads : ThreadStep(t)
      BY <1>5
    <2>2. t # Main
      <3>1. th[Main].pc = "none" /\ ~th[Main].cancelled
        BY DEF Undisturbed, Orderly
      <3>. QED BY <2>1, <3>1 DEF ThreadStep, Request, Hangup, Cancelled, KillShutdown, KillClose,
                  KillStore, KillCancel, KillJoin, KillJoined, Quit, QuitLoop, QuitCancelMain,
                  QuitJoinMsg, QuitExit, At
    <2>3. t \in Conns
      BY <2>2 DEF Threads
    <2>. QED BY <2>1, <2>3, CloseKeeps, StoreKeeps, SessionsMove
  <1>. QED BY <1>1, <1>2, <1>3, <1>4, <1>5 DEF Next

\* Nothing has disturbed the table until the first kill, shutdown or signal.
LEMMA Quiet == Spec => [](TypeOK /\ (kills = 0 => Undisturbed))
    <1>1. Init => Undisturbed
    <2> SUFFICES ASSUME Init PROVE Undisturbed
      OBVIOUS
    <2>1. /\ \A t \in Threads : th[t].pc = "none" /\ ~th[t].cancelled
          /\ \A n \in Fds : fd[n] = Free
          /\ fresh = Conns /\ main.pc = "accept"
          /\ Free \notin Conns /\ Main \in Threads /\ Conns \subseteq Threads
      BY SessionsAssumption DEF Init, Threads
    <2>. QED BY <2>1 DEF Undisturbed, Orderly, Occupied, Owned, Kept, Occupying, Killing
  <1>2. (kills = 0 => Undisturbed) /\ TypeOK /\ Aimed /\ Joinable /\ [Next]_vars
          => (kills = 0 => Undisturbed)'
    <2> SUFFICES ASSUME kills = 0 => Undisturbed, TypeOK, Aimed, Joinable, [Next]_vars, kills' = 0
                 PROVE  Undisturbed'
      OBVIOUS
    <2>1. kills = 0
      <3>1. kills \in Nat
        BY SessionsAssumption DEF TypeOK
      <3>2. kills' = kills \/ kills' = kills + 1
        BY DEF Next, MainStep, Refuse, Accept, Create, CreateFails, MainCancelled, Signal,
               MsgCancelled, PeerLeaves, Serve, Command, Locked, ThreadStep, Request, Hangup,
               Cancelled, KillShutdown, KillClose, KillStore, KillCancel, KillJoin, KillJoined,
               Quit, QuitLoop, QuitCancelMain, QuitJoinMsg, QuitExit, others, vars
      <3>. QED BY <3>1, <3>2
    <2>. QED BY <2>1, UndisturbedKept
  <1>. QED BY <1>1, <1>2, Handles, PTL DEF Spec

\* Until a kill, a shutdown or a signal, every open connection is in the table
\* (kill_client closes a descriptor before it gives up the slot).
THEOREM Listing == Spec => []ConnectionsAreListed
  <1>1. TypeOK /\ (kills = 0 => Undisturbed) => ConnectionsAreListed
    BY DEF Undisturbed, Kept, ConnectionsAreListed
  <1>. QED BY <1>1, Quiet, PTL

\* Until a kill, a shutdown or a signal, every session waits for requests of its own
\* client (main takes no slot that a session may still read).
THEOREM Reading == Spec => []ReadsItsOwn
  <1>1. TypeOK /\ (kills = 0 => Undisturbed) => ReadsItsOwn
    BY DEF Undisturbed, Owned, ReadsItsOwn
  <1>. QED BY <1>1, Quiet, PTL
=============================================================================
