------------------------------ MODULE Sessions ------------------------------
(***************************************************************************)
(* The client sessions: the table clients[], the accept loop of main that  *)
(* fills it, one thread per session that serves its slot, kill_client that *)
(* empties a slot, and mplayerd_quit, run by a session for `shutdown' or   *)
(* by main, as the handler of SIGINT and SIGTERM, at any point of its      *)
(* loop.  No lock protects the table.                                      *)
(*                                                                         *)
(* kill_client reads clients[index] again for each call it makes, so its   *)
(* steps here are the accesses: test and shutdown(), close(), the store of *)
(* -1, pthread_cancel(), pthread_join().  A session may run it on its own  *)
(* slot, when its peer leaves, or on another, for `kill' or `shutdown'.    *)
(* Descriptor numbers are reused, the lowest first, as the kernel does.    *)
(*                                                                         *)
(* Threads are NPTL's: a cancelled thread ends at its next cancellation    *)
(* point (recv, send, accept, close, a join that waits), a join returns an *)
(* error at once if another thread already joins the target, and a handle  *)
(* is not reused.  One step each: the scan for a free slot and the store   *)
(* of its socket; the two reads of the socket that start client_request.   *)
(* What a slot holds besides socket and pthread is left out, and of the    *)
(* message thread all but instances_mutex, which some requests wait for.   *)
(***************************************************************************)
EXTENDS Naturals, FiniteSets, FiniteSetsExt

CONSTANTS
  Conns,       \* the connections, and the sessions that serve them
  MaxClients,  \* MAX_CLIENTS
  MaxFds,      \* descriptor numbers for connections are 1..MaxFds
  MaxKills,    \* bound: the kill and shutdown commands and signals
  Main,        \* the thread of main, while it runs mplayerd_quit
  Free         \* a socket of -1, a pthread never set, an unused descriptor

Slots == 1..MaxClients
Fds   == 1..MaxFds
Threads == Conns \cup {Main}

ASSUME SessionsAssumption ==
  /\ MaxClients \in Nat \ {0}
  /\ MaxFds \in Nat /\ MaxFds > MaxClients
  /\ MaxKills \in Nat
  /\ Free \notin Threads \cup Nat
  /\ Main \notin Conns

VARIABLES
  slot,    \* clients[]: the socket and the thread of each slot
  fd,      \* the connection each descriptor number refers to
  fresh,   \* connections still to be made
  gone,    \* connections on which recv() returns 0: shut down, or the peer left
  main,    \* the accept loop
  th,      \* the session threads, and the signal handler on main
  msg,     \* the message thread
  kills,   \* the kill and shutdown commands and signals so far
  exited   \* "exit" after exit(0), "fault" after an undefined handle was used

vars == <<slot, fd, fresh, gone, main, th, msg, kills, exited>>
others == <<fresh, main, msg, kills, exited>>

Labels == {"none", "request", "recv", "shutdown", "close", "store", "cancel", "join",
           "joining", "quit", "loop", "cancelMain", "joinMsg", "joinMain", "mutex", "ended"}

\* id is the slot the thread serves, conn what it waits for in recv; target,
\* after and joins are those of the kill_client it runs: its index, where it
\* returns to, the thread it waits for.
ThreadRecord == [pc: Labels, id: Slots, conn: Conns \cup {Free}, target: 1..(MaxClients + 1),
                 after: {"request", "loop", "ended"}, joins: Conns \cup {Free},
                 cancelled: BOOLEAN]

TypeOK ==
  /\ slot \in [Slots -> [socket: Fds \cup {Free}, pthread: Conns \cup {Free}]]
  /\ fd \in [Fds -> Conns \cup {Free}]
  /\ fresh \subseteq Conns /\ gone \subseteq Conns
  /\ main \in [pc: {"accept", "create"}, slot: Slots]
  /\ th \in [Threads -> ThreadRecord]
  /\ msg \in {"runs", "cancelled", "ended"}
  /\ kills \in 0..MaxKills
  /\ exited \in {"no", "exit", "fault"}

Init ==
  /\ slot = [i \in Slots |-> [socket |-> Free, pthread |-> Free]]
  /\ fd = [n \in Fds |-> Free]
  /\ fresh = Conns /\ gone = {}
  /\ main = [pc |-> "accept", slot |-> 1]
  /\ th = [c \in Threads |-> [pc |-> "none", id |-> 1, conn |-> Free, target |-> 1,
                              after |-> "ended", joins |-> Free, cancelled |-> FALSE]]
  /\ msg = "runs"
  /\ kills = 0
  /\ exited = "no"

Listed(i) == slot[i].socket # Free

\* main is in its loop, at that point, and not in the signal handler.
Accepting(label) == exited = "no" /\ main.pc = label /\ th[Main].pc = "none"

-----------------------------------------------------------------------------
(* main: accept(), and a slot and a thread for the new connection.         *)

\* Connections are named in the order they are made: which of the interchangeable
\* names the next one has does not matter.
NextConn == CHOOSE c \in fresh : TRUE

\* The address is not allowed, or every slot is taken: the connection is closed.
Refuse ==
  /\ Accepting("accept") /\ ~th[Main].cancelled
  /\ fresh # {}
  /\ fresh' = fresh \ {NextConn}
  /\ gone' = gone \cup {NextConn}
  /\ UNCHANGED <<slot, fd, main, th, msg, kills, exited>>

\* Mutant of FreeSlot: the scan does not look at the sockets.
FreeSlotAny == Min(Slots)

FreeSlot ==
  Min({i \in Slots : ~Listed(i)})

Accept ==
  /\ Accepting("accept") /\ ~th[Main].cancelled
  /\ fresh # {}
  /\ \E i \in Slots : ~Listed(i)
  /\ \E n \in Fds : fd[n] = Free
  /\ fresh' = fresh \ {NextConn}
  /\ LET n == Min({m \in Fds : fd[m] = Free})
     IN  /\ fd' = [fd EXCEPT ![n] = NextConn]
         /\ slot' = [slot EXCEPT ![FreeSlot].socket = n]
         /\ main' = [main EXCEPT !.pc = "create", !.slot = FreeSlot]
  /\ UNCHANGED <<gone, th, msg, kills, exited>>

\* The connection main has just accepted: the one no thread was created for.
Accepted(c) == Accepting("create") /\ th[c].pc = "none" /\ \E n \in Fds : fd[n] = c

\* pthread_create() stores the handle before the thread runs.
Create ==
  /\ \E c \in Conns :
       /\ Accepted(c)
       /\ slot' = [slot EXCEPT ![main.slot].pthread = c]
       /\ th' = [th EXCEPT ![c].pc = "request", ![c].id = main.slot]
  /\ main' = [main EXCEPT !.pc = "accept"]
  /\ UNCHANGED <<fd, fresh, gone, msg, kills, exited>>

\* No thread: the connection is closed, and the slot keeps its number.
CreateFails ==
  /\ \E c \in Conns :
       /\ Accepted(c)
       /\ gone' = gone \cup {c}
       /\ fd' = [n \in Fds |-> IF fd[n] = c THEN Free ELSE fd[n]]
  /\ main' = [main EXCEPT !.pc = "accept"]
  /\ UNCHANGED <<slot, fresh, th, msg, kills, exited>>

MainCancelled ==
  /\ Accepting("accept") /\ th[Main].cancelled
  /\ th' = [th EXCEPT ![Main].pc = "ended"]
  /\ UNCHANGED <<slot, fd, gone, others>>

\* SIGINT or SIGTERM: main runs mplayerd_quit, wherever its loop is.
Signal ==
  /\ \E label \in {"accept", "create"} : Accepting(label)
  /\ kills < MaxKills
  /\ kills' = kills + 1
  /\ th' = [th EXCEPT ![Main].pc = "quit"]
  /\ UNCHANGED <<slot, fd, fresh, gone, main, msg, exited>>

-----------------------------------------------------------------------------
(* The message thread takes and gives back instances_mutex, and may keep it *)
(* in read() for as long as a player is silent.  Every cancellation point  *)
(* it has is in between: it ends with the mutex held.                      *)

MsgCancelled ==
  /\ exited = "no" /\ msg = "cancelled"
  /\ msg' = "ended"
  /\ UNCHANGED <<slot, fd, fresh, gone, main, th, kills, exited>>

-----------------------------------------------------------------------------
(* A session thread: client_thread and client_request.                     *)

At(c, label)   == exited = "no" /\ th[c].pc = label
Goto(c, label) == th' = [th EXCEPT ![c].pc = label, ![c].conn = Free]

KillClient(c, i, after) ==
  th' = [th EXCEPT ![c].pc = "shutdown", ![c].conn = Free,
                   ![c].target = i, ![c].after = after]

\* Back from kill_client, or at the end.
Leave(c, label) ==
  th' = [th EXCEPT ![c].pc = label, ![c].conn = Free, ![c].target = 1,
                   ![c].after = "ended", ![c].joins = Free]

\* recv() on whatever the slot's socket refers to now.
Request(c) ==
  /\ At(c, "request") /\ ~th[c].cancelled
  /\ LET s == slot[th[c].id].socket
     IN  IF s # Free /\ fd[s] # Free
         THEN th' = [th EXCEPT ![c].pc = "recv", ![c].conn = fd[s]]
         ELSE KillClient(c, th[c].id, "ended")
  /\ UNCHANGED <<slot, fd, gone, others>>

\* Mutant of Hangup: recv() returning 0 is not taken for an error.
HangupIgnored(c) ==
  /\ At(c, "recv") /\ ~th[c].cancelled
  /\ th[c].conn \in gone
  /\ Goto(c, "request")
  /\ UNCHANGED <<slot, fd, gone, others>>

Hangup(c) ==
  /\ At(c, "recv") /\ ~th[c].cancelled
  /\ th[c].conn \in gone
  /\ KillClient(c, th[c].id, "ended")
  /\ UNCHANGED <<slot, fd, gone, others>>

\* The client sends a request that leaves the table alone, with instances_mutex
\* (a new instance, TAB) or without it, or quit.
Serve(c) ==
  /\ At(c, "recv") /\ ~th[c].cancelled
  /\ th[c].conn \notin gone
  /\ \/ Goto(c, "request")
     \/ Goto(c, "mutex")
     \/ KillClient(c, th[c].id, "ended")
  /\ UNCHANGED <<slot, fd, gone, others>>

\* The mutex is given to c, some time while the message thread lives.
\* pthread_mutex_lock is no cancellation point.
Locked(c) ==
  /\ At(c, "mutex")
  /\ msg # "ended"
  /\ Goto(c, "request")
  /\ UNCHANGED <<slot, fd, gone, others>>

\* The client sends a command that reaches the table: kill or shutdown.
Command(c) ==
  /\ At(c, "recv") /\ ~th[c].cancelled
  /\ th[c].conn \notin gone
  /\ kills < MaxKills
  /\ kills' = kills + 1
  /\ \/ \E i \in Slots : KillClient(c, i, "request")
     \/ Goto(c, "quit")
  /\ UNCHANGED <<slot, fd, fresh, gone, main, msg, exited>>

\* The thread is cancelled, and at a cancellation point.
Cancelled(c) ==
  /\ th[c].cancelled
  /\ \/ \E label \in {"request", "recv", "close", "joining", "joinMain"} : At(c, label)
     \/ At(c, "joinMsg") /\ msg # "ended"
     \/ At(c, "loop") /\ th[c].target \in Slots /\ Listed(th[c].target)
  /\ Leave(c, "ended")
  /\ UNCHANGED <<slot, fd, gone, others>>

-----------------------------------------------------------------------------
(* kill_client(index), called by c.                                        *)

\* Mutant of KillShutdown: the connection is shut down and not closed.
KillShutdownOnly(c) ==
  /\ At(c, "shutdown")
  /\ gone' = gone \cup (IF Listed(th[c].target)
                         THEN {fd[slot[th[c].target].socket]} \ {Free} ELSE {})
  /\ Goto(c, "store")
  /\ UNCHANGED <<slot, fd, others>>

KillShutdown(c) ==
  /\ At(c, "shutdown")
  /\ LET i == th[c].target
     IN  IF Listed(i)
         THEN gone' = gone \cup ({fd[slot[i].socket]} \ {Free}) /\ Goto(c, "close")
         ELSE gone' = gone /\ Goto(c, "store")
  /\ UNCHANGED <<slot, fd, others>>

\* close() of a number that is not open, or of -1, fails and is ignored.
KillClose(c) ==
  /\ At(c, "close") /\ ~th[c].cancelled
  /\ LET s == slot[th[c].target].socket
     IN  fd' = [n \in Fds |-> IF n = s THEN Free ELSE fd[n]]
  /\ Goto(c, "store")
  /\ UNCHANGED <<slot, gone, others>>

KillStore(c) ==
  /\ At(c, "store")
  /\ slot' = [slot EXCEPT ![th[c].target].socket = Free]
  /\ Goto(c, "cancel")
  /\ UNCHANGED <<fd, gone, others>>

\* A slot that never had a session holds no handle: what happens is undefined.
KillCancel(c) ==
  /\ At(c, "cancel")
  /\ LET t == slot[th[c].target].pthread
     IN  IF t = Free
         THEN exited' = "fault" /\ UNCHANGED th
         ELSE th' = [th EXCEPT ![t].cancelled = TRUE, ![c].pc = "join"] /\ UNCHANGED exited
  /\ UNCHANGED <<slot, fd, fresh, gone, main, msg, kills>>

\* Mutant of Return: the loop of mplayerd_quit advances its index twice.
ReturnSkips(c) ==
  IF th[c].after = "loop"
  THEN th' = [th EXCEPT ![c].pc = "loop", ![c].joins = Free, ![c].target = @ + 2]
  ELSE Leave(c, th[c].after)

\* What thread c does when kill_client returns.
Return(c) ==
  IF th[c].after = "loop"
  THEN th' = [th EXCEPT ![c].pc = "loop", ![c].joins = Free, ![c].target = @ + 1]
  ELSE Leave(c, th[c].after)

\* The join fails at once if another thread waits for t, or t for c, or t is c;
\* the last two only if c is not itself cancelled.
JoinFails(c, t) ==
  \/ \E d \in Threads : th[d].pc = "joining" /\ th[d].joins = t
  \/ ~th[c].cancelled /\ (t = c \/ (th[t].pc = "joining" /\ th[t].joins = c))

KillJoin(c) ==
  /\ At(c, "join")
  /\ LET t == slot[th[c].target].pthread
     IN  IF th[t].pc = "ended" \/ JoinFails(c, t)
         THEN Return(c)
         ELSE th' = [th EXCEPT ![c].pc = "joining", ![c].joins = t]
  /\ UNCHANGED <<slot, fd, gone, others>>

KillJoined(c) ==
  /\ At(c, "joining")
  /\ th[th[c].joins].pc = "ended"
  /\ Return(c)
  /\ UNCHANGED <<slot, fd, gone, others>>

-----------------------------------------------------------------------------
(* mplayerd_quit, called by c.                                             *)

\* Mutant of Quit: the message thread is not cancelled.
QuitLetsRun(c) ==
  /\ At(c, "quit")
  /\ th' = [th EXCEPT ![c].pc = "loop", ![c].target = 1]
  /\ UNCHANGED <<slot, fd, gone, others>>

Quit(c) ==
  /\ At(c, "quit")
  /\ msg' = IF msg = "runs" THEN "cancelled" ELSE msg
  /\ th' = [th EXCEPT ![c].pc = "loop", ![c].target = 1]
  /\ UNCHANGED <<slot, fd, fresh, gone, main, kills, exited>>

QuitLoop(c) ==
  /\ At(c, "loop")
  /\ LET i == th[c].target
     IN  \/ /\ i > MaxClients
            /\ Goto(c, "cancelMain")
         \/ /\ i \in Slots /\ ~Listed(i)
            /\ th' = [th EXCEPT ![c].target = i + 1]
         \/ /\ i \in Slots /\ Listed(i) /\ ~th[c].cancelled
            /\ KillClient(c, i, "loop")
  /\ UNCHANGED <<slot, fd, gone, others>>

QuitCancelMain(c) ==
  /\ At(c, "cancelMain")
  /\ th' = [th EXCEPT ![Main].cancelled = TRUE, ![c].pc = "joinMsg"]
  /\ UNCHANGED <<slot, fd, gone, others>>

QuitJoinMsg(c) ==
  /\ At(c, "joinMsg")
  /\ msg = "ended"
  /\ Goto(c, "joinMain")
  /\ UNCHANGED <<slot, fd, gone, others>>

QuitExit(c) ==
  /\ At(c, "joinMain") /\ ~th[c].cancelled
  /\ th[Main].pc = "ended"
  /\ exited' = "exit"
  /\ UNCHANGED <<slot, fd, fresh, gone, main, th, msg, kills>>

-----------------------------------------------------------------------------

MainStep == Refuse \/ Accept \/ Create \/ CreateFails \/ MainCancelled \/ Signal

\* The peer closes a connection that is open here.
PeerLeaves ==
  /\ exited = "no"
  /\ \E c \in Conns \ gone : (\E n \in Fds : fd[n] = c) /\ gone' = gone \cup {c}
  /\ UNCHANGED <<slot, fd, fresh, main, th, msg, kills, exited>>

\* What a session, or the handler, does on its own once it is started.
ThreadStep(c) ==
  \/ Request(c) \/ Hangup(c) \/ Cancelled(c)
  \/ KillShutdown(c) \/ KillClose(c) \/ KillStore(c) \/ KillCancel(c) \/ KillJoin(c)
  \/ KillJoined(c) \/ Quit(c) \/ QuitLoop(c) \/ QuitCancelMain(c) \/ QuitJoinMsg(c)
  \/ QuitExit(c)

Next ==
  \/ MainStep
  \/ MsgCancelled
  \/ PeerLeaves
  \/ \E c \in Conns : Serve(c) \/ Command(c) \/ Locked(c)
  \/ \E t \in Threads : ThreadStep(t)

Spec == Init /\ [][Next]_vars

\* Every thread keeps running; peers, clients and players need not do anything,
\* and a mutex may never be given to the thread that waits for it.
FairSpec ==
  /\ Spec
  /\ WF_vars(Create \/ CreateFails \/ MainCancelled)
  /\ WF_vars(MsgCancelled)
  /\ \A t \in Threads : WF_vars(ThreadStep(t))

-----------------------------------------------------------------------------
(* Properties.                                                             *)

\* Until a kill, a shutdown or a signal, every open connection is the socket of
\* a slot: kill_client closes a socket before it gives up the slot, so main
\* never loses one, and no more than MAX_CLIENTS are open.
ConnectionsAreListed ==
  kills = 0 =>
    \A n \in Fds : fd[n] # Free => \E i \in Slots : slot[i].socket = n

\* Until a kill, a shutdown or a signal, a session that waits for requests
\* waits for those of its own client, although it reads the socket from a
\* slot that earlier sessions used and may still be clearing.
ReadsItsOwn ==
  kills = 0 =>
    \A c \in Conns : th[c].pc = "recv" => th[c].conn = c

\* Until a kill, a shutdown or a signal, the sessions whose peers have left close
\* their connections: again and again there is none left over, but for those that
\* wait for instances_mutex, and those that the previous session of their slot,
\* still in kill_client, has cancelled.
LeaversAreClosed ==
  []<>(\A c \in gone : \/ \A n \in Fds : fd[n] # c
                        \/ th[c].cancelled
                        \/ kills > 0
                        \/ th[c].pc = "mutex")

\* SIGINT and SIGTERM end every thread, although main cancels itself and never
\* reaches exit(0); except that a session is joined for ever when it waits for
\* instances_mutex, with which the message thread was cancelled, and that a
\* handle main has not set yet can be used (mplayerd_quit as a signal handler).
SignalEnds ==
  (th[Main].pc = "quit") ~>
    \/ exited = "fault"
    \/ \A t \in Threads : th[t].pc \in {"none", "ended"}
    \/ msg = "ended" /\ \E c \in Conns : th[c].pc = "mutex"

\* The documented effect of `shutdown now': the daemon stops.
ShutdownStops ==
  \A c \in Conns : (th[c].pc = "quit") ~> (exited # "no")

=============================================================================
