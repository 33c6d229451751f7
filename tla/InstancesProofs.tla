-------------------------- MODULE InstancesProofs ---------------------------
(***************************************************************************)
(* Proofs about Instances for every set of clients, every number of nodes  *)
(* and every limit: types, what instance_count counts, and how far clients *)
(* that create instances at the same time can exceed the limit; then the   *)
(* shape of the linked list, what Linked and Chain compute of it, that     *)
(* instance_count is its length, what new_instance finds when it looks for *)
(* a free id, and that the list implements Registry.                       *)
(***************************************************************************)
EXTENDS Instances, NaturalLemmas, SequenceTheorems, FiniteSetTheorems, FunctionTheorems, TLAPS

-----------------------------------------------------------------------------
(* Where a thread can be.                                                  *)

\* The labels of the loop that looks for an id, of deleting and of appending.
Loop    == {"save", "start", "test", "look", "take", "next", "store", "restore"}
Freeing == {"strip", "unlink", "countDown", "countDownStore"}
Adding  == {"append", "link", "tail", "unlock"}

\* The message thread walks, and does nothing else.
MsgAt(r) ==
  /\ r.walk = "messages"
  /\ r.pc \in {"begin", "start", "test", "look", "visit", "next", "store", "unlock"}

\* A client is at a label of the walk it is in; the ids it tries stay in range;
\* only the delete command frees.
ClientAt(r) ==
  /\ r.op \in Commands \cup {"use"}
  /\ r.walk \in {"again", "free"} => "delete" \in Commands
  /\ r.pc = "full" => r.op = "new"
  /\ \/ /\ r.walk \in {"lookup", "again"}
        /\ r.pc \in Loop \cup {"idle", "use", "full", "mutex", "countUp", "countUpStore"}
     \/ r.walk = "free" /\ r.pc \in (Loop \ {"take"}) \cup Freeing
     \/ r.walk = "listing" /\ r.pc \in {"idle", "start", "test", "look", "visit", "next", "store"}
     \/ r.walk = "unique" /\ r.pc \in Loop /\ r.id <= MaxInstances
     \/ r.walk = "unique" /\ r.pc \in Adding

Labelled == MsgAt(th[MsgThread]) /\ \A c \in Clients : ClientAt(th[c])

\* What becomes of a thread when it takes a step.
Becomes(t, r) ==
  /\ th' = [th EXCEPT ![t] = r]
  /\ r \in ThreadRecord
  /\ IF t = MsgThread THEN MsgAt(r) ELSE ClientAt(r)

-----------------------------------------------------------------------------
(* Types.                                                                  *)

\* The record of a thread that does nothing.
LEMMA IdleTyped ==
  /\ Idle \in ThreadRecord /\ ClientAt(Idle)
  /\ 1 \in Ids
  <1>1. 1 \in Ids
    BY InstancesAssumption DEF Ids
  <1>. QED BY <1>1 DEF Idle, ThreadRecord, ClientAt, Labels, Walks, Pointer, Loop

\* A thread at a label moves to another label of its walk.
LEMMA GotoBecomes ==
  ASSUME TypeOK, NEW t \in Threads, NEW label \in Labels, Goto(t, label),
         IF t = MsgThread THEN MsgAt([th[t] EXCEPT !.pc = label])
         ELSE ClientAt([th[t] EXCEPT !.pc = label])
  PROVE  \E r : Becomes(t, r)
  <1> DEFINE r == [th[t] EXCEPT !.pc = label]
  <1>1. r \in ThreadRecord
    BY DEF TypeOK, ThreadRecord
  <1>2. th' = [th EXCEPT ![t] = r]
    BY DEF Goto, TypeOK
  <1>. QED BY <1>1, <1>2 DEF Becomes

\* A thread that begins a walk.
LEMMA WalkBegins ==
  ASSUME NEW t \in Threads, th[t] \in ThreadRecord, NEW walk \in Walks, NEW id \in Ids
  PROVE  LET w == Walk(t, walk, id)
         IN  /\ w \in ThreadRecord
             /\ w.pc = "save" /\ w.walk = walk /\ w.id = id /\ w.op = th[t].op
             /\ w.inst = th[t].inst /\ w.saved = th[t].saved /\ w.node = Null
  BY DEF Walk, ThreadRecord, Labels, Pointer

\* Every step of a walk leaves its thread at a label of that walk.
LEMMA StepBecomes ==
  ASSUME TypeOK, Labelled, NEW t \in Threads, Step(t), ~WalkFaults(t)
  PROVE  \E r : Becomes(t, r)
  <1>1. th[t] \in ThreadRecord
    BY DEF TypeOK
  <1>2. IF t = MsgThread THEN MsgAt(th[t]) ELSE ClientAt(th[t])
    BY DEF Labelled, Threads
  <1> DEFINE Good(r) == IF t = MsgThread THEN MsgAt(r) ELSE ClientAt(r)
  <1>3. CASE Save(t)
    <2> DEFINE r == [th[t] EXCEPT !.saved = cursor, !.pc = "start"]
    <2>1. th' = [th EXCEPT ![t] = r]
      BY <1>3 DEF Save
    <2>2. r \in ThreadRecord
      BY <1>1 DEF ThreadRecord, Labels, TypeOK
    <2>3. Good(r)
      BY <1>1, <1>2, <1>3 DEF Save, At, MsgAt, ClientAt, ThreadRecord, Loop, Adding, Freeing
    <2>. QED BY <2>1, <2>2, <2>3 DEF Becomes
  <1>4. CASE Start(t)
    <2>1. Good([th[t] EXCEPT !.pc = "test"])
      BY <1>1, <1>2, <1>4 DEF Start, At, MsgAt, ClientAt, ThreadRecord, Loop, Adding, Freeing
    <2>. QED BY <1>4, <2>1, GotoBecomes DEF Start, Labels
  <1>5. CASE Test(t) /\ cursor # Null
    <2>1. Good([th[t] EXCEPT !.pc = "look"])
      BY <1>1, <1>2, <1>5 DEF Test, At, MsgAt, ClientAt, ThreadRecord, Loop, Adding, Freeing
    <2>. QED BY <1>5, <2>1, GotoBecomes DEF Test, Labels
  <1>6. CASE Test(t) /\ cursor = Null
    <2> DEFINE label == AfterLoop(th[t].walk)
               r == [th[t] EXCEPT !.pc = label, !.node = Null]
    <2>1. th' = [th EXCEPT ![t] = r]
      BY <1>6 DEF Test
    <2>2. label \in {"unlock", "idle", "restore"}
      BY DEF AfterLoop
    <2>3. r \in ThreadRecord
      BY <1>1, <2>2 DEF ThreadRecord, Labels, Pointer
    <2>4. Good(r)
      BY <1>1, <1>2, <1>6 DEF Test, At, MsgAt, ClientAt, ThreadRecord, Loop, Adding, Freeing, AfterLoop
    <2>. QED BY <2>1, <2>3, <2>4 DEF Becomes
  <1>7. CASE Look(t)
    <2> DEFINE label == AfterLook(th[t].walk, heap[cursor].id = th[t].id)
               r == [th[t] EXCEPT !.node = cursor, !.pc = label]
    <2>1. th' = [th EXCEPT ![t] = r]
      BY <1>7 DEF Look
    <2>2. label \in {"visit", "strip", "take", "next"}
      BY DEF AfterLook
    <2>3. r \in ThreadRecord
      BY <1>1, <2>2 DEF ThreadRecord, Labels, TypeOK
    <2>4. Good(r)
      BY <1>1, <1>2, <1>7
         DEF Look, At, MsgAt, ClientAt, ThreadRecord, Loop, Adding, Freeing, AfterLook
    <2>. QED BY <2>1, <2>3, <2>4 DEF Becomes
  <1>8. CASE Visit(t)
    <2>1. Good([th[t] EXCEPT !.pc = "next"])
      BY <1>1, <1>2, <1>8 DEF Visit, At, MsgAt, ClientAt, ThreadRecord, Loop, Adding, Freeing
    <2>. QED BY <1>8, <2>1, GotoBecomes DEF Visit, Labels
  <1>9. CASE Take(t)
    <2> DEFINE r == [th[t] EXCEPT !.node = cursor, !.pc = "restore"]
    <2>1. th' = [th EXCEPT ![t] = r]
      BY <1>9 DEF Take
    <2>2. r \in ThreadRecord
      BY <1>1 DEF ThreadRecord, Labels, TypeOK
    <2>3. Good(r)
      BY <1>1, <1>2, <1>9 DEF Take, At, MsgAt, ClientAt, ThreadRecord, Loop, Adding, Freeing
    <2>. QED BY <2>1, <2>2, <2>3 DEF Becomes
  <1>10. CASE Advance(t)
    <2> DEFINE r == [th[t] EXCEPT !.node = heap[cursor].next, !.pc = "store"]
    <2>1. th' = [th EXCEPT ![t] = r]
      BY <1>10 DEF Advance
    <2>2. heap[cursor].next \in Pointer
      BY <1>10 DEF Advance, Allocated, TypeOK, NodeRecord, Pointer
    <2>3. r \in ThreadRecord
      BY <1>1, <2>2 DEF ThreadRecord, Labels
    <2>4. Good(r)
      BY <1>1, <1>2, <1>10 DEF Advance, At, MsgAt, ClientAt, ThreadRecord, Loop, Adding, Freeing
    <2>. QED BY <2>1, <2>3, <2>4 DEF Becomes
  <1>11. CASE Store(t)
    <2>1. Good([th[t] EXCEPT !.pc = "test"])
      BY <1>1, <1>2, <1>11 DEF Store, At, MsgAt, ClientAt, ThreadRecord, Loop, Adding, Freeing
    <2>. QED BY <1>11, <2>1, GotoBecomes DEF Store, Labels
  <1>12. CASE Restore(t)
    <2> DEFINE next == AfterWalk(t)
               r == [next EXCEPT !.saved = Null]
    <2>1. th' = [th EXCEPT ![t] = r]
      BY <1>12 DEF Restore
    <2>2. /\ t # MsgThread /\ ClientAt(th[t])
          /\ th[t].walk \in {"lookup", "again", "free", "unique"}
      BY <1>2, <1>12 DEF Restore, At, MsgAt, ClientAt, Threads, Adding
    <2>3. next \in ThreadRecord /\ ClientAt(next)
      <3>1. CASE th[t].walk = "lookup"
        <4>1. next = Idle \/ next = [th[t] EXCEPT !.pc = "use"]
          BY <3>1 DEF AfterWalk
        <4>2. [th[t] EXCEPT !.pc = "use"] \in ThreadRecord
          BY <1>1 DEF ThreadRecord, Labels
        <4>3. ClientAt([th[t] EXCEPT !.pc = "use"])
          BY <1>1, <1>2, <2>2, <3>1, InstancesAssumption DEF ClientAt, ThreadRecord
        <4>. QED BY <4>1, <4>2, <4>3, IdleTyped
      <3>2. CASE th[t].walk = "again"
        <4> DEFINE w == Walk(t, "free", th[t].inst)
        <4>1. next = Idle \/ next = w
          BY <3>2 DEF AfterWalk
        <4>2. w \in ThreadRecord
          BY <1>1 DEF ThreadRecord, Labels, Walks, Walk, Pointer
        <4>3. ClientAt(w)
          BY <1>1, <1>2, <2>2, <3>2, InstancesAssumption DEF ClientAt, ThreadRecord, Walk, Loop, Freeing
        <4>. QED BY <4>1, <4>2, <4>3, IdleTyped
      <3>3. CASE th[t].walk = "free"
        BY <3>3, IdleTyped DEF AfterWalk
      <3>4. CASE th[t].walk = "unique"
        <4> DEFINE i == th[t].id + 1
                   a == [th[t] EXCEPT !.pc = "append"]
                   w == Walk(t, "unique", i)
                   b == [th[t] EXCEPT !.pc = "append", !.id = i]
        <4>1. \/ next = a
              \/ next = w /\ th[t].id < MaxInstances
              \/ next = b
          BY <1>1, <3>4 DEF AfterWalk
        <4>2. th[t].pc \in Loop
          BY <1>12 DEF Restore, At, Loop
        <4>3. th[t].id <= MaxInstances
          BY <2>2, <3>4, <4>2 DEF ClientAt, Loop, Adding
        <4>4. i \in Ids /\ (th[t].id < MaxInstances => i <= MaxInstances)
          BY <1>1, <4>3, InstancesAssumption DEF ThreadRecord, Ids
        <4> HIDE DEF i
        <4>5. a \in ThreadRecord /\ ClientAt(a)
          BY <1>1, <2>2, <3>4 DEF ThreadRecord, Labels, ClientAt, Adding
        <4>6. b \in ThreadRecord /\ ClientAt(b)
          <5>1. b \in ThreadRecord
            BY <1>1, <4>4 DEF ThreadRecord, Labels
          <5>2. ClientAt(b)
            BY <1>1, <2>2, <3>4, <4>4 DEF ThreadRecord, ClientAt, Adding
          <5>. QED BY <5>1, <5>2
        <4> HIDE DEF a, b, w, next
        <4>7. w \in ThreadRecord /\ (i <= MaxInstances => ClientAt(w))
          <5>1. /\ w \in ThreadRecord /\ w.pc = "save" /\ w.walk = "unique"
                /\ w.id = i /\ w.op = th[t].op
            BY <1>1, <4>4, WalkBegins DEF w, Walks
          <5>. QED BY <2>2, <5>1 DEF ClientAt, Loop
        <4>. QED BY <4>1, <4>4, <4>5, <4>6, <4>7
      <3>. QED BY <2>2, <3>1, <3>2, <3>3, <3>4
    <2> HIDE DEF next
    <2>4. r \in ThreadRecord /\ ClientAt(r)
      BY <2>3 DEF ThreadRecord, Pointer, ClientAt
    <2>. QED BY <2>1, <2>2, <2>4, InstancesAssumption DEF Becomes
  <1>13. CASE Lock(t)
    <2> DEFINE label == IF t = MsgThread THEN "start" ELSE "countUp"
    <2>1. Good([th[t] EXCEPT !.pc = label])
      BY <1>1, <1>2, <1>13 DEF Lock, At, MsgAt, ClientAt, ThreadRecord, Loop, Adding, Freeing
    <2>2. label \in Labels /\ Goto(t, label)
      BY <1>13 DEF Lock, Labels
    <2>. QED BY <2>1, <2>2, GotoBecomes
  <1>14. CASE Unlock(t)
    <2> DEFINE m == [Idle EXCEPT !.pc = "begin", !.walk = "messages"]
    <2>1. m \in ThreadRecord /\ MsgAt(m)
      BY IdleTyped DEF Idle, ThreadRecord, Labels, Walks, MsgAt
    <2>2. th' = [th EXCEPT ![t] = IF t = MsgThread THEN m ELSE Idle]
      BY <1>14 DEF Unlock
    <2>. QED BY <2>1, <2>2, IdleTyped DEF Becomes
  <1>. QED
    BY <1>3, <1>4, <1>5, <1>6, <1>7, <1>8, <1>9, <1>10, <1>11, <1>12, <1>13, <1>14 DEF Step

\* Every step of a command leaves its client at a label of its walk.
LEMMA ClientBecomes ==
  ASSUME TypeOK, Labelled, NEW c \in Clients, ClientStep(c),
         ~UseFaults(c), ~FreeFaults(c), ~faulty'
  PROVE  \E r : Becomes(c, r)
  <1>1. th[c] \in ThreadRecord /\ ClientAt(th[c]) /\ c \in Threads /\ c # MsgThread
    BY InstancesAssumption DEF TypeOK, Labelled, Threads
  <1>2. CASE Use(c)
    <2> DEFINE f == [th[c] EXCEPT !.pc = "start", !.walk = "listing"]
               n == [th[c] EXCEPT !.pc = "full"]
               w == Walk(c, "again", th[c].inst)
    <2>1. CASE th[c].op = "use"
      BY <1>1, <1>2, <2>1, IdleTyped DEF Use, Becomes
    <2>2. CASE th[c].op = "instances"
      <3>1. th' = [th EXCEPT ![c] = f]
        BY <1>1, <1>2, <2>2 DEF Use, TypeOK
      <3>2. f \in ThreadRecord
        BY <1>1 DEF ThreadRecord, Labels, Walks
      <3>3. ClientAt(f)
        BY <1>1, <1>2 DEF Use, At, ClientAt, ThreadRecord
      <3>. QED BY <1>1, <3>1, <3>2, <3>3 DEF Becomes
    <2>3. CASE th[c].op = "new"
      <3>1. th' = [th EXCEPT ![c] = n]
        BY <1>1, <1>2, <2>3 DEF Use, TypeOK
      <3>2. n \in ThreadRecord
        BY <1>1 DEF ThreadRecord, Labels
      <3>3. ClientAt(n)
        BY <1>1, <1>2, <2>3 DEF Use, At, ClientAt, ThreadRecord, Loop, Freeing, Adding
      <3>. QED BY <1>1, <3>1, <3>2, <3>3 DEF Becomes
    <2>4. CASE th[c].op = "delete"
      <3>1. th' = [th EXCEPT ![c] = w] \/ th' = [th EXCEPT ![c] = Idle]
        BY <1>1, <1>2, <2>4 DEF Use, TypeOK
      <3>2. w \in ThreadRecord
        BY <1>1 DEF ThreadRecord, Labels, Walks, Pointer, Walk
      <3>3. ClientAt(w)
        BY <1>1, <2>4 DEF ClientAt, ThreadRecord, Walk, Loop
      <3>. QED BY <1>1, <3>1, <3>2, <3>3, IdleTyped DEF Becomes
    <2>5. th[c].op \in {"use", "instances", "new", "delete"}
      BY <1>1 DEF ThreadRecord
    <2>. QED BY <2>1, <2>2, <2>3, <2>4, <2>5
  <1>3. CASE Full(c)
    <2> DEFINE r == [Idle EXCEPT !.pc = "mutex", !.op = "new"]
    <2>1. th' = [th EXCEPT ![c] = r] \/ th' = [th EXCEPT ![c] = Idle]
      BY <1>3 DEF Full
    <2>2. r \in ThreadRecord
      BY IdleTyped DEF ThreadRecord, Labels
    <2>3. ClientAt(r)
      BY <1>1, <1>3, IdleTyped DEF Full, At, ClientAt, Idle, Loop
    <2>. QED BY <1>1, <2>1, <2>2, <2>3, IdleTyped DEF Becomes
  <1>4. CASE CountUp(c)
    <2> DEFINE r == [th[c] EXCEPT !.read = count, !.pc = "countUpStore"]
    <2>1. th' = [th EXCEPT ![c] = r]
      BY <1>4 DEF CountUp
    <2>2. r \in ThreadRecord
      BY <1>1 DEF ThreadRecord, Labels, TypeOK
    <2>3. ClientAt(r)
      BY <1>1, <1>4 DEF CountUp, At, ClientAt, ThreadRecord, Loop, Freeing, Adding
    <2>. QED BY <1>1, <2>1, <2>2, <2>3 DEF Becomes
  <1>5. CASE CountUpStore(c)
    <2> DEFINE w == Walk(c, "unique", 1)
               r == [w EXCEPT !.read = 0]
    <2>1. th' = [th EXCEPT ![c] = r]
      BY <1>5 DEF CountUpStore
    <2>2. w \in ThreadRecord /\ ClientAt(w)
      <3> HIDE DEF w
      <3>1. /\ w \in ThreadRecord /\ w.pc = "save" /\ w.walk = "unique"
            /\ w.id = 1 /\ w.op = th[c].op
        BY <1>1, IdleTyped, WalkBegins DEF w, Walks
      <3>2. 1 <= MaxInstances
        BY InstancesAssumption
      <3>. QED BY <1>1, <3>1, <3>2 DEF ClientAt, Loop
    <2>3. r \in ThreadRecord /\ ClientAt(r)
      <3> HIDE DEF w
      <3>. QED BY <2>2 DEF ThreadRecord, ClientAt
    <2>. QED BY <1>1, <2>1, <2>3 DEF Becomes
  <1>6. CASE AppendRead(c)
    <2> DEFINE r == [th[c] EXCEPT !.node = tail, !.pc = "link"]
    <2>1. th' = [th EXCEPT ![c] = r]
      BY <1>6 DEF AppendRead
    <2>2. r \in ThreadRecord
      BY <1>1 DEF ThreadRecord, Labels, TypeOK
    <2>3. ClientAt(r)
      BY <1>1, <1>6 DEF AppendRead, At, ClientAt, ThreadRecord, Loop, Freeing, Adding
    <2>. QED BY <1>1, <2>1, <2>2, <2>3 DEF Becomes
  <1>7. CASE AppendLink(c)
    <2>1. PICK n \in Unused : th' = [th EXCEPT ![c].node = n, ![c].pc = "tail"]
      BY <1>7 DEF AppendLink, Fault
    <2> DEFINE r == [th[c] EXCEPT !.node = n, !.pc = "tail"]
    <2>2. th' = [th EXCEPT ![c] = r]
      BY <2>1
    <2>3. r \in ThreadRecord
      BY <1>1 DEF ThreadRecord, Labels, Unused, Pointer
    <2>4. ClientAt(r)
      BY <1>1, <1>7 DEF AppendLink, At, ClientAt, ThreadRecord, Loop, Freeing, Adding
    <2>. QED BY <1>1, <2>2, <2>3, <2>4 DEF Becomes
  <1>8. CASE AppendTail(c)
    <2>1. ClientAt([th[c] EXCEPT !.pc = "unlock"])
      BY <1>1, <1>8 DEF AppendTail, At, ClientAt, ThreadRecord, Loop, Freeing, Adding
    <2>. QED BY <1>1, <1>8, <2>1, GotoBecomes DEF AppendTail, Labels
  <1>9. CASE Strip(c)
    <2>1. ClientAt([th[c] EXCEPT !.pc = "unlink"])
      BY <1>1, <1>9 DEF Strip, At, ClientAt, ThreadRecord, Loop, Freeing, Adding
    <2>. QED BY <1>1, <1>9, <2>1, GotoBecomes DEF Strip, Labels
  <1>10. CASE Unlink(c)
    <2>1. ClientAt([th[c] EXCEPT !.pc = "countDown"])
      BY <1>1, <1>10 DEF Unlink, At, ClientAt, ThreadRecord, Loop, Freeing, Adding
    <2>. QED BY <1>1, <1>10, <2>1, GotoBecomes DEF Unlink, Labels
  <1>11. CASE CountDown(c)
    <2> DEFINE r == [th[c] EXCEPT !.read = count, !.pc = "countDownStore"]
    <2>1. th' = [th EXCEPT ![c] = r]
      BY <1>11 DEF CountDown
    <2>2. r \in ThreadRecord
      BY <1>1 DEF ThreadRecord, Labels, TypeOK
    <2>3. ClientAt(r)
      BY <1>1, <1>11 DEF CountDown, At, ClientAt, ThreadRecord, Loop, Freeing, Adding
    <2>. QED BY <1>1, <2>1, <2>2, <2>3 DEF Becomes
  <1>12. CASE CountDownStore(c)
    <2>1. ClientAt([th[c] EXCEPT !.pc = "restore"])
      BY <1>1, <1>12 DEF CountDownStore, At, ClientAt, ThreadRecord, Loop, Freeing, Adding
    <2>. QED BY <1>1, <1>12, <2>1, GotoBecomes DEF CountDownStore, Labels
  <1>. QED
    BY <1>2, <1>3, <1>4, <1>5, <1>6, <1>7, <1>8, <1>9, <1>10, <1>11, <1>12 DEF ClientStep

\* A command begins with the lookup.
LEMMA IssueBecomes ==
  ASSUME TypeOK, Labelled, NEW c \in Clients, NEW op \in Commands, NEW id \in Ids,
         Issue(c, op, id)
  PROVE  \E r : Becomes(c, r)
  <1> DEFINE r == [Idle EXCEPT !.pc = "save", !.op = op, !.inst = id, !.id = id]
  <1>1. th' = [th EXCEPT ![c] = r]
    BY DEF Issue
  <1>2. r \in ThreadRecord
    BY IdleTyped, InstancesAssumption DEF ThreadRecord, Labels
  <1>3. ClientAt(r)
    BY IdleTyped DEF ClientAt, Idle, Loop
  <1>. QED BY <1>1, <1>2, <1>3, InstancesAssumption DEF Becomes

\* A step of any thread leaves the threads at labels of their walks.
LEMMA ThreadsTyped ==
  ASSUME TypeOK, Labelled, Next
  PROVE  th' \in [Threads -> ThreadRecord] /\ Labelled'
  <1>1. ASSUME NEW t \in Threads, NEW r, Becomes(t, r)
        PROVE  th' \in [Threads -> ThreadRecord] /\ Labelled'
    <2>1. th' \in [Threads -> ThreadRecord]
      BY <1>1 DEF Becomes, TypeOK
    <2>2. ASSUME NEW u \in Threads PROVE th'[u] = IF u = t THEN r ELSE th[u]
      BY <1>1 DEF Becomes, TypeOK
    <2>3. MsgAt(th'[MsgThread])
      BY <1>1, <2>2 DEF Becomes, Labelled, Threads
    <2>4. ASSUME NEW c \in Clients PROVE ClientAt(th'[c])
      BY <1>1, <2>2, InstancesAssumption DEF Becomes, Labelled, Threads
    <2>. QED BY <2>1, <2>3, <2>4 DEF Labelled, MsgAt, ClientAt
  <1>2. ASSUME th' = th PROVE th' \in [Threads -> ThreadRecord] /\ Labelled'
    BY <1>2 DEF TypeOK, Labelled, MsgAt, ClientAt
  <1>3. ASSUME NEW c \in Clients, NEW op \in Commands, NEW id \in Ids, Issue(c, op, id)
        PROVE  th' \in [Threads -> ThreadRecord] /\ Labelled'
    BY <1>1, <1>3, IssueBecomes DEF Threads
  <1>4. ASSUME NEW t \in Threads, Step(t)
        PROVE  th' \in [Threads -> ThreadRecord] /\ Labelled'
    <2>1. WalkFaults(t) => th' = th
      BY DEF WalkFaults, Fault
    <2>. QED BY <1>1, <1>2, <1>4, <2>1, StepBecomes
  <1>5. ASSUME NEW c \in Clients, ClientStep(c)
        PROVE  th' \in [Threads -> ThreadRecord] /\ Labelled'
    <2>1. UseFaults(c) \/ FreeFaults(c) => th' = th
      BY DEF UseFaults, FreeFaults, Fault
    <2>2. faulty' /\ ~UseFaults(c) /\ ~FreeFaults(c) => th' = th
      BY <1>5 DEF ClientStep, Use, Full, CountUp, CountUpStore, AppendRead, AppendLink, AppendTail,
                  Strip, Unlink, CountDown, CountDownStore, At, Fault
    <2>. QED BY <1>1, <1>2, <1>5, <2>1, <2>2, ClientBecomes DEF Threads
  <1>6. ASSUME Halted PROVE th' \in [Threads -> ThreadRecord] /\ Labelled'
    BY <1>2, <1>6 DEF Halted, vars
  <1>. QED BY <1>3, <1>4, <1>5, <1>6 DEF Next

\* A step of a walk keeps the types of what the threads share.
LEMMA StepTyped ==
  ASSUME TypeOK, NEW t \in Threads, Step(t)
  PROVE  /\ UNCHANGED <<list, count>>
         /\ cursor' \in Pointer /\ mutex' \in Threads \cup {Nobody} /\ faulty' \in BOOLEAN
  <1>1. th[t].saved \in Pointer /\ th[t].node \in Pointer
    BY DEF TypeOK, ThreadRecord
  <1>. QED
    BY <1>1 DEF Step, Save, Start, Test, Look, Visit, Take, Advance, Store, WalkFaults, Restore,
                Lock, Unlock, Fault, TypeOK, list

\* So does a step of a command.
LEMMA ClientStepTyped ==
  ASSUME TypeOK, NEW c \in Clients, ClientStep(c)
  PROVE  /\ heap' \in [Nodes -> NodeRecord]
         /\ head' \in Pointer /\ tail' \in Pointer /\ cursor' \in Pointer
         /\ count' \in Int /\ mutex' = mutex /\ faulty' \in BOOLEAN
  <1>1. th[c] \in ThreadRecord
    BY DEF TypeOK, Threads
  <1>2. /\ heap \in [Nodes -> NodeRecord] /\ head \in Pointer /\ tail \in Pointer
        /\ cursor \in Pointer /\ count \in Int /\ faulty \in BOOLEAN
    BY DEF TypeOK
  <1>3. CASE \/ Use(c) \/ UseFaults(c) \/ Full(c) \/ CountUp(c) \/ AppendRead(c)
             \/ FreeFaults(c) \/ CountDown(c)
    BY <1>2, <1>3 DEF Use, UseFaults, Full, CountUp, AppendRead, FreeFaults, CountDown, Fault, list
  <1>4. CASE CountUpStore(c) \/ CountDownStore(c)
    <2>1. th[c].read \in Int
      BY <1>1 DEF ThreadRecord
    <2>. QED BY <1>2, <1>4, <2>1 DEF CountUpStore, CountDownStore, list, At
  <1>5. CASE AppendLink(c)
    <2>1. CASE Fault
      BY <1>2, <1>5, <2>1 DEF AppendLink, Fault, list
    <2>2. CASE ~Fault
      <3>1. PICK n \in Unused :
              /\ heap' = [m \in Nodes |->
                   IF m = n
                   THEN [state |-> "live", id |-> th[c].id, next |-> Null,
                         prev |-> IF head = Null THEN Null ELSE th[c].node]
                   ELSE [heap[m] EXCEPT !.next = IF m = th[c].node THEN n ELSE @]]
              /\ head' = IF head = Null THEN n ELSE head
              /\ cursor' = IF th[c].node = Null THEN n ELSE cursor
        BY <1>5, <2>2 DEF AppendLink
      <3>2. n \in Nodes /\ n \in Pointer
        BY DEF Unused, Pointer
      <3>3. th[c].id \in Ids /\ th[c].node \in Pointer /\ Null \in Pointer
        BY <1>1 DEF ThreadRecord, Pointer
      <3>4. heap' \in [Nodes -> NodeRecord]
        <4>1. ASSUME NEW m \in Nodes PROVE heap'[m] \in NodeRecord
          <5>1. heap[m] \in NodeRecord
            BY <1>2
          <5>2. [heap[m] EXCEPT !.next = IF m = th[c].node THEN n ELSE @] \in NodeRecord
            BY <3>2, <5>1 DEF NodeRecord
          <5>3. [state |-> "live", id |-> th[c].id, next |-> Null,
                 prev |-> IF head = Null THEN Null ELSE th[c].node] \in NodeRecord
            BY <3>3 DEF NodeRecord
          <5>. QED BY <3>1, <5>1, <5>2, <5>3
        <4>. QED BY <3>1, <4>1
      <3>. QED BY <1>2, <1>5, <2>2, <3>1, <3>2, <3>4 DEF AppendLink, At
    <2>. QED BY <2>1, <2>2
  <1>6. CASE AppendTail(c)
    <2>1. th[c].node \in Pointer
      BY <1>1 DEF ThreadRecord
    <2>. QED BY <1>2, <1>6, <2>1 DEF AppendTail, At
  <1>7. CASE Strip(c)
    <2>1. heap' \in [Nodes -> NodeRecord]
      BY <1>2, <1>7 DEF Strip, NodeRecord
    <2>. QED BY <1>2, <1>7, <2>1 DEF Strip, At
  <1>8. CASE Unlink(c)
    <2> DEFINE next == heap[cursor].next
               prev == heap[cursor].prev
    <2>1. cursor \in Nodes /\ next \in Pointer /\ prev \in Pointer
      BY <1>2, <1>8 DEF Unlink, CanUnlink, Allocated, NodeRecord, Pointer
    <2>2. heap' = [m \in Nodes |->
               IF m = cursor
               THEN [heap[m] EXCEPT !.state = "freed"]
               ELSE [heap[m] EXCEPT !.next = IF m = prev THEN next ELSE @,
                                    !.prev = IF m = next /\ prev # Null THEN prev ELSE @]]
      BY <1>8 DEF Unlink
    <2> HIDE DEF next, prev
    <2>3. heap' \in [Nodes -> NodeRecord]
      <3>1. ASSUME NEW m \in Nodes PROVE heap'[m] \in NodeRecord
        <4>1. heap[m] \in NodeRecord
          BY <1>2
        <4>2. [heap[m] EXCEPT !.state = "freed"] \in NodeRecord
          BY <4>1 DEF NodeRecord
        <4>3. [heap[m] EXCEPT !.next = IF m = prev THEN next ELSE @,
                              !.prev = IF m = next /\ prev # Null THEN prev ELSE @] \in NodeRecord
          BY <2>1, <4>1 DEF NodeRecord
        <4>. QED BY <2>2, <4>2, <4>3
      <3>. QED BY <2>2, <3>1
    <2>4. /\ head' \in {next, head} /\ tail' \in {Null, prev, tail} /\ cursor' \in {Null, cursor}
          /\ UNCHANGED <<count, mutex, faulty>>
      BY <1>8 DEF Unlink, next, prev
    <2>. QED BY <1>2, <2>1, <2>3, <2>4 DEF Pointer
  <1>. QED BY <1>3, <1>4, <1>5, <1>6, <1>7, <1>8 DEF ClientStep

\* Every thread stays at a label of its walk.
THEOREM Labelling == Spec => [](TypeOK /\ Labelled)
  <1>1. Init => TypeOK /\ Labelled
    <2> SUFFICES ASSUME Init PROVE TypeOK /\ Labelled
      OBVIOUS
    <2>1. 1 \in Ids /\ Null \in Pointer
      BY InstancesAssumption DEF Ids, Pointer
    <2>2. /\ heap \in [Nodes -> NodeRecord] /\ head \in Pointer /\ tail \in Pointer
          /\ cursor \in Pointer
      BY <2>1 DEF Init, NodeRecord, Pointer
    <2> DEFINE m == [Idle EXCEPT !.pc = "begin", !.walk = "messages"]
    <2>3. m \in ThreadRecord /\ MsgAt(m)
      BY IdleTyped DEF Idle, ThreadRecord, Labels, Walks, MsgAt
    <2>4. th = [t \in Threads |-> IF t = MsgThread THEN m ELSE Idle]
      BY DEF Init
    <2> HIDE DEF m
    <2>5. th \in [Threads -> ThreadRecord] /\ Labelled
      BY <2>3, <2>4, IdleTyped, InstancesAssumption DEF Labelled, Threads
    <2>6. count = 1 /\ mutex = Nobody /\ faulty = FALSE
      BY DEF Init
    <2>7. count \in Int /\ mutex \in Threads \cup {Nobody} /\ faulty \in BOOLEAN
      <3>1. count \in Int
        BY <2>6
      <3>2. faulty \in BOOLEAN
        BY <2>6
      <3>. QED BY <2>6, <3>1, <3>2
    <2>. QED BY <2>2, <2>5, <2>7 DEF TypeOK
  <1>2. TypeOK /\ Labelled /\ [Next]_vars => TypeOK' /\ Labelled'
    <2> SUFFICES ASSUME TypeOK, Labelled, [Next]_vars PROVE TypeOK' /\ Labelled'
      OBVIOUS
    <2>1. CASE UNCHANGED vars
      BY <2>1 DEF vars, TypeOK, Labelled, MsgAt, ClientAt
    <2>2. CASE Next
      <3>1. th' \in [Threads -> ThreadRecord] /\ Labelled'
        BY <2>2, ThreadsTyped
      <3>2. /\ heap' \in [Nodes -> NodeRecord]
            /\ head' \in Pointer /\ tail' \in Pointer /\ cursor' \in Pointer
            /\ count' \in Int /\ mutex' \in Threads \cup {Nobody} /\ faulty' \in BOOLEAN
        <4>1. CASE \E c \in Clients, op \in Commands, id \in Ids : Issue(c, op, id)
          BY <4>1 DEF Issue, TypeOK, list
        <4>2. CASE \E t \in Threads : Step(t)
          BY <4>2, StepTyped DEF TypeOK, list
        <4>3. CASE \E c \in Clients : ClientStep(c)
          BY <4>3, ClientStepTyped DEF TypeOK
        <4>4. CASE Halted
          BY <4>4 DEF Halted, vars, TypeOK
        <4>. QED BY <2>2, <4>1, <4>2, <4>3, <4>4 DEF Next
      <3>. QED BY <3>1, <3>2 DEF TypeOK
    <2>. QED BY <2>1, <2>2
  <1>. QED BY <1>1, <1>2, PTL DEF Spec

\* Every variable keeps its type: the pointers lead to list nodes, and the ids
\* that new_instance tries never exceed MaxInstances + 1.
THEOREM Typing == Spec => []TypeOK
  BY Labelling, PTL

-----------------------------------------------------------------------------
(* The mutex.                                                              *)

\* A thread in the part of the code that instances_mutex protects.
Inside(t) ==
  IF t = MsgThread THEN th[t].pc # "begin"
  ELSE th[t].pc \in {"countUp", "countUpStore"} \/ th[t].walk = "unique"

Exclusive == \A t \in Threads : Inside(t) <=> mutex = t

\* The steps of a walk before it ends.
Walking(t) ==
  Save(t) \/ Start(t) \/ Test(t) \/ Look(t) \/ Visit(t) \/ Take(t) \/ Advance(t) \/ Store(t)

\* A thread that walks stays in its walk, with the id it looks for.
LEMMA WalkingKeeps ==
  ASSUME TypeOK, Labelled, NEW t \in Threads, Walking(t)
  PROVE  /\ \A u \in Threads \ {t} : th'[u] = th[u]
         /\ th'[t].walk = th[t].walk /\ th'[t].op = th[t].op /\ th'[t].inst = th[t].inst
         /\ th'[t].id = th[t].id /\ th'[t].read = th[t].read
         /\ th[t].pc \in {"save", "start", "test", "look", "visit", "take", "next", "store"}
         /\ \/ th'[t].pc \in {"start", "test", "look", "visit", "take", "next", "store", "restore"}
            \/ th'[t].pc = "strip" /\ th[t].walk = "free"
            \/ th'[t].pc = "unlock" /\ th[t].walk = "messages"
            \/ th'[t].pc = "idle" /\ th[t].walk = "listing"
         /\ UNCHANGED <<list, count, mutex, faulty>>
  <1>1. th \in [Threads -> ThreadRecord] /\ th[t] \in ThreadRecord
    BY DEF TypeOK
  <1>2. CASE Save(t)
    BY <1>1, <1>2 DEF Save, At, ThreadRecord
  <1>3. CASE Start(t)
    BY <1>1, <1>3 DEF Start, At, Goto, ThreadRecord
  <1>4. CASE Test(t)
    <2>1. CASE cursor # Null
      BY <1>1, <1>4, <2>1 DEF Test, At, Goto, ThreadRecord
    <2>2. CASE cursor = Null
      <3>1. th' = [th EXCEPT ![t].pc = AfterLoop(th[t].walk), ![t].node = Null]
        BY <1>4, <2>2 DEF Test
      <3>2. th'[t].pc = AfterLoop(th[t].walk)
        BY <1>1, <3>1 DEF ThreadRecord
      <3>3. \/ AfterLoop(th[t].walk) = "restore"
            \/ AfterLoop(th[t].walk) = "unlock" /\ th[t].walk = "messages"
            \/ AfterLoop(th[t].walk) = "idle" /\ th[t].walk = "listing"
        BY DEF AfterLoop
      <3>. QED BY <1>1, <1>4, <3>1, <3>2, <3>3 DEF Test, At, ThreadRecord
    <2>. QED BY <2>1, <2>2
  <1>5. CASE Look(t)
    <2> DEFINE label == AfterLook(th[t].walk, heap[cursor].id = th[t].id)
    <2>1. th' = [th EXCEPT ![t].node = cursor, ![t].pc = label]
      BY <1>5 DEF Look
    <2>2. \/ label \in {"visit", "take", "next"}
          \/ label = "strip" /\ th[t].walk = "free"
      BY DEF AfterLook
    <2> HIDE DEF label
    <2>3. UNCHANGED <<list, count, mutex, faulty>> /\ th[t].pc = "look"
      BY <1>5 DEF Look, At
    <2>. QED BY <1>1, <2>1, <2>2, <2>3 DEF ThreadRecord
  <1>6. CASE Visit(t)
    BY <1>1, <1>6 DEF Visit, At, Goto, ThreadRecord
  <1>7. CASE Take(t)
    BY <1>1, <1>7 DEF Take, At, ThreadRecord
  <1>8. CASE Advance(t)
    BY <1>1, <1>8 DEF Advance, At, ThreadRecord
  <1>9. CASE Store(t)
    BY <1>1, <1>9 DEF Store, At, Goto, ThreadRecord
  <1>. QED BY <1>2, <1>3, <1>4, <1>5, <1>6, <1>7, <1>8, <1>9 DEF Walking

\* When a walk has ended its thread returns from the lookup, goes on to free the
\* instance, or tries the next id, and never leaves new_instance.
LEMMA RestoreKeeps ==
  ASSUME TypeOK, Labelled, NEW t \in Threads, Restore(t)
  PROVE  /\ \A u \in Threads \ {t} : th'[u] = th[u]
         /\ t # MsgThread /\ th[t].pc = "restore"
         /\ th[t].walk \in {"lookup", "again", "free", "unique"}
         /\ th'[t].saved = Null /\ th'[t].node \in {Null, th[t].node}
         /\ th[t].walk # "unique" =>
              th'[t].walk \in {"lookup", "free"} /\ th'[t].pc \in {"idle", "use", "save"}
         /\ th[t].walk = "unique" =>
              /\ th'[t].walk = "unique"
              /\ \/ /\ th[t].node = Null
                    /\ th'[t].pc = "append" /\ th'[t].id = th[t].id
                 \/ /\ th[t].node # Null
                    /\ th'[t].pc = (IF th[t].id < MaxInstances THEN "save" ELSE "append")
                    /\ th'[t].id = th[t].id + 1
         /\ cursor' = th[t].saved
         /\ UNCHANGED <<list, count, mutex, faulty>>
  <1>1. th \in [Threads -> ThreadRecord] /\ th[t] \in ThreadRecord
    BY DEF TypeOK
  <1>2. t # MsgThread /\ th[t].pc = "restore" /\ th[t].walk \in {"lookup", "again", "free", "unique"}
    BY DEF Restore, At, Labelled, MsgAt, ClientAt, Threads, Adding
  <1> DEFINE next == AfterWalk(t)
  <1>3. th' = [th EXCEPT ![t] = [next EXCEPT !.saved = Null]]
    BY DEF Restore
  <1>4. th[t].walk = "lookup" => next = Idle \/ next = [th[t] EXCEPT !.pc = "use"]
    BY DEF AfterWalk
  <1>5. th[t].walk = "again" => next = Idle \/ next = Walk(t, "free", th[t].inst)
    BY DEF AfterWalk
  <1>6. th[t].walk = "free" => next = Idle
    BY DEF AfterWalk
  <1>7. th[t].walk = "unique" =>
          \/ th[t].node = Null /\ next = [th[t] EXCEPT !.pc = "append"]
          \/ /\ th[t].node # Null /\ th[t].id < MaxInstances
             /\ next = Walk(t, "unique", th[t].id + 1)
          \/ /\ th[t].node # Null /\ ~(th[t].id < MaxInstances)
             /\ next = [th[t] EXCEPT !.pc = "append", !.id = @ + 1]
    BY DEF AfterWalk
  <1> HIDE DEF next
  <1>8. /\ cursor' = th[t].saved
        /\ UNCHANGED <<list, count, mutex, faulty>>
    BY DEF Restore
  <1>9. th'[t] = [next EXCEPT !.saved = Null] /\ \A u \in Threads \ {t} : th'[u] = th[u]
    BY <1>1, <1>3
  <1>10. CASE th[t].walk \in {"lookup", "again", "free"}
    <2> DEFINE Fit(r) == /\ r.node \in {Null, th[t].node} /\ r.walk \in {"lookup", "free"}
                         /\ r.pc \in {"idle", "use", "save"} /\ r \in ThreadRecord
    <2>1. Fit(next)
      <3>1. Fit(Idle)
        BY IdleTyped DEF Idle
      <3>2. th[t].walk = "lookup" => Fit([th[t] EXCEPT !.pc = "use"])
        BY <1>1 DEF ThreadRecord, Labels
      <3>3. Fit(Walk(t, "free", th[t].inst))
        <4>1. th[t].inst \in Ids
          BY <1>1 DEF ThreadRecord
        <4>. QED BY <1>1, <4>1, WalkBegins DEF Walks
      <3> HIDE DEF Fit
      <3>. QED BY <1>4, <1>5, <1>6, <1>10, <3>1, <3>2, <3>3
    <2>. QED BY <1>2, <1>8, <1>9, <1>10, <2>1 DEF ThreadRecord
  <1>11. CASE th[t].walk = "unique"
    <2>1. /\ next.node \in {Null, th[t].node} /\ next.walk = "unique"
          /\ \/ th[t].node = Null /\ next.pc = "append" /\ next.id = th[t].id
             \/ /\ th[t].node # Null
                /\ next.pc = (IF th[t].id < MaxInstances THEN "save" ELSE "append")
                /\ next.id = th[t].id + 1
          /\ DOMAIN next = DOMAIN th[t]
      <3> DEFINE i == th[t].id + 1
                 low == th[t].id < MaxInstances
      <3>1. \/ th[t].node = Null /\ next = [th[t] EXCEPT !.pc = "append"]
            \/ th[t].node # Null /\ low /\ next = Walk(t, "unique", i)
            \/ th[t].node # Null /\ ~low /\ next = [th[t] EXCEPT !.pc = "append", !.id = i]
        BY <1>1, <1>7, <1>11 DEF ThreadRecord
      <3> HIDE DEF i, low
      <3>2. /\ next.node \in {Null, th[t].node} /\ next.walk = "unique"
            /\ \/ th[t].node = Null /\ next.pc = "append" /\ next.id = th[t].id
               \/ th[t].node # Null /\ low /\ next.pc = "save" /\ next.id = i
               \/ th[t].node # Null /\ ~low /\ next.pc = "append" /\ next.id = i
            /\ DOMAIN next = DOMAIN th[t]
        BY <1>1, <1>11, <3>1 DEF Walk, ThreadRecord
      <3>. QED BY <3>2 DEF i, low
    <2>2. [next EXCEPT !.saved = Null].saved = Null
      BY <1>1, <2>1 DEF ThreadRecord
    <2>3. /\ [next EXCEPT !.saved = Null].node = next.node
          /\ [next EXCEPT !.saved = Null].walk = next.walk
          /\ [next EXCEPT !.saved = Null].pc = next.pc
          /\ [next EXCEPT !.saved = Null].id = next.id
      BY <1>1, <2>1 DEF ThreadRecord
    <2>. QED BY <1>2, <1>8, <1>9, <1>11, <2>1, <2>2, <2>3
  <1>. QED BY <1>2, <1>10, <1>11

\* A step that faults, and one that does nothing.
Quiet == UNCHANGED <<list, cursor, count, mutex, th>>

\* ll_addv when the tail it read has not been freed.
Linking(c, n) ==
  /\ At(c, "link")
  /\ th[c].node = Null \/ Allocated(th[c].node)
  /\ n \in Unused
  /\ heap' = [m \in Nodes |->
       IF m = n
       THEN [state |-> "live", id |-> th[c].id, next |-> Null,
             prev |-> IF head = Null THEN Null ELSE th[c].node]
       ELSE [heap[m] EXCEPT !.next = IF m = th[c].node THEN n ELSE @]]
  /\ head' = IF head = Null THEN n ELSE head
  /\ cursor' = IF th[c].node = Null THEN n ELSE cursor
  /\ th' = [th EXCEPT ![c].node = n, ![c].pc = "tail"]
  /\ UNCHANGED <<tail, count, mutex, faulty>>

\* A step of a command that does not fault.
Acts(c) ==
  \/ Use(c) \/ Full(c) \/ CountUp(c) \/ CountUpStore(c)
  \/ AppendRead(c) \/ (\E n \in Unused : Linking(c, n)) \/ AppendTail(c)
  \/ Strip(c) \/ Unlink(c) \/ CountDown(c) \/ CountDownStore(c)

\* The kinds of step there are.
LEMMA Kinds ==
  ASSUME [Next]_vars
  PROVE  \/ Quiet
         \/ \E c \in Clients, op \in Commands, id \in Ids : Issue(c, op, id)
         \/ \E t \in Threads : Walking(t) \/ Restore(t) \/ Lock(t) \/ Unlock(t)
         \/ \E c \in Clients : Acts(c)
  <1>1. CASE UNCHANGED vars
    BY <1>1 DEF vars, Quiet, list
  <1>2. CASE Halted
    BY <1>2 DEF Halted, vars, Quiet, list
  <1>3. ASSUME NEW t \in Threads, Step(t)
        PROVE  Quiet \/ Walking(t) \/ Restore(t) \/ Lock(t) \/ Unlock(t)
    BY <1>3 DEF Step, Walking, WalkFaults, Fault, Quiet
  <1>4. ASSUME NEW c \in Clients, ClientStep(c) PROVE Quiet \/ Acts(c)
    <2>1. CASE UseFaults(c) \/ FreeFaults(c)
      BY <2>1 DEF UseFaults, FreeFaults, Fault, Quiet
    <2>2. CASE AppendLink(c)
      BY <2>2 DEF AppendLink, Fault, Quiet, Linking, Acts
    <2>. QED BY <1>4, <2>1, <2>2 DEF ClientStep, Acts
  <1>. QED BY <1>1, <1>2, <1>3, <1>4 DEF Next

\* What the steps of a command do to their own client, and to no other thread.
LEMMA ActsKeeps ==
  ASSUME TypeOK, Labelled, NEW c \in Clients, Acts(c)
  PROVE  /\ c \in Threads /\ c # MsgThread
         /\ \A u \in Threads \ {c} : th'[u] = th[u]
         /\ UNCHANGED <<mutex, faulty>>
         /\ \/ /\ Use(c) /\ th[c].pc = "use"
               /\ th[c].walk \in {"lookup", "again"}
               /\ th'[c].pc \in {"idle", "start", "full", "save"}
               /\ th'[c].walk \in {"lookup", "again", "listing"}
            \/ /\ Full(c) /\ th[c].pc = "full"
               /\ th[c].walk \in {"lookup", "again"}
               /\ th'[c].pc \in {"idle", "mutex"} /\ th'[c].walk = "lookup"
            \/ /\ CountUp(c) /\ th[c].pc = "countUp" /\ th[c].walk \in {"lookup", "again"}
               /\ th'[c].pc = "countUpStore" /\ th'[c].walk = th[c].walk
            \/ /\ CountUpStore(c) /\ th[c].pc = "countUpStore" /\ th[c].walk \in {"lookup", "again"}
               /\ th'[c].pc = "save" /\ th'[c].walk = "unique"
            \/ /\ AppendRead(c) /\ th[c].pc = "append" /\ th[c].walk = "unique"
               /\ th'[c].pc = "link" /\ th'[c].walk = "unique"
            \/ /\ (\E n \in Unused : Linking(c, n)) /\ th[c].pc = "link" /\ th[c].walk = "unique"
               /\ th'[c].pc = "tail" /\ th'[c].walk = "unique"
            \/ /\ AppendTail(c) /\ th[c].pc = "tail" /\ th[c].walk = "unique"
               /\ th'[c].pc = "unlock" /\ th'[c].walk = "unique"
            \/ /\ Strip(c) /\ th[c].pc = "strip" /\ th[c].walk = "free"
               /\ th'[c].pc = "unlink" /\ th'[c].walk = "free"
            \/ /\ Unlink(c) /\ th[c].pc = "unlink" /\ th[c].walk = "free"
               /\ th'[c].pc = "countDown" /\ th'[c].walk = "free"
            \/ /\ CountDown(c) /\ th[c].pc = "countDown" /\ th[c].walk = "free"
               /\ th'[c].pc = "countDownStore" /\ th'[c].walk = "free"
            \/ /\ CountDownStore(c) /\ th[c].pc = "countDownStore" /\ th[c].walk = "free"
               /\ th'[c].pc = "restore" /\ th'[c].walk = "free"
  <1>1. /\ th \in [Threads -> ThreadRecord] /\ th[c] \in ThreadRecord /\ ClientAt(th[c])
        /\ c \in Threads /\ c # MsgThread
    BY InstancesAssumption DEF TypeOK, Labelled, Threads
  <1>2. CASE Use(c)
    <2>1. th[c].pc = "use" /\ th[c].walk \in {"lookup", "again"}
      BY <1>1, <1>2 DEF Use, At, ClientAt, Loop, Freeing, Adding
    <2> DEFINE Fit(r) == /\ r.pc \in {"idle", "start", "full", "save"}
                         /\ r.walk \in {"lookup", "again", "listing"}
    <2>2. Fit(Idle)
      BY DEF Idle
    <2>3. Fit([th[c] EXCEPT !.pc = "start", !.walk = "listing"])
      BY <1>1 DEF ThreadRecord
    <2>4. Fit([th[c] EXCEPT !.pc = "full"])
      BY <1>1, <2>1 DEF ThreadRecord
    <2>5. Fit(Walk(c, "again", th[c].inst))
      <3>1. th[c].inst \in Ids
        BY <1>1 DEF ThreadRecord
      <3>. QED BY <1>1, <3>1, WalkBegins DEF Walks
    <2>6. th[c].op \in {"use", "instances", "new", "delete"}
      BY <1>1 DEF ThreadRecord
    <2>7. \E r : th' = [th EXCEPT ![c] = r] /\ Fit(r)
      <3> HIDE DEF Fit
      <3>1. CASE th[c].op = "use"
        BY <1>2, <2>2, <3>1 DEF Use
      <3>2. CASE th[c].op = "instances"
        BY <1>1, <1>2, <2>3, <3>2 DEF Use
      <3>3. CASE th[c].op = "new"
        BY <1>1, <1>2, <2>4, <3>3 DEF Use
      <3>4. CASE th[c].op = "delete"
        BY <1>2, <2>2, <2>5, <3>4 DEF Use
      <3>. QED BY <2>6, <3>1, <3>2, <3>3, <3>4
    <2>8. UNCHANGED <<mutex, faulty>>
      BY <1>2 DEF Use
    <2>. QED BY <1>1, <1>2, <2>1, <2>7, <2>8
  <1>3. CASE Full(c)
    <2>1. th[c].pc = "full" /\ th[c].walk \in {"lookup", "again"}
      BY <1>1, <1>3 DEF Full, At, ClientAt, Loop, Freeing, Adding
    <2>2. th' = [th EXCEPT ![c] = Idle] \/ th' = [th EXCEPT ![c] = [Idle EXCEPT !.pc = "mutex", !.op = "new"]]
      BY <1>3 DEF Full
    <2>3. UNCHANGED <<mutex, faulty>>
      BY <1>3 DEF Full
    <2>4. /\ Idle.pc = "idle" /\ Idle.walk = "lookup"
          /\ [Idle EXCEPT !.pc = "mutex", !.op = "new"].pc = "mutex"
          /\ [Idle EXCEPT !.pc = "mutex", !.op = "new"].walk = "lookup"
      BY DEF Idle
    <2>5. th'[c].pc \in {"idle", "mutex"} /\ th'[c].walk = "lookup"
      BY <1>1, <2>2, <2>4
    <2>6. \A u \in Threads \ {c} : th'[u] = th[u]
      BY <1>1, <2>2
    <2>. QED BY <1>1, <1>3, <2>1, <2>3, <2>5, <2>6
  <1>4. CASE CountUp(c)
    <2>1. th[c].pc = "countUp" /\ th[c].walk \in {"lookup", "again"}
      BY <1>1, <1>4 DEF CountUp, At, ClientAt, Loop, Freeing, Adding
    <2>. QED BY <1>1, <1>4, <2>1 DEF CountUp, ThreadRecord
  <1>5. CASE CountUpStore(c)
    <2>1. th[c].pc = "countUpStore" /\ th[c].walk \in {"lookup", "again"}
      BY <1>1, <1>5 DEF CountUpStore, At, ClientAt, Loop, Freeing, Adding
    <2> DEFINE w == Walk(c, "unique", 1)
               r == [w EXCEPT !.read = 0]
    <2>2. th' = [th EXCEPT ![c] = r] /\ UNCHANGED <<mutex, faulty>>
      BY <1>5 DEF CountUpStore
    <2>3. w \in ThreadRecord /\ w.pc = "save" /\ w.walk = "unique"
      BY <1>1, IdleTyped, WalkBegins DEF Walks
    <2>4. r.pc = "save" /\ r.walk = "unique"
      <3> HIDE DEF w
      <3>. QED BY <2>3 DEF ThreadRecord
    <2>. QED BY <1>1, <1>5, <2>1, <2>2, <2>4
  <1>6. CASE AppendRead(c)
    <2>1. th[c].pc = "append" /\ th[c].walk = "unique"
      BY <1>1, <1>6 DEF AppendRead, At, ClientAt, Loop, Freeing, Adding
    <2>. QED BY <1>1, <1>6, <2>1 DEF AppendRead, ThreadRecord
  <1>7. CASE \E n \in Unused : Linking(c, n)
    <2>1. th[c].pc = "link" /\ th[c].walk = "unique"
      BY <1>1, <1>7 DEF Linking, At, ClientAt, Loop, Freeing, Adding
    <2>2. PICK n \in Unused : Linking(c, n)
      BY <1>7
    <2>3. th' = [th EXCEPT ![c].node = n, ![c].pc = "tail"] /\ UNCHANGED <<mutex, faulty>>
      BY <2>2 DEF Linking
    <2>. QED BY <1>1, <1>7, <2>1, <2>3 DEF ThreadRecord
  <1>8. CASE AppendTail(c)
    <2>1. th[c].pc = "tail" /\ th[c].walk = "unique"
      BY <1>1, <1>8 DEF AppendTail, At, ClientAt, Loop, Freeing, Adding
    <2>. QED BY <1>1, <1>8, <2>1 DEF AppendTail, Goto, ThreadRecord
  <1>9. CASE Strip(c)
    <2>1. th[c].pc = "strip" /\ th[c].walk = "free"
      BY <1>1, <1>9 DEF Strip, At, ClientAt, Loop, Freeing, Adding
    <2>. QED BY <1>1, <1>9, <2>1 DEF Strip, Goto, ThreadRecord
  <1>10. CASE Unlink(c)
    <2>1. th[c].pc = "unlink" /\ th[c].walk = "free"
      BY <1>1, <1>10 DEF Unlink, At, ClientAt, Loop, Freeing, Adding
    <2>. QED BY <1>1, <1>10, <2>1 DEF Unlink, Goto, ThreadRecord
  <1>11. CASE CountDown(c)
    <2>1. th[c].pc = "countDown" /\ th[c].walk = "free"
      BY <1>1, <1>11 DEF CountDown, At, ClientAt, Loop, Freeing, Adding
    <2>. QED BY <1>1, <1>11, <2>1 DEF CountDown, ThreadRecord
  <1>12. CASE CountDownStore(c)
    <2>1. th[c].pc = "countDownStore" /\ th[c].walk = "free"
      BY <1>1, <1>12 DEF CountDownStore, At, ClientAt, Loop, Freeing, Adding
    <2>. QED BY <1>1, <1>12, <2>1 DEF CountDownStore, Goto, ThreadRecord
  <1>. QED
    BY <1>2, <1>3, <1>4, <1>5, <1>6, <1>7, <1>8, <1>9, <1>10, <1>11, <1>12 DEF Acts

\* A command starts in the lookup.
LEMMA IssueKeeps ==
  ASSUME TypeOK, Labelled, NEW c \in Clients, NEW op \in Commands, NEW id \in Ids,
         Issue(c, op, id)
  PROVE  /\ c \in Threads /\ c # MsgThread
         /\ \A u \in Threads \ {c} : th'[u] = th[u]
         /\ th[c].pc = "idle" /\ th[c].walk \in {"lookup", "again", "listing"}
         /\ th'[c].pc = "save" /\ th'[c].walk = "lookup"
         /\ th'[c].node = Null /\ th'[c].saved = Null
         /\ UNCHANGED <<list, cursor, count, mutex, faulty>>
  <1>1. th[c].pc = "idle" /\ th[c].walk \in {"lookup", "again", "listing"}
    BY DEF Issue, At, Labelled, ClientAt, Loop, Freeing, Adding
  <1>2. c \in Threads /\ c # MsgThread
    BY InstancesAssumption DEF Threads
  <1>. QED BY <1>1, <1>2 DEF Issue, TypeOK, Idle

\* The mutex is taken and given back.
LEMMA LockKeeps ==
  ASSUME TypeOK, Labelled, NEW t \in Threads, Lock(t) \/ Unlock(t)
  PROVE  /\ \A u \in Threads \ {t} : th'[u] = th[u]
         /\ UNCHANGED <<list, cursor, count, faulty>>
         /\ \/ /\ Lock(t) /\ mutex = Nobody /\ mutex' = t
               /\ th'[t].walk = th[t].walk /\ th'[t].node = th[t].node
               /\ th'[t].saved = th[t].saved
               /\ t = MsgThread => th[t].pc = "begin" /\ th'[t].pc = "start"
               /\ t # MsgThread => /\ th[t].pc = "mutex" /\ th'[t].pc = "countUp"
                                   /\ th[t].walk \in {"lookup", "again"}
            \/ /\ Unlock(t) /\ mutex' = Nobody /\ th[t].pc = "unlock"
               /\ th'[t].node = Null /\ th'[t].saved = Null
               /\ t = MsgThread => th'[t].pc = "begin"
               /\ t # MsgThread => /\ th[t].walk = "unique" /\ th'[t].walk = "lookup"
                                   /\ th'[t].pc = "idle"
  <1>1. /\ th \in [Threads -> ThreadRecord] /\ th[t] \in ThreadRecord
        /\ t # MsgThread => ClientAt(th[t])
    BY DEF TypeOK, Labelled, Threads
  <1>2. CASE Lock(t)
    <2>1. t # MsgThread => th[t].pc = "mutex" /\ th[t].walk \in {"lookup", "again"}
      BY <1>1, <1>2 DEF Lock, At, ClientAt, Loop, Freeing, Adding
    <2> DEFINE label == IF t = MsgThread THEN "start" ELSE "countUp"
    <2>2. /\ th' = [th EXCEPT ![t].pc = label]
          /\ UNCHANGED <<list, cursor, count, faulty>>
          /\ mutex = Nobody /\ mutex' = t
          /\ t = MsgThread => th[t].pc = "begin"
      BY <1>2 DEF Lock, Goto, At
    <2>3. /\ th'[t].pc = label
          /\ th'[t].walk = th[t].walk /\ th'[t].node = th[t].node /\ th'[t].saved = th[t].saved
          /\ \A u \in Threads \ {t} : th'[u] = th[u]
      BY <1>1, <2>2 DEF ThreadRecord
    <2>. QED BY <1>2, <2>1, <2>2, <2>3
  <1>3. CASE Unlock(t)
    <2>1. t # MsgThread => th[t].walk = "unique"
      BY <1>1, <1>3 DEF Unlock, At, ClientAt, Loop, Freeing, Adding
    <2>2. /\ th' = [th EXCEPT ![t] = IF t = MsgThread
                                      THEN [Idle EXCEPT !.pc = "begin", !.walk = "messages"]
                                      ELSE Idle]
          /\ UNCHANGED <<list, cursor, count, faulty>>
          /\ mutex' = Nobody /\ th[t].pc = "unlock"
      BY <1>3 DEF Unlock, At
    <2>3. /\ th'[t] = IF t = MsgThread THEN [Idle EXCEPT !.pc = "begin", !.walk = "messages"]
                      ELSE Idle
          /\ \A u \in Threads \ {t} : th'[u] = th[u]
      BY <1>1, <2>2
    <2>4. /\ th'[t].node = Null /\ th'[t].saved = Null
          /\ t = MsgThread => th'[t].pc = "begin"
          /\ t # MsgThread => th'[t].walk = "lookup" /\ th'[t].pc = "idle"
      <3> DEFINE m == [Idle EXCEPT !.pc = "begin", !.walk = "messages"]
      <3>1. /\ m.node = Null /\ m.saved = Null /\ m.pc = "begin"
            /\ Idle.node = Null /\ Idle.saved = Null /\ Idle.walk = "lookup" /\ Idle.pc = "idle"
        BY DEF Idle
      <3> HIDE DEF m
      <3>2. th'[t] = IF t = MsgThread THEN m ELSE Idle
        BY <2>3 DEF m
      <3>. QED BY <3>1, <3>2
    <2>. QED BY <1>3, <2>1, <2>2, <2>3, <2>4
  <1>. QED BY <1>2, <1>3

\* A thread is in the protected part exactly while it holds the mutex.
LEMMA Exclusion == Spec => []Exclusive
  <1>1. Init => Exclusive
    <2> SUFFICES ASSUME Init, NEW t \in Threads PROVE Inside(t) <=> mutex = t
      BY DEF Exclusive
    <2>1. th[t] = IF t = MsgThread THEN [Idle EXCEPT !.pc = "begin", !.walk = "messages"] ELSE Idle
      BY DEF Init
    <2>2. mutex = Nobody
      BY DEF Init
    <2>. QED BY <2>1, <2>2, InstancesAssumption DEF Inside, Idle
  <1>2. TypeOK /\ Labelled /\ Exclusive /\ [Next]_vars => Exclusive'
    <2> SUFFICES ASSUME TypeOK, Labelled, Exclusive, [Next]_vars, NEW u \in Threads
                 PROVE  Inside(u)' <=> mutex' = u
      BY DEF Exclusive
    <2>1. Inside(u) <=> mutex = u
      BY DEF Exclusive
    <2>2. ASSUME th'[u] = th[u], mutex' = mutex PROVE Inside(u)' <=> mutex' = u
      BY <2>1, <2>2 DEF Inside
    <2>3. CASE Quiet
      BY <2>2, <2>3 DEF Quiet
    <2>4. ASSUME NEW c \in Clients, NEW op \in Commands, NEW id \in Ids, Issue(c, op, id)
          PROVE  Inside(u)' <=> mutex' = u
      <3>1. CASE u = c
        BY <2>1, <2>4, <3>1, IssueKeeps DEF Inside
      <3>. QED BY <2>2, <2>4, <3>1, IssueKeeps
    <2>5. ASSUME NEW t \in Threads, Walking(t) PROVE Inside(u)' <=> mutex' = u
      <3>1. CASE u = t
        <4>1. t = MsgThread => th[t].pc # "begin" /\ th'[t].pc # "begin"
          BY <2>5, WalkingKeeps
        <4>2. t # MsgThread => (Inside(t)' <=> Inside(t))
          BY <2>5, WalkingKeeps DEF Inside
        <4>3. mutex' = mutex
          BY <2>5, WalkingKeeps
        <4>. QED BY <2>1, <3>1, <4>1, <4>2, <4>3 DEF Inside
      <3>. QED BY <2>2, <2>5, <3>1, WalkingKeeps
    <2>6. ASSUME NEW t \in Threads, Restore(t) PROVE Inside(u)' <=> mutex' = u
      <3>1. CASE u = t
        BY <2>1, <2>6, <3>1, RestoreKeeps DEF Inside
      <3>. QED BY <2>2, <2>6, <3>1, RestoreKeeps
    <2>7. ASSUME NEW t \in Threads, Lock(t) \/ Unlock(t) PROVE Inside(u)' <=> mutex' = u
      <3>1. CASE u = t
        BY <2>1, <2>7, <3>1, LockKeeps, InstancesAssumption DEF Inside
      <3>2. CASE u # t
        <4>1. th'[u] = th[u]
          BY <2>7, <3>2, LockKeeps
        <4>2. mutex # u /\ mutex' # u
          <5>1. CASE Lock(t)
            BY <2>7, <3>2, <5>1, LockKeeps, InstancesAssumption DEF Lock
          <5>2. CASE Unlock(t)
            <6>1. Inside(t) /\ mutex' = Nobody
              BY <2>7, <5>2, LockKeeps DEF Inside, Unlock, At
            <6>. QED BY <3>2, <6>1, InstancesAssumption DEF Exclusive
          <5>. QED BY <2>7, <5>1, <5>2
        <4>. QED BY <2>1, <4>1, <4>2 DEF Inside
      <3>. QED BY <3>1, <3>2
    <2>8. ASSUME NEW c \in Clients, Acts(c) PROVE Inside(u)' <=> mutex' = u
      <3>1. CASE u = c
        BY <2>1, <2>8, <3>1, ActsKeeps DEF Inside
      <3>. QED BY <2>2, <2>8, <3>1, ActsKeeps
    <2>. QED BY <2>3, <2>4, <2>5, <2>6, <2>7, <2>8, Kinds
  <1>. QED BY <1>1, <1>2, Labelling, PTL DEF Spec

-----------------------------------------------------------------------------
(* Pointers.                                                               *)

\* Every pointer that is followed leads to a node that has been allocated.
Used == Pointer \ Unused

PointersUsed ==
  /\ head \in Used /\ tail \in Used /\ cursor \in Used
  /\ \A n \in Nodes \ Unused : heap[n].next \in Used /\ heap[n].prev \in Used
  /\ \A t \in Threads : th[t].saved \in Used /\ th[t].node \in Used

\* The node ll_addv links.
LEMMA LinkingHeap ==
  ASSUME TypeOK, PointersUsed, NEW c \in Clients, NEW n \in Unused, Linking(c, n)
  PROVE  /\ n \in Nodes /\ n # Null /\ n # th[c].node
         /\ heap'[n] = [state |-> "live", id |-> th[c].id, next |-> Null,
                        prev |-> IF head = Null THEN Null ELSE th[c].node]
         /\ th[c].node # Null => /\ th[c].node \in Nodes
                                 /\ heap[th[c].node].state \in {"live", "stripped"}
         /\ \A m \in Nodes \ {n} :
              /\ heap'[m].state = heap[m].state
              /\ heap'[m].id = heap[m].id /\ heap'[m].prev = heap[m].prev
              /\ heap'[m].next = IF m = th[c].node THEN n ELSE heap[m].next
         /\ Unused' = Unused \ {n}
  <1>1. /\ n \in Nodes /\ n # Null /\ heap[n].state = "unused"
        /\ heap \in [Nodes -> NodeRecord] /\ th[c].node \in Used
    BY InstancesAssumption DEF Unused, TypeOK, PointersUsed, Threads
  <1>2. n # th[c].node
    BY <1>1 DEF Used, Unused
  <1> DEFINE new == [state |-> "live", id |-> th[c].id, next |-> Null,
                     prev |-> IF head = Null THEN Null ELSE th[c].node]
             WithNext(m) == [heap[m] EXCEPT !.next = IF m = th[c].node THEN n ELSE @]
  <1>3. \A m \in Nodes : heap'[m] = IF m = n THEN new ELSE WithNext(m)
    BY DEF Linking
  <1> HIDE DEF WithNext
  <1>4. heap'[n] = new
    BY <1>1, <1>3
  <1>5. th[c].node # Null => /\ th[c].node \in Nodes
                             /\ heap[th[c].node].state \in {"live", "stripped"}
    <2>1. th[c].node # Null => /\ th[c].node \in Nodes /\ heap[th[c].node] \in NodeRecord
                               /\ heap[th[c].node].state # "unused"
      BY <1>1 DEF Used, Unused, Pointer
    <2>2. th[c].node # Null => heap[th[c].node].state # "freed"
      BY DEF Linking, Allocated
    <2>. QED BY <2>1, <2>2 DEF NodeRecord
  <1>6. ASSUME NEW m \in Nodes \ {n}
        PROVE  /\ heap'[m].state = heap[m].state
               /\ heap'[m].id = heap[m].id /\ heap'[m].prev = heap[m].prev
               /\ heap'[m].next = IF m = th[c].node THEN n ELSE heap[m].next
    <2>1. heap'[m] = WithNext(m) /\ heap[m] \in NodeRecord
      BY <1>1, <1>3
    <2>. QED BY <2>1 DEF WithNext, NodeRecord
  <1>7. Unused' = Unused \ {n}
    <2>1. heap'[n].state = "live"
      BY <1>4
    <2>. QED BY <1>1, <1>6, <2>1 DEF Unused
  <1>. QED BY <1>1, <1>2, <1>4, <1>5, <1>6, <1>7

\* The nodes around the one ll_delete removes.
LEMMA UnlinkHeap ==
  ASSUME TypeOK, PointersUsed, NEW c \in Clients, Unlink(c)
  PROVE  /\ cursor \in Nodes /\ heap[cursor].state \in {"live", "stripped"}
         /\ heap[cursor].next \in Used /\ heap[cursor].prev \in Used
         /\ heap[cursor].prev # Null =>
              /\ heap[cursor].prev \in Nodes
              /\ heap[heap[cursor].prev].state \in {"live", "stripped"}
         /\ heap'[cursor] = [heap[cursor] EXCEPT !.state = "freed"]
         /\ \A m \in Nodes \ {cursor} :
              /\ heap'[m].state = heap[m].state /\ heap'[m].id = heap[m].id
              /\ heap'[m].next = IF m = heap[cursor].prev THEN heap[cursor].next ELSE heap[m].next
              /\ heap'[m].prev = IF m = heap[cursor].next /\ heap[cursor].prev # Null
                                 THEN heap[cursor].prev ELSE heap[m].prev
         /\ Unused' = Unused
  <1> DEFINE next == heap[cursor].next
             prev == heap[cursor].prev
  <1>1. heap \in [Nodes -> NodeRecord] /\ cursor \in Used /\ cursor # Null
    BY DEF TypeOK, PointersUsed, Unlink, CanUnlink, Allocated
  <1>2. cursor \in Nodes /\ heap[cursor] \in NodeRecord /\ heap[cursor].state # "unused"
    BY <1>1 DEF Used, Pointer, Unused
  <1>3. heap[cursor].state \in {"live", "stripped"}
    BY <1>2 DEF Unlink, CanUnlink, Allocated, NodeRecord
  <1>4. next \in Used /\ prev \in Used
    BY <1>2 DEF PointersUsed, Unused
  <1>5. prev # Null => Allocated(prev)
    BY DEF Unlink, CanUnlink
  <1> DEFINE AsFreed(m)  == [heap[m] EXCEPT !.state = "freed"]
             Bypassed(m) == [heap[m] EXCEPT !.next = IF m = prev THEN next ELSE @,
                                            !.prev = IF m = next /\ prev # Null THEN prev ELSE @]
  <1>6. \A m \in Nodes : heap'[m] = IF m = cursor THEN AsFreed(m) ELSE Bypassed(m)
    BY DEF Unlink
  <1> HIDE DEF next, prev, AsFreed, Bypassed
  <1>7. prev # Null => prev \in Nodes /\ heap[prev].state \in {"live", "stripped"}
    <2>1. prev # Null => /\ prev \in Nodes /\ heap[prev].state # "unused"
                         /\ heap[prev] \in NodeRecord
      BY <1>1, <1>4 DEF Used, Pointer, Unused
    <2>. QED BY <1>5, <2>1 DEF Allocated, NodeRecord
  <1>8. heap'[cursor] = AsFreed(cursor)
    BY <1>2, <1>6
  <1>9. ASSUME NEW m \in Nodes \ {cursor}
        PROVE  /\ heap'[m].state = heap[m].state /\ heap'[m].id = heap[m].id
               /\ heap'[m].next = IF m = prev THEN next ELSE heap[m].next
               /\ heap'[m].prev = IF m = next /\ prev # Null THEN prev ELSE heap[m].prev
    <2>1. heap'[m] = Bypassed(m) /\ heap[m] \in NodeRecord
      BY <1>1, <1>6
    <2>. QED BY <2>1 DEF Bypassed, NodeRecord
  <1>10. Unused' = Unused
    <2>1. heap'[cursor].state = "freed"
      BY <1>2, <1>8 DEF NodeRecord, AsFreed
    <2>. QED BY <1>2, <1>9, <2>1 DEF Unused
  <1>11. heap'[cursor] = [heap[cursor] EXCEPT !.state = "freed"]
    BY <1>8 DEF AsFreed
  <1>. QED BY <1>2, <1>3, <1>4, <1>7, <1>9, <1>10, <1>11 DEF next, prev

\* free_instance_members changes no pointer.
LEMMA StripHeap ==
  ASSUME TypeOK, PointersUsed, NEW c \in Clients, Strip(c)
  PROVE  /\ th[c].node \in Nodes /\ heap[th[c].node].state \in {"live", "stripped"}
         /\ heap'[th[c].node].state = "stripped"
         /\ \A m \in Nodes : /\ m # th[c].node => heap'[m] = heap[m]
                             /\ heap'[m].id = heap[m].id /\ heap'[m].next = heap[m].next
                             /\ heap'[m].prev = heap[m].prev
         /\ Unused' = Unused
  <1>1. /\ heap \in [Nodes -> NodeRecord] /\ th[c].node \in Used /\ th[c].node # Null
        /\ heap[th[c].node].state # "freed"
    BY DEF TypeOK, PointersUsed, Strip, Allocated, Threads
  <1>2. /\ th[c].node \in Nodes /\ heap[th[c].node] \in NodeRecord
        /\ heap[th[c].node].state # "unused"
    BY <1>1 DEF Used, Pointer, Unused
  <1>3. heap' = [heap EXCEPT ![th[c].node].state = "stripped"]
    BY DEF Strip
  <1>4. heap'[th[c].node] = [heap[th[c].node] EXCEPT !.state = "stripped"]
    BY <1>1, <1>2, <1>3
  <1>5. \A m \in Nodes \ {th[c].node} : heap'[m] = heap[m]
    BY <1>1, <1>3
  <1>6. /\ heap'[th[c].node].state = "stripped"
        /\ heap'[th[c].node].id = heap[th[c].node].id
        /\ heap'[th[c].node].next = heap[th[c].node].next
        /\ heap'[th[c].node].prev = heap[th[c].node].prev
    BY <1>2, <1>4 DEF NodeRecord
  <1>7. heap[th[c].node].state \in {"live", "stripped"}
    BY <1>1, <1>2 DEF NodeRecord
  <1>. QED BY <1>2, <1>5, <1>6, <1>7 DEF Unused

\* A walk moves the cursor, and what it remembers, along the list.
LEMMA WalkingPointers ==
  ASSUME TypeOK, PointersUsed, NEW t \in Threads, Walking(t)
  PROVE  /\ th'[t].saved \in Used /\ th'[t].node \in Used
         /\ cursor' \in {cursor, head, th[t].node}
  <1>1. /\ th \in [Threads -> ThreadRecord] /\ th[t] \in ThreadRecord
        /\ th[t].saved \in Used /\ th[t].node \in Used /\ cursor \in Used /\ Null \in Used
    BY InstancesAssumption DEF TypeOK, PointersUsed, Used, Pointer, Unused
  <1>2. CASE Save(t)
    BY <1>1, <1>2 DEF Save, ThreadRecord
  <1>3. CASE Start(t) \/ Visit(t) \/ Store(t)
    BY <1>1, <1>3 DEF Start, Visit, Store, Goto, ThreadRecord
  <1>4. CASE Test(t)
    <2>1. CASE cursor # Null
      BY <1>1, <1>4, <2>1 DEF Test, Goto, ThreadRecord
    <2>2. CASE cursor = Null
      <3>1. th' = [th EXCEPT ![t].pc = AfterLoop(th[t].walk), ![t].node = Null] /\ cursor' = cursor
        BY <1>4, <2>2 DEF Test
      <3>. QED BY <1>1, <3>1 DEF ThreadRecord
    <2>. QED BY <2>1, <2>2
  <1>5. CASE Look(t)
    <2> DEFINE label == AfterLook(th[t].walk, heap[cursor].id = th[t].id)
    <2>1. th' = [th EXCEPT ![t].node = cursor, ![t].pc = label] /\ cursor' = cursor
      BY <1>5 DEF Look
    <2> HIDE DEF label
    <2>. QED BY <1>1, <2>1 DEF ThreadRecord
  <1>6. CASE Take(t)
    BY <1>1, <1>6 DEF Take, ThreadRecord
  <1>7. CASE Advance(t)
    <2>1. heap[cursor].next \in Used
      <3>1. cursor \in Nodes \ Unused
        BY <1>1, <1>7 DEF Advance, Allocated, Used, Pointer
      <3>. QED BY <3>1 DEF PointersUsed
    <2>. QED BY <1>1, <1>7, <2>1 DEF Advance, ThreadRecord
  <1>. QED BY <1>2, <1>3, <1>4, <1>5, <1>6, <1>7 DEF Walking

\* A command remembers what it remembered, the tail, or the node it has linked.
LEMMA ActsPointers ==
  ASSUME TypeOK, PointersUsed, NEW c \in Clients, Acts(c)
  PROVE  /\ th'[c].saved \in {Null, th[c].saved}
         /\ \/ th'[c].node \in {Null, th[c].node, tail}
            \/ \E n \in Unused : Linking(c, n) /\ th'[c].node = n
  <1>1. /\ th \in [Threads -> ThreadRecord] /\ th[c] \in ThreadRecord /\ c \in Threads
    BY DEF TypeOK, Threads
  <1> DEFINE Fit(r) == r.saved \in {Null, th[c].saved} /\ r.node \in {Null, th[c].node}
  <1>2. ASSUME NEW r, th' = [th EXCEPT ![c] = r], Fit(r)
        PROVE  th'[c].saved \in {Null, th[c].saved} /\ th'[c].node \in {Null, th[c].node}
    BY <1>1, <1>2
  <1>3. Fit(Idle)
    BY DEF Idle
  <1>4. ASSUME NEW walk \in Walks, NEW id \in Ids PROVE Fit(Walk(c, walk, id))
    BY <1>1, WalkBegins
  <1>5. CASE Use(c)
    <2>1. Fit([th[c] EXCEPT !.pc = "start", !.walk = "listing"]) /\ Fit([th[c] EXCEPT !.pc = "full"])
      BY <1>1 DEF ThreadRecord
    <2>2. Fit(Walk(c, "again", th[c].inst))
      <3>1. th[c].inst \in Ids
        BY <1>1 DEF ThreadRecord
      <3>. QED BY <1>4, <3>1 DEF Walks
    <2>3. th[c].op \in {"use", "instances", "new", "delete"}
      BY <1>1 DEF ThreadRecord
    <2>4. \E r : th' = [th EXCEPT ![c] = r] /\ Fit(r)
      <3> HIDE DEF Fit
      <3>1. CASE th[c].op = "use"
        BY <1>3, <1>5, <3>1 DEF Use
      <3>2. CASE th[c].op = "instances"
        BY <1>1, <1>5, <2>1, <3>2 DEF Use
      <3>3. CASE th[c].op = "new"
        BY <1>1, <1>5, <2>1, <3>3 DEF Use
      <3>4. CASE th[c].op = "delete"
        BY <1>3, <1>5, <2>2, <3>4 DEF Use
      <3>. QED BY <2>3, <3>1, <3>2, <3>3, <3>4
    <2>. QED BY <1>2, <2>4
  <1>6. CASE Full(c)
    <2>1. Fit([Idle EXCEPT !.pc = "mutex", !.op = "new"])
      BY DEF Idle
    <2>2. \E r : th' = [th EXCEPT ![c] = r] /\ Fit(r)
      <3> HIDE DEF Fit
      <3>. QED BY <1>3, <1>6, <2>1 DEF Full
    <2>. QED BY <1>2, <2>2
  <1>7. CASE CountUp(c) \/ CountDown(c)
    BY <1>1, <1>7 DEF CountUp, CountDown, ThreadRecord
  <1>8. CASE CountUpStore(c)
    <2> DEFINE w == Walk(c, "unique", 1)
    <2>1. w \in ThreadRecord /\ Fit(w)
      BY <1>1, IdleTyped, WalkBegins DEF Walks
    <2>2. th' = [th EXCEPT ![c] = [w EXCEPT !.read = 0]]
      BY <1>8 DEF CountUpStore
    <2> HIDE DEF w
    <2>3. Fit([w EXCEPT !.read = 0])
      BY <2>1 DEF ThreadRecord
    <2>. QED BY <1>2, <2>2, <2>3
  <1>9. CASE AppendRead(c)
    <2>1. th' = [th EXCEPT ![c].node = tail, ![c].pc = "link"]
      BY <1>9 DEF AppendRead
    <2>. QED BY <1>1, <2>1 DEF ThreadRecord
  <1>10. CASE \E n \in Unused : Linking(c, n)
    <2>1. PICK n \in Unused : Linking(c, n)
      BY <1>10
    <2>2. th' = [th EXCEPT ![c].node = n, ![c].pc = "tail"]
      BY <2>1 DEF Linking
    <2>. QED BY <1>1, <2>1, <2>2 DEF ThreadRecord
  <1>11. CASE AppendTail(c) \/ Strip(c) \/ Unlink(c) \/ CountDownStore(c)
    <2>1. \E label : th' = [th EXCEPT ![c].pc = label]
      <3>1. CASE AppendTail(c)
        BY <3>1 DEF AppendTail, Goto
      <3>2. CASE Strip(c)
        BY <3>2 DEF Strip, Goto
      <3>3. CASE Unlink(c)
        BY <3>3 DEF Unlink, Goto
      <3>4. CASE CountDownStore(c)
        BY <3>4 DEF CountDownStore, Goto
      <3>. QED BY <1>11, <3>1, <3>2, <3>3, <3>4
    <2>. QED BY <1>1, <2>1 DEF ThreadRecord
  <1>. QED BY <1>5, <1>6, <1>7, <1>8, <1>9, <1>10, <1>11 DEF Acts

\* Where the heap is the same, so are the nodes that can be pointed to.
LEMMA SameHeap ==
  ASSUME PointersUsed, heap' = heap, head' = head, tail' = tail, cursor' \in Used,
         \A t \in Threads : th'[t].saved \in Used /\ th'[t].node \in Used
  PROVE  PointersUsed'
  BY DEF PointersUsed, Used, Unused

\* No thread follows a pointer to a node that has not been allocated.
LEMMA Pointing == Spec => []PointersUsed
  <1>1. Init => PointersUsed
    <2> SUFFICES ASSUME Init PROVE PointersUsed
      OBVIOUS
    <2>1. PICK n \in Nodes :
            /\ heap = [m \in Nodes |-> [state |-> IF m = n THEN "live" ELSE "unused",
                                       id |-> 1, next |-> Null, prev |-> Null]]
            /\ head = n /\ tail = n /\ cursor = n
      BY DEF Init
    <2>2. n \in Used /\ Null \in Used
      BY <2>1, InstancesAssumption DEF Used, Unused, Pointer
    <2>3. \A m \in Nodes : heap[m].next = Null /\ heap[m].prev = Null
      BY <2>1
    <2>4. \A t \in Threads : th[t].saved = Null /\ th[t].node = Null
      BY DEF Init, Idle
    <2>. QED BY <2>1, <2>2, <2>3, <2>4 DEF PointersUsed
  <1>2. TypeOK /\ Labelled /\ PointersUsed /\ [Next]_vars => PointersUsed'
    <2> SUFFICES ASSUME TypeOK, Labelled, PointersUsed, [Next]_vars PROVE PointersUsed'
      OBVIOUS
    <2>1. /\ head \in Used /\ tail \in Used /\ cursor \in Used /\ Null \in Used
          /\ \A t \in Threads : th[t].saved \in Used /\ th[t].node \in Used
      BY InstancesAssumption DEF PointersUsed, Used, Unused, Pointer
    <2>2. CASE Quiet
      BY <2>1, <2>2, SameHeap DEF Quiet, list
    <2>3. ASSUME NEW c \in Clients, NEW op \in Commands, NEW id \in Ids, Issue(c, op, id)
          PROVE  PointersUsed'
      BY <2>1, <2>3, IssueKeeps, SameHeap DEF list
    <2>4. ASSUME NEW t \in Threads, Walking(t) PROVE PointersUsed'
      <3>1. cursor' \in Used
        BY <2>1, <2>4, WalkingPointers
      <3>. QED BY <2>1, <2>4, <3>1, WalkingKeeps, WalkingPointers, SameHeap DEF list
    <2>5. ASSUME NEW t \in Threads, Restore(t) PROVE PointersUsed'
      BY <2>1, <2>5, RestoreKeeps, SameHeap DEF list
    <2>6. ASSUME NEW t \in Threads, Lock(t) \/ Unlock(t) PROVE PointersUsed'
      BY <2>1, <2>6, LockKeeps, SameHeap DEF list
    <2>7. ASSUME NEW c \in Clients, Acts(c) PROVE PointersUsed'
      <3>1. \A t \in Threads \ {c} : th'[t] = th[t]
        BY <2>7, ActsKeeps
      <3>2. /\ th'[c].saved \in {Null, th[c].saved}
            /\ \/ th'[c].node \in {Null, th[c].node, tail}
               \/ \E n \in Unused : Linking(c, n) /\ th'[c].node = n
        BY <2>7, ActsPointers
      <3>3. c \in Threads
        BY DEF Threads
      <3>4. CASE UNCHANGED <<list, cursor>> /\ th'[c].node \in {Null, th[c].node, tail}
        BY <2>1, <3>1, <3>2, <3>3, <3>4, SameHeap DEF list
      <3>5. ASSUME NEW n \in Unused, Linking(c, n) PROVE PointersUsed'
        <4>1. Unused' = Unused \ {n} /\ n \in Nodes
          BY <3>5, LinkingHeap
        <4>2. Used' = Used \cup {n}
          BY <4>1, InstancesAssumption DEF Used, Pointer
        <4>3. head' \in {n, head} /\ tail' = tail /\ cursor' \in {n, cursor}
          BY <3>5 DEF Linking
        <4>4. th'[c].node = n
          <5>1. th' = [th EXCEPT ![c].node = n, ![c].pc = "tail"]
            BY <3>5 DEF Linking
          <5>. QED BY <3>3, <5>1 DEF TypeOK, ThreadRecord
        <4>5. \A m \in Nodes \ Unused' : heap'[m].next \in Used' /\ heap'[m].prev \in Used'
          <5>1. heap'[n].next \in Used' /\ heap'[n].prev \in Used'
            <6>1. heap'[n] = [state |-> "live", id |-> th[c].id, next |-> Null,
                              prev |-> IF head = Null THEN Null ELSE th[c].node]
              BY <3>5, LinkingHeap
            <6>2. heap'[n].next = Null /\ heap'[n].prev \in {Null, th[c].node}
              BY <6>1
            <6>. QED BY <2>1, <3>3, <4>2, <6>2
          <5>2. ASSUME NEW m \in Nodes \ Unused, m # n
                PROVE  heap'[m].next \in Used' /\ heap'[m].prev \in Used'
            <6>1. heap[m].next \in Used /\ heap[m].prev \in Used
              BY DEF PointersUsed
            <6>2. heap'[m].prev = heap[m].prev /\ heap'[m].next \in {n, heap[m].next}
              <7>1. m \in Nodes \ {n}
                BY <5>2
              <7>2. \A k \in Nodes \ {n} :
                      /\ heap'[k].state = heap[k].state
                      /\ heap'[k].id = heap[k].id /\ heap'[k].prev = heap[k].prev
                      /\ heap'[k].next = IF k = th[c].node THEN n ELSE heap[k].next
                BY ONLY <2>7, <3>5, TypeOK, PointersUsed, LinkingHeap, ZenonT(40)
              <7>. QED BY <7>1, <7>2
            <6>. QED BY <4>2, <6>1, <6>2
          <5>. QED BY <4>1, <5>1, <5>2
        <4>. QED BY <2>1, <3>1, <3>2, <3>3, <4>2, <4>3, <4>4, <4>5 DEF PointersUsed
      <3>6. CASE AppendTail(c)
        <4>1. heap' = heap /\ head' = head /\ cursor' = cursor /\ tail' = th[c].node
          BY <3>6 DEF AppendTail
        <4>2. th'[c].node = th[c].node
          BY <3>6 DEF AppendTail, Goto, TypeOK, ThreadRecord, Threads
        <4>3. Used' = Used /\ Unused' = Unused
          BY <4>1 DEF Used, Unused
        <4>. QED BY <2>1, <3>1, <3>2, <3>3, <4>1, <4>2, <4>3 DEF PointersUsed
      <3>7. CASE Strip(c)
        <4>1. Unused' = Unused /\ Used' = Used
          BY <3>7, StripHeap DEF Used
        <4>2. \A m \in Nodes : heap'[m].next = heap[m].next /\ heap'[m].prev = heap[m].prev
          BY <3>7, StripHeap
        <4>3. head' = head /\ tail' = tail /\ cursor' = cursor
          BY <3>7 DEF Strip
        <4>4. th'[c].node = th[c].node
          BY <3>7 DEF Strip, Goto, TypeOK, ThreadRecord, Threads
        <4>. QED BY <2>1, <3>1, <3>2, <3>3, <4>1, <4>2, <4>3, <4>4 DEF PointersUsed
      <3>8. CASE Unlink(c)
        <4>1. Unused' = Unused /\ Used' = Used
          BY <3>8, UnlinkHeap DEF Used
        <4>2. heap[cursor].next \in Used /\ heap[cursor].prev \in Used
          BY <3>8, UnlinkHeap
        <4>3. ASSUME NEW m \in Nodes \ Unused PROVE heap'[m].next \in Used /\ heap'[m].prev \in Used
          <5>1. heap[m].next \in Used /\ heap[m].prev \in Used
            BY DEF PointersUsed
          <5>2. CASE m = cursor
            <6>1. heap'[m] = [heap[m] EXCEPT !.state = "freed"] /\ heap[m] \in NodeRecord
              BY <3>8, <5>2, UnlinkHeap DEF TypeOK
            <6>. QED BY <5>1, <6>1 DEF NodeRecord
          <5>3. CASE m # cursor
            BY <3>8, <4>2, <5>1, <5>3, UnlinkHeap
          <5>. QED BY <5>2, <5>3
        <4>4. /\ head' \in {heap[cursor].next, head} /\ tail' \in {Null, heap[cursor].prev, tail}
              /\ cursor' \in {Null, cursor}
          BY <3>8 DEF Unlink
        <4>5. th'[c].node = th[c].node
          BY <3>8 DEF Unlink, Goto, TypeOK, ThreadRecord, Threads
        <4>6. head' \in Used /\ tail' \in Used /\ cursor' \in Used
          BY <2>1, <4>2, <4>4
        <4>. QED BY <2>1, <3>1, <3>2, <3>3, <4>1, <4>3, <4>5, <4>6 DEF PointersUsed
      <3>9. CASE Use(c) \/ Full(c) \/ CountUp(c) \/ CountUpStore(c) \/ AppendRead(c)
                 \/ CountDown(c) \/ CountDownStore(c)
        <4>1. UNCHANGED <<list, cursor>>
          BY <3>9 DEF Use, Full, CountUp, CountUpStore, AppendRead, CountDown, CountDownStore
        <4>2. ~(\E n \in Unused : Linking(c, n))
          BY <3>9 DEF Use, Full, CountUp, CountUpStore, AppendRead, CountDown, CountDownStore,
                      Linking, At
        <4>. QED BY <3>2, <3>4, <4>1, <4>2
      <3>. QED BY <2>7, <3>5, <3>6, <3>7, <3>8, <3>9 DEF Acts
    <2>. QED BY <2>2, <2>3, <2>4, <2>5, <2>6, <2>7, Kinds
  <1>. QED BY <1>1, <1>2, Labelling, PTL DEF Spec

-----------------------------------------------------------------------------
(* The states of the nodes, and which are in use.                          *)

InUse == {n \in Nodes : heap[n].state \in {"live", "stripped"}}

\* A step allocates one node, frees the members of one, frees one, or none.
LEMMA HeapChanges ==
  ASSUME TypeOK, Labelled, PointersUsed, [Next]_vars
  PROVE  \/ heap' = heap
         \/ \E c \in Clients, n \in Unused :
              /\ Linking(c, n) /\ InUse' = InUse \cup {n} /\ n \in Nodes \ InUse
              /\ NothingDeleted' => NothingDeleted
         \/ \E c \in Clients : Strip(c) /\ InUse' = InUse /\ ~NothingDeleted'
         \/ \E c \in Clients : /\ Unlink(c) /\ InUse' = InUse \ {cursor} /\ cursor \in InUse
                               /\ ~NothingDeleted'
  <1>1. CASE Quiet
    BY <1>1 DEF Quiet, list
  <1>2. ASSUME NEW c \in Clients, NEW op \in Commands, NEW id \in Ids, Issue(c, op, id)
        PROVE  heap' = heap
    BY <1>2 DEF Issue, list
  <1>3. ASSUME NEW t \in Threads, Walking(t) PROVE heap' = heap
    BY <1>3, WalkingKeeps DEF list
  <1>4. ASSUME NEW t \in Threads, Restore(t) \/ Lock(t) \/ Unlock(t) PROVE heap' = heap
    BY <1>4 DEF Restore, Lock, Unlock, list
  <1>5. ASSUME NEW c \in Clients, NEW n \in Unused, Linking(c, n)
        PROVE  /\ InUse' = InUse \cup {n} /\ n \in Nodes \ InUse
               /\ NothingDeleted' => NothingDeleted
    <2>1. n \in Nodes \ InUse /\ heap[n].state = "unused"
      BY DEF Unused, InUse
    <2>2. heap'[n].state = "live"
      <3>1. heap'[n] = [state |-> "live", id |-> th[c].id, next |-> Null,
                        prev |-> IF head = Null THEN Null ELSE th[c].node]
        BY <1>5, LinkingHeap
      <3>. QED BY <3>1
    <2>3. \A m \in Nodes \ {n} : heap'[m].state = heap[m].state
      BY ONLY <1>5, TypeOK, PointersUsed, LinkingHeap
    <2>. QED BY <2>1, <2>2, <2>3 DEF InUse, NothingDeleted
  <1>6. ASSUME NEW c \in Clients, Strip(c) PROVE InUse' = InUse /\ ~NothingDeleted'
    <2>1. /\ th[c].node \in Nodes /\ heap[th[c].node].state \in {"live", "stripped"}
          /\ heap'[th[c].node].state = "stripped"
          /\ \A m \in Nodes : m # th[c].node => heap'[m] = heap[m]
      BY <1>6, StripHeap
    <2>. QED BY <2>1 DEF InUse, NothingDeleted
  <1>7. ASSUME NEW c \in Clients, Unlink(c)
        PROVE  InUse' = InUse \ {cursor} /\ cursor \in InUse /\ ~NothingDeleted'
    <2>1. cursor \in Nodes /\ heap[cursor].state \in {"live", "stripped"}
      BY <1>7, UnlinkHeap
    <2>2. heap'[cursor].state = "freed"
      <3>1. heap'[cursor] = [heap[cursor] EXCEPT !.state = "freed"] /\ heap[cursor] \in NodeRecord
        BY <1>7, <2>1, UnlinkHeap DEF TypeOK
      <3>. QED BY <3>1 DEF NodeRecord
    <2>3. \A m \in Nodes \ {cursor} : heap'[m].state = heap[m].state
      BY ONLY <1>7, TypeOK, PointersUsed, UnlinkHeap
    <2>. QED BY <2>1, <2>2, <2>3 DEF InUse, NothingDeleted
  <1>8. ASSUME NEW c \in Clients,
               \/ Use(c) \/ Full(c) \/ CountUp(c) \/ CountUpStore(c) \/ AppendRead(c)
               \/ AppendTail(c) \/ CountDown(c) \/ CountDownStore(c)
        PROVE  heap' = heap
    BY <1>8 DEF Use, Full, CountUp, CountUpStore, AppendRead, AppendTail, CountDown,
                CountDownStore, list
  <1>. QED BY <1>1, <1>2, <1>3, <1>4, <1>5, <1>6, <1>7, <1>8, Kinds DEF Acts

\* A node that was freed stays freed.
LEMMA DeletedStays ==
  ASSUME TypeOK, Labelled, PointersUsed, [Next]_vars, NothingDeleted'
  PROVE  NothingDeleted
  BY HeapChanges DEF NothingDeleted

\* Once a client is about to remove an instance, one is not live any more; and
\* no instance is ever deleted without the delete command.
Undeleted ==
  /\ NothingDeleted => \A c \in Clients : th[c].pc \notin {"unlink", "countDown", "countDownStore"}
  /\ "delete" \notin Commands => NothingDeleted

\* That is an invariant.
LEMMA Deleting == Spec => []Undeleted
  <1>1. Init => Undeleted
    <2> SUFFICES ASSUME Init PROVE Undeleted
      OBVIOUS
    <2>1. \A c \in Clients : th[c].pc = "idle"
      BY InstancesAssumption DEF Init, Idle, Threads
    <2>2. NothingDeleted
      BY DEF Init, NothingDeleted
    <2>. QED BY <2>1, <2>2 DEF Undeleted
  <1>2. TypeOK /\ Labelled /\ PointersUsed /\ Undeleted /\ [Next]_vars => Undeleted'
    <2> SUFFICES ASSUME TypeOK, Labelled, PointersUsed, Undeleted, [Next]_vars PROVE Undeleted'
      OBVIOUS
    <2>1. "delete" \notin Commands => NothingDeleted'
      <3> SUFFICES ASSUME "delete" \notin Commands PROVE NothingDeleted'
        OBVIOUS
      <3>1. \A c \in Clients : th[c].walk # "free"
        BY DEF Labelled, ClientAt
      <3>2. \A c \in Clients : ~Strip(c) /\ ~Unlink(c)
        BY <3>1 DEF Labelled, ClientAt, Strip, Unlink, At, Loop, Adding
      <3>3. CASE heap' = heap
        BY <3>3 DEF Undeleted, NothingDeleted
      <3>4. ASSUME NEW c \in Clients, NEW n \in Unused, Linking(c, n) PROVE NothingDeleted'
        <4>1. heap'[n].state = "live"
          <5>1. heap'[n] = [state |-> "live", id |-> th[c].id, next |-> Null,
                            prev |-> IF head = Null THEN Null ELSE th[c].node]
            BY <3>4, LinkingHeap
          <5>. QED BY <5>1
        <4>2. \A m \in Nodes \ {n} : heap'[m].state = heap[m].state
          BY ONLY <3>4, TypeOK, PointersUsed, LinkingHeap
        <4>. QED BY <4>1, <4>2 DEF Undeleted, NothingDeleted
      <3>. QED BY <3>2, <3>3, <3>4, HeapChanges
    <2>2. ASSUME NothingDeleted', NEW d \in Clients
          PROVE  th'[d].pc \notin {"unlink", "countDown", "countDownStore"}
      <3>1. th[d].pc \notin {"unlink", "countDown", "countDownStore"}
        BY <2>2, DeletedStays DEF Undeleted
      <3>2. d \in Threads /\ d # MsgThread
        BY InstancesAssumption DEF Threads
      <3>3. CASE Quiet
        BY <3>1, <3>3 DEF Quiet
      <3>4. ASSUME NEW c \in Clients, NEW op \in Commands, NEW id \in Ids, Issue(c, op, id)
            PROVE  th'[d].pc \notin {"unlink", "countDown", "countDownStore"}
        BY <3>1, <3>2, <3>4, IssueKeeps
      <3>5. ASSUME NEW t \in Threads, Walking(t)
            PROVE  th'[d].pc \notin {"unlink", "countDown", "countDownStore"}
        BY <3>1, <3>2, <3>5, WalkingKeeps
      <3>6. ASSUME NEW t \in Threads, Restore(t)
            PROVE  th'[d].pc \notin {"unlink", "countDown", "countDownStore"}
        BY <3>1, <3>2, <3>6, RestoreKeeps
      <3>7. ASSUME NEW t \in Threads, Lock(t) \/ Unlock(t)
            PROVE  th'[d].pc \notin {"unlink", "countDown", "countDownStore"}
        BY <3>1, <3>2, <3>7, LockKeeps
      <3>8. ASSUME NEW c \in Clients, Acts(c)
            PROVE  th'[d].pc \notin {"unlink", "countDown", "countDownStore"}
        <4>1. CASE d # c
          BY <3>1, <3>2, <3>8, <4>1, ActsKeeps
        <4>2. CASE d = c
          <5>1. ~Strip(c)
            BY <2>2, HeapChanges, StripHeap DEF NothingDeleted
          <5>. QED BY <3>1, <3>8, <4>2, <5>1, ActsKeeps
        <4>. QED BY <4>1, <4>2
      <3>. QED BY <3>3, <3>4, <3>5, <3>6, <3>7, <3>8, Kinds
    <2>. QED BY <2>1, <2>2 DEF Undeleted
  <1>. QED BY <1>1, <1>2, Labelling, Pointing, PTL DEF Spec

-----------------------------------------------------------------------------
(* The count.                                                              *)

\* The clients that have counted an instance they have still to append, that
\* have removed one they have still to discount, and that passed the limit.
Counted == {c \in Clients : th[c].walk = "unique" /\ th[c].pc \notin {"tail", "unlock"}}
Removed == {c \in Clients : th[c].pc \in {"countDown", "countDownStore"}}
Passed  == {c \in Clients : th[c].pc \in {"mutex", "countUp", "countUpStore"}}

\* One client at a time changes the count.
Sound == NothingDeleted \/ Cardinality(Clients) = 1

CountsAll  == count = Cardinality(InUse) + Cardinality(Counted) + Cardinality(Removed)
ReadsFresh == \A c \in Clients : th[c].pc \in {"countUpStore", "countDownStore"} => th[c].read = count
Limited    == count + Cardinality(Passed) < MaxInstances + Cardinality(Clients)

\* The count is that of the nodes and of the clients in between; what a client
\* has read of it is not out of date; every client exceeds the limit by one at most.
Balanced == Sound => CountsAll /\ ReadsFresh /\ Limited

\* The sets are finite, so that they can be counted.
LEMMA Counts ==
  /\ IsFiniteSet(InUse) /\ Cardinality(InUse) \in Nat
  /\ IsFiniteSet(Counted) /\ Cardinality(Counted) \in Nat
  /\ IsFiniteSet(Removed) /\ Cardinality(Removed) \in Nat
  /\ IsFiniteSet(Passed) /\ Cardinality(Passed) \in Nat
  /\ Cardinality(Passed) <= Cardinality(Clients) /\ Cardinality(Clients) \in Nat
  <1>1. /\ InUse \subseteq Nodes /\ Counted \subseteq Clients
        /\ Removed \subseteq Clients /\ Passed \subseteq Clients
    BY DEF InUse, Counted, Removed, Passed
  <1>. QED BY <1>1, InstancesAssumption, FS_Subset, FS_CardinalityType

\* A client that is alone.
LEMMA Alone ==
  ASSUME Cardinality(Clients) = 1, NEW c \in Clients, NEW d \in Clients
  PROVE  c = d
  <1>1. Clients = {c}
    BY InstancesAssumption, FS_Singleton
  <1>. QED BY <1>1

\* A set that gains an element.
LEMMA AddOne ==
  ASSUME NEW S, IsFiniteSet(S), NEW x, x \notin S
  PROVE  Cardinality(S \cup {x}) = Cardinality(S) + 1
  BY FS_AddElement

\* A set that loses an element.
LEMMA TakeOne ==
  ASSUME NEW S, IsFiniteSet(S), NEW x \in S
  PROVE  Cardinality(S \ {x}) = Cardinality(S) - 1
  BY FS_RemoveElement

\* Where one thread steps, the sets of clients change by that thread only.
LEMMA ClientSets ==
  ASSUME NEW t, \A u \in Threads \ {t} : th'[u] = th[u]
  PROVE  /\ Counted' \ {t} = Counted \ {t}
         /\ Removed' \ {t} = Removed \ {t}
         /\ Passed' \ {t} = Passed \ {t}
  <1>1. \A c \in Clients \ {t} : th'[c] = th[c]
    BY DEF Threads
  <1>. QED BY <1>1 DEF Counted, Removed, Passed

\* A step that leaves the count, the nodes in use and the sets as they are.
LEMMA SameCounts ==
  ASSUME Balanced, Sound' => Sound, count' = count, InUse' = InUse,
         Counted' = Counted, Removed' = Removed, Passed' = Passed,
         \A c \in Clients : th'[c].pc \in {"countUpStore", "countDownStore"} =>
                            th'[c].read = count \/ (th'[c].pc = th[c].pc /\ th'[c].read = th[c].read)
  PROVE  Balanced'
  BY DEF Balanced, CountsAll, ReadsFresh, Limited

\* The steps of a command that change the count, or who counts.
LEMMA ActsCounts ==
  ASSUME TypeOK, Labelled, Exclusive, PointersUsed, Undeleted, Balanced, Sound, Sound',
         [Next]_vars, NothingDeleted' => NothingDeleted, NEW c \in Clients, Acts(c)
  PROVE  Balanced'
  <1>1. /\ c \in Threads /\ c # MsgThread
        /\ \A u \in Threads \ {c} : th'[u] = th[u]
    BY ActsKeeps
  <1>2. CountsAll /\ ReadsFresh /\ Limited
    BY DEF Balanced
  <1>3. /\ Counted' \ {c} = Counted \ {c} /\ Removed' \ {c} = Removed \ {c}
        /\ Passed' \ {c} = Passed \ {c}
    BY <1>1, ClientSets
  <1>4. /\ c \in Counted <=> th[c].walk = "unique" /\ th[c].pc \notin {"tail", "unlock"}
        /\ c \in Counted' <=> th'[c].walk = "unique" /\ th'[c].pc \notin {"tail", "unlock"}
        /\ c \in Removed <=> th[c].pc \in {"countDown", "countDownStore"}
        /\ c \in Removed' <=> th'[c].pc \in {"countDown", "countDownStore"}
        /\ c \in Passed <=> th[c].pc \in {"mutex", "countUp", "countUpStore"}
        /\ c \in Passed' <=> th'[c].pc \in {"mutex", "countUp", "countUpStore"}
    BY DEF Counted, Removed, Passed
  <1>5. /\ Cardinality(InUse) \in Nat /\ Cardinality(Counted) \in Nat
        /\ Cardinality(Removed) \in Nat /\ Cardinality(Passed) \in Nat
        /\ Cardinality(Clients) \in Nat /\ MaxInstances \in Nat /\ count \in Int
    BY Counts, InstancesAssumption DEF TypeOK
  <1>6. ASSUME NEW d \in Clients, d # c PROVE th'[d] = th[d]
    BY <1>1, <1>6 DEF Threads
  \* The others have read the count as it is.
  <1>7. ASSUME count' = count, th'[c].pc \notin {"countUpStore", "countDownStore"}
        PROVE  ReadsFresh'
    BY <1>2, <1>6, <1>7 DEF ReadsFresh
  \* The sets are the same unless c enters or leaves one.
  <1>8. ASSUME th'[c].pc \notin {"countUpStore", "countDownStore"}, count' = count, InUse' = InUse,
               c \in Counted' <=> c \in Counted, c \in Removed' <=> c \in Removed,
               c \in Passed' <=> c \in Passed
        PROVE  Balanced'
    <2>1. Counted' = Counted /\ Removed' = Removed /\ Passed' = Passed
      BY <1>3, <1>8
    <2>2. ReadsFresh'
      BY <1>7, <1>8
    <2>. QED BY <1>2, <1>8, <2>1, <2>2 DEF Balanced, CountsAll, Limited
  <1>9. CASE Use(c)
    <2>1. th[c].pc = "use" /\ count' = count /\ InUse' = InUse
      BY <1>9 DEF Use, At, list, InUse
    <2>. QED BY <1>4, <1>8, <2>1, ActsKeeps
  <1>10. CASE Full(c)
    <2>1. th[c].pc = "full" /\ count' = count /\ InUse' = InUse
      BY <1>10 DEF Full, At, list, InUse
    <2>2. CASE th'[c].pc = "idle"
      BY <1>4, <1>8, <2>1, <2>2, ActsKeeps
    <2>3. CASE th'[c].pc = "mutex"
      <3>1. Counted' = Counted /\ Removed' = Removed
        BY <1>3, <1>4, <2>1, <2>3, ActsKeeps
      <3>2. count < MaxInstances
        <4>1. th'[c] = IF count < MaxInstances /\ Cardinality(Creating) < Cardinality(Unused)
                       THEN [Idle EXCEPT !.pc = "mutex", !.op = "new"] ELSE Idle
          BY <1>1, <1>10 DEF Full, TypeOK
        <4>2. Idle.pc = "idle"
          BY DEF Idle
        <4>. QED BY <2>3, <4>1, <4>2
      <3>3. Cardinality(Passed') \in Nat /\ Cardinality(Passed') <= Cardinality(Clients)
        <4>1. Passed' \subseteq Clients
          BY DEF Passed
        <4>. QED BY <4>1, InstancesAssumption, FS_Subset, FS_CardinalityType
      <3>4. CountsAll'
        BY <1>2, <2>1, <3>1 DEF CountsAll
      <3>5. ReadsFresh'
        BY <1>7, <2>1, <2>3
      <3>6. Limited'
        BY <1>5, <2>1, <3>2, <3>3 DEF Limited
      <3>. QED BY <3>4, <3>5, <3>6 DEF Balanced
    <2>. QED BY <2>1, <2>2, <2>3, ActsKeeps
  <1>11. CASE CountUp(c) \/ CountDown(c)
    <2>1. /\ th[c].pc \in {"countUp", "countDown"} /\ count' = count /\ InUse' = InUse
          /\ th'[c].read = count
      BY <1>1, <1>11 DEF CountUp, CountDown, At, list, InUse, TypeOK, ThreadRecord
    <2>2. Counted' = Counted /\ Removed' = Removed /\ Passed' = Passed
      BY <1>3, <1>4, <2>1, ActsKeeps
    <2>3. ReadsFresh'
      BY <1>2, <1>6, <2>1 DEF ReadsFresh
    <2>. QED BY <1>2, <2>1, <2>2, <2>3 DEF Balanced, CountsAll, Limited
  \* No other client is about to store the count.
  <1>12. ASSUME th[c].pc \in {"countUpStore", "countDownStore"}, NEW d \in Clients, d # c
         PROVE  th[d].pc \notin {"countUpStore", "countDownStore"}
    <2>1. CASE Cardinality(Clients) = 1
      BY <1>12, <2>1, Alone
    <2>2. CASE NothingDeleted
      <3>1. th[d].pc # "countDownStore" /\ th[c].pc = "countUpStore"
        BY <1>12, <2>2 DEF Undeleted
      <3>2. mutex = c
        BY <1>1, <3>1 DEF Exclusive, Inside
      <3>3. th[d].pc # "countUpStore"
        BY <1>12, <3>2, InstancesAssumption DEF Exclusive, Inside, Threads
      <3>. QED BY <3>1, <3>3
    <2>. QED BY <2>1, <2>2 DEF Sound
  <1>13. CASE CountUpStore(c)
    <2>1. th[c].pc = "countUpStore" /\ count' = th[c].read + 1 /\ InUse' = InUse
      BY <1>13 DEF CountUpStore, At, list, InUse
    <2>2. count' = count + 1
      BY <1>2, <2>1 DEF ReadsFresh
    <2>3. th'[c].pc = "save" /\ th'[c].walk = "unique" /\ th[c].walk # "unique"
      BY <2>1, ActsKeeps
    <2>4. Counted' = Counted \cup {c} /\ c \notin Counted
      BY <1>3, <1>4, <2>3
    <2>5. Removed' = Removed
      BY <1>3, <1>4, <2>1, <2>3
    <2>6. Passed' = Passed \ {c} /\ c \in Passed
      BY <1>3, <1>4, <2>1, <2>3
    <2>7. Cardinality(Counted') = Cardinality(Counted) + 1
      BY <2>4, Counts, AddOne
    <2>8. Cardinality(Passed') = Cardinality(Passed) - 1
      BY <2>6, Counts, TakeOne
    <2>9. CountsAll'
      BY <1>2, <1>5, <2>1, <2>2, <2>5, <2>7 DEF CountsAll
    <2>10. ReadsFresh'
      BY <1>6, <1>12, <2>1, <2>3 DEF ReadsFresh
    <2>11. Limited'
      BY <1>2, <1>5, <2>2, <2>8 DEF Limited
    <2>. QED BY <2>9, <2>10, <2>11 DEF Balanced
  <1>14. CASE AppendRead(c)
    <2>1. th[c].pc = "append" /\ count' = count /\ InUse' = InUse
      BY <1>14 DEF AppendRead, At, list, InUse
    <2>. QED BY <1>4, <1>8, <2>1, ActsKeeps
  <1>15. ASSUME NEW n \in Unused, Linking(c, n) PROVE Balanced'
    <2>1. th[c].pc = "link" /\ count' = count
      BY <1>15 DEF Linking, At
    <2>2. InUse' = InUse \cup {n} /\ n \notin InUse
      <3>1. n \in Nodes /\ heap[n].state = "unused" /\ heap'[n].state = "live"
        <4>1. heap'[n] = [state |-> "live", id |-> th[c].id, next |-> Null,
                          prev |-> IF head = Null THEN Null ELSE th[c].node]
          BY <1>15, LinkingHeap
        <4>. QED BY <4>1 DEF Unused
      <3>2. \A m \in Nodes \ {n} : heap'[m].state = heap[m].state
        BY ONLY <1>15, c \in Clients, TypeOK, PointersUsed, LinkingHeap
      <3>. QED BY <3>1, <3>2 DEF InUse
    <2>3. Counted' = Counted \ {c} /\ c \in Counted /\ Removed' = Removed /\ Passed' = Passed
      BY <1>3, <1>4, <2>1, ActsKeeps
    <2>4. Cardinality(InUse') = Cardinality(InUse) + 1
      BY <2>2, Counts, AddOne
    <2>5. Cardinality(Counted') = Cardinality(Counted) - 1
      BY <2>3, Counts, TakeOne
    <2>6. CountsAll'
      BY <1>2, <1>5, <2>1, <2>3, <2>4, <2>5 DEF CountsAll
    <2>7. ReadsFresh'
      BY <1>7, <2>1, ActsKeeps
    <2>. QED BY <1>2, <2>1, <2>3, <2>6, <2>7 DEF Balanced, Limited
  <1>16. CASE AppendTail(c)
    <2>1. th[c].pc = "tail" /\ count' = count /\ InUse' = InUse
      BY <1>16 DEF AppendTail, At, InUse
    <2>. QED BY <1>4, <1>8, <2>1, ActsKeeps
  <1>17. CASE Strip(c)
    <2>1. th[c].pc = "strip" /\ count' = count /\ InUse' = InUse
      <3>1. InUse' = InUse
        <4>1. /\ th[c].node \in Nodes /\ heap[th[c].node].state \in {"live", "stripped"}
              /\ heap'[th[c].node].state = "stripped"
              /\ \A m \in Nodes : m # th[c].node => heap'[m] = heap[m]
          BY <1>17, StripHeap
        <4>. QED BY <4>1 DEF InUse
      <3>. QED BY <1>17, <3>1 DEF Strip, At
    <2>. QED BY <1>4, <1>8, <2>1, ActsKeeps
  <1>18. CASE Unlink(c)
    <2>1. th[c].pc = "unlink" /\ count' = count
      BY <1>18 DEF Unlink, At
    <2>2. InUse' = InUse \ {cursor} /\ cursor \in InUse
      <3>1. cursor \in Nodes /\ heap[cursor].state \in {"live", "stripped"}
        BY <1>18, UnlinkHeap
      <3>2. heap'[cursor].state = "freed"
        <4>1. heap'[cursor] = [heap[cursor] EXCEPT !.state = "freed"] /\ heap[cursor] \in NodeRecord
          BY <1>18, <3>1, UnlinkHeap DEF TypeOK
        <4>. QED BY <4>1 DEF NodeRecord
      <3>3. \A m \in Nodes \ {cursor} : heap'[m].state = heap[m].state
        BY ONLY <1>18, c \in Clients, TypeOK, PointersUsed, UnlinkHeap
      <3>. QED BY <3>1, <3>2, <3>3 DEF InUse
    <2>3. Counted' = Counted /\ Passed' = Passed /\ Removed' = Removed \cup {c} /\ c \notin Removed
      BY <1>3, <1>4, <2>1, ActsKeeps
    <2>4. Cardinality(InUse') = Cardinality(InUse) - 1
      BY <2>2, Counts, TakeOne
    <2>5. Cardinality(Removed') = Cardinality(Removed) + 1
      BY <2>3, Counts, AddOne
    <2>6. CountsAll'
      BY <1>2, <1>5, <2>1, <2>3, <2>4, <2>5 DEF CountsAll
    <2>7. ReadsFresh'
      BY <1>7, <2>1, ActsKeeps
    <2>. QED BY <1>2, <2>1, <2>3, <2>6, <2>7 DEF Balanced, Limited
  <1>19. CASE CountDownStore(c)
    <2>1. th[c].pc = "countDownStore" /\ count' = th[c].read - 1 /\ InUse' = InUse
      BY <1>19 DEF CountDownStore, At, list, InUse
    <2>2. count' = count - 1
      BY <1>2, <2>1 DEF ReadsFresh
    <2>3. Counted' = Counted /\ Passed' = Passed /\ Removed' = Removed \ {c} /\ c \in Removed
      BY <1>3, <1>4, <2>1, ActsKeeps
    <2>4. Cardinality(Removed') = Cardinality(Removed) - 1
      BY <2>3, Counts, TakeOne
    <2>5. CountsAll'
      BY <1>2, <1>5, <2>1, <2>2, <2>3, <2>4 DEF CountsAll
    <2>6. ReadsFresh'
      <3>1. th'[c].pc = "restore"
        BY <2>1, ActsKeeps
      <3>. QED BY <1>6, <1>12, <2>1, <3>1 DEF ReadsFresh
    <2>7. Limited'
      BY <1>2, <1>5, <2>2, <2>3 DEF Limited
    <2>. QED BY <2>5, <2>6, <2>7 DEF Balanced
  <1>. QED
    BY <1>9, <1>10, <1>11, <1>13, <1>14, <1>15, <1>16, <1>17, <1>18, <1>19 DEF Acts

\* A walk changes neither the count nor who counts.
LEMMA WalkCounts ==
  ASSUME TypeOK, Labelled, Balanced, Sound' => Sound, NEW t \in Threads,
         Walking(t) \/ Restore(t) \/ Lock(t) \/ Unlock(t)
  PROVE  Balanced'
  <1>1. /\ count' = count /\ heap' = heap
        /\ \A u \in Threads \ {t} : th'[u] = th[u]
    BY WalkingKeeps, RestoreKeeps, LockKeeps DEF list
  <1>2. InUse' = InUse
    BY <1>1 DEF InUse
  <1>3. /\ Counted' \ {t} = Counted \ {t} /\ Removed' \ {t} = Removed \ {t}
        /\ Passed' \ {t} = Passed \ {t}
    BY <1>1, ClientSets
  <1>4. ASSUME NEW d \in Clients, d # t PROVE th'[d] = th[d]
    BY <1>1, <1>4 DEF Threads
  <1>5. CASE t \notin Clients
    <2>1. \A d \in Clients : th'[d] = th[d]
      BY <1>4, <1>5
    <2>2. Counted' = Counted /\ Removed' = Removed /\ Passed' = Passed
      BY <1>3, <1>5 DEF Counted, Removed, Passed
    <2>. QED BY <1>1, <1>2, <2>1, <2>2, SameCounts
  <1>6. CASE t \in Clients
    <2>1. /\ t \in Counted <=> th[t].walk = "unique" /\ th[t].pc \notin {"tail", "unlock"}
          /\ t \in Counted' <=> th'[t].walk = "unique" /\ th'[t].pc \notin {"tail", "unlock"}
          /\ t \in Removed <=> th[t].pc \in {"countDown", "countDownStore"}
          /\ t \in Removed' <=> th'[t].pc \in {"countDown", "countDownStore"}
          /\ t \in Passed <=> th[t].pc \in {"mutex", "countUp", "countUpStore"}
          /\ t \in Passed' <=> th'[t].pc \in {"mutex", "countUp", "countUpStore"}
      BY <1>6 DEF Counted, Removed, Passed
    <2>2. t # MsgThread
      BY <1>6, InstancesAssumption
    <2>3. /\ t \in Counted' <=> t \in Counted
          /\ t \in Removed' <=> t \in Removed
          /\ t \in Passed' <=> t \in Passed
          /\ th'[t].pc \notin {"countUpStore", "countDownStore"}
      <3>1. CASE Walking(t)
        <4>1. /\ th[t].pc \in {"save", "start", "test", "look", "visit", "take", "next", "store"}
              /\ th'[t].pc \in {"start", "test", "look", "visit", "take", "next", "store", "restore",
                               "strip", "unlock", "idle"}
              /\ th'[t].pc = "unlock" => th[t].walk = "messages"
              /\ th'[t].walk = th[t].walk
          BY <3>1, WalkingKeeps
        <4>. QED BY <2>1, <4>1
      <3>2. CASE Restore(t)
        BY <2>1, <3>2, RestoreKeeps
      <3>3. CASE Lock(t) \/ Unlock(t)
        BY <2>1, <2>2, <3>3, LockKeeps
      <3>. QED BY <3>1, <3>2, <3>3
    <2>4. Counted' = Counted /\ Removed' = Removed /\ Passed' = Passed
      BY <1>3, <2>3
    <2>. QED BY <1>1, <1>2, <1>4, <2>3, <2>4, SameCounts
  <1>. QED BY <1>5, <1>6

\* The count is right, as far as it can be, whatever the threads interleave.
LEMMA Balancing == Spec => []Balanced
  <1>1. Init => Balanced
    <2> SUFFICES ASSUME Init PROVE Balanced
      OBVIOUS
    <2>1. PICK n \in Nodes :
            heap = [m \in Nodes |-> [state |-> IF m = n THEN "live" ELSE "unused",
                                   id |-> 1, next |-> Null, prev |-> Null]]
      BY DEF Init
    <2>2. InUse = {n}
      BY <2>1 DEF InUse
    <2>3. \A c \in Clients : th[c].pc = "idle" /\ th[c].walk = "lookup"
      BY InstancesAssumption DEF Init, Idle, Threads
    <2>4. Counted = {} /\ Removed = {} /\ Passed = {}
      BY <2>3 DEF Counted, Removed, Passed
    <2>5. Cardinality(InUse) = 1 /\ Cardinality({}) = 0
      BY <2>2, FS_Singleton, FS_EmptySet
    <2>6. count = 1
      BY DEF Init
    <2>7. Cardinality(Clients) \in Nat /\ Cardinality(Clients) # 0
      BY InstancesAssumption, FS_CardinalityType, FS_EmptySet
    <2>8. CountsAll
      BY <2>4, <2>5, <2>6 DEF CountsAll
    <2>9. ReadsFresh
      BY <2>3 DEF ReadsFresh
    <2>10. Limited
      BY <2>4, <2>5, <2>6, <2>7, InstancesAssumption DEF Limited
    <2>. QED BY <2>8, <2>9, <2>10 DEF Balanced
  <1>2. /\ TypeOK /\ Labelled /\ Exclusive /\ PointersUsed /\ Undeleted /\ Balanced
        /\ [Next]_vars
        => Balanced'
    <2> SUFFICES ASSUME TypeOK, Labelled, Exclusive, PointersUsed, Undeleted, Balanced, [Next]_vars
                 PROVE  Balanced'
      OBVIOUS
    <2>1. NothingDeleted' => NothingDeleted
      BY DeletedStays
    <2>2. Sound' => Sound
      BY <2>1 DEF Sound
    <2>3. CASE Quiet
      <3>1. InUse' = InUse /\ Counted' = Counted /\ Removed' = Removed /\ Passed' = Passed
        BY <2>3 DEF Quiet, list, InUse, Counted, Removed, Passed
      <3>. QED BY <2>2, <2>3, <3>1, SameCounts DEF Quiet
    <2>4. ASSUME NEW c \in Clients, NEW op \in Commands, NEW id \in Ids, Issue(c, op, id)
          PROVE  Balanced'
      <3>1. /\ \A u \in Threads \ {c} : th'[u] = th[u]
            /\ th[c].pc = "idle" /\ th[c].walk # "unique"
            /\ th'[c].pc = "save" /\ th'[c].walk = "lookup"
            /\ UNCHANGED <<list, count>>
        BY <2>4, IssueKeeps
      <3>2. /\ Counted' \ {c} = Counted \ {c} /\ Removed' \ {c} = Removed \ {c}
            /\ Passed' \ {c} = Passed \ {c}
        BY <3>1, ClientSets
      <3>3. Counted' = Counted /\ Removed' = Removed /\ Passed' = Passed
        BY <3>1, <3>2 DEF Counted, Removed, Passed
      <3>4. InUse' = InUse
        BY <3>1 DEF list, InUse
      <3>. QED BY <2>2, <3>1, <3>3, <3>4, SameCounts DEF Threads
    <2>5. ASSUME NEW t \in Threads, Walking(t) \/ Restore(t) \/ Lock(t) \/ Unlock(t)
          PROVE  Balanced'
      BY <2>2, <2>5, WalkCounts
    <2>6. ASSUME NEW c \in Clients, Acts(c) PROVE Balanced'
      <3>1. CASE Sound'
        BY <2>1, <2>2, <2>6, <3>1, ActsCounts
      <3>2. CASE ~Sound'
        BY <3>2 DEF Balanced
      <3>. QED BY <3>1, <3>2
    <2>. QED BY <2>3, <2>4, <2>5, <2>6, Kinds
  <1>. QED BY <1>1, <1>2, Labelling, Exclusion, Pointing, Deleting, PTL DEF Spec

\* Clients that create instances together exceed the limit by one each at most,
\* however many there are and however their steps interleave.
THEOREM Bounded == Spec => []CountBounded
  <1>1. Balanced => CountBounded
    <2> SUFFICES ASSUME Balanced, Sound
                 PROVE  count < MaxInstances + Cardinality(Clients)
      BY DEF CountBounded, Sound
    <2>1. /\ count = Cardinality(InUse) + Cardinality(Counted) + Cardinality(Removed)
          /\ count + Cardinality(Passed) < MaxInstances + Cardinality(Clients)
      BY DEF Balanced, CountsAll, Limited
    <2>. QED BY <2>1, Counts, InstancesAssumption
  <1>. QED BY <1>1, Balancing, PTL

-----------------------------------------------------------------------------
(* The list.                                                               *)

Freed == {n \in Nodes : heap[n].state = "freed"}
Last(s, k) == IF k = 0 THEN Null ELSE s[k]

\* s has the nodes in use, once each, in the order of the list.  The prev pointer
\* of the first can be stale: ll_delete does not reset it.
Lists(s, k) ==
  /\ k \in Nat /\ s \in [1..k -> Nodes]
  /\ \A i \in 1..k : s[i] \in InUse
  /\ \A n \in InUse : \E i \in 1..k : s[i] = n
  /\ \A i, j \in 1..k : s[i] = s[j] => i = j
  /\ head = (IF k = 0 THEN Null ELSE s[1])
  /\ \A i \in 1..k : heap[s[i]].next = IF i < k THEN s[i + 1] ELSE Null
  /\ \A i \in 2..k : heap[s[i]].prev = s[i - 1]
  /\ k > 0 => heap[s[1]].prev \in Freed \cup {Null}

\* The tail is the last node of the list, or a node that another client has freed
\* since; likewise the tail that a client in ll_addv has read.
Ends(s, k) ==
  /\ (\A c \in Clients : th[c].pc # "tail") => tail \in Freed \cup {Last(s, k)}
  /\ \A c \in Clients : th[c].pc \in {"link", "tail"} => th[c].node \in Freed \cup {Last(s, k)}

Ordered == \E s, k : Lists(s, k) /\ Ends(s, k)

\* Linked computes the nodes in use.
LEMMA LinkedInUse ==
  ASSUME NEW s, NEW k, Lists(s, k)
  PROVE  Linked = InUse /\ Cardinality(Linked) = k
  <1> DEFINE m(j) == IF j < k THEN j + 1 ELSE k
             upto(j) == {s[i] : i \in 1..m(j)}
             g == [j \in Nat |-> upto(j)]
             After(S) == {heap[n].next : n \in S} \ {Null}
             r == CHOOSE r : r = [j \in Nat |-> IF j = 0 THEN {head} \ {Null}
                                               ELSE r[j - 1] \cup After(r[j - 1])]
  <1>1. upto(0) = {head} \ {Null}
    BY InstancesAssumption DEF Lists
  <1>2. ASSUME NEW j \in Nat PROVE upto(j + 1) = upto(j) \cup After(upto(j))
    <2>1. \A i \in 1..m(j) : i \in 1..k /\ i \in 1..m(j + 1) /\ m(j) \in Nat
      BY DEF Lists
    <2>2. ASSUME NEW i \in 1..m(j) PROVE heap[s[i]].next # Null => heap[s[i]].next \in upto(j + 1)
      <3>1. heap[s[i]].next # Null => i + 1 \in 1..m(j + 1) /\ heap[s[i]].next = s[i + 1]
        BY <2>1 DEF Lists
      <3> HIDE DEF m
      <3>. QED BY <3>1
    <2>3. ASSUME NEW i \in 1..m(j + 1), i \notin 1..m(j) PROVE s[i] \in After(upto(j))
      <3>1. i \in Nat /\ i - 1 \in 1..m(j) /\ i - 1 < k /\ i - 1 + 1 = i /\ i \in 1..k
        BY <2>3 DEF Lists
      <3>2. s[i] # Null
        <4>1. s[i] \in Nodes
          BY <3>1 DEF Lists
        <4>. QED BY <4>1, InstancesAssumption
      <3>4. i - 1 \in 1..k
        BY <2>1, <3>1
      <3>5. heap[s[i - 1]].next = s[i - 1 + 1]
        BY <3>1, <3>4 DEF Lists
      <3>3. s[i - 1] \in upto(j)
        BY <3>1
      <3> HIDE DEF m, upto
      <3>. QED BY <3>1, <3>2, <3>3, <3>5
    <2> HIDE DEF m
    <2>. QED BY <2>1, <2>2, <2>3
  <1>3. g = [j \in Nat |-> IF j = 0 THEN {head} \ {Null} ELSE g[j - 1] \cup After(g[j - 1])]
    <2> HIDE DEF upto, After
    <2>1. \A j \in Nat : j # 0 => j - 1 \in Nat /\ j - 1 + 1 = j
      OBVIOUS
    <2>2. \A j \in Nat : j # 0 => g[j] = g[j - 1] \cup After(g[j - 1])
      BY <1>2, <2>1
    <2>. QED BY <1>1, <2>1, <2>2
  <1>4. r = [j \in Nat |-> IF j = 0 THEN {head} \ {Null} ELSE r[j - 1] \cup After(r[j - 1])]
    <2> HIDE DEF g, After
    <2>. QED BY <1>3
  <1>5. Linked = r[Cardinality(Nodes)]
    BY DEF Linked
  <1> HIDE DEF r, upto, After
  <1> DEFINE h == [j \in Nat |-> IF j = 0 THEN {head} \ {Null} ELSE r[j - 1] \cup After(r[j - 1])]
  <1>14. \A j \in Nat : h[j] = IF j = 0 THEN {head} \ {Null} ELSE r[j - 1] \cup After(r[j - 1])
    OBVIOUS
  <1>15. r = h
    BY <1>4
  <1> HIDE DEF h
  <1> DEFINE Good == {j \in Nat : r[j] = upto(j)}
  <1>6. 0 \in Good
    BY <1>1, <1>14, <1>15
  <1>7. ASSUME NEW j \in Good PROVE j + 1 \in Good
    <2>1. j \in Nat /\ r[j] = upto(j) /\ j + 1 \in Nat /\ j + 1 # 0 /\ j + 1 - 1 = j
      BY DEF Good
    <2>2. r[j + 1] = IF j + 1 = 0 THEN {head} \ {Null} ELSE r[j + 1 - 1] \cup After(r[j + 1 - 1])
      <3> DEFINE l == j + 1
      <3>1. l \in Nat
        BY <2>1
      <3> HIDE DEF l
      <3>2. r[l] = IF l = 0 THEN {head} \ {Null} ELSE r[l - 1] \cup After(r[l - 1])
        BY <1>14, <1>15, <3>1
      <3>. QED BY <3>2 DEF l
    <2>3. r[j + 1] = upto(j + 1)
      BY <1>2, <2>1, <2>2
    <2>. QED BY <2>1, <2>3 DEF Good
  <1> HIDE DEF Good
  <1>8. Good = Nat
    <2>1. Good \in SUBSET Nat
      BY DEF Good
    <2>. QED BY <1>6, <1>7, <2>1, SetInduction
  <1>9. s \in Injection(1..k, Nodes) /\ s \in Bijection(1..k, InUse)
    <2>1. s \in [1..k -> Nodes] /\ \A i, j \in 1..k : s[i] = s[j] => i = j
      BY DEF Lists
    <2>2. s \in [1..k -> InUse] /\ \A n \in InUse : \E i \in 1..k : s[i] = n
      BY <2>1 DEF Lists
    <2>. QED BY <2>1, <2>2, Fun_IsInj, Fun_IsBij
  <1>10. k <= Cardinality(Nodes) /\ Cardinality(InUse) = k /\ Cardinality(Nodes) \in Nat
    <2>1. k \in Nat /\ IsFiniteSet(1..k) /\ Cardinality(1..k) = k
      BY FS_Interval DEF Lists
    <2>2. Cardinality(Nodes) \in Nat
      BY InstancesAssumption, FS_CardinalityType
    <2>3. k <= Cardinality(Nodes)
      BY <1>9, <2>1, InstancesAssumption, FS_Injection
    <2>4. Cardinality(InUse) = k
      BY <1>9, <2>1, FS_Bijection DEF ExistsBijection
    <2>. QED BY <2>2, <2>3, <2>4
  <1>11. r[Cardinality(Nodes)] = upto(Cardinality(Nodes))
    BY <1>8, <1>10 DEF Good
  <1>12. upto(Cardinality(Nodes)) = {s[i] : i \in 1..k}
    <2>1. m(Cardinality(Nodes)) = k
      BY <1>10 DEF Lists
    <2> HIDE DEF m
    <2>. QED BY <2>1 DEF upto
  <1>13. {s[i] : i \in 1..k} = InUse
    BY DEF Lists
  <1>. QED BY <1>5, <1>10, <1>11, <1>12, <1>13

\* Chain computes their ids in the order of the list.
LEMMA ChainIs ==
  ASSUME NEW s, NEW k, Lists(s, k)
  PROVE  Chain = [i \in 1..k |-> heap[s[i]].id]
  <1> DEFINE node == CHOOSE node : node = [i \in 1..Cardinality(Linked) |->
                                             IF i = 1 THEN head ELSE heap[node[i - 1]].next]
  <1>1. Cardinality(Linked) = k /\ k \in Nat
    <2>1. k \in Nat
      BY DEF Lists
    <2>. QED BY <2>1, LinkedInUse
  <1>2. Chain = [i \in 1..Cardinality(Linked) |-> heap[node[i]].id]
    BY DEF Chain
  <1>3. ASSUME NEW i \in 1..k PROVE s[i] = IF i = 1 THEN head ELSE heap[s[i - 1]].next
    <2>1. i # 1 => i - 1 \in 1..k /\ i - 1 < k /\ i - 1 + 1 = i
      BY <1>1
    <2>2. i = 1 => k # 0
      BY <1>1
    <2>. QED BY <2>1, <2>2 DEF Lists
  <1>4. node = [i \in 1..k |-> IF i = 1 THEN head ELSE heap[node[i - 1]].next]
    <2>1. s = [i \in 1..k |-> s[i]]
      BY DEF Lists
    <2>2. s = [i \in 1..k |-> IF i = 1 THEN head ELSE heap[s[i - 1]].next]
      BY <1>3, <2>1
    <2>. QED BY <1>1, <2>2
  <1> HIDE DEF node
  <1> DEFINE h == [i \in 1..k |-> IF i = 1 THEN head ELSE heap[node[i - 1]].next]
  <1>9. \A i \in 1..k : h[i] = IF i = 1 THEN head ELSE heap[node[i - 1]].next
    OBVIOUS
  <1>10. node = h
    BY <1>4
  <1> HIDE DEF h
  <1> DEFINE Good == {i \in Nat : i \in 1..k => node[i] = s[i]}
  <1>5. 0 \in Good
    OBVIOUS
  <1>6. ASSUME NEW i \in Good PROVE i + 1 \in Good
    <2> SUFFICES ASSUME i + 1 \in 1..k PROVE node[i + 1] = s[i + 1]
      OBVIOUS
    <2>1. i \in Nat /\ i + 1 - 1 = i
      OBVIOUS
    <2>2. node[i + 1] = IF i + 1 = 1 THEN head ELSE heap[node[i + 1 - 1]].next
      BY <1>9, <1>10
    <2>3. s[i + 1] = IF i + 1 = 1 THEN head ELSE heap[s[i + 1 - 1]].next
      BY <1>3
    <2>4. i + 1 # 1 => node[i] = s[i]
      BY <1>1, <2>1
    <2>. QED BY <2>1, <2>2, <2>3, <2>4
  <1> HIDE DEF Good
  <1>7. Good = Nat
    <2>1. Good \in SUBSET Nat
      BY DEF Good
    <2>. QED BY <1>5, <1>6, <2>1, SetInduction
  <1>8. \A i \in 1..k : node[i] = s[i]
    BY <1>1, <1>7 DEF Good
  <1>. QED BY <1>1, <1>2, <1>8

-----------------------------------------------------------------------------
(* The steps that change the list.                                         *)

\* A list node has pointers and an id, and one that is in use has not been freed.
LEMMA Listed ==
  ASSUME TypeOK, NEW s, NEW k, Lists(s, k)
  PROVE  /\ k \in Nat /\ s \in [1..k -> Nodes]
         /\ \A i \in 1..k : s[i] \in Nodes /\ s[i] \notin Freed /\ s[i] \notin Unused /\ s[i] # Null
         /\ Last(s, k) \notin Freed /\ (Last(s, k) = Null <=> k = 0)
         /\ Null \notin Freed
  <1>1. k \in Nat /\ s \in [1..k -> Nodes] /\ \A i \in 1..k : s[i] \in InUse
    BY DEF Lists
  <1>2. \A i \in 1..k : s[i] \in Nodes /\ s[i] \notin Freed /\ s[i] \notin Unused /\ s[i] # Null
    BY <1>1, InstancesAssumption DEF InUse, Freed, Unused
  <1>3. Null \notin Freed
    BY InstancesAssumption DEF Freed
  <1>4. k # 0 => k \in 1..k
    BY <1>1
  <1>. QED BY <1>1, <1>2, <1>3, <1>4 DEF Last

\* ll_addv puts the node at the end of the list.
LEMMA LinkingLists ==
  ASSUME TypeOK, PointersUsed, NEW c \in Clients, NEW n \in Unused, Linking(c, n),
         NEW s, NEW k, Lists(s, k), th[c].node \in Freed \cup {Last(s, k)}
  PROVE  Lists([i \in 1..(k + 1) |-> IF i <= k THEN s[i] ELSE n], k + 1)' /\ Freed' = Freed
  <1> DEFINE z == [i \in 1..(k + 1) |-> IF i <= k THEN s[i] ELSE n]
  <1>1. /\ k \in Nat /\ s \in [1..k -> Nodes]
        /\ \A i \in 1..k : s[i] \in Nodes /\ s[i] \notin Unused
        /\ Last(s, k) \notin Freed /\ (Last(s, k) = Null <=> k = 0)
    BY Listed
  <1>2. /\ n \in Nodes /\ n # Null
        /\ heap[n].state = "unused"
        /\ heap'[n] = [state |-> "live", id |-> th[c].id, next |-> Null,
                       prev |-> IF head = Null THEN Null ELSE th[c].node]
    BY LinkingHeap DEF Unused
  <1>3. \A m \in Nodes \ {n} :
          /\ heap'[m].state = heap[m].state
          /\ heap'[m].id = heap[m].id /\ heap'[m].prev = heap[m].prev
          /\ heap'[m].next = IF m = th[c].node THEN n ELSE heap[m].next
    BY ONLY TypeOK, PointersUsed, c \in Clients, n \in Unused, Linking(c, n), LinkingHeap
  <1>4. th[c].node = Last(s, k)
    BY InstancesAssumption DEF Linking, Allocated, Freed
  <1>5. heap'[n].state = "live" /\ heap'[n].next = Null
    BY <1>2
  <1>6. /\ \A i \in 1..k : z[i] = s[i] /\ s[i] # n
        /\ z[k + 1] = n
        /\ k + 1 \in Nat /\ z \in [1..(k + 1) -> Nodes]
        /\ \A i \in 1..(k + 1) : i \in 1..k \/ i = k + 1
    BY <1>1, <1>2
  <1> HIDE DEF z
  <1>7. InUse' = InUse \cup {n} /\ Freed' = Freed
    BY <1>2, <1>3, <1>5 DEF InUse, Freed
  <1>8. \A i \in 1..(k + 1) : z[i] \in InUse'
    BY <1>6, <1>7 DEF Lists
  <1>9. \A m \in InUse' : \E i \in 1..(k + 1) : z[i] = m
    <2> SUFFICES ASSUME NEW m \in InUse' PROVE \E i \in 1..(k + 1) : z[i] = m
      OBVIOUS
    <2>1. k + 1 \in 1..(k + 1) /\ \A i \in 1..k : i \in 1..(k + 1)
      BY <1>1
    <2>2. m \in InUse => \E i \in 1..k : s[i] = m
      BY DEF Lists
    <2>. QED BY <1>6, <1>7, <2>1, <2>2
  <1>10. \A i, j \in 1..(k + 1) : z[i] = z[j] => i = j
    BY <1>6 DEF Lists
  <1>11. head' = z[1]
    <2>1. CASE k = 0
      <3>1. head = Null
        BY <2>1 DEF Lists
      <3>. QED BY <1>6, <2>1, <3>1 DEF Linking
    <2>2. CASE k # 0
      <3>1. 1 \in 1..k /\ head = s[1]
        BY <1>1, <2>2 DEF Lists
      <3>2. head # Null
        BY <1>1, <3>1, InstancesAssumption
      <3>. QED BY <1>6, <3>1, <3>2 DEF Linking
    <2>. QED BY <2>1, <2>2
  <1>12. ASSUME NEW i \in 1..(k + 1)
         PROVE  heap'[z[i]].next = IF i < k + 1 THEN z[i + 1] ELSE Null
    <2>1. CASE i = k + 1
      BY <1>1, <1>5, <1>6, <2>1
    <2>2. CASE i = k /\ k # 0
      <3>1. z[i] = s[k] /\ s[k] = th[c].node /\ s[k] \in Nodes \ {n} /\ i < k + 1
        BY <1>1, <1>4, <1>6, <2>2 DEF Last
      <3>. QED BY <1>3, <1>6, <2>2, <3>1
    <2>3. CASE i \in 1..k /\ i # k
      <3>1. i < k /\ i < k + 1 /\ i + 1 \in 1..k /\ k \in 1..k /\ k # 0
        BY <1>1, <2>3
      <3>2. s[i] # th[c].node
        BY <1>4, <2>3, <3>1 DEF Lists, Last
      <3>3. heap[s[i]].next = s[i + 1]
        BY <2>3, <3>1 DEF Lists
      <3>4. heap'[s[i]].next = heap[s[i]].next
        BY <1>1, <1>3, <1>6, <2>3, <3>2
      <3>. QED BY <1>6, <2>3, <3>1, <3>3, <3>4
    <2>4. k \in Nat
      BY <1>1
    <2>. QED BY <1>6, <2>1, <2>2, <2>3, <2>4
  <1>13. ASSUME NEW i \in 2..(k + 1) PROVE heap'[z[i]].prev = z[i - 1]
    <2>1. CASE i = k + 1
      <3>1. k # 0 /\ k \in 1..k /\ 1 \in 1..k /\ i - 1 = k
        BY <1>1, <2>1
      <3>2. head # Null
        <4>1. head = s[1]
          BY <3>1 DEF Lists
        <4>. QED BY <1>1, <3>1, <4>1, InstancesAssumption
      <3>3. heap'[n].prev = th[c].node
        BY <1>2, <3>2
      <3>. QED BY <1>4, <1>6, <2>1, <3>1, <3>3 DEF Last
    <2>2. CASE i # k + 1
      <3>1. i \in 1..k /\ i \in 2..k /\ i - 1 \in 1..k
        BY <1>1, <2>2
      <3>2. heap'[s[i]].prev = heap[s[i]].prev
        BY <1>1, <1>3, <1>6, <3>1
      <3>3. heap[s[i]].prev = s[i - 1]
        BY <3>1 DEF Lists
      <3>. QED BY <1>6, <3>1, <3>2, <3>3
    <2>. QED BY <2>1, <2>2
  <1>14. heap'[z[1]].prev \in Freed' \cup {Null}
    <2>1. CASE k = 0
      <3>1. z[1] = n /\ head = Null
        BY <1>6, <2>1 DEF Lists
      <3>2. heap'[n].prev = Null
        BY <1>2, <3>1
      <3>. QED BY <3>1, <3>2
    <2>2. CASE k # 0
      <3>1. 1 \in 1..k /\ k > 0
        BY <1>1, <2>2
      <3>2. heap[s[1]].prev \in Freed \cup {Null}
        BY <3>1 DEF Lists
      <3>3. heap'[s[1]].prev = heap[s[1]].prev
        BY <1>1, <1>3, <1>6, <3>1
      <3>. QED BY <1>6, <1>7, <3>1, <3>2, <3>3
    <2>. QED BY <2>1, <2>2
  <1>15. k + 1 # 0
    BY <1>1
  <1>16. Lists(z, k + 1)'
    BY <1>6, <1>8, <1>9, <1>10, <1>11, <1>12, <1>13, <1>14, <1>15 DEF Lists
  <1>. QED BY <1>7, <1>16 DEF z

\* ll_delete takes a node out of the list.
LEMMA UnlinkLists ==
  ASSUME TypeOK, PointersUsed, NEW c \in Clients, Unlink(c),
         NEW s, NEW k, NEW j \in 1..k, Lists(s, k), s[j] = cursor
  PROVE  /\ Lists([i \in 1..(k - 1) |-> IF i < j THEN s[i] ELSE s[i + 1]], k - 1)'
         /\ Freed' = Freed \cup {cursor}
         /\ tail' = IF j = k THEN (IF k = 1 THEN Null ELSE s[k - 1]) ELSE tail
  <1> DEFINE z == [i \in 1..(k - 1) |-> IF i < j THEN s[i] ELSE s[i + 1]]
             next == heap[cursor].next
             prev == heap[cursor].prev
  <1>1. /\ k \in Nat /\ s \in [1..k -> Nodes]
        /\ \A i \in 1..k : s[i] \in Nodes /\ s[i] \notin Freed /\ s[i] # Null
        /\ j \in 1..k /\ j \in Nat /\ 1 <= j /\ j <= k /\ k # 0 /\ 1 \in 1..k /\ k \in 1..k
    BY Listed
  <1>2. /\ cursor \in Nodes /\ heap[cursor].state \in {"live", "stripped"}
        /\ prev # Null => prev \in Nodes /\ heap[prev].state \in {"live", "stripped"}
        /\ heap'[cursor] = [heap[cursor] EXCEPT !.state = "freed"]
    BY UnlinkHeap
  <1>3. \A m \in Nodes \ {cursor} :
          /\ heap'[m].state = heap[m].state /\ heap'[m].id = heap[m].id
          /\ heap'[m].next = IF m = prev THEN next ELSE heap[m].next
          /\ heap'[m].prev = IF m = next /\ prev # Null THEN prev ELSE heap[m].prev
    BY ONLY TypeOK, PointersUsed, c \in Clients, Unlink(c), UnlinkHeap
  <1>4. heap'[cursor].state = "freed"
    BY <1>2 DEF TypeOK, NodeRecord
  <1>5. InUse' = InUse \ {cursor} /\ Freed' = Freed \cup {cursor}
    <2>1. cursor \in Nodes /\ heap[cursor].state # "freed"
      BY <1>2
    <2>2. \A m \in Nodes : heap'[m].state = IF m = cursor THEN "freed" ELSE heap[m].state
      BY <1>3, <1>4
    <2>3. \A m \in Nodes : m \in InUse' <=> m \in InUse /\ m # cursor
      BY <2>2 DEF InUse
    <2>4. \A m \in Nodes : m \in Freed' <=> m \in Freed \/ m = cursor
      BY <2>2 DEF Freed
    <2>5. InUse \subseteq Nodes /\ InUse' \subseteq Nodes /\ Freed \subseteq Nodes /\ Freed' \subseteq Nodes
      BY DEF InUse, Freed
    <2>. QED BY <2>1, <2>3, <2>4, <2>5
  <1>6. next = IF j < k THEN s[j + 1] ELSE Null
    BY DEF Lists
  <1>7. prev = IF j = 1 THEN Null ELSE s[j - 1]
    <2>1. CASE j = 1
      <3>1. prev \in Freed \cup {Null}
        BY <1>1, <2>1 DEF Lists
      <3>. QED BY <1>2, <2>1, <3>1 DEF Freed
    <2>2. CASE j # 1
      <3>1. j \in 2..k
        BY <1>1, <2>2
      <3>. QED BY <2>2, <3>1 DEF Lists
    <2>. QED BY <2>1, <2>2
  <1>8. /\ head' = IF prev = Null THEN next ELSE head
        /\ tail' = IF next = Null /\ prev = Null THEN Null ELSE IF next = Null THEN prev ELSE tail
    BY DEF Unlink
  <1>9. /\ j # k => j + 1 \in 1..k /\ j < k
        /\ j # 1 => j - 1 \in 1..k
    BY <1>1
  <1>10. (next = Null <=> j = k) /\ (prev = Null <=> j = 1)
    BY <1>1, <1>6, <1>7, <1>9
  <1>11. tail' = IF j = k THEN (IF k = 1 THEN Null ELSE s[k - 1]) ELSE tail
    BY <1>1, <1>7, <1>8, <1>10
  \* The nodes before the one removed keep their places, the others move up by one.
  <1>12. /\ k - 1 \in Nat
         /\ \A i \in 1..(k - 1) : /\ i \in 1..k /\ i + 1 \in 1..k
                                  /\ z[i] = IF i < j THEN s[i] ELSE s[i + 1]
    BY <1>1
  <1>13. z \in [1..(k - 1) -> Nodes]
    BY <1>1, <1>12
  <1> HIDE DEF z, next, prev
  <1>14. \A a, b \in 1..k : s[a] = s[b] => a = b
    BY DEF Lists
  <1>15. \A i \in 1..(k - 1) : z[i] \in InUse'
    <2> SUFFICES ASSUME NEW i \in 1..(k - 1) PROVE z[i] \in InUse'
      OBVIOUS
    <2>1. PICK a \in 1..k : z[i] = s[a] /\ a # j
      BY <1>1, <1>12
    <2>2. s[a] \in InUse /\ s[a] # cursor
      BY <1>14, <2>1 DEF Lists
    <2>. QED BY <1>5, <2>1, <2>2
  <1>16. \A m \in InUse' : \E i \in 1..(k - 1) : z[i] = m
    <2> SUFFICES ASSUME NEW m \in InUse' PROVE \E i \in 1..(k - 1) : z[i] = m
      OBVIOUS
    <2>1. PICK a \in 1..k : s[a] = m /\ a # j
      BY <1>5 DEF Lists
    <2>2. CASE a < j
      <3>1. a \in 1..(k - 1)
        BY <1>1, <2>2
      <3>. QED BY <1>12, <2>1, <2>2, <3>1
    <2>3. CASE a > j
      <3>1. a - 1 \in 1..(k - 1) /\ ~(a - 1 < j) /\ a - 1 + 1 = a
        BY <1>1, <2>3
      <3>. QED BY <1>12, <2>1, <3>1
    <2>. QED BY <1>1, <2>1, <2>2, <2>3
  <1>17. \A a, b \in 1..(k - 1) : z[a] = z[b] => a = b
    <2> SUFFICES ASSUME NEW a \in 1..(k - 1), NEW b \in 1..(k - 1), z[a] = z[b] PROVE a = b
      OBVIOUS
    <2>1. /\ z[a] = IF a < j THEN s[a] ELSE s[a + 1]
          /\ z[b] = IF b < j THEN s[b] ELSE s[b + 1]
          /\ a \in 1..k /\ a + 1 \in 1..k /\ b \in 1..k /\ b + 1 \in 1..k
      BY <1>12
    <2>2. \/ a < j /\ b < j /\ a = b
          \/ a < j /\ ~(b < j) /\ a = b + 1
          \/ ~(a < j) /\ b < j /\ a + 1 = b
          \/ ~(a < j) /\ ~(b < j) /\ a + 1 = b + 1
      BY <1>14, <2>1
    <2>. QED BY <1>1, <2>2
  <1>18. head' = IF k - 1 = 0 THEN Null ELSE z[1]
    <2>1. CASE j = 1
      <3>1. k - 1 # 0 => 1 \in 1..(k - 1) /\ ~(1 < j) /\ 1 + 1 = j + 1 /\ j < k
        BY <1>1, <2>1
      <3>2. k - 1 = 0 => ~(j < k)
        BY <1>1
      <3>. QED BY <1>6, <1>8, <1>10, <1>12, <2>1, <3>1, <3>2
    <2>2. CASE j # 1
      <3>1. k - 1 # 0 /\ 1 \in 1..(k - 1) /\ 1 < j
        BY <1>1, <2>2
      <3>2. head = s[1]
        BY <1>1 DEF Lists
      <3>. QED BY <1>8, <1>10, <1>12, <2>2, <3>1, <3>2
    <2>. QED BY <2>1, <2>2
  <1>19. ASSUME NEW i \in 1..(k - 1)
         PROVE  heap'[z[i]].next = IF i < k - 1 THEN z[i + 1] ELSE Null
    <2>1. i \in 1..k /\ i + 1 \in 1..k /\ i \in Nat /\ i < k
      BY <1>1, <1>12
    <2>2. CASE i < j /\ i # j - 1
      <3>1. z[i] = s[i] /\ s[i] \in Nodes \ {cursor}
        BY <1>1, <1>12, <1>14, <2>2
      <3>2. s[i] # prev
        BY <1>1, <1>7, <1>9, <1>10, <1>14, <2>1, <2>2
      <3>3. heap'[z[i]].next = heap[s[i]].next
        BY <1>3, <3>1, <3>2
      <3>4. heap[s[i]].next = s[i + 1]
        BY <2>1 DEF Lists
      <3>5. i < k - 1 /\ i + 1 \in 1..(k - 1) /\ i + 1 < j
        BY <1>1, <2>1, <2>2
      <3>. QED BY <1>12, <3>3, <3>4, <3>5
    <2>3. CASE i = j - 1
      <3>1. z[i] = s[i] /\ s[i] \in Nodes \ {cursor} /\ i < j /\ j # 1
        BY <1>1, <1>12, <1>14, <2>1, <2>3
      <3>2. s[i] = prev
        BY <1>7, <2>3, <3>1
      <3>3. heap'[z[i]].next = next
        BY <1>3, <3>1, <3>2
      <3>4. CASE j = k
        BY <1>1, <1>10, <2>3, <3>3, <3>4
      <3>5. CASE j # k
        <4>1. j < k /\ i < k - 1 /\ i + 1 = j /\ j \in 1..(k - 1) /\ ~(j < j)
          BY <1>1, <2>3, <3>5
        <4>. QED BY <1>6, <1>12, <3>3, <4>1
      <3>. QED BY <3>4, <3>5
    <2>4. CASE ~(i < j)
      <3>1. z[i] = s[i + 1] /\ s[i + 1] \in Nodes \ {cursor}
        BY <1>1, <1>12, <1>14, <2>1, <2>4
      <3>2. s[i + 1] # prev
        <4>1. i + 1 # j - 1
          BY <1>1, <2>1, <2>4
        <4>. QED BY <1>1, <1>7, <1>9, <1>14, <2>1, <4>1
      <3>3. heap'[z[i]].next = heap[s[i + 1]].next
        BY <1>3, <3>1, <3>2
      <3>4. heap[s[i + 1]].next = IF i + 1 < k THEN s[i + 1 + 1] ELSE Null
        BY <2>1 DEF Lists
      <3>5. (i + 1 < k <=> i < k - 1) /\ (i < k - 1 => i + 1 \in 1..(k - 1) /\ ~(i + 1 < j))
        BY <1>1, <2>1, <2>4
      <3>. QED BY <1>12, <3>3, <3>4, <3>5
    <2>. QED BY <1>1, <2>1, <2>2, <2>3, <2>4
  <1>20. ASSUME NEW i \in 2..(k - 1) PROVE heap'[z[i]].prev = z[i - 1]
    <2>1. /\ i \in 1..(k - 1) /\ i - 1 \in 1..(k - 1) /\ i \in 1..k /\ i + 1 \in 1..k /\ i \in 2..k
          /\ i + 1 \in 2..k /\ i - 1 + 1 = i /\ i + 1 - 1 = i /\ i \in Nat
      BY <1>1, <1>12
    <2>2. CASE i < j
      <3>1. z[i] = s[i] /\ z[i - 1] = s[i - 1] /\ s[i] \in Nodes \ {cursor}
        BY <1>1, <1>12, <1>14, <2>1, <2>2
      <3>2. s[i] # next
        <4>1. i # j + 1
          BY <1>1, <2>1, <2>2
        <4>. QED BY <1>1, <1>6, <1>9, <1>14, <2>1, <4>1
      <3>3. heap'[s[i]].prev = heap[s[i]].prev
        BY <1>3, <3>1, <3>2
      <3>4. heap[s[i]].prev = s[i - 1]
        BY <2>1 DEF Lists
      <3>. QED BY <3>1, <3>3, <3>4
    <2>3. CASE i = j
      <3>1. z[i] = s[i + 1] /\ z[i - 1] = s[i - 1] /\ s[i + 1] \in Nodes \ {cursor}
        BY <1>1, <1>12, <1>14, <2>1, <2>3
      <3>2. j < k /\ j # 1
        BY <1>1, <2>1, <2>3
      <3>3. s[i + 1] = next /\ prev = s[i - 1] /\ prev # Null
        BY <1>6, <1>7, <1>10, <2>3, <3>2
      <3>. QED BY <1>3, <3>1, <3>3
    <2>4. CASE i > j
      <3>1. z[i] = s[i + 1] /\ z[i - 1] = s[i] /\ s[i + 1] \in Nodes \ {cursor}
        BY <1>1, <1>12, <1>14, <2>1, <2>4
      <3>2. s[i + 1] # next
        <4>1. i + 1 # j + 1
          BY <1>1, <2>1, <2>4
        <4>. QED BY <1>1, <1>6, <1>9, <1>14, <2>1, <4>1
      <3>3. heap'[s[i + 1]].prev = heap[s[i + 1]].prev
        BY <1>3, <3>1, <3>2
      <3> DEFINE l == i + 1
      <3>5. l \in 2..k /\ l - 1 = i
        BY <2>1
      <3> HIDE DEF l
      <3>6. heap[s[l]].prev = s[l - 1]
        BY <3>5 DEF Lists
      <3>4. heap[s[i + 1]].prev = s[i]
        BY <3>5, <3>6 DEF l
      <3>. QED BY <3>1, <3>3, <3>4
    <2>. QED BY <1>1, <2>1, <2>2, <2>3, <2>4
  <1>21. k - 1 > 0 => heap'[z[1]].prev \in Freed' \cup {Null}
    <2> SUFFICES ASSUME k - 1 > 0 PROVE heap'[z[1]].prev \in Freed' \cup {Null}
      OBVIOUS
    <2>1. 1 \in 1..(k - 1) /\ 1 + 1 \in 2..k /\ 1 + 1 \in 1..k /\ 1 + 1 - 1 = 1
      BY <1>1
    <2>2. CASE j = 1
      <3>1. z[1] = s[1 + 1] /\ s[1 + 1] \in Nodes \ {cursor}
        BY <1>1, <1>12, <1>14, <2>1, <2>2
      <3>2. heap[s[1 + 1]].prev = cursor
        BY <2>1, <2>2 DEF Lists
      <3>3. heap'[s[1 + 1]].prev = heap[s[1 + 1]].prev
        BY <1>3, <1>10, <2>2, <3>1
      <3>. QED BY <1>5, <3>1, <3>2, <3>3
    <2>3. CASE j # 1
      <3>1. z[1] = s[1] /\ s[1] \in Nodes \ {cursor}
        BY <1>1, <1>12, <1>14, <2>1, <2>3
      <3>2. s[1] # next
        <4>1. j + 1 # 1
          BY <1>1
        <4>. QED BY <1>1, <1>6, <1>9, <1>14, <4>1
      <3>3. heap'[s[1]].prev = heap[s[1]].prev
        BY <1>3, <3>1, <3>2
      <3>4. heap[s[1]].prev \in Freed \cup {Null}
        BY <1>1 DEF Lists
      <3>. QED BY <1>5, <3>1, <3>3, <3>4
    <2>. QED BY <2>2, <2>3
  <1>22. Lists(z, k - 1)'
    BY <1>12, <1>13, <1>15, <1>16, <1>17, <1>18, <1>19, <1>20, <1>21 DEF Lists
  <1>. QED BY <1>5, <1>11, <1>22 DEF z


\* free_instance_members leaves the list as it is.
LEMMA StripLists ==
  ASSUME TypeOK, PointersUsed, NEW c \in Clients, Strip(c), NEW s, NEW k, Lists(s, k)
  PROVE  /\ Lists(s, k)' /\ Freed' = Freed
         /\ \A i \in 1..k : heap'[s[i]].id = heap[s[i]].id
  <1>1. /\ th[c].node \in Nodes /\ heap[th[c].node].state \in {"live", "stripped"}
        /\ heap'[th[c].node].state = "stripped"
        /\ \A m \in Nodes : /\ m # th[c].node => heap'[m] = heap[m]
                            /\ heap'[m].id = heap[m].id /\ heap'[m].next = heap[m].next
                            /\ heap'[m].prev = heap[m].prev
    BY StripHeap
  <1>2. InUse' = InUse /\ Freed' = Freed
    BY <1>1 DEF InUse, Freed
  <1>3. head' = head
    BY DEF Strip
  <1>4. \A i \in 1..k : /\ heap'[s[i]].next = heap[s[i]].next
                        /\ heap'[s[i]].prev = heap[s[i]].prev
                        /\ heap'[s[i]].id = heap[s[i]].id
    BY <1>1 DEF Lists
  <1>5. k \in Nat /\ (\A i \in 2..k : i \in 1..k) /\ (k > 0 => 1 \in 1..k)
    BY DEF Lists
  <1>6. \A i \in 2..k : heap'[s[i]].prev = s[i - 1]
    BY <1>4, <1>5 DEF Lists
  <1>7. k > 0 => heap'[s[1]].prev \in Freed' \cup {Null}
    BY <1>2, <1>4, <1>5 DEF Lists
  <1>8. \A i \in 1..k : heap'[s[i]].next = IF i < k THEN s[i + 1] ELSE Null
    BY <1>4 DEF Lists
  <1>9. Lists(s, k)'
    BY <1>2, <1>3, <1>6, <1>7, <1>8 DEF Lists
  <1>. QED BY <1>2, <1>4, <1>9

\* One client at a time is in the part of new_instance after the search.
LEMMA OneAdds ==
  ASSUME Labelled, Exclusive, NEW c \in Clients, NEW d \in Clients,
         th[c].pc \in Adding, th[d].pc \in Adding
  PROVE  c = d
  <1>1. th[c].walk = "unique" /\ th[d].walk = "unique"
    BY DEF Labelled, ClientAt, Adding, Loop, Freeing
  <1>2. c \in Threads /\ d \in Threads /\ c # MsgThread /\ d # MsgThread
    BY InstancesAssumption DEF Threads
  <1>. QED BY <1>1, <1>2 DEF Exclusive, Inside

\* The steps that leave the list as it is, and do not begin or end an append,
\* and those that do.
LEMMA ListChanges ==
  ASSUME TypeOK, Labelled, [Next]_vars
  PROVE  \/ /\ UNCHANGED list
            /\ \A d \in Clients : /\ th'[d].pc \in {"link", "tail"} => th'[d] = th[d]
                                  /\ th[d].pc = "tail" => th'[d] = th[d]
         \/ \E c \in Clients : AppendRead(c)
         \/ \E c \in Clients, n \in Unused : Linking(c, n)
         \/ \E c \in Clients : AppendTail(c)
         \/ \E c \in Clients : Strip(c)
         \/ \E c \in Clients : Unlink(c)
  <1> DEFINE Calm == /\ UNCHANGED list
                     /\ \A d \in Clients : /\ th'[d].pc \in {"link", "tail"} => th'[d] = th[d]
                                           /\ th[d].pc = "tail" => th'[d] = th[d]
  <1>1. CASE Quiet
    BY <1>1 DEF Quiet
  <1>2. ASSUME NEW t \in Threads, \A u \in Threads \ {t} : th'[u] = th[u], UNCHANGED list,
               t # MsgThread => th[t].pc # "tail" /\ th'[t].pc \notin {"link", "tail"}
        PROVE  Calm
    <2> SUFFICES ASSUME NEW d \in Clients
                 PROVE  /\ th'[d].pc \in {"link", "tail"} => th'[d] = th[d]
                        /\ th[d].pc = "tail" => th'[d] = th[d]
      BY <1>2
    <2>1. d \in Threads /\ d # MsgThread
      BY InstancesAssumption DEF Threads
    <2>. QED BY <1>2, <2>1
  <1>3. ASSUME NEW c \in Clients, NEW op \in Commands, NEW id \in Ids, Issue(c, op, id) PROVE Calm
    BY <1>2, <1>3, IssueKeeps
  <1>4. ASSUME NEW t \in Threads, Walking(t) PROVE Calm
    BY <1>2, <1>4, WalkingKeeps
  <1>5. ASSUME NEW t \in Threads, Restore(t) PROVE Calm
    <2>1. UNCHANGED list
      BY <1>5 DEF Restore
    <2>2. th'[t].pc \notin {"link", "tail"} /\ th[t].pc # "tail"
      BY <1>5, RestoreKeeps
    <2>. QED BY <1>2, <1>5, <2>1, <2>2, RestoreKeeps
  <1>6. ASSUME NEW t \in Threads, Lock(t) \/ Unlock(t) PROVE Calm
    BY <1>2, <1>6, LockKeeps
  <1>7. ASSUME NEW c \in Clients,
               Use(c) \/ Full(c) \/ CountUp(c) \/ CountUpStore(c) \/ CountDown(c) \/ CountDownStore(c)
        PROVE  Calm
    <2>1. UNCHANGED list
      BY <1>7 DEF Use, Full, CountUp, CountUpStore, CountDown, CountDownStore
    <2>2. th[c].pc \in {"use", "full", "countUp", "countUpStore", "countDown", "countDownStore"}
      BY <1>7 DEF Use, Full, CountUp, CountUpStore, CountDown, CountDownStore, At
    <2>3. Acts(c)
      BY <1>7 DEF Acts
    <2>4. c \in Threads /\ (\A u \in Threads \ {c} : th'[u] = th[u])
      BY <2>3, ActsKeeps
    <2>5. th'[c].pc \notin {"link", "tail"}
      BY <2>2, <2>3, ActsKeeps
    <2>. QED BY <1>2, <2>1, <2>2, <2>4, <2>5
  <1>. QED BY <1>1, <1>3, <1>4, <1>5, <1>6, <1>7, Kinds DEF Acts

\* The list and its end are an invariant.
LEMMA Ordering == Spec => []Ordered
  <1>1. Init => Ordered
    <2> SUFFICES ASSUME Init PROVE Ordered
      OBVIOUS
    <2>1. PICK n \in Nodes :
            /\ heap = [m \in Nodes |-> [state |-> IF m = n THEN "live" ELSE "unused",
                                       id |-> 1, next |-> Null, prev |-> Null]]
            /\ head = n /\ tail = n
      BY DEF Init
    <2> DEFINE s == [i \in 1..1 |-> n]
    <2>2. InUse = {n}
      BY <2>1 DEF InUse
    <2>3. \A c \in Clients : th[c].pc = "idle"
      BY InstancesAssumption DEF Init, Idle, Threads
    <2>4. Lists(s, 1)
      BY <2>1, <2>2 DEF Lists
    <2>5. Ends(s, 1)
      BY <2>1, <2>3 DEF Ends, Last
    <2>. QED BY <2>4, <2>5 DEF Ordered
  <1>2. TypeOK /\ Labelled /\ Exclusive /\ PointersUsed /\ Ordered /\ [Next]_vars => Ordered'
    <2> SUFFICES ASSUME TypeOK, Labelled, Exclusive, PointersUsed, Ordered, [Next]_vars PROVE Ordered'
      OBVIOUS
    <2>1. PICK s, k : Lists(s, k) /\ Ends(s, k)
      BY DEF Ordered
    <2>2. ASSUME UNCHANGED list,
                 \A d \in Clients : /\ th'[d].pc \in {"link", "tail"} => th'[d] = th[d]
                                    /\ th[d].pc = "tail" => th'[d] = th[d]
          PROVE  Ordered'
      <3>1. InUse' = InUse /\ Freed' = Freed /\ heap' = heap /\ head' = head /\ tail' = tail
        BY <2>2 DEF list, InUse, Freed
      <3>2. Lists(s, k)'
        BY <2>1, <3>1 DEF Lists
      <3>3. Ends(s, k)'
        BY <2>1, <2>2, <3>1 DEF Ends, Last
      <3>. QED BY <3>2, <3>3 DEF Ordered
    \* What a step of c does to the other clients, when it appends.
    <2>3. ASSUME NEW c \in Clients, Acts(c), th[c].pc \in Adding, NEW d \in Clients, d # c
          PROVE  th'[d] = th[d] /\ th[d].pc \notin Adding
      <3>1. th'[d] = th[d]
        BY <2>3, ActsKeeps DEF Threads
      <3>. QED BY <2>3, <3>1, OneAdds
    <2>4. ASSUME NEW c \in Clients, AppendRead(c) PROVE Ordered'
      <3>1. th[c].pc \in Adding /\ th[c].pc # "tail" /\ Acts(c) /\ UNCHANGED list
        BY <2>4 DEF AppendRead, At, Adding, Acts
      <3>2. InUse' = InUse /\ Freed' = Freed /\ heap' = heap /\ head' = head /\ tail' = tail
        BY <3>1 DEF list, InUse, Freed
      <3>3. Lists(s, k)'
        BY <2>1, <3>2 DEF Lists
      <3>4. tail \in Freed \cup {Last(s, k)}
        BY <2>1, <2>3, <3>1 DEF Ends, Adding
      <3>5. th'[c].node = tail
        BY <2>4 DEF AppendRead, TypeOK, ThreadRecord, Threads
      <3>6. Ends(s, k)'
        BY <2>3, <3>1, <3>2, <3>4, <3>5 DEF Ends, Adding, Last
      <3>. QED BY <3>3, <3>6 DEF Ordered
    <2>5. ASSUME NEW c \in Clients, NEW n \in Unused, Linking(c, n) PROVE Ordered'
      <3>1. th[c].pc = "link" /\ Acts(c)
        BY <2>5 DEF Linking, At, Acts
      <3>2. th[c].node \in Freed \cup {Last(s, k)}
        BY <2>1, <3>1 DEF Ends
      <3> DEFINE z == [i \in 1..(k + 1) |-> IF i <= k THEN s[i] ELSE n]
      <3>3. Lists(z, k + 1)' /\ Freed' = Freed
        BY <2>1, <2>5, <3>2, LinkingLists
      <3>4. k \in Nat
        BY <2>1 DEF Lists
      <3>5. z[k + 1] = n /\ k + 1 # 0
        BY <3>4
      <3> HIDE DEF z
      <3>6. th'[c].node = n /\ th'[c].pc = "tail"
        BY <2>5 DEF Linking, TypeOK, ThreadRecord, Threads
      <3>7. \A d \in Clients : d # c => th'[d].pc \notin {"link", "tail"}
        BY <2>3, <3>1 DEF Adding
      <3>8. Ends(z, k + 1)'
        BY <3>5, <3>6, <3>7 DEF Ends, Last
      <3>. QED BY <3>3, <3>8 DEF Ordered
    <2>6. ASSUME NEW c \in Clients, AppendTail(c) PROVE Ordered'
      <3>1. th[c].pc = "tail" /\ Acts(c) /\ heap' = heap /\ head' = head /\ tail' = th[c].node
        BY <2>6 DEF AppendTail, At, Acts
      <3>2. InUse' = InUse /\ Freed' = Freed
        BY <3>1 DEF InUse, Freed
      <3>3. Lists(s, k)'
        BY <2>1, <3>1, <3>2 DEF Lists
      <3>4. th'[c].pc = "unlock"
        BY <2>6 DEF AppendTail, Goto, TypeOK, ThreadRecord, Threads
      <3>5. \A d \in Clients : d # c => th'[d].pc \notin {"link", "tail"}
        BY <2>3, <3>1 DEF Adding
      <3>6. tail' \in Freed \cup {Last(s, k)}
        BY <2>1, <3>1 DEF Ends
      <3>7. Ends(s, k)'
        BY <3>2, <3>4, <3>5, <3>6 DEF Ends, Last
      <3>. QED BY <3>3, <3>7 DEF Ordered
    <2>7. ASSUME NEW c \in Clients, Strip(c) PROVE Ordered'
      <3>1. Lists(s, k)' /\ Freed' = Freed
        BY <2>1, <2>7, StripLists
      <3>3. tail' = tail /\ Acts(c) /\ th[c].pc = "strip"
        BY <2>7 DEF Strip, Acts, At
      <3>6. th'[c].pc = "unlink"
        BY <2>7 DEF Strip, Goto, TypeOK, ThreadRecord, Threads
      <3>7. \A d \in Clients : d # c => th'[d] = th[d]
        BY <3>3, ActsKeeps DEF Threads
      <3>8. Ends(s, k)'
        BY <2>1, <3>1, <3>3, <3>6, <3>7 DEF Ends, Last
      <3>. QED BY <3>1, <3>8 DEF Ordered
    <2>8. ASSUME NEW c \in Clients, Unlink(c) PROVE Ordered'
      <3>1. th[c].pc = "unlink" /\ Acts(c)
        BY <2>8 DEF Unlink, At, Acts
      <3>2. cursor \in InUse
        BY <2>8, UnlinkHeap DEF InUse
      <3>3. PICK j \in 1..k : s[j] = cursor
        BY <2>1, <3>2 DEF Lists
      <3> DEFINE z == [i \in 1..(k - 1) |-> IF i < j THEN s[i] ELSE s[i + 1]]
      <3>4. /\ Lists(z, k - 1)' /\ Freed' = Freed \cup {cursor}
            /\ tail' = IF j = k THEN (IF k = 1 THEN Null ELSE s[k - 1]) ELSE tail
        BY <2>1, <2>8, <3>3, UnlinkLists
      <3>5. k \in Nat /\ k # 0
        BY <2>1, <3>3 DEF Lists
      <3>6. Last(z, k - 1) = IF k = 1 THEN Null ELSE IF j = k THEN s[k - 1] ELSE s[k]
        <4>1. CASE k = 1
          BY <4>1 DEF Last
        <4>2. CASE k # 1
          <5>1. k - 1 # 0 /\ k - 1 \in 1..(k - 1) /\ k - 1 + 1 = k /\ (k - 1 < j <=> j = k)
            BY <3>5, <4>2
          <5>2. z[k - 1] = IF j = k THEN s[k - 1] ELSE s[k]
            BY <5>1
          <5>. QED BY <4>2, <5>1, <5>2 DEF Last
        <4>. QED BY <4>1, <4>2
      <3>7. k = 1 => j = k
        BY <3>5
      <3>8. Last(s, k) = s[k] /\ (j = k => s[k] = cursor)
        BY <3>3, <3>5 DEF Last
      <3> HIDE DEF z
      <3>9. th'[c].pc = "countDown"
        BY <2>8 DEF Unlink, Goto, TypeOK, ThreadRecord, Threads
      <3>10. \A d \in Clients : d # c => th'[d] = th[d]
        BY <3>1, ActsKeeps DEF Threads
      <3>11. Freed \cup {Last(s, k)} \subseteq Freed' \cup {Last(z, k - 1)}
        BY <3>4, <3>6, <3>7, <3>8
      <3>12. (\A d \in Clients : th'[d].pc # "tail") => tail' \in Freed' \cup {Last(z, k - 1)}
        <4> SUFFICES ASSUME \A d \in Clients : th'[d].pc # "tail"
                     PROVE  tail' \in Freed' \cup {Last(z, k - 1)}
          OBVIOUS
        <4>1. \A d \in Clients : th[d].pc # "tail"
          BY <3>1, <3>10
        <4>2. tail \in Freed \cup {Last(s, k)}
          BY <2>1, <4>1 DEF Ends
        <4>. QED BY <3>4, <3>6, <3>7, <3>11, <4>2
      <3>13. \A d \in Clients : th'[d].pc \in {"link", "tail"} =>
                                th'[d].node \in Freed' \cup {Last(z, k - 1)}
        BY <2>1, <3>9, <3>10, <3>11 DEF Ends
      <3>14. Ends(z, k - 1)'
        BY <3>12, <3>13 DEF Ends, Last
      <3>. QED BY <3>4, <3>14 DEF Ordered
    <2>. QED BY <2>2, <2>4, <2>5, <2>6, <2>7, <2>8, ListChanges
  <1>. QED BY <1>1, <1>2, Labelling, Exclusion, Pointing, PTL DEF Spec


\* As long as no instance has been deleted the list is intact whenever no client
\* holds the mutex to append to it (ll_addv, new_instance), for any number of
\* clients, nodes and instances and however their walks move the cursor.
THEOREM Intact == Spec => []ListIntact
  <1>1. TypeOK /\ Labelled /\ Exclusive /\ Ordered => ListIntact
    <2> SUFFICES ASSUME TypeOK, Labelled, Exclusive, Ordered, NothingDeleted, mutex \notin Clients
                 PROVE  /\ Linked = Nodes \ Unused
                        /\ \A n \in Linked : /\ heap[n].next = Null <=> n = tail
                                             /\ heap[n].prev = Null <=> n = head
                                             /\ heap[n].next # Null => heap[heap[n].next].prev = n
      BY DEF ListIntact
    <2>1. PICK s, k : Lists(s, k) /\ Ends(s, k)
      BY DEF Ordered
    <2>2. Freed = {} /\ InUse = Nodes \ Unused
      BY DEF NothingDeleted, Freed, InUse, Unused
    <2>3. Linked = InUse
      BY <2>1, LinkedInUse
    <2>4. \A c \in Clients : th[c].pc # "tail"
      <3>1. \A c \in Clients : th[c].walk # "unique"
        BY InstancesAssumption DEF Exclusive, Inside, Threads
      <3>. QED BY <3>1 DEF Labelled, ClientAt, Loop, Freeing
    <2>5. tail = Last(s, k)
      BY <2>1, <2>2, <2>4 DEF Ends
    <2>6. ASSUME NEW n \in Linked
          PROVE  /\ heap[n].next = Null <=> n = tail
                 /\ heap[n].prev = Null <=> n = head
                 /\ heap[n].next # Null => heap[heap[n].next].prev = n
      <3>1. PICK i \in 1..k : s[i] = n
        BY <2>1, <2>3 DEF Lists
      <3>2. /\ k \in Nat /\ k > 0 /\ 1 \in 1..k /\ k \in 1..k /\ i \in 1..k
            /\ (i < k <=> i # k) /\ (i < k => i + 1 \in 1..k /\ i + 1 \in 2..k /\ i + 1 - 1 = i)
            /\ (i # 1 => i \in 2..k /\ i - 1 \in 1..k)
        BY <2>1, <3>1 DEF Lists
      <3>3. \A j \in 1..k : s[j] # Null
        BY <2>1, Listed
      <3>4. \A a, b \in 1..k : s[a] = s[b] => a = b
        BY <2>1 DEF Lists
      <3>5. /\ head = s[1] /\ tail = s[k]
            /\ heap[n].next = IF i < k THEN s[i + 1] ELSE Null
        <4>1. tail = s[k]
          BY <2>5, <3>2 DEF Last
        <4>2. head = s[1]
          BY <2>1, <3>2 DEF Lists
        <4>3. heap[s[i]].next = IF i < k THEN s[i + 1] ELSE Null
          BY <2>1, <3>2 DEF Lists
        <4>. QED BY <3>1, <4>1, <4>2, <4>3
      <3>6. heap[n].prev = IF i = 1 THEN Null ELSE s[i - 1]
        BY <2>1, <2>2, <3>1, <3>2 DEF Lists
      <3>7. i < k => heap[s[i + 1]].prev = n
        <4> DEFINE l == i + 1
        <4>1. i < k => l \in 2..k /\ l - 1 = i
          BY <3>2
        <4> HIDE DEF l
        <4>2. i < k => heap[s[l]].prev = s[l - 1]
          BY <2>1, <4>1 DEF Lists
        <4>. QED BY <3>1, <4>1, <4>2 DEF l
      <3>8. heap[n].next = Null <=> n = tail
        BY <3>1, <3>2, <3>3, <3>4, <3>5
      <3>9. heap[n].prev = Null <=> n = head
        BY <3>1, <3>2, <3>3, <3>4, <3>5, <3>6
      <3>10. heap[n].next # Null => heap[heap[n].next].prev = n
        BY <3>5, <3>7
      <3>. QED BY <3>8, <3>9, <3>10
    <2>. QED BY <2>2, <2>3, <2>6
  <1>. QED BY <1>1, Labelling, Exclusion, Ordering, PTL

\* instance_count is the length of the list whenever no client is creating or
\* deleting an instance (instance_count++ and -- around ll_addv and ll_delete).
THEOREM Length == Spec => []CountIsLength
  <1>1. TypeOK /\ Exclusive /\ Ordered /\ Balanced => CountIsLength
    <2> SUFFICES ASSUME TypeOK, Exclusive, Ordered, Balanced, Sound, mutex \notin Clients,
                        \A c \in Clients : th[c].pc \notin {"countDown", "countDownStore"}
                 PROVE  count = Cardinality(Linked)
      BY DEF CountIsLength, Sound
    <2>1. Linked = InUse
      BY LinkedInUse DEF Ordered
    <2>2. Removed = {}
      BY DEF Removed
    <2>3. Counted = {}
      BY InstancesAssumption DEF Exclusive, Inside, Threads, Counted
    <2>4. count = Cardinality(InUse) + Cardinality(Counted) + Cardinality(Removed)
      BY DEF Balanced, CountsAll
    <2>5. Cardinality({}) = 0 /\ Cardinality(InUse) \in Nat
      BY Counts, FS_EmptySet
    <2>. QED BY <2>1, <2>2, <2>3, <2>4, <2>5
  <1>. QED BY <1>1, Labelling, Exclusion, Ordering, Balancing, PTL

-----------------------------------------------------------------------------
(* The search for a free id.                                               *)

\* The walk has reached p, and no node before p has the id.
Checked(p, id) ==
  \E s, k : /\ Lists(s, k)
            /\ \E i \in 1..(k + 1) : /\ p = IF i <= k THEN s[i] ELSE Null
                                     /\ \A j \in 1..k : j < i => heap[s[j]].id # id

Taken(id) == \E n \in InUse : heap[n].id = id

\* What client c has found when it is at a label of the search: all smaller ids
\* are taken, and the nodes the walk has left behind do not have this one.
Searched(c) ==
  LET id == th[c].id
      pc == th[c].pc
      node == th[c].node
  IN  /\ \A smaller \in 1..(id - 1) : Taken(smaller)
      /\ pc \in {"test", "look", "take", "next"} => Checked(cursor, id)
      /\ pc \in {"look", "take", "next"} => cursor # Null
      /\ pc = "take" => heap[cursor].id = id
      /\ pc = "next" => heap[cursor].id # id
      /\ pc = "store" => Checked(node, id)
      /\ pc = "restore" => IF node = Null THEN Checked(Null, id) ELSE Taken(id)
      /\ pc \in {"append", "link"} => Checked(Null, id)

\* For a client that has no other client beside it.
Searching ==
  Cardinality(Clients) = 1 =>
    \A c \in Clients : th[c].walk = "unique" /\ th[c].pc \notin {"tail", "unlock"} => Searched(c)

\* The walk begins at the head, where nothing has been left behind.
LEMMA CheckedHead ==
  ASSUME Ordered, NEW id
  PROVE  Checked(head, id)
  <1>1. PICK s, k : Lists(s, k)
    BY DEF Ordered
  <1>2. k \in Nat /\ 1 \in 1..(k + 1) /\ head = (IF 1 <= k THEN s[1] ELSE Null)
    BY <1>1 DEF Lists
  <1>3. \A j \in 1..k : ~(j < 1)
    BY <1>2
  <1>. QED BY <1>1, <1>2, <1>3 DEF Checked

\* The cursor of a walk is in use until it is NULL.
LEMMA CheckedInUse ==
  ASSUME NEW p, NEW id, Checked(p, id), p # Null
  PROVE  p \in InUse
  <1>1. PICK s, k : Lists(s, k) /\ \E i \in 1..(k + 1) : p = IF i <= k THEN s[i] ELSE Null
    BY DEF Checked
  <1>2. PICK i \in 1..(k + 1) : p = IF i <= k THEN s[i] ELSE Null
    BY <1>1
  <1>3. k \in Nat
    BY <1>1 DEF Lists
  <1>4. i \in 1..k
    BY <1>2, <1>3
  <1>. QED BY <1>1, <1>2, <1>3, <1>4 DEF Lists

\* The walk goes on to the next node.
LEMMA CheckedNext ==
  ASSUME NEW p, NEW id, Checked(p, id), p # Null, heap[p].id # id
  PROVE  Checked(heap[p].next, id)
  <1>1. PICK s, k : /\ Lists(s, k)
                    /\ \E i \in 1..(k + 1) : /\ p = IF i <= k THEN s[i] ELSE Null
                                             /\ \A j \in 1..k : j < i => heap[s[j]].id # id
    BY DEF Checked
  <1>2. PICK i \in 1..(k + 1) : /\ p = IF i <= k THEN s[i] ELSE Null
                                /\ \A j \in 1..k : j < i => heap[s[j]].id # id
    BY <1>1
  <1>3. k \in Nat
    BY <1>1 DEF Lists
  <1>4. i \in 1..k /\ p = s[i] /\ i + 1 \in 1..(k + 1) /\ (i < k <=> i + 1 <= k)
    BY <1>2, <1>3
  <1>5. heap[p].next = IF i + 1 <= k THEN s[i + 1] ELSE Null
    BY <1>1, <1>4 DEF Lists
  <1>6. \A j \in 1..k : j < i + 1 => heap[s[j]].id # id
    <2> SUFFICES ASSUME NEW j \in 1..k, j < i + 1 PROVE heap[s[j]].id # id
      OBVIOUS
    <2>1. j < i \/ j = i
      BY <1>3, <1>4
    <2>. QED BY <1>2, <1>4, <2>1
  <1>. QED BY <1>1, <1>4, <1>5, <1>6 DEF Checked

\* At the end of the walk no node in use has the id.
LEMMA CheckedAll ==
  ASSUME NEW id, Checked(Null, id)
  PROVE  ~Taken(id)
  <1>1. PICK s, k : /\ Lists(s, k)
                    /\ \E i \in 1..(k + 1) : /\ Null = IF i <= k THEN s[i] ELSE Null
                                             /\ \A j \in 1..k : j < i => heap[s[j]].id # id
    BY DEF Checked
  <1>2. PICK i \in 1..(k + 1) : /\ Null = IF i <= k THEN s[i] ELSE Null
                                /\ \A j \in 1..k : j < i => heap[s[j]].id # id
    BY <1>1
  <1>3. k \in Nat /\ \A j \in 1..k : s[j] \in Nodes
    BY <1>1 DEF Lists
  <1>4. i = k + 1
    BY <1>2, <1>3, InstancesAssumption
  <1>5. \A j \in 1..k : heap[s[j]].id # id
    BY <1>2, <1>3, <1>4
  <1>. QED BY <1>1, <1>5 DEF Lists, Taken

\* While the list does not change, neither does what was found of it.
LEMMA CheckedStays ==
  ASSUME heap' = heap, head' = head
  PROVE  /\ \A p, id : Checked(p, id)' <=> Checked(p, id)
         /\ \A id : Taken(id)' <=> Taken(id)
  <1>1. InUse' = InUse /\ Freed' = Freed
    BY DEF InUse, Freed
  <1>2. \A s, k : Lists(s, k)' <=> Lists(s, k)
    BY <1>1 DEF Lists
  <1>. QED BY <1>1, <1>2 DEF Checked, Taken

\* Not all ids below the limit are taken when a client has counted the instance
\* it creates, if it is alone.
LEMMA SomeIdFree ==
  ASSUME TypeOK, Balanced, Cardinality(Clients) = 1, NEW c \in Counted,
         \A id \in 1..MaxInstances : Taken(id)
  PROVE  FALSE
  <1>1. count = Cardinality(InUse) + Cardinality(Counted) + Cardinality(Removed)
        /\ count + Cardinality(Passed) < MaxInstances + Cardinality(Clients)
    BY DEF Balanced, Sound, CountsAll, Limited
  <1>2. Cardinality(Counted) # 0
    BY Counts, FS_EmptySet
  <1>3. Cardinality(InUse) < MaxInstances
    BY <1>1, <1>2, Counts, InstancesAssumption
  <1> DEFINE f == [id \in 1..MaxInstances |-> CHOOSE n \in InUse : heap[n].id = id]
  <1>4. \A id \in 1..MaxInstances : f[id] \in InUse /\ heap[f[id]].id = id
    BY DEF Taken
  <1>5. f \in [1..MaxInstances -> InUse]
    BY <1>4
  <1> HIDE DEF f
  <1>6. f \in Injection(1..MaxInstances, InUse)
    BY <1>4, <1>5, Fun_IsInj
  <1>7. Cardinality(1..MaxInstances) = MaxInstances
    BY InstancesAssumption, FS_Interval
  <1>8. Cardinality(1..MaxInstances) <= Cardinality(InUse)
    BY <1>6, Counts, FS_Injection
  <1>. QED BY <1>3, <1>7, <1>8, Counts, InstancesAssumption

\* While a client is in new_instance after the count, nobody else steps that could
\* matter to it: the message thread waits for the mutex, and there is no other client.
LEMMA AloneInside ==
  ASSUME TypeOK, Labelled, Exclusive, Cardinality(Clients) = 1, NEW c \in Clients,
         th'[c].walk = "unique", [Next]_vars
  PROVE  \/ /\ UNCHANGED list
            /\ th'[c] = th[c] /\ cursor' = cursor
         \/ Walking(c) /\ th[c].walk = "unique"
         \/ Restore(c) /\ th[c].walk = "unique"
         \/ CountUpStore(c) \/ AppendRead(c)
         \/ (\E n \in Unused : Linking(c, n)) \/ AppendTail(c)
  <1>1. c \in Threads /\ c # MsgThread
    BY InstancesAssumption DEF Threads
  <1>2. CASE Quiet
    BY <1>2 DEF Quiet
  <1>3. ASSUME NEW d \in Clients, NEW op \in Commands, NEW id \in Ids, Issue(d, op, id) PROVE FALSE
    <2>1. d = c
      BY Alone
    <2>. QED BY <1>3, <2>1, IssueKeeps
  \* The message thread.
  <1>4. ASSUME NEW t \in Threads, t # c, Walking(t) \/ Restore(t) \/ Lock(t) \/ Unlock(t) PROVE FALSE
    <2>1. t = MsgThread
      BY <1>4, Alone DEF Threads
    <2>2. th'[c] = th[c]
      BY <1>1, <1>4, WalkingKeeps, RestoreKeeps, LockKeeps
    <2>3. mutex = c
      BY <1>1, <2>2 DEF Exclusive, Inside
    <2>4. th[MsgThread].pc = "begin"
      BY <1>1, <2>1, <2>3 DEF Exclusive, Inside
    <2>5. ~Walking(t)
      BY <1>4, <2>1, <2>4, WalkingKeeps
    <2>6. ~Restore(t)
      BY <1>4, <2>1, <2>4, RestoreKeeps
    <2>7. mutex # Nobody
      BY <1>1, <2>3, InstancesAssumption
    <2>. QED BY <1>4, <2>1, <2>4, <2>5, <2>6, <2>7, LockKeeps
  <1>5. CASE Walking(c)
    BY <1>1, <1>5, WalkingKeeps
  <1>6. CASE Restore(c)
    BY <1>1, <1>6, RestoreKeeps
  <1>7. ~(Lock(c) \/ Unlock(c))
    BY <1>1, LockKeeps
  <1>8. CASE Acts(c)
    BY <1>8, ActsKeeps
  <1>9. \A d \in Clients : d = c
    BY Alone
  <1>. QED BY <1>2, <1>3, <1>4, <1>5, <1>6, <1>7, <1>8, <1>9, Kinds

\* The search of a client that is alone finds what it should.
LEMMA SearchingKept ==
  ASSUME TypeOK, Labelled, Exclusive, PointersUsed, Ordered, Balanced, Searching, [Next]_vars
  PROVE  Searching'
  <1> SUFFICES ASSUME Cardinality(Clients) = 1, NEW c \in Clients,
                      th'[c].walk = "unique", th'[c].pc \notin {"tail", "unlock"}
               PROVE  Searched(c)'
    BY DEF Searching
  <1>1. c \in Threads /\ c # MsgThread /\ th \in [Threads -> ThreadRecord] /\ th[c] \in ThreadRecord
    BY InstancesAssumption DEF TypeOK, Threads
  <1>2. ASSUME th[c].walk = "unique", th[c].pc \notin {"tail", "unlock"}
        PROVE  /\ \A smaller \in 1..(th[c].id - 1) : Taken(smaller)
               /\ th[c].pc \in {"test", "look", "take", "next"} => Checked(cursor, th[c].id)
               /\ th[c].pc \in {"look", "take", "next"} => cursor # Null
               /\ th[c].pc = "take" => heap[cursor].id = th[c].id
               /\ th[c].pc = "next" => heap[cursor].id # th[c].id
               /\ th[c].pc = "store" => Checked(th[c].node, th[c].id)
               /\ th[c].pc = "restore" => IF th[c].node = Null THEN Checked(Null, th[c].id)
                                          ELSE Taken(th[c].id)
               /\ th[c].pc \in {"append", "link"} => Checked(Null, th[c].id)
    BY <1>2 DEF Searching, Searched
  <1>3. ASSUME UNCHANGED list
        PROVE  /\ \A p, id : Checked(p, id)' <=> Checked(p, id)
               /\ \A id : Taken(id)' <=> Taken(id)
               /\ heap' = heap /\ head' = head
    BY <1>3, CheckedStays DEF list
  <1>4. CASE UNCHANGED list /\ th'[c] = th[c] /\ cursor' = cursor
    BY <1>2, <1>3, <1>4 DEF Searched
  <1>5. ASSUME Walking(c), th[c].walk = "unique" PROVE Searched(c)'
    <2>1. /\ th'[c].id = th[c].id /\ UNCHANGED list
          /\ th[c].pc \in {"save", "start", "test", "look", "visit", "take", "next", "store"}
      BY <1>1, <1>5, WalkingKeeps
    <2>2. \A smaller \in 1..(th'[c].id - 1) : Taken(smaller)'
      BY <1>2, <1>3, <1>5, <2>1
    <2>3. CASE Save(c)
      <3>1. th'[c].pc = "start"
        BY <1>1, <2>3 DEF Save, ThreadRecord
      <3>. QED BY <2>2, <3>1 DEF Searched
    <2>4. CASE Start(c)
      <3>1. th'[c].pc = "test" /\ cursor' = head
        BY <1>1, <2>4 DEF Start, Goto, ThreadRecord
      <3>2. Checked(head, th[c].id)
        BY CheckedHead
      <3>. QED BY <1>3, <2>1, <2>2, <3>1, <3>2 DEF Searched
    <2>5. CASE Test(c)
      <3>1. Checked(cursor, th[c].id) /\ cursor' = cursor
        BY <1>2, <1>5, <2>5 DEF Test, At
      <3>2. CASE cursor # Null
        <4>1. th'[c].pc = "look"
          BY <1>1, <2>5, <3>2 DEF Test, Goto, ThreadRecord
        <4>. QED BY <1>3, <2>1, <2>2, <3>1, <3>2, <4>1 DEF Searched
      <3>3. CASE cursor = Null
        <4>1. th'[c] = [th[c] EXCEPT !.pc = AfterLoop("unique"), !.node = Null]
          BY <1>1, <1>5, <2>5, <3>3 DEF Test
        <4>2. th'[c].pc = "restore" /\ th'[c].node = Null
          BY <1>1, <4>1 DEF AfterLoop, ThreadRecord
        <4>. QED BY <1>3, <2>1, <2>2, <3>1, <3>3, <4>2 DEF Searched
      <3>. QED BY <3>2, <3>3
    <2>6. CASE Look(c)
      <3>1. Checked(cursor, th[c].id) /\ cursor # Null /\ cursor' = cursor
        BY <1>2, <1>5, <2>6 DEF Look, At
      <3>2. th'[c].pc = IF heap[cursor].id = th[c].id THEN "take" ELSE "next"
        <4>1. th'[c] = [th[c] EXCEPT !.node = cursor,
                                     !.pc = AfterLook("unique", heap[cursor].id = th[c].id)]
          BY <1>1, <1>5, <2>6 DEF Look
        <4>2. th'[c].pc = AfterLook("unique", heap[cursor].id = th[c].id)
          BY <1>1, <4>1 DEF ThreadRecord
        <4>. QED BY <4>2 DEF AfterLook
      <3>. QED BY <1>3, <2>1, <2>2, <3>1, <3>2 DEF Searched
    <2>7. CASE Visit(c)
      <3>1. th[c].pc = "visit"
        BY <2>7 DEF Visit, At
      <3>. QED BY <1>5, <3>1 DEF Labelled, ClientAt, Loop, Adding
    <2>8. CASE Take(c)
      <3>1. Checked(cursor, th[c].id) /\ cursor # Null /\ heap[cursor].id = th[c].id
        BY <1>2, <1>5, <2>8 DEF Take, At
      <3>2. th'[c].pc = "restore" /\ th'[c].node = cursor
        BY <1>1, <2>8 DEF Take, ThreadRecord
      <3>3. Taken(th[c].id)
        BY <3>1, CheckedInUse DEF Taken
      <3>. QED BY <1>3, <2>1, <2>2, <3>1, <3>2, <3>3 DEF Searched
    <2>9. CASE Advance(c)
      <3>1. Checked(cursor, th[c].id) /\ cursor # Null /\ heap[cursor].id # th[c].id
        BY <1>2, <1>5, <2>9 DEF Advance, At
      <3>2. th'[c].pc = "store" /\ th'[c].node = heap[cursor].next
        BY <1>1, <2>9 DEF Advance, ThreadRecord
      <3>3. Checked(heap[cursor].next, th[c].id)
        BY <3>1, CheckedNext
      <3>. QED BY <1>3, <2>1, <2>2, <3>2, <3>3 DEF Searched
    <2>10. CASE Store(c)
      <3>1. Checked(th[c].node, th[c].id)
        BY <1>2, <1>5, <2>10 DEF Store, At
      <3>2. th'[c].pc = "test" /\ cursor' = th[c].node
        BY <1>1, <2>10 DEF Store, Goto, ThreadRecord
      <3>. QED BY <1>3, <2>1, <2>2, <3>1, <3>2 DEF Searched
    <2>. QED BY <1>5, <2>3, <2>4, <2>5, <2>6, <2>7, <2>8, <2>9, <2>10 DEF Walking
  <1>6. ASSUME Restore(c), th[c].walk = "unique" PROVE Searched(c)'
    <2>1. /\ th[c].pc = "restore" /\ UNCHANGED list
          /\ \/ /\ th[c].node = Null
                /\ th'[c].pc = "append" /\ th'[c].id = th[c].id
             \/ /\ th[c].node # Null
                /\ th'[c].pc = (IF th[c].id < MaxInstances THEN "save" ELSE "append")
                /\ th'[c].id = th[c].id + 1
      BY <1>1, <1>6, RestoreKeeps
    <2>2. /\ \A smaller \in 1..(th[c].id - 1) : Taken(smaller)
          /\ IF th[c].node = Null THEN Checked(Null, th[c].id) ELSE Taken(th[c].id)
      BY <1>2, <1>6, <2>1
    <2>3. CASE th[c].node = Null
      BY <1>3, <2>1, <2>2, <2>3 DEF Searched
    <2>4. CASE th[c].node # Null
      <3>1. th[c].id \in Nat /\ th[c].id >= 1 /\ th[c].id <= MaxInstances /\ MaxInstances \in Nat
        <4>1. th[c].id \in Ids /\ th[c].id <= MaxInstances
          BY <1>1, <1>6, <2>1 DEF ThreadRecord, Labelled, ClientAt, Adding
        <4>. QED BY <4>1, InstancesAssumption DEF Ids
      <3>2. \A smaller \in 1..th[c].id : Taken(smaller)
        <4>1. \A smaller \in 1..th[c].id : smaller \in 1..(th[c].id - 1) \/ smaller = th[c].id
          BY <3>1
        <4>. QED BY <2>2, <2>4, <4>1
      <3>3. th[c].id # MaxInstances
        <4>1. c \in Counted
          BY <1>6, <2>1 DEF Counted
        <4>. QED BY <3>2, <4>1, SomeIdFree
      <3>4. th'[c].pc = "save" /\ th'[c].id - 1 = th[c].id
        BY <2>1, <2>4, <3>1, <3>3
      <3>5. \A smaller \in 1..(th'[c].id - 1) : Taken(smaller)'
        BY <1>3, <2>1, <3>2, <3>4
      <3>. QED BY <3>4, <3>5 DEF Searched
    <2>. QED BY <2>3, <2>4
  <1>7. CASE CountUpStore(c)
    <2> DEFINE w == Walk(c, "unique", 1)
    <2>1. th'[c] = [w EXCEPT !.read = 0]
      BY <1>1, <1>7 DEF CountUpStore
    <2>2. w \in ThreadRecord /\ w.pc = "save" /\ w.id = 1
      <3>1. 1 \in Ids /\ "unique" \in Walks
        BY IdleTyped DEF Walks
      <3>. QED BY <1>1, <3>1, WalkBegins
    <2> HIDE DEF w
    <2>3. th'[c].pc = "save" /\ th'[c].id = 1
      BY <2>1, <2>2 DEF ThreadRecord
    <2>. QED BY <2>3 DEF Searched
  <1>8. CASE AppendRead(c)
    <2>1. th[c].pc = "append" /\ th[c].walk = "unique" /\ UNCHANGED list
      <3>1. th[c].pc = "append"
        BY <1>8 DEF AppendRead, At
      <3>2. th[c].walk = "unique"
        BY <3>1 DEF Labelled, ClientAt, Loop, Freeing
      <3>. QED BY <1>8, <3>1, <3>2 DEF AppendRead
    <2>2. th'[c].pc = "link" /\ th'[c].id = th[c].id
      BY <1>1, <1>8 DEF AppendRead, ThreadRecord
    <2>. QED BY <1>2, <1>3, <2>1, <2>2 DEF Searched
  <1>9. ~(\E n \in Unused : Linking(c, n)) /\ ~AppendTail(c)
    BY <1>1, ActsKeeps DEF Acts, Linking, AppendTail, At
  <1>. QED BY <1>4, <1>5, <1>6, <1>7, <1>8, <1>9, AloneInside

\* A client that is alone searches soundly: all smaller ids are taken, and no node the
\* walk has left behind has the id it looks for.
LEMMA SearchingIs == Spec => []Searching
  <1>1. Init => Searching
    <2> SUFFICES ASSUME Init PROVE Searching
      OBVIOUS
    <2>1. \A c \in Clients : th[c].walk = "lookup"
      BY InstancesAssumption DEF Init, Idle, Threads
    <2>. QED BY <2>1 DEF Searching
  <1>. QED BY <1>1, SearchingKept, Labelling, Exclusion, Pointing, Ordering, Balancing, PTL DEF Spec


-----------------------------------------------------------------------------
(* The refinement.                                                         *)

\* The chain of a list, in this state.
LEMMA ChainNow == \A s, k : Lists(s, k) => Chain = [i \in 1..k |-> heap[s[i]].id]
  BY ChainIs

\* The chain of a list in the next state.
LEMMA ChainNext == (\A s, k : Lists(s, k) => Chain = [i \in 1..k |-> heap[s[i]].id])'
  BY ChainNow, PTL

\* What Append does to a sequence written as a function.
LEMMA Appending ==
  ASSUME NEW k \in Nat, NEW f \in [1..k -> Ids], NEW id \in Ids
  PROVE  /\ Len(f) = k
         /\ Append(f, id) = [i \in 1..(k + 1) |-> IF i <= k THEN f[i] ELSE id]
  <1>1. f \in Seq(Ids) /\ Len(f) = k
    OBVIOUS
  <1> DEFINE g == [i \in 1..(k + 1) |-> IF i <= k THEN f[i] ELSE id]
  <1>2. \A i \in 1..(k + 1) : g[i] \in Ids
    OBVIOUS
  <1>3. g \in Seq(Ids) /\ Len(g) = k + 1
    BY <1>2
  <1>4. /\ Append(f, id) \in Seq(Ids) /\ Len(Append(f, id)) = k + 1
        /\ \A i \in 1..k : Append(f, id)[i] = f[i]
        /\ Append(f, id)[k + 1] = id
    BY <1>1, AppendProperties
  <1>5. \A i \in 1..(k + 1) : Append(f, id)[i] = g[i]
    <2> SUFFICES ASSUME NEW i \in 1..(k + 1) PROVE Append(f, id)[i] = g[i]
      OBVIOUS
    <2>1. i \in 1..k \/ i = k + 1
      OBVIOUS
    <2>. QED BY <1>4, <2>1
  <1> HIDE DEF g
  <1>6. Append(f, id) = g
    BY <1>3, <1>4, <1>5, SeqEqual
  <1>. QED BY <1>1, <1>6 DEF g

\* What RemoveAt does to a sequence written as a function.
LEMMA Removing ==
  ASSUME NEW k \in Nat, NEW f \in [1..k -> Ids], NEW j \in 1..k
  PROVE  Abstract!RemoveAt(f, j) = [i \in 1..(k - 1) |-> IF i < j THEN f[i] ELSE f[i + 1]]
  <1>1. f \in Seq(Ids) /\ Len(f) = k
    OBVIOUS
  <1> DEFINE a == SubSeq(f, 1, j - 1)
             b == SubSeq(f, j + 1, k)
             g == [i \in 1..(k - 1) |-> IF i < j THEN f[i] ELSE f[i + 1]]
  <1>2. /\ a \in Seq(Ids) /\ Len(a) = j - 1
        /\ \A i \in 1..(j - 1) : a[i] = f[i]
    <2>1. /\ 1 \in Int /\ j - 1 \in Int /\ \A i \in 1..(j - 1) : f[i] \in Ids
          /\ (1 <= j - 1 <=> j # 1) /\ j - 1 - 1 + 1 = j - 1
      OBVIOUS
    <2>2. /\ a \in Seq(Ids) /\ Len(a) = IF 1 <= j - 1 THEN j - 1 - 1 + 1 ELSE 0
          /\ \A i \in 1..(j - 1 - 1 + 1) : a[i] = f[1 + i - 1]
      BY <2>1, SubSeqProperties
    <2>. QED BY <2>1, <2>2
  <1>3. /\ b \in Seq(Ids) /\ Len(b) = k - j
        /\ \A i \in 1..(k - j) : b[i] = f[j + i]
    <2>1. /\ j + 1 \in Int /\ k \in Int /\ \A i \in (j + 1)..k : f[i] \in Ids
          /\ k - (j + 1) + 1 = k - j
      OBVIOUS
    <2>2. /\ b \in Seq(Ids) /\ Len(b) = IF j + 1 <= k THEN k - (j + 1) + 1 ELSE 0
          /\ \A i \in 1..(k - (j + 1) + 1) : b[i] = f[j + 1 + i - 1]
      BY <2>1, SubSeqProperties
    <2>3. \A i \in 1..(k - j) : j + 1 + i - 1 = j + i
      OBVIOUS
    <2>. QED BY <2>1, <2>2, <2>3
  <1> HIDE DEF a, b
  <1>4. /\ a \o b \in Seq(Ids) /\ Len(a \o b) = k - 1
        /\ \A i \in 1..(k - 1) : (a \o b)[i] = IF i <= j - 1 THEN a[i] ELSE b[i - (j - 1)]
    <2>1. /\ a \o b \in Seq(Ids) /\ Len(a \o b) = Len(a) + Len(b)
          /\ \A i \in 1..(Len(a) + Len(b)) :
               (a \o b)[i] = IF i <= Len(a) THEN a[i] ELSE b[i - Len(a)]
      BY <1>2, <1>3, ConcatProperties
    <2>2. Len(a) + Len(b) = k - 1
      BY <1>2, <1>3
    <2>. QED BY <1>2, <2>1, <2>2
  <1>5. \A i \in 1..(k - 1) : (a \o b)[i] = g[i]
    <2> SUFFICES ASSUME NEW i \in 1..(k - 1) PROVE (a \o b)[i] = g[i]
      OBVIOUS
    <2>1. CASE i < j
      BY <1>2, <1>4, <2>1
    <2>2. CASE ~(i < j)
      <3>1. /\ i - (j - 1) \in 1..(k - j) /\ j + (i - (j - 1)) = i + 1 /\ ~(i <= j - 1)
        BY <2>2
      <3>2. (a \o b)[i] = b[i - (j - 1)]
        BY <1>4, <3>1
      <3>3. b[i - (j - 1)] = f[j + (i - (j - 1))]
        BY <1>3, <3>1
      <3>. QED BY <2>2, <3>1, <3>2, <3>3
    <2>. QED BY <2>1, <2>2
  <1>6. g \in Seq(Ids) /\ Len(g) = k - 1
    <2>1. \A i \in 1..(k - 1) : g[i] \in Ids
      OBVIOUS
    <2>2. k - 1 \in Nat
      OBVIOUS
    <2>. QED BY <2>1, <2>2
  <1> HIDE DEF g
  <1>7. a \o b = g
    BY <1>4, <1>5, <1>6, SeqEqual
  <1>8. Abstract!RemoveAt(f, j) = a \o b
    BY <1>1 DEF Abstract!RemoveAt, a, b
  <1>. QED BY <1>7, <1>8 DEF g


\* ll_addv adds the instance that new_instance creates, below the limit that the
\* creating clients share, and with the first free id if the client is alone.
LEMMA LinkingCreates ==
  ASSUME TypeOK, Labelled, PointersUsed, Ordered, Balanced, Searching, Sound,
         NEW c \in Clients, NEW n \in Unused, Linking(c, n)
  PROVE  \E id \in Abstract!Ids : Abstract!Create(id)
  <1> DEFINE id == th[c].id
  <1>1. PICK s, k : Lists(s, k) /\ Ends(s, k)
    BY DEF Ordered
  <1>2. /\ th[c].pc = "link" /\ th[c].walk = "unique" /\ c \in Counted
        /\ id \in Ids
    <2>1. th[c].pc = "link" /\ c \in Threads
      BY DEF Linking, At, Threads
    <2>2. th[c].walk = "unique"
      BY <2>1 DEF Labelled, ClientAt, Loop, Freeing
    <2>3. id \in Ids
      BY <2>1 DEF TypeOK, ThreadRecord
    <2>. QED BY <2>1, <2>2, <2>3 DEF Counted
  <1>3. th[c].node \in Freed \cup {Last(s, k)}
    BY <1>1, <1>2 DEF Ends
  <1> DEFINE z == [i \in 1..(k + 1) |-> IF i <= k THEN s[i] ELSE n]
             f == [i \in 1..k |-> heap[s[i]].id]
  <1>4. Lists(z, k + 1)'
    BY <1>1, <1>3, LinkingLists
  <1>5. Chain = f /\ Chain' = [i \in 1..(k + 1) |-> heap'[z[i]].id]
    BY <1>1, <1>4, ChainNow, ChainNext
  <1>6. k \in Nat /\ \A i \in 1..k : s[i] \in Nodes /\ s[i] \in InUse
    BY <1>1 DEF Lists
  <1>7. f \in [1..k -> Ids]
    BY <1>6 DEF TypeOK, NodeRecord
  <1>8. /\ heap'[n] = [state |-> "live", id |-> id, next |-> Null,
                       prev |-> IF head = Null THEN Null ELSE th[c].node]
        /\ \A m \in Nodes \ {n} : heap'[m].id = heap[m].id
    BY ONLY TypeOK, PointersUsed, c \in Clients, n \in Unused, Linking(c, n), LinkingHeap
  <1>9. heap'[n].id = id
    BY <1>8
  <1>10. \A i \in 1..k : heap'[s[i]].id = f[i]
    BY <1>6, <1>8 DEF Unused, InUse
  <1>11. Chain' = [i \in 1..(k + 1) |-> IF i <= k THEN f[i] ELSE id]
    <2>1. \A i \in 1..(k + 1) : heap'[z[i]].id = IF i <= k THEN f[i] ELSE id
      <3> SUFFICES ASSUME NEW i \in 1..(k + 1) PROVE heap'[z[i]].id = IF i <= k THEN f[i] ELSE id
        OBVIOUS
      <3>1. z[i] = IF i <= k THEN s[i] ELSE n
        OBVIOUS
      <3>2. i <= k => i \in 1..k
        BY <1>6
      <3> HIDE DEF z, f, id
      <3>. QED BY <1>9, <1>10, <3>1, <3>2
    <2> HIDE DEF z, f, id
    <2>. QED BY <1>5, <2>1
  <1> HIDE DEF f, z
  <1>12. Chain' = Append(Chain, id) /\ Len(Chain) = k
    BY <1>2, <1>5, <1>6, <1>7, <1>11, Appending
  <1>13. k < MaxInstances + Cardinality(Clients) - 1
    <2>1. k = Cardinality(InUse)
      BY <1>1, LinkedInUse
    <2>2. /\ count = Cardinality(InUse) + Cardinality(Counted) + Cardinality(Removed)
          /\ count + Cardinality(Passed) < MaxInstances + Cardinality(Clients)
      BY DEF Balanced, CountsAll, Limited
    <2>3. Cardinality(Counted) # 0
      BY <1>2, Counts, FS_EmptySet
    <2>. QED BY <2>1, <2>2, <2>3, Counts, InstancesAssumption
  <1>14. Abstract!Range(Chain) = {heap[m].id : m \in InUse}
    <2>1. Abstract!Range(Chain) = {heap[s[i]].id : i \in 1..k}
      BY <1>5 DEF Abstract!Range, f
    <2>. QED BY <1>1, <2>1 DEF Lists
  <1>15. ASSUME Cardinality(Clients) = 1 PROVE Abstract!LeastFree(id)
    <2>1. Searched(c)
      BY <1>2, <1>15 DEF Searching
    <2>2. (\A smaller \in 1..(id - 1) : Taken(smaller)) /\ ~Taken(id)
      BY <1>2, <2>1, CheckedAll DEF Searched
    <2> HIDE DEF id
    <2>. QED BY <1>2, <1>14, <2>2 DEF Abstract!LeastFree, Abstract!Free, Abstract!Ids, Ids, Taken
  <1>16. id \in Abstract!Ids
    BY <1>2 DEF Ids, Abstract!Ids
  <1> HIDE DEF id
  <1>17. Abstract!Cardinality(Clients) = Cardinality(Clients)
    BY DEF Abstract!Cardinality, Cardinality
  <1>. QED BY <1>12, <1>13, <1>15, <1>16, <1>17 DEF Abstract!Create

\* ll_delete removes one instance of the list.
LEMMA UnlinkDeletes ==
  ASSUME TypeOK, PointersUsed, Ordered, NEW c \in Clients, Unlink(c)
  PROVE  \E j \in DOMAIN Chain : Abstract!Delete(j)
  <1>1. PICK s, k : Lists(s, k)
    BY DEF Ordered
  <1>2. cursor \in InUse /\ \A m \in Nodes \ {cursor} : heap'[m].id = heap[m].id
    BY UnlinkHeap DEF InUse
  <1>3. PICK j \in 1..k : s[j] = cursor
    BY <1>1, <1>2 DEF Lists
  <1> DEFINE z == [i \in 1..(k - 1) |-> IF i < j THEN s[i] ELSE s[i + 1]]
             f == [i \in 1..k |-> heap[s[i]].id]
  <1>4. Lists(z, k - 1)'
    BY <1>1, <1>3, UnlinkLists
  <1>5. Chain = f /\ Chain' = [i \in 1..(k - 1) |-> heap'[z[i]].id]
    <2>1. Chain = f
      BY <1>1, ChainNow
    <2> DEFINE l == k - 1
    <2> HIDE DEF z, l
    <2>2. Lists(z, l)'
      BY <1>4 DEF l
    <2>3. Chain' = [i \in 1..l |-> heap'[z[i]].id]
      BY <2>2, ChainNext
    <2>. QED BY <2>1, <2>3 DEF l
  <1>6. /\ k \in Nat /\ \A i \in 1..k : s[i] \in Nodes
        /\ \A a, b \in 1..k : s[a] = s[b] => a = b
    BY <1>1 DEF Lists
  <1>7. f \in [1..k -> Ids]
    BY <1>6 DEF TypeOK, NodeRecord
  <1>8. \A i \in 1..k : i # j => heap'[s[i]].id = f[i]
    BY <1>2, <1>3, <1>6
  <1>9. Chain' = [i \in 1..(k - 1) |-> IF i < j THEN f[i] ELSE f[i + 1]]
    <2>1. \A i \in 1..(k - 1) : heap'[z[i]].id = IF i < j THEN f[i] ELSE f[i + 1]
      <3> SUFFICES ASSUME NEW i \in 1..(k - 1)
                   PROVE  heap'[z[i]].id = IF i < j THEN f[i] ELSE f[i + 1]
        OBVIOUS
      <3>1. z[i] = IF i < j THEN s[i] ELSE s[i + 1]
        OBVIOUS
      <3>2. i \in 1..k /\ i + 1 \in 1..k /\ (i < j => i # j) /\ (~(i < j) => i + 1 # j)
        BY <1>6
      <3> HIDE DEF z, f
      <3>. QED BY <1>8, <3>1, <3>2
    <2> HIDE DEF z, f
    <2>. QED BY <1>5, <2>1
  <1> HIDE DEF z, f
  <1>10. Chain' = Abstract!RemoveAt(Chain, j)
    BY <1>5, <1>6, <1>7, <1>9, Removing
  <1>11. j \in DOMAIN Chain
    BY <1>5, <1>7
  <1>. QED BY <1>10, <1>11 DEF Abstract!Delete

\* The registry is implemented by any number of clients that do not delete, and
\* by one client whatever it does: every store to the list adds an instance at
\* its end, removes one, or changes nothing (new_instance, free_instance).
THEOREM Refinement ==
  ASSUME "delete" \notin Commands \/ Cardinality(Clients) = 1
  PROVE  Spec => ImplementsRegistry
  <1>1. Init => Abstract!RegistryInit
    <2> SUFFICES ASSUME Init PROVE Chain = <<1>>
      BY DEF Abstract!RegistryInit
    <2>1. PICK n \in Nodes :
            /\ heap = [m \in Nodes |-> [state |-> IF m = n THEN "live" ELSE "unused",
                                       id |-> 1, next |-> Null, prev |-> Null]]
            /\ head = n
      BY DEF Init
    <2> DEFINE s == [i \in 1..1 |-> n]
    <2>2. InUse = {n}
      BY <2>1 DEF InUse
    <2>3. Lists(s, 1)
      BY <2>1, <2>2 DEF Lists
    <2>4. Chain = [i \in 1..1 |-> heap[s[i]].id]
      BY <2>3, ChainNow
    <2>5. \A i \in 1..1 : heap[s[i]].id = 1
      BY <2>1
    <2> HIDE DEF s
    <2>6. Chain = [i \in 1..1 |-> 1]
      BY <2>4, <2>5
    <2>. QED BY <2>6
  <1>2. /\ TypeOK /\ Labelled /\ Exclusive /\ PointersUsed /\ Undeleted /\ Ordered
        /\ Balanced /\ Searching /\ [Next]_vars
        => [Abstract!RegistryNext]_Chain
    <2> SUFFICES ASSUME TypeOK, Labelled, Exclusive, PointersUsed, Undeleted, Ordered,
                        Balanced, Searching, [Next]_vars
                 PROVE  Abstract!RegistryNext \/ Chain' = Chain
      OBVIOUS
    <2>1. Sound
      BY DEF Undeleted, Sound
    <2>2. PICK s, k : Lists(s, k)
      BY DEF Ordered
    <2>3. ASSUME heap' = heap, head' = head PROVE Chain' = Chain
      <3>1. InUse' = InUse /\ Freed' = Freed
        BY <2>3 DEF InUse, Freed
      <3>2. Lists(s, k)'
        BY <2>2, <2>3, <3>1 DEF Lists
      <3>3. /\ Chain = [i \in 1..k |-> heap[s[i]].id]
            /\ Chain' = [i \in 1..k |-> heap'[s[i]].id]
        BY <2>2, <3>2, ChainNow, ChainNext
      <3>. QED BY <2>3, <3>3
    <2>4. ASSUME UNCHANGED list PROVE Chain' = Chain
      BY <2>3, <2>4 DEF list
    <2>5. ASSUME NEW c \in Clients, AppendRead(c) \/ AppendTail(c) PROVE Chain' = Chain
      BY <2>3, <2>5 DEF AppendRead, AppendTail, list
    <2>6. ASSUME NEW c \in Clients, NEW n \in Unused, Linking(c, n) PROVE Abstract!RegistryNext
      BY <2>1, <2>6, LinkingCreates DEF Abstract!RegistryNext
    <2>7. ASSUME NEW c \in Clients, Strip(c) PROVE Chain' = Chain
      <3>1. Lists(s, k)' /\ \A i \in 1..k : heap'[s[i]].id = heap[s[i]].id
        BY <2>2, <2>7, StripLists
      <3>2. /\ Chain = [i \in 1..k |-> heap[s[i]].id]
            /\ Chain' = [i \in 1..k |-> heap'[s[i]].id]
        BY <2>2, <3>1, ChainNow, ChainNext
      <3>. QED BY <3>1, <3>2
    <2>8. ASSUME NEW c \in Clients, Unlink(c) PROVE Abstract!RegistryNext
      BY <2>8, UnlinkDeletes DEF Abstract!RegistryNext
    <2>. QED BY <2>4, <2>5, <2>6, <2>7, <2>8, ListChanges
  <1>. QED
    BY <1>1, <1>2, Labelling, Exclusion, Pointing, Deleting, Ordering, Balancing, SearchingIs, PTL
    DEF Spec, ImplementsRegistry, Abstract!RegistrySpec
=============================================================================
