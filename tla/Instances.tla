----------------------------- MODULE Instances -----------------------------
(***************************************************************************)
(* The registry of mplayer instances: the linked list mp_instances, its    *)
(* length instance_count, and the threads that walk and change it.         *)
(*                                                                         *)
(* Every walk moves one cursor that all threads share, mp_instances->list: *)
(* get_instance and free_instance save and restore it, the listing of the  *)
(* instances and the message thread leave it where it ends.  Only the      *)
(* message thread and new_instance hold instances_mutex: around the        *)
(* lookup, the listing and the delete command the calls are commented out. *)
(*                                                                         *)
(* A step is one access to the cursor or to instance_count, as the build   *)
(* (no optimisation) compiles them; the pointer stores of ll_delete are    *)
(* one step, and so are those of ll_addv but the last.  A node that was    *)
(* freed is not allocated again.  A step that dereferences NULL or a freed *)
(* node makes the daemon faulty: nothing is said of what it does then.     *)
(***************************************************************************)
EXTENDS Integers, FiniteSets

CONSTANTS
  Clients,       \* client threads
  Nodes,         \* list nodes that can be allocated
  Null,          \* the NULL pointer
  MaxInstances,  \* config->max_instances
  Commands,      \* kinds of command the clients issue
  MsgThread,     \* the message thread, as the owner of the mutex
  Nobody         \* the owner of a free mutex

Threads == Clients \cup {MsgThread}
Pointer == Nodes \cup {Null}

\* new_instance gives the id MaxInstances + 1 when no id is free.
Ids == 1..(MaxInstances + 1)

ASSUME InstancesAssumption ==
  /\ IsFiniteSet(Clients) /\ Clients # {}
  /\ IsFiniteSet(Nodes) /\ Nodes # {}
  /\ MaxInstances \in Nat \ {0}
  /\ Commands \subseteq {"use", "instances", "new", "delete"}
  /\ Null \notin Nodes
  /\ Nobody \notin Threads
  /\ MsgThread \notin Clients

VARIABLES
  heap,    \* the list nodes; "stripped" is one whose mpx has been freed
  head,    \* mp_instances->head
  tail,    \* mp_instances->tail
  cursor,  \* mp_instances->list
  count,   \* instance_count
  mutex,   \* owner of instances_mutex
  th,      \* the threads
  faulty   \* a freed node or NULL has been dereferenced

list == <<heap, head, tail>>
vars == <<heap, head, tail, cursor, count, mutex, th, faulty>>

NodeRecord == [state: {"unused", "live", "stripped", "freed"},
               id: Ids, next: Pointer, prev: Pointer]

\* The walks over the list, by the code that runs them.
Walks == {"lookup", "again", "free", "unique", "listing", "messages"}

Labels == {"idle", "begin", "save", "start", "test", "look", "take", "next", "store",
           "restore", "use", "visit", "full", "mutex", "countUp", "countUpStore",
           "append", "link", "tail", "strip", "unlink", "countDown", "countDownStore",
           "unlock"}

\* saved is cur_position; node is what the walk last read: tmp_inst, then
\* list->next, in the end its result; read is instance_count before it is
\* stored again.
ThreadRecord == [pc: Labels, walk: Walks, op: {"use", "instances", "new", "delete"},
                 inst: Ids, id: Ids, saved: Pointer, node: Pointer, read: Int]

TypeOK ==
  /\ heap \in [Nodes -> NodeRecord]
  /\ {head, tail, cursor} \subseteq Pointer
  /\ count \in Int
  /\ mutex \in Threads \cup {Nobody}
  /\ th \in [Threads -> ThreadRecord]
  /\ faulty \in BOOLEAN

Idle == [pc |-> "idle", walk |-> "lookup", op |-> "use", inst |-> 1, id |-> 1,
         saved |-> Null, node |-> Null, read |-> 0]

\* main creates the first instance before it starts a thread.
Init ==
  /\ \E n \in Nodes :
       /\ heap = [m \in Nodes |-> [state |-> IF m = n THEN "live" ELSE "unused",
                                   id |-> 1, next |-> Null, prev |-> Null]]
       /\ head = n /\ tail = n /\ cursor = n
  /\ count = 1
  /\ mutex = Nobody
  /\ th = [t \in Threads |-> IF t = MsgThread THEN [Idle EXCEPT !.pc = "begin",
                                                               !.walk = "messages"]
                             ELSE Idle]
  /\ faulty = FALSE

-----------------------------------------------------------------------------
(* The walk over the list, in each of its six copies.                      *)

At(t, label)   == ~faulty /\ th[t].pc = label
Goto(t, label) == th' = [th EXCEPT ![t].pc = label]

\* A node that can be dereferenced; one whose data can be.
Allocated(p) == p # Null /\ heap[p].state # "freed"
Fault == faulty' = TRUE /\ UNCHANGED <<list, cursor, count, mutex, th>>

\* cur_position = mp_instances->list, in get_instance and free_instance.
Save(t) ==
  /\ At(t, "save")
  /\ th' = [th EXCEPT ![t].saved = cursor, ![t].pc = "start"]
  /\ UNCHANGED <<list, cursor, count, mutex, faulty>>

Start(t) ==
  /\ At(t, "start")
  /\ cursor' = head
  /\ Goto(t, "test")
  /\ UNCHANGED <<list, count, mutex, faulty>>

\* Where the loop goes when the cursor is NULL.
AfterLoop(walk) ==
  CASE walk = "messages" -> "unlock"
    [] walk = "listing"  -> "idle"
    [] OTHER             -> "restore"

Test(t) ==
  /\ At(t, "test")
  /\ IF cursor # Null THEN Goto(t, "look")
     ELSE th' = [th EXCEPT ![t].pc = AfterLoop(th[t].walk), ![t].node = Null]
  /\ UNCHANGED <<list, cursor, count, mutex, faulty>>

\* What the body of the loop does with a node, if its id is the one sought or not.
AfterLook(walk, match) ==
  CASE walk \in {"messages", "listing"} -> "visit"
    [] walk = "free" /\ match           -> "strip"
    [] walk \in {"lookup", "again", "unique"} /\ match -> "take"
    [] OTHER                            -> "next"

\* The body reads the cursor again, and the node's data.
Look(t) ==
  /\ At(t, "look")
  /\ Allocated(cursor)
  /\ th' = [th EXCEPT ![t].node = cursor,
                       ![t].pc = AfterLook(th[t].walk, heap[cursor].id = th[t].id)]
  /\ UNCHANGED <<list, cursor, count, mutex, faulty>>

\* The listing and the message thread use the instance's mpx.
Visit(t) ==
  /\ At(t, "visit")
  /\ heap[th[t].node].state = "live"
  /\ Goto(t, "next")
  /\ UNCHANGED <<list, cursor, count, mutex, faulty>>

\* inst = mp_instances->list: the cursor once more, not the node looked at.
Take(t) ==
  /\ At(t, "take")
  /\ th' = [th EXCEPT ![t].node = cursor, ![t].pc = "restore"]
  /\ UNCHANGED <<list, cursor, count, mutex, faulty>>

\* mp_instances->list = mp_instances->list->next, a load and a store.
Advance(t) ==
  /\ At(t, "next")
  /\ Allocated(cursor)
  /\ th' = [th EXCEPT ![t].node = heap[cursor].next, ![t].pc = "store"]
  /\ UNCHANGED <<list, cursor, count, mutex, faulty>>

Store(t) ==
  /\ At(t, "store")
  /\ cursor' = th[t].node
  /\ Goto(t, "test")
  /\ UNCHANGED <<list, count, mutex, faulty>>

\* NULL or a freed node is dereferenced.
WalkFaults(t) ==
  /\ \/ At(t, "look") /\ ~Allocated(cursor)
     \/ At(t, "next") /\ ~Allocated(cursor)
     \/ At(t, "visit") /\ heap[th[t].node].state # "live"
  /\ Fault

\* A walk that saved the cursor puts it back and returns.
Walk(t, walk, id) == [th[t] EXCEPT !.pc = "save", !.walk = walk, !.id = id, !.node = Null]
AfterWalk(t) ==
  CASE th[t].walk = "lookup" -> IF th[t].node = Null THEN Idle ELSE [th[t] EXCEPT !.pc = "use"]
    [] th[t].walk = "again"  -> IF th[t].node = Null THEN Idle ELSE Walk(t, "free", th[t].inst)
    [] th[t].walk = "free"   -> Idle
    [] th[t].walk = "unique" -> IF th[t].node = Null THEN [th[t] EXCEPT !.pc = "append"]
                                ELSE IF th[t].id < MaxInstances
                                     THEN Walk(t, "unique", th[t].id + 1)
                                     ELSE [th[t] EXCEPT !.pc = "append", !.id = @ + 1]

Restore(t) ==
  /\ At(t, "restore")
  /\ cursor' = th[t].saved
  /\ th' = [th EXCEPT ![t] = [AfterWalk(t) EXCEPT !.saved = Null]]
  /\ UNCHANGED <<list, count, mutex, faulty>>

-----------------------------------------------------------------------------
(* Client threads: mp_process_command on the instances.                    *)

\* Every command first looks up the instance it names, the first if it names
\* none.  "use" stands for the commands that go on to use its mpx.
Issue(c, op, id) ==
  /\ At(c, "idle")
  /\ op \in {"instances", "new"} => id = 1
  /\ th' = [th EXCEPT ![c] = [Idle EXCEPT !.pc = "save", !.op = op, !.inst = id, !.id = id]]
  /\ UNCHANGED <<list, cursor, count, mutex, faulty>>

\* The instance is used through the pointer that the lookup returned.
Use(c) ==
  /\ At(c, "use")
  /\ heap[th[c].node].state \in IF th[c].op = "use" THEN {"live"} ELSE {"live", "stripped"}
  /\ th' = [th EXCEPT ![c] =
       CASE th[c].op = "use"       -> Idle
         [] th[c].op = "instances" -> [@ EXCEPT !.pc = "start", !.walk = "listing"]
         [] th[c].op = "new"       -> [@ EXCEPT !.pc = "full"]
         [] th[c].op = "delete"    -> IF th[c].inst = 1 THEN Idle
                                      ELSE Walk(c, "again", th[c].inst)]
  /\ UNCHANGED <<list, cursor, count, mutex, faulty>>

UseFaults(c) ==
  /\ At(c, "use")
  /\ heap[th[c].node].state \notin IF th[c].op = "use" THEN {"live"} ELSE {"live", "stripped"}
  /\ Fault

\* CMD_NEW_INSTANCE tests the limit before new_instance takes the mutex.  When
\* all nodes are taken, xmalloc fails.
Creating == {c \in Clients : \/ th[c].pc \in {"mutex", "countUp", "countUpStore"}
                             \/ th[c].walk = "unique" /\ th[c].pc \notin {"tail", "unlock"}}
Unused == {n \in Nodes : heap[n].state = "unused"}

\* Mutant: the limit itself passes the test.
FullAboveLimit(c) ==
  /\ At(c, "full")
  /\ th' = [th EXCEPT ![c] =
       IF count <= MaxInstances /\ Cardinality(Creating) < Cardinality(Unused)
       THEN [Idle EXCEPT !.pc = "mutex", !.op = "new"] ELSE Idle]
  /\ UNCHANGED <<list, cursor, count, mutex, faulty>>

Full(c) ==
  /\ At(c, "full")
  /\ th' = [th EXCEPT ![c] =
       IF count < MaxInstances /\ Cardinality(Creating) < Cardinality(Unused)
       THEN [Idle EXCEPT !.pc = "mutex", !.op = "new"] ELSE Idle]
  /\ UNCHANGED <<list, cursor, count, mutex, faulty>>

\* Mutant: the mutex is not waited for.
LockFree(t) ==
  /\ At(t, IF t = MsgThread THEN "begin" ELSE "mutex")
  /\ mutex' = t
  /\ Goto(t, IF t = MsgThread THEN "start" ELSE "countUp")
  /\ UNCHANGED <<list, cursor, count, faulty>>

Lock(t) ==
  /\ At(t, IF t = MsgThread THEN "begin" ELSE "mutex")
  /\ mutex = Nobody
  /\ mutex' = t
  /\ Goto(t, IF t = MsgThread THEN "start" ELSE "countUp")
  /\ UNCHANGED <<list, cursor, count, faulty>>

\* instance_count++, a load and a store.
CountUp(c) ==
  /\ At(c, "countUp")
  /\ th' = [th EXCEPT ![c].read = count, ![c].pc = "countUpStore"]
  /\ UNCHANGED <<list, cursor, count, mutex, faulty>>

\* Mutant: the search for a free id begins at 0, which no command can name.
SearchFromZero(c) ==
  /\ At(c, "countUpStore")
  /\ count' = th[c].read + 1
  /\ th' = [th EXCEPT ![c] = [Walk(c, "unique", 0) EXCEPT !.read = 0]]
  /\ UNCHANGED <<list, cursor, mutex, faulty>>

CountUpStore(c) ==
  /\ At(c, "countUpStore")
  /\ count' = th[c].read + 1
  /\ th' = [th EXCEPT ![c] = [Walk(c, "unique", 1) EXCEPT !.read = 0]]
  /\ UNCHANGED <<list, cursor, mutex, faulty>>

\* ll_addv appends to the tail it reads: the new node is linked to that tail,
\* then becomes the tail itself.
AppendRead(c) ==
  /\ At(c, "append")
  /\ th' = [th EXCEPT ![c].node = tail, ![c].pc = "link"]
  /\ UNCHANGED <<list, cursor, count, mutex, faulty>>

\* Another client can have deleted, and freed, the tail in between.
AppendLink(c) ==
  /\ At(c, "link")
  /\ IF th[c].node # Null /\ ~Allocated(th[c].node)
     THEN Fault
     ELSE /\ \E n \in Unused :
               /\ heap' = [m \in Nodes |->
                    IF m = n
                    THEN [state |-> "live", id |-> th[c].id, next |-> Null,
                          prev |-> IF head = Null THEN Null ELSE th[c].node]
                    ELSE [heap[m] EXCEPT !.next = IF m = th[c].node THEN n ELSE @]]
               /\ head' = IF head = Null THEN n ELSE head
               /\ cursor' = IF th[c].node = Null THEN n ELSE cursor
               /\ th' = [th EXCEPT ![c].node = n, ![c].pc = "tail"]
          /\ UNCHANGED <<tail, count, mutex, faulty>>

AppendTail(c) ==
  /\ At(c, "tail")
  /\ tail' = th[c].node
  /\ Goto(c, "unlock")
  /\ UNCHANGED <<heap, head, cursor, count, mutex, faulty>>

Unlock(t) ==
  /\ At(t, "unlock")
  /\ mutex' = Nobody
  /\ th' = [th EXCEPT ![t] = IF t = MsgThread THEN [Idle EXCEPT !.pc = "begin", !.walk = "messages"]
                             ELSE Idle]
  /\ UNCHANGED <<list, cursor, count, faulty>>

-----------------------------------------------------------------------------
(* free_instance, after the instance was found.                            *)

\* free_instance_members, on the node that was looked at.
Strip(c) ==
  /\ At(c, "strip")
  /\ Allocated(th[c].node)
  /\ heap' = [heap EXCEPT ![th[c].node].state = "stripped"]
  /\ Goto(c, "unlink")
  /\ UNCHANGED <<head, tail, cursor, count, mutex, faulty>>

\* What ll_delete of node n dereferences is allocated.
CanUnlink(n) ==
  /\ Allocated(n)
  /\ heap[n].prev # Null => Allocated(heap[n].prev)
  /\ heap[n].prev # Null /\ heap[n].next # Null => Allocated(heap[n].next)

\* ll_delete, on the node the cursor points to by now.  When the first node is
\* removed, the prev pointer of the second is not reset.
Unlink(c) ==
  /\ At(c, "unlink")
  /\ CanUnlink(cursor)
  /\ LET next == heap[cursor].next
         prev == heap[cursor].prev
         last == next = Null /\ prev = Null
     IN  /\ heap' = [m \in Nodes |->
               IF m = cursor
               THEN [heap[m] EXCEPT !.state = "freed"]
               ELSE [heap[m] EXCEPT !.next = IF m = prev THEN next ELSE @,
                                    !.prev = IF m = next /\ prev # Null THEN prev ELSE @]]
         /\ head' = IF prev = Null THEN next ELSE head
         /\ tail' = IF last THEN Null ELSE IF next = Null THEN prev ELSE tail
         /\ cursor' = IF last THEN Null ELSE cursor
  /\ Goto(c, "countDown")
  /\ UNCHANGED <<count, mutex, faulty>>

FreeFaults(c) ==
  /\ \/ At(c, "strip") /\ ~Allocated(th[c].node)
     \/ At(c, "unlink") /\ ~CanUnlink(cursor)
  /\ Fault

\* instance_count--, without the mutex.
CountDown(c) ==
  /\ At(c, "countDown")
  /\ th' = [th EXCEPT ![c].read = count, ![c].pc = "countDownStore"]
  /\ UNCHANGED <<list, cursor, count, mutex, faulty>>

\* Mutant: the deletion is counted twice.
CountDownTwice(c) ==
  /\ At(c, "countDownStore")
  /\ count' = th[c].read - 2
  /\ Goto(c, "restore")
  /\ UNCHANGED <<list, cursor, mutex, faulty>>

CountDownStore(c) ==
  /\ At(c, "countDownStore")
  /\ count' = th[c].read - 1
  /\ Goto(c, "restore")
  /\ UNCHANGED <<list, cursor, mutex, faulty>>

-----------------------------------------------------------------------------

Step(t) ==
  \/ Save(t) \/ Start(t) \/ Test(t) \/ Look(t) \/ Visit(t) \/ Take(t) \/ Advance(t) \/ Store(t)
  \/ WalkFaults(t) \/ Restore(t) \/ Lock(t) \/ Unlock(t)

ClientStep(c) ==
  \/ Use(c) \/ UseFaults(c)
  \/ Full(c) \/ CountUp(c) \/ CountUpStore(c)
  \/ AppendRead(c) \/ AppendLink(c) \/ AppendTail(c)
  \/ Strip(c) \/ Unlink(c) \/ FreeFaults(c) \/ CountDown(c) \/ CountDownStore(c)

Halted == faulty /\ UNCHANGED vars

Next ==
  \/ \E c \in Clients, op \in Commands, id \in Ids : Issue(c, op, id)
  \/ \E t \in Threads : Step(t)
  \/ \E c \in Clients : ClientStep(c)
  \/ Halted

Spec == Init /\ [][Next]_vars

-----------------------------------------------------------------------------

\* The nodes the list links, from the first.
Linked ==
  LET reached[k \in Nat] ==
        IF k = 0 THEN {head} \ {Null}
        ELSE reached[k - 1] \cup ({heap[n].next : n \in reached[k - 1]} \ {Null})
  IN  reached[Cardinality(Nodes)]

\* Their ids, in that order.
Chain ==
  LET node[k \in 1..Cardinality(Linked)] ==
        IF k = 1 THEN head ELSE heap[node[k - 1]].next
  IN  [k \in 1..Cardinality(Linked) |-> heap[node[k]].id]

\* Every step adds one instance at the end of the list, removes one, or leaves
\* the list as it is, although ll_addv and ll_delete take several stores and
\* the walks of other threads move the cursor ll_delete is given; one client
\* beside the message thread gets the first id that is free (new_instance).
Abstract == INSTANCE Registry WITH ids <- Chain
ImplementsRegistry == Abstract!RegistrySpec

NothingDeleted == \A n \in Nodes : heap[n].state \in {"unused", "live"}

\* As long as no instance has been deleted the list is intact whenever nobody
\* holds the mutex to append to it, whatever the walks do to the cursor: it
\* links exactly the allocated nodes, its two directions agree and it ends at
\* the tail, so that ll_addv can append (instances_mutex around new_instance).
ListIntact ==
  NothingDeleted /\ mutex \notin Clients =>
    /\ Linked = Nodes \ Unused
    /\ \A n \in Linked : /\ heap[n].next = Null <=> n = tail
                         /\ heap[n].prev = Null <=> n = head
                         /\ heap[n].next # Null => heap[heap[n].next].prev = n

\* instance_count is the length of the list whenever no client is creating or
\* deleting an instance: as long as no instance has been deleted, and with one
\* client even then, although the message thread moves the cursor between the
\* match and ll_delete so that another node than the one found is removed.
CountIsLength ==
  /\ ~faulty
  /\ NothingDeleted \/ Cardinality(Clients) = 1
  /\ mutex \notin Clients
  /\ \A c \in Clients : th[c].pc \notin {"countDown", "countDownStore"}
  => count = Cardinality(Linked)

\* The limit is tested without the mutex, so clients that create instances at
\* the same time pass it together, each by one and not more (CMD_NEW_INSTANCE);
\* when several clients also delete, instance_count loses updates and the limit.
CountBounded ==
  NothingDeleted \/ Cardinality(Clients) = 1 => count < MaxInstances + Cardinality(Clients)

\* instance.c: find a unique instance id under the max instance count.
UniqueIds ==
  ~faulty => \A m, n \in Linked : heap[m].id = heap[n].id => m = n
=============================================================================
