------------------------------ MODULE Registry ------------------------------
(***************************************************************************)
(* What the registry of instances promises to the rest of the daemon, in   *)
(* one variable: the ids of the instances, in the order of the list.       *)
(* Instances implements it with a linked list that threads walk and change *)
(* with a shared cursor.                                                   *)
(***************************************************************************)
EXTENDS Naturals, FiniteSets, Sequences, SequencesExt

CONSTANTS
  Clients,      \* client threads
  MaxInstances  \* config->max_instances

VARIABLE ids

RegistryInit == ids = <<1>>

\* The ids in new_instance's order of trying; the last when none is free.
Ids == 1..(MaxInstances + 1)
Free(id) == id \in Ids /\ id \notin Range(ids)
LeastFree(id) == Free(id) /\ \A other \in 1..(id - 1) : ~Free(other)

\* An instance is added at the end.  Clients that create instances together
\* pass the limit by one each, and may be given an id that is in use; a client
\* that is alone gets the first free one.
Create(id) ==
  /\ Len(ids) < MaxInstances + Cardinality(Clients) - 1
  /\ Cardinality(Clients) = 1 => LeastFree(id)
  /\ ids' = Append(ids, id)

\* One instance goes, whichever it is, and the others keep their order.
Delete(k) == ids' = RemoveAt(ids, k)

RegistryNext ==
  \/ \E id \in Ids : Create(id)
  \/ \E k \in DOMAIN ids : Delete(k)

RegistrySpec == RegistryInit /\ [][RegistryNext]_ids
=============================================================================
