------------------------------ MODULE Registry ------------------------------
(***************************************************************************)
(* The manager's two linked lists, manager->connections and                *)
(* manager->blacklist, as sequences of items [hash |-> h, data |-> d].     *)
(* mongo_manager_register appends, mongo_manager_find_by_hash returns the  *)
(* data of the first item with the hash, mongo_manager_deregister unlinks  *)
(* that item and no other.                                                 *)
(***************************************************************************)
EXTENDS Naturals, Sequences

\* Some item of the list carries the hash.
HasHash(list, h) == \E i \in 1..Len(list) : list[i].hash = h

\* i is the place where a walk from the head first meets the hash.
IsFirst(list, h, i) ==
  /\ i \in 1..Len(list)
  /\ list[i].hash = h
  /\ \A j \in 1..(i - 1) : list[j].hash # h

\* mongo_manager_find_by_hash, for a list that has the hash (the callers'
\* "return NULL" branch is their ~HasHash case).
FindByHash(list, h) == list[CHOOSE i \in 1..Len(list) : IsFirst(list, h, i)].data

\* mongo_manager_register
Register(list, h, d) == Append(list, [hash |-> h, data |-> d])

\* Unlinking from a singly linked list the first of the elements at the places
\* P: everything behind it moves one place towards the head.
UnlinkFirst(list, P) ==
  IF P = {} THEN list
  ELSE [i \in 1..(Len(list) - 1) |->
          IF \E j \in P : j <= i THEN list[i + 1] ELSE list[i]]

\* mongo_manager_deregister: a list without the hash is left alone.
Deregister(list, h) == UnlinkFirst(list, {i \in 1..Len(list) : list[i].hash = h})

\* No two items carry the same hash.
UniqueHashes(list) ==
  \A i, j \in 1..Len(list) : list[i].hash = list[j].hash => i = j
=============================================================================
