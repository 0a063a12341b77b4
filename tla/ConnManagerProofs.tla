------------------------- MODULE ConnManagerProofs -------------------------
(***************************************************************************)
(* Theorems about ConnManager, for any number of servers, definitions,     *)
(* threads, addresses, cursors and forks, and for any intervals.           *)
(* First come the lists and what is registered; then what the callers and  *)
(* the cursors get: the cleanup callbacks, fork() and the connections that *)
(* a call returns.  The last part is the refinement: in a one-threaded     *)
(* program the manager implements the cache of ConnCache.                  *)
(***************************************************************************)
EXTENDS ConnManagerCache, FiniteSetTheorems, TLAPS

(* What the list operations of Registry preserve, for lists of any length *)

\* A registered item: whatever the hashes and the data are.
Items(H, D) == [hash : H, data : D]

\* The empty list has no hash and no duplicates.
LEMMA EmptyList ==
  /\ UniqueHashes(<<>>)
  /\ \A h : ~HasHash(<<>>, h)
BY DEF UniqueHashes, HasHash

\* A walk of a list that has the hash meets it somewhere first.
LEMMA FirstExists ==
  ASSUME NEW list, Len(list) \in Nat, NEW h, HasHash(list, h)
  PROVE  \E i \in 1..Len(list) : IsFirst(list, h, i)
<1> DEFINE I == {i \in 1..Len(list) : list[i].hash = h}
           S == 1..Len(list)
           T == {1..i : i \in I}
<1>1. I # {} /\ T # {}
  BY DEF HasHash
<1>2. IsFiniteSet(S)
  BY FS_Interval
<1>3. IsWellFoundedOn(StrictSubsetOrdering(S), SUBSET S)
  BY <1>2, FS_StrictSubsetOrderingWellFounded, FS_FiniteSubsetsOfFinite
<1>4. T \subseteq SUBSET S
  OBVIOUS
<1>5. \E x \in T : \A y \in T : ~(<<y, x>> \in StrictSubsetOrdering(S))
  <2> HIDE DEF T, S
  <2> QED
    BY <1>1, <1>3, <1>4, WFMin, Zenon
<1>6. PICK i \in I : \A j \in I : ~(<<1..j, 1..i>> \in StrictSubsetOrdering(S))
  BY <1>5
<1>7. \A j \in I : ~(j < i)
  <2> SUFFICES ASSUME NEW j \in I, j < i PROVE FALSE
    OBVIOUS
  <2>1. 1..j \subseteq 1..i /\ 1..j # 1..i /\ 1..j \in SUBSET S /\ 1..i \in SUBSET S
    <3>1. i \in 1..i /\ i \notin 1..j
      OBVIOUS
    <3> QED
      BY <3>1
  <2> QED
    BY <1>6, <2>1 DEF StrictSubsetOrdering
<1> QED
  BY <1>6, <1>7 DEF IsFirst

\* find_by_hash returns the data of an item that carries the hash.
LEMMA FindItem ==
  ASSUME NEW H, NEW D, NEW list \in Seq(Items(H, D)), NEW h, HasHash(list, h)
  PROVE  /\ FindByHash(list, h) \in D
         /\ \E i \in 1..Len(list) : list[i].hash = h /\ list[i].data = FindByHash(list, h)
<1> DEFINE i == CHOOSE j \in 1..Len(list) : IsFirst(list, h, j)
<1>1. i \in 1..Len(list) /\ IsFirst(list, h, i)
  BY FirstExists
<1>2. list[i] \in Items(H, D) /\ list[i].hash = h
  BY <1>1 DEF IsFirst
<1> QED
  BY <1>1, <1>2 DEF FindByHash, Items

\* find_by_hash on a list without duplicates returns the data of the one item
\* that carries the hash.
LEMMA FindUnique ==
  ASSUME NEW list, UniqueHashes(list), NEW i \in 1..Len(list), Len(list) \in Nat
  PROVE  FindByHash(list, list[i].hash) = list[i].data
<1> DEFINE h == list[i].hash
<1>1. IsFirst(list, h, i)
  BY DEF IsFirst, UniqueHashes
<1>2. \A j \in 1..Len(list) : IsFirst(list, h, j) => j = i
  BY DEF IsFirst, UniqueHashes
<1>3. (CHOOSE j \in 1..Len(list) : IsFirst(list, h, j)) = i
  BY <1>1, <1>2
<1> QED
  BY <1>3 DEF FindByHash

\* Registering a hash that the list lacks keeps the list free of duplicates
\* and adds that hash only.
LEMMA RegisterUnique ==
  ASSUME NEW H, NEW D, NEW list \in Seq(Items(H, D)), NEW h \in H, NEW d \in D
  PROVE  /\ Register(list, h, d) \in Seq(Items(H, D))
         /\ Len(Register(list, h, d)) = Len(list) + 1
         /\ \A i \in 1..Len(list) : Register(list, h, d)[i] = list[i]
         /\ Register(list, h, d)[Len(list) + 1] = [hash |-> h, data |-> d]
         /\ HasHash(Register(list, h, d), h)
         /\ \A g : g # h => (HasHash(Register(list, h, d), g) <=> HasHash(list, g))
         /\ UniqueHashes(list) /\ ~HasHash(list, h) => UniqueHashes(Register(list, h, d))
<1> DEFINE new == [hash |-> h, data |-> d]
           L == Append(list, new)
<1>0. new \in Items(H, D) /\ Len(list) \in Nat
  BY DEF Items
<1>1. L \in Seq(Items(H, D)) /\ Len(L) = Len(list) + 1 /\ L[Len(list) + 1] = new
      /\ \A i \in 1..Len(list) : L[i] = list[i]
  BY <1>0
<1>2. HasHash(L, h)
  BY <1>0, <1>1 DEF HasHash
<1>3. \A g : g # h => (HasHash(L, g) <=> HasHash(list, g))
  BY <1>0, <1>1 DEF HasHash
<1>4. UniqueHashes(list) /\ ~HasHash(list, h) => UniqueHashes(L)
  BY <1>0, <1>1 DEF HasHash, UniqueHashes
<1> QED
  BY <1>1, <1>2, <1>3, <1>4 DEF Register

\* A registered item makes a list again.
LEMMA RegisterType ==
  ASSUME NEW H, NEW D, NEW list \in Seq(Items(H, D)), NEW h \in H, NEW d \in D
  PROVE  Register(list, h, d) \in Seq(Items(H, D))
BY RegisterUnique

\* Unlinking keeps the shape of the list.
LEMMA UnlinkType ==
  ASSUME NEW S, NEW list \in Seq(S), NEW P \in SUBSET (1..Len(list))
  PROVE  UnlinkFirst(list, P) \in Seq(S)
<1>1. CASE P = {}
  BY <1>1 DEF UnlinkFirst
<1>2. CASE P # {}
  <2>0. PICK k \in 1..Len(list) : k \in P
    BY <1>2
  <2>1. Len(list) \in Nat /\ Len(list) - 1 \in Nat
    BY <2>0
  <2>2. \A i \in 1..(Len(list) - 1) : list[i] \in S /\ list[i + 1] \in S
    BY <2>1
  <2>3. UnlinkFirst(list, P) \in [1..(Len(list) - 1) -> S]
    BY <1>2, <2>2 DEF UnlinkFirst
  <2> QED
    BY <2>1, <2>3
<1> QED
  BY <1>1, <1>2

\* Deregistering keeps the shape of the list.
LEMMA DeregisterType ==
  ASSUME NEW H, NEW D, NEW list \in Seq(Items(H, D)), NEW h
  PROVE  Deregister(list, h) \in Seq(Items(H, D))
BY UnlinkType DEF Deregister

\* In a list without duplicates, deregistering a hash removes it, keeps every
\* other item and adds nothing.
LEMMA DeregisterUnique ==
  ASSUME NEW H, NEW D, NEW list \in Seq(Items(H, D)), UniqueHashes(list), NEW h
  PROVE  /\ UniqueHashes(Deregister(list, h))
         /\ ~HasHash(Deregister(list, h), h)
         /\ \A g : g # h => (HasHash(Deregister(list, h), g) <=> HasHash(list, g))
         /\ \A i \in 1..Len(Deregister(list, h)) :
              \E j \in 1..Len(list) : /\ Deregister(list, h)[i] = list[j]
                                      /\ list[j].hash # h
         /\ \A j \in 1..Len(list) : list[j].hash # h =>
              \E i \in 1..Len(Deregister(list, h)) : Deregister(list, h)[i] = list[j]
<1>1. CASE ~HasHash(list, h)
  <2>1. Deregister(list, h) = list
    BY <1>1 DEF Deregister, UnlinkFirst, HasHash
  <2> QED
    BY <1>1, <2>1 DEF HasHash
<1>2. CASE HasHash(list, h)
  <2>1. PICK k \in 1..Len(list) : list[k].hash = h
    BY <1>2 DEF HasHash
  <2>2. Len(list) \in Nat /\ Len(list) - 1 \in Nat
    BY <2>1
  <2> DEFINE L == Deregister(list, h)
             n == Len(list) - 1
  <2>3. {i \in 1..Len(list) : list[i].hash = h} = {k}
    BY <2>1 DEF UniqueHashes
  <2>4. L = [i \in 1..n |-> IF k <= i THEN list[i + 1] ELSE list[i]]
    BY <2>3 DEF Deregister, UnlinkFirst
  <2>5. Len(L) = n /\ \A i \in 1..n : L[i] = IF k <= i THEN list[i + 1] ELSE list[i]
    BY <2>2, <2>4
  <2> HIDE DEF L
  <2>6. \A i \in 1..n : \E j \in 1..Len(list) :
           /\ L[i] = list[j] /\ j # k
           /\ j = IF k <= i THEN i + 1 ELSE i
    BY <2>1, <2>2, <2>5
  <2>7. \A j \in 1..Len(list) : j # k => list[j].hash # h
    BY <2>1 DEF UniqueHashes
  <2>8. \A j \in 1..Len(list) : j # k => \E i \in 1..n : L[i] = list[j]
    <3> SUFFICES ASSUME NEW j \in 1..Len(list), j # k
                 PROVE  \E i \in 1..n : L[i] = list[j]
      OBVIOUS
    <3>1. CASE j < k
      BY <2>1, <2>2, <2>5, <3>1
    <3>2. CASE j > k
      <4>1. j - 1 \in 1..n /\ k <= j - 1 /\ (j - 1) + 1 = j
        BY <2>1, <2>2, <3>2
      <4> QED
        BY <2>5, <4>1
    <3> QED
      BY <2>1, <2>2, <3>1, <3>2
  <2>9. UniqueHashes(L)
    <3> SUFFICES ASSUME NEW p \in 1..n, NEW q \in 1..n, L[p].hash = L[q].hash
                 PROVE  p = q
      BY <2>5 DEF UniqueHashes
    <3> DEFINE P == IF k <= p THEN p + 1 ELSE p
               Q == IF k <= q THEN q + 1 ELSE q
    <3>1. P \in 1..Len(list) /\ Q \in 1..Len(list) /\ L[p] = list[P] /\ L[q] = list[Q]
      BY <2>1, <2>2, <2>5
    <3>2. P = Q
      BY <3>1 DEF UniqueHashes
    <3> QED
      BY <2>1, <2>2, <3>2
  <2>10. ~HasHash(L, h)
    BY <2>5, <2>6, <2>7 DEF HasHash
  <2>11. \A g : g # h => (HasHash(L, g) <=> HasHash(list, g))
    <3> SUFFICES ASSUME NEW g, g # h PROVE HasHash(L, g) <=> HasHash(list, g)
      OBVIOUS
    <3>1. ASSUME HasHash(L, g) PROVE HasHash(list, g)
      <4>1. PICK i \in 1..n : L[i].hash = g
        BY <2>5, <3>1 DEF HasHash
      <4>2. PICK j \in 1..Len(list) : L[i] = list[j]
        BY <2>6
      <4> QED
        BY <4>1, <4>2 DEF HasHash
    <3>2. ASSUME HasHash(list, g) PROVE HasHash(L, g)
      <4>1. PICK j \in 1..Len(list) : list[j].hash = g
        BY <3>2 DEF HasHash
      <4>2. PICK i \in 1..n : L[i] = list[j]
        BY <2>1, <2>8, <4>1
      <4> QED
        BY <2>5, <4>1, <4>2 DEF HasHash
    <3> QED
      BY <3>1, <3>2
  <2> QED
    BY <2>1, <2>5, <2>6, <2>7, <2>8, <2>9, <2>10, <2>11 DEF L
<1> QED
  BY <1>1, <1>2
-----------------------------------------------------------------------------
(* The manager *)

\* What a thread's locals hold: a call has its definition and its caller, and
\* beyond "connect" a connection.
CallOK ==
  \A t \in Threads :
    /\ pc[t] # "null" => arg[t] \in Defs /\ kind[t] \in Kinds
    /\ pc[t] \notin {"null", "connect"} => cur[t] \in Addrs

TypeInv == TypeOK /\ CallOK
-----------------------------------------------------------------------------
(* Shapes *)

\* The hash of a definition in this process is one of the hashes.
LEMMA HashType ==
  ASSUME TypeOK, NEW d \in Defs
  PROVE  Hash(d) \in Hashes
BY DEF TypeOK, WorldTypes, Hash, Hashes

\* A hash names a server.
LEMMA HashHost ==
  ASSUME NEW h \in Hashes
  PROVE  h.host \in Hosts /\ h.pid \in Pids
<1>1. PICK d \in Defs, p \in Pids : h = HashIn(d, p)
  BY DEF Hashes
<1> QED
  BY <1>1, ConstantsAssumption DEF HashIn

\* An allocated address holds a connection.
LEMMA AllocatedShape ==
  ASSUME TypeOK, NEW a \in Addrs, Allocated(a)
  PROVE  heap[a] \in ConnectionShape
BY DEF TypeOK, ManagerTypes, Allocated, Unallocated

\* mongo_connection_create makes a connection.
LEMMA NewConnectionShape ==
  ASSUME NEW h \in Hashes
  PROVE  NewConnection(h) \in ConnectionShape
BY ConstantsAssumption
   DEF NewConnection, ConnectionShape, NodeTypes, Identities

\* A ping that worked keeps the shape of the connection.
LEMMA PingedShape ==
  ASSUME NEW c \in ConnectionShape
  PROVE  [c EXCEPT !.ping = 0] \in ConnectionShape
<1>1. 0 \in 0..PingInterval
  BY ConstantsAssumption
<1> QED
  BY <1>1 DEF ConnectionShape

\* mongo_connection_destroy keeps heap and cursors well formed.
LEMMA DestroyType ==
  ASSUME TypeOK, NEW a \in Addrs, Destroy(a)
  PROVE  /\ heap' \in [Addrs -> ConnectionShape \cup {Unallocated}]
         /\ cursor' \in [Cursors -> Addrs \cup {Null}]
BY DEF TypeOK, ManagerTypes, Destroy

\* So does mongo_manager_connection_deregister.
LEMMA DeregisterConnectionType ==
  ASSUME TypeOK, NEW a \in Addrs, DeregisterConnection(a)
  PROVE  /\ connections' \in Seq([hash : Hashes, data : Addrs])
         /\ heap' \in [Addrs -> ConnectionShape \cup {Unallocated}]
         /\ cursor' \in [Cursors -> Addrs \cup {Null}]
<1>1. CASE HasHash(connections, heap[a].hash)
  <2>1. connections' = Deregister(connections, heap[a].hash) /\ Destroy(a)
    BY <1>1 DEF DeregisterConnection
  <2>2. connections \in Seq(Items(Hashes, Addrs))
    BY DEF TypeOK, ManagerTypes, Items
  <2>3. connections' \in Seq(Items(Hashes, Addrs))
    BY <2>1, <2>2, DeregisterType
  <2> QED
    BY <2>1, <2>3, DestroyType DEF Items
<1>2. CASE ~HasHash(connections, heap[a].hash)
  BY <1>2 DEF DeregisterConnection, TypeOK, ManagerTypes
<1> QED
  BY <1>1, <1>2

\* What ismaster leaves in the struct is a connection; a node that no flag
\* identifies never gets that far.
LEMMA AfterIsMasterType ==
  ASSUME TypeOK, NEW a \in Addrs, Allocated(a), NEW seed \in BOOLEAN
  PROVE  AfterIsMaster(a, seed) \in [Addrs -> ConnectionShape \cup {Unallocated}]
<1> DEFINE r == ServerOf(a).reply
<1>1. heap[a] \in ConnectionShape
  BY AllocatedShape
<1>2. heap[a].hash.host \in Hosts
  BY <1>1, HashHost DEF ConnectionShape
<1>3. r \in ReplyShape
  BY <1>2, ConstantsAssumption DEF TypeOK, WorldTypes, ServerOf
<1>4. CASE IsMasterResult(a, seed) = 4
  <2>1. AfterIsMaster(a, seed) = [heap EXCEPT ![a].wire = r.wire]
    BY <1>4 DEF AfterIsMaster
  <2>2. [heap[a] EXCEPT !.wire = r.wire] \in ConnectionShape
    BY <1>1, <1>3 DEF ConnectionShape, ReplyShape
  <2> QED
    BY <2>1, <2>2 DEF TypeOK, ManagerTypes
<1>5. CASE IsMasterResult(a, seed) = 1
  <2> DEFINE c == [heap[a] EXCEPT !.wire = r.wire, !.type = r.role,
                                  !.master = 0,
                                  !.repl = IF seed THEN 0 ELSE heap[a].repl]
  <2>1. AfterIsMaster(a, seed) = [heap EXCEPT ![a] = c]
    BY <1>5 DEF AfterIsMaster
  <2>2. r.role \in NodeTypes
    BY <1>3, <1>5 DEF IsMasterResult, ReplyShape
  <2>3. r.wire \in BOOLEAN /\ 0 \in 0..IsMasterInterval
    BY <1>3, ConstantsAssumption DEF ReplyShape
  <2>4. c \in ConnectionShape
    BY <1>1, <2>2, <2>3 DEF ConnectionShape
  <2> QED
    BY <2>1, <2>4 DEF TypeOK, ManagerTypes
<1>6. CASE IsMasterResult(a, seed) \notin {1, 4}
  BY <1>6 DEF AfterIsMaster, TypeOK, ManagerTypes
<1> QED
  BY <1>4, <1>5, <1>6
-----------------------------------------------------------------------------
(* Type correctness *)

\* A call that fails leaves well-formed locals.
LEMMA FailType ==
  ASSUME TypeInv, NEW t \in Threads, Fail(t)
  PROVE  CallTypes' /\ WorldTypes' /\ CallOK'
BY DEF TypeInv, TypeOK, CallTypes, WorldTypes, CallOK, Fail, ReturnNull, Labels, Returned

\* So does one that goes on with a connection.
LEMMA GoType ==
  ASSUME TypeInv, NEW t \in Threads, pc[t] # "null",
         NEW a \in Addrs, NEW l \in Labels, Go(t, a, l)
  PROVE  CallTypes' /\ WorldTypes' /\ CallOK'
BY DEF TypeInv, TypeOK, CallTypes, WorldTypes, CallOK, Go

\* Where nothing of the call changes, its locals stay well formed.
LEMMA IdleType ==
  ASSUME TypeInv, UNCHANGED callVars
  PROVE  CallTypes' /\ CallOK'
BY DEF TypeInv, TypeOK, CallTypes, CallOK, callVars

\* A step of one connection's struct keeps the heap well formed.
LEMMA HeapUpdate ==
  ASSUME TypeOK, NEW a \in Addrs, NEW c \in ConnectionShape
  PROVE  [heap EXCEPT ![a] = c] \in [Addrs -> ConnectionShape \cup {Unallocated}]
BY DEF TypeOK, ManagerTypes

\* The lookup keeps TypeInv: what it finds is an address of the list.
LEMMA LookupType ==
  ASSUME TypeInv, NEW t \in Threads, NEW d \in Defs, NEW k \in Kinds,
         NEW dontConnect \in BOOLEAN, SingleLookup(t, d, k, dontConnect)
  PROVE  TypeInv'
<1> DEFINE h == Hash(d)
<1>1. blacklist' \in Seq([hash : Hashes, data : 0..PingInterval])
  BY DeregisterType DEF TypeInv, TypeOK, ManagerTypes, Items, SingleLookup, Unblacklist
<1>2. ManagerTypes' /\ WorldTypes'
  BY <1>1 DEF TypeInv, TypeOK, ManagerTypes, WorldTypes, SingleLookup
<1>3. ASSUME HasHash(connections, h)
      PROVE  FindByHash(connections, h) \in Addrs
  BY <1>3, FindItem DEF TypeInv, TypeOK, ManagerTypes, Items
<1>4. CallTypes' /\ CallOK'
  <2>1. CASE HasHash(connections, h)
    BY <1>3, <2>1 DEF TypeInv, TypeOK, CallTypes, CallOK, SingleLookup, Begin, Labels
  <2>2. CASE ~HasHash(connections, h)
    BY <2>2 DEF TypeInv, TypeOK, CallTypes, CallOK, SingleLookup, Begin, ReturnNull,
                Labels, Returned
  <2> QED
    BY <2>1, <2>2
<1> QED
  BY <1>2, <1>4 DEF TypeInv, TypeOK

\* The steps of a call keep TypeInv.
LEMMA StepType ==
  ASSUME TypeInv, NEW t \in Threads, Step(t)
  PROVE  TypeInv'
<1> DEFINE a == cur[t]
<1> USE DEF TypeInv, TypeOK
<1>0. ASSUME pc[t] \notin {"null", "connect"}
      PROVE  a \in Addrs /\ arg[t] \in Defs /\ kind[t] \in Kinds
  BY <1>0 DEF CallOK
<1>1. CASE SinglePing(t)
  <2>1. a \in Addrs /\ pc[t] # "null" /\ Allocated(a)
    BY <1>0, <1>1 DEF SinglePing, At
  <2>2. CASE ~PingDue(heap[a].ping)
    <3>1. Go(t, a, "check") /\ UNCHANGED mgrVars
      BY <1>1, <2>2 DEF SinglePing, mgrVars
    <3> QED
      BY <2>1, <3>1, GoType DEF ManagerTypes, mgrVars, Labels
  <2>3. CASE PingDue(heap[a].ping) /\ Answers(a)
    <3>1. heap' = [heap EXCEPT ![a].ping = 0] /\ Go(t, a, "check")
          /\ UNCHANGED <<connections, blacklist, cursor>>
      BY <1>1, <2>3 DEF SinglePing
    <3>2. [heap[a] EXCEPT !.ping = 0] \in ConnectionShape
      BY <2>1, AllocatedShape, PingedShape
    <3> QED
      BY <2>1, <3>1, <3>2, GoType, HeapUpdate DEF ManagerTypes, Labels
  <2>4. CASE PingDue(heap[a].ping) /\ ~Answers(a)
    <3>1. DeregisterConnection(a) /\ Fail(t) /\ UNCHANGED blacklist
      BY <1>1, <2>4 DEF SinglePing
    <3> QED
      BY <2>1, <3>1, FailType, DeregisterConnectionType DEF ManagerTypes
  <2> QED
    BY <2>2, <2>3, <2>4
<1>2. CASE SingleConnect(t)
  <2> DEFINE h == Hash(arg[t])
  <2>1. pc[t] # "null" /\ h \in Hashes
    BY <1>2, HashType DEF SingleConnect, At, CallOK
  <2>2. CASE ~server[h.host].up
    <3>1. blacklist' = Register(blacklist, h, 0) /\ Fail(t)
          /\ UNCHANGED <<connections, heap, cursor>>
      BY <1>2, <2>2 DEF SingleConnect
    <3>2. blacklist' \in Seq(Items(Hashes, 0..PingInterval))
      <4>1. 0 \in 0..PingInterval
        BY ConstantsAssumption
      <4>2. blacklist \in Seq(Items(Hashes, 0..PingInterval))
        BY DEF ManagerTypes, Items
      <4> QED
        BY <2>1, <3>1, <4>1, <4>2, RegisterType
    <3> QED
      BY <3>1, <3>2, FailType DEF ManagerTypes, Items
  <2>3. CASE server[h.host].up
    <3>1. PICK b \in Addrs : heap' = [heap EXCEPT ![b] = NewConnection(h)]
                             /\ Go(t, b, "ismaster")
      BY <1>2, <2>3 DEF SingleConnect
    <3>2. UNCHANGED <<connections, blacklist, cursor>>
      BY <1>2, <2>3 DEF SingleConnect
    <3> QED
      BY <2>1, <3>1, <3>2, GoType, HeapUpdate, NewConnectionShape
      DEF ManagerTypes, Labels
  <2> QED
    BY <2>2, <2>3
<1>3. CASE SingleIsMaster(t)
  <2>1. a \in Addrs /\ pc[t] # "null" /\ Allocated(a)
        /\ UNCHANGED <<connections, blacklist>>
    BY <1>0, <1>3 DEF SingleIsMaster, At
  <2>2. CASE IsMasterResult(a, FALSE) = 0
    <3>1. Destroy(a) /\ Fail(t)
      BY <1>3, <2>2 DEF SingleIsMaster
    <3> QED
      BY <2>1, <3>1, FailType, DestroyType DEF ManagerTypes
  <2>3. CASE IsMasterResult(a, FALSE) # 0
    <3>1. heap' = AfterIsMaster(a, FALSE) /\ Go(t, a, "buildinfo") /\ UNCHANGED cursor
      BY <1>3, <2>3 DEF SingleIsMaster
    <3> QED
      BY <2>1, <3>1, GoType, AfterIsMasterType DEF ManagerTypes, Labels
  <2> QED
    BY <2>2, <2>3
<1>4. CASE SingleServerVersion(t)
  <2>1. a \in Addrs /\ pc[t] # "null" /\ UNCHANGED <<connections, blacklist>>
    BY <1>0, <1>4 DEF SingleServerVersion, At
  <2>2. CASE Answers(a)
    <3>1. Go(t, a, "auth") /\ UNCHANGED <<heap, cursor>>
      BY <1>4, <2>2 DEF SingleServerVersion
    <3> QED
      BY <2>1, <3>1, GoType DEF ManagerTypes, Labels
  <2>3. CASE ~Answers(a)
    <3>1. Destroy(a) /\ Fail(t)
      BY <1>4, <2>3 DEF SingleServerVersion
    <3> QED
      BY <2>1, <3>1, FailType, DestroyType DEF ManagerTypes
  <2> QED
    BY <2>2, <2>3
<1>5. CASE SingleAuthenticate(t)
  <2>1. a \in Addrs /\ arg[t] \in Defs /\ pc[t] # "null" /\ Allocated(a)
        /\ UNCHANGED <<connections, blacklist>>
    BY <1>0, <1>5 DEF SingleAuthenticate, At
  <2>2. CASE Go(t, a, "firstping") /\ UNCHANGED <<heap, cursor>>
    BY <2>1, <2>2, GoType DEF ManagerTypes, Labels
  <2>3. CASE /\ heap' = [heap EXCEPT ![a].auth = Identity(arg[t])]
             /\ Go(t, a, "firstping") /\ UNCHANGED cursor
    <3>1. [heap[a] EXCEPT !.auth = Identity(arg[t])] \in ConnectionShape
      <4>1. Identity(arg[t]) \in Identities
        BY <2>1 DEF Identities
      <4> QED
        BY <2>1, <4>1, AllocatedShape DEF ConnectionShape
    <3> QED
      BY <2>1, <2>3, <3>1, GoType, HeapUpdate DEF ManagerTypes, Labels
  <2>4. CASE Destroy(a) /\ Fail(t)
    BY <2>1, <2>4, FailType, DestroyType DEF ManagerTypes
  <2> QED
    BY <1>5, <2>2, <2>3, <2>4 DEF SingleAuthenticate
<1>6. CASE SingleFirstPing(t)
  <2>1. a \in Addrs /\ pc[t] # "null" /\ Allocated(a) /\ UNCHANGED blacklist
    BY <1>0, <1>6 DEF SingleFirstPing, At
  <2>2. CASE Answers(a)
    <3>1. heap' = [heap EXCEPT ![a].ping = 0] /\ Go(t, a, "check") /\ UNCHANGED cursor
          /\ connections' = Register(connections, heap[a].hash, a)
      BY <1>6, <2>2 DEF SingleFirstPing
    <3>2. heap[a] \in ConnectionShape
      BY <2>1, AllocatedShape
    <3>3. [heap[a] EXCEPT !.ping = 0] \in ConnectionShape
      BY <3>2, PingedShape
    <3>4. connections' \in Seq(Items(Hashes, Addrs))
      <4>1. connections \in Seq(Items(Hashes, Addrs)) /\ heap[a].hash \in Hashes
        BY <3>2 DEF ManagerTypes, Items, ConnectionShape
      <4>2. Register(connections, heap[a].hash, a) \in Seq(Items(Hashes, Addrs))
        BY <2>1, <4>1, RegisterType
      <4> QED
        BY <3>1, <4>2
    <3> QED
      BY <2>1, <3>1, <3>3, <3>4, GoType, HeapUpdate DEF ManagerTypes, Items, Labels
  <2>3. CASE ~Answers(a)
    <3>1. Destroy(a) /\ Fail(t) /\ UNCHANGED connections
      BY <1>6, <2>3 DEF SingleFirstPing
    <3> QED
      BY <2>1, <3>1, FailType, DestroyType DEF ManagerTypes
  <2> QED
    BY <2>2, <2>3
<1>7. CASE CallerIsMaster(t)
  <2>1. a \in Addrs /\ pc[t] # "null" /\ Allocated(a) /\ UNCHANGED blacklist
    BY <1>0, <1>7 DEF CallerIsMaster, At
  <2>2. CASE /\ heap' = AfterIsMaster(a, kind[t] = "SEED")
             /\ Go(t, a, "ready") /\ UNCHANGED <<connections, cursor>>
    BY <2>1, <2>2, GoType, AfterIsMasterType DEF ManagerTypes, Labels, Returned
  <2>3. CASE DeregisterConnection(a) /\ Fail(t)
    BY <2>1, <2>3, FailType, DeregisterConnectionType DEF ManagerTypes
  <2>4. CASE Destroy(a) /\ Fail(t) /\ UNCHANGED connections
    BY <2>1, <2>4, FailType, DestroyType DEF ManagerTypes
  <2> QED
    BY <1>7, <2>2, <2>3, <2>4 DEF CallerIsMaster
<1>8. CASE UseFreed(t)
  BY <1>8, IdleType DEF UseFreed, ManagerTypes, WorldTypes, mgrVars
<1> QED
  BY <1>1, <1>2, <1>3, <1>4, <1>5, <1>6, <1>7, <1>8 DEF Step

\* Time keeps the shape of a connection.
LEMMA AgedShape ==
  ASSUME NEW c \in ConnectionShape
  PROVE  [c EXCEPT !.ping = Older(@, PingInterval),
                   !.master = Older(@, IsMasterInterval),
                   !.repl = Older(@, IsMasterInterval)] \in ConnectionShape
<1>1. /\ Older(c.ping, PingInterval) \in 0..PingInterval
      /\ Older(c.master, IsMasterInterval) \in 0..IsMasterInterval
      /\ Older(c.repl, IsMasterInterval) \in 0..IsMasterInterval
  BY ConstantsAssumption DEF ConnectionShape, Older
<1> QED
  BY <1>1 DEF ConnectionShape

\* A cleanup list of cursors stays one when a callback is added or unlinked.
LEMMA CallbackShape ==
  ASSUME NEW c \in ConnectionShape, NEW x \in Cursors
  PROVE  /\ [c EXCEPT !.cbs = Append(@, x)] \in ConnectionShape
         /\ [c EXCEPT !.cbs = Unlink(@, x)] \in ConnectionShape
<1>1. c.cbs \in Seq(Cursors)
  BY DEF ConnectionShape
<1>2. Append(c.cbs, x) \in Seq(Cursors)
  BY <1>1
<1>3. Unlink(c.cbs, x) \in Seq(Cursors)
  BY <1>1, UnlinkType DEF Unlink
<1> QED
  BY <1>2, <1>3 DEF ConnectionShape

\* The initial state is well formed.
LEMMA InitType == Init => TypeInv
<1> SUFFICES ASSUME Init PROVE TypeInv
  OBVIOUS
<1>1. ManagerTypes
  BY DEF Init, ManagerTypes
<1>2. CallTypes /\ CallOK
  BY DEF Init, CallTypes, CallOK, Labels, Returned
<1>3. WorldTypes
  BY ConstantsAssumption DEF Init, WorldTypes, Pids
<1> QED
  BY <1>1, <1>2, <1>3 DEF TypeInv, TypeOK

\* Every step keeps TypeInv.
LEMMA NextType ==
  ASSUME TypeInv, [Next]_vars
  PROVE  TypeInv'
<1> USE DEF TypeInv, TypeOK
<1>1. ASSUME NEW t \in Threads, NEW d \in Defs, Call(t, d) PROVE TypeInv'
  <2>1. CASE SingleBlacklisted(t, d)
    BY <2>1, FailType DEF SingleBlacklisted, ManagerTypes, mgrVars
  <2> QED
    BY <1>1, <2>1, LookupType DEF Call
<1>2. ASSUME NEW t \in Threads, NEW c \in Cursors, AddCallback(t, c) PROVE TypeInv'
  <2> DEFINE a == cur[t]
  <2>1. a \in Addrs /\ Allocated(a)
    BY <1>2 DEF AddCallback, At, CallOK
  <2>2. heap' \in [Addrs -> ConnectionShape \cup {Unallocated}]
    BY <1>2, <2>1, AllocatedShape, CallbackShape DEF AddCallback, ManagerTypes
  <2>3. ManagerTypes'
    BY <1>2, <2>1, <2>2 DEF AddCallback, ManagerTypes
  <2> QED
    BY <1>2, <2>3, IdleType DEF AddCallback, WorldTypes
<1>3. ASSUME NEW c \in Cursors, RemoveCallback(c) PROVE TypeInv'
  <2> DEFINE a == cursor[c]
  <2>1. a \in Addrs /\ Allocated(a)
    BY <1>3 DEF RemoveCallback, ManagerTypes
  <2>2. heap' \in [Addrs -> ConnectionShape \cup {Unallocated}]
    BY <1>3, <2>1, AllocatedShape, CallbackShape DEF RemoveCallback, ManagerTypes
  <2>3. ManagerTypes'
    BY <1>3, <2>2 DEF RemoveCallback, ManagerTypes
  <2> QED
    BY <1>3, <2>3, IdleType DEF RemoveCallback, WorldTypes
<1>4. CASE Fork
  <2>1. WorldTypes'
    BY <1>4, ConstantsAssumption DEF Fork, WorldTypes, Pids
  <2> QED
    BY <1>4, <2>1 DEF Fork, NoCalls, ManagerTypes, CallTypes, CallOK, mgrVars, Labels, Returned
<1>5. CASE Deinit
  <2>1. ManagerTypes'
    BY <1>5 DEF Deinit, ManagerTypes
  <2>2. CallTypes' /\ CallOK'
    BY <1>5 DEF Deinit, NoCalls, CallTypes, CallOK, Labels, Returned
  <2> QED
    BY <1>5, <2>1, <2>2 DEF Deinit, WorldTypes
<1>6. CASE Tick
  <2>1. heap' \in [Addrs -> ConnectionShape \cup {Unallocated}]
    BY <1>6, AllocatedShape, AgedShape DEF Tick, ManagerTypes
  <2>2. blacklist' \in Seq([hash : Hashes, data : 0..PingInterval])
    <3> DEFINE S == [hash : Hashes, data : 0..PingInterval]
    <3>0. blacklist \in Seq(S)
      BY DEF ManagerTypes
    <3> HIDE DEF S
    <3>1. Len(blacklist) \in Nat /\ \A i \in 1..Len(blacklist) : blacklist[i] \in S
      BY <3>0
    <3>2. \A i \in 1..Len(blacklist) :
            [hash |-> blacklist[i].hash, data |-> Older(blacklist[i].data, PingInterval)] \in S
      BY <3>1, ConstantsAssumption DEF Older, S
    <3>3. blacklist' \in [1..Len(blacklist) -> S]
      BY <1>6, <3>2 DEF Tick
    <3>4. blacklist' \in Seq(S)
      BY <3>1, <3>3
    <3> QED
      BY <3>4 DEF S
  <2> QED
    BY <1>6, <2>1, <2>2, IdleType DEF Tick, ManagerTypes, WorldTypes
<1>7. ASSUME NEW s \in Hosts, NEW crash \in BOOLEAN, ServerDown(s, crash) PROVE TypeInv'
  <2>1. \A c \in ConnectionShape : [c EXCEPT !.sock = FALSE] \in ConnectionShape
    BY DEF ConnectionShape
  <2>2. heap' \in [Addrs -> ConnectionShape \cup {Unallocated}]
    BY <1>7, <2>1, AllocatedShape DEF ServerDown, ManagerTypes
  <2>3. WorldTypes'
    BY <1>7 DEF ServerDown, WorldTypes
  <2> QED
    BY <1>7, <2>2, <2>3, IdleType DEF ServerDown, ManagerTypes
<1>8. ASSUME NEW s \in Hosts, NEW r \in Replies, ServerUp(s, r) PROVE TypeInv'
  BY <1>8, IdleType DEF ServerUp, ManagerTypes, WorldTypes, mgrVars
<1>9. ASSUME NEW s \in Hosts, NEW r \in Replies, ServerChange(s, r) PROVE TypeInv'
  BY <1>9, IdleType DEF ServerChange, ManagerTypes, WorldTypes, mgrVars
<1>10. CASE UNCHANGED vars
  BY <1>10 DEF vars, ManagerTypes, CallTypes, WorldTypes, CallOK
<1> QED
  BY <1>1, <1>2, <1>3, <1>4, <1>5, <1>6, <1>7, <1>8, <1>9, <1>10, StepType
  DEF Next, Surroundings

\* Every variable keeps its shape in every behaviour; no connection keeps the
\* type MONGO_NODE_INVALID, whatever the servers reply and however many threads
\* share the manager.
THEOREM TypeCorrect == Spec => []TypeOK
<1>1. TypeInv => TypeOK
  BY DEF TypeInv
<1> QED
  BY <1>1, InitType, NextType, PTL DEF Spec
-----------------------------------------------------------------------------
(* No hash twice.  The lookup and the registration of a new connection are  *)
(* many network operations apart, so the invariant follows the hash on its  *)
(* way: from the lookup until it is registered or blacklisted it is in      *)
(* neither list.  One thread is assumed: with two the property is false.    *)

OneThread == \A t, u \in Threads : t = u

\* The places of a call that is making a connection.
Making == {"ismaster", "buildinfo", "auth", "firstping"}

Unlisted(h) == ~HasHash(connections, h) /\ ~HasHash(blacklist, h)

\* A hash that is being connected is in neither list, and a connection that is
\* being made is allocated.
UnderWay ==
  \A t \in Threads :
    /\ pc[t] = "connect" => Unlisted(Hash(arg[t]))
    /\ pc[t] \in Making => Allocated(cur[t]) /\ Unlisted(heap[cur[t]].hash)

ListInv == TypeInv /\ HashIsUnique /\ UnderWay

\* The lists as sequences of items.
LEMMA ListItems ==
  ASSUME TypeInv
  PROVE  /\ connections \in Seq(Items(Hashes, Addrs))
         /\ blacklist \in Seq(Items(Hashes, 0..PingInterval))
BY DEF TypeInv, TypeOK, ManagerTypes, Items

\* The registry holds addresses.
LEMMA RegisteredAddress ==
  ASSUME TypeInv
  PROVE  \A i \in 1..Len(connections) : connections[i].data \in Addrs
<1>1. \A i \in 1..Len(connections) : connections[i] \in Items(Hashes, Addrs)
  BY ListItems
<1> QED
  BY <1>1 DEF Items

\* When the one thread's call ends, or has its connection, nothing is under way.
LEMMA NothingUnderWay ==
  ASSUME OneThread, NEW t \in Threads, pc'[t] \notin Making \cup {"connect"}
  PROVE  UnderWay'
BY DEF OneThread, UnderWay

\* Deregistering a connection keeps the lists free of duplicates.
LEMMA DeregisterKeepsUnique ==
  ASSUME TypeInv, HashIsUnique, NEW a \in Addrs, DeregisterConnection(a),
         UNCHANGED blacklist
  PROVE  HashIsUnique'
<1>1. CASE HasHash(connections, heap[a].hash)
  <2> DEFINE h == heap[a].hash
             L == Deregister(connections, h)
  <2>1. connections' = L
    BY <1>1 DEF DeregisterConnection
  <2>2. /\ UniqueHashes(L)
        /\ \A i \in 1..Len(L) : \E j \in 1..Len(connections) : L[i] = connections[j]
    BY ListItems, DeregisterUnique DEF HashIsUnique
  <2> HIDE DEF L
  <2>3. \A i \in 1..Len(L) : ~HasHash(blacklist, L[i].hash)
    BY <2>2 DEF HashIsUnique
  <2> QED
    BY <2>1, <2>2, <2>3 DEF HashIsUnique
<1>2. CASE ~HasHash(connections, heap[a].hash)
  BY <1>2 DEF DeregisterConnection, HashIsUnique
<1> QED
  BY <1>1, <1>2

\* Dropping an expired entry of the blacklist keeps the lists free of duplicates
\* and leaves the hash blacklisted no more.
LEMMA UnblacklistKeepsUnique ==
  ASSUME TypeInv, HashIsUnique, NEW h, blacklist' = Unblacklist(h),
         UNCHANGED connections
  PROVE  HashIsUnique' /\ ~HasHash(blacklist', h)
<1> DEFINE L == Deregister(blacklist, h)
<1>1. /\ UniqueHashes(L) /\ ~HasHash(L, h)
      /\ \A g : g # h => (HasHash(L, g) <=> HasHash(blacklist, g))
  BY ListItems, DeregisterUnique DEF HashIsUnique
<1>2. blacklist' = L
  BY DEF Unblacklist
<1> HIDE DEF L
<1>3. \A i \in 1..Len(connections) : ~HasHash(L, connections[i].hash)
  BY <1>1 DEF HashIsUnique
<1> QED
  BY <1>1, <1>2, <1>3 DEF HashIsUnique

\* Registering a connection whose hash is in neither list keeps them free of
\* duplicates.
LEMMA RegisterKeepsUnique ==
  ASSUME TypeInv, HashIsUnique, NEW h \in Hashes, NEW a \in Addrs, Unlisted(h),
         connections' = Register(connections, h, a), UNCHANGED blacklist
  PROVE  HashIsUnique'
<1> DEFINE L == Register(connections, h, a)
<1>1. /\ UniqueHashes(L) /\ Len(L) = Len(connections) + 1
      /\ \A i \in 1..Len(connections) : L[i] = connections[i]
      /\ L[Len(connections) + 1] = [hash |-> h, data |-> a]
  BY ListItems, RegisterUnique DEF HashIsUnique, Unlisted
<1> HIDE DEF L
<1>2. Len(connections) \in Nat
  BY ListItems
<1>3. \A i \in 1..Len(L) : ~HasHash(blacklist, L[i].hash)
  BY <1>1, <1>2 DEF HashIsUnique, Unlisted
<1> QED
  BY <1>1, <1>3 DEF HashIsUnique, L

\* So does blacklisting such a hash.
LEMMA BlacklistKeepsUnique ==
  ASSUME TypeInv, HashIsUnique, NEW h \in Hashes, Unlisted(h),
         blacklist' = Register(blacklist, h, 0), UNCHANGED connections
  PROVE  HashIsUnique'
<1> DEFINE L == Register(blacklist, h, 0)
<1>0. 0 \in 0..PingInterval
  BY ConstantsAssumption
<1>1. /\ UniqueHashes(L)
      /\ \A g : g # h => (HasHash(L, g) <=> HasHash(blacklist, g))
  BY <1>0, ListItems, RegisterUnique DEF HashIsUnique, Unlisted
<1> HIDE DEF L
<1>2. \A i \in 1..Len(connections) : connections[i].hash # h
  BY DEF Unlisted, HasHash
<1>3. \A i \in 1..Len(connections) : ~HasHash(L, connections[i].hash)
  BY <1>1, <1>2 DEF HashIsUnique
<1> QED
  BY <1>1, <1>3 DEF HashIsUnique, L

\* The structs keep their hashes, and none comes or goes.
SameStructs ==
  \A a \in Addrs : heap'[a].mem = heap[a].mem /\ (heap[a].mem => heap'[a].hash = heap[a].hash)

\* A step that leaves the lists' hashes, the structs and the calls alone.
LEMMA QuietStep ==
  ASSUME ListInv, UNCHANGED <<connections, callVars, pid>>, SameStructs,
         Len(blacklist') = Len(blacklist),
         \A i \in 1..Len(blacklist) : blacklist'[i].hash = blacklist[i].hash
  PROVE  HashIsUnique' /\ UnderWay'
<1>1. \A h : HasHash(blacklist', h) <=> HasHash(blacklist, h)
  BY DEF HasHash
<1>2. HashIsUnique'
  BY <1>1 DEF ListInv, HashIsUnique, UniqueHashes
<1>3. \A h : Unlisted(h) => ~HasHash(connections', h) /\ ~HasHash(blacklist', h)
  BY <1>1 DEF Unlisted
<1>4. UnderWay'
  <2> SUFFICES ASSUME NEW t \in Threads
               PROVE  /\ pc[t] = "connect" => Unlisted(Hash(arg[t]))'
                      /\ pc[t] \in Making => Allocated(cur[t])' /\ Unlisted(heap[cur[t]].hash)'
    BY DEF UnderWay, callVars
  <2>1. pc[t] = "connect" => Unlisted(Hash(arg[t]))'
    BY <1>3 DEF ListInv, UnderWay, Unlisted, callVars, Hash
  <2>2. ASSUME pc[t] \in Making PROVE Allocated(cur[t])' /\ Unlisted(heap[cur[t]].hash)'
    <3>1. cur[t] \in Addrs
      BY <2>2 DEF ListInv, TypeInv, CallOK, Making
    <3>2. heap'[cur[t]].mem /\ heap'[cur[t]].hash = heap[cur[t]].hash
      BY <2>2, <3>1 DEF ListInv, UnderWay, Allocated, SameStructs
    <3> QED
      BY <1>3, <2>2, <3>2 DEF ListInv, UnderWay, Unlisted, Allocated, callVars
  <2> QED
    BY <2>1, <2>2
<1> QED
  BY <1>2, <1>4
\* ismaster leaves the structs and their hashes in place.
LEMMA AfterIsMasterHash ==
  ASSUME TypeOK, NEW a \in Addrs, Allocated(a), NEW seed \in BOOLEAN,
         heap' = AfterIsMaster(a, seed)
  PROVE  SameStructs
<1>1. heap[a] \in ConnectionShape
  BY AllocatedShape
<1> DEFINE r == ServerOf(a).reply
<1>2. CASE heap' = [heap EXCEPT ![a].wire = r.wire]
  BY <1>1, <1>2 DEF TypeOK, ManagerTypes, SameStructs, ConnectionShape
<1>3. CASE heap' = [heap EXCEPT ![a] =
               [heap[a] EXCEPT !.wire = r.wire, !.type = r.role, !.master = 0,
                               !.repl = IF seed THEN 0 ELSE heap[a].repl]]
  BY <1>1, <1>3 DEF TypeOK, ManagerTypes, SameStructs, ConnectionShape
<1>4. CASE heap' = heap
  BY <1>4 DEF SameStructs
<1> QED
  BY <1>2, <1>3, <1>4 DEF AfterIsMaster

\* A call that goes on making the connection keeps it unlisted.
LEMMA GoOnMaking ==
  ASSUME OneThread, ListInv, NEW t \in Threads, pc[t] \in Making, NEW l \in Making,
         Go(t, cur[t], l), SameStructs, UNCHANGED <<connections, blacklist>>
  PROVE  HashIsUnique' /\ UnderWay'
<1>1. HashIsUnique'
  BY DEF ListInv, HashIsUnique
<1>2. cur[t] \in Addrs /\ cur'[t] = cur[t] /\ pc'[t] = l /\ l # "connect"
  BY DEF ListInv, TypeInv, TypeOK, CallTypes, CallOK, Making, Go
<1>3. heap'[cur'[t]].mem /\ heap'[cur'[t]].hash = heap[cur[t]].hash
  BY <1>2 DEF ListInv, UnderWay, Allocated, SameStructs
<1>4. Unlisted(heap[cur[t]].hash)
  BY DEF ListInv, UnderWay
<1>5. Allocated(cur[t])' /\ Unlisted(heap[cur[t]].hash)'
  BY <1>3, <1>4 DEF Allocated, Unlisted
<1> QED
  BY <1>1, <1>2, <1>5 DEF OneThread, UnderWay

\* The end of a call, in failure.
LEMMA FailEnds ==
  ASSUME TypeInv, NEW t \in Threads, Fail(t)
  PROVE  pc'[t] \notin Making \cup {"connect"}
BY DEF TypeInv, TypeOK, CallTypes, Fail, ReturnNull, Making

\* A call that has its connection.
LEMMA GoEnds ==
  ASSUME TypeInv, NEW t \in Threads, NEW a, NEW l \in {"check", "ready"}, Go(t, a, l)
  PROVE  pc'[t] \notin Making \cup {"connect"}
BY DEF TypeInv, TypeOK, CallTypes, Go, Making

\* The lookup keeps the lists free of duplicates and goes on to connect only
\* with a hash that is in neither.
LEMMA LookupLists ==
  ASSUME OneThread, ListInv, NEW t \in Threads, NEW d \in Defs, NEW k \in Kinds,
         NEW dontConnect \in BOOLEAN, SingleLookup(t, d, k, dontConnect)
  PROVE  HashIsUnique' /\ UnderWay'
<1> DEFINE h == Hash(d)
<1>1. blacklist' = Unblacklist(h) /\ UNCHANGED <<connections, pid>>
  BY DEF SingleLookup
<1>2. HashIsUnique' /\ ~HasHash(blacklist', h)
  BY <1>1, UnblacklistKeepsUnique DEF ListInv
<1>3. CASE HasHash(connections, h) \/ dontConnect
  <2>1. pc'[t] \in {"check", "ping", "null"}
    BY <1>3 DEF SingleLookup, Begin, ReturnNull, ListInv, TypeInv, TypeOK, CallTypes
  <2> QED
    BY <1>2, <2>1, NothingUnderWay DEF Making
<1>4. CASE ~HasHash(connections, h) /\ ~dontConnect
  <2>1. pc'[t] = "connect" /\ arg'[t] = d
    BY <1>4 DEF SingleLookup, Begin, ListInv, TypeInv, TypeOK, CallTypes
  <2>2. Unlisted(Hash(arg[t]))'
    BY <1>1, <1>2, <1>4, <2>1 DEF Unlisted, Hash
  <2> QED
    BY <1>2, <2>1, <2>2 DEF OneThread, UnderWay, Making
<1> QED
  BY <1>3, <1>4

\* The steps of a call keep the lists free of duplicates.
LEMMA StepLists ==
  ASSUME OneThread, ListInv, NEW t \in Threads, Step(t)
  PROVE  HashIsUnique' /\ UnderWay'
<1> DEFINE a == cur[t]
<1> USE DEF ListInv
<1>0. ASSUME pc[t] \notin {"null", "connect"}
      PROVE  a \in Addrs
  BY <1>0 DEF TypeInv, CallOK
<1>a. ASSUME Fail(t), UNCHANGED <<connections, blacklist>> PROVE HashIsUnique' /\ UnderWay'
  BY <1>a, FailEnds, NothingUnderWay DEF HashIsUnique
<1>b. ASSUME Fail(t), a \in Addrs, DeregisterConnection(a), UNCHANGED blacklist
      PROVE  HashIsUnique' /\ UnderWay'
  BY <1>b, FailEnds, NothingUnderWay, DeregisterKeepsUnique
<1>1. CASE SinglePing(t)
  <2>1. a \in Addrs /\ UNCHANGED blacklist
    BY <1>0, <1>1 DEF SinglePing, At
  <2>2. CASE Go(t, a, "check") /\ UNCHANGED connections
    BY <2>1, <2>2, GoEnds, NothingUnderWay DEF HashIsUnique
  <2> QED
    BY <1>1, <1>b, <2>1, <2>2 DEF SinglePing
<1>2. CASE SingleConnect(t)
  <2> DEFINE h == Hash(arg[t])
  <2>1. h \in Hashes /\ Unlisted(h) /\ UNCHANGED connections
    BY <1>2, HashType DEF SingleConnect, At, TypeInv, CallOK, UnderWay
  <2>2. CASE ~server[h.host].up
    <3>1. blacklist' = Register(blacklist, h, 0) /\ Fail(t)
      BY <1>2, <2>2 DEF SingleConnect
    <3> QED
      BY <2>1, <3>1, FailEnds, NothingUnderWay, BlacklistKeepsUnique
  <2>3. CASE server[h.host].up
    <3>1. PICK b \in Addrs : heap' = [heap EXCEPT ![b] = NewConnection(h)]
                             /\ Go(t, b, "ismaster")
      BY <1>2, <2>3 DEF SingleConnect
    <3>2. UNCHANGED <<connections, blacklist>>
      BY <1>2, <2>3 DEF SingleConnect
    <3>3. pc'[t] = "ismaster" /\ cur'[t] = b
      BY <3>1 DEF Go, TypeInv, TypeOK, CallTypes
    <3>4. heap'[b].mem /\ heap'[b].hash = h
      BY <3>1 DEF NewConnection, TypeInv, TypeOK, ManagerTypes
    <3>5. Allocated(cur[t])' /\ Unlisted(heap[cur[t]].hash)'
      BY <2>1, <3>2, <3>3, <3>4 DEF Allocated, Unlisted
    <3> QED
      BY <3>2, <3>3, <3>5 DEF HashIsUnique, OneThread, UnderWay
  <2> QED
    BY <2>2, <2>3
<1>3. CASE SingleIsMaster(t)
  <2>1. a \in Addrs /\ pc[t] \in Making /\ Allocated(a) /\ UNCHANGED <<connections, blacklist>>
    BY <1>0, <1>3 DEF SingleIsMaster, At, Making
  <2>2. CASE heap' = AfterIsMaster(a, FALSE) /\ Go(t, a, "buildinfo")
    <3>1. SameStructs
      BY <2>1, <2>2, AfterIsMasterHash DEF TypeInv
    <3> QED
      BY <2>1, <2>2, <3>1, GoOnMaking DEF Making
  <2> QED
    BY <1>3, <1>a, <2>1, <2>2 DEF SingleIsMaster
<1>4. CASE SingleServerVersion(t)
  <2>1. pc[t] \in Making /\ UNCHANGED <<connections, blacklist>>
    BY <1>4 DEF SingleServerVersion, At, Making
  <2>2. CASE Go(t, a, "auth") /\ UNCHANGED heap
    BY <2>1, <2>2, GoOnMaking DEF Making, SameStructs
  <2> QED
    BY <1>4, <1>a, <2>1, <2>2 DEF SingleServerVersion
<1>5. CASE SingleAuthenticate(t)
  <2>1. a \in Addrs /\ pc[t] \in Making /\ Allocated(a) /\ UNCHANGED <<connections, blacklist>>
    BY <1>0, <1>5 DEF SingleAuthenticate, At, Making
  <2>2. CASE Go(t, a, "firstping") /\ UNCHANGED heap
    BY <2>1, <2>2, GoOnMaking DEF Making, SameStructs
  <2>3. CASE heap' = [heap EXCEPT ![a].auth = Identity(arg[t])] /\ Go(t, a, "firstping")
    <3>1. SameStructs
      BY <2>1, <2>3, AllocatedShape
      DEF TypeInv, TypeOK, ManagerTypes, SameStructs, ConnectionShape
    <3> QED
      BY <2>1, <2>3, <3>1, GoOnMaking DEF Making
  <2> QED
    BY <1>5, <1>a, <2>1, <2>2, <2>3 DEF SingleAuthenticate
<1>6. CASE SingleFirstPing(t)
  <2>1. a \in Addrs /\ pc[t] \in Making /\ Allocated(a) /\ UNCHANGED blacklist
    BY <1>0, <1>6 DEF SingleFirstPing, At, Making
  <2>2. CASE connections' = Register(connections, heap[a].hash, a) /\ Go(t, a, "check")
    <3>1. heap[a].hash \in Hashes /\ Unlisted(heap[a].hash)
      BY <2>1, AllocatedShape DEF TypeInv, ConnectionShape, UnderWay
    <3> QED
      BY <2>1, <2>2, <3>1, GoEnds, NothingUnderWay, RegisterKeepsUnique
  <2> QED
    BY <1>6, <1>a, <2>1, <2>2 DEF SingleFirstPing
<1>7. CASE CallerIsMaster(t)
  <2>1. a \in Addrs /\ UNCHANGED blacklist
    BY <1>0, <1>7 DEF CallerIsMaster, At
  <2>2. CASE Go(t, a, "ready") /\ UNCHANGED connections
    BY <2>1, <2>2, GoEnds, NothingUnderWay DEF HashIsUnique
  <2> QED
    BY <1>7, <1>a, <1>b, <2>1, <2>2 DEF CallerIsMaster
<1>8. CASE UseFreed(t)
  BY <1>8, QuietStep DEF UseFreed, mgrVars, SameStructs
<1> QED
  BY <1>1, <1>2, <1>3, <1>4, <1>5, <1>6, <1>7, <1>8 DEF Step

\* Time, the servers and the callbacks leave the structs and the hashes in place.
LEMMA OthersAreQuiet ==
  ASSUME TypeInv,
         \/ \E t \in Threads, c \in Cursors : AddCallback(t, c)
         \/ \E c \in Cursors : RemoveCallback(c)
         \/ Surroundings
         \/ UNCHANGED vars
  PROVE  /\ UNCHANGED <<connections, callVars, pid>> /\ SameStructs
         /\ Len(blacklist') = Len(blacklist)
         /\ \A i \in 1..Len(blacklist) : blacklist'[i].hash = blacklist[i].hash
<1> USE DEF TypeInv, TypeOK
<1>0. \A a \in Addrs : Allocated(a) => heap[a] \in ConnectionShape
  BY AllocatedShape
<1>1. ASSUME NEW t \in Threads, NEW c \in Cursors, AddCallback(t, c) PROVE SameStructs
  <2>1. cur[t] \in Addrs /\ Allocated(cur[t])
    BY <1>1 DEF AddCallback, At, CallOK
  <2> QED
    BY <1>0, <1>1, <2>1 DEF AddCallback, SameStructs, ManagerTypes, ConnectionShape
<1>2. ASSUME NEW c \in Cursors, RemoveCallback(c) PROVE SameStructs
  <2>1. cursor[c] \in Addrs /\ Allocated(cursor[c])
    BY <1>2 DEF RemoveCallback, ManagerTypes
  <2> QED
    BY <1>0, <1>2, <2>1 DEF RemoveCallback, SameStructs, ManagerTypes, ConnectionShape
<1>3. CASE Tick
  <2>1. SameStructs
    BY <1>0, <1>3 DEF Tick, SameStructs, Allocated, ConnectionShape
  <2>2. Len(blacklist) \in Nat
    BY ListItems
  <2> DEFINE aged(i) == [hash |-> blacklist[i].hash,
                         data |-> Older(blacklist[i].data, PingInterval)]
  <2>3. blacklist' = [i \in 1..Len(blacklist) |-> aged(i)]
    BY <1>3 DEF Tick
  <2>4. \A i \in 1..Len(blacklist) : aged(i).hash = blacklist[i].hash
    OBVIOUS
  <2> HIDE DEF aged
  <2>5. /\ Len(blacklist') = Len(blacklist)
        /\ \A i \in 1..Len(blacklist) : blacklist'[i].hash = blacklist[i].hash
    BY <2>2, <2>3, <2>4
  <2>6. UNCHANGED <<connections, callVars, pid>>
    BY <1>3 DEF Tick
  <2> QED
    BY <2>1, <2>5, <2>6
<1>4. ASSUME NEW s \in Hosts, NEW crash \in BOOLEAN, ServerDown(s, crash) PROVE SameStructs
  BY <1>0, <1>4 DEF ServerDown, SameStructs, Allocated, ConnectionShape
<1>5. ASSUME UNCHANGED heap PROVE SameStructs
  BY <1>5 DEF SameStructs
<1> QED
  BY <1>1, <1>2, <1>3, <1>4, <1>5
  DEF Surroundings, AddCallback, RemoveCallback, ServerDown, ServerUp, ServerChange,
      mgrVars, callVars, vars

\* The initial lists are empty and no call is under way.
LEMMA InitLists == Init => HashIsUnique /\ UnderWay
BY EmptyList DEF Init, HashIsUnique, UnderWay, Making

\* Every step of a one-threaded program keeps ListInv.
LEMMA NextLists ==
  ASSUME OneThread, ListInv, [Next]_vars
  PROVE  ListInv'
<1>1. TypeInv'
  BY NextType DEF ListInv
<1>2. ASSUME NEW t \in Threads, NEW d \in Defs, Call(t, d) PROVE HashIsUnique' /\ UnderWay'
  <2>1. CASE SingleBlacklisted(t, d)
    BY <2>1, FailEnds, NothingUnderWay DEF ListInv, SingleBlacklisted, mgrVars, HashIsUnique
  <2> QED
    BY <1>2, <2>1, LookupLists DEF Call
<1>3. CASE Fork
  <2>1. \A t \in Threads : pc'[t] \notin Making \cup {"connect"}
    BY <1>3 DEF Fork, NoCalls, Making
  <2> QED
    BY <1>1, <1>3, <2>1 DEF Fork, mgrVars, ListInv, HashIsUnique, UnderWay
<1>4. CASE Deinit
  <2>1. \A t \in Threads : pc'[t] \notin Making \cup {"connect"}
    BY <1>4 DEF Deinit, NoCalls, Making
  <2>2. connections' = <<>> /\ blacklist' = <<>>
    BY <1>4 DEF Deinit
  <2>3. HashIsUnique'
    BY <2>2, EmptyList DEF HashIsUnique
  <2> QED
    BY <1>1, <2>1, <2>3 DEF ListInv, UnderWay
<1>5. ASSUME \/ \E t \in Threads, c \in Cursors : AddCallback(t, c)
             \/ \E c \in Cursors : RemoveCallback(c)
             \/ Surroundings
             \/ UNCHANGED vars
      PROVE  HashIsUnique' /\ UnderWay'
  BY <1>5, OthersAreQuiet, QuietStep DEF ListInv
<1> QED
  BY <1>1, <1>2, <1>3, <1>4, <1>5, StepLists DEF ListInv, Next

\* In a one-threaded program the lookup by hash is unambiguous: whatever fails,
\* forks or expires between the lookup and the registration, no hash gets a
\* second connection or a second blacklist entry, and none is in both lists.
THEOREM HashesUnique == ASSUME OneThread PROVE Spec => []HashIsUnique
<1>1. Init => ListInv
  BY InitType, InitLists DEF ListInv
<1>2. ListInv /\ [Next]_vars => ListInv'
  BY NextLists
<1>3. ListInv => HashIsUnique
  BY DEF ListInv
<1> QED
  BY <1>1, <1>2, <1>3, PTL DEF Spec
-----------------------------------------------------------------------------
(* No dangling pointer in the registry, for the replica-set callers: the    *)
(* caller for several standalone servers destroys without deregistering.    *)

NoMulti == "MULTI" \notin Kinds

\* Destroying a connection whose hash is not registered leaves the registry's
\* structs alone.
LEMMA DestroyUnlistedAlive ==
  ASSUME TypeInv, RegisteredAlive, NEW a \in Addrs, Destroy(a),
         ~HasHash(connections, heap[a].hash), UNCHANGED connections
  PROVE  RegisteredAlive'
<1> SUFFICES ASSUME NEW i \in 1..Len(connections)
             PROVE  LET b == connections[i].data
                    IN heap'[b].mem /\ heap'[b].hash = connections[i].hash
  BY DEF RegisteredAlive, Allocated
<1> DEFINE b == connections[i].data
<1>1. heap[b].mem /\ heap[b].hash = connections[i].hash
  BY DEF RegisteredAlive, Allocated
<1>2. b # a
  BY <1>1 DEF HasHash
<1>3. heap'[b] = heap[b]
  BY <1>2, RegisteredAddress DEF Destroy, TypeInv, TypeOK, ManagerTypes
<1> QED
  BY <1>1, <1>3

\* Deregistering removes every registered pointer to the struct it frees: the
\* registry knows the struct by one hash, and that hash once.
LEMMA DeregisterAlive ==
  ASSUME TypeInv, HashIsUnique, RegisteredAlive, NEW a \in Addrs,
         DeregisterConnection(a)
  PROVE  RegisteredAlive'
<1>1. CASE HasHash(connections, heap[a].hash)
  <2> DEFINE h == heap[a].hash
             L == Deregister(connections, h)
  <2>1. connections' = L /\ Destroy(a)
    BY <1>1 DEF DeregisterConnection
  <2>2. \A i \in 1..Len(L) :
          \E j \in 1..Len(connections) : L[i] = connections[j] /\ connections[j].hash # h
    <3>1. connections \in Seq(Items(Hashes, Addrs)) /\ UniqueHashes(connections)
      BY ListItems DEF HashIsUnique
    <3> QED
      BY <3>1, DeregisterUnique
  <2> HIDE DEF L
  <2> SUFFICES ASSUME NEW i \in 1..Len(L)
               PROVE  LET b == L[i].data
                      IN heap'[b].mem /\ heap'[b].hash = L[i].hash
    BY <2>1 DEF RegisteredAlive, Allocated
  <2> DEFINE b == L[i].data
  <2>j. PICK j \in 1..Len(connections) : L[i] = connections[j] /\ connections[j].hash # h
    BY <2>2
  <2>3. heap[b].mem /\ heap[b].hash = L[i].hash /\ L[i].hash # h
    BY <2>j DEF RegisteredAlive, Allocated
  <2>4. heap'[b] = heap[b]
    BY <2>1, <2>3, <2>j, RegisteredAddress DEF Destroy, TypeInv, TypeOK, ManagerTypes
  <2> QED
    BY <2>3, <2>4
<1>2. CASE ~HasHash(connections, heap[a].hash)
  BY <1>2 DEF DeregisterConnection, RegisteredAlive, Allocated
<1> QED
  BY <1>1, <1>2

\* A step that leaves the registry and the structs alone.
LEMMA SameStructsAlive ==
  ASSUME TypeInv, RegisteredAlive, UNCHANGED connections, SameStructs
  PROVE  RegisteredAlive'
BY RegisteredAddress DEF RegisteredAlive, Allocated, SameStructs

\* The steps of a call keep the registered structs alive.
LEMMA StepAlive ==
  ASSUME NoMulti, ListInv, RegisteredAlive, NEW t \in Threads, Step(t)
  PROVE  RegisteredAlive'
<1> DEFINE a == cur[t]
<1> USE DEF ListInv
<1>0. ASSUME pc[t] \notin {"null", "connect"}
      PROVE  a \in Addrs /\ kind[t] # "MULTI"
  BY <1>0 DEF TypeInv, CallOK, NoMulti
<1>a. ASSUME a \in Addrs, pc[t] \in Making, Destroy(a), UNCHANGED connections
      PROVE  RegisteredAlive'
  <2>1. ~HasHash(connections, heap[a].hash)
    BY <1>a DEF UnderWay, Unlisted
  <2> QED
    BY <1>a, <2>1, DestroyUnlistedAlive
<1>b. ASSUME UNCHANGED <<connections, heap>> PROVE RegisteredAlive'
  BY <1>b DEF RegisteredAlive, Allocated
<1>1. CASE SinglePing(t)
  <2>1. a \in Addrs /\ Allocated(a)
    BY <1>0, <1>1 DEF SinglePing, At
  <2>2. CASE heap' = [heap EXCEPT ![a].ping = 0] /\ UNCHANGED connections
    <3>1. SameStructs
      BY <2>1, <2>2, AllocatedShape
      DEF TypeInv, TypeOK, ManagerTypes, SameStructs, ConnectionShape
    <3> QED
      BY <2>2, <3>1, SameStructsAlive
  <2> QED
    BY <1>1, <1>b, <2>1, <2>2, DeregisterAlive DEF SinglePing
<1>2. CASE SingleConnect(t)
  <2>1. UNCHANGED connections
    BY <1>2 DEF SingleConnect
  <2>2. CASE UNCHANGED heap
    BY <1>b, <2>1, <2>2
  <2>3. ASSUME NEW b \in Addrs, Fresh(b), NEW h, heap' = [heap EXCEPT ![b] = NewConnection(h)]
        PROVE  RegisteredAlive'
    <3>1. \A i \in 1..Len(connections) :
            connections[i].data # b /\ connections[i].data \in Addrs
      BY <2>3, RegisteredAddress DEF Fresh
    <3>2. \A i \in 1..Len(connections) : heap'[connections[i].data] = heap[connections[i].data]
      BY <2>3, <3>1 DEF TypeInv, TypeOK, ManagerTypes
    <3> QED
      BY <2>1, <3>2 DEF RegisteredAlive, Allocated
  <2> QED
    BY <1>2, <2>2, <2>3 DEF SingleConnect
<1>3. CASE SingleIsMaster(t)
  <2>1. a \in Addrs /\ pc[t] \in Making /\ Allocated(a) /\ UNCHANGED connections
    BY <1>0, <1>3 DEF SingleIsMaster, At, Making
  <2>2. CASE heap' = AfterIsMaster(a, FALSE)
    BY <2>1, <2>2, AfterIsMasterHash, SameStructsAlive DEF TypeInv
  <2> QED
    BY <1>3, <1>a, <2>1, <2>2 DEF SingleIsMaster
<1>4. CASE SingleServerVersion(t)
  <2>1. a \in Addrs /\ pc[t] \in Making /\ UNCHANGED connections
    BY <1>0, <1>4 DEF SingleServerVersion, At, Making
  <2> QED
    BY <1>4, <1>a, <1>b, <2>1 DEF SingleServerVersion
<1>5. CASE SingleAuthenticate(t)
  <2>1. a \in Addrs /\ pc[t] \in Making /\ Allocated(a) /\ UNCHANGED connections
    BY <1>0, <1>5 DEF SingleAuthenticate, At, Making
  <2>2. CASE heap' = [heap EXCEPT ![a].auth = Identity(arg[t])]
    <3>1. SameStructs
      BY <2>1, <2>2, AllocatedShape
      DEF TypeInv, TypeOK, ManagerTypes, SameStructs, ConnectionShape
    <3> QED
      BY <2>1, <3>1, SameStructsAlive
  <2> QED
    BY <1>5, <1>a, <1>b, <2>1, <2>2 DEF SingleAuthenticate
<1>6. CASE SingleFirstPing(t)
  <2>1. a \in Addrs /\ pc[t] \in Making /\ Allocated(a)
    BY <1>0, <1>6 DEF SingleFirstPing, At, Making
  <2>2. CASE /\ heap' = [heap EXCEPT ![a].ping = 0]
             /\ connections' = Register(connections, heap[a].hash, a)
    <3> DEFINE L == Register(connections, heap[a].hash, a)
    <3>1. heap[a].hash \in Hashes
      BY <2>1, AllocatedShape DEF TypeInv, ConnectionShape
    <3>2. /\ Len(L) = Len(connections) + 1 /\ Len(connections) \in Nat
          /\ \A i \in 1..Len(connections) : L[i] = connections[i]
          /\ L[Len(connections) + 1] = [hash |-> heap[a].hash, data |-> a]
      BY <2>1, <3>1, ListItems, RegisterUnique
    <3>3. \A i \in 1..Len(connections) : connections[i].data \in Addrs
      BY RegisteredAddress
    <3>4. SameStructs
      BY <2>1, <2>2, AllocatedShape
      DEF TypeInv, TypeOK, ManagerTypes, SameStructs, ConnectionShape
    <3> HIDE DEF L
    <3> SUFFICES ASSUME NEW i \in 1..Len(L)
                 PROVE  heap'[L[i].data].mem /\ heap'[L[i].data].hash = L[i].hash
      BY <2>2 DEF RegisteredAlive, Allocated, L
    <3>5. CASE i \in 1..Len(connections)
      BY <3>2, <3>3, <3>4, <3>5 DEF RegisteredAlive, Allocated, SameStructs
    <3>6. CASE i = Len(connections) + 1
      BY <2>1, <3>2, <3>4, <3>6 DEF Allocated, SameStructs
    <3> QED
      BY <3>2, <3>5, <3>6
  <2> QED
    BY <1>6, <1>a, <2>1, <2>2 DEF SingleFirstPing
<1>7. CASE CallerIsMaster(t)
  <2>1. a \in Addrs /\ Allocated(a) /\ kind[t] # "MULTI"
    BY <1>0, <1>7 DEF CallerIsMaster, At
  <2>2. CASE heap' = AfterIsMaster(a, kind[t] = "SEED") /\ UNCHANGED connections
    BY <2>1, <2>2, AfterIsMasterHash, SameStructsAlive DEF TypeInv
  <2> QED
    BY <1>7, <2>1, <2>2, DeregisterAlive DEF CallerIsMaster
<1>8. CASE UseFreed(t)
  BY <1>8, <1>b DEF UseFreed, mgrVars
<1> QED
  BY <1>1, <1>2, <1>3, <1>4, <1>5, <1>6, <1>7, <1>8 DEF Step

\* Every step keeps the registered structs alive.
LEMMA NextAlive ==
  ASSUME NoMulti, ListInv, RegisteredAlive, [Next]_vars
  PROVE  RegisteredAlive'
<1>1. ASSUME UNCHANGED <<connections, heap>> PROVE RegisteredAlive'
  BY <1>1 DEF RegisteredAlive, Allocated
<1>2. ASSUME NEW t \in Threads, NEW d \in Defs, Call(t, d) PROVE RegisteredAlive'
  BY <1>1, <1>2 DEF Call, SingleBlacklisted, SingleLookup, mgrVars
<1>3. CASE Fork
  BY <1>1, <1>3 DEF Fork, mgrVars
<1>4. CASE Deinit
  BY <1>4 DEF Deinit, RegisteredAlive
<1>5. ASSUME \/ \E t \in Threads, c \in Cursors : AddCallback(t, c)
             \/ \E c \in Cursors : RemoveCallback(c)
             \/ Surroundings
             \/ UNCHANGED vars
      PROVE  RegisteredAlive'
  BY <1>5, OthersAreQuiet, SameStructsAlive DEF ListInv
<1> QED
  BY <1>2, <1>3, <1>4, <1>5, StepAlive DEF Next

\* In a one-threaded program that talks to replica sets, every pointer in
\* manager->connections leads to a live struct with the hash it is filed under.
THEOREM RegistryAlive == ASSUME OneThread, NoMulti PROVE Spec => []RegisteredAlive
<1>1. Init => ListInv /\ RegisteredAlive
  <2>1. Init => RegisteredAlive
    BY DEF Init, RegisteredAlive
  <2> QED
    BY <2>1, InitType, InitLists DEF ListInv
<1>2. ListInv /\ RegisteredAlive /\ [Next]_vars => (ListInv /\ RegisteredAlive)'
  BY NextLists, NextAlive
<1> QED
  BY <1>1, <1>2, PTL DEF Spec

-----------------------------------------------------------------------------
(* The outcomes of a step of a call.  Every proof below is by these cases.  *)

\* Every item of manager->connections was there before.
NoNewItem ==
  \A i \in 1..Len(connections') : \E j \in 1..Len(connections) : connections'[i] = connections[j]

\* A connection is made.
Makes(t) ==
  /\ pc[t] = "connect"
  /\ \E b \in Addrs : /\ Fresh(b)
                      /\ heap' = [heap EXCEPT ![b] = NewConnection(Hash(arg[t]))]
                      /\ Go(t, b, "ismaster")
  /\ UNCHANGED <<connections, cursor>>

\* The attempt ends, and the connection in hand may be destroyed.
GivesUp(t) ==
  /\ Fail(t)
  /\ NoNewItem
  /\ \/ UNCHANGED <<heap, cursor>>
     \/ cur[t] \in Addrs /\ Allocated(cur[t]) /\ Destroy(cur[t])

\* What a call may write into a live struct a on its way.
Writes(t, a) ==
  \/ UNCHANGED heap
  \/ heap' = [heap EXCEPT ![a].ping = 0]
  \/ \E seed \in BOOLEAN : /\ seed => IsMasterResult(a, seed) # 4
                           /\ heap' = AfterIsMaster(a, seed)
  \/ /\ pc[t] = "auth"
     /\ heap' = [heap EXCEPT ![a].auth = Identity(arg[t])]

\* The call goes on with the connection in hand, which the first ping registers.
GoesOn(t) ==
  LET a == cur[t]
  IN /\ a \in Addrs /\ Allocated(a)
     /\ Writes(t, a)
     /\ UNCHANGED cursor
     /\ \/ /\ pc[t] = "firstping"
           /\ connections' = Register(connections, heap[a].hash, a)
           /\ Go(t, a, "check")
        \/ /\ UNCHANGED connections
           /\ \/ pc[t] = "ismaster" /\ Go(t, a, "buildinfo")
              \/ pc[t] = "buildinfo" /\ Go(t, a, "auth")
              \/ /\ pc[t] = "auth" /\ Go(t, a, "firstping")
                 /\ heap[a].type = "ARBITER" \/ heap'[a].auth = Identity(arg[t])
              \/ pc[t] = "ping" /\ Go(t, a, "check")
              \/ /\ pc[t] = "check" /\ Go(t, a, "ready")
                 /\ IsMasterResult(a, kind[t] = "SEED") \in {1, 2}
                 /\ heap' = AfterIsMaster(a, kind[t] = "SEED")

\* Unlinking adds no item.
LEMMA UnlinkedItems ==
  ASSUME NEW S, NEW list \in Seq(S), NEW P \in SUBSET (1..Len(list))
  PROVE  \A i \in 1..Len(UnlinkFirst(list, P)) :
           \E j \in 1..Len(list) : UnlinkFirst(list, P)[i] = list[j]
<1>1. CASE P = {}
  BY <1>1 DEF UnlinkFirst
<1>2. CASE P # {}
  <2> DEFINE n == Len(list) - 1
             L == UnlinkFirst(list, P)
  <2>0. PICK k \in 1..Len(list) : k \in P
    BY <1>2
  <2>1. Len(list) \in Nat /\ n \in Nat
    BY <2>0
  <2>2. L = [i \in 1..n |-> IF \E j \in P : j <= i THEN list[i + 1] ELSE list[i]]
    BY <1>2 DEF UnlinkFirst
  <2>3. Len(L) = n /\ \A i \in 1..n : L[i] = list[i + 1] \/ L[i] = list[i]
    BY <2>1, <2>2
  <2> HIDE DEF L
  <2>4. \A i \in 1..n : i \in 1..Len(list) /\ i + 1 \in 1..Len(list)
    BY <2>1
  <2> QED
    BY <2>3, <2>4 DEF L
<1> QED
  BY <1>1, <1>2

\* mongo_manager_connection_deregister adds no item, and it destroys or does
\* nothing.
LEMMA DeregisterOutcome ==
  ASSUME TypeInv, NEW a \in Addrs, DeregisterConnection(a)
  PROVE  NoNewItem /\ (UNCHANGED <<heap, cursor>> \/ Destroy(a))
<1>1. CASE HasHash(connections, heap[a].hash)
  <2> DEFINE P == {i \in 1..Len(connections) : connections[i].hash = heap[a].hash}
  <2>1. connections' = UnlinkFirst(connections, P) /\ Destroy(a)
    BY <1>1 DEF DeregisterConnection, Deregister
  <2>2. connections \in Seq(Items(Hashes, Addrs)) /\ P \in SUBSET (1..Len(connections))
    BY ListItems
  <2> HIDE DEF P
  <2> QED
    BY <2>1, <2>2, UnlinkedItems DEF NoNewItem
<1>2. CASE ~HasHash(connections, heap[a].hash)
  BY <1>2 DEF DeregisterConnection, NoNewItem
<1> QED
  BY <1>1, <1>2

\* These are all the outcomes.
LEMMA StepOutcome ==
  ASSUME TypeInv, NEW t \in Threads, Step(t)
  PROVE  Makes(t) \/ GivesUp(t) \/ GoesOn(t) \/ UseFreed(t)
<1> DEFINE a == cur[t]
<1>0. pc[t] \notin {"null", "connect"} => a \in Addrs
  BY DEF TypeInv, CallOK
<1>a. UNCHANGED connections => NoNewItem
  BY DEF NoNewItem
<1>b. UNCHANGED heap => Writes(t, a)
  BY DEF Writes
<1>1. CASE SinglePing(t)
  <2>1. a \in Addrs /\ Allocated(a) /\ pc[t] = "ping"
    BY <1>0, <1>1 DEF SinglePing, At
  <2>2. CASE Go(t, a, "check") /\ UNCHANGED <<connections, heap, cursor>>
    BY <1>b, <2>1, <2>2 DEF GoesOn
  <2>3. CASE heap' = [heap EXCEPT ![a].ping = 0] /\ Go(t, a, "check")
             /\ UNCHANGED <<connections, cursor>>
    BY <2>1, <2>3 DEF GoesOn, Writes
  <2>4. CASE DeregisterConnection(a) /\ Fail(t)
    BY <2>1, <2>4, DeregisterOutcome DEF GivesUp
  <2> QED
    BY <1>1, <2>2, <2>3, <2>4 DEF SinglePing
<1>2. CASE SingleConnect(t)
  BY <1>2, <1>a DEF SingleConnect, At, Makes, GivesUp
<1>3. CASE SingleIsMaster(t)
  <2>1. a \in Addrs /\ Allocated(a) /\ pc[t] = "ismaster" /\ UNCHANGED connections
    BY <1>0, <1>3 DEF SingleIsMaster, At
  <2>2. CASE heap' = AfterIsMaster(a, FALSE) /\ Go(t, a, "buildinfo") /\ UNCHANGED cursor
    BY <2>1, <2>2 DEF GoesOn, Writes
  <2> QED
    BY <1>3, <1>a, <2>1, <2>2 DEF SingleIsMaster, GivesUp
<1>4. CASE SingleServerVersion(t)
  <2>1. a \in Addrs /\ Allocated(a) /\ pc[t] = "buildinfo" /\ UNCHANGED connections
    BY <1>0, <1>4 DEF SingleServerVersion, At
  <2> QED
    BY <1>4, <1>a, <1>b, <2>1 DEF SingleServerVersion, GoesOn, GivesUp
<1>5. CASE SingleAuthenticate(t)
  <2>1. a \in Addrs /\ Allocated(a) /\ pc[t] = "auth" /\ UNCHANGED connections
    BY <1>0, <1>5 DEF SingleAuthenticate, At
  <2>2. CASE heap[a].type = "ARBITER" /\ Go(t, a, "firstping") /\ UNCHANGED <<heap, cursor>>
    BY <1>b, <2>1, <2>2 DEF GoesOn
  <2>3. CASE /\ heap' = [heap EXCEPT ![a].auth = Identity(arg[t])]
             /\ Go(t, a, "firstping") /\ UNCHANGED cursor
    <3>1. heap'[a].auth = Identity(arg[t])
      BY <2>1, <2>3, AllocatedShape DEF TypeInv, TypeOK, ManagerTypes, ConnectionShape
    <3> QED
      BY <2>1, <2>3, <3>1 DEF GoesOn, Writes
  <2>4. CASE Destroy(a) /\ Fail(t)
    BY <1>a, <2>1, <2>4 DEF GivesUp
  <2> QED
    BY <1>5, <2>2, <2>3, <2>4 DEF SingleAuthenticate
<1>6. CASE SingleFirstPing(t)
  <2>1. a \in Addrs /\ Allocated(a) /\ pc[t] = "firstping"
    BY <1>0, <1>6 DEF SingleFirstPing, At
  <2> QED
    BY <1>6, <1>a, <2>1 DEF SingleFirstPing, GoesOn, Writes, GivesUp
<1>7. CASE CallerIsMaster(t)
  <2>1. a \in Addrs /\ Allocated(a) /\ pc[t] = "check"
    BY <1>0, <1>7 DEF CallerIsMaster, At
  <2>2. CASE /\ IsMasterResult(a, kind[t] = "SEED") \in {1, 2}
             /\ heap' = AfterIsMaster(a, kind[t] = "SEED")
             /\ Go(t, a, "ready") /\ UNCHANGED <<connections, cursor>>
    <3> DEFINE seed == kind[t] = "SEED"
    <3>0. seed \in BOOLEAN /\ IsMasterResult(a, seed) # 4 /\ heap' = AfterIsMaster(a, seed)
      BY <2>2
    <3> HIDE DEF seed
    <3>1. Writes(t, a)
      BY <3>0 DEF Writes
    <3> QED
      BY <2>1, <2>2, <3>1 DEF GoesOn
  <2>3. CASE DeregisterConnection(a) /\ Fail(t)
    BY <2>1, <2>3, DeregisterOutcome DEF GivesUp
  <2>4. CASE Destroy(a) /\ Fail(t) /\ UNCHANGED connections
    BY <1>a, <2>1, <2>4 DEF GivesUp
  <2> QED
    BY <1>7, <2>2, <2>3, <2>4 DEF CallerIsMaster
<1> QED
  BY <1>1, <1>2, <1>3, <1>4, <1>5, <1>6, <1>7 DEF Step
-----------------------------------------------------------------------------
(* Cursors and cleanup lists.  CallbacksMatch is inductive: malloc never     *)
(* returns an address that a cursor still holds, and destroying a struct     *)
(* resets exactly the cursors it lists.                                      *)

\* The structs, their cleanup lists and the cursors stay as they are.
SameCallbacks ==
  /\ SameStructs
  /\ \A a \in Addrs : heap[a].mem => heap'[a].cbs = heap[a].cbs

\* What a call writes into a struct leaves its cleanup list alone.
LEMMA WritesKeep ==
  ASSUME TypeInv, NEW t \in Threads, NEW a \in Addrs, Allocated(a), Writes(t, a)
  PROVE  SameCallbacks
<1>1. heap[a] \in ConnectionShape
  BY AllocatedShape DEF TypeInv
<1> USE DEF TypeInv, TypeOK, ManagerTypes, SameCallbacks, SameStructs, ConnectionShape
<1>2. CASE UNCHANGED heap
  BY <1>2
<1>3. CASE heap' = [heap EXCEPT ![a].ping = 0]
  BY <1>1, <1>3
<1>4. ASSUME NEW seed \in BOOLEAN, heap' = AfterIsMaster(a, seed) PROVE SameCallbacks
  <2> DEFINE r == ServerOf(a).reply
  <2>1. CASE heap' = [heap EXCEPT ![a].wire = r.wire]
    BY <1>1, <2>1
  <2>2. CASE heap' = [heap EXCEPT ![a] =
               [heap[a] EXCEPT !.wire = r.wire, !.type = r.role, !.master = 0,
                               !.repl = IF seed THEN 0 ELSE heap[a].repl]]
    BY <1>1, <2>2
  <2> QED
    BY <1>2, <1>4, <2>1, <2>2 DEF AfterIsMaster
<1>5. CASE heap' = [heap EXCEPT ![a].auth = Identity(arg[t])]
  BY <1>1, <1>5
<1> QED
  BY <1>2, <1>3, <1>4, <1>5 DEF Writes

\* A cleanup list is a sequence of cursors.
LEMMA CleanupList ==
  ASSUME TypeInv, NEW a \in Addrs, Allocated(a)
  PROVE  /\ heap[a].cbs \in Seq(Cursors) /\ Len(heap[a].cbs) \in Nat
         /\ \A i \in 1..Len(heap[a].cbs) : heap[a].cbs[i] \in Cursors
<1>1. heap[a].cbs \in Seq(Cursors)
  BY AllocatedShape DEF TypeInv, ConnectionShape
<1> QED
  BY <1>1

\* Steps that leave the cleanup lists and the cursors alone.
LEMMA QuietMatch ==
  ASSUME TypeInv, CallbacksMatch, SameCallbacks, UNCHANGED cursor
  PROVE  CallbacksMatch'
<1>1. \A c \in Cursors : cursor[c] # Null => cursor[c] \in Addrs
  BY DEF TypeInv, TypeOK, ManagerTypes
<1> QED
  BY <1>1 DEF CallbacksMatch, SameCallbacks, SameStructs, Allocated

\* A new struct has no callbacks, and no cursor holds its address.
LEMMA MakeMatch ==
  ASSUME TypeInv, CallbacksMatch, NEW b \in Addrs, Fresh(b), NEW h,
         heap' = [heap EXCEPT ![b] = NewConnection(h)], UNCHANGED cursor
  PROVE  CallbacksMatch'
<1>1. heap'[b].mem /\ heap'[b].cbs = <<>>
  BY DEF NewConnection, TypeInv, TypeOK, ManagerTypes
<1>2. \A a \in Addrs : a # b => heap'[a] = heap[a]
  BY DEF TypeInv, TypeOK, ManagerTypes
<1>3. \A c \in Cursors : cursor[c] # b /\ (cursor[c] # Null => cursor[c] \in Addrs)
  BY DEF Fresh, TypeInv, TypeOK, ManagerTypes
<1> QED
  BY <1>1, <1>2, <1>3 DEF CallbacksMatch, Allocated

\* Freeing the structs of a set F and resetting every cursor they list leaves no
\* cursor with a freed struct: a cursor is listed where it points to.
LEMMA FreeMatch ==
  ASSUME TypeInv, CallbacksMatch, NEW F \in SUBSET Addrs, \A a \in F : Allocated(a),
         heap' = [a \in Addrs |-> IF a \in F THEN Unallocated ELSE heap[a]],
         cursor' = [c \in Cursors |-> IF \E a \in F : c \in CallbacksOf(a)
                                      THEN Null ELSE cursor[c]]
  PROVE  CallbacksMatch'
<1>1. \A a \in Addrs : /\ a \in F => ~heap'[a].mem
                       /\ a \notin F => heap'[a] = heap[a]
  BY DEF Unallocated
<1>2. \A c \in Cursors : cursor[c] # Null => cursor[c] \in Addrs
  BY DEF TypeInv, TypeOK, ManagerTypes
<1>3. \A c \in Cursors : cursor[c] \in F => cursor'[c] = Null
  <2> SUFFICES ASSUME NEW c \in Cursors, cursor[c] \in F PROVE c \in CallbacksOf(cursor[c])
    OBVIOUS
  <2>1. cursor[c] # Null
    BY ConstantsAssumption
  <2> QED
    BY <2>1 DEF CallbacksMatch, CallbacksOf
<1>4. \A c \in Cursors : cursor[c] \notin F => cursor'[c] = cursor[c]
  <2> SUFFICES ASSUME NEW c \in Cursors, NEW a \in F, c \in CallbacksOf(a)
               PROVE  cursor[c] = a
    OBVIOUS
  <2> QED
    BY DEF CallbacksMatch, CallbacksOf
<1>5. \A a \in Addrs : Allocated(a) => \A i \in 1..Len(heap[a].cbs) : heap[a].cbs[i] \in Cursors
  BY CleanupList
<1> QED
  BY <1>1, <1>2, <1>3, <1>4, <1>5 DEF CallbacksMatch, Allocated

\* So does mongo_connection_destroy, which frees one.
LEMMA DestroyMatch ==
  ASSUME TypeInv, CallbacksMatch, NEW a \in Addrs, Allocated(a), Destroy(a)
  PROVE  CallbacksMatch'
<1>1. CASE heap[a].hash.pid = pid
  <2> DEFINE F == {a}
  <2>1. heap' = [b \in Addrs |-> IF b \in F THEN Unallocated ELSE heap[b]]
    BY <1>1 DEF Destroy, TypeInv, TypeOK, ManagerTypes
  <2>2. cursor' = [c \in Cursors |-> IF \E b \in F : c \in CallbacksOf(b)
                                     THEN Null ELSE cursor[c]]
    BY <1>1 DEF Destroy
  <2>3. F \in SUBSET Addrs /\ \A b \in F : Allocated(b)
    OBVIOUS
  <2> HIDE DEF F
  <2> QED
    BY <2>1, <2>2, <2>3, FreeMatch
<1>2. CASE heap[a].hash.pid # pid
  BY <1>2 DEF Destroy, CallbacksMatch, Allocated
<1> QED
  BY <1>1, <1>2

\* A cursor without a connection is on no list; it may be put on one.
LEMMA AddMatch ==
  ASSUME TypeInv, CallbacksMatch, NEW t \in Threads, NEW c \in Cursors, AddCallback(t, c)
  PROVE  CallbacksMatch'
<1> DEFINE a == cur[t]
           L == heap[a].cbs
           M == Append(L, c)
<1>1. a \in Addrs /\ Allocated(a) /\ cursor[c] = Null /\ a # Null
  BY ConstantsAssumption DEF AddCallback, At, TypeInv, CallOK
<1>2. heap[a] \in ConnectionShape
  BY <1>1, AllocatedShape DEF TypeInv
<1>3. /\ heap'[a].mem /\ heap'[a].cbs = M
      /\ \A b \in Addrs : b # a => heap'[b] = heap[b]
  BY <1>1, <1>2 DEF AddCallback, TypeInv, TypeOK, ManagerTypes, ConnectionShape
<1>4. cursor'[c] = a /\ \A x \in Cursors : x # c => cursor'[x] = cursor[x]
  BY DEF AddCallback, TypeInv, TypeOK, ManagerTypes
<1>5. \A x \in Cursors : cursor[x] # Null => cursor[x] \in Addrs
  BY DEF TypeInv, TypeOK, ManagerTypes
<1>6. \A b \in Addrs : Allocated(b) =>
        \A i \in 1..Len(heap[b].cbs) : heap[b].cbs[i] \in Cursors \ {c}
  BY <1>1, CleanupList, ConstantsAssumption DEF CallbacksMatch
<1>7. L \in Seq(Cursors) /\ Len(L) \in Nat
  BY <1>1, CleanupList
<1>8. /\ Len(M) = Len(L) + 1 /\ M[Len(L) + 1] = c
      /\ \A i \in 1..Len(L) : M[i] = L[i]
  BY <1>7
<1>9. /\ \A i \in 1..Len(L) : L[i] # c /\ cursor[L[i]] = a /\ L[i] \in Cursors
      /\ \A i, j \in 1..Len(L) : L[i] = L[j] => i = j
  BY <1>1, <1>6 DEF CallbacksMatch
<1> HIDE DEF M
<1>10. \A x \in Cursors : cursor'[x] # Null =>
         /\ heap'[cursor'[x]].mem
         /\ \E i \in 1..Len(heap'[cursor'[x]].cbs) : heap'[cursor'[x]].cbs[i] = x
  <2> SUFFICES ASSUME NEW x \in Cursors, cursor'[x] # Null
               PROVE  /\ heap'[cursor'[x]].mem
                      /\ \E i \in 1..Len(heap'[cursor'[x]].cbs) : heap'[cursor'[x]].cbs[i] = x
    OBVIOUS
  <2>1. CASE x = c
    BY <1>3, <1>4, <1>7, <1>8, <2>1
  <2>2. CASE x # c /\ cursor[x] = a
    <3>1. \E i \in 1..Len(L) : L[i] = x
      BY <1>1, <2>2 DEF CallbacksMatch
    <3>2. \E i \in 1..Len(M) : M[i] = x
      BY <1>7, <1>8, <3>1
    <3>3. cursor'[x] = a
      BY <1>4, <2>2
    <3> QED
      BY <1>3, <3>2, <3>3
  <2>3. CASE x # c /\ cursor[x] # a
    BY <1>3, <1>4, <1>5, <2>3 DEF CallbacksMatch, Allocated
  <2> QED
    BY <2>1, <2>2, <2>3
<1>11. \A b \in Addrs : heap'[b].mem =>
         /\ \A i \in 1..Len(heap'[b].cbs) : cursor'[heap'[b].cbs[i]] = b
         /\ \A i, j \in 1..Len(heap'[b].cbs) : heap'[b].cbs[i] = heap'[b].cbs[j] => i = j
  <2> SUFFICES ASSUME NEW b \in Addrs, heap'[b].mem
               PROVE  /\ \A i \in 1..Len(heap'[b].cbs) : cursor'[heap'[b].cbs[i]] = b
                      /\ \A i, j \in 1..Len(heap'[b].cbs) :
                           heap'[b].cbs[i] = heap'[b].cbs[j] => i = j
    OBVIOUS
  <2>1. CASE b = a
    <3>1. \A i \in 1..Len(M) : i \in 1..Len(L) \/ i = Len(L) + 1
      BY <1>7, <1>8
    <3>2. ASSUME NEW i \in 1..Len(M) PROVE cursor'[M[i]] = a
      <4>1. CASE i \in 1..Len(L)
        <5>1. M[i] = L[i] /\ L[i] # c /\ cursor[L[i]] = a /\ L[i] \in Cursors
          BY <1>8, <1>9, <4>1
        <5> QED
          BY <1>4, <5>1
      <4>2. CASE i = Len(L) + 1
        BY <1>4, <1>8, <4>2
      <4> QED
        BY <3>1, <4>1, <4>2
    <3>3. \A i, j \in 1..Len(M) : M[i] = M[j] => i = j
      BY <1>8, <1>9, <3>1
    <3> QED
      BY <1>3, <2>1, <3>2, <3>3
  <2>2. CASE b # a
    <3>1. heap'[b] = heap[b] /\ Allocated(b)
      BY <1>3, <2>2 DEF Allocated
    <3>2. /\ \A i \in 1..Len(heap[b].cbs) : cursor[heap[b].cbs[i]] = b
          /\ \A i, j \in 1..Len(heap[b].cbs) : heap[b].cbs[i] = heap[b].cbs[j] => i = j
      BY <3>1 DEF CallbacksMatch
    <3>3. ASSUME NEW i \in 1..Len(heap[b].cbs) PROVE cursor'[heap[b].cbs[i]] = b
      <4>1. heap[b].cbs[i] \in Cursors \ {c}
        BY <1>6, <3>1
      <4> QED
        BY <1>4, <3>2, <4>1
    <3> QED
      BY <3>1, <3>2, <3>3
  <2> QED
    BY <2>1, <2>2
<1> QED
  BY <1>10, <1>11 DEF CallbacksMatch, Allocated

\* Unlinking the element at place k moves the others up and changes nothing else.
LEMMA UnlinkOne ==
  ASSUME NEW S, NEW list \in Seq(S), NEW k \in 1..Len(list)
  PROVE  LET L == UnlinkFirst(list, {k})
         IN /\ Len(list) \in Nat /\ Len(L) = Len(list) - 1 /\ Len(L) \in Nat
            /\ \A i \in 1..Len(L) : L[i] = IF k <= i THEN list[i + 1] ELSE list[i]
            /\ \A j \in 1..Len(list) : j # k => \E i \in 1..Len(L) : L[i] = list[j]
<1> DEFINE n == Len(list) - 1
           L == UnlinkFirst(list, {k})
<1>1. Len(list) \in Nat /\ n \in Nat
  OBVIOUS
<1>2. L = [i \in 1..n |-> IF k <= i THEN list[i + 1] ELSE list[i]]
  BY DEF UnlinkFirst
<1> HIDE DEF L
<1>3. Len(L) = n /\ \A i \in 1..n : L[i] = IF k <= i THEN list[i + 1] ELSE list[i]
  BY <1>1, <1>2
<1>4. ASSUME NEW j \in 1..Len(list), j # k PROVE \E i \in 1..n : L[i] = list[j]
  <2>1. CASE j < k
    BY <1>1, <1>3, <2>1
  <2>2. CASE j > k
    <3>1. j - 1 \in 1..n /\ k <= j - 1 /\ (j - 1) + 1 = j
      BY <1>1, <2>2
    <3> QED
      BY <1>3, <3>1
  <2> QED
    BY <1>1, <1>4, <2>1, <2>2
<1> QED
  BY <1>1, <1>3, <1>4 DEF L

\* A cursor that goes away is on one list, once, and leaves it.
LEMMA RemoveMatch ==
  ASSUME TypeInv, CallbacksMatch, NEW c \in Cursors, RemoveCallback(c)
  PROVE  CallbacksMatch'
<1> DEFINE a == cursor[c]
           L == heap[a].cbs
           M == Unlink(L, c)
<1>1. a \in Addrs /\ Allocated(a) /\ a # Null
  BY ConstantsAssumption DEF RemoveCallback, TypeInv, TypeOK, ManagerTypes
<1>2. heap[a] \in ConnectionShape
  BY <1>1, AllocatedShape DEF TypeInv
<1>3. /\ heap'[a].mem /\ heap'[a].cbs = M
      /\ \A b \in Addrs : b # a => heap'[b] = heap[b]
  BY <1>1, <1>2 DEF RemoveCallback, TypeInv, TypeOK, ManagerTypes, ConnectionShape
<1>4. cursor'[c] = Null /\ \A x \in Cursors : x # c => cursor'[x] = cursor[x]
  BY DEF RemoveCallback, TypeInv, TypeOK, ManagerTypes
<1>5. \A x \in Cursors : cursor[x] # Null => cursor[x] \in Addrs
  BY DEF TypeInv, TypeOK, ManagerTypes
<1>6. PICK k \in 1..Len(L) : L[k] = c
  BY <1>1 DEF CallbacksMatch
<1>7. /\ \A i \in 1..Len(L) : L[i] \in Cursors /\ cursor[L[i]] = a
      /\ \A i, j \in 1..Len(L) : L[i] = L[j] => i = j
  BY <1>1, CleanupList DEF CallbacksMatch
<1>8. M = UnlinkFirst(L, {k})
  <2>1. {i \in 1..Len(L) : L[i] = c} = {k}
    BY <1>6, <1>7
  <2> QED
    BY <2>1 DEF Unlink
<1>9. /\ Len(L) \in Nat /\ Len(M) = Len(L) - 1 /\ Len(M) \in Nat
      /\ \A i \in 1..Len(M) : M[i] = IF k <= i THEN L[i + 1] ELSE L[i]
      /\ \A j \in 1..Len(L) : j # k => \E i \in 1..Len(M) : M[i] = L[j]
  <2>1. L \in Seq(Cursors)
    BY <1>1, CleanupList
  <2> HIDE DEF M, L
  <2> QED
    BY <1>6, <1>8, <2>1, UnlinkOne
<1> HIDE DEF M, L
<1>10. \A i \in 1..Len(M) : M[i] \in Cursors /\ M[i] # c /\ cursor[M[i]] = a
  <2> SUFFICES ASSUME NEW i \in 1..Len(M)
               PROVE  M[i] \in Cursors /\ M[i] # c /\ cursor[M[i]] = a
    OBVIOUS
  <2> DEFINE p == IF k <= i THEN i + 1 ELSE i
  <2>1. p \in 1..Len(L) /\ p # k /\ M[i] = L[p]
    BY <1>6, <1>9
  <2> HIDE DEF p
  <2> QED
    BY <1>6, <1>7, <2>1
<1>11. \A i, j \in 1..Len(M) : M[i] = M[j] => i = j
  <2> SUFFICES ASSUME NEW i \in 1..Len(M), NEW j \in 1..Len(M), M[i] = M[j] PROVE i = j
    OBVIOUS
  <2> DEFINE p == IF k <= i THEN i + 1 ELSE i
             q == IF k <= j THEN j + 1 ELSE j
  <2>a. p \in 1..Len(L) /\ M[i] = L[p]
    BY <1>6, <1>9
  <2>b. q \in 1..Len(L) /\ M[j] = L[q]
    BY <1>6, <1>9
  <2>1. p \in 1..Len(L) /\ q \in 1..Len(L) /\ L[p] = L[q]
    BY <2>a, <2>b
  <2>2. p = q
    <3> HIDE DEF p, q
    <3> QED
      BY <1>7, <2>1
  <2> QED
    BY <1>6, <1>9, <2>2
<1>12. ASSUME NEW x \in Cursors, cursor'[x] # Null
       PROVE  /\ heap'[cursor'[x]].mem
              /\ \E i \in 1..Len(heap'[cursor'[x]].cbs) : heap'[cursor'[x]].cbs[i] = x
  <2>1. x # c /\ cursor'[x] = cursor[x]
    BY <1>4, <1>12
  <2>2. CASE cursor[x] = a
    <3>1. PICK j \in 1..Len(L) : L[j] = x
      BY <1>1, <1>12, <2>1, <2>2 DEF CallbacksMatch, L
    <3>2. \E i \in 1..Len(M) : M[i] = x
      BY <1>6, <1>9, <2>1, <3>1
    <3> QED
      BY <1>3, <2>1, <2>2, <3>2
  <2>3. CASE cursor[x] # a
    BY <1>3, <1>5, <1>12, <2>1, <2>3 DEF CallbacksMatch, Allocated
  <2> QED
    BY <2>2, <2>3
<1>13. ASSUME NEW b \in Addrs, heap'[b].mem
       PROVE  /\ \A i \in 1..Len(heap'[b].cbs) : cursor'[heap'[b].cbs[i]] = b
              /\ \A i, j \in 1..Len(heap'[b].cbs) :
                   heap'[b].cbs[i] = heap'[b].cbs[j] => i = j
  <2>1. CASE b = a
    BY <1>3, <1>4, <1>10, <1>11, <2>1
  <2>2. CASE b # a
    <3>1. Allocated(b) /\ heap'[b] = heap[b]
      BY <1>3, <1>13, <2>2 DEF Allocated
    <3>2. \A i \in 1..Len(heap[b].cbs) :
            heap[b].cbs[i] \in Cursors /\ cursor[heap[b].cbs[i]] = b
      BY <3>1, CleanupList DEF CallbacksMatch
    <3> QED
      BY <1>4, <2>2, <3>1, <3>2 DEF CallbacksMatch
  <2> QED
    BY <2>1, <2>2
<1> QED
  BY <1>12, <1>13 DEF CallbacksMatch, Allocated

\* mongo_deinit frees what it destroys and resets the cursors of that.
LEMMA DeinitMatch ==
  ASSUME TypeInv, CallbacksMatch, Deinit
  PROVE  CallbacksMatch'
<1> DEFINE F == {a \in Addrs : \E i \in 1..Len(connections) :
                    connections[i].data = a /\ Allocated(a) /\ heap[a].hash.pid = pid}
<1>1. /\ heap' = [a \in Addrs |-> IF a \in F THEN Unallocated ELSE heap[a]]
      /\ cursor' = [c \in Cursors |-> IF \E a \in F : c \in CallbacksOf(a)
                                      THEN Null ELSE cursor[c]]
  BY DEF Deinit
<1>2. F \in SUBSET Addrs /\ \A a \in F : Allocated(a)
  OBVIOUS
<1> HIDE DEF F
<1> QED
  BY <1>1, <1>2, FreeMatch

\* Time and the servers leave the cleanup lists alone.
LEMMA SurroundingsKeep ==
  ASSUME TypeInv, Surroundings
  PROVE  SameCallbacks /\ UNCHANGED cursor
<1>0. \A a \in Addrs : Allocated(a) => heap[a] \in ConnectionShape
  BY AllocatedShape DEF TypeInv
<1>1. CASE Tick
  BY <1>0, <1>1 DEF Tick, SameCallbacks, SameStructs, Allocated, ConnectionShape
<1>2. ASSUME NEW s \in Hosts, NEW crash \in BOOLEAN, ServerDown(s, crash)
      PROVE  SameCallbacks /\ UNCHANGED cursor
  BY <1>0, <1>2 DEF ServerDown, SameCallbacks, SameStructs, Allocated, ConnectionShape
<1>3. ASSUME UNCHANGED <<heap, cursor>> PROVE SameCallbacks /\ UNCHANGED cursor
  BY <1>3 DEF SameCallbacks, SameStructs
<1> QED
  BY <1>1, <1>2, <1>3 DEF Surroundings, ServerUp, ServerChange, mgrVars

\* Every step keeps cursors and cleanup lists in agreement.
LEMMA NextMatch ==
  ASSUME TypeInv, CallbacksMatch, [Next]_vars
  PROVE  CallbacksMatch'
<1>1. ASSUME UNCHANGED <<heap, cursor>> PROVE CallbacksMatch'
  BY <1>1 DEF CallbacksMatch, Allocated
<1>2. ASSUME NEW t \in Threads, Step(t) PROVE CallbacksMatch'
  <2>1. CASE Makes(t)
    BY <2>1, MakeMatch DEF Makes
  <2>2. CASE GivesUp(t)
    BY <1>1, <2>2, DestroyMatch DEF GivesUp
  <2>3. CASE GoesOn(t)
    BY <2>3, WritesKeep, QuietMatch DEF GoesOn
  <2>4. CASE UseFreed(t)
    BY <1>1, <2>4 DEF UseFreed, mgrVars
  <2> QED
    BY <1>2, <2>1, <2>2, <2>3, <2>4, StepOutcome
<1>3. ASSUME NEW t \in Threads, NEW d \in Defs, Call(t, d) PROVE CallbacksMatch'
  BY <1>1, <1>3 DEF Call, SingleBlacklisted, SingleLookup, mgrVars
<1>4. CASE Fork \/ UNCHANGED vars
  BY <1>1, <1>4 DEF Fork, mgrVars, vars
<1>5. CASE Surroundings
  BY <1>5, SurroundingsKeep, QuietMatch
<1> QED
  BY <1>2, <1>3, <1>4, <1>5, AddMatch, RemoveMatch, DeinitMatch DEF Next

\* With any number of threads, and whatever fails, forks or shuts down: the
\* connection a cursor points to is alive and lists the cursor exactly once, and
\* no cleanup list names a cursor that is gone.  So a cursor never follows a
\* freed connection, and destroying a connection never calls back a freed cursor.
THEOREM CallbacksCorrect == Spec => []CallbacksMatch
<1>1. Init => TypeInv /\ CallbacksMatch
  <2>1. Init => CallbacksMatch
    BY DEF Init, CallbacksMatch, Allocated, Unallocated
  <2> QED
    BY <2>1, InitType
<1>2. TypeInv /\ CallbacksMatch /\ [Next]_vars => (TypeInv /\ CallbacksMatch)'
  BY NextType, NextMatch
<1> QED
  BY <1>1, <1>2, PTL DEF Spec
-----------------------------------------------------------------------------
(* fork().  A connection carries the hash, and so the process id, of the    *)
(* definition it was made for; the registry and the calls know it by that   *)
(* hash as long as it lives.  malloc not returning an address that somebody *)
(* still points to makes this true even of pointers to freed structs.       *)

\* What a call has in hand has the hash of the definition asked for.
HeldHash ==
  \A t \in Threads : cur[t] # Null /\ Allocated(cur[t]) => heap[cur[t]].hash = Hash(arg[t])

\* What the registry lists has the hash it is listed under.
ListedHash ==
  \A i \in 1..Len(connections) :
    Allocated(connections[i].data) => heap[connections[i].data].hash = connections[i].hash

HashInv == TypeInv /\ HeldHash /\ ListedHash

\* A step in which every struct that lives afterwards lived before, with the
\* same hash.
Survivors == \A a \in Addrs : heap'[a].mem => heap[a].mem /\ heap'[a].hash = heap[a].hash

\* If no struct is new, the registry's items keep their hashes.
LEMMA SurvivorsListed ==
  ASSUME HashInv, Survivors, NoNewItem
  PROVE  ListedHash'
<1> SUFFICES ASSUME NEW i \in 1..Len(connections'), heap'[connections'[i].data].mem
             PROVE  heap'[connections'[i].data].hash = connections'[i].hash
  BY DEF ListedHash, Allocated
<1>1. PICK j \in 1..Len(connections) : connections'[i] = connections[j]
  BY DEF NoNewItem
<1>2. connections[j].data \in Addrs
  BY RegisteredAddress DEF HashInv
<1> QED
  BY <1>1, <1>2 DEF Survivors, HashInv, ListedHash, Allocated

\* If no struct is new, a thread that keeps its locals or gives them up keeps
\* its hash.
LEMMA SurvivorsHeld ==
  ASSUME HashInv, Survivors, pid' = pid,
         \A t \in Threads : cur'[t] = Null \/ (cur'[t] = cur[t] /\ arg'[t] = arg[t])
  PROVE  HeldHash'
<1>1. \A t \in Threads : cur[t] # Null => cur[t] \in Addrs
  BY DEF HashInv, TypeInv, TypeOK, CallTypes
<1> QED
  BY <1>1 DEF HashInv, HeldHash, Survivors, Allocated, Hash

\* A destroyed struct does not survive; the others do.
LEMMA DestroySurvivors ==
  ASSUME TypeInv, NEW a \in Addrs, Destroy(a)
  PROVE  Survivors
BY DEF Destroy, Survivors, Unallocated, TypeInv, TypeOK, ManagerTypes

\* Threads other than t keep their locals when t fails or goes on.
LEMMA FailLocals ==
  ASSUME TypeInv, NEW t \in Threads, Fail(t)
  PROVE  /\ pid' = pid
         /\ \A u \in Threads : cur'[u] = Null \/ (cur'[u] = cur[u] /\ arg'[u] = arg[u])
BY DEF Fail, ReturnNull, TypeInv, TypeOK, CallTypes

\* The steps of a call keep HashInv.
LEMMA StepHash ==
  ASSUME HashInv, NEW t \in Threads, Step(t)
  PROVE  HeldHash' /\ ListedHash'
<1> USE DEF HashInv
<1>1. CASE Makes(t)
  <2> DEFINE h == Hash(arg[t])
  <2>1. PICK b \in Addrs : /\ Fresh(b) /\ heap' = [heap EXCEPT ![b] = NewConnection(h)]
                           /\ Go(t, b, "ismaster")
    BY <1>1 DEF Makes
  <2>2. /\ heap'[b].hash = h
        /\ \A a \in Addrs : a # b => heap'[a] = heap[a]
    BY <2>1 DEF NewConnection, TypeInv, TypeOK, ManagerTypes
  <2>3. HeldHash'
    <3> SUFFICES ASSUME NEW u \in Threads, cur'[u] # Null, heap'[cur'[u]].mem
                 PROVE  heap'[cur'[u]].hash = Hash(arg[u])'
      BY DEF HeldHash, Allocated
    <3>1. arg' = arg /\ pid' = pid
      BY <2>1 DEF Go
    <3>2. CASE u = t
      <4>1. cur'[u] = b
        BY <2>1, <3>2 DEF Go, TypeInv, TypeOK, CallTypes
      <4> QED
        BY <2>2, <3>1, <3>2, <4>1 DEF Hash
    <3>3. CASE u # t
      <4>1. cur'[u] = cur[u] /\ cur[u] # b /\ cur[u] \in Addrs
        BY <2>1, <3>3 DEF Go, Fresh, TypeInv, TypeOK, CallTypes
      <4> QED
        BY <2>2, <3>1, <4>1 DEF HeldHash, Allocated, Hash
    <3> QED
      BY <3>2, <3>3
  <2>4. ListedHash'
    <3>1. \A i \in 1..Len(connections) :
            connections[i].data # b /\ connections[i].data \in Addrs
      BY <2>1, RegisteredAddress DEF Fresh
    <3> QED
      BY <1>1, <2>2, <3>1 DEF Makes, ListedHash, Allocated
  <2> QED
    BY <2>3, <2>4
<1>2. CASE GivesUp(t)
  <2>1. Survivors
    <3>1. UNCHANGED heap => Survivors
      BY DEF Survivors
    <3> QED
      BY <1>2, <3>1, DestroySurvivors DEF GivesUp
  <2> QED
    BY <1>2, <2>1, FailLocals, SurvivorsHeld, SurvivorsListed DEF GivesUp
<1>3. CASE GoesOn(t)
  <2> DEFINE a == cur[t]
  <2>1. a \in Addrs /\ Allocated(a) /\ SameStructs
    BY <1>3, WritesKeep DEF GoesOn, SameCallbacks
  <2>2. Survivors
    BY <2>1 DEF SameStructs, Survivors
  <2>3. UNCHANGED <<cur, arg, pid>>
    <3>1. PICK l : Go(t, a, l)
      BY <1>3 DEF GoesOn
    <3> QED
      BY <3>1 DEF Go, TypeInv, TypeOK, CallTypes
  <2>4. HeldHash'
    BY <2>2, <2>3, SurvivorsHeld
  <2>5. CASE UNCHANGED connections
    BY <2>2, <2>4, <2>5, SurvivorsListed DEF NoNewItem
  <2>6. CASE connections' = Register(connections, heap[a].hash, a)
    <3> DEFINE L == Register(connections, heap[a].hash, a)
    <3>1. heap[a].hash \in Hashes
      BY <2>1, AllocatedShape DEF TypeInv, ConnectionShape
    <3>2. /\ Len(L) = Len(connections) + 1 /\ Len(connections) \in Nat
          /\ \A i \in 1..Len(connections) : L[i] = connections[i]
          /\ L[Len(connections) + 1] = [hash |-> heap[a].hash, data |-> a]
      BY <2>1, <3>1, ListItems, RegisterUnique
    <3> HIDE DEF L
    <3> SUFFICES ASSUME NEW i \in 1..Len(L), heap'[L[i].data].mem
                 PROVE  heap'[L[i].data].hash = L[i].hash
      BY <2>4, <2>6 DEF ListedHash, Allocated, L
    <3>3. CASE i \in 1..Len(connections)
      BY <2>2, <3>2, <3>3, RegisteredAddress DEF ListedHash, Survivors, Allocated
    <3>4. CASE i = Len(connections) + 1
      BY <2>1, <2>2, <3>2, <3>4 DEF Survivors
    <3> QED
      BY <3>2, <3>3, <3>4
  <2> QED
    BY <1>3, <2>4, <2>5, <2>6 DEF GoesOn
<1>4. CASE UseFreed(t)
  BY <1>4 DEF UseFreed, mgrVars, callVars, HeldHash, ListedHash, Allocated, Hash
<1> QED
  BY <1>1, <1>2, <1>3, <1>4, StepOutcome

\* So do the other steps.
LEMMA NextHash ==
  ASSUME HashInv, [Next]_vars
  PROVE  HashInv'
<1> USE DEF HashInv
<1>0. TypeInv'
  BY NextType
<1>1. ASSUME NEW t \in Threads, NEW d \in Defs, Call(t, d) PROVE HeldHash' /\ ListedHash'
  <2>1. UNCHANGED <<heap, pid, connections>>
    BY <1>1 DEF Call, SingleBlacklisted, SingleLookup, Fail, mgrVars
  <2>2. ListedHash'
    BY <2>1 DEF ListedHash, Allocated
  <2>3. Survivors
    BY <2>1 DEF Survivors
  <2>4. CASE ReturnNull(t)
    <3>1. \A u \in Threads : cur'[u] = Null \/ (cur'[u] = cur[u] /\ arg'[u] = arg[u])
      BY <2>4 DEF ReturnNull, TypeInv, TypeOK, CallTypes
    <3> QED
      BY <2>1, <2>2, <2>3, <3>1, SurvivorsHeld
  <2>5. ASSUME NEW k, NEW a, NEW l, Begin(t, d, k, a, l),
               a # Null => HasHash(connections, Hash(d)) /\ a = FindByHash(connections, Hash(d))
        PROVE  HeldHash'
    <3> SUFFICES ASSUME NEW u \in Threads, cur'[u] # Null, heap'[cur'[u]].mem
                 PROVE  heap'[cur'[u]].hash = Hash(arg[u])'
      BY DEF HeldHash, Allocated
    <3>1. CASE u = t
      <4>1. cur'[u] = a /\ arg'[u] = d
        BY <2>5, <3>1 DEF Begin, TypeInv, TypeOK, CallTypes
      <4>2. PICK i \in 1..Len(connections) :
              connections[i].hash = Hash(d) /\ connections[i].data = a
        BY <2>5, <4>1, ListItems, FindItem
      <4> QED
        BY <2>1, <4>1, <4>2 DEF ListedHash, Allocated, Hash
    <3>2. CASE u # t
      BY <2>1, <2>5, <3>2 DEF Begin, HeldHash, Allocated, Hash, TypeInv, TypeOK, CallTypes
    <3> QED
      BY <3>1, <3>2
  <2>6. CASE SingleBlacklisted(t, d)
    BY <2>2, <2>4, <2>6 DEF SingleBlacklisted, Fail
  <2>7. ASSUME NEW k \in Kinds, NEW dontConnect \in BOOLEAN,
               SingleLookup(t, d, k, dontConnect)
        PROVE  HeldHash'
    BY <2>4, <2>5, <2>7 DEF SingleLookup
  <2> QED
    BY <1>1, <2>2, <2>6, <2>7 DEF Call, SingleBlacklisted, Fail
<1>2. CASE Fork
  <2>1. UNCHANGED <<heap, connections>> /\ \A t \in Threads : cur'[t] = Null
    BY <1>2 DEF Fork, mgrVars, NoCalls
  <2> QED
    BY <1>0, <2>1 DEF ListedHash, HeldHash, Allocated
<1>3. CASE Deinit
  <2>1. connections' = <<>> /\ \A t \in Threads : cur'[t] = Null
    BY <1>3 DEF Deinit, NoCalls
  <2> QED
    BY <1>0, <2>1 DEF ListedHash, HeldHash
<1>4. ASSUME \/ \E t \in Threads, c \in Cursors : AddCallback(t, c)
             \/ \E c \in Cursors : RemoveCallback(c)
             \/ Surroundings
             \/ UNCHANGED vars
      PROVE  HeldHash' /\ ListedHash'
  <2>1. UNCHANGED <<connections, callVars, pid>> /\ SameStructs
    BY <1>4, OthersAreQuiet
  <2>2. Survivors /\ NoNewItem
    BY <2>1 DEF Survivors, SameStructs, NoNewItem
  <2> QED
    BY <2>1, <2>2, SurvivorsHeld, SurvivorsListed DEF callVars
<1> QED
  BY <1>0, <1>1, <1>2, <1>3, <1>4, StepHash DEF Next

\* A process frees only what it made, and a struct it leaves keeps its hash.
LEMMA ForeignStays ==
  ASSUME TypeInv, Next, NEW a \in Addrs, Allocated(a), heap[a].hash.pid # pid
  PROVE  heap'[a].mem /\ heap'[a].hash = heap[a].hash
<1>1. ASSUME NEW t \in Threads, Step(t) PROVE heap'[a].mem /\ heap'[a].hash = heap[a].hash
  <2>1. CASE Makes(t)
    <3>1. PICK b \in Addrs : \E h : Fresh(b) /\ heap' = [heap EXCEPT ![b] = NewConnection(h)]
      BY <2>1 DEF Makes
    <3> QED
      BY <3>1 DEF Fresh, Allocated, TypeInv, TypeOK, ManagerTypes
  <2>2. CASE GivesUp(t)
    BY <2>2 DEF GivesUp, Destroy, Allocated, TypeInv, TypeOK, ManagerTypes
  <2>3. CASE GoesOn(t)
    BY <2>3, WritesKeep DEF GoesOn, SameCallbacks, SameStructs, Allocated
  <2>4. CASE UseFreed(t)
    BY <2>4 DEF UseFreed, mgrVars, Allocated
  <2> QED
    BY <1>1, <2>1, <2>2, <2>3, <2>4, StepOutcome
<1>2. ASSUME UNCHANGED heap PROVE heap'[a].mem /\ heap'[a].hash = heap[a].hash
  BY <1>2 DEF Allocated
<1>3. CASE Deinit
  BY <1>3 DEF Deinit, Allocated
<1>4. ASSUME \/ \E t \in Threads, c \in Cursors : AddCallback(t, c)
             \/ \E c \in Cursors : RemoveCallback(c)
             \/ Surroundings
      PROVE  heap'[a].mem /\ heap'[a].hash = heap[a].hash
  BY <1>4, OthersAreQuiet DEF SameStructs, Allocated
<1> QED
  BY <1>1, <1>2, <1>3, <1>4
  DEF Next, Call, SingleBlacklisted, SingleLookup, Fork, mgrVars

\* The process id changes by fork() only, and then no call holds anything.
LEMMA PidChange ==
  ASSUME TypeInv, Next
  PROVE  pid' = pid \/ \A t \in Threads : cur'[t] = Null
<1>1. CASE Fork
  BY <1>1 DEF Fork, NoCalls
<1>2. ASSUME NEW t \in Threads, Step(t) PROVE pid' = pid
  BY <1>2, StepOutcome DEF Makes, GivesUp, GoesOn, UseFreed, Fail, Go
<1>3. ASSUME \/ \E t \in Threads, c \in Cursors : AddCallback(t, c)
             \/ \E c \in Cursors : RemoveCallback(c)
             \/ Surroundings
      PROVE  pid' = pid
  BY <1>3, OthersAreQuiet
<1> QED
  BY <1>1, <1>2, <1>3
  DEF Next, Call, SingleBlacklisted, SingleLookup, Fail, Deinit

\* With any number of threads and any chain of forks, no process frees, closes
\* or picks up a connection that another process made.
THEOREM ForkSafetyHolds == Spec => ForkSafety
<1>1. Init => HashInv
  <2>1. Init => HeldHash /\ ListedHash
    BY DEF Init, HeldHash, ListedHash
  <2> QED
    BY <2>1, InitType DEF HashInv
<1>2. HashInv /\ [Next]_vars => HashInv'
  BY NextHash
<1>3. HashInv /\ HashInv' /\ [Next]_vars => [ForkSafe]_vars
  <2> SUFFICES ASSUME HashInv, HashInv', Next,
                      NEW a \in Addrs, Allocated(a), heap[a].hash.pid # pid
               PROVE  heap'[a].mem /\ \A t \in Threads : cur'[t] # a
    BY DEF ForkSafe
  <2>1. heap'[a].mem /\ heap'[a].hash = heap[a].hash
    BY ForeignStays DEF HashInv
  <2>2. ASSUME NEW t \in Threads, cur'[t] = a PROVE FALSE
    <3>1. a # Null
      BY ConstantsAssumption
    <3>2. heap'[a].hash = HashIn(arg'[t], pid')
      BY <2>1, <2>2, <3>1 DEF HashInv, HeldHash, Allocated, Hash
    <3>3. heap'[a].hash.pid = pid'
      BY <3>2 DEF HashIn
    <3>4. pid' = pid
      BY <2>2, <3>1, PidChange DEF HashInv
    <3> QED
      BY <2>1, <3>3, <3>4
  <2> QED
    BY <2>1, <2>2
<1> QED
  BY <1>1, <1>2, <1>3, PTL DEF Spec, ForkSafety
-----------------------------------------------------------------------------
(* What a call returns.  The last step of a call decides from what ismaster *)
(* left in the struct, often long before and for another caller.            *)

\* The age of the ismaster data: what a seed's check left is no older than what
\* any check left, and as long as it counts as fresh the wire version is a
\* supported one.
Ages ==
  \A a \in Addrs : Allocated(a) =>
    /\ heap[a].master <= heap[a].repl
    /\ heap[a].master < IsMasterInterval => heap[a].wire

\* A call that is about to use its connection has a registered one.
InRegistry(a) == \E i \in 1..Len(connections) : connections[i].data = a
HeldRegistered ==
  \A t \in Threads : pc[t] \in {"ping", "check"} => InRegistry(cur[t])

CheckInv == HashInv /\ Ages /\ HeldRegistered

\* The fields that ismaster's result depends on, in a struct of the right shape.
LEMMA AgeShape ==
  ASSUME TypeInv, NEW a \in Addrs, Allocated(a)
  PROVE  /\ heap[a] \in ConnectionShape
         /\ heap[a].master \in 0..IsMasterInterval /\ heap[a].repl \in 0..IsMasterInterval
         /\ IsMasterInterval \in Nat \ {0}
BY AllocatedShape, ConstantsAssumption DEF TypeInv, ConnectionShape

\* What ismaster writes when it succeeds.
LEMMA IsMasterWrites ==
  ASSUME TypeInv, NEW a \in Addrs, Allocated(a), NEW seed \in BOOLEAN,
         IsMasterResult(a, seed) = 1, heap' = AfterIsMaster(a, seed)
  PROVE  /\ Answers(a)
         /\ heap'[a].wire /\ heap'[a].master = 0
         /\ heap'[a].repl \in {0, heap[a].repl}
         /\ heap'[a].type = ServerOf(a).reply.role
         /\ heap'[a].auth = heap[a].auth /\ heap'[a].sock = heap[a].sock
         /\ \A b \in Addrs : b # a => heap'[b] = heap[b]
<1> DEFINE r == ServerOf(a).reply
<1>1. heap' = [heap EXCEPT ![a] =
               [heap[a] EXCEPT !.wire = r.wire, !.type = r.role, !.master = 0,
                               !.repl = IF seed THEN 0 ELSE heap[a].repl]]
  BY DEF AfterIsMaster
<1>2. Answers(a) /\ r.wire
  BY DEF IsMasterResult
<1>3. heap[a] \in ConnectionShape
  BY AgeShape
<1> QED
  BY <1>1, <1>2, <1>3 DEF TypeInv, TypeOK, ManagerTypes, ConnectionShape

\* What it writes when the wire version is refused.
LEMMA RefusedWrites ==
  ASSUME TypeInv, NEW a \in Addrs, Allocated(a), NEW seed \in BOOLEAN,
         IsMasterResult(a, seed) # 1, heap' = AfterIsMaster(a, seed)
  PROVE  /\ heap'[a].master = heap[a].master /\ heap'[a].repl = heap[a].repl
         /\ heap'[a].type = heap[a].type /\ heap'[a].auth = heap[a].auth
         /\ heap'[a].sock = heap[a].sock
         /\ IsMasterResult(a, seed) # 4 => heap'[a].wire = heap[a].wire
         /\ \A b \in Addrs : b # a => heap'[b] = heap[b]
<1>1. CASE IsMasterResult(a, seed) = 4
  <2>1. heap' = [heap EXCEPT ![a].wire = ServerOf(a).reply.wire]
    BY <1>1 DEF AfterIsMaster
  <2> QED
    BY <1>1, <2>1, AgeShape DEF TypeInv, TypeOK, ManagerTypes, ConnectionShape
<1>2. CASE IsMasterResult(a, seed) # 4
  BY <1>2 DEF AfterIsMaster
<1> QED
  BY <1>1, <1>2

\* What a call writes keeps the ages in order.
LEMMA WritesAges ==
  ASSUME TypeInv, Ages, NEW t \in Threads, NEW a \in Addrs, Allocated(a), Writes(t, a)
  PROVE  Ages'
<1>0. /\ heap[a] \in ConnectionShape
      /\ heap[a].master \in 0..IsMasterInterval /\ heap[a].repl \in 0..IsMasterInterval
      /\ IsMasterInterval \in Nat \ {0}
      /\ heap[a].master <= heap[a].repl
      /\ heap[a].master < IsMasterInterval => heap[a].wire
  BY AgeShape DEF Ages
<1>a. ASSUME \A b \in Addrs : b # a => heap'[b] = heap[b],
             heap'[a].master <= heap'[a].repl,
             heap'[a].master < IsMasterInterval => heap'[a].wire
      PROVE  Ages'
  BY <1>a DEF Ages, Allocated
<1>1. CASE UNCHANGED heap
  BY <1>1 DEF Ages, Allocated
<1>2. CASE heap' = [heap EXCEPT ![a].ping = 0]
  BY <1>0, <1>2, <1>a DEF TypeInv, TypeOK, ManagerTypes, ConnectionShape
<1>3. ASSUME NEW seed \in BOOLEAN, seed => IsMasterResult(a, seed) # 4,
             heap' = AfterIsMaster(a, seed)
      PROVE  Ages'
  <2>1. CASE IsMasterResult(a, seed) = 1
    BY <1>0, <1>3, <1>a, <2>1, IsMasterWrites
  <2>2. CASE IsMasterResult(a, seed) # 1
    <3>1. IsMasterResult(a, seed) = 4 => ~(heap[a].master < IsMasterInterval)
      BY <1>3 DEF IsMasterResult
    <3> QED
      BY <1>0, <1>3, <1>a, <2>2, <3>1, RefusedWrites
  <2> QED
    BY <2>1, <2>2
<1>4. CASE heap' = [heap EXCEPT ![a].auth = Identity(arg[t])]
  BY <1>0, <1>4, <1>a DEF TypeInv, TypeOK, ManagerTypes, ConnectionShape
<1> QED
  BY <1>1, <1>2, <1>3, <1>4 DEF Writes

\* Ages stay in order when the structs that live on keep the three fields.
LEMMA KeptAges ==
  ASSUME Ages,
         \A a \in Addrs : heap'[a].mem => /\ heap[a].mem
                                          /\ heap'[a].master = heap[a].master
                                          /\ heap'[a].repl = heap[a].repl
                                          /\ heap'[a].wire = heap[a].wire
  PROVE  Ages'
BY DEF Ages, Allocated

\* Every step keeps the ages in order.
LEMMA NextAges ==
  ASSUME TypeInv, Ages, [Next]_vars
  PROVE  Ages'
<1>0. \A a \in Addrs : Allocated(a) => heap[a] \in ConnectionShape
  BY AllocatedShape DEF TypeInv
<1>a. ASSUME UNCHANGED heap PROVE Ages'
  BY <1>a DEF Ages, Allocated
<1>1. ASSUME NEW t \in Threads, Step(t) PROVE Ages'
  <2>1. CASE Makes(t)
    <3>1. PICK b \in Addrs : \E h : heap' = [heap EXCEPT ![b] = NewConnection(h)]
      BY <2>1 DEF Makes
    <3>2. /\ heap'[b].master = IsMasterInterval /\ heap'[b].repl = IsMasterInterval
          /\ \A a \in Addrs : a # b => heap'[a] = heap[a]
      BY <3>1 DEF NewConnection, TypeInv, TypeOK, ManagerTypes
    <3> QED
      BY <3>2, ConstantsAssumption DEF Ages, Allocated
  <2>2. CASE GivesUp(t)
    <3>1. ASSUME cur[t] \in Addrs, Destroy(cur[t]) PROVE Ages'
      BY <3>1 DEF Destroy, Ages, Allocated, Unallocated, TypeInv, TypeOK, ManagerTypes
    <3> QED
      BY <1>a, <2>2, <3>1 DEF GivesUp
  <2>3. CASE GoesOn(t)
    BY <2>3, WritesAges DEF GoesOn
  <2>4. CASE UseFreed(t)
    BY <1>a, <2>4 DEF UseFreed, mgrVars
  <2> QED
    BY <1>1, <2>1, <2>2, <2>3, <2>4, StepOutcome
<1>2. ASSUME NEW t \in Threads, NEW c \in Cursors, AddCallback(t, c) PROVE Ages'
  <2>1. cur[t] \in Addrs /\ Allocated(cur[t])
    BY <1>2 DEF AddCallback, At, TypeInv, CallOK
  <2> QED
    BY <1>0, <1>2, <2>1, KeptAges
    DEF AddCallback, Allocated, TypeInv, TypeOK, ManagerTypes, ConnectionShape
<1>3. ASSUME NEW c \in Cursors, RemoveCallback(c) PROVE Ages'
  <2>1. cursor[c] \in Addrs /\ Allocated(cursor[c])
    BY <1>3 DEF RemoveCallback, TypeInv, TypeOK, ManagerTypes
  <2> QED
    BY <1>0, <1>3, <2>1, KeptAges
    DEF RemoveCallback, Allocated, TypeInv, TypeOK, ManagerTypes, ConnectionShape
<1>4. CASE Deinit
  BY <1>4, KeptAges DEF Deinit, Unallocated
<1>5. CASE Tick
  <2> SUFFICES ASSUME NEW a \in Addrs, heap'[a].mem
               PROVE  /\ heap'[a].master <= heap'[a].repl
                      /\ heap'[a].master < IsMasterInterval => heap'[a].wire
    BY DEF Ages, Allocated
  <2>1. Allocated(a)
    BY <1>5 DEF Tick, Allocated
  <2>2. /\ heap'[a].master = Older(heap[a].master, IsMasterInterval)
        /\ heap'[a].repl = Older(heap[a].repl, IsMasterInterval)
        /\ heap'[a].wire = heap[a].wire
    BY <1>0, <1>5, <2>1 DEF Tick, ConnectionShape
  <2> QED
    BY <2>1, <2>2, AgeShape DEF Ages, Older
<1>6. ASSUME NEW s \in Hosts, NEW crash \in BOOLEAN, ServerDown(s, crash) PROVE Ages'
  BY <1>0, <1>6, KeptAges DEF ServerDown, Allocated, ConnectionShape
<1> QED
  BY <1>a, <1>1, <1>2, <1>3, <1>4, <1>5, <1>6
  DEF Next, Call, SingleBlacklisted, SingleLookup, Fork, Surroundings, ServerUp,
      ServerChange, mgrVars, vars

\* In a one-threaded program nobody deregisters what the call is about to use.
LEMMA NextRegistered ==
  ASSUME OneThread, TypeInv, HeldRegistered, [Next]_vars
  PROVE  HeldRegistered'
<1>a. ASSUME NEW t \in Threads, pc'[t] \notin {"ping", "check"} PROVE HeldRegistered'
  BY <1>a DEF OneThread, HeldRegistered
<1>b. ASSUME UNCHANGED <<connections, pc, cur>> PROVE HeldRegistered'
  BY <1>b DEF HeldRegistered, InRegistry
<1>1. ASSUME NEW t \in Threads, Step(t) PROVE HeldRegistered'
  <2>1. CASE Makes(t)
    <3>1. pc'[t] = "ismaster"
      BY <2>1 DEF Makes, Go, TypeInv, TypeOK, CallTypes
    <3> QED
      BY <3>1, <1>a
  <2>2. CASE GivesUp(t)
    <3>1. pc'[t] = "null"
      BY <2>2 DEF GivesUp, Fail, ReturnNull, TypeInv, TypeOK, CallTypes
    <3> QED
      BY <3>1, <1>a
  <2>3. CASE GoesOn(t)
    <3> DEFINE a == cur[t]
    <3>1. a \in Addrs /\ Allocated(a)
      BY <2>3 DEF GoesOn
    <3>2. CASE connections' = Register(connections, heap[a].hash, a) /\ Go(t, a, "check")
      <4>1. heap[a].hash \in Hashes
        BY <3>1, AllocatedShape DEF TypeInv, ConnectionShape
      <4> DEFINE L == Register(connections, heap[a].hash, a)
                 n == Len(connections) + 1
      <4>a. n \in Nat /\ Len(L) = n /\ L[n] = [hash |-> heap[a].hash, data |-> a]
        BY <3>1, <4>1, ListItems, RegisterUnique
      <4> HIDE DEF L
      <4>2. n \in 1..Len(connections') /\ connections'[n].data = a
        <5>1. 1 <= n
          BY ListItems
        <5> QED
          BY <3>2, <4>a, <5>1 DEF L
      <4>3. cur'[t] = a
        BY <3>2 DEF Go, TypeInv, TypeOK, CallTypes
      <4> QED
        BY <4>2, <4>3 DEF OneThread, HeldRegistered, InRegistry
    <3>3. CASE pc[t] = "ping" /\ UNCHANGED connections /\ Go(t, a, "check")
      <4>1. cur'[t] = cur[t]
        BY <3>3 DEF Go, TypeInv, TypeOK, CallTypes
      <4> QED
        BY <3>3, <4>1 DEF OneThread, HeldRegistered, InRegistry
    <3>4. ASSUME NEW l \in {"buildinfo", "auth", "firstping", "ready"}, Go(t, a, l)
          PROVE  HeldRegistered'
      <4>1. pc'[t] = l
        BY <3>4 DEF Go, TypeInv, TypeOK, CallTypes
      <4> QED
        BY <1>a, <4>1
    <3> QED
      BY <2>3, <3>2, <3>3, <3>4 DEF GoesOn
  <2>4. CASE UseFreed(t)
    BY <1>b, <2>4 DEF UseFreed, mgrVars, callVars
  <2> QED
    BY <1>1, <2>1, <2>2, <2>3, <2>4, StepOutcome
<1>2. ASSUME NEW t \in Threads, NEW d \in Defs, Call(t, d) PROVE HeldRegistered'
  <2>1. ASSUME ReturnNull(t) PROVE HeldRegistered'
    BY <1>a, <2>1 DEF ReturnNull, TypeInv, TypeOK, CallTypes
  <2>2. ASSUME NEW k, Begin(t, d, k, Null, "connect") PROVE HeldRegistered'
    BY <1>a, <2>2 DEF Begin, TypeInv, TypeOK, CallTypes
  <2>3. ASSUME HasHash(connections, Hash(d)), UNCHANGED connections, NEW k, NEW l,
               Begin(t, d, k, FindByHash(connections, Hash(d)), l)
        PROVE  HeldRegistered'
    <3>1. cur'[t] = FindByHash(connections, Hash(d))
      BY <2>3 DEF Begin, TypeInv, TypeOK, CallTypes
    <3>2. InRegistry(FindByHash(connections, Hash(d)))
      BY <2>3, ListItems, FindItem DEF InRegistry
    <3> QED
      BY <2>3, <3>1, <3>2 DEF OneThread, HeldRegistered, InRegistry
  <2> QED
    BY <1>2, <2>1, <2>2, <2>3 DEF Call, SingleBlacklisted, SingleLookup, Fail
<1>3. CASE Fork \/ Deinit
  BY <1>3 DEF Fork, Deinit, NoCalls, HeldRegistered
<1>4. ASSUME \/ \E t \in Threads, c \in Cursors : AddCallback(t, c)
             \/ \E c \in Cursors : RemoveCallback(c)
             \/ Surroundings
             \/ UNCHANGED vars
      PROVE  HeldRegistered'
  BY <1>4, <1>b, OthersAreQuiet DEF callVars
<1> QED
  BY <1>1, <1>2, <1>3, <1>4 DEF Next

\* Only a passed check lets a call return, and it returns what it checked.
LEMMA ReturnStep ==
  ASSUME TypeInv, Next, NEW t \in Threads, Returns(t)
  PROVE  LET a == cur[t]
             seed == kind[t] = "SEED"
         IN /\ pc[t] = "check" /\ a \in Addrs /\ Allocated(a) /\ cur'[t] = a
            /\ IsMasterResult(a, seed) \in {1, 2} /\ heap' = AfterIsMaster(a, seed)
            /\ UNCHANGED <<connections, arg, pid>>
<1> DEFINE a == cur[t]
           seed == kind[t] = "SEED"
           Result == /\ pc[t] = "check" /\ a \in Addrs /\ Allocated(a) /\ cur'[t] = a
                     /\ IsMasterResult(a, seed) \in {1, 2} /\ heap' = AfterIsMaster(a, seed)
                     /\ UNCHANGED <<connections, arg, pid>>
<1> USE DEF Returns, TypeInv, TypeOK, CallTypes
<1>1. ASSUME NEW u \in Threads, Step(u) PROVE Result
  <2>0. Makes(u) \/ GivesUp(u) \/ GoesOn(u) \/ UseFreed(u)
    BY <1>1, StepOutcome
  <2>1. ~Makes(u)
    BY DEF Makes, Go
  <2>2. ~GivesUp(u)
    BY DEF GivesUp, Fail, ReturnNull
  <2>3. ~UseFreed(u)
    BY DEF UseFreed, callVars
  <2>4. ASSUME NEW l, Go(u, cur[u], l) PROVE u = t /\ l = "ready" /\ UNCHANGED <<cur, arg, pid>>
    BY <2>4 DEF Go
  <2>5. GoesOn(u)
    BY <2>0, <2>1, <2>2, <2>3
  <2> QED
    BY <2>4, <2>5 DEF GoesOn
<1>2. ASSUME NEW u \in Threads, NEW d \in Defs, Call(u, d) PROVE FALSE
  BY <1>2 DEF Call, SingleBlacklisted, SingleLookup, Fail, ReturnNull, Begin
<1>3. CASE Fork \/ Deinit
  BY <1>3 DEF Fork, Deinit, NoCalls
<1>4. ASSUME \/ \E u \in Threads, c \in Cursors : AddCallback(u, c)
             \/ \E c \in Cursors : RemoveCallback(c)
             \/ Surroundings
      PROVE  FALSE
  BY <1>4, OthersAreQuiet DEF callVars
<1> QED
  BY <1>1, <1>2, <1>3, <1>4 DEF Next

\* In a one-threaded program, with any mixture of callers: a connection that a
\* call returns is registered, has the hash of the definition asked for in this
\* process, speaks a supported wire version, and told its role less than an
\* ismaster interval ago, even when the check was skipped because an earlier
\* caller's was recent enough.
THEOREM ReturnedAreChecked == ASSUME OneThread PROVE Spec => ReturnedIsChecked
<1>1. Init => CheckInv
  <2>1. Init => HeldHash /\ ListedHash /\ Ages /\ HeldRegistered
    BY DEF Init, HeldHash, ListedHash, Ages, HeldRegistered, Allocated, Unallocated
  <2> QED
    BY <2>1, InitType DEF HashInv, CheckInv
<1>2. CheckInv /\ [Next]_vars => CheckInv'
  BY NextHash, NextAges, NextRegistered DEF HashInv, CheckInv
<1>3. CheckInv /\ CheckInv' /\ [Next]_vars => [ReturnedChecked]_vars
  <2> SUFFICES ASSUME CheckInv, CheckInv', Next, NEW t \in Threads, Returns(t)
               PROVE  LET c == heap'[cur'[t]]
                      IN /\ c.mem /\ c.hash = Hash(arg'[t])
                         /\ \E i \in 1..Len(connections') : connections'[i].data = cur'[t]
                         /\ c.wire
                         /\ c.master < IsMasterInterval
    BY DEF ReturnedChecked
  <2> DEFINE a == cur[t]
             seed == kind[t] = "SEED"
  <2> USE DEF CheckInv, HashInv
  <2>1. /\ pc[t] = "check" /\ a \in Addrs /\ Allocated(a) /\ cur'[t] = a
        /\ IsMasterResult(a, seed) \in {1, 2} /\ heap' = AfterIsMaster(a, seed)
        /\ UNCHANGED <<connections, arg, pid>>
    BY ReturnStep
  <2>2. seed \in BOOLEAN
    OBVIOUS
  <2>3. heap'[a].mem
    <3> HIDE DEF seed
    <3>1. SameStructs
      BY <2>1, <2>2, AfterIsMasterHash DEF TypeInv
    <3> QED
      BY <2>1, <3>1 DEF SameStructs, Allocated
  <2>4. heap'[a].hash = Hash(arg'[t])
    BY <2>1, <2>3, ConstantsAssumption DEF HeldHash, Allocated, Hash
  <2>5. InRegistry(a)
    BY <2>1 DEF HeldRegistered
  <2>6. /\ heap[a].master \in 0..IsMasterInterval /\ heap[a].repl \in 0..IsMasterInterval
        /\ IsMasterInterval \in Nat \ {0}
        /\ heap[a].master <= heap[a].repl
        /\ heap[a].master < IsMasterInterval => heap[a].wire
    BY <2>1, AgeShape DEF Ages
  <2>7. heap'[a].wire /\ heap'[a].master < IsMasterInterval
    <3> HIDE DEF seed
    <3>1. CASE IsMasterResult(a, seed) = 1
      BY <2>1, <2>2, <2>6, <3>1, IsMasterWrites
    <3>2. CASE IsMasterResult(a, seed) = 2
      <4>1. heap[a].repl < IsMasterInterval \/ heap[a].master < IsMasterInterval
        BY <3>2 DEF IsMasterResult
      <4>2. heap[a].master < IsMasterInterval
        BY <2>6, <4>1
      <4> QED
        BY <2>1, <2>2, <2>6, <3>2, <4>2, RefusedWrites
    <3> QED
      BY <2>1, <3>1, <3>2
  <2> QED
    BY <2>1, <2>3, <2>4, <2>5, <2>7 DEF InRegistry
<1> QED
  BY <1>1, <1>2, <1>3, PTL DEF Spec, ReturnedIsChecked
-----------------------------------------------------------------------------
(* Authentication.  Only a new connection is authenticated; every later     *)
(* call takes over what an earlier one, perhaps for another definition with *)
(* the same hash, has done.  An arbiter is not authenticated at all, so the *)
(* invariant also says why a struct never stops being an arbiter's.         *)

\* As long as the connection stands, a struct marked as an arbiter's is one.
ArbiterKnown ==
  \A a \in Addrs :
    Allocated(a) /\ heap[a].sock /\ heap[a].type = "ARBITER" => ServerOf(a).reply.role = "ARBITER"

\* Authenticated as some definition with the hash of the connection asks for.
Authed(a) ==
  \/ heap[a].type = "ARBITER"
  \/ \E d \in Defs : HashIn(d, heap[a].hash.pid) = heap[a].hash /\ heap[a].auth = Identity(d)

\* Past authentication: registered, or in the hands of a call that got so far.
InUse(a) ==
  \/ InRegistry(a)
  \/ \E t \in Threads : pc[t] \in {"firstping", "ping", "check"} /\ cur[t] = a

InUseAuthed == \A a \in Addrs : Allocated(a) /\ InUse(a) => Authed(a)

AuthInv == HashInv /\ ArbiterKnown /\ InUseAuthed

\* The structs that live on keep hash, type and identity, and no broken socket
\* is mended.
KeptIdentity(a) ==
  heap'[a].mem => /\ heap[a].mem
                  /\ heap'[a].hash = heap[a].hash /\ heap'[a].type = heap[a].type
                  /\ heap'[a].auth = heap[a].auth /\ (heap'[a].sock => heap[a].sock)

\* Such a struct stays an arbiter's only while the server stays one.
LEMMA KeptArbiters ==
  ASSUME TypeInv, ArbiterKnown, \A a \in Addrs : KeptIdentity(a),
         \A s \in Hosts : server'[s].reply = server[s].reply
  PROVE  ArbiterKnown'
<1>1. \A a \in Addrs : Allocated(a) => heap[a].hash.host \in Hosts
  BY AllocatedShape, HashHost DEF TypeInv, ConnectionShape
<1> QED
  BY <1>1 DEF ArbiterKnown, KeptIdentity, Allocated, ServerOf

\* Such a struct stays authenticated.
LEMMA KeptAuthed ==
  ASSUME NEW a \in Addrs, KeptIdentity(a), heap'[a].mem, Authed(a)
  PROVE  Authed(a)'
BY DEF KeptIdentity, Authed

\* What is in use afterwards was in use before, with the same identity.
LEMMA KeptInUse ==
  ASSUME InUseAuthed, \A a \in Addrs : KeptIdentity(a),
         \A a \in Addrs : heap'[a].mem /\ InUse(a)' => InUse(a)
  PROVE  InUseAuthed'
<1> SUFFICES ASSUME NEW a \in Addrs, heap'[a].mem, InUse(a)'
             PROVE  Authed(a)'
  BY DEF InUseAuthed, Allocated
<1>1. Allocated(a) /\ InUse(a)
  BY DEF KeptIdentity, Allocated
<1> QED
  BY <1>1, KeptAuthed DEF InUseAuthed

\* A pointer in use stays so, and no other comes into use, when the registry
\* gains nothing and the threads go nowhere but away.
LEMMA LessInUse ==
  ASSUME TypeInv, NoNewItem,
         \A t \in Threads : \/ pc'[t] = "null"
                            \/ pc'[t] = pc[t] /\ cur'[t] = cur[t]
  PROVE  \A a \in Addrs : InUse(a)' => InUse(a)
BY DEF InUse, InRegistry, NoNewItem

\* A hash tells the process it was made in.
LEMMA HashPid ==
  ASSUME NEW d, NEW p
  PROVE  HashIn(d, p).pid = p
BY DEF HashIn

\* What a call writes keeps the arbiters known and everything authenticated.
LEMMA WritesIdentity ==
  ASSUME AuthInv, NEW t \in Threads, NEW a \in Addrs, a = cur[t], Allocated(a),
         Writes(t, a), UNCHANGED server
  PROVE  /\ ArbiterKnown'
         /\ \A b \in Addrs : Allocated(b) /\ Authed(b) => Authed(b)'
         /\ heap[a].type = "ARBITER" => heap'[a].type = "ARBITER"
<1> DEFINE Goal == /\ ArbiterKnown'
                   /\ \A b \in Addrs : Allocated(b) /\ Authed(b) => Authed(b)'
                   /\ heap[a].type = "ARBITER" => heap'[a].type = "ARBITER"
<1> USE DEF AuthInv, HashInv
<1>0. heap[a] \in ConnectionShape /\ heap[a].hash = Hash(arg[t])
  BY AgeShape, ConstantsAssumption DEF HeldHash
<1>1. SameStructs
  BY WritesKeep DEF SameCallbacks
<1>2. ASSUME \A b \in Addrs : KeptIdentity(b) PROVE Goal
  <2>1. \A b \in Addrs : Allocated(b) /\ Authed(b) => Authed(b)'
    BY <1>1, <1>2, KeptAuthed DEF SameStructs, Allocated
  <2>2. heap'[a].type = heap[a].type
    BY <1>1, <1>2 DEF SameStructs, KeptIdentity, Allocated
  <2>3. ArbiterKnown'
    BY <1>2, KeptArbiters
  <2> QED
    BY <2>1, <2>2, <2>3
<1>3. CASE UNCHANGED heap
  <2>1. \A b \in Addrs : KeptIdentity(b)
    BY <1>3 DEF KeptIdentity
  <2> QED
    BY <1>2, <2>1
<1>4. CASE heap' = [heap EXCEPT ![a].ping = 0]
  <2>1. \A b \in Addrs : KeptIdentity(b)
    BY <1>0, <1>4 DEF KeptIdentity, Allocated, TypeInv, TypeOK, ManagerTypes, ConnectionShape
  <2> QED
    BY <1>2, <2>1
<1>5. ASSUME NEW seed \in BOOLEAN, heap' = AfterIsMaster(a, seed) PROVE Goal
  <2>1. CASE IsMasterResult(a, seed) # 1
    <3>1. \A b \in Addrs : KeptIdentity(b)
      BY <1>1, <1>5, <2>1, RefusedWrites DEF KeptIdentity, SameStructs
    <3> QED
      BY <1>2, <3>1
  <2>2. CASE IsMasterResult(a, seed) = 1
    <3>1. /\ Answers(a)
          /\ heap'[a].type = ServerOf(a).reply.role
          /\ heap'[a].auth = heap[a].auth /\ heap'[a].sock = heap[a].sock
          /\ \A b \in Addrs : b # a => heap'[b] = heap[b]
      BY <1>5, <2>2, IsMasterWrites
    <3>2. heap'[a].hash = heap[a].hash
      BY <1>1 DEF SameStructs, Allocated
    <3>3. heap[a].type = "ARBITER" => heap'[a].type = "ARBITER"
      BY <3>1 DEF ArbiterKnown, Answers
    <3>4. ArbiterKnown'
      BY <3>1, <3>2 DEF ArbiterKnown, Allocated, ServerOf
    <3>5. Authed(a) => Authed(a)'
      BY <3>1, <3>2, <3>3 DEF Authed
    <3>6. \A b \in Addrs : b # a /\ Authed(b) => Authed(b)'
      BY <3>1 DEF Authed
    <3> QED
      BY <3>3, <3>4, <3>5, <3>6
  <2> QED
    BY <2>1, <2>2
<1>6. CASE heap' = [heap EXCEPT ![a].auth = Identity(arg[t])] /\ pc[t] = "auth"
  <2>1. /\ heap'[a].auth = Identity(arg[t]) /\ heap'[a].type = heap[a].type
        /\ heap'[a].sock = heap[a].sock /\ heap'[a].hash = heap[a].hash
        /\ \A b \in Addrs : b # a => heap'[b] = heap[b]
    BY <1>0, <1>6 DEF TypeInv, TypeOK, ManagerTypes, ConnectionShape
  <2>2. ArbiterKnown'
    BY <2>1 DEF ArbiterKnown, Allocated, ServerOf
  <2>3. arg[t] \in Defs
    BY <1>6 DEF TypeInv, CallOK
  <2>4. Authed(a)'
    BY <1>0, <2>1, <2>3, HashPid DEF Authed, Hash
  <2>5. \A b \in Addrs : b # a /\ Authed(b) => Authed(b)'
    BY <2>1 DEF Authed
  <2> QED
    BY <2>1, <2>2, <2>4, <2>5
<1> QED
  BY <1>3, <1>4, <1>5, <1>6 DEF Writes

\* The steps of a call use only what is authenticated.
LEMMA StepAuth ==
  ASSUME AuthInv, NEW t \in Threads, Step(t)
  PROVE  ArbiterKnown' /\ InUseAuthed'
<1> USE DEF AuthInv, HashInv
<1>1. CASE Makes(t)
  <2>1. PICK b \in Addrs : /\ Fresh(b)
                           /\ heap' = [heap EXCEPT ![b] = NewConnection(Hash(arg[t]))]
                           /\ Go(t, b, "ismaster")
    BY <1>1 DEF Makes
  <2>2. /\ heap'[b].type = "STANDALONE"
        /\ \A a \in Addrs : a # b => heap'[a] = heap[a]
    BY <2>1 DEF NewConnection, TypeInv, TypeOK, ManagerTypes
  <2>3. UNCHANGED <<connections, server>>
    BY <1>1, <2>1 DEF Makes, Go
  <2>4. ArbiterKnown'
    BY <2>2, <2>3 DEF ArbiterKnown, Allocated, ServerOf
  <2>5. pc'[t] = "ismaster" /\ \A u \in Threads : u # t => pc'[u] = pc[u] /\ cur'[u] = cur[u]
    BY <2>1 DEF Go, TypeInv, TypeOK, CallTypes
  <2>6. \A a \in Addrs : InUse(a)' => InUse(a) /\ a # b
    BY <2>1, <2>3, <2>5 DEF InUse, InRegistry, Fresh
  <2>7. InUseAuthed'
    BY <2>2, <2>6 DEF InUseAuthed, Authed, Allocated
  <2> QED
    BY <2>4, <2>7
<1>2. CASE GivesUp(t)
  <2>1. \A a \in Addrs : KeptIdentity(a)
    <3>1. UNCHANGED heap => \A a \in Addrs : KeptIdentity(a)
      BY DEF KeptIdentity
    <3>2. ASSUME cur[t] \in Addrs, Destroy(cur[t]) PROVE \A a \in Addrs : KeptIdentity(a)
      BY <3>2 DEF Destroy, KeptIdentity, Unallocated, TypeInv, TypeOK, ManagerTypes
    <3> QED
      BY <1>2, <3>1, <3>2 DEF GivesUp
  <2>2. NoNewItem /\ UNCHANGED server
        /\ \A u \in Threads : \/ pc'[u] = "null"
                              \/ pc'[u] = pc[u] /\ cur'[u] = cur[u]
    BY <1>2 DEF GivesUp, Fail, ReturnNull, TypeInv, TypeOK, CallTypes
  <2> QED
    BY <2>1, <2>2, KeptArbiters, LessInUse, KeptInUse
<1>3. CASE GoesOn(t)
  <2> DEFINE a == cur[t]
  <2>0. a \in Addrs /\ Allocated(a) /\ Writes(t, a)
    BY <1>3 DEF GoesOn
  <2>1. PICK l : Go(t, a, l) /\ (l \in {"firstping", "check"} =>
                   \/ pc[t] \in {"firstping", "ping"}
                   \/ heap[a].type = "ARBITER"
                   \/ pc[t] = "auth" /\ heap'[a].auth = Identity(arg[t]))
    BY <1>3 DEF GoesOn
  <2>2. UNCHANGED <<cur, server, arg>> /\ pc'[t] = l /\ \A u \in Threads : u # t => pc'[u] = pc[u]
    BY <2>1 DEF Go, TypeInv, TypeOK, CallTypes
  <2>3. /\ ArbiterKnown'
        /\ \A b \in Addrs : Allocated(b) /\ Authed(b) => Authed(b)'
        /\ heap[a].type = "ARBITER" => heap'[a].type = "ARBITER"
    BY <2>0, <2>2, WritesIdentity
  <2>4. SameStructs
    BY <2>0, WritesKeep DEF SameCallbacks
  <2>5. ASSUME pc[t] = "auth", heap'[a].auth = Identity(arg[t]) PROVE Authed(a)'
    <3>1. arg[t] \in Defs
      BY <2>5 DEF TypeInv, CallOK
    <3>2. heap'[a].hash = HashIn(arg[t], pid) /\ heap'[a].hash.pid = pid
      BY <2>0, <2>4, HashPid, ConstantsAssumption DEF SameStructs, HeldHash, Allocated, Hash
    <3> QED
      BY <2>2, <2>5, <3>1, <3>2 DEF Authed
  <2>6. ASSUME NEW b \in Addrs, InUse(b)' PROVE InUse(b) \/ (b = a /\ pc'[t] \in {"firstping", "check"})
    <3>1. CASE InRegistry(b)'
      <4>1. CASE UNCHANGED connections
        BY <3>1, <4>1 DEF InUse, InRegistry
      <4>2. CASE connections' = Register(connections, heap[a].hash, a) /\ pc[t] = "firstping"
        <5> DEFINE L == Register(connections, heap[a].hash, a)
        <5>1. heap[a].hash \in Hashes
          BY <2>0, AllocatedShape DEF TypeInv, ConnectionShape
        <5>2. /\ Len(L) = Len(connections) + 1 /\ Len(connections) \in Nat
              /\ \A i \in 1..Len(connections) : L[i] = connections[i]
              /\ L[Len(connections) + 1] = [hash |-> heap[a].hash, data |-> a]
          BY <2>0, <5>1, ListItems, RegisterUnique
        <5> HIDE DEF L
        <5>3. PICK i \in 1..Len(L) : L[i].data = b
          BY <3>1, <4>2 DEF InRegistry, L
        <5>4. CASE i \in 1..Len(connections)
          BY <5>2, <5>3, <5>4 DEF InUse, InRegistry
        <5>5. CASE i = Len(connections) + 1
          BY <4>2, <5>2, <5>3, <5>5 DEF InUse
        <5> QED
          BY <5>2, <5>4, <5>5
      <4> QED
        BY <1>3, <4>1, <4>2 DEF GoesOn
    <3>2. ASSUME NEW u \in Threads, pc'[u] \in {"firstping", "ping", "check"}, cur'[u] = b
          PROVE  InUse(b) \/ (b = a /\ pc'[t] \in {"firstping", "check"})
      <4>1. l # "ping"
        BY <1>3, <2>1, <2>2 DEF GoesOn, Go, TypeInv, TypeOK, CallTypes
      <4> QED
        BY <2>2, <3>2, <4>1 DEF InUse
    <3> QED
      BY <2>6, <3>1, <3>2 DEF InUse
  <2>7. InUseAuthed'
    <3> SUFFICES ASSUME NEW b \in Addrs, heap'[b].mem, InUse(b)' PROVE Authed(b)'
      BY DEF InUseAuthed, Allocated
    <3>1. Allocated(b)
      BY <2>4 DEF SameStructs, Allocated
    <3>2. CASE InUse(b)
      BY <2>3, <3>1, <3>2 DEF InUseAuthed
    <3>3. CASE b = a /\ pc'[t] \in {"firstping", "check"} /\ ~InUse(b)
      <4>1. pc[t] \notin {"firstping", "ping"}
        BY <3>3 DEF InUse
      <4>2. heap[a].type = "ARBITER" => Authed(a)'
        BY <2>2, <2>3 DEF Authed
      <4> QED
        BY <2>1, <2>2, <2>5, <3>3, <4>1, <4>2
    <3> QED
      BY <2>6, <3>2, <3>3
  <2> QED
    BY <2>3, <2>7
<1>4. CASE UseFreed(t)
  BY <1>4 DEF UseFreed, mgrVars, callVars, ArbiterKnown, InUseAuthed, InUse, InRegistry,
              Authed, Allocated, ServerOf
<1> QED
  BY <1>1, <1>2, <1>3, <1>4, StepOutcome

\* The lookup hands out what is registered.
LEMMA CallAuth ==
  ASSUME AuthInv, NEW t \in Threads, NEW d \in Defs, Call(t, d)
  PROVE  ArbiterKnown' /\ InUseAuthed'
<1> USE DEF AuthInv, HashInv
<1>1. UNCHANGED <<heap, connections, server>>
  BY DEF Call, SingleBlacklisted, SingleLookup, Fail, mgrVars
<1>2. ArbiterKnown'
  BY <1>1 DEF ArbiterKnown, Allocated, ServerOf
<1>3. \A a \in Addrs : KeptIdentity(a)
  BY <1>1 DEF KeptIdentity
<1>4. CASE ReturnNull(t)
  <2>1. \A u \in Threads : pc'[u] = "null" \/ (pc'[u] = pc[u] /\ cur'[u] = cur[u])
    BY <1>4 DEF ReturnNull, TypeInv, TypeOK, CallTypes
  <2>2. NoNewItem
    BY <1>1 DEF NoNewItem
  <2> QED
    BY <1>2, <1>3, <2>1, <2>2, LessInUse, KeptInUse
<1>5. ASSUME NEW k, NEW a, NEW l, Begin(t, d, k, a, l),
             l = "connect" \/ (HasHash(connections, Hash(d)) /\ a = FindByHash(connections, Hash(d)))
      PROVE  InUseAuthed'
  <2>1. l = "connect" \/ InRegistry(a)
    BY <1>5, ListItems, FindItem DEF InRegistry
  <2>2. /\ pc'[t] = l /\ cur'[t] = a
        /\ \A u \in Threads : u # t => pc'[u] = pc[u] /\ cur'[u] = cur[u]
    BY <1>5 DEF Begin, TypeInv, TypeOK, CallTypes
  <2>3. \A b \in Addrs : InUse(b)' => InUse(b)
    BY <1>1, <2>1, <2>2 DEF InUse, InRegistry
  <2> QED
    BY <1>3, <2>3, KeptInUse
<1>6. CASE SingleBlacklisted(t, d)
  BY <1>4, <1>6 DEF SingleBlacklisted, Fail
<1>7. ASSUME NEW k \in Kinds, NEW dontConnect \in BOOLEAN, SingleLookup(t, d, k, dontConnect)
      PROVE  InUseAuthed'
  BY <1>4, <1>5, <1>7 DEF SingleLookup
<1> QED
  BY <1>2, <1>6, <1>7 DEF Call

\* Every step keeps AuthInv.
LEMMA NextAuth ==
  ASSUME AuthInv, [Next]_vars
  PROVE  AuthInv'
<1> USE DEF AuthInv
<1>0. HashInv' /\ TypeInv
  BY NextHash DEF HashInv
<1>a. \A a \in Addrs : Allocated(a) => heap[a] \in ConnectionShape
  BY <1>0, AllocatedShape DEF TypeInv
<1>b. ASSUME \A a \in Addrs : KeptIdentity(a), NoNewItem,
             \A t \in Threads : pc'[t] = "null" \/ (pc'[t] = pc[t] /\ cur'[t] = cur[t])
      PROVE  InUseAuthed'
  BY <1>0, <1>b, LessInUse, KeptInUse
<1>c. UNCHANGED heap => \A a \in Addrs : KeptIdentity(a)
  BY DEF KeptIdentity
<1>d. UNCHANGED connections => NoNewItem
  BY DEF NoNewItem
<1>1. ASSUME NEW t \in Threads, NEW c \in Cursors, AddCallback(t, c) PROVE AuthInv'
  <2>1. cur[t] \in Addrs /\ Allocated(cur[t])
    BY <1>0, <1>1 DEF AddCallback, At, TypeInv, CallOK
  <2>2. \A a \in Addrs : KeptIdentity(a)
    BY <1>0, <1>a, <1>1, <2>1
    DEF AddCallback, KeptIdentity, Allocated, TypeInv, TypeOK, ManagerTypes, ConnectionShape
  <2> QED
    BY <1>0, <1>1, <1>b, <1>d, <2>2, KeptArbiters DEF AddCallback, callVars
<1>2. ASSUME NEW c \in Cursors, RemoveCallback(c) PROVE AuthInv'
  <2>1. cursor[c] \in Addrs /\ Allocated(cursor[c])
    BY <1>0, <1>2 DEF RemoveCallback, TypeInv, TypeOK, ManagerTypes
  <2>2. \A a \in Addrs : KeptIdentity(a)
    BY <1>0, <1>a, <1>2, <2>1
    DEF RemoveCallback, KeptIdentity, Allocated, TypeInv, TypeOK, ManagerTypes, ConnectionShape
  <2> QED
    BY <1>0, <1>2, <1>b, <1>d, <2>2, KeptArbiters DEF RemoveCallback, callVars
<1>3. CASE Fork \/ UNCHANGED vars
  <2>1. UNCHANGED <<heap, connections, server>>
        /\ \A t \in Threads : pc'[t] = "null" \/ (pc'[t] = pc[t] /\ cur'[t] = cur[t])
    BY <1>3 DEF Fork, NoCalls, mgrVars, vars
  <2> QED
    BY <1>0, <1>b, <1>c, <1>d, <2>1, KeptArbiters
<1>4. CASE Deinit
  <2>1. \A a \in Addrs : KeptIdentity(a)
    BY <1>4 DEF Deinit, KeptIdentity, Unallocated
  <2>2. connections' = <<>> /\ UNCHANGED server /\ \A t \in Threads : pc'[t] = "null"
    BY <1>4 DEF Deinit, NoCalls
  <2>3. NoNewItem
    BY <2>2 DEF NoNewItem
  <2> QED
    BY <1>0, <1>b, <2>1, <2>2, <2>3, KeptArbiters
<1>5. CASE Tick
  <2>1. \A a \in Addrs : KeptIdentity(a)
    BY <1>a, <1>5 DEF Tick, KeptIdentity, Allocated, ConnectionShape
  <2> QED
    BY <1>0, <1>5, <1>b, <1>d, <2>1, KeptArbiters DEF Tick, callVars
<1>6. ASSUME NEW s \in Hosts, NEW crash \in BOOLEAN, ServerDown(s, crash) PROVE AuthInv'
  <2>1. \A a \in Addrs : KeptIdentity(a)
    BY <1>a, <1>6 DEF ServerDown, KeptIdentity, Allocated, ConnectionShape
  <2>2. \A x \in Hosts : server'[x].reply = server[x].reply
    BY <1>0, <1>6 DEF ServerDown, TypeInv, TypeOK, WorldTypes
  <2> QED
    BY <1>0, <1>6, <1>b, <1>d, <2>1, <2>2, KeptArbiters DEF ServerDown, callVars
<1>7. ASSUME NEW s \in Hosts, NEW r \in Replies, ServerUp(s, r) \/ ServerChange(s, r)
      PROVE  AuthInv'
  <2>1. UNCHANGED <<heap, connections, pc, cur>>
    BY <1>7 DEF ServerUp, ServerChange, mgrVars, callVars
  <2>2. InUseAuthed'
    BY <1>b, <1>c, <1>d, <2>1
  <2>3. /\ server'[s].reply = r
        /\ \A x \in Hosts : x # s => server'[x] = server[x]
        /\ SameProcess(s, r) \/ Restarted(s)
    BY <1>0, <1>7 DEF ServerUp, ServerChange, TypeInv, TypeOK, WorldTypes
  <2>4. \A a \in Addrs : Allocated(a) => heap[a].hash.host \in Hosts
    BY <1>a, HashHost DEF ConnectionShape
  <2>5. ArbiterKnown'
    BY <2>1, <2>3, <2>4 DEF ArbiterKnown, Allocated, ServerOf, SameProcess, Restarted
  <2> QED
    BY <1>0, <2>2, <2>5
<1> QED
  BY <1>0, <1>1, <1>2, <1>3, <1>4, <1>5, <1>6, <1>7, StepAuth, CallAuth DEF Next, Surroundings

\* The initial state has nothing to authenticate.
LEMMA InitAuth == Init => AuthInv
<1>1. Init => HeldHash /\ ListedHash /\ ArbiterKnown /\ InUseAuthed
  BY DEF Init, HeldHash, ListedHash, ArbiterKnown, InUseAuthed, Allocated, Unallocated
<1> QED
  BY <1>1, InitType DEF HashInv, AuthInv

\* With any number of threads: a live connection that is registered, or that a
\* call is about to use, was authenticated with the identity that some
\* definition with its hash asks for, or leads to an arbiter.
THEOREM InUseAreAuthenticated == Spec => []InUseAuthed
<1>1. AuthInv /\ [Next]_vars => AuthInv'
  BY NextAuth
<1>2. AuthInv => InUseAuthed
  BY DEF AuthInv
<1> QED
  BY <1>1, <1>2, InitAuth, PTL DEF Spec

\* Definitions that share a hash ask for the same identity.  The hash leaves out
\* the mechanism and the authentication database, so this is a condition on the
\* definitions that one application uses.
IdentityInHash ==
  \A d, e \in Defs, p \in Pids : HashIn(d, p) = HashIn(e, p) => Identity(d) = Identity(e)

\* With any number of threads, and if the hash settles the identity: a returned
\* connection was authenticated as the caller's own definition asks, or leads to
\* an arbiter, whichever definition and process state it was made under.
THEOREM ReturnedAreAuthenticated ==
  ASSUME IdentityInHash PROVE Spec => ReturnedIsAuthenticated
<1>2. AuthInv /\ [Next]_vars => AuthInv'
  BY NextAuth
<1>3. AuthInv /\ AuthInv' /\ [Next]_vars => [ReturnedAuthenticated]_vars
  <2> SUFFICES ASSUME AuthInv, AuthInv', Next, NEW t \in Threads, Returns(t)
               PROVE  \/ heap'[cur'[t]].auth = Identity(arg'[t])
                      \/ heap'[cur'[t]].type = "ARBITER"
    BY DEF ReturnedAuthenticated
  <2> DEFINE a == cur[t]
             seed == kind[t] = "SEED"
  <2> USE DEF AuthInv, HashInv
  <2>1. /\ pc[t] = "check" /\ a \in Addrs /\ Allocated(a) /\ cur'[t] = a
        /\ IsMasterResult(a, seed) \in {1, 2} /\ heap' = AfterIsMaster(a, seed)
        /\ UNCHANGED <<connections, arg, pid>>
    BY ReturnStep
  <2>2. Authed(a)
    BY <2>1 DEF InUseAuthed, InUse
  <2>3. seed \in BOOLEAN
    OBVIOUS
  <2> HIDE DEF seed
  <2>4. heap'[a].auth = heap[a].auth
    <3>1. CASE IsMasterResult(a, seed) = 1
      BY <2>1, <2>3, <3>1, IsMasterWrites
    <3>2. CASE IsMasterResult(a, seed) # 1
      BY <2>1, <2>3, <3>2, RefusedWrites
    <3> QED
      BY <3>1, <3>2
  <2>5. heap[a].type = "ARBITER" => heap'[a].type = "ARBITER"
    <3>1. CASE IsMasterResult(a, seed) = 1
      BY <2>1, <2>3, <3>1, IsMasterWrites DEF ArbiterKnown, Answers
    <3>2. CASE IsMasterResult(a, seed) # 1
      BY <2>1, <2>3, <3>2, RefusedWrites
    <3> QED
      BY <3>1, <3>2
  <2>6. heap[a].hash = HashIn(arg[t], pid) /\ arg[t] \in Defs /\ pid \in Pids
    BY <2>1, ConstantsAssumption
    DEF HeldHash, Hash, TypeInv, TypeOK, WorldTypes, CallOK
  <2>7. heap[a].hash.pid = pid
    BY <2>6 DEF HashIn
  <2>8. heap[a].type = "ARBITER" \/ heap[a].auth = Identity(arg[t])
    BY <2>2, <2>6, <2>7 DEF Authed, IdentityInHash
  <2> QED
    BY <2>1, <2>4, <2>5, <2>8
<1> QED
  BY <1>2, <1>3, InitAuth, PTL DEF Spec, ReturnedIsAuthenticated
-----------------------------------------------------------------------------
(* The abstract cache.  The initial lists map to the empty one; a step moves *)
(* at most one hash, and ListInv, the invariant behind HashesUnique, says    *)
(* that it moves from where the cache allows.                                *)

(* Lookups after the lists change *)

\* Where an item with the hash is, in a list without duplicates, decides the
\* lookup.
LEMMA FindAt ==
  ASSUME NEW H, NEW D, NEW list \in Seq(Items(H, D)), UniqueHashes(list),
         NEW i \in 1..Len(list), NEW h, list[i].hash = h
  PROVE  HasHash(list, h) /\ FindByHash(list, h) = list[i].data
BY FindUnique DEF HasHash

\* Deregistering one hash leaves the lookup of the others alone.
LEMMA DeregisterFind ==
  ASSUME NEW H, NEW D, NEW list \in Seq(Items(H, D)), UniqueHashes(list), NEW h,
         NEW g, g # h, HasHash(list, g)
  PROVE  FindByHash(Deregister(list, h), g) = FindByHash(list, g)
<1> DEFINE L == Deregister(list, h)
<1>1. PICK j \in 1..Len(list) : list[j].hash = g
  BY DEF HasHash
<1>2. PICK i \in 1..Len(L) : L[i] = list[j]
  BY <1>1, DeregisterUnique
<1>3. L \in Seq(Items(H, D)) /\ UniqueHashes(L)
  BY DeregisterType, DeregisterUnique
<1> HIDE DEF L
<1>4. FindByHash(L, g) = L[i].data
  BY <1>1, <1>2, <1>3, FindAt
<1>5. FindByHash(list, g) = list[j].data
  BY <1>1, FindAt
<1> QED
  BY <1>2, <1>4, <1>5 DEF L

\* Registering a hash that the list lacks makes it found and leaves the lookup
\* of the others alone.
LEMMA RegisterFind ==
  ASSUME NEW H, NEW D, NEW list \in Seq(Items(H, D)), UniqueHashes(list),
         NEW h \in H, NEW d \in D, ~HasHash(list, h)
  PROVE  /\ FindByHash(Register(list, h, d), h) = d
         /\ \A g : g # h /\ HasHash(list, g) =>
              FindByHash(Register(list, h, d), g) = FindByHash(list, g)
<1> DEFINE L == Register(list, h, d)
           n == Len(list) + 1
<1>1. /\ L \in Seq(Items(H, D)) /\ UniqueHashes(L) /\ Len(L) = n /\ Len(list) \in Nat
      /\ L[n] = [hash |-> h, data |-> d]
      /\ \A i \in 1..Len(list) : L[i] = list[i]
  BY RegisterUnique
<1> HIDE DEF L
<1>2. FindByHash(L, h) = d
  <2>1. n \in 1..Len(L) /\ L[n].hash = h /\ L[n].data = d
    BY <1>1
  <2> HIDE DEF n
  <2> QED
    BY <1>1, <2>1, FindAt
<1>3. ASSUME NEW g, g # h, HasHash(list, g) PROVE FindByHash(L, g) = FindByHash(list, g)
  <2>1. PICK j \in 1..Len(list) : list[j].hash = g
    BY <1>3 DEF HasHash
  <2>2. j \in 1..Len(L) /\ L[j] = list[j]
    BY <1>1
  <2> QED
    BY <1>1, <2>1, <2>2, FindAt
<1> QED
  BY <1>2, <1>3 DEF L
-----------------------------------------------------------------------------
(* The mapping *)

\* A hash h maps to what it mapped to before.
SameHash(h) ==
  /\ HasHash(connections', h) <=> HasHash(connections, h)
  /\ HasHash(blacklist', h) <=> HasHash(blacklist, h)
  /\ HasHash(blacklist, h) => FindByHash(blacklist', h) = FindByHash(blacklist, h)

\* A step that leaves every hash alone is a stuttering step of the cache.
LEMMA CacheStutters ==
  ASSUME \A h \in Hashes : SameHash(h)
  PROVE  UNCHANGED Cache!cacheVars
<1>1. \A h \in Hashes : /\ CacheState'[h] = CacheState[h]
                        /\ CacheAge'[h] = CacheAge[h]
  BY DEF SameHash, CacheState, CacheAge
<1>2. CacheState' = CacheState /\ CacheAge' = CacheAge
  BY <1>1 DEF CacheState, CacheAge
<1> QED
  BY <1>2 DEF Cache!cacheVars

\* A step that leaves the lists alone is one.
LEMMA ListsStutter ==
  ASSUME UNCHANGED <<connections, blacklist>>
  PROVE  UNCHANGED Cache!cacheVars
BY CacheStutters DEF SameHash

\* A step that moves one hash, to a state in which it has no age.
LEMMA CacheMoves ==
  ASSUME NEW h \in Hashes, NEW from, NEW to,
         \A g \in Hashes : g # h => SameHash(g),
         CacheState[h] = from, CacheState'[h] = to, CacheAge'[h] = 0
  PROVE  Cache!Move(h, from, to)
<1>1. \A g \in Hashes : g # h => /\ CacheState'[g] = CacheState[g]
                                 /\ CacheAge'[g] = CacheAge[g]
  BY DEF SameHash, CacheState, CacheAge
<1>2. CacheState' = [CacheState EXCEPT ![h] = to] /\ CacheAge' = [CacheAge EXCEPT ![h] = 0]
  BY <1>1 DEF CacheState, CacheAge
<1> QED
  BY <1>2 DEF Cache!Move
-----------------------------------------------------------------------------
(* The steps *)

\* mongo_manager_connection_deregister drops the connection's hash, or nothing.
LEMMA DeregisterDrops ==
  ASSUME ListInv, NEW a \in Addrs, Allocated(a), DeregisterConnection(a), UNCHANGED blacklist
  PROVE  Cache!Next \/ UNCHANGED Cache!cacheVars
<1> DEFINE h == heap[a].hash
<1> USE DEF ListInv
<1>1. CASE HasHash(connections, h)
  <2> DEFINE L == Deregister(connections, h)
  <2>1. connections' = L
    BY <1>1 DEF DeregisterConnection
  <2>2. ~HasHash(L, h) /\ \A g : g # h => (HasHash(L, g) <=> HasHash(connections, g))
    BY ListItems, DeregisterUnique DEF HashIsUnique
  <2>3. h \in Hashes
    BY AllocatedShape DEF TypeInv, ConnectionShape
  <2>4. ~HasHash(blacklist, h)
    BY <1>1 DEF HashIsUnique, HasHash
  <2> HIDE DEF L, h
  <2>5. \A g \in Hashes : g # h => SameHash(g)
    BY <2>1, <2>2 DEF SameHash
  <2>6. CacheState[h] = "live" /\ CacheState'[h] = "absent" /\ CacheAge'[h] = 0
    BY <1>1, <2>1, <2>2, <2>3, <2>4 DEF CacheState, CacheAge
  <2>7. Cache!Drop(h)
    BY <2>3, <2>5, <2>6, CacheMoves DEF Cache!Drop
  <2> QED
    BY <2>3, <2>7 DEF Cache!Next
<1>2. CASE ~HasHash(connections, h)
  BY <1>2, ListsStutter DEF DeregisterConnection
<1> QED
  BY <1>1, <1>2

\* The lookup retries a refused hash after the interval, or changes nothing.
LEMMA LookupRetries ==
  ASSUME ListInv, NEW t \in Threads, NEW d \in Defs, NEW k \in Kinds,
         NEW dontConnect \in BOOLEAN, SingleLookup(t, d, k, dontConnect)
  PROVE  Cache!Next \/ UNCHANGED Cache!cacheVars
<1> DEFINE h == Hash(d)
           L == Deregister(blacklist, h)
<1> USE DEF ListInv
<1>1. blacklist' = L /\ UNCHANGED connections /\ h \in Hashes
  BY HashType DEF SingleLookup, Unblacklist, TypeInv
<1>2. CASE HasHash(blacklist, h)
  <2>1. PingDue(FindByHash(blacklist, h))
    BY <1>2 DEF SingleLookup
  <2>2. FindByHash(blacklist, h) \in 0..PingInterval
    BY <1>2, ListItems, FindItem
  <2>3. FindByHash(blacklist, h) = PingInterval
    BY <2>1, <2>2, ConstantsAssumption DEF PingDue
  <2>4. ~HasHash(L, h) /\ \A g : g # h => (HasHash(L, g) <=> HasHash(blacklist, g))
    BY ListItems, DeregisterUnique DEF HashIsUnique
  <2>5. \A g : g # h /\ HasHash(blacklist, g) => FindByHash(L, g) = FindByHash(blacklist, g)
    BY ListItems, DeregisterFind DEF HashIsUnique
  <2>6. ~HasHash(connections, h)
    BY <1>2 DEF HashIsUnique, HasHash
  <2> HIDE DEF L, h
  <2>7. \A g \in Hashes : g # h => SameHash(g)
    BY <1>1, <2>4, <2>5 DEF SameHash
  <2>8. /\ CacheState[h] = "refused" /\ CacheAge[h] = PingInterval
        /\ CacheState'[h] = "absent" /\ CacheAge'[h] = 0
    BY <1>1, <1>2, <2>3, <2>4, <2>6 DEF CacheState, CacheAge
  <2>9. Cache!Retry(h)
    BY <1>1, <2>7, <2>8, CacheMoves DEF Cache!Retry
  <2> QED
    BY <1>1, <2>9 DEF Cache!Next
<1>3. CASE ~HasHash(blacklist, h)
  <2>1. L = blacklist
    BY <1>3 DEF Deregister, UnlinkFirst, HasHash
  <2> QED
    BY <1>1, <2>1, ListsStutter
<1> QED
  BY <1>2, <1>3

\* A refused connection attempt refuses a hash that was absent.
LEMMA ConnectRefuses ==
  ASSUME ListInv, NEW h \in Hashes, Unlisted(h), blacklist' = Register(blacklist, h, 0),
         UNCHANGED connections
  PROVE  Cache!Next
<1> DEFINE L == Register(blacklist, h, 0)
<1>0. 0 \in 0..PingInterval
  BY ConstantsAssumption
<1>1. HasHash(L, h) /\ \A g : g # h => (HasHash(L, g) <=> HasHash(blacklist, g))
  BY <1>0, ListItems, RegisterUnique DEF ListInv, HashIsUnique
<1>2. /\ FindByHash(L, h) = 0
      /\ \A g : g # h /\ HasHash(blacklist, g) => FindByHash(L, g) = FindByHash(blacklist, g)
  <2> DEFINE D == 0..PingInterval
  <2>1. /\ blacklist \in Seq(Items(Hashes, D)) /\ UniqueHashes(blacklist)
        /\ ~HasHash(blacklist, h) /\ 0 \in D
    BY <1>0, ListItems DEF ListInv, HashIsUnique, Unlisted
  <2> HIDE DEF D
  <2> QED
    BY <2>1, RegisterFind
<1>a. blacklist' = L
  OBVIOUS
<1> HIDE DEF L
<1>3. \A g \in Hashes : g # h => SameHash(g)
  BY <1>1, <1>2, <1>a DEF SameHash
<1>4. CacheState[h] = "absent" /\ CacheState'[h] = "refused" /\ CacheAge'[h] = 0
  BY <1>1, <1>2, <1>a DEF CacheState, CacheAge, Unlisted
<1>5. Cache!Refuse(h)
  BY <1>3, <1>4, CacheMoves DEF Cache!Refuse
<1> QED
  BY <1>5 DEF Cache!Next

\* The first ping adds a hash that was absent.
LEMMA FirstPingAdds ==
  ASSUME ListInv, NEW h \in Hashes, NEW a \in Addrs, Unlisted(h),
         connections' = Register(connections, h, a), UNCHANGED blacklist
  PROVE  Cache!Next
<1> DEFINE L == Register(connections, h, a)
<1>1. HasHash(L, h) /\ \A g : g # h => (HasHash(L, g) <=> HasHash(connections, g))
  BY ListItems, RegisterUnique DEF ListInv, HashIsUnique
<1> HIDE DEF L
<1>2. \A g \in Hashes : g # h => SameHash(g)
  BY <1>1 DEF SameHash, L
<1>3. CacheState[h] = "absent" /\ CacheState'[h] = "live" /\ CacheAge'[h] = 0
  BY <1>1 DEF CacheState, CacheAge, Unlisted, L
<1>4. Cache!Add(h)
  BY <1>2, <1>3, CacheMoves DEF Cache!Add
<1> QED
  BY <1>4 DEF Cache!Next

\* A second ages what is refused and nothing else.
LEMMA TickAges ==
  ASSUME ListInv, Tick
  PROVE  Cache!Tick
<1> USE DEF ListInv
<1>1. UNCHANGED connections
  BY DEF Tick
<1>2. blacklist \in Seq(Items(Hashes, 0..PingInterval)) /\ UniqueHashes(blacklist)
  BY ListItems DEF HashIsUnique
<1>3. /\ Len(blacklist') = Len(blacklist) /\ Len(blacklist) \in Nat
      /\ \A i \in 1..Len(blacklist) :
           /\ blacklist'[i].hash = blacklist[i].hash
           /\ blacklist'[i].data = Older(blacklist[i].data, PingInterval)
  <2> DEFINE aged(i) == [hash |-> blacklist[i].hash,
                         data |-> Older(blacklist[i].data, PingInterval)]
  <2>1. blacklist' = [i \in 1..Len(blacklist) |-> aged(i)]
    BY DEF Tick
  <2>2. \A i \in 1..Len(blacklist) : /\ aged(i).hash = blacklist[i].hash
                                     /\ aged(i).data = Older(blacklist[i].data, PingInterval)
    OBVIOUS
  <2>3. Len(blacklist) \in Nat
    BY <1>2
  <2> HIDE DEF aged
  <2> QED
    BY <2>1, <2>2, <2>3
<1>4. \A h : HasHash(blacklist', h) <=> HasHash(blacklist, h)
  BY <1>3 DEF HasHash
<1>5. ASSUME NEW h, HasHash(blacklist, h)
      PROVE  FindByHash(blacklist', h) = Older(FindByHash(blacklist, h), PingInterval)
  <2>1. PICK i \in 1..Len(blacklist) : blacklist[i].hash = h
    BY <1>5 DEF HasHash
  <2>2. FindByHash(blacklist, h) = blacklist[i].data
    BY <1>2, <2>1, FindAt
  <2>3. UniqueHashes(blacklist')
    BY <1>2, <1>3 DEF UniqueHashes
  <2>4. FindByHash(blacklist', h) = blacklist'[i].data
    BY <1>3, <2>1, <2>3, FindUnique
  <2> QED
    BY <1>3, <2>2, <2>4
<1>6. CacheState' = CacheState
  <2>1. \A h \in Hashes : CacheState'[h] = CacheState[h]
    BY <1>1, <1>4 DEF CacheState
  <2> QED
    BY <2>1 DEF CacheState
<1>7. CacheAge' = [h \in Hashes |-> IF CacheState[h] = "refused" /\ CacheAge[h] < PingInterval
                                    THEN CacheAge[h] + 1 ELSE CacheAge[h]]
  <2> SUFFICES ASSUME NEW h \in Hashes
               PROVE  CacheAge'[h] = IF CacheState[h] = "refused" /\ CacheAge[h] < PingInterval
                                     THEN CacheAge[h] + 1 ELSE CacheAge[h]
    BY DEF CacheAge
  <2> QED
    BY <1>1, <1>4, <1>5 DEF CacheAge, CacheState, Older
<1> QED
  BY <1>6, <1>7 DEF Cache!Tick

\* The steps of a call move at most one hash.
LEMMA StepMoves ==
  ASSUME ListInv, NEW t \in Threads, Step(t)
  PROVE  Cache!Next \/ UNCHANGED Cache!cacheVars
<1> DEFINE a == cur[t]
<1> USE DEF ListInv
<1>0. pc[t] \notin {"null", "connect"} => a \in Addrs
  BY DEF TypeInv, CallOK
<1>1. CASE SinglePing(t)
  <2>1. a \in Addrs /\ Allocated(a) /\ UNCHANGED blacklist
    BY <1>0, <1>1 DEF SinglePing, At
  <2> QED
    BY <1>1, <2>1, DeregisterDrops, ListsStutter DEF SinglePing
<1>2. CASE SingleConnect(t)
  <2> DEFINE h == Hash(arg[t])
  <2>1. h \in Hashes /\ Unlisted(h) /\ UNCHANGED connections
    BY <1>2, HashType DEF SingleConnect, At, TypeInv, CallOK, UnderWay
  <2> QED
    BY <1>2, <2>1, ConnectRefuses, ListsStutter DEF SingleConnect
<1>3. CASE SingleIsMaster(t) \/ SingleServerVersion(t) \/ SingleAuthenticate(t) \/ UseFreed(t)
  BY <1>3, ListsStutter
  DEF SingleIsMaster, SingleServerVersion, SingleAuthenticate, UseFreed, mgrVars
<1>4. CASE SingleFirstPing(t)
  <2>1. a \in Addrs /\ Allocated(a) /\ pc[t] \in Making /\ UNCHANGED blacklist
    BY <1>0, <1>4 DEF SingleFirstPing, At, Making
  <2>2. heap[a].hash \in Hashes /\ Unlisted(heap[a].hash)
    BY <2>1, AllocatedShape DEF TypeInv, ConnectionShape, UnderWay
  <2> QED
    BY <1>4, <2>1, <2>2, FirstPingAdds, ListsStutter DEF SingleFirstPing
<1>5. CASE CallerIsMaster(t)
  <2>1. a \in Addrs /\ Allocated(a) /\ UNCHANGED blacklist
    BY <1>0, <1>5 DEF CallerIsMaster, At
  <2> QED
    BY <1>5, <2>1, DeregisterDrops, ListsStutter DEF CallerIsMaster
<1> QED
  BY <1>1, <1>2, <1>3, <1>4, <1>5 DEF Step

\* Every step of the manager is a step of the cache or changes nothing in it.
LEMMA NextMoves ==
  ASSUME ListInv, [Next]_vars
  PROVE  [Cache!Next]_(Cache!cacheVars)
<1>1. ASSUME NEW t \in Threads, NEW d \in Defs, Call(t, d)
      PROVE  Cache!Next \/ UNCHANGED Cache!cacheVars
  BY <1>1, LookupRetries, ListsStutter DEF Call, SingleBlacklisted, mgrVars
<1>2. CASE Deinit
  <2>1. connections' = <<>> /\ blacklist' = <<>>
    BY <1>2 DEF Deinit
  <2>2. \A h \in Hashes : ~HasHash(connections', h) /\ ~HasHash(blacklist', h)
    BY <2>1, EmptyList
  <2>3. Cache!Shutdown
    BY <2>2 DEF CacheState, CacheAge, Cache!Shutdown
  <2> QED
    BY <2>3 DEF Cache!Next
<1>3. CASE Tick
  BY <1>3, TickAges DEF Cache!Next
<1> QED
  BY <1>1, <1>2, <1>3, StepMoves, ListsStutter
  DEF Next, Surroundings, AddCallback, RemoveCallback, Fork, ServerDown, ServerUp,
      ServerChange, mgrVars, vars

\* In a one-threaded program the manager implements the cache: a hash becomes
\* live or refused only from absent, a live one is never refused, and a refused
\* one stays refused for a whole ping interval, whatever fails, forks or expires
\* between the lookup and the registration.
THEOREM CacheImplemented == ASSUME OneThread PROVE Spec => ImplementsCache
<1>1. Init => ListInv
  BY InitType, InitLists DEF ListInv
<1>2. ListInv /\ [Next]_vars => ListInv'
  BY NextLists
<1>3. Init => Cache!Init
  <2> SUFFICES ASSUME Init PROVE Cache!Init
    OBVIOUS
  <2>1. \A h \in Hashes : ~HasHash(connections, h) /\ ~HasHash(blacklist, h)
    BY EmptyList DEF Init
  <2> QED
    BY <2>1 DEF CacheState, CacheAge, Cache!Init
<1>4. ListInv /\ [Next]_vars => [Cache!Next]_(Cache!cacheVars)
  BY NextMoves
<1> QED
  BY <1>1, <1>2, <1>3, <1>4, PTL DEF Spec, ImplementsCache, Cache!Spec
=============================================================================
