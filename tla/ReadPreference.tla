--------------------------- MODULE ReadPreference ---------------------------
(***************************************************************************)
(* How one of the registered connections is chosen for a request           *)
(* (read_preference.c and the end of mongo_get_connection_multiple and     *)
(* mongo_get_read_write_connection_replicaset): collect by node type,      *)
(* limit to the replica set or to the seeds, limit by credentials, try the *)
(* tagsets in order, sort, keep the near ones, pick one at random.         *)
(*                                                                         *)
(* A step is one of those functions.  The registry and the request do not  *)
(* change meanwhile; qsort is not stable and the pick is random, so both   *)
(* are nondeterministic.                                                   *)
(***************************************************************************)
EXTENDS Integers, Sequences, SequencesExt, Functions

CONSTANTS
  Registries,  \* the contents manager->connections may have
  Requests,    \* the requests: options, read preference, flags, servers
  MyPid,       \* getpid()
  IntBits,     \* width of int
  Null

VARIABLES
  registry,  \* the connections, in the order they were registered
  request,   \* what is asked for
  stage,     \* the function that runs next, or how it ended
  col,       \* the collection in hand
  tagset,    \* the tagset that is tried next
  con        \* the connection returned

vars == <<registry, request, stage, col, tagset, con>>

\* types.h: the values matter to the sort.
NodeValue == [STANDALONE |-> 1, PRIMARY |-> 2, SECONDARY |-> 4, ARBITER |-> 8,
              MONGOS |-> 16]

IsList(s) == s \in Seq(ToSet(s))

\* The manager registers no hash twice, and a request has a server.
ASSUME ReadPreferenceAssumption ==
  /\ IntBits \in Nat \ {0} /\ Null \notin DOMAIN NodeValue
  /\ \A r \in Registries :
       /\ IsList(r) /\ \A i, j \in DOMAIN r : r[i].hash = r[j].hash => i = j
       /\ \A c \in ToSet(r) : c.ping \in Nat /\ c.type \in DOMAIN NodeValue /\ IsList(c.tags)
  /\ \A q \in Requests :
       /\ IsList(q.servers) /\ q.servers # <<>>
       /\ IsList(q.tagsets) /\ \A t \in ToSet(q.tagsets) : IsList(t)

\* A signed int of IntBits bits.
CInt(n) == ((n + 2^(IntBits - 1)) % 2^IntBits) - 2^(IntBits - 1)
-----------------------------------------------------------------------------
(* Collecting and filtering *)

\* A new collection, to which each element of s that is in S is added in turn.
Keep(s, S) ==
  LET kept[i \in 0..Len(s)] ==
        IF i = 0 THEN <<>>
        ELSE IF s[i] \in S THEN Append(kept[i - 1], s[i]) ELSE kept[i - 1]
  IN kept[Len(s)]

\* The read preference the candidates are searched with: writes need a
\* primary, standalone and multiple servers take any, and tagsets count only
\* for reads of a replica set.
IsRead(q) == q.type = "REPLSET" /\ q.flag = "READ"
FindType(q) ==
  CASE IsRead(q) -> q.rp
    [] q.type = "REPLSET" /\ q.flag = "WRITE" -> "PRIMARY"
    [] OTHER -> "ANY"
Tagsets(q) == IF IsRead(q) THEN q.tagsets ELSE <<>>

\* mongo_find_all_candidate_servers and the mongo_rp_collect_* wrappers
CollectTypes(rp) ==
  CASE rp = "PRIMARY" -> {"PRIMARY"}
    [] rp = "SECONDARY" -> {"SECONDARY"}
    [] rp \in {"PRIMARY_PREFERRED", "SECONDARY_PREFERRED", "NEAREST"} -> {"PRIMARY", "SECONDARY"}
    [] rp = "ANY" -> DOMAIN NodeValue

\* filter_connections: connections of other processes are skipped.
FilterConnections(cons, types) ==
  Keep(cons, {c \in ToSet(cons) : c.hash.pid = MyPid /\ c.type \in types})

\* mongo_filter_candidates_by_replicaset_name
ByReplicasetName(cands, rs) ==
  Keep(cands, {c \in ToSet(cands) : c.hash.rs # Null /\ (rs = Null \/ c.hash.rs = rs)})

\* mongo_server_create_hash of a server definition
HashOf(def) == [host |-> def.host, rs |-> def.rs, cred |-> def.cred, pid |-> MyPid]

\* Mutant of BySeed: the host alone is compared.
BySeedHost(cands, servers) ==
  FlattenSeq([j \in 1..Len(servers) |->
                Keep(cands, {c \in ToSet(cands) : c.hash.host = servers[j].host})])

\* mongo_filter_candidates_by_seed, in the order of the servers
BySeed(cands, servers) ==
  FlattenSeq([j \in 1..Len(servers) |->
                Keep(cands, {c \in ToSet(cands) : c.hash = HashOf(servers[j])})])

\* mongo_filter_candidates_by_credentials: only a client with credentials
\* filters.  strcmp is given the NULL that mongo_server_split_hash returns for
\* a hash without credentials.
ComparesNull(cands, cred) == cred # Null /\ \E i \in 1..Len(cands) : cands[i].hash.cred = Null
ByCredentials(cands, cred) ==
  Keep(cands, {c \in ToSet(cands) : cred = Null \/ c.hash.cred = cred})

\* candidate_matches_tags counts the pairs that are equal.
MatchesTags(c, tags) ==
  Cardinality({p \in (1..Len(tags)) \X (1..Len(c.tags)) : tags[p[1]] = c.tags[p[2]]})
    = Len(tags)

\* Mutant of ByTagset: the primary needs the tags too.
ByTagsetOnly(cands, tags, rp) == Keep(cands, {c \in ToSet(cands) : MatchesTags(c, tags)})

\* mongo_filter_candidates_by_tagset
ByTagset(cands, tags, rp) ==
  Keep(cands, {c \in ToSet(cands) : \/ rp = "PRIMARY_PREFERRED" /\ c.type = "PRIMARY"
                                   \/ MatchesTags(c, tags)})
-----------------------------------------------------------------------------
(* Sorting, nearest, picking *)

\* mongo_rp_sort_primary_preferred, _secondary_preferred and _any: a may stand
\* before b.
MayPrecede(a, b, rp) ==
  LET va == NodeValue[a.type]
      vb == NodeValue[b.type]
  IN CASE rp = "PRIMARY_PREFERRED"   -> va < vb \/ (va = vb /\ a.ping <= b.ping)
       [] rp = "SECONDARY_PREFERRED" -> va > vb \/ (va = vb /\ a.ping <= b.ping)
       [] OTHER -> a.ping <= b.ping

\* mongo_sort_servers: the orders qsort may leave.
Sorted(cands, rp) ==
  {s \in {[i \in 1..Len(cands) |-> cands[p[i]]] :
             p \in Bijection(1..Len(cands), 1..Len(cands))} :
     \A i \in 1..(Len(s) - 1) : MayPrecede(s[i], s[i + 1], rp)}

\* mongo_select_nearest_servers: the cutoff counts from the first element.
NearestServers(cands, latency) ==
  Keep(cands, {c \in ToSet(cands) : c.ping <= CInt(cands[1].ping + latency)})

\* Mutant of PickFrom: the last place is not ignored.
PickFromAll(cands, rp) ==
  IF rp = "PRIMARY_PREFERRED" /\ cands[1].type = "PRIMARY" THEN 1..1 ELSE 1..Len(cands)

\* mongo_pick_server_from_set: the places rand() may hit.
PickFrom(cands, rp) ==
  CASE rp = "PRIMARY_PREFERRED" /\ cands[1].type = "PRIMARY" -> 1..1
    [] rp = "SECONDARY_PREFERRED" /\ Len(cands) > 1 /\ cands[Len(cands)].type = "PRIMARY"
         -> 1..(Len(cands) - 1)
    [] OTHER -> 1..Len(cands)
-----------------------------------------------------------------------------
(* The steps *)

Goto(s) == stage' = s /\ UNCHANGED <<registry, request, con>>

Collect ==
  /\ stage = "collect"
  /\ col' = FilterConnections(registry, CollectTypes(FindType(request)))
  /\ Goto("limit") /\ UNCHANGED tagset

Limit ==
  /\ stage = "limit"
  /\ col' = IF request.type = "REPLSET" THEN ByReplicasetName(col, request.rs)
            ELSE BySeed(col, request.servers)
  /\ Goto("credentials") /\ UNCHANGED tagset

Credentials ==
  LET cred == request.servers[1].cred
  IN /\ stage = "credentials"
     /\ IF ComparesNull(col, cred)
        THEN Goto("crashed") /\ UNCHANGED col
        ELSE /\ col' = ByCredentials(col, cred)
             /\ Goto(IF Tagsets(request) = <<>> THEN "sort" ELSE "tags")
     /\ UNCHANGED tagset

\* One round of the loop over the tagsets: the first that matches somebody
\* wins; when none does there is no candidate.
TryTagset ==
  LET hit == ByTagset(col, Tagsets(request)[tagset], FindType(request))
  IN /\ stage = "tags"
     /\ \/ hit # <<>> /\ col' = hit /\ Goto("sort") /\ UNCHANGED tagset
        \/ hit = <<>> /\ tagset < Len(Tagsets(request))
           /\ tagset' = tagset + 1 /\ Goto("tags") /\ UNCHANGED col
        \/ hit = <<>> /\ tagset = Len(Tagsets(request))
           /\ col' = <<>> /\ Goto("null") /\ UNCHANGED tagset

\* An empty collection ends the search; otherwise it is sorted by the read
\* preference of the request, also for writes.
Sort ==
  /\ stage = "sort" /\ UNCHANGED tagset
  /\ \/ col = <<>> /\ Goto("null") /\ UNCHANGED col
     \/ col # <<>> /\ col' \in Sorted(col, request.rp) /\ Goto("near")

Near ==
  /\ stage = "near"
  /\ col' = NearestServers(col, request.latency)
  /\ Goto("pick") /\ UNCHANGED tagset

\* rand() % 0 and the element 0 of an empty collection are undefined.
Pick ==
  /\ stage = "pick" /\ UNCHANGED <<registry, request, col, tagset>>
  /\ \/ col = <<>> /\ stage' = "crashed" /\ UNCHANGED con
     \/ /\ col # <<>> /\ stage' = "done"
        /\ \E i \in PickFrom(col, request.rp) : con' = col[i]

Init ==
  /\ registry \in Registries /\ request \in Requests
  /\ stage = "collect" /\ col = <<>> /\ tagset = 1 /\ con = Null

Next == Collect \/ Limit \/ Credentials \/ TryTagset \/ Sort \/ Near \/ Pick

Spec == Init /\ [][Next]_vars
-----------------------------------------------------------------------------
(* What a read preference promises, without sequences and stages *)

InRegistry == ToSet(registry)

\* The connections of this process to the servers the request is about, whoever
\* authenticated them, ...
Candidates ==
  {c \in InRegistry :
     /\ c.hash.pid = MyPid
     /\ c.type \in CollectTypes(FindType(request))
     /\ IF request.type = "REPLSET"
        THEN c.hash.rs # Null /\ request.rs \in {Null, c.hash.rs}
        ELSE \E j \in 1..Len(request.servers) : HashOf(request.servers[j]) = c.hash}

\* ... and those with its credentials.
Mine == {c \in Candidates : c.hash.cred = request.servers[1].cred}

HasTags(c, tags) == ToSet(tags) \subseteq ToSet(c.tags)

\* Those of the first tagset that anyone has; primaryPreferred takes its
\* primary with any tags.
Tagged ==
  LET with(k) == {c \in Mine : \/ HasTags(c, Tagsets(request)[k])
                               \/ FindType(request) = "PRIMARY_PREFERRED" /\ c.type = "PRIMARY"}
      hits == {k \in 1..Len(Tagsets(request)) : with(k) # {}}
  IN IF Tagsets(request) = <<>> THEN Mine
     ELSE UNION {with(k) : k \in {k \in hits : \A j \in hits : k <= j}}

\* The preferred role, when anyone has it.
Preferred ==
  LET role == CASE request.rp = "PRIMARY_PREFERRED" -> "PRIMARY"
                [] request.rp = "SECONDARY_PREFERRED" -> "SECONDARY"
                [] OTHER -> Null
      having == {c \in Tagged : c.type = role}
  IN IF having = {} THEN Tagged ELSE having

\* Those within the latency of the nearest.
Promised ==
  {c \in Preferred : \A d \in Preferred : c.ping <= d.ping + request.latency}

\* The latency is no negative number, and its sum with a ping fits an int.
LatencyFits ==
  request.latency \in Nat
    /\ \A c \in Tagged : CInt(c.ping + request.latency) = c.ping + request.latency

\* The cutoff, counted from one that the sort may put first, leaves nobody over.
CutsAll ==
  \E c \in Tagged :
    /\ \A d \in Tagged : MayPrecede(c, d, request.rp)
    /\ \A d \in Tagged : ~(d.ping <= CInt(c.ping + request.latency))

\* The credentials of the request would be compared with those a connection has not.
NullCompared ==
  request.servers[1].cred # Null /\ \E c \in Candidates : c.hash.cred = Null

Primaries(S) == {c \in S : c.type = "PRIMARY"}
Roles(S) == {c.type : c \in S} \subseteq {"PRIMARY", "SECONDARY"}
-----------------------------------------------------------------------------
(* Properties *)

\* The pipeline of filters, unstable sort, cutoff and random pick can return
\* exactly the connections the read preference promises: none that it excludes,
\* and none of them is left out of the draw.  Its terms are those of a replica
\* set with one primary and of a latency that can be added to a ping; what another
\* latency leads to is what OutcomeIsDue is about.
PickIsPromised ==
  stage = "pick" /\ request.type = "REPLSET" /\ LatencyFits /\ Roles(Tagged)
    /\ Cardinality(Primaries(Tagged)) <= 1
    => {col[i] : i \in PickFrom(col, request.rp)} = Promised

\* How every search ends, for any latency and whatever clients share the registry:
\* without a connection only when nothing the request could use is registered;
\* with undefined behaviour (strcmp of a NULL, rand() % 0) exactly when a client
\* with credentials meets a connection without, or when the cutoff has left
\* nobody over, which takes a latency that is negative or overflows.
OutcomeIsDue ==
  /\ stage = "null" => Tagged = {} /\ ~NullCompared
  /\ stage = "done" => ~NullCompared /\ ~CutsAll
  /\ stage = "crashed" => NullCompared \/ (CutsAll /\ ~LatencyFits)

\* A connection of another process, another replica set or a server that was
\* not asked for is never returned, whatever stands in the registry.
ReturnsMine == stage = "done" => con \in Mine
=============================================================================
