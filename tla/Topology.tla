------------------------------ MODULE Topology ------------------------------
(***************************************************************************)
(* How a replica set is discovered (mongo_get_read_write_connection_       *)
(* replicaset and mongo_discover_topology in manager.c, and the part of    *)
(* mongo_connection_ismaster in connections.c that compares a server with  *)
(* its definition): connect to the seeds, ask each server of the growing   *)
(* list who the members are, connect to the new ones and append them.      *)
(*                                                                         *)
(* Definitions differ in host and set name only; all inherit the           *)
(* credentials of the seed.  A definition stands for its own hash.  Every  *)
(* network operation may fail at any time, and the members may disagree    *)
(* about the set: what host h may answer is the set Views[h].              *)
(***************************************************************************)
EXTENDS Integers, Sequences, FiniteSets

CONSTANTS
  Hosts,       \* HOST:PORT of seeds and members
  Views,       \* Views[h]: the ismaster replies of the server at h
  SeedLists,   \* the sequences of hosts a client may be given
  SetNames,    \* replica set names
  MaxServers,  \* MAX_SERVERS_LIMIT, the places of servers->server
  MaxCalls,    \* requests that use the same servers
  Null

ASSUME TopologyAssumption ==
  /\ MaxServers \in Nat \ {0} /\ MaxCalls \in Nat \ {0}
  /\ Null \notin SetNames
  /\ \A h \in Hosts : \A r \in Views[h] :
       /\ r.me \in Hosts \cup {Null} /\ r.set \in SetNames \cup {Null}
       /\ r.hosts \in Seq(Hosts)
  /\ \A seeds \in SeedLists : seeds \in Seq(Hosts)

VARIABLES
  servers,      \* servers->server: the definitions, seeds first
  optName,      \* servers->options.repl_set_name
  setName,      \* the local repl_set_name
  connections,  \* the hashes that are registered
  fresh,        \* those whose last_replcheck is within the interval
  phase,        \* "seed", "check", "found", "done" or "overflow"
  i,            \* index of the loop over the servers
  found,        \* found_hosts that are still to be looked at
  supported,    \* found_supported_wire_version
  dontConnect,  \* MONGO_CON_FLAG_DONT_CONNECT
  calls,        \* requests so far
  named,        \* history: hosts that accepted replies of this call named
  failed,       \* history: hosts an operation of this call failed for
  nSeeds        \* history: how many seeds were given

mgr     == <<connections, fresh>>
history == <<named, failed, nSeeds>>
vars == <<servers, optName, setName, connections, fresh, phase, i, found,
          supported, dontConnect, calls, named, failed, nSeeds>>

ServerDefs == [host : Hosts, rs : SetNames \cup {Null}]
-----------------------------------------------------------------------------
(* mongo_get_connection_single, reduced to what it leaves in the manager *)

\* A connection is known or made (and registered), or the call returns NULL;
\* a known one that does not answer its ping is deregistered.
SingleSucceeds(d) == connections' = connections \cup {d} /\ UNCHANGED fresh
SingleFails(d) == connections' = connections \ {d} /\ fresh' = fresh \ {d}

\* The loop over the seed list.
SeedConnect ==
  /\ phase = "seed" /\ i <= Len(servers)
  /\ i' = i + 1
  /\ \/ SingleSucceeds(servers[i]) /\ ~(dontConnect /\ servers[i] \notin connections)
     \/ SingleFails(servers[i]) /\ ~(dontConnect /\ servers[i] \in connections)
  /\ UNCHANGED <<servers, optName, setName, phase, found, supported,
                 dontConnect, calls, history>>

\* Without any connection and without leave to make one the call ends;
\* otherwise the topology is discovered.
SeedsDone ==
  /\ phase = "seed" /\ i > Len(servers)
  /\ phase' = IF dontConnect /\ \A k \in 1..Len(servers) : servers[k] \notin connections
              THEN "done" ELSE "check"
  /\ i' = 1
  /\ setName' = optName
  /\ supported' = TRUE
  /\ UNCHANGED <<servers, optName, connections, fresh, found, dontConnect, calls, history>>
-----------------------------------------------------------------------------
(* mongo_discover_topology *)

\* mongo_manager_connection_deregister
Deregister(d) == connections' = connections \ {d} /\ fresh' = fresh \ {d}

\* Mutant of NextServer: the index stays.
NextServerForgotten == UNCHANGED <<i, phase, found, optName>>

NextServer == i' = i + 1 /\ UNCHANGED <<phase, found, optName>>

\* No connection for this server, or its ismaster is not due (result 2).
CheckSkipped ==
  /\ phase = "check" /\ i <= Len(servers)
  /\ servers[i] \notin connections \/ servers[i] \in fresh
  /\ failed' = IF servers[i] \notin connections THEN failed \cup {servers[i].host} ELSE failed
  /\ NextServer
  /\ UNCHANGED <<servers, setName, mgr, supported, dontConnect, calls, named, nSeeds>>

Due == phase = "check" /\ i <= Len(servers) /\ servers[i] \in connections \ fresh

\* ismaster gets no answer or no node type (result 0).
CheckFails ==
  /\ Due
  /\ Deregister(servers[i])
  /\ failed' = failed \cup {servers[i].host}
  /\ NextServer
  /\ UNCHANGED <<servers, setName, supported, dontConnect, calls, named, nSeeds>>

\* The wire versions do not overlap (result 4).
CheckUnsupported(r) ==
  /\ Due /\ ~r.wire
  /\ supported' = FALSE
  /\ Deregister(servers[i])
  /\ failed' = failed \cup {servers[i].host}
  /\ NextServer
  /\ UNCHANGED <<servers, setName, dontConnect, calls, named, nSeeds>>

\* The definition takes the name the server goes by.
Rename(d, r) == IF r.me = Null THEN d ELSE [d EXCEPT !.host = r.me]

\* Mutant of AcceptsSet: any set will do.
AcceptsAnySet(r) == r.set # Null

\* The reply names a set, and the expected one when a name is known.
AcceptsSet(r) == r.set # Null /\ setName \in {Null, r.set}

\* The server is no member of the set (result 0); its definition has been
\* renamed by then.
CheckWrongSet(r) ==
  /\ Due /\ r.wire /\ ~AcceptsSet(r)
  /\ servers' = [servers EXCEPT ![i] = Rename(@, r)]
  /\ Deregister(servers[i])
  /\ failed' = failed \cup {servers[i].host, Rename(servers[i], r).host}
  /\ NextServer
  /\ UNCHANGED <<setName, supported, dontConnect, calls, named, nSeeds>>

\* Mutant of KeepSeed: a renamed seed stays registered.
KeepEverySeed(d, r) == TRUE

\* Result 1; result 3 (the name differs) removes the seed's connection.
KeepSeed(d, r) == r.me \in {Null, d.host}

\* The server is a member: names are learnt and its hosts looked at.
CheckMember(r) ==
  LET d == servers[i]
  IN /\ Due /\ r.wire /\ AcceptsSet(r)
     /\ setName' = r.set
     /\ servers' = [servers EXCEPT
          ![i] = [Rename(d, r) EXCEPT !.rs = IF d.rs = Null THEN r.set ELSE @]]
     /\ optName' = IF optName = Null THEN r.set ELSE optName
     /\ IF KeepSeed(d, r) THEN fresh' = fresh \cup {d} /\ UNCHANGED connections
                          ELSE Deregister(d)
     /\ phase' = "found"
     /\ found' = r.hosts
     /\ named' = named \cup {r.hosts[k] : k \in 1..Len(r.hosts)}
     /\ UNCHANGED <<i, supported, dontConnect, calls, failed, nSeeds>>

\* Mutant of Contains: the list is not searched.
ContainsNothing(d) == FALSE

\* mongo_servers_contains
Contains(d) == \E k \in 1..Len(servers) : servers[k] = d

\* servers->server[servers->count] = tmp_def, when it is new.
AppendServer(d) ==
  IF Contains(d) THEN UNCHANGED <<servers, phase>>
  ELSE IF Len(servers) < MaxServers
  THEN servers' = Append(servers, d) /\ UNCHANGED phase
  ELSE phase' = "overflow" /\ UNCHANGED servers

\* Mutant of FoundDef: the set name is not copied.
FoundDefNoSet(h) == [host |-> h, rs |-> Null]

\* The definition made for a found host.
FoundDef(h) == [host |-> h, rs |-> servers[i].rs]

\* The next found host.  A new connection is checked at once: one that fails
\* is removed again, but its definition is appended all the same.
FoundHost ==
  LET d == FoundDef(Head(found))
  IN /\ phase = "found" /\ found # <<>>
     /\ found' = Tail(found)
     /\ AppendServer(d)
     /\ \/ /\ d \in connections
           /\ UNCHANGED <<mgr, supported, failed>>
        \/ /\ d \notin connections /\ SingleSucceeds(d)
           /\ \E r \in Views[d.host] : r.wire
           /\ UNCHANGED <<supported, failed>>
        \/ /\ d \notin connections /\ UNCHANGED mgr
           /\ failed' = failed \cup {d.host}
           /\ supported' = supported
        \/ /\ d \notin connections /\ UNCHANGED mgr
           /\ \E r \in Views[d.host] : ~r.wire
           /\ failed' = failed \cup {d.host}
           /\ supported' = FALSE
     /\ UNCHANGED <<optName, setName, i, dontConnect, calls, named, nSeeds>>

FoundDone ==
  /\ phase = "found" /\ found = <<>>
  /\ phase' = "check" /\ i' = i + 1
  /\ UNCHANGED <<servers, optName, setName, mgr, found, supported, dontConnect,
                 calls, history>>

DiscoverDone ==
  /\ phase = "check" /\ i > Len(servers)
  /\ phase' = "done"
  /\ UNCHANGED <<servers, optName, setName, mgr, i, found, supported,
                 dontConnect, calls, history>>
-----------------------------------------------------------------------------
\* The application asks again, some time later: the replica set checks of some
\* connections are due again.
CallAgain ==
  /\ phase = "done" /\ calls < MaxCalls
  /\ calls' = calls + 1
  /\ dontConnect' \in BOOLEAN
  /\ fresh' \in SUBSET fresh
  /\ phase' = "seed" /\ i' = 1
  /\ named' = {} /\ failed' = {}
  /\ UNCHANGED <<servers, optName, setName, connections, found, supported, nSeeds>>

\* A client without connections; replicaSet=true gives no name.
Init ==
  \E seeds \in SeedLists, name \in SetNames \cup {Null} :
    /\ servers = [k \in 1..Len(seeds) |-> [host |-> seeds[k], rs |-> name]]
    /\ optName = name /\ setName = name
    /\ nSeeds = Len(seeds)
    /\ connections = {} /\ fresh = {}
    /\ phase = "seed" /\ i = 1 /\ found = <<>> /\ supported = TRUE
    /\ dontConnect \in BOOLEAN
    /\ calls = 1 /\ named = {} /\ failed = {}

Check ==
  \/ CheckSkipped \/ CheckFails
  \/ \E h \in Hosts : \E r \in Views[h] :
       /\ i <= Len(servers) /\ servers[i].host = h
       /\ CheckUnsupported(r) \/ CheckWrongSet(r) \/ CheckMember(r)

Step == SeedConnect \/ SeedsDone \/ Check \/ FoundHost \/ FoundDone \/ DiscoverDone

Next == Step \/ CallAgain

\* One thread runs the loops; every network operation in them has a timeout.
Spec == Init /\ [][Next]_vars /\ WF_vars(Step)
-----------------------------------------------------------------------------
(* Properties *)

\* types.h declares the list "TODO: Make this dynamic" with MAX_SERVERS_LIMIT
\* places and manager.c:292 appends without looking.  Renamed seeds, seeds
\* without a set name and members that disagree never make the list longer than
\* the seeds and the named hosts together.
ServersBounded == phase # "overflow" /\ Len(servers) <= nSeeds + Cardinality(Hosts)

\* When discovery ends, every host that a member named has a connection that
\* the selection by set name will consider, unless an operation on that host
\* failed in this very call.
MembersUsable ==
  phase = "done" => \A h \in named :
    h \in failed \/ [host |-> h, rs |-> optName] \in connections

\* When discovery ends, every registered connection is that of a server in the
\* list, which later calls ping and check; what a renaming or a learnt set name
\* leaves behind is at most a connection without a set name, which the
\* selection by set name skips.  No check outlives the connection it was made on.
NoStrayCandidate ==
  /\ fresh \subseteq connections
  /\ phase = "done" => \A c \in connections :
       c.rs = Null \/ \E k \in 1..Len(servers) : servers[k] = c

\* The list never holds definitions of two sets, whatever the servers report.
OneSet ==
  \A k \in 1..Len(servers) : servers[k].rs \in {Null, optName}

\* Every request ends.
Terminates == phase = "seed" ~> phase = "done"
=============================================================================
