--------------------------- MODULE TopologyProofs ---------------------------
(***************************************************************************)
(* Theorems about the discovery of a replica set, for any hosts, replies,  *)
(* seed lists and set names, and whatever fails.                           *)
(***************************************************************************)
EXTENDS Topology, FiniteSetTheorems, TLAPS

MaybeNames == SetNames \cup {Null}

TypeInv ==
  /\ servers \in Seq(ServerDefs)
  /\ optName \in MaybeNames /\ setName \in MaybeNames
  /\ connections \subseteq ServerDefs
  /\ phase \in {"seed", "check", "found", "done", "overflow"}
  /\ i \in Nat \ {0}
  /\ found \in Seq(Hosts)
  /\ nSeeds \in Nat
-----------------------------------------------------------------------------
(* The inductive invariant, in named parts *)

\* While the topology is discovered, the loop's own copy of the set name is the
\* client's.
NameKnown == phase \in {"check", "found"} => setName = optName

\* The server whose hosts are being looked at is a member of the client's set.
MemberAt == phase = "found" => /\ i \in 1..Len(servers)
                               /\ servers[i].rs = optName /\ optName # Null

\* A registered connection of a set belongs to a listed server.
Listed ==
  phase # "overflow" => \A c \in connections : c.rs = Null \/ Contains(c)

Discovery == TypeInv /\ OneSet /\ NameKnown /\ MemberAt /\ Listed /\ fresh \subseteq connections
-----------------------------------------------------------------------------
(* Facts about the list *)

\* An entry of the list is a definition.
LEMMA ServerType ==
  ASSUME TypeInv, NEW k \in 1..Len(servers)
  PROVE  servers[k] \in ServerDefs /\ servers[k].host \in Hosts /\ servers[k].rs \in MaybeNames
<1>1. servers[k] \in ServerDefs
  BY DEF TypeInv
<1> QED
  BY <1>1 DEF ServerDefs, MaybeNames

\* Changing one entry changes one entry.
LEMMA ServerUpdate ==
  ASSUME TypeInv, NEW k \in 1..Len(servers), NEW d \in ServerDefs,
         servers' = [servers EXCEPT ![k] = d]
  PROVE  /\ servers' \in Seq(ServerDefs) /\ Len(servers') = Len(servers)
         /\ servers'[k] = d
         /\ \A j \in 1..Len(servers) : j # k => servers'[j] = servers[j]
BY DEF TypeInv

\* L is the list with the entry d added at its end.
Appended(L, d) ==
  /\ L \in Seq(ServerDefs) /\ Len(L) = Len(servers) + 1 /\ Len(servers) \in Nat
  /\ L[Len(servers) + 1] = d
  /\ \A j \in 1..Len(servers) : L[j] = servers[j]

\* Appending adds one entry at the end.
LEMMA ServerAppend ==
  ASSUME TypeInv, NEW d \in ServerDefs, NEW L, L = Append(servers, d)
  PROVE  Appended(L, d)
BY DEF TypeInv, Appended

\* A reply keeps the definition a definition.
LEMMA RenameType ==
  ASSUME NEW d \in ServerDefs, NEW h \in Hosts, NEW r \in Views[h]
  PROVE  /\ Rename(d, r) \in ServerDefs /\ Rename(d, r).rs = d.rs
         /\ Rename(d, r).host = IF r.me = Null THEN d.host ELSE r.me
BY TopologyAssumption DEF Rename, ServerDefs

\* What the reply of a member makes of the definition.
Learnt(d, r) == [Rename(d, r) EXCEPT !.rs = IF d.rs = Null THEN r.set ELSE @]

\* It stays a definition, with the learnt set name if it had none.
LEMMA LearntType ==
  ASSUME NEW d \in ServerDefs, NEW h \in Hosts, NEW r \in Views[h]
  PROVE  /\ Learnt(d, r) \in ServerDefs
         /\ Learnt(d, r).rs = (IF d.rs = Null THEN r.set ELSE d.rs)
         /\ Learnt(d, r).host = (IF r.me = Null THEN d.host ELSE r.me)
<1>1. /\ Rename(d, r) \in ServerDefs /\ Rename(d, r).rs = d.rs
      /\ Rename(d, r).host = IF r.me = Null THEN d.host ELSE r.me
  BY RenameType
<1>2. r.set \in SetNames \cup {Null}
  BY TopologyAssumption
<1> HIDE DEF Rename
<1> QED
  BY <1>1, <1>2 DEF Learnt, ServerDefs

\* The definition made for a found host.
LEMMA FoundType ==
  ASSUME Discovery, phase = "found", found # <<>>
  PROVE  /\ FoundDef(Head(found)) = [host |-> Head(found), rs |-> optName]
         /\ FoundDef(Head(found)) \in ServerDefs
         /\ Head(found) \in Hosts /\ Tail(found) \in Seq(Hosts)
BY DEF Discovery, TypeInv, MemberAt, FoundDef, ServerDefs, MaybeNames

\* mongo_servers_contains and the append: the definition is in the list
\* afterwards, or there was no room.
LEMMA AppendOutcome ==
  ASSUME TypeInv, NEW d \in ServerDefs, AppendServer(d)
  PROVE  \/ Contains(d) /\ UNCHANGED <<servers, phase>>
         \/ ~Contains(d) /\ servers' = Append(servers, d) /\ UNCHANGED phase
         \/ ~Contains(d) /\ UNCHANGED servers /\ phase' = "overflow" /\ ~(Len(servers) < MaxServers)
BY DEF AppendServer
-----------------------------------------------------------------------------
(* The steps *)

\* A check of the server at i with the reply r of the host it is listed under.
LEMMA CheckReply ==
  ASSUME TypeInv, Due, NEW h \in Hosts, NEW r \in Views[h], servers[i].host = h
  PROVE  /\ i \in 1..Len(servers) /\ servers[i] \in ServerDefs
         /\ servers[i] \in connections /\ phase = "check"
         /\ r.set \in MaybeNames /\ r.me \in Hosts \cup {Null} /\ r.hosts \in Seq(Hosts)
<1>1. i \in 1..Len(servers)
  BY DEF Due, TypeInv
<1> QED
  BY <1>1, ServerType, TopologyAssumption DEF Due, MaybeNames

\* A member's reply: the list, the names and the phase stay in agreement.
LEMMA MemberStep ==
  ASSUME Discovery, NEW h \in Hosts, NEW r \in Views[h], servers[i].host = h, CheckMember(r)
  PROVE  Discovery'
<1> DEFINE d == servers[i]
           e == Learnt(d, r)
<1> USE DEF Discovery
<1>1. /\ i \in 1..Len(servers) /\ d \in ServerDefs /\ d \in connections /\ phase = "check"
      /\ r.set \in MaybeNames /\ r.hosts \in Seq(Hosts)
  BY CheckReply DEF CheckMember
<1>2. r.set # Null /\ setName \in {Null, r.set} /\ setName = optName
  BY <1>1 DEF CheckMember, AcceptsSet, NameKnown
<1>3. setName' = r.set /\ optName' = r.set /\ optName \in {Null, r.set}
  BY <1>2 DEF CheckMember
<1>4. servers' = [servers EXCEPT ![i] = e]
  BY DEF CheckMember, Learnt
<1>5. e \in ServerDefs /\ e.rs = (IF d.rs = Null THEN r.set ELSE d.rs)
      /\ e.host = (IF r.me = Null THEN d.host ELSE r.me)
  BY <1>1, LearntType
<1> HIDE DEF e
<1>6. /\ servers' \in Seq(ServerDefs) /\ Len(servers') = Len(servers) /\ servers'[i] = e
      /\ \A j \in 1..Len(servers) : j # i => servers'[j] = servers[j]
  BY <1>1, <1>4, <1>5, ServerUpdate
<1>7. d.rs \in {Null, optName} /\ e.rs = r.set
  BY <1>1, <1>3, <1>5 DEF OneSet
<1>8. /\ phase' = "found" /\ found' = r.hosts /\ UNCHANGED <<i, nSeeds>>
      /\ connections' \subseteq connections /\ fresh' \subseteq connections'
      /\ ~KeepSeed(d, r) => d \notin connections'
  BY <1>1 DEF CheckMember, Deregister
<1>9. TypeInv'
  BY <1>1, <1>3, <1>6, <1>8 DEF TypeInv
<1>10. OneSet'
  BY <1>3, <1>6, <1>7 DEF OneSet
<1>11. NameKnown' /\ MemberAt'
  BY <1>1, <1>2, <1>3, <1>6, <1>7, <1>8 DEF NameKnown, MemberAt
<1>12. Listed'
  <2> SUFFICES ASSUME NEW c \in connections', c.rs # Null
               PROVE  \E k \in 1..Len(servers') : servers'[k] = c
    BY DEF Listed, Contains
  <2>1. PICK k \in 1..Len(servers) : servers[k] = c
    BY <1>1, <1>8 DEF Listed, Contains
  <2>2. CASE k # i
    BY <1>6, <2>1, <2>2
  <2>3. CASE k = i
    <3>1. KeepSeed(d, r) /\ d.rs # Null
      BY <1>8, <2>1, <2>3
    <3>2. e.host = d.host /\ e.rs = d.rs
      BY <1>5, <3>1 DEF KeepSeed
    <3>3. e = d
      BY <1>1, <1>5, <3>2 DEF ServerDefs
    <3> QED
      BY <1>1, <1>6, <2>1, <2>3, <3>3
  <2> QED
    BY <2>2, <2>3
<1> QED
  BY <1>8, <1>9, <1>10, <1>11, <1>12

\* A server of another set is renamed and its connection removed.
LEMMA WrongSetStep ==
  ASSUME Discovery, NEW h \in Hosts, NEW r \in Views[h], servers[i].host = h, CheckWrongSet(r)
  PROVE  Discovery'
<1> DEFINE d == servers[i]
           e == Rename(d, r)
<1> USE DEF Discovery
<1>1. i \in 1..Len(servers) /\ d \in ServerDefs /\ d \in connections /\ phase = "check"
  BY CheckReply DEF CheckWrongSet
<1>2. servers' = [servers EXCEPT ![i] = e]
  BY DEF CheckWrongSet
<1>3. e \in ServerDefs /\ e.rs = d.rs
  BY <1>1, RenameType
<1> HIDE DEF e
<1>4. /\ servers' \in Seq(ServerDefs) /\ Len(servers') = Len(servers) /\ servers'[i] = e
      /\ \A j \in 1..Len(servers) : j # i => servers'[j] = servers[j]
  BY <1>1, <1>2, <1>3, ServerUpdate
<1>5. /\ UNCHANGED <<phase, found, optName, setName, nSeeds>> /\ i' = i + 1
      /\ connections' = connections \ {d} /\ fresh' = fresh \ {d}
  BY DEF CheckWrongSet, NextServer, Deregister
<1>6. TypeInv'
  BY <1>4, <1>5 DEF TypeInv
<1>7. OneSet' /\ NameKnown' /\ MemberAt'
  BY <1>1, <1>3, <1>4, <1>5 DEF OneSet, NameKnown, MemberAt
<1>8. Listed'
  BY <1>1, <1>4, <1>5 DEF Listed, Contains
<1> QED
  BY <1>5, <1>6, <1>7, <1>8

\* A found host is appended and perhaps connected.
LEMMA FoundStep ==
  ASSUME Discovery, FoundHost
  PROVE  Discovery'
<1> DEFINE d == FoundDef(Head(found))
<1> USE DEF Discovery
<1>1. phase = "found" /\ found # <<>>
  BY DEF FoundHost
<1>2. d = [host |-> Head(found), rs |-> optName] /\ d \in ServerDefs /\ Tail(found) \in Seq(Hosts)
  BY <1>1, FoundType
<1>3. AppendServer(d) /\ found' = Tail(found) /\ UNCHANGED <<optName, setName, i, nSeeds>>
  BY DEF FoundHost
<1>4. UNCHANGED <<connections, fresh>> \/ (connections' = connections \cup {d} /\ UNCHANGED fresh)
  BY DEF FoundHost, SingleSucceeds, mgr
<1>5. d.rs = optName
  BY <1>2
<1> HIDE DEF d
<1>6. CASE Contains(d) /\ UNCHANGED <<servers, phase>>
  <2>1. TypeInv'
    BY <1>2, <1>3, <1>4, <1>6 DEF TypeInv
  <2>2. OneSet' /\ NameKnown' /\ MemberAt'
    BY <1>3, <1>6 DEF OneSet, NameKnown, MemberAt
  <2>3. Listed'
    BY <1>1, <1>4, <1>6 DEF Listed, Contains
  <2> QED
    BY <1>4, <2>1, <2>2, <2>3
<1>7. CASE servers' = Append(servers, d) /\ UNCHANGED phase
  <2>0. /\ servers' \in Seq(ServerDefs) /\ Len(servers') = Len(servers) + 1 /\ Len(servers) \in Nat
        /\ servers'[Len(servers) + 1] = d
        /\ \A j \in 1..Len(servers) : servers'[j] = servers[j]
    <3>1. Appended(servers', d)
      BY <1>2, <1>7, ServerAppend
    <3> QED
      BY <3>1 DEF Appended
  <2>1. TypeInv'
    BY <1>2, <1>3, <1>4, <1>7, <2>0 DEF TypeInv
  <2>a. \A j \in 1..Len(servers') : j \in 1..Len(servers) \/ j = Len(servers) + 1
    BY <2>0
  <2>2. OneSet'
    BY <1>3, <1>5, <2>0, <2>a DEF OneSet
  <2>3. NameKnown' /\ MemberAt'
    BY <1>3, <1>7, <2>0 DEF NameKnown, MemberAt
  <2>4. Listed'
    <3>1. \A c : Contains(c) => \E k \in 1..Len(servers') : servers'[k] = c
      BY <2>0 DEF Contains
    <3>2. \E k \in 1..Len(servers') : servers'[k] = d
      BY <2>0
    <3> QED
      BY <1>1, <1>4, <3>1, <3>2 DEF Listed, Contains
  <2> QED
    BY <1>4, <2>1, <2>2, <2>3, <2>4
<1>8. CASE UNCHANGED servers /\ phase' = "overflow"
  <2>1. TypeInv'
    BY <1>2, <1>3, <1>4, <1>8 DEF TypeInv
  <2>2. OneSet' /\ NameKnown' /\ MemberAt' /\ Listed'
    BY <1>3, <1>8 DEF OneSet, NameKnown, MemberAt, Listed
  <2> QED
    BY <1>4, <2>1, <2>2
<1> QED
  BY <1>2, <1>3, <1>6, <1>7, <1>8, AppendOutcome

\* The steps that touch neither the list nor the names.
LEMMA PlainStep ==
  ASSUME Discovery, UNCHANGED <<servers, optName, nSeeds>>,
         setName' \in {setName, optName}, phase' \in {"check", "found"} => setName' = optName,
         i' \in Nat \ {0}, found' \in Seq(Hosts),
         phase' \in {"seed", "check", "done"}, phase # "overflow",
         connections' \subseteq connections \cup {servers[k] : k \in 1..Len(servers)},
         fresh' \subseteq connections'
  PROVE  Discovery'
<1> USE DEF Discovery
<1>1. TypeInv'
  BY ServerType DEF TypeInv
<1>2. OneSet' /\ NameKnown' /\ MemberAt'
  BY DEF OneSet, NameKnown, MemberAt
<1>3. Listed'
  BY DEF Listed, Contains
<1> QED
  BY <1>1, <1>2, <1>3

\* The initial state.
LEMMA InitDiscovery == Init => Discovery
<1> SUFFICES ASSUME Init PROVE Discovery
  OBVIOUS
<1>1. PICK seeds \in SeedLists, name \in SetNames \cup {Null} :
        /\ servers = [k \in 1..Len(seeds) |-> [host |-> seeds[k], rs |-> name]]
        /\ optName = name /\ setName = name /\ nSeeds = Len(seeds)
        /\ connections = {} /\ fresh = {}
        /\ phase = "seed" /\ i = 1 /\ found = <<>>
  BY DEF Init
<1>2. seeds \in Seq(Hosts)
  BY TopologyAssumption
<1>3. Len(seeds) \in Nat /\ \A k \in 1..Len(seeds) : seeds[k] \in Hosts
  BY <1>2
<1>4. \A k \in 1..Len(seeds) : [host |-> seeds[k], rs |-> name] \in ServerDefs
  BY <1>3 DEF ServerDefs
<1>5. servers \in Seq(ServerDefs) /\ Len(servers) = Len(seeds)
  <2> DEFINE S == ServerDefs
             def(k) == [host |-> seeds[k], rs |-> name]
  <2>1. \A k \in 1..Len(seeds) : def(k) \in S
    BY <1>4
  <2>2. servers = [k \in 1..Len(seeds) |-> def(k)]
    BY <1>1
  <2> HIDE DEF def, S
  <2>3. servers \in Seq(S) /\ Len(servers) = Len(seeds)
    BY <1>3, <2>1, <2>2
  <2> QED
    BY <2>3 DEF S
<1>6. \A k \in 1..Len(servers) : servers[k].rs = name
  BY <1>1, <1>3, <1>5
<1>7. TypeInv
  BY <1>1, <1>3, <1>5 DEF TypeInv, MaybeNames
<1>8. OneSet /\ NameKnown /\ MemberAt /\ Listed
  BY <1>1, <1>6 DEF OneSet, NameKnown, MemberAt, Listed
<1> QED
  BY <1>1, <1>7, <1>8 DEF Discovery

\* Every step keeps the invariant.
LEMMA NextDiscovery ==
  ASSUME Discovery, [Next]_vars
  PROVE  Discovery'
<1>0. i + 1 \in Nat \ {0} /\ 1 \in Nat \ {0} /\ found \in Seq(Hosts)
  BY DEF Discovery, TypeInv
<1>a. phase = "check" => setName = optName
  BY DEF Discovery, NameKnown
<1>b. fresh \subseteq connections
  BY DEF Discovery
<1>1. CASE SeedConnect
  <2>1. phase = "seed" /\ i \in 1..Len(servers)
    BY <1>1 DEF SeedConnect, Discovery, TypeInv
  <2>2. \/ connections' = connections \cup {servers[i]} /\ UNCHANGED fresh
        \/ connections' = connections \ {servers[i]} /\ fresh' = fresh \ {servers[i]}
    BY <1>1 DEF SeedConnect, SingleSucceeds, SingleFails
  <2>3. /\ connections' \subseteq connections \cup {servers[k] : k \in 1..Len(servers)}
        /\ fresh' \subseteq connections'
    BY <1>b, <2>1, <2>2
  <2>4. UNCHANGED <<servers, optName, nSeeds, setName, phase, found>> /\ i' = i + 1
    BY <1>1 DEF SeedConnect, history
  <2> QED
    BY <1>0, <2>1, <2>3, <2>4, PlainStep
<1>2. CASE SeedsDone
  <2>1. /\ UNCHANGED <<servers, optName, nSeeds, connections, fresh, found>>
        /\ setName' = optName /\ i' = 1 /\ phase' \in {"done", "check"} /\ phase = "seed"
    BY <1>2 DEF SeedsDone, history
  <2> QED
    BY <1>0, <1>b, <2>1, PlainStep
<1>3. CASE CheckSkipped
  <2>1. /\ UNCHANGED <<servers, optName, nSeeds, setName, connections, fresh, found, phase>>
        /\ i' = i + 1 /\ phase = "check"
    BY <1>3 DEF CheckSkipped, NextServer, mgr
  <2> QED
    BY <1>0, <1>a, <1>b, <2>1, PlainStep
<1>4. ASSUME CheckFails \/ \E r : CheckUnsupported(r) PROVE Discovery'
  <2>1. /\ UNCHANGED <<servers, optName, nSeeds, setName, found, phase>>
        /\ i' = i + 1 /\ phase = "check"
        /\ connections' = connections \ {servers[i]} /\ fresh' = fresh \ {servers[i]}
    BY <1>4 DEF CheckFails, CheckUnsupported, NextServer, Deregister, Due
  <2> QED
    BY <1>0, <1>a, <1>b, <2>1, PlainStep
<1>5. CASE FoundDone
  <2>1. /\ UNCHANGED <<servers, optName, nSeeds, setName, connections, fresh, found>>
        /\ i' = i + 1 /\ phase' = "check" /\ phase = "found"
    BY <1>5 DEF FoundDone, mgr, history
  <2>2. setName = optName
    BY <2>1 DEF Discovery, NameKnown
  <2> QED
    BY <1>0, <1>b, <2>1, <2>2, PlainStep
<1>6. CASE DiscoverDone
  <2>1. /\ UNCHANGED <<servers, optName, nSeeds, setName, connections, fresh, found, i>>
        /\ phase' = "done" /\ phase = "check"
    BY <1>6 DEF DiscoverDone, mgr, history
  <2>2. i \in Nat \ {0}
    BY DEF Discovery, TypeInv
  <2> QED
    BY <1>0, <1>b, <2>1, <2>2, PlainStep
<1>7. CASE CallAgain
  <2>1. /\ UNCHANGED <<servers, optName, nSeeds, setName, connections, found>>
        /\ i' = 1 /\ phase' = "seed" /\ phase = "done" /\ fresh' \subseteq fresh
    BY <1>7 DEF CallAgain
  <2> QED
    BY <1>0, <1>b, <2>1, PlainStep
<1>8. CASE UNCHANGED vars
  BY <1>8 DEF vars, Discovery, TypeInv, OneSet, NameKnown, MemberAt, Listed, Contains
<1> QED
  BY <1>1, <1>2, <1>3, <1>4, <1>5, <1>6, <1>7, <1>8, MemberStep, WrongSetStep, FoundStep
  DEF Next, Step, Check

\* The servers of one client never come from two replica sets, whatever the
\* servers report, in whichever order, and also when the set's name is learnt.
THEOREM OneSetOnly == Spec => []OneSet
<1>1. Discovery => OneSet
  BY DEF Discovery
<1>2. Discovery /\ [Next]_vars => Discovery'
  BY NextDiscovery
<1> QED
  BY <1>1, <1>2, InitDiscovery, PTL DEF Spec

\* When discovery ends, each registered connection of a set is that of a listed
\* server, and each recorded check is on a registered connection: renaming a
\* server or learning its set name leaves no candidate behind.
THEOREM NoStrays == Spec => []NoStrayCandidate
<1>1. Discovery => NoStrayCandidate
  BY DEF Discovery, Listed, Contains, NoStrayCandidate
<1>2. Discovery /\ [Next]_vars => Discovery'
  BY NextDiscovery
<1> QED
  BY <1>1, <1>2, InitDiscovery, PTL DEF Spec
-----------------------------------------------------------------------------
(* What the members of a set say of each other *)

\* Some member's list of hosts names h.
NamesHost(h) ==
  \E g \in Hosts : \E r \in Views[g] : \E k \in 1..Len(r.hosts) : r.hosts[k] = h

\* A host that a set's configuration names goes by that name: its own ismaster
\* reports the same "me".  Only seeds are given under aliases.
NamesConsistent == \A h \in Hosts : NamesHost(h) => \A r \in Views[h] : r.me \in {Null, h}

\* A found host that has not been looked at yet.
Pending(h) == phase = "found" /\ \E k \in 1..Len(found) : found[k] = h

\* Every host named in this call is connected, has failed, or is still to come.
NamedReached ==
  phase # "overflow" => \A h \in named :
    h \in failed \/ [host |-> h, rs |-> optName] \in connections \/ Pending(h)

Reached ==
  /\ \A h \in named : NamesHost(h)
  /\ \A k \in 1..Len(found) : NamesHost(found[k])
  /\ phase = "seed" => named = {}
  /\ named # {} => optName # Null
  /\ NamedReached

\* A reply's own hosts are named.
LEMMA RepliesName ==
  ASSUME NEW h \in Hosts, NEW r \in Views[h], NEW k \in 1..Len(r.hosts)
  PROVE  NamesHost(r.hosts[k])
BY DEF NamesHost

\* The steps that name nobody and drop at most the connection of a host they
\* record as failed.
LEMMA ReachedKept ==
  ASSUME Reached, UNCHANGED <<optName, named, found>>, phase # "overflow",
         phase' = "seed" => phase = "seed",
         phase = "found" => phase' = "found" \/ found = <<>>,
         failed \subseteq failed',
         NEW d, d.host \in failed' \/ d \in connections' \/ d \notin connections,
         connections \ {d} \subseteq connections'
  PROVE  Reached'
<1>1. /\ \A h \in named' : NamesHost(h)
      /\ \A k \in 1..Len(found') : NamesHost(found'[k])
      /\ phase' = "seed" => named' = {}
      /\ named' # {} => optName' # Null
  BY DEF Reached
<1>2. NamedReached'
  <2> SUFFICES ASSUME NEW h \in named, h \notin failed'
               PROVE  [host |-> h, rs |-> optName] \in connections' \/ Pending(h)'
    BY DEF NamedReached
  <2>1. [host |-> h, rs |-> optName] \in connections \/ Pending(h)
    BY DEF Reached, NamedReached
  <2>2. CASE Pending(h)
    BY <2>2 DEF Pending
  <2>3. CASE [host |-> h, rs |-> optName] \in connections
    <3>1. [host |-> h, rs |-> optName].host = h
      OBVIOUS
    <3> QED
      BY <2>3, <3>1
  <2> QED
    BY <2>1, <2>2, <2>3
<1> QED
  BY <1>1, <1>2 DEF Reached

\* A member names hosts, all still to come; its own connection goes only when it
\* goes by another name, which a named host does not.
LEMMA ReachedMember ==
  ASSUME NamesConsistent, Discovery, Reached,
         NEW h \in Hosts, NEW r \in Views[h], servers[i].host = h, CheckMember(r)
  PROVE  Reached'
<1> DEFINE d == servers[i]
<1>1. /\ d \in ServerDefs /\ phase = "check" /\ r.hosts \in Seq(Hosts) /\ r.set \in MaybeNames
  BY CheckReply DEF CheckMember, Discovery
<1>2. /\ phase' = "found" /\ found' = r.hosts /\ failed' = failed
      /\ named' = named \cup {r.hosts[k] : k \in 1..Len(r.hosts)}
      /\ optName' = IF optName = Null THEN r.set ELSE optName
      /\ r.set # Null
  BY DEF CheckMember, AcceptsSet
<1>3. \/ KeepSeed(d, r) /\ UNCHANGED connections
      \/ ~KeepSeed(d, r) /\ connections' = connections \ {d}
  BY DEF CheckMember, Deregister
<1>4. /\ \A g \in named' : NamesHost(g)
      /\ \A k \in 1..Len(found') : NamesHost(found'[k])
      /\ named' # {} => optName' # Null
  BY <1>2, RepliesName DEF Reached
<1>5. NamedReached'
  <2> SUFFICES ASSUME NEW g \in named', g \notin failed', ~Pending(g)'
               PROVE  [host |-> g, rs |-> optName'] \in connections'
    BY DEF NamedReached
  <2>1. g \in named
    BY <1>2 DEF Pending
  <2>2. optName' = optName /\ [host |-> g, rs |-> optName] \in connections
    BY <1>1, <1>2, <2>1 DEF Reached, NamedReached, Pending
  <2>3. CASE UNCHANGED connections
    BY <2>2, <2>3
  <2>4. CASE ~KeepSeed(d, r) /\ connections' = connections \ {d}
    <3>1. ~NamesHost(d.host)
      BY <2>4 DEF NamesConsistent, KeepSeed
    <3>2. NamesHost(g)
      BY <2>1 DEF Reached
    <3>3. [host |-> g, rs |-> optName].host = g
      OBVIOUS
    <3> QED
      BY <2>2, <2>4, <3>1, <3>2, <3>3
  <2> QED
    BY <1>3, <2>3, <2>4
<1> QED
  BY <1>2, <1>4, <1>5 DEF Reached

\* The next found host is connected, or has failed.
LEMMA ReachedFound ==
  ASSUME Discovery, Reached, FoundHost
  PROVE  Reached'
<1> DEFINE d == [host |-> Head(found), rs |-> optName]
<1>1. phase = "found" /\ found # <<>>
  BY DEF FoundHost
<1>2. FoundDef(Head(found)) = d
  BY <1>1, FoundType
<1>3. /\ found' = Tail(found) /\ UNCHANGED <<optName, named>> /\ failed \subseteq failed'
      /\ d \in connections' \/ d.host \in failed'
      /\ connections \subseteq connections'
  BY <1>2 DEF FoundHost, SingleSucceeds, mgr
<1>4. phase' \in {"found", "overflow"}
  BY <1>1 DEF FoundHost, AppendServer
<1>5. found \in Seq(Hosts)
  BY DEF Discovery, TypeInv
<1>6. Len(found') = Len(found) - 1 /\ \A k \in 1..Len(found') : found'[k] = found[k + 1]
  BY <1>1, <1>3, <1>5
<1>7. Len(found) \in Nat /\ Head(found) = found[1]
  BY <1>1, <1>5
<1>8. \A k \in 1..Len(found) : k = 1 \/ (k - 1 \in 1..Len(found') /\ found'[k - 1] = found[k])
  BY <1>6, <1>7
<1>9. /\ \A h \in named' : NamesHost(h)
      /\ \A k \in 1..Len(found') : NamesHost(found'[k])
      /\ named' # {} => optName' # Null
  BY <1>3, <1>6, <1>7 DEF Reached
<1>10. NamedReached'
  <2> SUFFICES ASSUME NEW h \in named, h \notin failed', phase' = "found", ~Pending(h)'
               PROVE  [host |-> h, rs |-> optName] \in connections'
    BY <1>3, <1>4 DEF NamedReached
  <2>1. [host |-> h, rs |-> optName] \in connections \/ Pending(h)
    BY <1>1, <1>3 DEF Reached, NamedReached
  <2>2. CASE Pending(h)
    <3>1. PICK k \in 1..Len(found) : found[k] = h
      BY <2>2 DEF Pending
    <3>2. k = 1
      BY <1>8, <3>1 DEF Pending
    <3>3. h = Head(found)
      BY <1>7, <3>1, <3>2
    <3>4. d.host = Head(found)
      OBVIOUS
    <3> QED
      BY <1>3, <3>3, <3>4
  <2> QED
    BY <1>3, <2>1, <2>2
<1> QED
  BY <1>4, <1>9, <1>10 DEF Reached

\* Every step keeps the named hosts reached.
LEMMA NextReached ==
  ASSUME NamesConsistent, Discovery, Reached, [Next]_vars
  PROVE  Reached'
<1>1. ASSUME SeedConnect PROVE Reached'
  BY <1>1 DEF SeedConnect, history, Reached, NamedReached
<1>2. ASSUME SeedsDone PROVE Reached'
  BY <1>2 DEF SeedsDone, history, Reached, NamedReached
<1>3. ASSUME CheckSkipped PROVE Reached'
  <2>1. /\ UNCHANGED <<optName, named, found, phase, connections>> /\ phase = "check"
        /\ failed \subseteq failed'
    BY <1>3 DEF CheckSkipped, NextServer, mgr
  <2> QED
    BY <2>1, ReachedKept
<1>4. ASSUME CheckFails \/ \E r : CheckUnsupported(r) \/ CheckWrongSet(r) PROVE Reached'
  <2>1. /\ UNCHANGED <<optName, named, found, phase>> /\ phase = "check"
        /\ failed \subseteq failed' /\ servers[i].host \in failed'
        /\ connections' = connections \ {servers[i]}
    BY <1>4 DEF CheckFails, CheckUnsupported, CheckWrongSet, NextServer, Deregister, Due
  <2> QED
    BY <2>1, ReachedKept
<1>5. ASSUME FoundDone PROVE Reached'
  <2>1. /\ UNCHANGED <<optName, named, found, failed, connections>>
        /\ phase = "found" /\ found = <<>> /\ phase' = "check"
    BY <1>5 DEF FoundDone, mgr, history
  <2> QED
    BY <2>1, ReachedKept
<1>6. ASSUME DiscoverDone PROVE Reached'
  <2>1. /\ UNCHANGED <<optName, named, found, failed, connections>>
        /\ phase = "check" /\ phase' = "done"
    BY <1>6 DEF DiscoverDone, mgr, history
  <2> QED
    BY <2>1, ReachedKept
<1>7. ASSUME CallAgain PROVE Reached'
  BY <1>7 DEF CallAgain, Reached, NamedReached
<1>8. ASSUME UNCHANGED vars PROVE Reached'
  BY <1>8 DEF vars, Reached, NamedReached, Pending
<1> QED
  BY <1>1, <1>2, <1>3, <1>4, <1>5, <1>6, <1>7, <1>8, ReachedMember, ReachedFound
  DEF Next, Step, Check

\* When discovery ends, every host that a member named can be selected, unless
\* an operation on it failed in this call: no order of the replies, no failure
\* of another server and no learnt set name makes the driver forget a member.
THEOREM MembersReached ==
  ASSUME NamesConsistent
  PROVE  Spec => []MembersUsable
<1>1. Init => Reached
  BY DEF Init, Reached, NamedReached
<1>2. Discovery /\ Reached /\ [Next]_vars => Discovery' /\ Reached'
  BY NextDiscovery, NextReached
<1>3. Discovery /\ Reached => MembersUsable
  BY DEF Reached, NamedReached, Pending, MembersUsable
<1> QED
  BY <1>1, <1>2, <1>3, InitDiscovery, PTL DEF Spec
-----------------------------------------------------------------------------
(* The length of the list *)

\* The places of servers->server are enough for the seeds and the named hosts,
\* and the hosts are finitely many.
LimitSuffices ==
  /\ IsFiniteSet(Hosts)
  /\ \A seeds \in SeedLists : Len(seeds) + Cardinality(Hosts) <= MaxServers

\* What was appended to the list L after its first n entries: named hosts of the
\* client's set, each once.
AppendedOnce(L, n) ==
  /\ n <= Len(L)
  /\ \A k \in 1..Len(L) :
       k > n => L[k].rs = optName /\ optName # Null /\ NamesHost(L[k].host)
  /\ \A j, k \in 1..Len(L) : j > n /\ k > n /\ L[j].host = L[k].host => j = k

Bounded ==
  /\ AppendedOnce(servers, nSeeds)
  /\ nSeeds + Cardinality(Hosts) <= MaxServers
  /\ phase # "overflow"

\* Such a list is no longer than its first n entries and the hosts together.
LEMMA OnceBounded ==
  ASSUME IsFiniteSet(Hosts), NEW L \in Seq(ServerDefs), NEW n \in Nat, AppendedOnce(L, n)
  PROVE  Len(L) <= n + Cardinality(Hosts)
<1> DEFINE S == (n + 1)..Len(L)
           f == [k \in S |-> L[k].host]
<1>1. Len(L) \in Nat /\ n <= Len(L) /\ Cardinality(Hosts) \in Nat
  BY FS_CardinalityType DEF AppendedOnce
<1>2. \A k \in S : k \in 1..Len(L) /\ k > n
  BY <1>1
<1>3. \A k \in S : L[k].host \in Hosts
  <2>1. \A k \in S : L[k] \in ServerDefs
    BY <1>2
  <2> QED
    BY <2>1 DEF ServerDefs
<1>4. \A j, k \in S : L[j].host = L[k].host => j = k
  BY <1>2 DEF AppendedOnce
<1>5. Cardinality(S) = Len(L) - n
  <2> DEFINE a == n + 1
             b == Len(L)
  <2>1. a \in Int /\ b \in Int /\ b - a + 1 = b - n /\ (a > b => b - n = 0)
    BY <1>1
  <2> HIDE DEF a, b
  <2>2. Cardinality(a..b) = IF a > b THEN 0 ELSE b - a + 1
    BY <2>1, FS_Interval
  <2>3. Cardinality(a..b) = b - n
    BY <2>1, <2>2
  <2> QED
    BY <2>3 DEF a, b
<1> HIDE DEF S
<1>6. f \in Injection(S, Hosts)
  BY <1>3, <1>4 DEF Injection, IsInjective
<1> HIDE DEF f
<1>7. Cardinality(S) <= Cardinality(Hosts)
  BY <1>6, FS_Injection
<1> QED
  BY <1>1, <1>5, <1>7

\* A host that was appended is never renamed: replies change seeds only.
LEMMA BoundedReply ==
  ASSUME NamesConsistent, Discovery, Bounded,
         NEW h \in Hosts, NEW r \in Views[h], servers[i].host = h,
         CheckWrongSet(r) \/ CheckMember(r)
  PROVE  Bounded'
<1> DEFINE d == servers[i]
<1> USE DEF Discovery
<1>1. Due /\ nSeeds' = nSeeds /\ nSeeds \in Nat
  BY DEF CheckWrongSet, CheckMember, TypeInv
<1>2. i \in 1..Len(servers) /\ d \in ServerDefs /\ phase = "check"
  BY <1>1, CheckReply
<1>3. PICK e \in ServerDefs :
        /\ servers' = [servers EXCEPT ![i] = e]
        /\ e.host = (IF r.me = Null THEN d.host ELSE r.me)
        /\ e.rs = d.rs \/ d.rs = Null
  <2>1. CASE CheckWrongSet(r)
    <3>1. /\ Rename(d, r) \in ServerDefs /\ Rename(d, r).rs = d.rs
          /\ Rename(d, r).host = IF r.me = Null THEN d.host ELSE r.me
      BY <1>2, RenameType
    <3>2. servers' = [servers EXCEPT ![i] = Rename(d, r)]
      BY <2>1 DEF CheckWrongSet
    <3> QED
      BY <3>1, <3>2
  <2>2. CASE CheckMember(r)
    <3>1. /\ Learnt(d, r) \in ServerDefs
          /\ Learnt(d, r).rs = (IF d.rs = Null THEN r.set ELSE d.rs)
          /\ Learnt(d, r).host = (IF r.me = Null THEN d.host ELSE r.me)
      BY <1>2, LearntType
    <3>2. servers' = [servers EXCEPT ![i] = Learnt(d, r)]
      BY <2>2 DEF CheckMember, Learnt
    <3> QED
      BY <3>1, <3>2
  <2> QED
    BY <2>1, <2>2
<1>4. /\ Len(servers') = Len(servers) /\ servers'[i] = e
      /\ \A j \in 1..Len(servers) : j # i => servers'[j] = servers[j]
  BY <1>2, <1>3, ServerUpdate
<1>5. \A k \in 1..Len(servers) : k > nSeeds => servers'[k] = servers[k]
  <2> SUFFICES ASSUME i > nSeeds PROVE e = d
    BY <1>4
  <2>1. NamesHost(d.host) /\ d.rs # Null
    BY <1>2 DEF Bounded, AppendedOnce
  <2>2. e.host = d.host /\ e.rs = d.rs
    BY <1>3, <2>1 DEF NamesConsistent
  <2> QED
    BY <1>2, <1>3, <2>2 DEF ServerDefs
<1>6. optName # Null => optName' = optName
  BY DEF CheckWrongSet, CheckMember, NextServer
<1>7. phase' # "overflow"
  BY <1>2 DEF CheckWrongSet, CheckMember, NextServer
<1>8. AppendedOnce(servers, nSeeds)'
  BY <1>1, <1>4, <1>5, <1>6 DEF Bounded, AppendedOnce
<1> QED
  BY <1>1, <1>7, <1>8 DEF Bounded

\* A found host is appended only when it is new, and then there is a place.
LEMMA BoundedFound ==
  ASSUME IsFiniteSet(Hosts), Discovery, Reached, Bounded, FoundHost
  PROVE  Bounded'
<1> DEFINE d == [host |-> Head(found), rs |-> optName]
           L == Append(servers, d)
<1>1. phase = "found" /\ found # <<>>
  BY DEF FoundHost
<1>2. FoundDef(Head(found)) = d /\ d \in ServerDefs
  BY <1>1, FoundType
<1>3. AppendServer(d) /\ UNCHANGED <<optName, nSeeds>>
  BY <1>2 DEF FoundHost
<1>4. TypeInv /\ nSeeds \in Nat
  BY DEF Discovery, TypeInv
<1>5. NamesHost(Head(found)) /\ optName # Null
  <2>1. Len(found) \in Nat \ {0} /\ Head(found) = found[1]
    BY <1>1 DEF Discovery, TypeInv
  <2> QED
    BY <1>1, <2>1 DEF Reached, Discovery, MemberAt
<1>6. d.host = Head(found) /\ d.rs = optName
  OBVIOUS
<1> HIDE DEF d
<1>7. /\ L \in Seq(ServerDefs) /\ Len(L) = Len(servers) + 1 /\ Len(servers) \in Nat
      /\ L[Len(servers) + 1] = d
      /\ \A j \in 1..Len(servers) : L[j] = servers[j]
  <2>1. Appended(L, d)
    BY <1>2, <1>4, ServerAppend
  <2> HIDE DEF L
  <2> QED
    BY <2>1 DEF Appended
<1>8. ASSUME ~Contains(d) PROVE AppendedOnce(L, nSeeds)
  <2>1. \A k \in 1..Len(L) : k \in 1..Len(servers) \/ k = Len(servers) + 1
    BY <1>7
  <2>2. \A k \in 1..Len(servers) : k > nSeeds => servers[k].host # d.host
    <3> SUFFICES ASSUME NEW k \in 1..Len(servers), k > nSeeds, servers[k].host = d.host
                 PROVE  FALSE
      OBVIOUS
    <3>1. servers[k].rs = d.rs
      BY <1>6 DEF Bounded, AppendedOnce
    <3>2. servers[k] \in ServerDefs
      BY <1>4, ServerType
    <3>3. servers[k] = d
      BY <1>2, <3>1, <3>2 DEF ServerDefs
    <3> QED
      BY <1>8, <3>3 DEF Contains
  <2>3. nSeeds <= Len(L)
    BY <1>4, <1>7 DEF Bounded, AppendedOnce
  <2> HIDE DEF L
  <2>4. \A k \in 1..Len(L) :
          k > nSeeds => L[k].rs = optName /\ optName # Null /\ NamesHost(L[k].host)
    BY <1>5, <1>6, <1>7, <2>1 DEF Bounded, AppendedOnce
  <2>5. ASSUME NEW j \in 1..Len(L), NEW k \in 1..Len(L),
               j > nSeeds, k > nSeeds, L[j].host = L[k].host
        PROVE  j = k
    <3>1. CASE j \in 1..Len(servers) /\ k \in 1..Len(servers)
      BY <1>7, <2>5, <3>1 DEF Bounded, AppendedOnce
    <3>2. CASE j \in 1..Len(servers) /\ k = Len(servers) + 1
      BY <1>7, <2>2, <2>5, <3>2
    <3>3. CASE j = Len(servers) + 1 /\ k \in 1..Len(servers)
      BY <1>7, <2>2, <2>5, <3>3
    <3> QED
      BY <2>1, <3>1, <3>2, <3>3
  <2> QED
    BY <2>3, <2>4, <2>5 DEF AppendedOnce
<1>9. ASSUME ~Contains(d) PROVE Len(servers) < MaxServers
  <2>1. Len(L) <= nSeeds + Cardinality(Hosts)
    BY <1>4, <1>7, <1>8, <1>9, OnceBounded
  <2>2. Cardinality(Hosts) \in Nat /\ MaxServers \in Nat
    BY FS_CardinalityType, TopologyAssumption
  <2> QED
    BY <1>4, <1>7, <2>1, <2>2 DEF Bounded
<1>10. CASE UNCHANGED <<servers, phase>>
  BY <1>3, <1>10 DEF Bounded, AppendedOnce
<1>11. CASE ~Contains(d) /\ servers' = L /\ UNCHANGED phase
  <2>1. AppendedOnce(L, nSeeds)
    BY <1>8, <1>11
  <2> HIDE DEF L
  <2>2. AppendedOnce(servers, nSeeds)'
    BY <1>3, <1>11, <2>1 DEF AppendedOnce
  <2> QED
    BY <1>3, <1>11, <2>2 DEF Bounded
<1> QED
  BY <1>2, <1>3, <1>4, <1>9, <1>10, <1>11, AppendOutcome

\* Every step keeps the list within its bound.
LEMMA NextBounded ==
  ASSUME NamesConsistent, IsFiniteSet(Hosts), Discovery, Reached, Bounded, [Next]_vars
  PROVE  Bounded'
<1>1. ASSUME UNCHANGED <<servers, nSeeds, optName>>, phase' # "overflow" PROVE Bounded'
  BY <1>1 DEF Bounded, AppendedOnce
<1>2. CASE SeedConnect \/ SeedsDone
  BY <1>1, <1>2 DEF SeedConnect, SeedsDone, history
<1>3. CASE CheckSkipped \/ CheckFails \/ \E r : CheckUnsupported(r)
  BY <1>1, <1>3 DEF CheckSkipped, CheckFails, CheckUnsupported, NextServer, Due
<1>4. CASE FoundDone \/ DiscoverDone
  BY <1>1, <1>4 DEF FoundDone, DiscoverDone, history
<1>5. CASE CallAgain
  BY <1>1, <1>5 DEF CallAgain
<1>6. CASE UNCHANGED vars
  BY <1>1, <1>6 DEF vars, Bounded
<1> QED
  BY <1>2, <1>3, <1>4, <1>5, <1>6, BoundedReply, BoundedFound DEF Next, Step, Check

\* The list of servers never outgrows its fixed array, which is written without
\* a look at its size: each host is appended at most once, although seeds are
\* renamed and learn their set's name while the list grows.
THEOREM ListFits ==
  ASSUME NamesConsistent, LimitSuffices
  PROVE  Spec => []ServersBounded
<1>0. IsFiniteSet(Hosts)
  BY DEF LimitSuffices
<1>1. Init => Reached
  BY DEF Init, Reached, NamedReached
<1>2. ASSUME Init PROVE Bounded
  <2>1. PICK seeds \in SeedLists : /\ servers \in [1..Len(seeds) -> {servers[k] : k \in 1..Len(seeds)}]
                                   /\ nSeeds = Len(seeds) /\ phase = "seed"
    BY <1>2 DEF Init
  <2>2. Len(seeds) \in Nat
    BY TopologyAssumption
  <2>3. Len(servers) = nSeeds /\ nSeeds \in Nat
    BY <2>1, <2>2
  <2>4. AppendedOnce(servers, nSeeds)
    BY <2>3 DEF AppendedOnce
  <2> QED
    BY <2>1, <2>4 DEF Bounded, LimitSuffices
<1>3. Discovery /\ Reached /\ Bounded /\ [Next]_vars => Discovery' /\ Reached' /\ Bounded'
  BY <1>0, NextDiscovery, NextReached, NextBounded
<1>4. Discovery /\ Bounded => ServersBounded
  BY <1>0, OnceBounded DEF Bounded, Discovery, TypeInv, ServersBounded
<1> QED
  BY <1>1, <1>2, <1>3, <1>4, InitDiscovery, PTL DEF Spec
=============================================================================
