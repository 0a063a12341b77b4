---------------------------- MODULE ConnManager ----------------------------
(***************************************************************************)
(* The connection manager of mcon: how a connection for one server         *)
(* definition is looked up, pinged, created, authenticated, registered,    *)
(* checked with ismaster and thrown away (manager.c, connections.c), next  *)
(* to everything that moves while it does so: servers that fail, come back *)
(* and change role, the clock, cursors that hang a cleanup callback on a   *)
(* connection, fork() and the shutdown of the manager.                     *)
(*                                                                         *)
(* A step of a thread is the code between two network operations.  The     *)
(* upper layers appear as the three ways in which they treat a connection  *)
(* they were given (kind):                                                 *)
(*   "SEED"   a seed of a replica set, checked by mongo_discover_topology  *)
(*   "FOUND"  a host that a member of the set named                        *)
(*   "MULTI"  a server of mongo_get_connection_multiple                    *)
(*                                                                         *)
(* Time is kept as ages: "last + interval > now" is "age < interval", so   *)
(* an age is counted up to its interval and no further.                    *)
(***************************************************************************)
EXTENDS Registry

CONSTANTS
  Hosts,             \* HOST:PORT of the servers
  Defs,              \* the mongo_server_def values the application uses
  Accounts,          \* the identities the servers accept
  Replies,           \* what a running server may tell in its ismaster reply
  Threads,           \* request threads that share the manager
  Addrs,             \* heap addresses for mongo_connection structs
  Cursors,           \* users of cleanup callbacks
  MaxPid,            \* process ids are 1..MaxPid, one more for each fork
  PingInterval,      \* manager->ping_interval, in ticks
  IsMasterInterval,  \* manager->ismaster_interval, in ticks
  Kinds,             \* the kinds of caller that are active
  Null               \* the NULL pointer

Mechanisms == {"MONGODB-CR", "MONGODB-X509", "GSSAPI", "PLAIN", "SCRAM-SHA-1"}
NodeTypes == {"STANDALONE", "PRIMARY", "SECONDARY", "ARBITER", "MONGOS"}

\* What ismaster learns from a server: its node type ("INVALID" when no flag
\* identifies it), whether its wire versions overlap ours, and whether the
\* name and the replica set it reports are the expected ones.
ReplyShape == [role : NodeTypes \cup {"INVALID"}, wire : BOOLEAN,
               ident : {"match", "renamed", "wrongset"}]

ASSUME ConstantsAssumption ==
  /\ Replies \subseteq ReplyShape
  /\ Kinds \subseteq {"SEED", "FOUND", "MULTI"}
  /\ MaxPid \in Nat \ {0}
  /\ PingInterval \in Nat \ {0}
  /\ IsMasterInterval \in Nat \ {0}
  /\ Null \notin Addrs
  /\ \A d \in Defs : d.host \in Hosts /\ d.mech \in Mechanisms

VARIABLES
  connections,  \* manager->connections: items [hash, data |-> address]
  blacklist,    \* manager->blacklist: items [hash, data |-> age]
  heap,         \* the mongo_connection structs, by address
  pid,          \* getpid()
  pc,           \* where each thread is
  arg,          \* the server definition of the thread's call
  kind,         \* who called
  cur,          \* the thread's local "con"
  cursor,       \* the connection each cursor points to
  server,       \* what each server is: up, and its reply
  phase         \* "running", "shutdown" (mongo_deinit) or "crashed"

mgrVars  == <<connections, blacklist, heap, cursor>>
callVars == <<pc, arg, kind, cur>>
vars == <<connections, blacklist, heap, pid, pc, arg, kind, cur, cursor,
          server, phase>>
-----------------------------------------------------------------------------
(* Hashes and identities *)

Pids == 1..MaxPid

HasCredentials(d) == d.db # Null /\ d.user # Null /\ d.pass # Null

\* Mutants of HashIn: the credentials are left out; the process id is that of
\* the first process.
HashInNoCred(d, p) == [host |-> d.host, rs |-> d.rs, pid |-> p, cred |-> Null]
HashInFirstPid(d, p) ==
  [host |-> d.host, rs |-> d.rs, pid |-> 1,
   cred |-> IF HasCredentials(d) THEN <<d.db, d.user, d.pass>> ELSE Null]

\* mongo_server_create_hash in process p: host, set name, the credentials when
\* database, user and password are all given, and the process id.
HashIn(d, p) == [host |-> d.host, rs |-> d.rs, pid |-> p,
                 cred |-> IF HasCredentials(d)
                          THEN <<d.db, d.user, d.pass>> ELSE Null]
Hash(d) == HashIn(d, pid)
Hashes  == {HashIn(d, p) : d \in Defs, p \in Pids}

Anonymous == [mech |-> "none", source |-> Null, user |-> Null, pass |-> Null]

\* Whom mongo_connection_authenticate presents to the server.
Identity(d) ==
  IF d.mech = "MONGODB-CR" /\ ~HasCredentials(d)
  THEN Anonymous
  ELSE [mech   |-> d.mech,
        source |-> IF d.authdb # Null THEN d.authdb ELSE d.db,
        user   |-> d.user,
        pass   |-> IF d.mech = "MONGODB-CR" THEN d.pass ELSE Null]
Identities == {Identity(d) : d \in Defs} \cup {Anonymous}
-----------------------------------------------------------------------------
(* The heap *)

\* An address without a struct: never allocated, or freed.
Unallocated == [mem |-> FALSE]

\* mongo_connection_create: what malloc, memset and the defaults leave.  A
\* zero timestamp is long past every interval.
NewConnection(h) ==
  [mem |-> TRUE, hash |-> h, type |-> "STANDALONE", wire |-> TRUE,
   auth |-> Anonymous, sock |-> TRUE, ping |-> PingInterval,
   master |-> IsMasterInterval, repl |-> IsMasterInterval, cbs |-> <<>>]

ConnectionShape ==
  [mem : {TRUE}, hash : Hashes, type : NodeTypes, wire : BOOLEAN,
   auth : Identities, sock : BOOLEAN, ping : 0..PingInterval,
   master : 0..IsMasterInterval, repl : 0..IsMasterInterval,
   cbs : Seq(Cursors)]

Allocated(a) == heap[a].mem

\* malloc: an address that nothing points to any more.
Fresh(a) ==
  /\ ~Allocated(a)
  /\ \A i \in 1..Len(connections) : connections[i].data # a
  /\ \A t \in Threads : cur[t] # a
  /\ \A c \in Cursors : cursor[c] # a

\* The cursors that have a callback on connection a.
CallbacksOf(a) == {heap[a].cbs[i] : i \in 1..Len(heap[a].cbs)}

\* Mutant of Destroy: no callback is run.
DestroySilently(a) ==
  IF heap[a].hash.pid = pid
  THEN heap' = [heap EXCEPT ![a] = Unallocated] /\ UNCHANGED cursor
  ELSE UNCHANGED <<heap, cursor>>

\* mongo_connection_destroy: only the process that made the connection closes
\* it; then every cleanup callback runs and the struct is freed.
Destroy(a) ==
  IF heap[a].hash.pid = pid
  THEN /\ heap' = [heap EXCEPT ![a] = Unallocated]
       /\ cursor' = [c \in Cursors |-> IF c \in CallbacksOf(a) THEN Null ELSE cursor[c]]
  ELSE UNCHANGED <<heap, cursor>>

\* Mutants of DeregisterConnection: destroyed but still listed; forgotten.
DeregisterOnlyDestroys(a) == Destroy(a) /\ UNCHANGED connections
DeregisterForgotten(a) == UNCHANGED <<connections, heap, cursor>>

\* mongo_manager_connection_deregister
DeregisterConnection(a) ==
  IF HasHash(connections, heap[a].hash)
  THEN /\ connections' = Deregister(connections, heap[a].hash)
       /\ Destroy(a)
  ELSE UNCHANGED <<connections, heap, cursor>>
-----------------------------------------------------------------------------
(* Talking to a server *)

\* Mutants of PingDue: the interval is not waited for; it is never over (ages are
\* counted up to it).
PingAlwaysDue(age) == TRUE
PingDueLate(age) == age > PingInterval

\* mongo_connection_ping_check: the interval since the last ping has passed.
PingDue(age) == age >= PingInterval

\* Mutant of Unblacklist: the expired entry stays.
UnblacklistForgotten(h) == blacklist

\* mongo_manager_blacklist_deregister
Unblacklist(h) == Deregister(blacklist, h)

ServerOf(a) == server[heap[a].hash.host]

\* mongo_connect_send_packet gets an answer.
Answers(a) == ServerOf(a).up /\ heap[a].sock

\* Mutants of IsMasterResult: an unidentified node passes; the wire version is
\* not looked at.
IsMasterAnyRole(a, seed) ==
  IF ~Answers(a) THEN 0 ELSE IF ~ServerOf(a).reply.wire THEN 4 ELSE 1
IsMasterAnyWire(a, seed) ==
  IF ~Answers(a) \/ ServerOf(a).reply.role = "INVALID" THEN 0 ELSE 1

\* mongo_connection_ismaster: its return value.  seed says that the caller
\* passes a server definition to compare with.
IsMasterResult(a, seed) ==
  LET r == ServerOf(a).reply
      age == IF seed THEN heap[a].repl ELSE heap[a].master
  IN IF age < IsMasterInterval THEN 2
     ELSE IF ~Answers(a) THEN 0
     ELSE IF ~r.wire THEN 4
     ELSE IF r.role = "INVALID" \/ (seed /\ r.ident = "wrongset") THEN 0
     ELSE IF seed /\ r.ident = "renamed" THEN 3
     ELSE 1

\* What it leaves in the struct: the wire version even when it is refused, the
\* rest on success.  After the results 0 and 3 every caller frees the struct.
AfterIsMaster(a, seed) ==
  LET r == ServerOf(a).reply
  IN CASE IsMasterResult(a, seed) = 4 -> [heap EXCEPT ![a].wire = r.wire]
       [] IsMasterResult(a, seed) = 1 ->
            [heap EXCEPT ![a] =
               [heap[a] EXCEPT !.wire = r.wire, !.type = r.role, !.master = 0,
                               !.repl = IF seed THEN 0 ELSE heap[a].repl]]
       [] OTHER -> heap

\* php_mongo_io_stream_authenticate, without SASL: what the server makes of it.
Authenticates(d) ==
  /\ d.mech \in {"MONGODB-CR", "MONGODB-X509"}
  /\ Identity(d) = Anonymous \/ Identity(d) \in Accounts
-----------------------------------------------------------------------------
(* mongo_get_connection_single and its callers *)

Returned == {"null", "ready"}

\* The call returns NULL; its locals are gone.
ReturnNull(t) ==
  /\ pc' = [pc EXCEPT ![t] = "null"]
  /\ arg' = [arg EXCEPT ![t] = Null]
  /\ kind' = [kind EXCEPT ![t] = Null]
  /\ cur' = [cur EXCEPT ![t] = Null]

Fail(t) == ReturnNull(t) /\ UNCHANGED <<pid, server, phase>>

\* The call goes on with connection a at step l.
Go(t, a, l) ==
  /\ pc' = [pc EXCEPT ![t] = l]
  /\ cur' = [cur EXCEPT ![t] = a]
  /\ UNCHANGED <<arg, kind, pid, server, phase>>

\* A new call starts at step l with connection a in hand.
Begin(t, d, k, a, l) ==
  /\ pc' = [pc EXCEPT ![t] = l]
  /\ arg' = [arg EXCEPT ![t] = d]
  /\ kind' = [kind EXCEPT ![t] = k]
  /\ cur' = [cur EXCEPT ![t] = a]

At(t, l) == phase = "running" /\ pc[t] = l

\* The server is blacklisted and it is too early to try it again.
SingleBlacklisted(t, d) ==
  /\ phase = "running" /\ pc[t] \in Returned
  /\ HasHash(blacklist, Hash(d))
  /\ ~PingDue(FindByHash(blacklist, Hash(d)))
  /\ Fail(t)
  /\ UNCHANGED mgrVars

\* Otherwise an expired entry is dropped and the connection looked up.  With
\* MONGO_CON_FLAG_DONT_CONNECT a known connection is returned unpinged and an
\* unknown one is not made.  A found host is only asked for when it has no
\* connection yet, and always to connect.
SingleLookup(t, d, k, dontConnect) ==
  LET h == Hash(d)
  IN /\ phase = "running" /\ pc[t] \in Returned
     /\ k = "FOUND" => ~dontConnect /\ ~HasHash(connections, h)
     /\ HasHash(blacklist, h) => PingDue(FindByHash(blacklist, h))
     /\ blacklist' = Unblacklist(h)
     /\ UNCHANGED <<connections, heap, cursor, pid, server, phase>>
     /\ \/ /\ HasHash(connections, h)
           /\ Begin(t, d, k, FindByHash(connections, h),
                    IF dontConnect THEN "check" ELSE "ping")
        \/ /\ ~HasHash(connections, h) /\ ~dontConnect
           /\ Begin(t, d, k, Null, "connect")
        \/ /\ ~HasHash(connections, h) /\ dontConnect
           /\ ReturnNull(t)

\* mongo_connection_ping of a known connection, when it is due; a connection
\* that does not answer is deregistered.
SinglePing(t) ==
  LET a == cur[t]
  IN /\ At(t, "ping") /\ Allocated(a)
     /\ UNCHANGED blacklist
     /\ \/ /\ ~PingDue(heap[a].ping)
           /\ Go(t, a, "check")
           /\ UNCHANGED <<connections, heap, cursor>>
        \/ /\ PingDue(heap[a].ping) /\ Answers(a)
           /\ heap' = [heap EXCEPT ![a].ping = 0]
           /\ Go(t, a, "check")
           /\ UNCHANGED <<connections, cursor>>
        \/ /\ PingDue(heap[a].ping) /\ ~Answers(a)
           /\ DeregisterConnection(a)
           /\ Fail(t)

\* mongo_connection_create: a refused connection puts the server on the
\* blacklist.
SingleConnect(t) ==
  LET h == Hash(arg[t])
  IN /\ At(t, "connect")
     /\ UNCHANGED <<connections, cursor>>
     /\ \/ /\ ~server[h.host].up
           /\ blacklist' = Register(blacklist, h, 0)
           /\ Fail(t)
           /\ UNCHANGED heap
        \/ /\ server[h.host].up
           /\ \E a \in Addrs : /\ Fresh(a)
                               /\ heap' = [heap EXCEPT ![a] = NewConnection(h)]
                               /\ Go(t, a, "ismaster")
           /\ UNCHANGED blacklist

\* The first ismaster.  The test is "!result", so an unsupported wire version
\* (4) is no reason to stop here.
SingleIsMaster(t) ==
  LET a == cur[t]
  IN /\ At(t, "ismaster") /\ Allocated(a)
     /\ UNCHANGED <<connections, blacklist>>
     /\ IF IsMasterResult(a, FALSE) = 0
        THEN Destroy(a) /\ Fail(t)
        ELSE /\ heap' = AfterIsMaster(a, FALSE)
             /\ Go(t, a, "buildinfo")
             /\ UNCHANGED cursor

\* mongo_connection_get_server_version
SingleServerVersion(t) ==
  LET a == cur[t]
  IN /\ At(t, "buildinfo") /\ Allocated(a)
     /\ UNCHANGED <<connections, blacklist>>
     /\ IF Answers(a)
        THEN Go(t, a, "auth") /\ UNCHANGED <<heap, cursor>>
        ELSE Destroy(a) /\ Fail(t)

\* Arbiters hold no accounts and are not asked; elsewhere a failed
\* authentication ends the attempt.  Without credentials nothing is sent.
SingleAuthenticate(t) ==
  LET a == cur[t]
      d == arg[t]
  IN /\ At(t, "auth") /\ Allocated(a)
     /\ UNCHANGED <<connections, blacklist>>
     /\ \/ /\ heap[a].type = "ARBITER"
           /\ Go(t, a, "firstping")
           /\ UNCHANGED <<heap, cursor>>
        \/ /\ heap[a].type # "ARBITER"
           /\ Authenticates(d) /\ (Identity(d) = Anonymous \/ Answers(a))
           /\ heap' = [heap EXCEPT ![a].auth = Identity(d)]
           /\ Go(t, a, "firstping")
           /\ UNCHANGED cursor
        \/ /\ heap[a].type # "ARBITER"
           /\ ~(Authenticates(d) /\ (Identity(d) = Anonymous \/ Answers(a)))
           /\ Destroy(a) /\ Fail(t)

\* The first ping; only a connection that answers it is registered.
SingleFirstPing(t) ==
  LET a == cur[t]
  IN /\ At(t, "firstping") /\ Allocated(a)
     /\ UNCHANGED blacklist
     /\ IF Answers(a)
        THEN /\ heap' = [heap EXCEPT ![a].ping = 0]
             /\ connections' = Register(connections, heap[a].hash, a)
             /\ Go(t, a, "check")
             /\ UNCHANGED cursor
        ELSE Destroy(a) /\ Fail(t) /\ UNCHANGED connections

\* The caller's own ismaster and what it does with a connection that fails
\* it.  mongo_get_connection_multiple destroys such a connection without
\* deregistering it, unless the wire version was the reason.
CallerIsMaster(t) ==
  LET a == cur[t]
      r == IsMasterResult(a, kind[t] = "SEED")
  IN /\ At(t, "check") /\ Allocated(a)
     /\ UNCHANGED blacklist
     /\ \/ /\ r \in {1, 2}
           /\ heap' = AfterIsMaster(a, kind[t] = "SEED")
           /\ Go(t, a, "ready")
           /\ UNCHANGED <<connections, cursor>>
        \/ /\ r = 4 \/ (r \in {0, 3} /\ kind[t] # "MULTI")
           /\ DeregisterConnection(a)
           /\ Fail(t)
        \/ /\ r \in {0, 3} /\ kind[t] = "MULTI"
           /\ Destroy(a)
           /\ Fail(t)
           /\ UNCHANGED connections

\* A freed struct is read, in the call or by its caller afterwards: the process
\* may do anything; it stops here.
UseFreed(t) ==
  /\ phase = "running" /\ pc[t] \in {"ping", "check", "ready"} /\ ~Allocated(cur[t])
  /\ phase' = "crashed"
  /\ UNCHANGED <<mgrVars, callVars, pid, server>>
-----------------------------------------------------------------------------
(* Cursors, fork and shutdown *)

\* mongo_get_read_write_connection_with_callback: the cursor hangs itself on
\* the connection it was given.
AddCallback(t, c) ==
  LET a == cur[t]
  IN /\ At(t, "ready") /\ Allocated(a) /\ cursor[c] = Null
     /\ heap' = [heap EXCEPT ![a].cbs = Append(@, c)]
     /\ cursor' = [cursor EXCEPT ![c] = a]
     /\ UNCHANGED <<connections, blacklist, callVars, pid, server, phase>>

\* mongo_deregister_callback_from_connection on a cleanup list: the first
\* callback of the cursor is unlinked.
Unlink(cbs, c) == UnlinkFirst(cbs, {i \in 1..Len(cbs) : cbs[i] = c})

\* mongo_deregister_callback_from_connection, when the cursor goes away.  That
\* its connection is still allocated then is part of CallbacksMatch.
RemoveCallback(c) ==
  LET a == cursor[c]
  IN /\ phase = "running" /\ a # Null /\ Allocated(a)
     /\ heap' = [heap EXCEPT ![a].cbs = Unlink(@, c)]
     /\ cursor' = [cursor EXCEPT ![c] = Null]
     /\ UNCHANGED <<connections, blacklist, callVars, pid, server, phase>>

\* What the application held from earlier calls is no longer used.
NoCalls ==
  /\ pc' = [t \in Threads |-> "null"]
  /\ arg' = [t \in Threads |-> Null]
  /\ kind' = [t \in Threads |-> Null]
  /\ cur' = [t \in Threads |-> Null]

\* fork(), seen from the child: the memory is the same, the process id new.
Fork ==
  /\ phase = "running" /\ pid < MaxPid
  /\ \A t \in Threads : pc[t] \in Returned
  /\ pid' = pid + 1
  /\ NoCalls
  /\ UNCHANGED <<mgrVars, server, phase>>

\* mongo_deinit: every item of both lists is destroyed; connections of another
\* process are only forgotten.
Deinit ==
  LET mine == {a \in Addrs : \E i \in 1..Len(connections) :
                  connections[i].data = a /\ Allocated(a) /\ heap[a].hash.pid = pid}
  IN /\ phase = "running"
     /\ \A t \in Threads : pc[t] \in Returned
     /\ phase' = IF \E i \in 1..Len(connections) : ~Allocated(connections[i].data)
                 THEN "crashed" ELSE "shutdown"
     /\ heap' = [a \in Addrs |-> IF a \in mine THEN Unallocated ELSE heap[a]]
     /\ cursor' = [c \in Cursors |->
                     IF \E a \in mine : c \in CallbacksOf(a)
                     THEN Null ELSE cursor[c]]
     /\ connections' = <<>>
     /\ blacklist' = <<>>
     /\ NoCalls
     /\ UNCHANGED <<pid, server>>
-----------------------------------------------------------------------------
(* The surroundings: time and the servers *)

Older(age, interval) == IF age < interval THEN age + 1 ELSE age

\* A second passes.
Tick ==
  /\ phase = "running"
  /\ heap' = [a \in Addrs |->
        IF Allocated(a)
        THEN [heap[a] EXCEPT !.ping = Older(@, PingInterval),
                             !.master = Older(@, IsMasterInterval),
                             !.repl = Older(@, IsMasterInterval)]
        ELSE heap[a]]
  /\ blacklist' = [i \in 1..Len(blacklist) |->
        [hash |-> blacklist[i].hash, data |-> Older(blacklist[i].data, PingInterval)]]
  /\ UNCHANGED <<connections, cursor, callVars, pid, server, phase>>

\* A server becomes unreachable; when it was a crash, established connections
\* to it are broken for good.
ServerDown(s, crash) ==
  /\ phase = "running" /\ server[s].up
  /\ server' = [server EXCEPT ![s].up = FALSE]
  /\ heap' = [a \in Addrs |-> IF crash /\ Allocated(a) /\ heap[a].hash.host = s
                              THEN [heap[a] EXCEPT !.sock = FALSE] ELSE heap[a]]
  /\ UNCHANGED <<connections, blacklist, cursor, callVars, pid, phase>>

\* Whether a connection survived the outage decides what the server may have
\* become: only a restarted process changes its wire version or arbiter role.
SameProcess(s, r) ==
  /\ r.wire = server[s].reply.wire
  /\ (r.role = "ARBITER") = (server[s].reply.role = "ARBITER")

Restarted(s) ==
  \A a \in Addrs : Allocated(a) /\ heap[a].hash.host = s => ~heap[a].sock

ServerUp(s, r) ==
  /\ phase = "running" /\ ~server[s].up
  /\ SameProcess(s, r) \/ Restarted(s)
  /\ server' = [server EXCEPT ![s] = [up |-> TRUE, reply |-> r]]
  /\ UNCHANGED <<mgrVars, callVars, pid, phase>>

\* An election or a reconfiguration while the server runs.
ServerChange(s, r) ==
  /\ phase = "running" /\ server[s].up
  /\ r # server[s].reply /\ SameProcess(s, r)
  /\ server' = [server EXCEPT ![s].reply = r]
  /\ UNCHANGED <<mgrVars, callVars, pid, phase>>
-----------------------------------------------------------------------------
(* The specification *)

Init ==
  /\ connections = <<>> /\ blacklist = <<>>
  /\ heap = [a \in Addrs |-> Unallocated]
  /\ pid = 1
  /\ pc = [t \in Threads |-> "null"]
  /\ arg = [t \in Threads |-> Null]
  /\ kind = [t \in Threads |-> Null]
  /\ cur = [t \in Threads |-> Null]
  /\ cursor = [c \in Cursors |-> Null]
  /\ server \in [Hosts -> [up : BOOLEAN, reply : Replies]]
  /\ phase = "running"

\* A request for definition d by thread t.
Call(t, d) ==
  \/ SingleBlacklisted(t, d)
  \/ \E k \in Kinds, dontConnect \in BOOLEAN : SingleLookup(t, d, k, dontConnect)

\* The rest of the call.
Step(t) ==
  \/ SinglePing(t) \/ SingleConnect(t) \/ SingleIsMaster(t)
  \/ SingleServerVersion(t) \/ SingleAuthenticate(t) \/ SingleFirstPing(t)
  \/ CallerIsMaster(t) \/ UseFreed(t)

Surroundings ==
  \/ Tick
  \/ \E s \in Hosts, crash \in BOOLEAN : ServerDown(s, crash)
  \/ \E s \in Hosts, r \in Replies : ServerUp(s, r) \/ ServerChange(s, r)

Next ==
  \/ \E t \in Threads : (\E d \in Defs : Call(t, d)) \/ Step(t)
  \/ \E t \in Threads, c \in Cursors : AddCallback(t, c)
  \/ \E c \in Cursors : RemoveCallback(c)
  \/ Fork \/ Deinit
  \/ Surroundings

Spec == Init /\ [][Next]_vars

\* A call that has begun goes on, time passes, and the application keeps asking
\* for every definition with leave to connect.
Request(t, d) ==
  SingleBlacklisted(t, d) \/ \E k \in Kinds : SingleLookup(t, d, k, FALSE)

Fairness ==
  /\ WF_vars(Tick)
  /\ \A t \in Threads : WF_vars(Step(t))
  /\ \A t \in Threads, d \in Defs : SF_vars(Request(t, d))

FairSpec == Spec /\ Fairness
-----------------------------------------------------------------------------
(* Properties *)

ManagerTypes ==
  /\ connections \in Seq([hash : Hashes, data : Addrs])
  /\ blacklist \in Seq([hash : Hashes, data : 0..PingInterval])
  /\ heap \in [Addrs -> ConnectionShape \cup {Unallocated}]
  /\ cursor \in [Cursors -> Addrs \cup {Null}]

Labels == Returned \cup {"ping", "connect", "ismaster", "buildinfo", "auth",
                        "firstping", "check"}

CallTypes ==
  /\ pc \in [Threads -> Labels]
  /\ arg \in [Threads -> Defs \cup {Null}]
  /\ kind \in [Threads -> Kinds \cup {Null}]
  /\ cur \in [Threads -> Addrs \cup {Null}]

WorldTypes ==
  /\ pid \in Pids
  /\ server \in [Hosts -> [up : BOOLEAN, reply : Replies]]
  /\ phase \in {"running", "shutdown", "crashed"}

\* Every variable has the shape its C declaration gives it; in particular a
\* connection never keeps the type MONGO_NODE_INVALID.
TypeOK == ManagerTypes /\ CallTypes /\ WorldTypes

\* types.h: "The hash is a group of parameters to identify a unique connection."
\* No hash is registered twice or blacklisted twice, and none is both.
HashIsUnique ==
  /\ UniqueHashes(connections)
  /\ UniqueHashes(blacklist)
  /\ \A i \in 1..Len(connections) : ~HasHash(blacklist, connections[i].hash)

\* manager->connections holds no pointer to a freed struct, and each struct
\* carries the hash the manager knows it by.
RegisteredAlive ==
  \A i \in 1..Len(connections) :
    LET a == connections[i].data
    IN Allocated(a) /\ heap[a].hash = connections[i].hash

\* A cursor and the cleanup list of its connection agree: the cursor's
\* connection is alive and lists it exactly once, and no list names a cursor
\* that has gone or that moved to another connection.  Otherwise destroying the
\* connection would leave a cursor with a freed one, or call back a freed cursor.
CallbacksMatch ==
  /\ \A c \in Cursors : cursor[c] # Null =>
       /\ Allocated(cursor[c])
       /\ \E i \in 1..Len(heap[cursor[c]].cbs) : heap[cursor[c]].cbs[i] = c
  /\ \A a \in Addrs : Allocated(a) =>
       /\ \A i \in 1..Len(heap[a].cbs) : cursor[heap[a].cbs[i]] = a
       /\ \A i, j \in 1..Len(heap[a].cbs) : heap[a].cbs[i] = heap[a].cbs[j] => i = j

\* A process never frees, closes or picks up a connection another process made.
ForkSafe ==
  \A a \in Addrs : Allocated(a) /\ heap[a].hash.pid # pid =>
    /\ heap'[a].mem
    /\ \A t \in Threads : cur'[t] # a
ForkSafety == [][ForkSafe]_vars

\* Thread t's call returns a connection in this step.
Returns(t) == pc[t] # "ready" /\ pc'[t] = "ready"

\* A returned connection is registered under the hash of the definition asked
\* for, belongs to this process, speaks a wire version we support, and told its
\* role less than an ismaster interval ago.
ReturnedChecked ==
  \A t \in Threads : Returns(t) =>
    LET c == heap'[cur'[t]]
    IN /\ c.mem /\ c.hash = Hash(arg'[t])
       /\ \E i \in 1..Len(connections') : connections'[i].data = cur'[t]
       /\ c.wire
       /\ c.master < IsMasterInterval
ReturnedIsChecked == [][ReturnedChecked]_vars

\* utils.c: "Creates a unique hash for a server def".  A returned connection was
\* authenticated with the identity its definition asks for; only an arbiter
\* may go without.
ReturnedAuthenticated ==
  \A t \in Threads : Returns(t) =>
    \/ heap'[cur'[t]].auth = Identity(arg'[t])
    \/ heap'[cur'[t]].type = "ARBITER"
ReturnedIsAuthenticated == [][ReturnedAuthenticated]_vars

\* A blacklisted server is eventually given another try.
BlacklistExpires ==
  \A d \in Defs : HasHash(blacklist, Hash(d)) ~> ~HasHash(blacklist, Hash(d))

\* The server answers, and as what the client expects.
Sound(s) ==
  /\ phase = "running" /\ server[s].up
  /\ server[s].reply.wire
  /\ server[s].reply.role # "INVALID"
  /\ server[s].reply.ident = "match"

\* A registered connection of definition d gets answers.
Connected(d) ==
  \E i \in 1..Len(connections) :
    /\ connections[i].hash = Hash(d)
    /\ Allocated(connections[i].data) /\ Answers(connections[i].data)

\* Whatever broken connections, blacklist entries and half-made attempts a
\* trouble left behind, once a server is sound for good a definition with a
\* valid identity has a working registered connection for good.
Recovers ==
  \A d \in Defs :
    Authenticates(d) /\ <>[]Sound(d.host) => <>[]Connected(d)
=============================================================================
