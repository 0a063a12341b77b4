# Verification of the mongo-hhvm-driver

The repository is a port of the PHP MongoDB driver to HHVM. What it implements
today is the connection layer: *mcon*, a C library that parses a server
specification, keeps the process's connections, discovers replica sets and picks
a connection for a request; a thin C++ extension on top of it; and a copy of PHP's
stream layer, against which the transport is written. The methods that would use a
connection (queries, cursors, GridFS) throw "not implemented". This project models
these layers in TLA+, checks them with TLC and proves the central facts with TLAPS.

Paths below are relative to the repository's `src/`, `mcon/` being `src/mcon/`.

## Inventory

| Part | State | Operations | Interacts with |
|---|---|---|---|
| Registries (`mcon/manager.c`) | `manager->connections`, `manager->blacklist`: linked lists keyed by hash | find, register, deregister | everything in the manager |
| Connection manager (`mcon/manager.c`) | the two lists, ping and ismaster intervals | `mongo_get_connection_single` and its three kinds of caller, callbacks, `mongo_deinit` | network through callbacks, server hash, cursors |
| Connection (`mcon/connections.c`, `mcon/types.h`) | socket, node type, wire versions, timestamps, tags, cleanup list | create, destroy, ping, ismaster, buildinfo, authenticate | transport, mini BSON |
| Authentication (`mcon/connections.c`, `io_stream.cpp`) | none of its own | nonce + MONGODB-CR, X509, SASL | server |
| Server hash (`mcon/utils.c`) | none | create, split, to server, to pid | registries, read preference |
| Read preference (`mcon/read_preference.c`) | the collection in hand | collect, filter, sort, nearest, pick | registry, request |
| Topology discovery (`mcon/manager.c`) | the growing `mongo_servers` list, the learnt set name | loop over seeds and found hosts | manager, ismaster |
| Parser (`mcon/parse.c`) | `mongo_servers` with options | parse spec, store option, copy | constructor, hash |
| Constructor (`ext_mongo.cpp`) | the global manager, `servers` of an object | `MongoClient::__construct` | parser, manager |
| Transport (`io_stream.cpp`, `mcon/connections.c`) | stream and its timeout, the exchange | connect, send, read loop, close, forget | sockets, persistent streams |
| Mini BSON (`mcon/mini_bson.c`, `bson_helpers.c`, `str.c`) | a growing buffer; a cursor into a reply | packets, find field, next, arrays | server replies |
| Streams (`stream/streams.c`) | read buffer, position, eof flag | read, line, record, write, seek, copy, cast | operations of the kinds of stream |
| Kinds of stream (`memory.c`, `plain_wrapper.c`, `userspace.c`, `xp_socket.c`) | bytes and an offset, or a socket | read, write, seek, truncate, map | streams |
| Filters (`stream/filter.c`) | chains, what each filter holds | append, prepend, flush, remove | fill, write, flush of streams |
| Stream life cycle (`streams.c`, `cast.c`, `transports.c`) | resource list, persistent list, contexts | alloc, free, enclose, cast, request end | all of the above, the driver |

What is hard about it: the manager is one global object that HHVM's request
threads use without a lock; a call consists of up to seven network operations
each of which can fail; servers fail, return, change role and are renamed while
their connections are cached with two timestamps; members of a set disagree about
it; options overwrite each other; replies have no request id, so that a late one can be
taken for the next; streams read ahead of their caller through two layers of buffers
and chains of filters; and `_php_stream_free` is entered from five sides and calls
itself. `PROJECT.json` lists these hazards by line, with the properties that watch over
them, and says of each property what it leaves out.

## Modules

| Module | Models | Notes |
|---|---|---|
| `Registry` | the hash-keyed lists | operators only; duplicates are kept, the first one is found, as in the code |
| `ConnManager` | the manager, connections, cursors, fork, shutdown, servers, clock | one action per piece of code between two network operations |
| `ConnCache`, `ConnManagerCache` | what the manager promises: each hash absent, live or refused; the refinement mapping | abstract specification |
| `ReadPreference` | the selection pipeline and, separately, what it promises | one action per function |
| `Topology` | `mongo_discover_topology` and the replica-set half of ismaster | composed of seeds, checks and found hosts |
| `ServerHash` | the hash string, its buffer and taking it apart | operators, extended by `MongoClient` |
| `MongoClient` | connection string, options, constructor, copies | one action per option, source and stage |
| `StreamLayer` | `streams.c`: buffer, lines, records, writes, seeks, copies | operators over the operations of a kind of stream, instantiated three times |
| `FileOps`, `FileStreams` | memory, temp, plain, appending, pipe and user streams; any sequence of calls on them | `FileStreams` instantiates `StreamLayer` over `FileOps` |
| `StreamFile` | bytes and a place in them | abstract specification that `FileStreams` implements |
| `Filters` | filter chains on a connection | instantiates `StreamLayer` |
| `Transport` | `io_stream.cpp`, `mongo_connect_send_packet` and the socket stream | instantiates `StreamLayer`; the server, the network and hang-ups are actions |
| `StreamLifecycle` | alloc, free, lists, contexts, casts, request and process end | the calls of `_php_stream_free` are frames on a stack |
| `MiniBson` | packets and replies, byte by byte | `str.c` with its allocation |
| `MC*` | instances for TLC | |
| `ConnManagerProofs` | theorems about the lists and the manager, about its calls and, in the last part, the refinement of `ConnCache` | |
| `ReadPreferenceProofs`, `TopologyProofs` | theorems about picking a connection and about discovery | |
| `MongoClientProofs` | theorems about the text of a hash and the options of a client | |
| `TransportProofs`, `StreamLifecycleProofs` | theorems about an exchange with a server and about freeing streams | |
| `MiniBsonProofs` | theorems about the bytes of packets and replies | |
| `FiltersProofs` | theorems about the bytes that pass through chains of filters | |

### ConnManager

`connections` and `blacklist` are the two lists, `heap` the `mongo_connection`
structs by address, so that a pointer can outlive its struct. `pc`, `arg`, `kind`
and `cur` are a thread's place in `mongo_get_connection_single` and its locals:

    blacklist? -> lookup -> ping                                    -> check -> ready
                         -> connect -> ismaster -> buildinfo
                                    -> auth -> firstping, register  -> check -> ready

"check" is the ismaster of the caller. `kind` says which caller it is, because
they differ: a seed of a replica set ("SEED") is compared with its definition and
deregistered when it was renamed, a found host ("FOUND") is not compared, and
`mongo_get_connection_multiple` ("MULTI") destroys a connection that fails without
deregistering it. Reading a freed struct ends in phase "crashed" (`UseFreed`):
the C code would go on with undefined behaviour.

Only what a later decision looks at is kept of an ismaster reply: the role, whether
the wire versions overlap, and whether name and set are as expected. Timestamps are
ages counted up to their interval, which is all `last + interval > now` can tell. The
clock is taken to be monotone. `supports_wire_version` is taken to be
`mongo_mcon_supports_wire_version`; the extension leaves the callback NULL
(`ext_mongo.cpp:1138`, commented out), so the manager as wired there does not
survive its first ismaster. SASL mechanisms are refused, as in a build without
`HAVE_MONGO_SASL`.

The surroundings are nondeterministic. A server may become unreachable with or
without its established connections breaking (a crash or a partition), return
with another reply, and change role while it runs. A server changes its wire version
or becomes an arbiter only when its process was restarted, so only when no
established connection to it survives.

### ReadPreference

The registry is an arbitrary sequence of connections and the request is arbitrary;
neither changes while one is picked. `qsort` is unstable, so `Sort` chooses any order
that the comparison allows, and `rand()` is any place. `int` has `IntBits` bits,
since the sum in `mongo_select_nearest_servers` can overflow. `Mine`, `Tagged`,
`Preferred` and `Promised` say the same with sets: who is eligible, who has the
first tagset that anyone has, who has the preferred role, who is near. Two conditions lead
to undefined behaviour, and `OutcomeIsDue` says that nothing else does: credentials compared
with those of a connection that has none (`NullCompared`, `read_preference.c:295`), and a cutoff
that leaves nobody (`CutsAll`), which takes a latency that is negative or overflows
(`LatencyFits`).

### Topology

`servers` is the list that discovery appends to, `i` and `found` its two loops. What a
host may answer is a set, so members disagree, are renamed, belong to another set or
speak another wire version; each network operation may also fail. A definition stands
for its hash, so `connections` is a set of definitions: one registered before the set
name was learnt differs from the one after. What one connection goes through is
`ConnManager`'s subject; here it works or fails. A second call starts from the list
the first one left.

### MongoClient and ServerHash

The stages are those of the constructor: hosts, options of the string, credentials of
the string on every server, default write concern, options of the array, connect. Each
source gives any sequence of up to `MaxOptions` options. `asked` is history: what was
given last for each setting, and nothing of it is ever taken back, whatever becomes of it in the
code. `early` marks the settings last given as an option of the string, which
`parse.c:219` overwrites, and `overtaken` that a database came after the authentication database;
`Kept` says what of it survives. An error code of the parser ends the construction with
the exception's code. The uninitialised flag `connect` is a value of its own, which the
constructor may take for either. A hash is a sequence of characters, for its length
matters; the digest of the password is one character that stands for 32.

### StreamLayer, FileOps, FileStreams, StreamFile

A stream is a record and an operation of `streams.c` an operator from streams to
streams. Loops are `Loop(Body, start, MaxTurns)`: more turns than any loop takes, of a
body that leaves a finished state alone. `FileOps` supplies read, write, seek, map and
stat; a temp stream encloses another stream and goes through the generic layer a second
time, as in `memory.c`. `FileStreams` makes every call an action and remembers in `op`
what it was asked and what it returned.

`StreamFile` is bytes, a place in them and, for each call, what it does to both given its
arguments and its result: a read or a line gets the next bytes and the place moves past
exactly these, and only at the end is it given none; a record passes over a delimiter too if
that is really there; a copy that succeeds moves exactly what was asked for; a write
puts the bytes it counts at the place, and counts fewer only when the device is full; a seek
goes where it was told or is refused. `op` is one of its variables, so a step of
`FileStreams` has to be the step of *that* call. `LineIsOneLine` is separate from it: it says
where a line ends, judged by the bytes of the file and the kind of line end known *before* the
call, not by what the call has found out.

Some calls take the stream and its bytes apart, by the code as it is: a temp stream that
spills after seeking back continues at the end, a failed seek throws the buffer away, a
truncation leaves the buffer, an appending file does not write at its position, a user
stream without `stream_seek` cannot go back for bytes that are dropped. The operators
`...Tears` name these calls exactly. After one `sound` is false, the behaviour ends and the
promise of `StreamFile` with it. `Filters` and
`Transport` have the same variable with the same meaning.

### Filters

The stream is open for reading or for writing over a connection whose bytes are
numbered. A filter passes everything on, only whole pairs, nothing until the end, or
fails. `sound` ends with a filter that fails, a connection that takes no more and the
calls listed above `Arrive`: for example a chain flushed in the middle of the buffer, where
`filter.c:487` zeroes `readpos` before it subtracts it.

### Transport

A message is a sequence of units `<<n, k>>`, so that every byte knows its request. The
exchange is cut where the code polls the socket. Requests may be sent in part and go
unnoticed (`connections.c:148`), the server answers at its own pace, bytes are delivered one
at a time, a timeout may end any wait, the peer may hang up. `listed` is the persistent list:
a new connection with the same id is given the old stream if that is alive. Two defaults are
kept apart: `DefaultTimeout` is `FG(default_socket_timeout)`, which a stream is opened with
(`xp_socket.c:810`), and `HardTimeout` the minute that a read takes for it and puts back
(`io_stream.cpp:176`).

### StreamLifecycle

A call of `_php_stream_free` is a frame, its steps are the pieces of code between two
calls out of it. Frees start from the script, from the resource list at the end of a
request (newest first), from the persistent list at the end of the process, from an
enclosing stream, from `fclose` of a FILE made with fopencookie, and from the driver.
Places are given out lowest first (`Malloc`): a freed place is used again as soon as
possible, so that a stale pointer meets a new stream.

### MiniBson

Packets are put together piece by piece into the `mcon_str`, whose size is tracked; the
lengths are filled in last. A reply is a sequence of elements and its encoding; searches
and walks work on the bytes, the properties compare them with the elements. What a server
sends is `Elements`: scalars whose length an `int` holds, and documents and arrays of
scalars; `MiniBsonAssumption` confines replies to sequences of them. Names are C strings
without a NUL; so are the strings within a document or an array, which the driver copies up
to the first NUL, while a string at the top and a binary value may hold any byte. Regular
expressions are left out, since `bson_next` skips only one of their two strings (see the
disagreements below), and so is deeper nesting: the driver descends one level, and an
embedded document is skipped by its length whatever is in it.

## Runs

| Run | Instance | Shows |
|---|---|---|
| `replset` | one host, an anonymous and an authenticated definition, six replies (primary, arbiter, renamed, bad wire version, unidentified, wrong set), all three kinds of caller, so with dangling items too | types; no duplicate hash; what is returned is registered, recently checked, of a supported version, and authenticated |
| `fork` | two processes, two cursors, two-tick intervals, callers of kind SEED and FOUND, fair | no dangling registry item; cursors and cleanup lists agree; the child never frees or uses the parent's connections; `ConnManager` implements `ConnCache`; a blacklist entry expires; a sound server is reconnected for good |
| `readpref` | sets of up to three members with pings below, at and above the cutoff, tags and three tagset lists; registries of two connections of any process, set, user and role, and without credentials; all read preferences, latencies 0 and 5, -1, and 26 and 31, whose sums reach or pass the largest `int` | the draw contains exactly the promised connections; a request fails only without a candidate, and crashes exactly over a missing credential or a latency that cuts everybody off; nothing foreign is returned |
| `topology` | three members and an alias, two set names, four seed lists, two calls | discovery ends, within bounds, with every named member usable, no candidate outside the list and members of one set only |
| `client` | one and two hosts, with and without credentials and database, 30 options of the string and 21 of the array, two of each; pids of 5, 7 and 10 digits | servers agree; every setting is exactly the one given last, but for what the string overwrites and a database drops; one write concern is left, `connect=false` is honoured; the hash is an identity that copies keep, and fits its memory exactly as long as the digits of port and pid do |
| `transport` | three requests, two connects, negative, zero and positive timeouts and the hard-coded minute, another default, with and without SSL | an answer belongs to its request; nothing is left behind; a read has its caller's timeout and does not leave it on; exchanges end |
| `files` | seven kinds of stream, contents with and without line ends, chunks of 1 and 2 bytes | buffer, position and file agree; the end is honest; a line is exactly the first of what is left; no record has a delimiter in it; `FileStreams` implements `StreamFile`, call by call |
| `filters` | chains of up to two of four filters, four bytes in or out, chunks of 2 | every byte once and in order; at the end and at close nothing is kept |
| `lifecycle` | three request places, one persistent, one context, two requests | every stream is freed once, none leaks, no list or id outlives its stream, handles are closed, calls return |
| `bson` | two words; replies of up to two elements of all types but one | the buffer suffices; packets are well formed; the cursor is always on an element; the first match is found; arrays are walked whole; walks end |
| `dangling` | violation | `mongo_get_connection_multiple` frees a connection and leaves it registered (`manager.c:435`) |
| `short` | violation | a reply cut off after its header is reported as whole (`connections.c:182`) |

### Disagreements that are not runs

Found with the same models, by an instance or a property that the runs leave out, or written
into a property of a passing run, which then says what the code does in that case:

* two threads register one hash (`Threads = {t1, t2}`), which is why the proofs assume one;
* two X509 users of one host share a hash and so a connection (`utils.c:66`);
* a client without credentials keeps connections that another one authenticated
  (`read_preference.c:294`); that one with credentials compares them with NULL is part of
  `OutcomeIsDue`;
* a latency that is negative, or near INT_MAX, empties the collection before `rand() % count`
  (`read_preference.c:494`), where the comment at line 511 says that the set always contains
  all nodes to be considered: also part of `OutcomeIsDue`. `stage = "pick" => col # <<>>` fails on
  the instance of `readpref`;
* without socketTimeoutMS a read puts back a minute (`io_stream.cpp:176`), where the comment at
  line 267 says "revert to default_socket_timeout". `OwnTimeout` allows both;
* a first `\r\n` that a fill splits turns the stream to Mac line ends (`streams.c:861`), for all
  lines that follow: `LineIsOneLine` excepts this case (`SplitMistaken`), and only this;
* a user, password or database given as an option of the string is stored with 0 ("if it
  worked", `parse.c:254`) and then replaced by nothing (`parse.c:219`); `db` after `authSource` drops
  the latter (`parse.c:398`), where the comment means a default. `LastGivenWins` says exactly when
  (`Kept`, `overtaken`);
* a pid of six digits is one byte too long for the hash of a host with a port of five, without
  a set and credentials, where `utils.c:71` says "assume max size, a signed 32bit int".
  `HashRoom` says exactly when the text fits;
* after an election two connections may be cached as primary, and secondaryPreferred skips
  only one;
* a name service that takes two names of a set to one server makes discovery append
  without end (`manager.c:292`);
* `bson_next` skips one of the two strings of a regular expression (`mini_bson.c:357`
  against the grammar at line 317);
* `replicaSet=1` after a name leaves the name in the servers (`parse.c:466`), as `LastGivenWins`
  says;
* `_php_stream_copy_to_stream_ex` "sets *len to the number of bytes moved"
  (`streams.c:1495`), but after a failed write counts bytes that were not;
* a failed SSL handshake leaves a freed stream in the persistent list (`io_stream.cpp:110`):
  an outcome of `Connect` in `Transport`, and left out of `StreamLifecycle`.

### Bounds

`ConnManager` works on one hash at a time, so one host and one or two definitions
produce every interaction between two hashes that the code has (deregistering
before and after another item, anonymous and authenticated side by side). Two
addresses hold the old and the new connection of a hash; `Fresh` keeps an address
back while anything points to it, so that a dangling pointer stays recognisable.
`IsMasterInterval` 2 and `PingInterval` 1 (2 in `fork`) separate "fresh", "ageing"
and "due". `MaxPid` 2 is a parent and a child. Addresses are symmetric in `replset` and
`dangling`; `fork` checks liveness and uses no symmetry.

Three connections are enough for `ReadPreference` because the sort compares pairs and
the pick distinguishes first, last and middle. `IntBits` 6 keeps INT_MAX (31) within
reach: pings are up to 6, so latency 26 overflows with some of them and 31 with any but 0. `Topology`: `MaxServers` 6 is one place more than two seeds and the
three other names can take, so that any further append is noticed; `MaxCalls` 2 lets a call
start from what another left. `MongoClient`: two options per source are every order of
two in one source and every overwriting across sources. `Transport`: lengths 2, 3 and 2
with reads of 2 and fills of 3 make headers and bodies straddle reads and fills. `FileStreams`:
`Capacity` 4 is a device that gets full, `SpillAt` 3 lets a temp stream spill in the
middle of a run, `ChunkSize` 2 puts line ends and delimiters across fills; `PageSize` is
the real 4096, so a file maps only from its start. `StreamLifecycle`: three places are a temp
stream, what it encloses and one more; `MaxId` 4, `MaxRefs` 2, `MaxRequests` 2. `MiniBson`:
`Prealloc` 7 makes the buffer grow at different pieces of each packet; two elements are one
to skip and one to find. Every bound is a guard or a constant, no run needs a state
constraint. `CHECK_DEADLOCK FALSE` is set where the system may stop (shutdown, the end of a
selection, a bound, a stream that is no longer sound); `bson` checks for deadlock.

### Fairness

`ConnManager`'s `FairSpec` assumes that time passes (`WF` on `Tick`), that a call that has
begun goes on (`WF` on `Step`: the network operations have timeouts, so each returns), and
that the application keeps asking for each definition with leave to connect (`SF` on
`Request`: it can be asked again and again, but not while a call is running). Nothing is
assumed of servers; `Recovers` says what happens *if* one stays sound. `Topology`,
`StreamLifecycle` and `MiniBson` assume that sequential code goes on (`WF` on `Step`,
`CallStep`, `FindStep` and `ArrayStep`); nothing obliges a caller to call again. `Transport`
assumes the same of an exchange while the poll can return; the weak fairness is written
out, with its enabling condition as a state predicate (`CanWork`). A server that neither
answers nor hangs up is allowed, and `CallEnds` is about timeouts that are not
infinite.

## Proofs

All theorems are for arbitrary constants that satisfy the named assumption of their
module. A further hypothesis is a definition of the proof module; it is stated in the
theorem, is satisfied by the instances of the runs, and says where the code's promise ends.

`ConnManagerProofs`, about the lists and what is registered:

* What the list operators of `Registry` preserve, for lists of any length: `FindUnique`,
  `RegisterUnique` and `DeregisterUnique` say that lists with unique hashes stay so, and
  that deregistering removes exactly the hash.

* `TypeCorrect`: `Spec => []TypeOK`, for any number of threads. `TypeOK` alone is not
  inductive: a step reads `arg`, `kind` and `cur`, so `TypeInv` adds `CallOK`: a call
  under way has a definition and a kind, and beyond "connect" an address.
* `HashesUnique`: `Spec => []HashIsUnique` under `OneThread`. The strengthening
  `ListInv` adds `UnderWay`: while a thread is between its lookup and its register, the
  hash it works on is in neither list and its struct is not registered. This is
  exactly what a second thread breaks.
* `RegistryAlive`: `Spec => []RegisteredAlive` under `OneThread` and `NoMulti`. The
  argument is that a struct is freed only while unlisted (a half-made connection, by
  `UnderWay`) or together with its only item (by `HashIsUnique`). Callers of kind MULTI
  are excluded because the run `dangling` violates the property.

and about its calls:

* `CallbacksCorrect`: `Spec => []CallbacksMatch`, any number of threads. Inductive
  together with `TypeInv`; the cases are the frees, which empty the cleanup list and reset
  its cursors in one step, and the steps that move neither (`SameCallbacks`).
* `ForkSafetyHolds`: `Spec => ForkSafety`, an action property, any number of threads.
  `HashInv` says that a struct a thread holds, and a struct a list leads to, has the
  hash it was looked up by; a hash contains the pid, so a foreign struct is never found.
* `ReturnedAreChecked`: `Spec => ReturnedIsChecked` under `OneThread`. `CheckInv` adds
  that ages stay within their intervals and that the connection a call holds in "ping" or
  "check" is registered. A second thread could deregister it in between.
* `InUseAreAuthenticated` and `ReturnedAreAuthenticated`: a live connection that is
  registered or about to be used has the identity of a definition with its hash, or leads
  to an arbiter; under `IdentityInHash` that is the caller's own. The strengthening
  `ArbiterKnown` says that a connection taken for an arbiter's, whose authentication is
  skipped, leads to a server that is one as long as its socket works. `IdentityInHash` fails
  for two X509 users of a host, whom the hash does not tell apart (`utils.c:66`).

* `CacheImplemented`: `Spec => ImplementsCache` of `ConnManagerCache` under `OneThread`: the
  initial state maps to one of `ConnCache`, and each action of the manager to an action of it
  or to a stutter. `ListInv` is what makes registering a step from absent, not from live.

`ReadPreferenceProofs`

* The inductive invariant follows the pipeline: after each stage the collection is, as a
  set, what `Collected`, `Limited`, `Mine` and `Tagged` say (`MineInv`, `TagInv`), a
  collection that has been sorted has its neighbours in order, and a tagset that has been
  passed over has no carriers. The filters are loops that copy what passes (`Keep`);
  `KeepSet` says what such a loop leaves, in what order and without duplicates.
* `ReturnsMineOnly`: `Spec => []ReturnsMine` under `AnonymousApart`: where a request has no
  credentials, neither have the connections it may find. `mongo_filter_candidates_by_credentials`
  lets every connection pass for such a request, so a client that shares the manager with an
  authenticated one can be given its connection.
* `DrawPromised`: `Spec => []PickIsPromised`, with one more hypothesis. `TagsDistinct`: the
  code compares the number of pairs that match with the number of tags, which is the same as
  having all tags only if none is given twice. The property itself speaks of latencies that
  can be added to a ping.
  That the draw is the whole of `Promised` and no more rests on the sort: the cut is at
  the first connection that is too far, and what is behind it is at least as far.
* `FailsHonestly`: `Spec => []OutcomeIsDue`, with the same two hypotheses and for any latency and
  any mixture of connections with and without credentials. `CutOff`: after the sort the cutoff
  leaves nobody if and only if `CutsAll`, whichever of several the sort has put first;
  `NotAllCut`: a latency that can be added never does. Both hypotheses hold on the
  instance of the run.

`TopologyProofs`

* `OneSetOnly` and `NoStrays`, from the inductive invariant `Discovery`: besides types, the
  name in hand is the client's while hosts are appended (`NameKnown`), the server whose
  hosts are walked is in the list (`MemberAt`), and each connection of a set is listed
  (`Listed`).
* `MembersReached`: `Spec => []MembersUsable` under `NamesConsistent`: a host named by a
  member reports itself under that name. The strengthening is that a named host is
  connected, has failed, or is still to come in the loop that walks the reply
  (`NamedReached`). Without the hypothesis a host is renamed while its old name is being
  appended.
* `ListFits`: `Spec => []ServersBounded` under `NamesConsistent` and `LimitSuffices`
  (the array has a place for each seed and each host). What was appended behind the seeds
  is injective in the hosts (`AppendedOnce`), so the list cannot be longer than both.

`MongoClientProofs`

* `HashSplits` and `FitsAllocated` are about texts of any length: where the five fields
  of a hash lie, that looking for a separator finds the end of a field which does not contain
  it, and that what is cut out between is the field. Nothing here is an induction: the hash is
  a fixed number of concatenations, and what `strchr` finds is the least place of a set.
* `ServersAlike`: `Spec => []ServersAgree`. `StoreEffect` shows once for all options what
  `mongo_store_option` does to one definition (`Told`): the same for each and independent of
  host and port. `Agree` then is inductive.
* `LastWins`: `Spec => []LastGivenWins`. The strengthening `AskedInv` says what holds
  while options are still coming: source, mechanism and set follow what was asked
  (`Follows`) from the first option, user, password and database (`Names`) only once the
  string has been parsed, because its credentials replace those of its options; before that,
  whatever was asked for was asked for early (`OnlyEarly`).
* `HashIdentity`: `Spec => []HashIsIdentity` under `TextsPlain`: hosts hold no colon and no
  semicolon, users and databases no semicolon and no slash, set names no semicolon, a
  set name does not begin with "-" nor a database with ".", and the digest is not a
  semicolon. The code checks none of this; a password may be anything. `PlainInv`
  carries the condition through the options.
* `HashInBounds`: `Spec => []HashRoom`, without a hypothesis. It is an equivalence: the text
  of a hash stays within its memory if and only if port and pid have no more than
  `DigitsRoom` digits together. It is not every pid.

`TransportProofs`

* `AnswersAreMine` and `TimeoutsRestored`: `Spec` keeps `AnswerIsMine` and
  `TimeoutRestored`, for messages, reads, chunks and buffers of any length and any timeouts,
  without a further hypothesis.
* The strengthening `AnswerInv` looks at everything on its way to the driver at once:
  `Pending` is the unread part of the read buffer, then the socket, then what the server has
  still to send. During an exchange, what was read followed by `Pending` is the beginning of
  the reply to this very request, or of its body once the header has been taken; as long as
  any of the request is still on its way to the server it is nothing; between two exchanges
  nothing is on its way. Fills, deliveries and reads move units within that sequence and
  leave it as it is, a hang-up cuts its end off, and only the close of a broken connection may
  drop it. This is where closing on every failure is needed. `TimeInv` says that a
  stream has a timeout of its own except while a read has set its caller's, and that the read then
  knows that it has.
* `ReadTakes` is the step behind it: what `_php_stream_read` returns, followed by what it
  leaves in the buffer and in the socket, is what was there, for any buffer, room and chunk
  size. `FillKeeps` shows this of compacting, growing and filling the buffer, `DrainTakes` of
  emptying it and `TurnKeeps` of a turn of the loop; `ReadLoop` carries it through any number
  of turns, by induction on the turn with the predicate given as a set.

`StreamLifecycleProofs`

* `FreedOnlyOnce`, `DanglesNever` and `LeaksNever`: `Spec` keeps `NothingFreedTwice`,
  `NothingDangles` and `NoneLeaks`, for any number of streams, contexts, persistent ids and
  requests and any depth of calls, without a further hypothesis. `LifecycleAssumption` says
  that memory is finite and that streams, contexts and `None` are different things.
* None of the three is inductive, for each free rests on the others under way. `FreeInv`
  has three parts. `ListInv`: ids and entries name each other (`Resources`), the persistent list
  names live streams once (`Keeping`), and each context has a reference for the script, for
  each stream that uses it and for the call about to let it go (`Counted`). `CallInv`: what
  the stack looks like (`Shape`), no two calls work on one stream (`Distinct`), what each call
  has already undone (`Fine`: off the list before the destructor, the enclosed stream and the
  handle gone before the memory), and what a call may find when it starts (`Enters`).
  `StreamInv`: an enclosing and an enclosed stream know each other, except while the inner
  one's destructor has handed over (`Enclosure`); `in_free` is up only where a call works on
  the stream, or where one is on its way to it (`InFree`: a redirected stream waits for the
  enclosing one to close it); and a live stream always has somebody who will free it
  (`Owned`).
* The proof has a lemma per action. The steps of `_php_stream_free` share what a push, a
  replacement or a return does to the stack (`AfterPushing`, `AfterReplacing`,
  `AfterReturning`); the calls from outside share that nothing is under way (`Standing`,
  `StartInv`).

`MiniBsonProofs`

* `SearchFindsFirst` and `ArraysAreWhole`: `Spec` keeps `FindsFirst` and `ArrayWhole` for
  replies of any number of elements with names and values of any length, within
  `MiniBsonAssumption`. `ReadInv` says that the buffer is the encoding of the reply; that a
  search stands on an element, or on the end, with no match before it; and that a walk has
  taken exactly the elements before the one it stands on.
* What carries a step is that one element is read as a whole. `Has(k, bytes)` says that
  the bytes are in the buffer from address k, `HasDocument` that each element of a document
  which is there is there too, at the sum of the lengths before it. `IntRead` reads back an
  `int` that was written little-endian, `CStringRead` a name, `ValueSkipped` shows for each
  type that `bson_next` adds exactly the length of the value, and `ElementRead` and `EndRead`
  put these together. `InOrder`: addresses grow with the elements, so that the element at an
  address is unique and the first match is the one with the least address.
* `PacketsAreWhole`: `Spec => []PacketWellFormed` for words of any length. In `PacketInv` what
  has been added followed by what is still to be added is the whole command; `AddlOK` says
  that the buffer's new size leaves room for the terminator, `LengthsOK` that filling in the
  two lengths changes nothing else, and the bytes between are the encoded fields.
* A document is a concatenation of any number of pieces, so the lemmas about `FlattenSeq`
  need induction over data. It is had without an operator parameter: `InductionOnNat` and
  `InductionOnSeq` say that a *set* which holds 0 (the empty sequence) and is closed under
  successor (append) holds everything, from the well-foundedness of < on the naturals.

`FiltersProofs`

* `BytesConserved` and `EndsAreWhole`: `Spec` keeps `Conserved` and `EndIsWhole`, for chains of
  any length, any number of bytes that arrive or are written, any chunk size and any room in
  the connection. `FiltersAssumption` says only what the constants are: the four kinds of
  filter, numbers, and delimiters made of numbers. Like the properties, the theorems speak of
  a stream until a call is made that the operators above `Arrive` name.
* The invariant `Inv` looks at everything that is on its way at once. Of a stream that is read,
  `Content` is the unread part of the buffer, then what the filters hold, the last of them
  the oldest, then what the connection has; what was delivered followed by `Content` is what
  arrived (`ReadGood`). Of a stream that is written, what was sent followed by what the
  filters hold is what was written (`WriteGood`). `Sane` adds that the place in the buffer is
  within it and that the end is flagged only when the chain is `Drained`: this is what
  `EndIsWhole` needs, since a chain cannot be drained any more once the end is flagged.
* `FilterKeeps` says of each kind of filter that what it held followed by what it was given is
  what it passes on followed by what it holds then. `PassOnKeeps` puts one filter to a round
  through a chain; `Wound` is what the first k filters may have made of the bytes, and
  `WindKeeps` what the whole round makes of them: nothing is lost but what a filter refuses, and
  a round that ends early leaves the rest behind the filter that ended it.
* The calls follow `streams.c`. `PlainFillKeeps` and `FilteredFillKeeps` say that filling the
  buffer leaves `Content` as it is; `ReadTurnKeeps` and `RecordTurnKeeps` say what a turn of the
  two loops takes from it, `ReadKeeps` and `RecordKeeps` what the loops take. `WriteTurnKeeps` and
  `WriteBufferSends` say the same of the loop that writes, `WriteWoundSends` of what a round
  gives it, `FlushSends` of flushing and closing. `FlushTurnsGive` is about flushing one filter,
  which by the code calls that same filter in every turn: the first may give all it holds,
  and where other filters follow, the next one hands it back and it keeps it (`HoldsBack`).
  `AppendReads`, `PrependReads` and `RemoveReads`, and their counterparts for writing, say what
  a change of the chain does to `Held`.
* Three of the named calls are what the argument runs into: a record looked for with bytes
  in the buffer of a filtered stream, a filter flushed into a buffer that was part read, and a
  filter put behind the end. Without leaving them out neither property is inductive.

Only model-checked: liveness (`BlacklistExpires`, `Recovers`, `CallsReturn`, `CallEnds`,
`WalkEnds` and the like) is beyond the prover. `FileStreams`, with its refinement of
`StreamFile`, stays with TLC too: lines, seeks, copies and mappings over seven kinds of stream are
as many loops of `StreamLayer` again, and of those loops only the ones of reading, records
and writing have been followed through, over a socket and over filters.

## Not modelled

* SASL conversations (`HAVE_MONGO_SASL` is set by no build file): only their packets.
* The socket layer's datagram and server side (bind, listen, accept, recvfrom, sendto) and
  the parts of `src/stream` that are tables and lookups: URL wrappers, directories, stat,
  include paths, filter factories. `src/stream` is not compiled by `config.cmake`; the driver
  is written against it.
* `log_stream.c` is not compiled; md5 and strndup are third-party; logging is output only.
* What counts as a host, a port or an option in the text of a connection string; the freeing
  of definitions and options.
* Code of user streams and user filters: they are taken to return what their interface says.
* BSON_JAVASCRIPT_WITH_SCOPE, at which `bson_next` ends the process.

## Plan

Done: all modules above, and the theorems about the manager, picking, discovery, options,
hash, the exchange with a server, the life cycle of streams, packets and replies, and filters.
Left are proofs about lines, seeks and copies of `StreamLayer` over the operations of `FileOps`,
which `InSync` and `Implements` of `FileStreams` need.
