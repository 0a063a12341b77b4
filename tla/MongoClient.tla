---------------------------- MODULE MongoClient ----------------------------
(***************************************************************************)
(* How a MongoClient comes to its servers and options: the constructor of  *)
(* ext_mongo.cpp and the parser of parse.c.  The connection string is      *)
(* taken apart first, its options are stored one by one, its credentials   *)
(* are put on every server, the default write concern is set, the options  *)
(* array is stored one by one, and the client may connect.                 *)
(*                                                                         *)
(* An option is [name, value, num]: its text, and what atoi makes of it.   *)
(* The value "#" stands for the digits of num.  Which option comes next is *)
(* up to the application; each source gives at most MaxOptions of them.    *)
(***************************************************************************)
EXTENDS ServerHash

CONSTANTS
  Specs,       \* connection strings: [hosts, user, pass, db]
  UrlOptions,  \* options a connection string may hold
  ArrOptions,  \* options the array may hold
  MaxOptions,  \* options of one source
  MaxServers,  \* MAX_SERVERS_LIMIT
  Pids         \* process ids, as digits

ASSUME ClientAssumption ==
  /\ MaxOptions \in Nat /\ MaxServers \in Nat
  /\ \A s \in Specs : /\ Len(s.hosts) \in 1..MaxServers
                       /\ (s.user = Null) = (s.pass = Null)
  /\ \A s \in Specs : \A k \in 1..Len(s.hosts) :
       IsText(s.hosts[k].host) /\ (s.hosts[k].port = Null \/ IsText(s.hosts[k].port))
  /\ \A s \in Specs : \A t \in {s.user, s.pass, s.db} \ {Null} : IsText(t)
  /\ \A o \in UrlOptions \cup ArrOptions : o.text = Null \/ IsText(o.text)
  /\ \A p \in Pids : IsText(p)
  /\ \A o \in UrlOptions \cup ArrOptions : o.num \in Int /\ o.value \in STRING
  /\ \A o \in ArrOptions : o.text # Null
  /\ Null \notin STRING \cup BOOLEAN \cup {<<"admin">>}

VARIABLES
  servers,  \* mongo_servers: [server, options, read_pref]
  spec,     \* the connection string
  stage,    \* "hosts", "url", "array", "connect", "done" or "thrown"
  left,     \* options the current source may still give
  error,    \* the code of the exception
  connect,  \* the constructor's flag: uninitialised, or the value given
  online,   \* php_mongo_connect has been called
  asked     \* history: what was given last for each setting, and how

vars == <<servers, spec, stage, left, error, connect, online, asked>>
-----------------------------------------------------------------------------
(* mongo_store_option *)

AuthMechanisms == {"MONGODB-CR", "SCRAM-SHA-1", "MONGODB-X509", "GSSAPI", "PLAIN"}
ReadPreferences ==
  {"primary", "primaryPreferred", "secondary", "secondaryPreferred", "nearest"}

\* strcasecmp with "true" or strcmp with "1"
IsTrue(o) == o.value = "true" \/ (o.value = "#" /\ o.num = 1)
IsFalse(o) == o.value = "false" \/ (o.value = "#" /\ o.num = 0)

Stored(s) == [s |-> s, code |-> 0]
Deprecated(s) == [s |-> s, code |-> -1]
Refused(s, code) == [s |-> s, code |-> code]

\* The loops over servers->server.
EachServer(s, F(_)) == [s EXCEPT !.server = [k \in 1..Len(@) |-> F(@[k])]]

\* Mutant of StoreDb: only the first server is told.
StoreDbFirst(s, o) == [s EXCEPT !.server[1].db = o.text]

\* db: a default authdb is dropped with the database that came with it.
StoreDb(s, o) ==
  EachServer(s, LAMBDA d : [d EXCEPT !.db = o.text,
                                     !.authdb = IF d.db # Null THEN Null ELSE @])

\* username: without a database, admin is used, and authenticated against.
StoreUsername(s, o) ==
  EachServer(s, LAMBDA d :
    [d EXCEPT !.user = o.text,
              !.db = IF @ = Null THEN <<"admin">> ELSE @,
              !.authdb = IF d.db = Null /\ @ = Null THEN <<"admin">> ELSE @])

\* Mutant of StoreReplicaSet: the servers are not told.
StoreReplicaSetOption(s, o) ==
  [s EXCEPT !.options.rs = IF o.text \in {<<>>, <<"1">>} THEN Null ELSE o.text,
            !.options.type = IF o.text = <<>> THEN @ ELSE "REPLSET"]

\* replicaSet: an empty value only forgets the name, true names no set.
StoreReplicaSet(s, o) ==
  LET t == [s EXCEPT !.options.rs = IF o.text \in {<<>>, <<"1">>} THEN Null ELSE o.text,
                     !.options.type = IF o.text = <<>> THEN @ ELSE "REPLSET"]
  IN IF t.options.rs = Null THEN t
     ELSE EachServer(t, LAMBDA d : [d EXCEPT !.rs = o.text])

\* slaveOkay: an older way to ask for secondaryPreferred.
StoreSlaveOkay(s, o) ==
  IF ~IsTrue(o) THEN Deprecated(s)
  ELSE IF s.read_pref.type # "primary" \/ s.read_pref.tagsets > 0 THEN Refused(s, 3)
  ELSE Deprecated([s EXCEPT !.read_pref.type = "secondaryPreferred"])

\* w: a number or the name of a mode; either replaces both.
StoreW(s, o) ==
  IF o.value = "#"
  THEN [s |-> [s EXCEPT !.options.w = o.num, !.options.wstring = Null],
        code |-> IF o.num < 0 THEN 3 ELSE 0]
  ELSE Stored([s EXCEPT !.options.w = -1, !.options.wstring = o.value])

\* ssl: "prefer" (2) and anything else is refused.
StoreSsl(s, o) ==
  IF IsTrue(o) \/ IsFalse(o) THEN Stored([s EXCEPT !.options.ssl = IsTrue(o)])
  ELSE Refused(s, 3)

\* parse_read_preference_tags: a value without a colon is refused.
StoreTags(s, o) ==
  IF o.value = "malformed" THEN Refused(s, 3)
  ELSE Stored([s EXCEPT !.read_pref.tagsets = @ + 1])

\* The options that set one number, flag or name.
StoreSetting(s, o) ==
  CASE o.name = "connectTimeoutMS" -> Stored([s EXCEPT !.options.connectTimeoutMS = o.num])
    [] o.name = "fsync" -> Stored([s EXCEPT !.options.fsync = IsTrue(o)])
    [] o.name = "journal" -> Stored([s EXCEPT !.options.journal = IsTrue(o)])
    [] o.name = "gssapiServiceName" -> Stored([s EXCEPT !.options.gssapi = o.value])
    [] o.name = "secondaryAcceptableLatencyMS" -> Stored([s EXCEPT !.options.latency = o.num])
    [] o.name = "socketTimeoutMS" -> Stored([s EXCEPT !.options.socketTimeoutMS = o.num])
    [] o.name = "timeout" -> Deprecated([s EXCEPT !.options.connectTimeoutMS = o.num])
    [] o.name \in {"wTimeout", "wTimeoutMS"} -> Stored([s EXCEPT !.options.wtimeout = o.num])
    [] OTHER -> Refused(s, 2)

\* mongo_store_option: the settings after option o, and the return value.
StoreOption(s, o) ==
  CASE o.name = "authMechanism" ->
         IF o.value \in AuthMechanisms
         THEN Stored(EachServer(s, LAMBDA d : [d EXCEPT !.mech = o.value]))
         ELSE Refused(s, 3)
    [] o.name = "authSource" -> Stored(EachServer(s, LAMBDA d : [d EXCEPT !.authdb = o.text]))
    [] o.name = "db" -> Stored(StoreDb(s, o))
    [] o.name = "password" -> Stored(EachServer(s, LAMBDA d : [d EXCEPT !.pass = o.text]))
    [] o.name = "readPreference" ->
         IF o.value \in ReadPreferences
         THEN Stored([s EXCEPT !.read_pref.type = o.value]) ELSE Refused(s, 3)
    [] o.name = "readPreferenceTags" -> StoreTags(s, o)
    [] o.name = "replicaSet" -> Stored(StoreReplicaSet(s, o))
    [] o.name = "slaveOkay" -> StoreSlaveOkay(s, o)
    [] o.name = "ssl" -> StoreSsl(s, o)
    [] o.name = "username" -> Stored(StoreUsername(s, o))
    [] o.name = "w" -> StoreW(s, o)
    [] OTHER -> StoreSetting(s, o)
-----------------------------------------------------------------------------
(* The connection string *)

\* mongo_parse_init
ParseInit ==
  [server |-> <<>>,
   options |-> [rs |-> Null, type |-> "STANDALONE", connectTimeoutMS |-> 60000,
                socketTimeoutMS |-> 30000, latency |-> 15, w |-> -1, wstring |-> Null,
                wtimeout |-> -1, fsync |-> FALSE, journal |-> FALSE, ssl |-> FALSE,
                gssapi |-> "mongodb"],
   read_pref |-> [type |-> "primary", tagsets |-> 0]]

\* mongo_add_parsed_server_addr
ParsedServer(h) ==
  [host |-> h.host, port |-> IF h.port = Null THEN <<"2", "7", "0", "1", "7">> ELSE h.port,
   user |-> Null, pass |-> Null, db |-> Null, authdb |-> Null, mech |-> "MONGODB-CR",
   rs |-> Null]

NothingAsked == [user |-> Null, pass |-> Null, db |-> Null, source |-> Null, mech |-> Null,
                 rs |-> Null, name |-> Null, early |-> {}, overtaken |-> FALSE]

\* mongo_parse_server_spec up to the database: the hosts, and what their number
\* says about the kind of connection.
ParseHosts ==
  /\ stage = "hosts"
  /\ servers' = [servers EXCEPT
        !.server = [k \in 1..Len(spec.hosts) |-> ParsedServer(spec.hosts[k])],
        !.options.type = IF Len(spec.hosts) = 1 THEN "STANDALONE" ELSE "MULTIPLE"]
  /\ stage' = "url"
  /\ UNCHANGED <<spec, left, error, connect, online, asked>>

\* A PHP exception: the object is not built.
Throw(code) == stage' = "thrown" /\ error' = code

\* What has been asked for, after one more option.  Nothing that was asked for is
\* forgotten here, whatever becomes of it: early are the settings last given as
\* an option of the string, overtaken says that a database came after the
\* authSource, name is the last set named.
Ask(a, o) ==
  LET early(x) == IF stage = "url" THEN a.early \cup {x} ELSE a.early \ {x}
      rs == IF o.text \in {<<>>, <<"1">>} THEN Null ELSE o.text
  IN CASE o.name = "username" -> [a EXCEPT !.user = o.text, !.early = early("user")]
       [] o.name = "password" -> [a EXCEPT !.pass = o.text, !.early = early("pass")]
       [] o.name = "db" -> [a EXCEPT !.db = o.text, !.early = early("db"), !.overtaken = TRUE]
       [] o.name = "authSource" -> [a EXCEPT !.source = o.text, !.overtaken = FALSE]
       [] o.name = "authMechanism" -> [a EXCEPT !.mech = o.value]
       [] o.name = "replicaSet" -> [a EXCEPT !.rs = rs, !.name = IF rs = Null THEN @ ELSE rs]
       [] OTHER -> a

\* The string asks for the credentials and the database that stand in it.
AskString(a, u) ==
  [a EXCEPT !.user = IF u.user = Null THEN @ ELSE u.user,
            !.pass = IF u.pass = Null THEN @ ELSE u.pass,
            !.db = IF u.db = Null THEN @ ELSE u.db,
            !.early = {x \in @ : u[x] = Null}]

\* mongo_parse_options and mongo_process_option: one option of the string.  An
\* option without a name or a value is refused; so is an error stored.
UrlOption(o) ==
  LET r == IF o.name = "" \/ o.text = Null THEN Refused(servers, 1) ELSE StoreOption(servers, o)
  IN /\ stage = "url" /\ left > 0
     /\ left' = left - 1
     /\ servers' = r.s
     /\ IF r.code > 0 THEN Throw(20 + r.code) /\ UNCHANGED asked
                      ELSE asked' = Ask(asked, o) /\ UNCHANGED <<stage, error>>
     /\ UNCHANGED <<spec, connect, online>>

UrlDatabase(u) == IF u.db = Null /\ u.user # Null /\ u.pass # Null THEN <<"admin">> ELSE u.db

\* The rest of mongo_parse_server_spec: the credentials and the database of the
\* string replace whatever its options said, even where the string has none;
\* then the constructor's default write concern.
UrlDone ==
  LET u == spec
      t == EachServer(servers, LAMBDA d :
             [d EXCEPT !.user = u.user, !.pass = u.pass, !.db = UrlDatabase(u)])
  IN /\ stage = "url"
     /\ servers' = IF t.options.w = -1 /\ t.options.wstring = Null
                   THEN [t EXCEPT !.options.w = 1] ELSE t
     /\ asked' = AskString(asked, u)
     /\ stage' = "array" /\ left' = MaxOptions
     /\ UNCHANGED <<spec, error, connect, online>>
-----------------------------------------------------------------------------
(* The options array and the connection *)

\* mongo_store_option_wrapper and its caller.  "connect" (4) is kept by the
\* constructor; deprecated options (-1) only cause a notice; every other
\* non-zero value is thrown.  A numeric key (here "0") is an error of its own.
ArrayOption(o) ==
  LET r == StoreOption(servers, o)
  IN /\ stage = "array" /\ left > 0
     /\ left' = left - 1
     /\ IF o.name = "connect"
        THEN connect' = IsTrue(o) /\ UNCHANGED <<servers, stage, error, asked>>
        ELSE IF o.name = "0"
        THEN Throw(25) /\ UNCHANGED <<servers, connect, asked>>
        ELSE /\ servers' = r.s
             /\ IF r.code > 0 THEN Throw(20 + r.code) /\ UNCHANGED asked
                              ELSE asked' = Ask(asked, o) /\ UNCHANGED <<stage, error>>
             /\ UNCHANGED connect
     /\ UNCHANGED <<spec, online>>

ArrayDone ==
  /\ stage = "array"
  /\ stage' = "connect"
  /\ UNCHANGED <<servers, spec, left, error, connect, online, asked>>

\* "if (connect)", of a variable that may not have been set.
MayConnect(c) == IF c = Null THEN BOOLEAN ELSE {c}

\* php_mongo_connect throws 71 when no connection is found (72 without a
\* message).
Connect ==
  /\ stage = "connect"
  /\ online' \in MayConnect(connect)
  /\ \/ stage' = "done" /\ UNCHANGED error
     \/ online' /\ \E code \in {71, 72} : Throw(code)
  /\ UNCHANGED <<servers, spec, left, connect, asked>>

Init ==
  /\ servers = ParseInit
  /\ spec \in Specs
  /\ stage = "hosts" /\ left = MaxOptions /\ error = 0
  /\ connect = Null /\ online = FALSE
  /\ asked = NothingAsked

Next ==
  \/ ParseHosts
  \/ \E o \in UrlOptions : UrlOption(o)
  \/ UrlDone
  \/ \E o \in ArrOptions : ArrayOption(o)
  \/ ArrayDone \/ Connect

Spec == Init /\ [][Next]_vars
-----------------------------------------------------------------------------
(* mongo_servers_copy *)

\* mongo_server_def_copy
CopyServer(d, credentials) ==
  IF credentials THEN d
  ELSE [d EXCEPT !.user = Null, !.pass = Null, !.db = Null, !.authdb = Null,
                 !.mech = "MONGODB-CR"]

\* mongo_servers_copy: every setting is copied, one by one.
CopyServers(s, credentials) ==
  [s EXCEPT !.server = [k \in 1..Len(@) |-> CopyServer(@[k], credentials)]]
-----------------------------------------------------------------------------
(* Properties *)

Built == stage \in {"connect", "done"}
Servers == {servers.server[k] : k \in 1..Len(servers.server)}

\* Whatever the order of the options, all servers of a client are approached in
\* the same way: one set name, one identity, one mechanism, one database.
\* Discovery relies on it when it copies the seed's settings to found hosts.
ServersAgree ==
  \A d, e \in Servers :
    [d EXCEPT !.host = e.host, !.port = e.port] = e

\* What is left of what was asked for: an option of the string is replaced by
\* what the string itself has (parse.c:219-223), and is lost without an error where
\* it has nothing.
Kept(x) == IF x \in asked.early THEN Null ELSE asked[x]

\* parse.c applies options one by one, the string's before the array's, and what
\* was given last is what every server gets, but for what Kept says.  What was
\* never given is not there by accident: a user without a database gets admin,
\* the authentication database is the one given, unless a database came after it
\* (parse.c:398, which takes it for the default), or admin for a user without one.
\* Of all write concerns one is left, and
\* connect=false is honoured.
LastGivenWins ==
  Built =>
    /\ \A d \in Servers :
         /\ d.user = Kept("user") /\ d.pass = Kept("pass")
         /\ d.db = IF Kept("db") # Null THEN Kept("db")
                   ELSE IF d.user # Null THEN <<"admin">> ELSE Null
         /\ \/ d.authdb = asked.source
            \/ asked.overtaken /\ d.authdb = Null
            \/ /\ asked.overtaken \/ asked.source = Null
               /\ asked.user # Null /\ d.authdb = <<"admin">>
         /\ d.mech = IF asked.mech = Null THEN "MONGODB-CR" ELSE asked.mech
         /\ d.rs = asked.name
    /\ servers.options.rs = asked.rs
    /\ (servers.options.w >= 0) # (servers.options.wstring # Null)
    /\ connect = FALSE => ~online

\* The hash of a server is its identity: splitting it gives back what went into
\* it, a copy of the server with its credentials has the same one and
\* authenticates in the same way, and a copy without them names nobody.
HashIsIdentity ==
  Built => \A d \in Servers, p \in Pids :
    /\ SplitHash(CreateHash(d, p)) = Parts(d, p)
    /\ HashToServer(CreateHash(d, p)) = d.host \o <<":">> \o d.port
    /\ LET kept == CopyServers(servers, TRUE).server
           bare == CopyServers(servers, FALSE).server
       IN \A k \in 1..Len(kept) :
            /\ kept[k] = servers.server[k]
            /\ ~Credentialed(bare[k]) /\ bare[k].rs = servers.server[k].rs

\* The digits of a port and a pid for which there is room.  utils.c:56-72 counts
\* fifteen, and does not count "-;", ".;" and the closing NUL, which take five.
DigitsRoom(d) == 10 + (IF d.rs = Null THEN 0 ELSE 2) + (IF Credentialed(d) THEN 2 ELSE 0)

\* The text of a hash stays within its memory exactly as long as the digits of
\* port and pid do: nothing else that options put into it, however long, makes
\* it run over.  That is less than utils.c:71 says ("PID (assume max size, a signed
\* 32bit int)"): with a port of five digits a longer pid runs over.
HashRoom ==
  Built => \A d \in Servers, p \in Pids :
    Written(d, p) <= Allocated(d) <=> Len(d.port) + Len(p) <= DigitsRoom(d)
=============================================================================
