-------------------------- MODULE MCReadPreference --------------------------
(* Small registries and requests for ReadPreference. *)
EXTENDS ReadPreference

CONSTANTS rs1, rs2, u1, u2

\* Registries of up to n connections; the i-th leads to host i.
RegistriesOf(n, To(_)) ==
  UNION {{s \in [1..k -> UNION {To(i) : i \in 1..k}] : \A i \in 1..k : s[i] \in To(i)} :
            k \in 1..n}

\* Members of one set, of any role, distance and tags ...
Member(i) ==
  [hash : [host : {i}, rs : {rs1}, cred : {u1}, pid : {MyPid}],
   type : {"PRIMARY", "SECONDARY"}, ping : {0, 5, 6}, tags : {<<>>, <<"x">>}]

\* ... and connections of other sets, users and processes, and of nobody.
Anyone(i) ==
  [hash : [host : {i}, rs : {rs1, rs2, Null}, cred : {u1, u2, Null}, pid : {MyPid, MyPid + 1}],
   type : {"PRIMARY", "SECONDARY", "MONGOS"}, ping : {0}, tags : {<<>>}]

SmallRegistries == RegistriesOf(3, Member) \cup RegistriesOf(2, Anyone)

\* The servers of a request are host 1, or hosts 2 and 1.
Def(h, rs) == [host |-> h, rs |-> rs, cred |-> u1]
Servers(rs) == {<<Def(1, rs)>>, <<Def(2, rs), Def(1, rs)>>}

\* Requests of a replica set, with every read preference and with tagsets; the same
\* with a latency that is negative or, with a ping, does not fit an int of 6 bits; of
\* a set whose name is not known; and of several servers that are no set.
SmallRequests ==
  [type : {"REPLSET"}, flag : {"READ", "WRITE"},
   rp : {"PRIMARY", "PRIMARY_PREFERRED", "SECONDARY", "SECONDARY_PREFERRED", "NEAREST"},
   tagsets : {<<>>, <<<<"x">>>>, <<<<"x">>, <<>>>>}, latency : {5}, rs : {rs1},
   servers : Servers(rs1)]
  \cup [type : {"REPLSET"}, flag : {"READ"},
        rp : {"PRIMARY", "PRIMARY_PREFERRED", "SECONDARY", "SECONDARY_PREFERRED", "NEAREST"},
        tagsets : {<<>>, <<<<"x">>>>}, latency : {-1, 26, 31}, rs : {rs1}, servers : {<<Def(1, rs1)>>}]
  \cup [type : {"REPLSET"}, flag : {"READ", "ANY"}, rp : {"NEAREST", "SECONDARY_PREFERRED"},
        tagsets : {<<>>}, latency : {0, 5}, rs : {Null}, servers : Servers(Null)]
  \cup [type : {"MULTIPLE"}, flag : {"READ", "ANY"}, rp : {"NEAREST", "SECONDARY_PREFERRED"},
        tagsets : {<<>>}, latency : {0, 5}, rs : {Null}, servers : Servers(Null)]
=============================================================================
