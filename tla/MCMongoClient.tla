---------------------------- MODULE MCMongoClient ----------------------------
(* Connection strings, options and process ids for MongoClient. *)
EXTENDS MongoClient

Host(h, p) == [host |-> <<h>>, port |-> p]

\* The database comes from its option or from the string, or there is none.
SmallSpecs ==
  {[hosts |-> h, user |-> c[1], pass |-> c[1], db |-> c[2]] :
     h \in {<<Host("a", Null)>>, <<Host("a", Null), Host("b", <<"9">>)>>},
     c \in {<<Null, Null>>, <<Null, <<"d">>>>, <<<<"u">>, Null>>, <<<<"u">>, <<"d">>>>}}

Opt(n, v) == [name |-> n, value |-> v, text |-> <<v>>, num |-> 0]
Num(n, k) == [name |-> n, value |-> "#", text |-> <<"#">>, num |-> k]

\* Text is kept for the options whose text ends up in a hash.
Shared ==
  {Opt("authMechanism", "GSSAPI"), Opt("authMechanism", "unknown"),
   Opt("authSource", "s"), Opt("db", "e"), Opt("password", "q"), Opt("username", "v"),
   Opt("replicaSet", "rs"), Opt("replicaSet", "1"),
   [name |-> "replicaSet", value |-> "", text |-> <<>>, num |-> 0],
   Opt("readPreference", "nearest"), Opt("readPreferenceTags", "malformed"),
   Opt("readPreferenceTags", "dc:ny"), Opt("slaveOkay", "true"), Opt("slaveOkay", "false"),
   Num("w", 0), Num("w", -1), Opt("w", "majority"), Opt("nosuch", "x")}

Rest ==
  {Num("connectTimeoutMS", 1), Num("timeout", 2), Opt("fsync", "true"), Num("journal", 1),
   Opt("gssapiServiceName", "g"), Num("secondaryAcceptableLatencyMS", 3),
   Num("socketTimeoutMS", 4), Opt("ssl", "true"), Num("ssl", 2), Num("wTimeoutMS", 5)}

SmallUrlOptions ==
  Shared \cup Rest \cup {[name |-> "", value |-> "x", text |-> <<"x">>, num |-> 0],
                         [name |-> "w", value |-> "", text |-> Null, num |-> 0]}
SmallArrOptions ==
  Shared \cup {Opt("connect", "true"), Opt("connect", "false"),
               [name |-> "0", value |-> "x", text |-> <<"x">>, num |-> 0]}

Digits(n) == [k \in 1..n |-> "1"]
\* A pid of a small system, one beyond 2^16, and the longest of 32 bits.
SmallPids == {Digits(5), Digits(7), Digits(10)}
=============================================================================
