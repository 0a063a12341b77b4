----------------------------- MODULE MCTopology -----------------------------
(* A set of three members, a name that is an alias of the first, and servers
   that may belong to another set. *)
EXTENDS Topology

Reply(me, set, hosts, wire) == [me |-> me, set |-> set, hosts |-> hosts, wire |-> wire]

SmallHosts == {"a", "b", "c", "alias"}

SmallViews ==
  [a |-> {Reply("a", "rs", <<"a", "b", "c">>, TRUE), Reply("a", "rs", <<"a">>, TRUE)},
   b |-> {Reply("b", "rs", <<"b", "a">>, TRUE), Reply("b", "other", <<"b">>, TRUE),
          Reply("b", "rs", <<>>, FALSE)},
   c |-> {Reply("c", "rs", <<"a", "b", "c">>, TRUE), Reply("c", "other", <<"c">>, TRUE)},
   alias |-> {Reply("a", "rs", <<"a", "b">>, TRUE), Reply(Null, Null, <<>>, TRUE)}]

SmallSeedLists == {<<"a">>, <<"alias">>, <<"b", "alias">>, <<"c", "b">>}
=============================================================================
