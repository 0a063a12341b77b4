--------------------------- MODULE MCConnManager ---------------------------
(* Small instances of ConnManager for TLC. *)
EXTENDS ConnManagerCache, TLC

CONSTANT h1

NoAuth(h) == [host |-> h, rs |-> Null, db |-> Null, user |-> Null,
              pass |-> Null, authdb |-> Null, mech |-> "MONGODB-CR"]
WithUser(h, u) == [NoAuth(h) EXCEPT !.db = "db", !.user = u, !.pass = "pw"]

\* Two ways to reach one host: without credentials and as a user.
OneHostDefs == {NoAuth(h1), WithUser(h1, "ann")}
OneDef == {WithUser(h1, "ann")}
AllAccounts == {Identity(d) : d \in Defs} \ {Anonymous}

Reply(role, wire, ident) == [role |-> role, wire |-> wire, ident |-> ident]
SetReplies == {Reply("PRIMARY", TRUE, "match"), Reply("ARBITER", TRUE, "match"),
               Reply("SECONDARY", TRUE, "renamed"), Reply("PRIMARY", FALSE, "match"),
               Reply("INVALID", TRUE, "match"), Reply("PRIMARY", TRUE, "wrongset")}
FewReplies == {Reply("PRIMARY", TRUE, "match"), Reply("INVALID", TRUE, "match")}

\* Addresses and cursors are interchangeable.
Symmetric == Permutations(Addrs) \cup Permutations(Cursors)
=============================================================================
