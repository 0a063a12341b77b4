----------------------------- MODULE ServerHash -----------------------------
(***************************************************************************)
(* The text by which the manager knows a connection (utils.c):             *)
(* HOST:PORT;SET;DB/USER/MD5;PID, with "-" for no set and "." for no       *)
(* credentials.  Its users take it apart again, so a text is a sequence of *)
(* letters, the separators among them.  The digest is one letter that      *)
(* stands for DigestLength of them; numbers are their decimal digits.      *)
(***************************************************************************)
EXTENDS Integers, Sequences, TLC

CONSTANT Null

IsText(t) == t \in Seq(STRING)

DigestLength == 32

\* mongo_server_create_hashed_password: a digest of pid, password and user that
\* is different for different arguments.
HashedPassword(pid, pass, user) == ToString(<<pid, pass, user>>)

Credentialed(d) == d.db # Null /\ d.user # Null /\ d.pass # Null

\* Mutant of CreateHash: a missing set name leaves its field empty.
CreateHashEmptySet(d, pid) ==
  d.host \o <<":">> \o d.port \o <<";">>
    \o (IF d.rs # Null THEN d.rs ELSE <<>>) \o <<";">>
    \o (IF Credentialed(d)
        THEN d.db \o <<"/">> \o d.user \o <<"/", HashedPassword(pid, d.pass, d.user)>>
        ELSE <<".">>)
    \o <<";">> \o pid

\* mongo_server_create_hash
CreateHash(d, pid) ==
  d.host \o <<":">> \o d.port \o <<";">>
    \o (IF d.rs # Null THEN d.rs ELSE <<"-">>) \o <<";">>
    \o (IF Credentialed(d)
        THEN d.db \o <<"/">> \o d.user \o <<"/", HashedPassword(pid, d.pass, d.user)>>
        ELSE <<".">>)
    \o <<";">> \o pid

\* strchr(s + from - 1, c), as an index; Len(s) + 1 when there is none.
FirstFrom(s, from, c) ==
  LET at == {k \in from..Len(s) : s[k] = c}
  IN IF at = {} THEN Len(s) + 1 ELSE CHOOSE k \in at : \A m \in at : k <= m

\* mongo_server_split_hash and mongo_server_hash_to_pid
SplitHash(h) ==
  LET colon == FirstFrom(h, 1, ":")
      set   == FirstFrom(h, colon, ";") + 1
      cred  == FirstFrom(h, set, ";") + 1
      s1    == FirstFrom(h, cred, "/")
      s2    == FirstFrom(h, s1 + 1, "/")
      semi  == FirstFrom(h, cred, ";")
      has   == h[cred] # "."
  IN [host |-> SubSeq(h, 1, colon - 1),
      port |-> SubSeq(h, colon + 1, set - 2),
      rs   |-> IF h[set] # "-" THEN SubSeq(h, set, cred - 2) ELSE Null,
      db   |-> IF has THEN SubSeq(h, cred, s1 - 1) ELSE Null,
      user |-> IF has THEN SubSeq(h, s1 + 1, s2 - 1) ELSE Null,
      auth |-> IF has THEN SubSeq(h, s2 + 1, semi - 1) ELSE Null,
      pid  |-> SubSeq(h, semi + 1, Len(h))]

\* mongo_server_hash_to_server: what ismaster compares the name "me" with.
HashToServer(h) == SubSeq(h, 1, FirstFrom(h, 1, ";") - 1)

\* What a reader of the hash of d may expect to find in it.
Parts(d, pid) ==
  [host |-> d.host, port |-> d.port, rs |-> d.rs,
   db   |-> IF Credentialed(d) THEN d.db ELSE Null,
   user |-> IF Credentialed(d) THEN d.user ELSE Null,
   auth |-> IF Credentialed(d) THEN <<HashedPassword(pid, d.pass, d.user)>> ELSE Null,
   pid  |-> pid]

\* Mutant of Allocated: the port is thought to have one digit.
AllocatedShortPort(d) ==
  Len(d.host) + 1 + 1 + 1
    + (IF d.rs # Null THEN Len(d.rs) + 1 ELSE 0)
    + (IF Credentialed(d) THEN Len(d.db) + 1 + Len(d.user) + 1 + DigestLength + 1 ELSE 0)
    + 10

\* The bytes mongo_server_create_hash allocates ...
Allocated(d) ==
  Len(d.host) + 1 + 5 + 1
    + (IF d.rs # Null THEN Len(d.rs) + 1 ELSE 0)
    + (IF Credentialed(d) THEN Len(d.db) + 1 + Len(d.user) + 1 + DigestLength + 1 ELSE 0)
    + 10

\* ... and those it writes, the closing NUL included.
Written(d, pid) ==
  Len(CreateHash(d, pid)) + (IF Credentialed(d) THEN DigestLength - 1 ELSE 0) + 1
=============================================================================
