--------------------------- MODULE TransportProofs ---------------------------
(***************************************************************************)
(* What an exchange over the stream transport returns and leaves behind,   *)
(* for messages, reads and buffers of any length and any timeouts.         *)
(***************************************************************************)
EXTENDS Transport, SequenceTheorems, WellFoundedInduction, TLAPS
-----------------------------------------------------------------------------
(* Sequences and loops *)

LEMMA ConcatAssoc ==
  ASSUME NEW X, NEW a \in Seq(X), NEW b \in Seq(X), NEW c \in Seq(X)
  PROVE  (a \o b) \o c = a \o (b \o c)
OBVIOUS

LEMMA ConcatEmpty ==
  ASSUME NEW X, NEW a \in Seq(X)
  PROVE  a \o <<>> = a /\ <<>> \o a = a
OBVIOUS

\* A sequence and what is cut off at its front.
LEMMA Split ==
  ASSUME NEW X, NEW a \in Seq(X), NEW k \in 0..Len(a)
  PROVE  /\ SubSeq(a, 1, k) \in Seq(X) /\ Len(SubSeq(a, 1, k)) = k
         /\ SubSeq(a, k + 1, Len(a)) \in Seq(X)
         /\ SubSeq(a, 1, k) \o SubSeq(a, k + 1, Len(a)) = a
<1>1. 1 \in 1..(k + 1) /\ k \in 0..Len(a) /\ SubSeq(a, 1, Len(a)) = a
  BY SubSeqFull
<1>2. /\ SubSeq(a, 1, k) \in Seq(X) /\ Len(SubSeq(a, 1, k)) = k
      /\ SubSeq(a, k + 1, Len(a)) \in Seq(X)
  OBVIOUS
<1>3. SubSeq(a, 1, k) \o SubSeq(a, k + 1, Len(a)) = SubSeq(a, 1, Len(a))
  <2>1. 1 \in 1..(Len(a) + 1) /\ k \in (1 - 1)..Len(a) /\ Len(a) \in k..Len(a)
    OBVIOUS
  <2> QED
    BY <2>1, ConcatAdjacentSubSeq, Zenon
<1> QED
  BY <1>1, <1>2, <1>3

\* Two cuts are one.
LEMMA CutTwice ==
  ASSUME NEW X, NEW a \in Seq(X), NEW p \in 0..Len(a), NEW k \in 0..(Len(a) - p)
  PROVE  /\ SubSeq(SubSeq(a, p + 1, Len(a)), k + 1, Len(a) - p) = SubSeq(a, p + k + 1, Len(a))
         /\ Len(SubSeq(a, p + 1, Len(a))) = Len(a) - p
OBVIOUS

\* The first unit goes from the front of one sequence to the end of another.
LEMMA HeadMoved ==
  ASSUME NEW X, NEW a \in Seq(X), NEW b \in Seq(X), b # <<>>
  PROVE  /\ Append(a, Head(b)) \in Seq(X) /\ Tail(b) \in Seq(X)
         /\ Append(a, Head(b)) \o Tail(b) = a \o b
<1>1. Append(a, Head(b)) = a \o <<Head(b)>> /\ b = <<Head(b)>> \o Tail(b)
  OBVIOUS
<1>2. <<Head(b)>> \in Seq(X) /\ Tail(b) \in Seq(X) /\ Append(a, Head(b)) \in Seq(X)
  OBVIOUS
<1>3. (a \o <<Head(b)>>) \o Tail(b) = a \o (<<Head(b)>> \o Tail(b))
  <2>1. \A x, y, z \in Seq(X) : (x \o y) \o z = x \o (y \o z)
    BY ConcatAssoc
  <2> QED
    BY <1>2, <2>1, Zenon
<1> QED
  BY <1>1, <1>2, <1>3

\* What is behind the front of a sequence.
LEMMA AfterFront ==
  ASSUME NEW X, NEW a \in Seq(X), NEW b \in Seq(X)
  PROVE  SubSeq(a \o b, Len(a) + 1, Len(a \o b)) = b
OBVIOUS

\* What is put behind a sequence is behind the rest of it too.
LEMMA TailOfConcat ==
  ASSUME NEW X, NEW a \in Seq(X), NEW b \in Seq(X), NEW p \in 0..Len(a)
  PROVE  SubSeq(a \o b, p + 1, Len(a \o b)) = SubSeq(a, p + 1, Len(a)) \o b
<1> DEFINE c == SubSeq(a, 1, p)
           d == SubSeq(a, p + 1, Len(a))
<1>1. /\ c \in Seq(X) /\ Len(c) = p /\ d \in Seq(X) /\ c \o d = a
  BY Split
<1> HIDE DEF c, d
<1>2. c \o (d \o b) = a \o b /\ d \o b \in Seq(X)
  <2>1. (c \o d) \o b = c \o (d \o b)
    <3>1. \A x, y, z \in Seq(X) : (x \o y) \o z = x \o (y \o z)
      BY ConcatAssoc
    <3>2. c \in Seq(X) /\ d \in Seq(X)
      BY <1>1
    <3> QED
      BY <3>1, <3>2
  <2>2. d \o b \in Seq(X)
    BY <1>1
  <2> QED
    BY <1>1, <2>1, <2>2
<1>3. SubSeq(c \o (d \o b), Len(c) + 1, Len(c \o (d \o b))) = d \o b
  BY <1>1, <1>2, AfterFront
<1> QED
  BY <1>1, <1>2, <1>3 DEF d

\* Induction over the naturals, for a set.
LEMMA InductionOnNat ==
  ASSUME NEW T, 0 \in T, \A n \in Nat : n \in T => n + 1 \in T
  PROVE  \A n \in Nat : n \in T
<1> SUFFICES ASSUME \E n \in Nat : n \notin T PROVE FALSE
  OBVIOUS
<1> DEFINE R == OpToRel(<, Nat)
           U == {n \in Nat : n \notin T}
<1>1. IsWellFoundedOn(R, Nat)
  BY NatLessThanWellFounded
<1>2. \A x, y \in Nat : x < y => <<x, y>> \in R
  BY DEF OpToRel
<1>3. U \subseteq Nat /\ U # {}
  OBVIOUS
<1> HIDE DEF R, U
<1>4. PICK n \in U : \A m \in U : ~(<<m, n>> \in R)
  BY <1>1, <1>3, WFMin
<1>5. n \in Nat /\ n \notin T /\ n # 0
  BY <1>4 DEF U
<1>6. n - 1 \in Nat /\ n - 1 < n /\ n = (n - 1) + 1
  BY <1>5
<1>7. n - 1 \in T
  BY <1>2, <1>4, <1>5, <1>6 DEF U
<1> QED
  BY <1>5, <1>6, <1>7

\* What every turn of a read keeps, the loop keeps.
LEMMA ReadLoop ==
  ASSUME NEW a, NEW n \in Nat, NEW T, a \in T, \A x \in T : ReadTurn(x) \in T
  PROVE  Loop(ReadTurn, a, n) \in T
<1> DEFINE Turns(g, m) == g = [k \in 0..m |-> IF k = 0 THEN a ELSE ReadTurn(g[k - 1])]
           U == {m \in Nat : \E g : Turns(g, m)}
<1>1. 0 \in U
  <2>1. Turns([k \in 0..0 |-> a], 0)
    OBVIOUS
  <2> QED
    BY <2>1
<1>2. ASSUME NEW m \in Nat, m \in U PROVE m + 1 \in U
  <2>1. PICK g : Turns(g, m)
    BY <1>2
  <2> DEFINE h == [k \in 0..(m + 1) |-> IF k = 0 THEN a ELSE ReadTurn(g[k - 1])]
  <2>2. \A k \in 0..m : g[k] = IF k = 0 THEN a ELSE ReadTurn(g[k - 1])
    BY <2>1, Zenon
  <2>3. \A k \in 0..m : h[k] = g[k]
    <3> TAKE k \in 0..m
    <3>1. k \in 0..(m + 1)
      OBVIOUS
    <3> QED
      BY <2>2, <3>1, Zenon
  <2>4. \A k \in 0..(m + 1) : h[k] = IF k = 0 THEN a ELSE ReadTurn(h[k - 1])
    <3> TAKE k \in 0..(m + 1)
    <3>1. k # 0 => k - 1 \in 0..m
      OBVIOUS
    <3>2. k # 0 => h[k - 1] = g[k - 1]
      BY <2>3, <3>1
    <3>3. h[k] = IF k = 0 THEN a ELSE ReadTurn(g[k - 1])
      BY Zenon
    <3> QED
      BY <3>2, <3>3, Zenon
  <2>5. h = [k \in 0..(m + 1) |-> IF k = 0 THEN a ELSE ReadTurn(h[k - 1])]
    <3>1. h = [k \in 0..(m + 1) |-> h[k]]
      OBVIOUS
    <3> HIDE DEF h
    <3> QED
      BY <2>4, <3>1, Zenon
  <2> QED
    <3>1. m + 1 \in Nat
      OBVIOUS
    <3> HIDE DEF h
    <3>2. \E f : Turns(f, m + 1)
      BY <2>5, Zenon
    <3> QED
      BY <3>1, <3>2, Zenon
<1>3. \E g : Turns(g, n)
  <2> HIDE DEF U
  <2>1. n \in U
    BY <1>1, <1>2, InductionOnNat
  <2> QED
    BY <2>1 DEF U
<1>4. Turns(CHOOSE g : Turns(g, n), n)
  BY <1>3
<1>5. PICK g : Turns(g, n) /\ Loop(ReadTurn, a, n) = g[n]
  BY <1>4 DEF Loop
<1>6. \A k \in 0..n : g[k] = IF k = 0 THEN a ELSE ReadTurn(g[k - 1])
  BY <1>5, Zenon
<1> DEFINE V == {k \in Nat : k <= n => g[k] \in T}
<1>7. 0 \in V
  <2>1. 0 \in 0..n
    OBVIOUS
  <2>2. g[0] = a
    BY <1>6, <2>1, Zenon
  <2> QED
    BY <2>2
<1>8. ASSUME NEW k \in Nat, k \in V PROVE k + 1 \in V
  <2> SUFFICES ASSUME k + 1 <= n PROVE g[k + 1] \in T
    OBVIOUS
  <2>1. k + 1 \in 0..n /\ k + 1 # 0 /\ (k + 1) - 1 = k /\ k <= n
    OBVIOUS
  <2>2. g[k + 1] = IF k + 1 = 0 THEN a ELSE ReadTurn(g[(k + 1) - 1])
    BY <1>6, <2>1, Zenon
  <2>3. g[k + 1] = ReadTurn(g[k])
    BY <2>1, <2>2, Zenon
  <2>4. g[k] \in T
    BY <1>8, <2>1
  <2> QED
    BY <2>3, <2>4
<1> HIDE DEF V
<1>9. n \in V
  BY <1>7, <1>8, InductionOnNat
<1> QED
  BY <1>5, <1>9 DEF V
-----------------------------------------------------------------------------
(* One read of the stream *)

Units == Nat \X Nat

Streams ==
  [rx : Seq(Units), hungup : BOOLEAN, timeout : Int, timeout_event : BOOLEAN,
   buf : Seq(Units), readpos : Nat, cap : Nat, position : Nat, eof : BOOLEAN,
   chunk : {ChunkSize}, nobuf : {FALSE}, noseek : {TRUE}, eol : {"unix"}, plain : {FALSE},
   readfilters : {<<>>}, writefilters : {<<>>}]

\* A socket stream: the buffer is unfiltered and holds what has been consumed of it.
StreamOK(s) == s \in Streams /\ s.readpos <= Len(s.buf) /\ Len(s.buf) <= s.cap

\* What the driver has not read of what has arrived.
Ahead(s) == Unread(s) \o s.rx

\* From s, got was taken, which left t: nothing is lost, repeated or out of order,
\* and the timeout is as before.
Took(s, t, got, n) ==
  /\ StreamOK(t) /\ t.timeout = s.timeout
  /\ got \in Seq(Units) /\ Len(got) <= n
  /\ Ahead(s) = got \o Ahead(t)

LEMMA LeastOf ==
  ASSUME NEW a \in Nat, NEW b \in Nat
  PROVE  Least(a, b) \in Nat /\ Least(a, b) <= a /\ Least(a, b) <= b
<1>1. \E x \in {a, b} : \A y \in {a, b} : x <= y
  OBVIOUS
<1>2. Least(a, b) \in {a, b} /\ \A y \in {a, b} : Least(a, b) <= y
  BY <1>1 DEF Least, Min
<1> QED
  BY <1>2

LEMMA UnitsAssoc ==
  \A a, b, c \in Seq(Units) : (a \o b) \o c = a \o (b \o c)
BY ConcatAssoc

LEMMA StreamFields ==
  ASSUME NEW s, StreamOK(s)
  PROVE  /\ s \in Streams /\ s.buf \in Seq(Units) /\ s.rx \in Seq(Units) /\ Len(s.buf) \in Nat
         /\ s.readpos \in Nat /\ s.readpos \in 0..Len(s.buf)
         /\ s.cap \in Nat /\ Len(s.buf) <= s.cap
<1>1. s \in Streams /\ s.readpos <= Len(s.buf) /\ Len(s.buf) <= s.cap
  BY DEF StreamOK
<1>2. s.buf \in Seq(Units) /\ s.rx \in Seq(Units) /\ s.readpos \in Nat /\ s.cap \in Nat
  BY <1>1 DEF Streams
<1>3. Len(s.buf) \in Nat
  BY <1>2
<1> QED
  BY <1>1, <1>2, <1>3

LEMMA UnreadOK ==
  ASSUME NEW s, StreamOK(s)
  PROVE  /\ Unread(s) \in Seq(Units) /\ Len(Unread(s)) = Len(s.buf) - s.readpos
         /\ Avail(s) \in Nat /\ Avail(s) = Len(Unread(s))
         /\ Ahead(s) \in Seq(Units)
<1>1. s.buf \in Seq(Units) /\ s.readpos \in 0..Len(s.buf) /\ s.rx \in Seq(Units)
  BY StreamFields
<1>2. /\ SubSeq(s.buf, s.readpos + 1, Len(s.buf)) \in Seq(Units)
      /\ Len(SubSeq(s.buf, s.readpos + 1, Len(s.buf))) = Len(s.buf) - s.readpos
  BY <1>1
<1> QED
  BY <1>1, <1>2 DEF Unread, Avail, Ahead

\* The socket gives from its front.
LEMMA SockReadTakes ==
  ASSUME NEW s \in Streams, NEW n \in Nat
  PROVE  LET r == SockRead(s, n)
         IN /\ r.s \in Streams /\ r.got \in Seq(Units) /\ Len(r.got) <= n
            /\ s.rx = r.got \o r.s.rx
            /\ r.s.buf = s.buf /\ r.s.readpos = s.readpos /\ r.s.cap = s.cap
            /\ r.s.timeout = s.timeout
<1> DEFINE w == WaitForData(s)
           k == IF n < Len(w.rx) THEN n ELSE Len(w.rx)
           r == SockRead(s, n)
<1>1. w \in Streams /\ w.rx = s.rx /\ w.buf = s.buf /\ w.readpos = s.readpos /\ w.cap = s.cap
      /\ w.timeout = s.timeout /\ s.rx \in Seq(Units)
  BY DEF WaitForData, Streams
<1>2. k \in 0..Len(w.rx) /\ k <= n
  BY <1>1
<1>3. CASE w.timeout_event
  <2>1. r = [s |-> w, got |-> <<>>]
    BY <1>3 DEF SockRead
  <2> HIDE DEF w
  <2> QED
    BY <1>1, <2>1, ConcatEmpty
<1>4. CASE ~w.timeout_event
  <2> DEFINE t == [w EXCEPT !.rx = SubSeq(@, k + 1, Len(@)), !.eof = k = 0]
  <2>1. r = [s |-> t, got |-> SubSeq(w.rx, 1, k)]
    BY <1>4 DEF SockRead
  <2> HIDE DEF w, k
  <2>2. /\ SubSeq(w.rx, 1, k) \in Seq(Units) /\ Len(SubSeq(w.rx, 1, k)) = k
        /\ SubSeq(w.rx, k + 1, Len(w.rx)) \in Seq(Units)
        /\ SubSeq(w.rx, 1, k) \o SubSeq(w.rx, k + 1, Len(w.rx)) = w.rx
    BY <1>1, <1>2, Split
  <2>3. /\ t \in Streams /\ t.rx = SubSeq(w.rx, k + 1, Len(w.rx))
        /\ t.buf = w.buf /\ t.readpos = w.readpos /\ t.cap = w.cap /\ t.timeout = w.timeout
    BY <1>1, <2>2 DEF Streams
  <2> HIDE DEF t, r
  <2>4. r.s = t /\ r.got = SubSeq(w.rx, 1, k)
    BY <2>1
  <2> QED
    BY <1>1, <1>2, <2>2, <2>3, <2>4 DEF r
<1> QED
  BY <1>3, <1>4

\* A read that does without the buffer.
LEMMA DirectRead ==
  ASSUME NEW s, StreamOK(s), Unread(s) = <<>>, NEW n \in Nat
  PROVE  Took(s, SockRead(s, n).s, SockRead(s, n).got, n)
<1> DEFINE r == SockRead(s, n)
<1>1. /\ r.s \in Streams /\ r.got \in Seq(Units) /\ Len(r.got) <= n
      /\ s.rx = r.got \o r.s.rx
      /\ r.s.buf = s.buf /\ r.s.readpos = s.readpos /\ r.s.cap = s.cap
      /\ r.s.timeout = s.timeout
  BY SockReadTakes DEF StreamOK
<1> HIDE DEF r
<1>2. StreamOK(r.s) /\ Unread(r.s) = <<>>
  BY <1>1 DEF StreamOK, Unread
<1>3. Ahead(s) = s.rx /\ Ahead(r.s) = r.s.rx
  BY <1>1, <1>2, ConcatEmpty DEF Ahead, Streams, StreamOK
<1> QED
  BY <1>1, <1>2, <1>3 DEF Took, r

\* What is drained comes from the front of the buffer.
LEMMA DrainTakes ==
  ASSUME NEW s, StreamOK(s), NEW n \in Nat
  PROVE  /\ Took(s, Drain(s, n).s, Drain(s, n).got, n)
         /\ Len(Drain(s, n).got) < n => Unread(Drain(s, n).s) = <<>>
<1> DEFINE k == Least(Avail(s), n)
           u == Unread(s)
           t == Consume(s, k)
           got == SubSeq(u, 1, k)
<1>1. u \in Seq(Units) /\ Len(u) = Avail(s) /\ Len(u) = Len(s.buf) - s.readpos /\ Avail(s) \in Nat
  BY UnreadOK
<1>2. k \in 0..Len(u) /\ k <= n /\ (k = Len(u) \/ k = n)
  <2>1. k \in Nat /\ k <= Avail(s) /\ k <= n
    BY <1>1, LeastOf
  <2>2. k \in {Avail(s), n}
    <3>1. \E x \in {Avail(s), n} : \A y \in {Avail(s), n} : x <= y
      BY <1>1
    <3> QED
      BY <3>1 DEF Least, Min
  <2> QED
    BY <1>1, <2>1, <2>2
<1> HIDE DEF k
<1>3. /\ s \in Streams /\ s.buf \in Seq(Units) /\ s.readpos \in 0..Len(s.buf) /\ Len(s.buf) <= s.cap
      /\ s.rx \in Seq(Units)
  BY StreamFields
<1>4. t \in Streams /\ t.readpos = s.readpos + k /\ t.buf = s.buf /\ t.cap = s.cap /\ t.rx = s.rx
      /\ t.timeout = s.timeout
  <2>1. s.readpos + k \in Nat
    BY <1>1, <1>2, <1>3
  <2> DEFINE m == s.readpos + k
  <2>2. t = [s EXCEPT !.readpos = m]
    BY DEF Consume
  <2> HIDE DEF m, t
  <2>3. t \in Streams /\ t.readpos = m /\ t.buf = s.buf /\ t.cap = s.cap /\ t.rx = s.rx
        /\ t.timeout = s.timeout
    BY <1>3, <2>1, <2>2 DEF Streams, m
  <2> QED
    BY <2>3 DEF m
<1>5. StreamOK(t)
  BY <1>1, <1>2, <1>3, <1>4 DEF StreamOK
<1>6. Unread(t) = SubSeq(u, k + 1, Len(u))
  <2>1. k \in 0..(Len(s.buf) - s.readpos)
    BY <1>1, <1>2
  <2>2. SubSeq(u, k + 1, Len(s.buf) - s.readpos) = SubSeq(s.buf, s.readpos + k + 1, Len(s.buf))
    BY <1>3, <2>1, CutTwice DEF Unread
  <2> QED
    BY <1>1, <1>4, <2>2 DEF Unread
<1> HIDE DEF u, t, got
<1>7. /\ got \in Seq(Units) /\ Len(got) = k /\ SubSeq(u, k + 1, Len(u)) \in Seq(Units)
      /\ got \o SubSeq(u, k + 1, Len(u)) = u
  BY <1>1, <1>2, Split DEF got
<1>8. Ahead(s) = got \o Ahead(t)
  <2>1. (got \o Unread(t)) \o s.rx = got \o (Unread(t) \o s.rx)
    <3>1. Unread(t) \in Seq(Units)
      BY <1>6, <1>7
    <3> QED
      BY <1>3, <1>7, <3>1, UnitsAssoc
  <2> QED
    BY <1>4, <1>6, <1>7, <2>1 DEF Ahead, u
<1>9. Len(got) < n => Unread(t) = <<>>
  <2>1. k = Len(u) => SubSeq(u, k + 1, Len(u)) = <<>>
    BY <1>1
  <2> QED
    BY <1>2, <1>6, <1>7, <2>1
<1>10. Drain(s, n) = [s |-> t, got |-> got]
  BY DEF Drain, k, t, u, got
<1> QED
  BY <1>2, <1>4, <1>5, <1>7, <1>8, <1>9, <1>10 DEF Took

\* A fill puts behind the buffer what it takes from the socket.
LEMMA FillKeeps ==
  ASSUME NEW s, StreamOK(s), NEW n \in Nat
  PROVE  LET t == FillReadBuffer(s, n)
         IN StreamOK(t) /\ t.timeout = s.timeout /\ Ahead(t) = Ahead(s)
<1> DEFINE c == Compacted(s)
           g == Grown(c)
           room == g.cap - Len(g.buf)
           r == SockRead(g, room)
           b == Buffered(r)
<1>1. s \in Streams /\ s.readfilters = <<>> /\ s.chunk \in Nat \ {0} /\ s.buf \in Seq(Units)
  <2>1. s \in Streams /\ s.buf \in Seq(Units)
    BY StreamFields
  <2>2. s.readfilters = <<>> /\ s.chunk = ChunkSize
    BY <2>1 DEF Streams
  <2>3. ChunkSize \in Nat \ {0}
    BY TransportAssumption
  <2> QED
    BY <2>1, <2>2, <2>3
<1>2. FillReadBuffer(s, n) = IF Avail(s) >= n THEN s ELSE b
  BY <1>1 DEF FillReadBuffer, FillRoom
<1>3. /\ StreamOK(c) /\ Unread(c) = Unread(s) /\ c.rx = s.rx /\ c.timeout = s.timeout
      /\ c.chunk = s.chunk
  <2>1. CASE ~(s.cap > 0 /\ ShortOfRoom(s))
    BY <2>1 DEF Compacted
  <2>2. CASE s.cap > 0 /\ ShortOfRoom(s)
    <3> DEFINE u == Unread(s)
    <3>1. u \in Seq(Units) /\ Len(u) = Len(s.buf) - s.readpos
      BY UnreadOK
    <3>2. c = [s EXCEPT !.buf = u, !.readpos = 0]
      BY <2>2 DEF Compacted
    <3> HIDE DEF u, c
    <3>3. /\ c \in Streams /\ c.buf = u /\ c.readpos = 0 /\ c.rx = s.rx /\ c.timeout = s.timeout
          /\ c.chunk = s.chunk /\ c.cap = s.cap
      BY <1>1, <3>1, <3>2 DEF Streams
    <3>4. Len(u) \in Nat /\ Len(u) <= s.cap
      BY <3>1, StreamFields
    <3>5. StreamOK(c)
      BY <3>3, <3>4 DEF StreamOK
    <3>6. Unread(c) = u
      <4>1. SubSeq(u, 0 + 1, Len(u)) = u
        BY <3>1
      <4> QED
        BY <3>3, <4>1 DEF Unread
    <3> QED
      BY <3>3, <3>5, <3>6 DEF u
  <2> QED
    BY <2>1, <2>2
<1> HIDE DEF c
<1>4. /\ StreamOK(g) /\ Unread(g) = Unread(c) /\ g.rx = c.rx /\ g.timeout = c.timeout
      /\ g.buf = c.buf /\ g.readpos = c.readpos /\ room \in Nat
  <2>1. c \in Streams /\ Len(c.buf) \in Nat /\ c.cap \in Nat /\ Len(c.buf) <= c.cap /\ c.chunk \in Nat
        /\ c.readpos \in 0..Len(c.buf)
    BY <1>1, <1>3, StreamFields
  <2>2. CASE ~ShortOfRoom(c)
    BY <1>3, <2>1, <2>2 DEF Grown
  <2>3. CASE ShortOfRoom(c)
    <3> DEFINE m == c.cap + c.chunk
    <3>1. g = [c EXCEPT !.cap = m] /\ m \in Nat /\ Len(c.buf) <= m
      BY <2>1, <2>3 DEF Grown
    <3> HIDE DEF m, g
    <3>2. /\ g \in Streams /\ g.rx = c.rx /\ g.timeout = c.timeout /\ g.buf = c.buf
          /\ g.readpos = c.readpos /\ g.cap = m
      BY <2>1, <3>1 DEF Streams
    <3>3. StreamOK(g)
      BY <2>1, <3>1, <3>2 DEF StreamOK
    <3>4. Unread(g) = Unread(c)
      BY <3>2 DEF Unread
    <3>5. g.cap - Len(g.buf) \in Nat
      BY <2>1, <3>1, <3>2
    <3> QED
      BY <3>2, <3>3, <3>4, <3>5
  <2> QED
    BY <2>2, <2>3
<1> HIDE DEF g
<1>5. /\ r.s \in Streams /\ r.got \in Seq(Units) /\ Len(r.got) <= room
      /\ g.rx = r.got \o r.s.rx
      /\ r.s.buf = g.buf /\ r.s.readpos = g.readpos /\ r.s.cap = g.cap
      /\ r.s.timeout = g.timeout
  BY <1>4, SockReadTakes DEF StreamOK
<1> HIDE DEF r
<1>6. /\ b \in Streams /\ b.buf = g.buf \o r.got /\ b.readpos = g.readpos /\ b.cap = g.cap
      /\ b.rx = r.s.rx /\ b.timeout = g.timeout
  <2> DEFINE m == g.buf \o r.got
             q == r.s
  <2>1. m \in Seq(Units)
    BY <1>4, <1>5, StreamFields
  <2>2. b = [q EXCEPT !.buf = m]
    BY <1>5 DEF Buffered
  <2>3. q \in Streams
    BY <1>5
  <2> HIDE DEF m, q, b
  <2>4. /\ b \in Streams /\ b.buf = m /\ b.readpos = q.readpos /\ b.cap = q.cap
        /\ b.rx = q.rx /\ b.timeout = q.timeout
    BY <2>1, <2>2, <2>3 DEF Streams
  <2> QED
    BY <1>5, <2>4 DEF m, q
<1> HIDE DEF b
<1>7. g.buf \in Seq(Units) /\ g.readpos \in 0..Len(g.buf) /\ Len(g.buf) \in Nat /\ g.cap \in Nat
  BY <1>4, StreamFields
<1>8. StreamOK(b)
  <2>1. r.got \in Seq(Units) /\ Len(r.got) \in Nat /\ Len(r.got) <= g.cap - Len(g.buf)
    BY <1>5
  <2>2. Len(b.buf) = Len(g.buf) + Len(r.got)
    BY <1>6, <1>7, <2>1
  <2>3. /\ Len(g.buf) + Len(r.got) <= g.cap
        /\ g.readpos <= Len(g.buf) + Len(r.got)
    <3>1. \A x, y, z \in Nat : y <= z - x => x + y <= z
      OBVIOUS
    <3>2. \A x, y \in Nat : \A z \in 0..x : z <= x + y
      OBVIOUS
    <3> QED
      BY <1>7, <2>1, <3>1, <3>2, Zenon
  <2>4. Len(b.buf) <= b.cap /\ b.readpos <= Len(b.buf)
    BY <1>6, <2>2, <2>3
  <2> QED
    BY <1>6, <2>4 DEF StreamOK
<1>9. Unread(b) = Unread(g) \o r.got
  <2>1. SubSeq(g.buf \o r.got, g.readpos + 1, Len(g.buf \o r.got))
          = SubSeq(g.buf, g.readpos + 1, Len(g.buf)) \o r.got
    BY <1>5, <1>7, TailOfConcat, Zenon
  <2> QED
    BY <1>6, <2>1 DEF Unread
<1>10. Ahead(b) = Ahead(g)
  <2>1. Unread(g) \in Seq(Units) /\ r.s.rx \in Seq(Units)
    BY <1>4, <1>5, UnreadOK DEF Streams
  <2>2. (Unread(g) \o r.got) \o r.s.rx = Unread(g) \o (r.got \o r.s.rx)
    BY <1>5, <2>1, UnitsAssoc
  <2> QED
    BY <1>5, <1>6, <1>9, <2>2 DEF Ahead
<1>11. Ahead(g) = Ahead(s)
  BY <1>3, <1>4 DEF Ahead
<1> QED
  BY <1>2, <1>3, <1>4, <1>6, <1>8, <1>10, <1>11

LEMMA TookTwice ==
  ASSUME NEW s, NEW t, NEW u, NEW a, NEW b, NEW k, NEW m, NEW n \in Nat,
         Took(s, t, a, k), Took(t, u, b, m), Len(a) + Len(b) <= n
  PROVE  Took(s, u, a \o b, n)
<1>1. a \in Seq(Units) /\ b \in Seq(Units) /\ Ahead(s) = a \o Ahead(t) /\ Ahead(t) = b \o Ahead(u)
      /\ StreamOK(u) /\ u.timeout = s.timeout
  BY DEF Took
<1>2. Ahead(u) \in Seq(Units)
  BY <1>1, UnreadOK
<1>3. (a \o b) \o Ahead(u) = a \o (b \o Ahead(u))
  BY <1>1, <1>2, UnitsAssoc
<1>4. a \o b \in Seq(Units) /\ Len(a \o b) = Len(a) + Len(b)
  BY <1>1
<1> QED
  BY <1>1, <1>3, <1>4 DEF Took

\* The read behind an empty buffer, of the socket itself when chunks are of one
\* unit.
LEMMA ReadMoreTakes ==
  ASSUME NEW s, StreamOK(s), Unread(s) = <<>>, NEW n \in Nat
  PROVE  Took(s, ReadMore(s, n).s, ReadMore(s, n).got, n)
<1>1. s.readfilters = <<>> /\ s.nobuf = FALSE
  <2>1. \A v \in Streams : v.readfilters = <<>> /\ v.nobuf = FALSE
    BY DEF Streams
  <2> QED
    BY <2>1, StreamFields
<1>2. CASE s.chunk = 1
  <2>1. ReadMore(s, n) = SockRead(s, n)
    BY <1>1, <1>2 DEF ReadMore
  <2> QED
    BY <2>1, DirectRead
<1>3. CASE s.chunk # 1
  <2> DEFINE t == FillReadBuffer(s, n)
  <2>1. ReadMore(s, n) = Drain(t, n)
    BY <1>1, <1>3 DEF ReadMore
  <2>2. StreamOK(t) /\ t.timeout = s.timeout /\ Ahead(t) = Ahead(s)
    BY FillKeeps
  <2> HIDE DEF t
  <2>3. Took(t, Drain(t, n).s, Drain(t, n).got, n)
    BY <2>2, DrainTakes
  <2> QED
    BY <2>1, <2>2, <2>3 DEF Took
<1> QED
  BY <1>2, <1>3

\* What the loop of a read of n units of s has in hand.
Turn(s, n) ==
  {x \in [s : Streams, got : Seq(Units), size : Nat, done : BOOLEAN] :
     Took(s, x.s, x.got, n) /\ Len(x.got) + x.size = n}

LEMMA CountedKeeps ==
  ASSUME NEW s, NEW n \in Nat, NEW x \in Turn(s, n), NEW r, Took(x.s, r.s, r.got, x.size)
  PROVE  LET y == Counted(x, r)
         IN y \in Turn(s, n) /\ y.s = r.s /\ y.size = x.size - Len(r.got)
<1> DEFINE got == x.got \o r.got
           size == x.size - Len(r.got)
           done == r.got = <<>>
           t == r.s
           y == Counted(x, r)
<1>1. /\ x \in [s : Streams, got : Seq(Units), size : Nat, done : BOOLEAN]
      /\ Took(s, x.s, x.got, n) /\ Len(x.got) + x.size = n
  BY DEF Turn
<1>2. r.got \in Seq(Units) /\ Len(r.got) <= x.size /\ t \in Streams
  BY DEF Took, StreamOK
<1>3. Len(r.got) \in Nat /\ Len(x.got) \in Nat /\ x.size \in Nat /\ x.got \in Seq(Units)
  BY <1>1, <1>2
<1>4. got \in Seq(Units) /\ size \in Nat /\ Len(got) + size = n /\ done \in BOOLEAN
      /\ Len(x.got) + Len(r.got) <= n
  BY <1>1, <1>2, <1>3
<1>5. Took(s, t, got, n)
  BY <1>1, <1>4, TookTwice
<1>6. y = [x EXCEPT !.s = t, !.got = got, !.size = size, !.done = done]
  BY DEF Counted
<1> HIDE DEF got, size, done, t, y
<1>7. /\ y \in [s : Streams, got : Seq(Units), size : Nat, done : BOOLEAN]
      /\ y.s = t /\ y.got = got /\ y.size = size
  BY <1>1, <1>2, <1>4, <1>6
<1>8. y \in Turn(s, n)
  BY <1>4, <1>5, <1>7 DEF Turn
<1> QED
  BY <1>7, <1>8 DEF y, t, size

LEMMA DoneKeeps ==
  ASSUME NEW s, NEW n, NEW x \in Turn(s, n), NEW d \in BOOLEAN
  PROVE  [x EXCEPT !.done = d] \in Turn(s, n)
<1> DEFINE y == [x EXCEPT !.done = d]
<1>1. /\ x \in [s : Streams, got : Seq(Units), size : Nat, done : BOOLEAN]
      /\ Took(s, x.s, x.got, n) /\ Len(x.got) + x.size = n
  BY DEF Turn
<1>2. /\ y \in [s : Streams, got : Seq(Units), size : Nat, done : BOOLEAN]
      /\ y.s = x.s /\ y.got = x.got /\ y.size = x.size
  BY <1>1
<1> HIDE DEF y
<1>3. y \in Turn(s, n)
  BY <1>1, <1>2 DEF Turn
<1> QED
  BY <1>3 DEF y

LEMMA TurnKeeps ==
  ASSUME NEW s, NEW n \in Nat, NEW x \in Turn(s, n)
  PROVE  ReadTurn(x) \in Turn(s, n)
<1> DEFINE d == Drain(x.s, x.size)
           y == Counted(x, d)
           r == ReadMore(y.s, y.size)
           z == Counted(y, r)
<1>1. x.size \in Nat /\ StreamOK(x.s)
  BY DEF Turn, Took
<1>2. /\ Took(x.s, d.s, d.got, x.size)
      /\ Len(d.got) < x.size => Unread(d.s) = <<>>
  BY <1>1, DrainTakes
<1> HIDE DEF d
<1>3. y \in Turn(s, n) /\ y.s = d.s /\ y.size = x.size - Len(d.got)
  BY <1>2, CountedKeeps
<1> HIDE DEF y
<1>4. y.size \in Nat /\ StreamOK(y.s) /\ (y.size # 0 => Unread(y.s) = <<>>)
  <2>1. y.size \in Nat /\ StreamOK(y.s)
    BY <1>3 DEF Turn, Took
  <2>2. d.got \in Seq(Units) /\ Len(d.got) \in Nat
    BY <1>2 DEF Took
  <2>3. y.size # 0 => Len(d.got) < x.size
    BY <1>1, <1>3, <2>1, <2>2
  <2> QED
    BY <1>2, <1>3, <2>1, <2>3
<1>5. ReadBehind(y) \in Turn(s, n)
  <2>1. CASE y.size = 0
    <3>1. ReadBehind(y) = [y EXCEPT !.done = TRUE]
      BY <2>1 DEF ReadBehind
    <3> QED
      BY <1>3, <3>1, DoneKeeps
  <2>2. CASE y.size # 0
    <3>1. Took(y.s, r.s, r.got, y.size)
      BY <1>4, <2>2, ReadMoreTakes
    <3> HIDE DEF r
    <3>2. z \in Turn(s, n)
      BY <1>3, <3>1, CountedKeeps
    <3>3. ReadBehind(y) = OnlyPlainAgain(z)
      BY <2>2 DEF ReadBehind, r
    <3> HIDE DEF z
    <3> DEFINE e == z.done \/ ~z.s.plain
    <3>4. OnlyPlainAgain(z) = [z EXCEPT !.done = e]
      BY DEF OnlyPlainAgain
    <3>5. e \in BOOLEAN
      OBVIOUS
    <3> HIDE DEF e
    <3>6. [z EXCEPT !.done = e] \in Turn(s, n)
      BY <3>2, <3>5, DoneKeeps
    <3> QED
      BY <3>3, <3>4, <3>6
  <2> QED
    BY <2>1, <2>2
<1>6. ReadTurn(x) = IF x.done \/ x.size = 0 THEN x ELSE ReadBehind(y)
  BY DEF ReadTurn, y, d
<1> QED
  BY <1>5, <1>6

\* _php_stream_read of a socket stream: what it returns is the front of what was
\* unread in the buffer and in the socket, no more than was asked for, and what is
\* left is the rest of it, whatever the buffer, its room and the chunk size.
THEOREM ReadTakes ==
  ASSUME NEW s, StreamOK(s), NEW n \in Nat
  PROVE  Took(s, Read(s, n).s, Read(s, n).got, n)
<1> DEFINE a == [s |-> s, got |-> <<>>, size |-> n, done |-> FALSE]
           x == Loop(ReadTurn, a, n + 1)
           m == x.s.position + Len(x.got)
           t == [x.s EXCEPT !.position = @ + Len(x.got)]
<1>1. a \in Turn(s, n)
  <2>1. Took(s, s, <<>>, n)
    BY UnreadOK, ConcatEmpty DEF Took
  <2>2. a \in [s : Streams, got : Seq(Units), size : Nat, done : BOOLEAN]
        /\ a.s = s /\ a.got = <<>> /\ a.size = n
    BY StreamFields
  <2> HIDE DEF a
  <2> QED
    BY <2>1, <2>2 DEF Turn
<1>2. x \in Turn(s, n)
  <2> DEFINE T == Turn(s, n)
  <2>1. \A y \in T : ReadTurn(y) \in T
    BY TurnKeeps
  <2>2. a \in T /\ n + 1 \in Nat
    BY <1>1
  <2> HIDE DEF T, a
  <2>3. Loop(ReadTurn, a, n + 1) \in T
    BY <2>1, <2>2, ReadLoop
  <2> QED
    BY <2>3 DEF T
<1>3. Read(s, n) = Advanced(x)
  BY DEF Read
<1> HIDE DEF x
<1>4. Took(s, x.s, x.got, n) /\ x.s \in Streams /\ Len(x.got) \in Nat
  BY <1>2 DEF Turn
<1>5. Advanced(x) = [s |-> t, got |-> x.got]
  BY DEF Advanced
<1>6. t \in Streams /\ t.buf = x.s.buf /\ t.readpos = x.s.readpos /\ t.cap = x.s.cap
      /\ t.rx = x.s.rx /\ t.timeout = x.s.timeout
  <2> DEFINE q == x.s
  <2>1. m \in Nat
    <3>1. \A v \in Streams : v.position \in Nat
      BY DEF Streams
    <3>2. x.s.position \in Nat
      BY <1>4, <3>1
    <3> QED
      BY <1>4, <3>2
  <2>2. t = [q EXCEPT !.position = m] /\ q \in Streams
    BY <1>4
  <2> HIDE DEF m, t, q
  <2>3. t \in Streams /\ t.buf = q.buf /\ t.readpos = q.readpos /\ t.cap = q.cap
        /\ t.rx = q.rx /\ t.timeout = q.timeout
    BY <2>1, <2>2 DEF Streams
  <2> QED
    BY <2>3 DEF q
<1> HIDE DEF t
<1>7. StreamOK(t) /\ Ahead(t) = Ahead(x.s)
  BY <1>4, <1>6 DEF Took, StreamOK, Ahead, Unread
<1>8. Took(s, t, x.got, n)
  BY <1>4, <1>6, <1>7 DEF Took
<1> QED
  BY <1>3, <1>5, <1>8
-----------------------------------------------------------------------------
(* The inductive invariant *)

Calls ==
  [n : 0..MaxRequests, got : Seq(Units), want : Nat, revert : BOOLEAN, answer : Seq(Units)]
Servers == [in : Seq(Units), out : Seq(Units)]

TypeInv ==
  /\ opts \in [connect : Int, socket : Int, ssl : BOOLEAN]
  /\ StreamOK(st) /\ call \in Calls /\ srv \in Servers
  /\ listed \in {"none", "live", "freed"} /\ con \in {"none", "new", "connected"}
  /\ pc \in {"idle", "header", "gotheader", "body", "gotbody", "failed"}

\* A connection has a listed stream, and an exchange has a connection and a room
\* of its own for what is read.
ExchangeInv ==
  /\ con # "none" => listed = "live"
  /\ pc # "idle" => con # "none" /\ call.n # 0
  /\ Len(call.got) <= call.want
  /\ pc \in {"header", "body"} => Len(call.got) < call.want
  /\ pc \in {"header", "gotheader"} => call.want = HeaderLength
  /\ pc \in {"body", "gotbody"} => call.want = BodyLength

\* t is how long the caller of a read wants to wait, as far as it is asked.
Asked(t) ==
  \/ CallTimeout = 0 \/ t = Effective(CallTimeout)
  \/ opts.socket = 0 /\ CallTimeout = HardTimeout

\* Only a read may have set another timeout, and it then knows that it has.
TimeInv ==
  listed = "live" =>
    IF pc \in {"header", "body"}
    THEN Asked(st.timeout) /\ (OwnTimeout(st.timeout) \/ call.revert)
    ELSE OwnTimeout(st.timeout)

\* What is on its way to the driver: in the read buffer, in the socket, at the server.
Pending == Ahead(st) \o srv.out

\* m is a part of the n-th reply, from the place after from.
Run(m, n, from) ==
  from + Len(m) <= HeaderLength + BodyLength /\ \A i \in 1..Len(m) : m[i] = <<n, from + i>>

\* p is the beginning of the n-th request.
Asks(p, n) == Len(p) <= RequestLength /\ \A i \in 1..Len(p) : p[i] = <<n, i>>

\* What was read and what is on its way are together the beginning of the reply
\* to this request, or of its body; while the request is still on its way to the
\* server, they are nothing.  Between two exchanges nothing is on its way.
AnswerInv ==
  /\ sound /\ pc = "idle" /\ call.answer # <<>> => call.answer = Body(call.n)
  /\ sound /\ pc = "idle" /\ listed = "live" => Pending = <<>> /\ srv.in = <<>>
  /\ pc \in {"header", "gotheader"} =>
       /\ Run(call.got \o Pending, call.n, 0)
       /\ srv.in # <<>> => call.got \o Pending = <<>> /\ Asks(srv.in, call.n)
  /\ pc \in {"body", "gotbody"} => Run(call.got \o Pending, call.n, HeaderLength) /\ srv.in = <<>>

Inv == TypeInv /\ ExchangeInv /\ TimeInv /\ AnswerInv

LEMMA Lengths ==
  /\ RequestLength \in Nat \ {0} /\ HeaderLength \in Nat \ {0} /\ BodyLength \in Nat \ {0}
  /\ ReadMax \in Nat \ {0} /\ ChunkSize \in Nat \ {0} /\ MaxRequests \in Nat
  /\ DefaultTimeout \in Nat
BY TransportAssumption

LEMMA Timeouts ==
  ASSUME TypeInv
  PROVE  /\ RevertTimeout \in Int /\ CallTimeout \in Int /\ Effective(CallTimeout) \in Int
         /\ opts.socket \in Int /\ Effective(opts.socket) \in Int
         /\ OwnTimeout(RevertTimeout)
<1>1. opts.connect \in Int /\ opts.socket \in Int /\ DefaultTimeout \in Int
  BY Lengths DEF TypeInv
<1>2. \A t \in Int : Effective(t) \in Int
  BY DEF Effective
<1>3. CallTimeout \in Int
  BY <1>1 DEF CallTimeout
<1> QED
  BY <1>1, <1>2, <1>3 DEF RevertTimeout, OwnTimeout, HardTimeout

\* Setting the timeout changes nothing else that counts.
LEMMA TimeoutSet ==
  ASSUME NEW s, StreamOK(s), NEW t \in Int
  PROVE  LET u == SetReadTimeout(s, t)
         IN StreamOK(u) /\ u.timeout = t /\ Ahead(u) = Ahead(s)
<1> DEFINE u == SetReadTimeout(s, t)
<1>1. s \in Streams /\ s.readpos <= Len(s.buf) /\ Len(s.buf) <= s.cap
  BY DEF StreamOK
<1>2. u \in Streams /\ u.buf = s.buf /\ u.readpos = s.readpos /\ u.cap = s.cap /\ u.rx = s.rx
      /\ u.timeout = t
  BY <1>1 DEF SetReadTimeout, Streams
<1> HIDE DEF u
<1>3. StreamOK(u) /\ Ahead(u) = Ahead(s)
  BY <1>1, <1>2 DEF StreamOK, Ahead, Unread
<1> QED
  BY <1>2, <1>3 DEF u

LEMMA NewStream ==
  StreamOK(SocketFactory) /\ Ahead(SocketFactory) = <<>>
    /\ SocketFactory.timeout = DefaultTimeout
<1>1. <<>> \in Seq(Units) /\ DefaultTimeout \in Int
  BY Lengths
<1>2. SocketFactory \in Streams /\ SocketFactory.buf = <<>> /\ SocketFactory.readpos = 0
      /\ SocketFactory.cap = 0 /\ SocketFactory.rx = <<>> /\ SocketFactory.timeout = DefaultTimeout
  BY <1>1 DEF SocketFactory, Streams
<1>3. Len(<<>>) = 0
  OBVIOUS
<1>4. StreamOK(SocketFactory)
  BY <1>2, <1>3 DEF StreamOK
<1>5. Unread(SocketFactory) = <<>>
  BY <1>2 DEF Unread
<1> QED
  BY <1>2, <1>4, <1>5 DEF Ahead

LEMMA PendingOK ==
  ASSUME TypeInv
  PROVE  /\ Ahead(st) \in Seq(Units) /\ srv.out \in Seq(Units) /\ srv.in \in Seq(Units)
         /\ Pending \in Seq(Units)
         /\ call.got \in Seq(Units) /\ call.got \o Pending \in Seq(Units)
<1>1. Ahead(st) \in Seq(Units)
  BY UnreadOK DEF TypeInv
<1>2. srv.out \in Seq(Units) /\ srv.in \in Seq(Units) /\ call.got \in Seq(Units)
  BY DEF TypeInv, Servers, Calls
<1> QED
  BY <1>1, <1>2 DEF Pending

LEMMA InitInv == Init => Inv
<1> SUFFICES ASSUME Init PROVE Inv
  OBVIOUS
<1>1. /\ opts \in [connect : ConnectTimeouts, socket : SocketTimeouts, ssl : Ssl]
      /\ st = SocketFactory /\ listed = "none" /\ con = "none" /\ pc = "idle"
      /\ call = NoCall /\ srv = Fresh
  BY DEF Init
<1>2. opts \in [connect : Int, socket : Int, ssl : BOOLEAN]
  BY <1>1, TransportAssumption
<1>3. NoCall \in Calls /\ Fresh \in Servers /\ NoCall.got = <<>> /\ NoCall.want = 0
      /\ NoCall.answer = <<>>
  BY Lengths DEF NoCall, Calls, Fresh, Servers
<1>4. TypeInv
  BY <1>1, <1>2, <1>3, NewStream DEF TypeInv
<1>5. ExchangeInv
  BY <1>1, <1>3 DEF ExchangeInv
<1> QED
  BY <1>1, <1>3, <1>4, <1>5 DEF Inv, TimeInv, AnswerInv
-----------------------------------------------------------------------------
(* Connecting and closing *)

LEMMA ConnectInv ==
  ASSUME Inv, Next, Connect PROVE Inv'
<1>1. /\ con = "none" /\ pc = "idle" /\ UNCHANGED <<opts, pc, call, sound>> /\ sound
      /\ TypeInv /\ ExchangeInv /\ TimeInv /\ AnswerInv
  BY DEF Connect, Next, Inv
<1>2. Fresh \in Servers /\ Fresh.in = <<>> /\ Fresh.out = <<>>
  BY DEF Fresh, Servers
<1>3. CASE listed' \in {"none", "freed"} /\ srv' = Fresh /\ UNCHANGED <<st, con>>
  BY <1>1, <1>2, <1>3 DEF Inv, TypeInv, ExchangeInv, TimeInv, AnswerInv
<1>4. CASE /\ listed' = "live" /\ con' = "new"
           /\ LET s == IF XportReuses THEN st ELSE SocketFactory
              IN st' = IF opts.socket = 0 THEN s ELSE SetReadTimeout(s, Effective(opts.socket))
           /\ srv' = IF XportReuses THEN srv ELSE Fresh
  <2> DEFINE s == IF XportReuses THEN st ELSE SocketFactory
  <2>1. StreamOK(s) /\ (opts.socket = 0 => OwnTimeout(s.timeout)) /\ Ahead(s) \o srv'.out = <<>>
        /\ srv'.in = <<>> /\ srv' \in Servers
    <3>1. CASE XportReuses
      <4>1. listed = "live"
        BY <3>1 DEF XportReuses
      <4>2. OwnTimeout(st.timeout)
        BY <1>1, <4>1 DEF TimeInv
      <4>3. Pending = <<>> /\ srv.in = <<>>
        BY <1>1, <4>1 DEF AnswerInv
      <4> QED
        BY <1>1, <1>4, <3>1, <4>2, <4>3 DEF TypeInv, Pending
    <3>2. CASE ~XportReuses
      <4>1. <<>> \o <<>> = <<>>
        OBVIOUS
      <4> QED
        BY <1>2, <1>4, <3>2, <4>1, NewStream DEF OwnTimeout
    <3> QED
      BY <3>1, <3>2
  <2>2. st' = IF opts.socket = 0 THEN s ELSE SetReadTimeout(s, Effective(opts.socket))
    BY <1>4
  <2> HIDE DEF s
  <2>3. StreamOK(st') /\ OwnTimeout(st'.timeout) /\ Ahead(st') = Ahead(s)
    <3>1. CASE opts.socket = 0
      BY <2>1, <2>2, <3>1
    <3>2. CASE opts.socket # 0
      BY <1>1, <2>1, <2>2, <3>2, TimeoutSet, Timeouts DEF OwnTimeout
    <3> QED
      BY <3>1, <3>2
  <2>4. TypeInv'
    BY <1>1, <1>4, <2>1, <2>3 DEF TypeInv, StreamOK
  <2>5. Pending' = <<>>
    BY <2>1, <2>3 DEF Pending, Ahead, Unread
  <2>6. ExchangeInv' /\ TimeInv'
    BY <1>1, <1>4, <2>3 DEF ExchangeInv, TimeInv, OwnTimeout, Asked, CallTimeout
  <2>7. AnswerInv'
    BY <1>1, <2>1, <2>5 DEF AnswerInv
  <2> QED
    BY <2>4, <2>6, <2>7 DEF Inv
<1> QED
  BY <1>3, <1>4 DEF Connect

LEMMA CloseBrokenInv ==
  ASSUME Inv, CloseBroken PROVE Inv'
<1>1. /\ listed' = "none" /\ con' = "none" /\ pc' = "idle" /\ call' = NoCall /\ srv' = Fresh
      /\ st' = SocketFactory /\ UNCHANGED opts /\ TypeInv
  BY DEF CloseBroken, Inv
<1>2. NoCall \in Calls /\ Fresh \in Servers /\ NoCall.got = <<>> /\ NoCall.want = 0
      /\ NoCall.answer = <<>>
  BY Lengths DEF NoCall, Calls, Fresh, Servers
<1>3. StreamOK(st)'
  BY <1>1, NewStream DEF StreamOK
<1>4. TypeInv'
  BY <1>1, <1>2, <1>3 DEF TypeInv
<1>5. ExchangeInv'
  BY <1>1, <1>2 DEF ExchangeInv
<1> QED
  BY <1>1, <1>2, <1>4, <1>5 DEF Inv, TimeInv, AnswerInv

LEMMA ConnectionInv ==
  ASSUME Inv, CloseShutdown \/ Connected PROVE Inv'
<1>1. /\ pc = "idle" /\ con # "none" /\ con' \in {"none", "connected"}
      /\ UNCHANGED <<opts, st, listed, pc, call, srv, sound>>
      /\ TypeInv /\ ExchangeInv /\ TimeInv /\ AnswerInv
  BY DEF CloseShutdown, Connected, Inv
<1>2. TypeInv' /\ ExchangeInv'
  BY <1>1 DEF TypeInv, ExchangeInv, StreamOK
<1>3. TimeInv' /\ AnswerInv'
  BY <1>1 DEF TimeInv, AnswerInv, Pending, Ahead, Unread, OwnTimeout, Asked, CallTimeout
<1> QED
  BY <1>2, <1>3 DEF Inv
-----------------------------------------------------------------------------
(* The server and the network *)

\* The beginning of a part of a reply is one, and so is what is behind it.
LEMMA RunSplit ==
  ASSUME NEW a \in Seq(Units), NEW b \in Seq(Units), NEW n, NEW from \in Nat,
         Run(a \o b, n, from)
  PROVE  Run(a, n, from) /\ Run(b, n, from + Len(a))
<1>1. /\ Len(a \o b) = Len(a) + Len(b) /\ Len(a) \in Nat /\ Len(b) \in Nat
      /\ \A i \in 1..Len(a) : (a \o b)[i] = a[i] /\ i \in 1..Len(a \o b)
      /\ \A i \in 1..Len(b) : (a \o b)[Len(a) + i] = b[i] /\ Len(a) + i \in 1..Len(a \o b)
  OBVIOUS
<1>2. /\ from + Len(a \o b) <= HeaderLength + BodyLength
      /\ \A i \in 1..Len(a \o b) : (a \o b)[i] = <<n, from + i>>
  BY DEF Run
<1>3. HeaderLength + BodyLength \in Nat
  BY Lengths
<1>4. Run(a, n, from)
  BY <1>1, <1>2, <1>3 DEF Run
<1>5. \A i \in 1..Len(b) : b[i] = <<n, from + Len(a) + i>>
  <2> TAKE i \in 1..Len(b)
  <2>1. (a \o b)[Len(a) + i] = <<n, from + (Len(a) + i)>>
    BY <1>1, <1>2
  <2>2. from + (Len(a) + i) = from + Len(a) + i
    BY <1>1
  <2> QED
    BY <1>1, <2>1, <2>2
<1>6. from + Len(a) + Len(b) <= HeaderLength + BodyLength
  BY <1>1, <1>2, <1>3
<1> QED
  BY <1>4, <1>5, <1>6 DEF Run

LEMMA EmptySum ==
  ASSUME NEW X, NEW a \in Seq(X), NEW b \in Seq(X), a \o b = <<>>
  PROVE  a = <<>> /\ b = <<>>
OBVIOUS

LEMMA DeliverInv ==
  ASSUME Inv, Deliver PROVE Inv'
<1> DEFINE rx == Append(st.rx, Head(srv.out))
           out == Tail(srv.out)
<1>1. /\ con # "none" /\ srv.out # <<>> /\ st' = [st EXCEPT !.rx = rx]
      /\ srv' = [srv EXCEPT !.out = out]
      /\ UNCHANGED <<opts, listed, con, pc, call, connects, sound>>
      /\ TypeInv /\ ExchangeInv /\ TimeInv /\ AnswerInv
  BY DEF Deliver, Inv
<1>2. /\ st \in Streams /\ st.rx \in Seq(Units) /\ srv.out \in Seq(Units) /\ srv \in Servers
      /\ Unread(st) \in Seq(Units) /\ st.readpos <= Len(st.buf) /\ Len(st.buf) <= st.cap
  <2>1. StreamOK(st) /\ srv \in Servers
    BY <1>1 DEF TypeInv
  <2>2. st \in Streams /\ st.rx \in Seq(Units) /\ Unread(st) \in Seq(Units)
    BY <2>1, StreamFields, UnreadOK
  <2>3. st.readpos <= Len(st.buf) /\ Len(st.buf) <= st.cap
    BY <2>1 DEF StreamOK
  <2>4. srv.out \in Seq(Units)
    BY <2>1 DEF Servers
  <2> QED
    BY <2>1, <2>2, <2>3, <2>4
<1>3. rx \in Seq(Units) /\ out \in Seq(Units) /\ rx \o out = st.rx \o srv.out
  <2>1. st.rx \in Seq(Units) /\ srv.out \in Seq(Units) /\ srv.out # <<>>
    BY <1>1, <1>2
  <2> QED
    BY <2>1, HeadMoved, Zenon
<1> HIDE DEF rx, out
<1>4. /\ st' \in Streams /\ st'.rx = rx /\ st'.buf = st.buf /\ st'.readpos = st.readpos
      /\ st'.cap = st.cap /\ st'.timeout = st.timeout
  BY <1>1, <1>2, <1>3 DEF Streams
<1>5. srv' \in Servers /\ srv'.in = srv.in /\ srv'.out = out
  BY <1>1, <1>2, <1>3 DEF Servers
<1>6. TypeInv'
  BY <1>1, <1>2, <1>4, <1>5 DEF TypeInv, StreamOK
<1>7. Pending' = Pending
  <2>1. Pending' = (Unread(st) \o rx) \o out
    BY <1>4, <1>5 DEF Pending, Ahead, Unread
  <2>2. /\ (Unread(st) \o rx) \o out = Unread(st) \o (rx \o out)
        /\ (Unread(st) \o st.rx) \o srv.out = Unread(st) \o (st.rx \o srv.out)
    BY <1>2, <1>3, UnitsAssoc
  <2> QED
    BY <1>3, <2>1, <2>2 DEF Pending, Ahead
<1>8. ExchangeInv' /\ TimeInv'
  BY <1>1, <1>4 DEF ExchangeInv, TimeInv, OwnTimeout, Asked, CallTimeout
<1>9. AnswerInv'
  BY <1>1, <1>5, <1>7 DEF AnswerInv
<1> QED
  BY <1>6, <1>8, <1>9 DEF Inv

LEMMA HungUp ==
  ASSUME TypeInv, st' = [st EXCEPT !.hungup = TRUE]
  PROVE  StreamOK(st)' /\ Ahead(st') = Ahead(st) /\ st'.timeout = st.timeout
<1>1. st \in Streams /\ st.readpos <= Len(st.buf) /\ Len(st.buf) <= st.cap
  BY DEF TypeInv, StreamOK
<1>2. /\ st' \in Streams /\ st'.rx = st.rx /\ st'.buf = st.buf /\ st'.readpos = st.readpos
      /\ st'.cap = st.cap /\ st'.timeout = st.timeout
  BY <1>1 DEF Streams
<1> QED
  BY <1>1, <1>2 DEF StreamOK, Ahead, Unread

\* Nothing more than what has arrived will come.
LEMMA LostInv ==
  ASSUME Inv, st' = [st EXCEPT !.hungup = TRUE], srv' = Fresh,
         UNCHANGED <<opts, listed, con, pc, call, connects, sound>>
  PROVE  Inv'
<1>1. TypeInv /\ ExchangeInv /\ TimeInv /\ AnswerInv
  BY DEF Inv
<1>2. StreamOK(st)' /\ Ahead(st') = Ahead(st) /\ st'.timeout = st.timeout
  BY <1>1, HungUp
<1>3. Fresh \in Servers /\ Fresh.in = <<>> /\ Fresh.out = <<>>
  BY DEF Fresh, Servers
<1>4. TypeInv'
  BY <1>1, <1>2, <1>3 DEF TypeInv
<1>5. ExchangeInv' /\ TimeInv'
  BY <1>1, <1>2 DEF ExchangeInv, TimeInv, OwnTimeout, Asked, CallTimeout
<1>6. /\ Ahead(st) \in Seq(Units) /\ srv.out \in Seq(Units)
      /\ call.got \in Seq(Units) /\ Pending = Ahead(st) \o srv.out
  BY <1>1, PendingOK DEF Pending
<1>7. Pending' = Ahead(st)
  <2>1. Pending' = Ahead(st') \o <<>>
    BY <1>3 DEF Pending, Ahead, Unread
  <2> QED
    BY <1>2, <1>6, <2>1, ConcatEmpty
<1>8. \A n, from : from \in Nat /\ Run(call.got \o Pending, n, from)
                     => Run(call.got \o Ahead(st), n, from)
  <2> SUFFICES ASSUME NEW n, NEW from \in Nat, Run(call.got \o Pending, n, from)
               PROVE  Run(call.got \o Ahead(st), n, from)
    OBVIOUS
  <2>1. (call.got \o Ahead(st)) \o srv.out = call.got \o Pending
    BY <1>6, UnitsAssoc
  <2>2. call.got \o Ahead(st) \in Seq(Units)
    BY <1>6
  <2> QED
    BY <1>6, <2>1, <2>2, RunSplit
<1>9. Pending = <<>> => Ahead(st) = <<>>
  BY <1>6, EmptySum
<1>10. AnswerInv'
  <2>1. /\ sound' = sound /\ pc' = pc /\ call' = call /\ listed' = listed
    OBVIOUS
  <2>2. sound /\ pc = "idle" /\ listed = "live" => Pending' = <<>>
    BY <1>1, <1>7, <1>9 DEF AnswerInv
  <2>3. pc \in {"header", "gotheader"} => Run(call.got \o Pending', call.n, 0)
    BY <1>1, <1>7, <1>8 DEF AnswerInv
  <2>4. pc \in {"body", "gotbody"} => Run(call.got \o Pending', call.n, HeaderLength)
    BY <1>1, <1>7, <1>8, Lengths DEF AnswerInv
  <2>5. srv'.in = <<>>
    BY <1>3
  <2> QED
    BY <1>1, <2>1, <2>2, <2>3, <2>4, <2>5 DEF AnswerInv
<1> QED
  BY <1>4, <1>5, <1>10 DEF Inv

\* All there is of a request is the request, and its answer is the reply to it.
LEMMA Served ==
  ASSUME NEW p \in Seq(Units), NEW n \in Nat, Asks(p, n), Len(p) >= RequestLength,
         NEW m \in Nat, SubSeq(p, 1, RequestLength) = Request(m)
  PROVE  n = m /\ SubSeq(p, RequestLength + 1, Len(p)) = <<>>
<1>1. Len(p) \in Nat /\ RequestLength \in Nat \ {0} /\ Len(p) = RequestLength
  <2>1. Len(p) <= RequestLength
    BY DEF Asks
  <2> QED
    BY <2>1, Lengths
<1>2. p[1] = <<n, 1>> /\ Request(m)[1] = <<m, 1>> /\ SubSeq(p, 1, RequestLength)[1] = p[1]
  <2>1. 1 \in 1..Len(p) /\ 1 \in 1..RequestLength
    BY <1>1
  <2>2. p[1] = <<n, 1>>
    BY <2>1 DEF Asks
  <2>3. Request(m)[1] = <<m, 1>>
    BY <2>1 DEF Request
  <2>4. SubSeq(p, 1, RequestLength)[1] = p[1]
    BY <1>1
  <2> QED
    BY <2>2, <2>3, <2>4
<1>3. SubSeq(p, RequestLength + 1, Len(p)) = <<>>
  <2>1. SubSeq(p, Len(p) + 1, Len(p)) = <<>>
    OBVIOUS
  <2> QED
    BY <1>1, <2>1
<1>4. <<n, 1>> = <<m, 1>>
  BY <1>2
<1>5. n = m
  BY <1>4
<1> QED
  BY <1>3, <1>5

LEMMA ReplyRun ==
  ASSUME NEW n \in Nat
  PROVE  Reply(n) \in Seq(Units) /\ Run(Reply(n), n, 0)
<1> DEFINE l == HeaderLength + BodyLength
<1>1. l \in Nat
  BY Lengths
<1>2. Reply(n) = [k \in 1..l |-> <<n, k>>]
  BY DEF Reply
<1> HIDE DEF l
<1>3. \A k \in 1..l : <<n, k>> \in Units
  BY <1>1 DEF Units
<1>4. Reply(n) \in Seq(Units) /\ Len(Reply(n)) = l /\ \A i \in 1..l : Reply(n)[i] = <<n, i>>
  BY <1>1, <1>2, <1>3
<1>5. 0 + l <= l /\ \A i \in 1..l : 0 + i = i
  BY <1>1
<1> QED
  BY <1>4, <1>5 DEF Run, l

LEMMA ServeInv ==
  ASSUME Inv, Next, Serve PROVE Inv'
<1>1. /\ con # "none" /\ Len(srv.in) >= RequestLength /\ sound
      /\ UNCHANGED <<opts, listed, con, pc, call, connects, sound>>
      /\ TypeInv /\ ExchangeInv /\ TimeInv /\ AnswerInv
  BY DEF Serve, Inv, Next
<1>2. /\ srv.in \in Seq(Units) /\ srv.out \in Seq(Units) /\ Ahead(st) \in Seq(Units)
      /\ Pending \in Seq(Units) /\ call.got \in Seq(Units)
  BY <1>1, PendingOK
<1>3. Len(srv.in) \in Nat /\ srv.in # <<>> /\ listed = "live"
  BY <1>1, <1>2, Lengths DEF ExchangeInv
<1>4. pc \in {"header", "gotheader", "failed"}
  BY <1>1, <1>3 DEF TypeInv, AnswerInv
<1>5. PICK m \in 1..MaxRequests :
        \/ /\ SubSeq(srv.in, 1, RequestLength) = Request(m) /\ UNCHANGED st
           /\ srv' = [in |-> SubSeq(srv.in, RequestLength + 1, Len(srv.in)),
                      out |-> srv.out \o Reply(m)]
        \/ /\ \A k \in 1..MaxRequests : SubSeq(srv.in, 1, RequestLength) # Request(k)
           /\ srv' = Fresh /\ st' = [st EXCEPT !.hungup = TRUE]
  BY DEF Serve
<1>6. CASE srv' = Fresh /\ st' = [st EXCEPT !.hungup = TRUE]
  BY <1>1, <1>6, LostInv
<1>7. CASE /\ SubSeq(srv.in, 1, RequestLength) = Request(m) /\ UNCHANGED st
           /\ srv' = [in |-> SubSeq(srv.in, RequestLength + 1, Len(srv.in)),
                      out |-> srv.out \o Reply(m)]
  <2>1. m \in Nat /\ Reply(m) \in Seq(Units) /\ Run(Reply(m), m, 0)
    BY ReplyRun
  <2>2. /\ srv'.in = SubSeq(srv.in, RequestLength + 1, Len(srv.in))
        /\ srv'.out = srv.out \o Reply(m)
    BY <1>7
  <2>3. srv' \in Servers
    <3>1. SubSeq(srv.in, RequestLength + 1, Len(srv.in)) \in Seq(Units)
      BY <1>1, <1>2, Lengths
    <3>2. srv.out \o Reply(m) \in Seq(Units)
      BY <1>2, <2>1
    <3> QED
      BY <1>7, <3>1, <3>2 DEF Servers
  <2>4. TypeInv'
    BY <1>1, <1>7, <2>3 DEF TypeInv, StreamOK
  <2>5. ExchangeInv' /\ TimeInv'
    BY <1>1, <1>7 DEF ExchangeInv, TimeInv, OwnTimeout, Asked, CallTimeout
  <2>6. CASE pc = "failed"
    <3>1. AnswerInv'
      BY <1>1, <2>6 DEF AnswerInv
    <3> QED
      BY <2>4, <2>5, <3>1 DEF Inv
  <2>7. CASE pc \in {"header", "gotheader"}
    <3>1. call.got \o Pending = <<>> /\ Asks(srv.in, call.n) /\ call.n \in Nat
      BY <1>1, <1>3, <2>7 DEF AnswerInv, TypeInv, Calls
    <3>2. call.got = <<>> /\ Ahead(st) = <<>> /\ srv.out = <<>>
      BY <1>2, <3>1, EmptySum DEF Pending
    <3>3. call.n = m /\ srv'.in = <<>>
      BY <1>1, <1>2, <1>7, <2>1, <2>2, <3>1, Served
    <3>4. call.got \o Pending' = Reply(m)
      <4>1. Pending' = Ahead(st) \o srv'.out
        BY <1>7 DEF Pending, Ahead, Unread
      <4>2. srv'.out = Reply(m)
        BY <2>1, <2>2, <3>2, ConcatEmpty
      <4>3. Pending' = Reply(m)
        BY <2>1, <3>2, <4>1, <4>2, ConcatEmpty
      <4> QED
        BY <2>1, <3>2, <4>3, ConcatEmpty
    <3>5. AnswerInv'
      BY <1>1, <2>1, <2>7, <3>3, <3>4 DEF AnswerInv
    <3> QED
      BY <2>4, <2>5, <3>5 DEF Inv
  <2> QED
    BY <1>4, <2>6, <2>7
<1> QED
  BY <1>5, <1>6, <1>7

LEMMA HangUpInv ==
  ASSUME Inv, HangUp PROVE Inv'
BY LostInv DEF HangUp
-----------------------------------------------------------------------------
(* An exchange *)

\* A read begins with its caller's timeout, and knows when that is not the stream's.
LEMMA ReadBegun ==
  ASSUME TypeInv, NEW s, StreamOK(s), NEW want \in Nat, OwnTimeout(s.timeout)
  PROVE  LET b == BeginRead(s, want)
         IN /\ StreamOK(b.s) /\ Ahead(b.s) = Ahead(s)
            /\ Asked(b.s.timeout) /\ (OwnTimeout(b.s.timeout) \/ b.call.revert)
            /\ b.call \in Calls /\ b.call.got = <<>> /\ b.call.want = want /\ b.call.n = call.n
<1> DEFINE other == CallTimeout # 0 /\ Effective(CallTimeout) # RevertTimeout
           u == IF other THEN SetReadTimeout(s, Effective(CallTimeout)) ELSE s
           c == [call EXCEPT !.got = <<>>, !.want = want, !.revert = other]
           b == BeginRead(s, want)
<1>1. b = [s |-> u, call |-> c]
  BY DEF BeginRead
<1>2. other \in BOOLEAN
  OBVIOUS
<1>3. StreamOK(u) /\ Ahead(u) = Ahead(s) /\ Asked(u.timeout) /\ (OwnTimeout(u.timeout) \/ other)
  <2>1. CASE other
    BY <2>1, Timeouts, TimeoutSet DEF Asked
  <2>2. CASE ~other
    <3>1. u = s
      BY <2>2
    <3>2. CASE CallTimeout # 0 /\ opts.socket # 0
      BY <2>2, <3>1, <3>2 DEF Asked, OwnTimeout, RevertTimeout
    <3>3. CASE CallTimeout # 0 /\ opts.socket = 0
      <4>1. Effective(CallTimeout) = 60000 /\ CallTimeout \in Int
        BY <2>2, <3>3, Timeouts DEF RevertTimeout, HardTimeout
      <4>2. CallTimeout = 60000
        BY <4>1 DEF Effective
      <4> QED
        BY <3>1, <3>3, <4>2 DEF Asked, HardTimeout
    <3>4. CASE CallTimeout = 0
      BY <3>1, <3>4 DEF Asked
    <3> QED
      BY <3>1, <3>2, <3>3, <3>4
  <2> QED
    BY <2>1, <2>2
<1>4. call \in Calls /\ <<>> \in Seq(Units)
  BY DEF TypeInv
<1> HIDE DEF other
<1>5. c \in Calls /\ c.got = <<>> /\ c.want = want /\ c.n = call.n /\ c.revert = other
  BY <1>2, <1>4 DEF Calls
<1> HIDE DEF u, c, b
<1>6. b.s = u /\ b.call = c
  BY <1>1
<1> QED
  BY <1>3, <1>5, <1>6 DEF b

LEMMA SendInv ==
  ASSUME Inv, Next, Send PROVE Inv'
<1> DEFINE s == [st EXCEPT !.timeout_event = FALSE]
           b == BeginRead(s, HeaderLength)
<1>1. /\ pc = "idle" /\ con # "none" /\ call.n < MaxRequests /\ sound
      /\ st' = b.s /\ call' = [b.call EXCEPT !.n = @ + 1, !.answer = <<>>]
      /\ pc' = "header" /\ UNCHANGED <<opts, listed, con>>
      /\ TypeInv /\ ExchangeInv /\ TimeInv /\ AnswerInv
  BY DEF Send, Inv, Next
<1>2. PICK k \in 0..RequestLength :
        srv' = IF st.hungup THEN srv
               ELSE [srv EXCEPT !.in = @ \o SubSeq(Request(call.n + 1), 1, k)]
  BY DEF Send
<1>3. listed = "live" /\ OwnTimeout(st.timeout) /\ Pending = <<>> /\ srv.in = <<>>
  BY <1>1 DEF ExchangeInv, TimeInv, AnswerInv
<1>4. srv \in Servers /\ StreamOK(st) /\ call \in Calls /\ call.n \in Nat
      /\ Ahead(st) \in Seq(Units) /\ srv.out \in Seq(Units)
  BY <1>1, PendingOK DEF TypeInv, Calls
<1>5. StreamOK(s) /\ Ahead(s) = Ahead(st) /\ OwnTimeout(s.timeout)
  <2>1. st \in Streams /\ st.readpos <= Len(st.buf) /\ Len(st.buf) <= st.cap
    BY <1>4 DEF StreamOK
  <2>2. /\ s \in Streams /\ s.buf = st.buf /\ s.readpos = st.readpos /\ s.cap = st.cap
        /\ s.rx = st.rx /\ s.timeout = st.timeout
    BY <2>1 DEF Streams
  <2> HIDE DEF s
  <2> QED
    BY <1>3, <2>1, <2>2 DEF StreamOK, Ahead, Unread
<1> HIDE DEF s
<1>6. /\ StreamOK(b.s) /\ Ahead(b.s) = Ahead(s)
      /\ Asked(b.s.timeout) /\ (OwnTimeout(b.s.timeout) \/ b.call.revert)
      /\ b.call \in Calls /\ b.call.got = <<>> /\ b.call.want = HeaderLength
      /\ b.call.n = call.n
  <2>1. TypeInv /\ HeaderLength \in Nat
    BY <1>1, Lengths
  <2> QED
    BY <1>5, <2>1, ReadBegun, Zenon
<1> HIDE DEF b
<1>7. /\ call' \in Calls /\ call'.got = <<>> /\ call'.want = HeaderLength
      /\ call'.revert = b.call.revert /\ call'.n = call.n + 1
  <2>1. call.n + 1 \in 0..MaxRequests /\ <<>> \in Seq(Units)
    BY <1>1, <1>4, Lengths
  <2> QED
    BY <1>1, <1>6, <2>1 DEF Calls
<1>8. /\ srv' \in Servers /\ srv'.out = srv.out
      /\ srv'.in # <<>> => Asks(srv'.in, call.n + 1)
  <2>1. CASE st.hungup
    BY <1>2, <1>3, <1>4, <2>1
  <2>2. CASE ~st.hungup
    <3> DEFINE q == SubSeq(Request(call.n + 1), 1, k)
    <3>1. /\ Request(call.n + 1) \in Seq(Units) /\ Len(Request(call.n + 1)) = RequestLength
          /\ \A i \in 1..RequestLength : Request(call.n + 1)[i] = <<call.n + 1, i>>
      <4>1. \A i \in 1..RequestLength : <<call.n + 1, i>> \in Units
        BY <1>4, Lengths DEF Units
      <4> QED
        BY <4>1, Lengths DEF Request
    <3>2. q \in Seq(Units) /\ Len(q) = k /\ \A i \in 1..k : q[i] = <<call.n + 1, i>>
      <4> DEFINE r == Request(call.n + 1)
      <4>1. r \in Seq(Units) /\ Len(r) = RequestLength /\ k \in 0..Len(r)
            /\ \A i \in 1..Len(r) : r[i] = <<call.n + 1, i>>
        BY <3>1
      <4> HIDE DEF r
      <4>2. \A i \in 1..k : i \in 1..Len(r) /\ SubSeq(r, 1, k)[i] = r[i]
        BY <4>1
      <4>3. SubSeq(r, 1, k) \in Seq(Units) /\ Len(SubSeq(r, 1, k)) = k
        BY <4>1
      <4> QED
        BY <4>1, <4>2, <4>3 DEF r
    <3> HIDE DEF q
    <3>3. srv' = [srv EXCEPT !.in = q]
      <4>1. srv' = [srv EXCEPT !.in = srv.in \o q]
        BY <1>2, <2>2 DEF q
      <4>2. srv.in \o q = q
        BY <1>3, <3>2, ConcatEmpty
      <4> QED
        BY <4>1, <4>2
    <3>4. srv' \in Servers /\ srv'.in = q /\ srv'.out = srv.out
      BY <1>4, <3>2, <3>3 DEF Servers
    <3>5. Asks(q, call.n + 1)
      BY <3>2, Lengths DEF Asks
    <3> QED
      BY <3>4, <3>5
  <2> QED
    BY <2>1, <2>2
<1>9. call'.got \o Pending' = <<>>
  <2>1. Pending' = Ahead(st) \o srv.out
    BY <1>1, <1>5, <1>6, <1>8 DEF Pending, Ahead, Unread
  <2>2. <<>> \o <<>> = <<>>
    OBVIOUS
  <2> QED
    BY <1>3, <1>7, <2>1, <2>2 DEF Pending
<1>10. TypeInv'
  BY <1>1, <1>6, <1>7, <1>8 DEF TypeInv, StreamOK
<1>11. ExchangeInv'
  <2>1. Len(call'.got) = 0 /\ call'.n # 0 /\ HeaderLength > 0 /\ HeaderLength \in Nat
    BY <1>4, <1>7, Lengths
  <2> QED
    BY <1>1, <1>3, <1>7, <2>1 DEF ExchangeInv
<1>12. TimeInv'
  BY <1>1, <1>6, <1>7 DEF TimeInv, OwnTimeout, Asked, CallTimeout
<1>13. AnswerInv'
  <2>1. Run(<<>>, call'.n, 0)
    BY Lengths DEF Run
  <2> QED
    BY <1>1, <1>7, <1>8, <1>9, <2>1 DEF AnswerInv
<1> QED
  BY <1>10, <1>11, <1>12, <1>13 DEF Inv

LEMMA ReadStepInv ==
  ASSUME Inv, ReadStep PROVE Inv'
<1> DEFINE r == Read(st, AskFor)
<1>1. /\ pc \in {"header", "body"} /\ UNCHANGED <<opts, listed, con, srv, sound>>
      /\ call' = [call EXCEPT !.got = @ \o r.got]
      /\ IF MoreToRead(r.got) THEN st' = r.s /\ UNCHANGED pc
         ELSE /\ st' = EndRead(r.s)
              /\ pc' = IF pc = "header" THEN "gotheader" ELSE "gotbody"
      /\ TypeInv /\ ExchangeInv /\ TimeInv /\ AnswerInv
  BY DEF ReadStep, Inv
<1>2. /\ call \in Calls /\ call.got \in Seq(Units) /\ call.want \in Nat /\ Len(call.got) \in Nat
      /\ Len(call.got) < call.want /\ call.revert \in BOOLEAN
  <2>1. call \in Calls /\ Len(call.got) < call.want
    BY <1>1 DEF TypeInv, ExchangeInv
  <2>2. call.got \in Seq(Units) /\ call.want \in Nat /\ call.revert \in BOOLEAN
    BY <2>1 DEF Calls
  <2> QED
    BY <2>1, <2>2
<1>3. AskFor \in Nat /\ AskFor <= call.want - Len(call.got)
  BY <1>2, Lengths DEF AskFor
<1>4. /\ StreamOK(st) /\ Ahead(st) \in Seq(Units) /\ srv.out \in Seq(Units) /\ srv \in Servers
      /\ Pending \in Seq(Units)
  BY <1>1, PendingOK DEF TypeInv
<1>5. Took(st, r.s, r.got, AskFor)
  BY <1>3, <1>4, ReadTakes
<1> HIDE DEF r
<1>6. /\ StreamOK(r.s) /\ r.s.timeout = st.timeout /\ r.got \in Seq(Units) /\ Len(r.got) <= AskFor
      /\ Ahead(st) = r.got \o Ahead(r.s) /\ Ahead(r.s) \in Seq(Units)
  BY <1>5, UnreadOK DEF Took
<1>7. /\ call' \in Calls /\ call'.got = call.got \o r.got /\ call'.n = call.n
      /\ call'.want = call.want /\ call'.revert = call.revert /\ call'.answer = call.answer
  <2>1. call.got \o r.got \in Seq(Units)
    BY <1>2, <1>6
  <2> QED
    BY <1>1, <1>2, <2>1 DEF Calls
<1>8. Len(call'.got) = Len(call.got) + Len(r.got) /\ Len(call'.got) <= call'.want
  <2>1. Len(call.got \o r.got) = Len(call.got) + Len(r.got) /\ Len(r.got) \in Nat
    BY <1>2, <1>6
  <2>2. \A a, b, c, d \in Nat : b <= c /\ c <= d - a => a + b <= d
    OBVIOUS
  <2>3. Len(call.got) + Len(r.got) <= call.want
    BY <1>2, <1>3, <1>6, <2>1, <2>2, Zenon
  <2> QED
    BY <1>7, <2>1, <2>3
<1>9. StreamOK(EndRead(r.s)) /\ Ahead(EndRead(r.s)) = Ahead(r.s)
      /\ (OwnTimeout(EndRead(r.s).timeout) \/ (~call.revert /\ EndRead(r.s).timeout = st.timeout))
  <2>1. CASE call.revert
    BY <1>1, <1>6, <2>1, Timeouts, TimeoutSet DEF EndRead
  <2>2. CASE ~call.revert
    BY <1>6, <2>2 DEF EndRead
  <2> QED
    BY <2>1, <2>2
<1>10. StreamOK(st') /\ Ahead(st') = Ahead(r.s)
  BY <1>1, <1>6, <1>9
<1>11. call'.got \o Pending' = call.got \o Pending
  <2>1. Pending' = Ahead(r.s) \o srv.out
    BY <1>1, <1>10 DEF Pending, Ahead, Unread
  <2>2. (call.got \o r.got) \o (Ahead(r.s) \o srv.out)
          = call.got \o (r.got \o (Ahead(r.s) \o srv.out))
    <3>1. Ahead(r.s) \o srv.out \in Seq(Units)
      BY <1>4, <1>6
    <3> QED
      BY <1>2, <1>6, <3>1, UnitsAssoc
  <2>3. r.got \o (Ahead(r.s) \o srv.out) = (r.got \o Ahead(r.s)) \o srv.out
    BY <1>4, <1>6, UnitsAssoc
  <2> QED
    BY <1>6, <1>7, <2>1, <2>2, <2>3 DEF Pending
<1>12. pc' \in {"header", "gotheader", "body", "gotbody"}
       /\ (pc = "header" <=> pc' \in {"header", "gotheader"})
       /\ (pc = "body" <=> pc' \in {"body", "gotbody"})
  BY <1>1
<1>13. TypeInv'
  <2>1. StreamOK(st)'
    BY <1>10 DEF StreamOK
  <2> QED
    BY <1>1, <1>7, <1>12, <2>1 DEF TypeInv
<1>14. ExchangeInv'
  <2>1. pc' \in {"header", "body"} => Len(call'.got) < call'.want
    BY <1>1, <1>7, <1>8 DEF MoreToRead
  <2> QED
    BY <1>1, <1>7, <1>8, <1>12, <2>1 DEF ExchangeInv
<1>15. TimeInv'
  <2>1. /\ OwnTimeout(st.timeout)' <=> OwnTimeout(st'.timeout)
        /\ Asked(st.timeout)' <=> Asked(st'.timeout)
    BY <1>1 DEF OwnTimeout, Asked, CallTimeout
  <2>2. listed = "live" => Asked(st.timeout) /\ (OwnTimeout(st.timeout) \/ call.revert)
    BY <1>1 DEF TimeInv
  <2>3. CASE MoreToRead(r.got)
    <3>1. st'.timeout = st.timeout /\ pc' = pc /\ call'.revert = call.revert /\ listed' = listed
      BY <1>1, <1>6, <1>7, <2>3
    <3> QED
      BY <1>1, <2>1, <2>2, <3>1 DEF TimeInv
  <2>4. CASE ~MoreToRead(r.got)
    <3>1. /\ st' = EndRead(r.s) /\ pc' \in {"gotheader", "gotbody"} /\ listed' = listed
      BY <1>1, <2>4
    <3>2. OwnTimeout(st'.timeout) \/ (~call.revert /\ st'.timeout = st.timeout)
      BY <1>9, <3>1
    <3> QED
      BY <2>1, <2>2, <3>1, <3>2 DEF TimeInv
  <2> QED
    BY <2>3, <2>4
<1>16. AnswerInv'
  BY <1>1, <1>7, <1>11, <1>12 DEF AnswerInv
<1> QED
  BY <1>13, <1>14, <1>15, <1>16 DEF Inv

LEMMA GotHeaderInv ==
  ASSUME Inv, GotHeader PROVE Inv'
<1> DEFINE b == BeginRead(st, BodyLength)
<1>1. /\ pc = "gotheader" /\ UNCHANGED <<opts, listed, con, srv, sound>>
      /\ TypeInv /\ ExchangeInv /\ TimeInv /\ AnswerInv
  BY DEF GotHeader, Inv
<1>2. CASE pc' = "failed" /\ UNCHANGED <<st, call>>
  <2>1. TypeInv'
    BY <1>1, <1>2 DEF TypeInv, StreamOK
  <2>2. ExchangeInv' /\ TimeInv' /\ AnswerInv'
    BY <1>1, <1>2 DEF ExchangeInv, TimeInv, AnswerInv, OwnTimeout, Asked, CallTimeout
  <2> QED
    BY <2>1, <2>2 DEF Inv
<1>3. CASE ~HeaderShort /\ st' = b.s /\ call' = b.call /\ pc' = "body"
  <2>1. /\ call \in Calls /\ call.got \in Seq(Units) /\ Len(call.got) \in Nat
        /\ Pending \in Seq(Units) /\ StreamOK(st) /\ srv \in Servers
        /\ Ahead(st) \in Seq(Units) /\ srv.out \in Seq(Units)
    BY <1>1, PendingOK DEF TypeInv
  <2>2. Len(call.got) = HeaderLength /\ call.got # <<>>
    BY <1>1, <1>3, <2>1, Lengths DEF HeaderShort, ExchangeInv
  <2>3. Run(call.got \o Pending, call.n, 0) /\ srv.in = <<>>
    <3>1. call.got \o Pending # <<>>
      BY <2>1, <2>2, EmptySum
    <3> QED
      BY <1>1, <3>1 DEF AnswerInv
  <2>4. Run(Pending, call.n, HeaderLength)
    <3>1. Run(Pending, call.n, 0 + Len(call.got))
      BY <2>1, <2>3, RunSplit
    <3> QED
      BY <2>2, <3>1, Lengths
  <2>5. listed = "live" /\ OwnTimeout(st.timeout)
    BY <1>1 DEF ExchangeInv, TimeInv
  <2>6. /\ StreamOK(b.s) /\ Ahead(b.s) = Ahead(st)
        /\ Asked(b.s.timeout) /\ (OwnTimeout(b.s.timeout) \/ b.call.revert)
        /\ b.call \in Calls /\ b.call.got = <<>> /\ b.call.want = BodyLength
        /\ b.call.n = call.n
    <3>1. TypeInv /\ BodyLength \in Nat
      BY <1>1, Lengths
    <3> QED
      BY <2>1, <2>5, <3>1, ReadBegun, Zenon
  <2> HIDE DEF b
  <2>7. TypeInv'
    BY <1>1, <1>3, <2>6 DEF TypeInv, StreamOK
  <2>8. ExchangeInv'
    <3>1. Len(<<>>) = 0 /\ BodyLength \in Nat /\ BodyLength > 0
      BY Lengths
    <3> QED
      BY <1>1, <1>3, <2>6, <3>1 DEF ExchangeInv
  <2>9. TimeInv'
    BY <1>1, <1>3, <2>6 DEF TimeInv, OwnTimeout, Asked, CallTimeout
  <2>10. call'.got \o Pending' = Pending
    <3>1. Pending' = Pending
      BY <1>1, <1>3, <2>6 DEF Pending, Ahead, Unread
    <3> QED
      BY <1>3, <2>1, <2>6, <3>1, ConcatEmpty
  <2>11. AnswerInv'
    BY <1>1, <1>3, <2>3, <2>4, <2>6, <2>10 DEF AnswerInv
  <2> QED
    BY <2>7, <2>8, <2>9, <2>11 DEF Inv
<1> QED
  BY <1>2, <1>3 DEF GotHeader

\* All there can be of a body is the body, with nothing behind it.
LEMMA WholeBody ==
  ASSUME NEW a \in Seq(Units), NEW b \in Seq(Units), NEW n \in Nat,
         Run(a \o b, n, HeaderLength), Len(a) = BodyLength
  PROVE  a = Body(n) /\ b = <<>>
<1>1. Run(a, n, HeaderLength) /\ Run(b, n, HeaderLength + Len(a))
  BY RunSplit, Lengths
<1>2. HeaderLength + BodyLength + Len(b) <= HeaderLength + BodyLength /\ Len(b) \in Nat
  BY <1>1 DEF Run
<1>3. b = <<>>
  BY <1>2, Lengths
<1>4. a = [i \in 1..BodyLength |-> a[i]]
  BY Lengths
<1>5. \A i \in 1..BodyLength : a[i] = <<n, HeaderLength + i>>
  BY <1>1 DEF Run
<1> QED
  BY <1>3, <1>4, <1>5 DEF Body

LEMMA GotBodyInv ==
  ASSUME Inv, GotBody PROVE Inv'
<1>1. /\ pc = "gotbody" /\ UNCHANGED <<opts, st, listed, con, srv>>
      /\ TypeInv /\ ExchangeInv /\ TimeInv /\ AnswerInv
  BY DEF GotBody, Inv
<1>2. CASE pc' = "failed" /\ UNCHANGED <<call, sound>>
  <2>1. TypeInv'
    BY <1>1, <1>2 DEF TypeInv, StreamOK
  <2>2. ExchangeInv' /\ TimeInv' /\ AnswerInv'
    BY <1>1, <1>2 DEF ExchangeInv, TimeInv, AnswerInv, OwnTimeout, Asked, CallTimeout
  <2> QED
    BY <2>1, <2>2 DEF Inv
<1>3. CASE /\ call' = [call EXCEPT !.answer = call.got] /\ pc' = "idle"
           /\ sound' = (Len(call.got) = BodyLength)
  <2>1. /\ call \in Calls /\ call.got \in Seq(Units) /\ call.n \in Nat
        /\ Pending \in Seq(Units)
    BY <1>1, PendingOK DEF TypeInv, Calls
  <2>2. /\ call' \in Calls /\ call'.answer = call.got /\ call'.n = call.n
        /\ call'.got = call.got /\ call'.want = call.want
    BY <1>3, <2>1 DEF Calls
  <2>3. TypeInv'
    BY <1>1, <1>3, <2>2 DEF TypeInv, StreamOK
  <2>4. ExchangeInv' /\ TimeInv'
    BY <1>1, <1>3, <2>2 DEF ExchangeInv, TimeInv, OwnTimeout, Asked, CallTimeout
  <2>5. Pending' = Pending
    BY <1>1 DEF Pending, Ahead, Unread
  <2>6. sound' => call.got = Body(call.n) /\ Pending = <<>> /\ srv.in = <<>>
    <3>1. Run(call.got \o Pending, call.n, HeaderLength) /\ srv.in = <<>>
      BY <1>1 DEF AnswerInv
    <3>2. Len(call.got) = BodyLength => call.got = Body(call.n) /\ Pending = <<>>
      BY <2>1, <3>1, WholeBody
    <3> QED
      BY <1>3, <3>1, <3>2
  <2>7. Body(call.n)' = Body(call.n)
    BY <2>2 DEF Body
  <2>8. AnswerInv'
    BY <1>1, <1>3, <2>2, <2>5, <2>6, <2>7 DEF AnswerInv
  <2> QED
    BY <2>3, <2>4, <2>8 DEF Inv
<1> QED
  BY <1>2, <1>3 DEF GotBody
-----------------------------------------------------------------------------
(* The theorems *)

LEMMA StepInv == Inv /\ [Next]_vars => Inv'
<1> SUFFICES ASSUME Inv, [Next]_vars PROVE Inv'
  OBVIOUS
<1>1. CASE Next
  <2>1. CASE Client
    <3>1. CASE Connect
      BY <1>1, <3>1, ConnectInv
    <3>2. CASE CloseBroken
      BY <3>2, CloseBrokenInv
    <3>3. CASE CloseShutdown \/ Connected
      BY <3>3, ConnectionInv
    <3>4. CASE Send
      BY <1>1, <3>4, SendInv
    <3>5. CASE ReadStep
      BY <3>5, ReadStepInv
    <3>6. CASE GotHeader
      BY <3>6, GotHeaderInv
    <3>7. CASE GotBody
      BY <3>7, GotBodyInv
    <3> QED
      BY <2>1, <3>1, <3>2, <3>3, <3>4, <3>5, <3>6, <3>7 DEF Client
  <2>2. CASE Serve
    BY <1>1, <2>2, ServeInv
  <2>3. CASE Deliver
    BY <2>3, DeliverInv
  <2>4. CASE HangUp
    BY <2>4, HangUpInv
  <2> QED
    BY <1>1, <2>1, <2>2, <2>3, <2>4 DEF Next
<1>2. CASE UNCHANGED vars
  <2>1. /\ UNCHANGED <<opts, st, listed, con, pc, call, srv, sound>>
        /\ TypeInv /\ ExchangeInv /\ TimeInv /\ AnswerInv
    BY <1>2 DEF vars, Inv
  <2>2. TypeInv' /\ ExchangeInv'
    BY <2>1 DEF TypeInv, ExchangeInv, StreamOK
  <2>3. TimeInv' /\ AnswerInv'
    BY <2>1 DEF TimeInv, AnswerInv, Pending, Ahead, Unread, OwnTimeout, Asked, CallTimeout
  <2> QED
    BY <2>2, <2>3 DEF Inv
<1> QED
  BY <1>1, <1>2

LEMMA InvAnswer == Inv => AnswerIsMine
<1> SUFFICES ASSUME Inv PROVE AnswerIsMine
  OBVIOUS
<1>1. TypeInv /\ ExchangeInv /\ AnswerInv
  BY DEF Inv
<1>2. /\ StreamOK(st) /\ srv \in Servers /\ Ahead(st) \in Seq(Units) /\ srv.out \in Seq(Units)
      /\ Unread(st) \in Seq(Units) /\ st.rx \in Seq(Units) /\ Avail(st) = Len(Unread(st))
  BY <1>1, PendingOK, UnreadOK, StreamFields DEF TypeInv
<1>3. Pending = <<>> => Avail(st) = 0 /\ st.rx = <<>> /\ srv.out = <<>>
  <2>1. ASSUME Pending = <<>> PROVE Ahead(st) = <<>> /\ srv.out = <<>>
    BY <1>2, <2>1, EmptySum DEF Pending
  <2>2. ASSUME Ahead(st) = <<>> PROVE Unread(st) = <<>> /\ st.rx = <<>>
    BY <1>2, <2>2, EmptySum DEF Ahead
  <2>3. Len(<<>>) = 0
    OBVIOUS
  <2> QED
    BY <1>2, <2>1, <2>2, <2>3
<1>4. srv.in = <<>> /\ srv.out = <<>> => srv = Fresh
  BY <1>2 DEF Servers, Fresh
<1>5. Len(call.got) <= call.want
  BY <1>1 DEF ExchangeInv
<1> QED
  BY <1>1, <1>3, <1>4, <1>5 DEF AnswerInv, AnswerIsMine

LEMMA InvTimeout == Inv => TimeoutRestored
BY DEF Inv, ExchangeInv, TimeInv, Asked, TimeoutRestored

LEMMA AlwaysInv == Spec => []Inv
<1>1. Init => Inv
  BY InitInv
<1>2. Inv /\ [Next]_vars => Inv'
  BY StepInv
<1> QED
  BY <1>1, <1>2, PTL DEF Spec

\* The answer mongo_connect_send_packet hands on is the body of the reply to this
\* very request, and a stream that will be used again has nothing of a reply left,
\* whatever the lengths of the messages, the chunks and reads they come in, the
\* timeouts, and what was lost, late or cut short before.
THEOREM AnswersAreMine == Spec => []AnswerIsMine
BY AlwaysInv, InvAnswer, PTL

\* A read waits for as long as its caller said, and does not leave that timeout on
\* the stream: a given socketTimeoutMS is back after it; where none was given, the
\* stream has what it was opened with or the hard-coded minute.  For any values of
\* the options and of default_socket_timeout, and however the read ended.
THEOREM TimeoutsRestored == Spec => []TimeoutRestored
BY AlwaysInv, InvTimeout, PTL
=============================================================================
