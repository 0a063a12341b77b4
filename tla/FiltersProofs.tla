----------------------------- MODULE FiltersProofs -----------------------------
(***************************************************************************)
(* What a stream with filters delivers and sends, for chains of any        *)
(* length, whatever arrives and is written, and any chunk size.            *)
(***************************************************************************)
EXTENDS Filters, SequenceTheorems, WellFoundedInduction, TLAPS
-----------------------------------------------------------------------------
(* Sequences *)

LEMMA ConcatAssoc ==
  ASSUME NEW X, NEW a \in Seq(X), NEW b \in Seq(X), NEW c \in Seq(X)
  PROVE  (a \o b) \o c = a \o (b \o c)
OBVIOUS

LEMMA ConcatEmpty ==
  ASSUME NEW X, NEW a \in Seq(X)
  PROVE  a \o <<>> = a /\ <<>> \o a = a
OBVIOUS

\* A sequence and what is cut off at its front.
LEMMA Split ==
  ASSUME NEW X, NEW a \in Seq(X), NEW k \in 0..Len(a)
  PROVE  /\ SubSeq(a, 1, k) \in Seq(X) /\ Len(SubSeq(a, 1, k)) = k
         /\ SubSeq(a, k + 1, Len(a)) \in Seq(X)
         /\ SubSeq(a, 1, k) \o SubSeq(a, k + 1, Len(a)) = a
<1>1. 1 \in 1..(k + 1) /\ k \in 0..Len(a) /\ SubSeq(a, 1, Len(a)) = a
  BY SubSeqFull
<1>2. /\ SubSeq(a, 1, k) \in Seq(X) /\ Len(SubSeq(a, 1, k)) = k
      /\ SubSeq(a, k + 1, Len(a)) \in Seq(X)
  OBVIOUS
<1>3. SubSeq(a, 1, k) \o SubSeq(a, k + 1, Len(a)) = SubSeq(a, 1, Len(a))
  <2>1. 1 \in 1..(Len(a) + 1) /\ k \in (1 - 1)..Len(a) /\ Len(a) \in k..Len(a)
    OBVIOUS
  <2> QED
    BY <2>1, ConcatAdjacentSubSeq, Zenon
<1> QED
  BY <1>1, <1>2, <1>3

\* Two cuts are one.
LEMMA CutTwice ==
  ASSUME NEW X, NEW a \in Seq(X), NEW p \in 0..Len(a), NEW k \in 0..(Len(a) - p)
  PROVE  /\ SubSeq(SubSeq(a, p + 1, Len(a)), k + 1, Len(a) - p) = SubSeq(a, p + k + 1, Len(a))
         /\ Len(SubSeq(a, p + 1, Len(a))) = Len(a) - p
OBVIOUS

\* What is behind the front of a sequence.
LEMMA AfterFront ==
  ASSUME NEW X, NEW a \in Seq(X), NEW b \in Seq(X)
  PROVE  SubSeq(a \o b, Len(a) + 1, Len(a \o b)) = b
OBVIOUS

\* What is put behind a sequence is behind the rest of it too.
LEMMA TailOfConcat ==
  ASSUME NEW X, NEW a \in Seq(X), NEW b \in Seq(X), NEW p \in 0..Len(a)
  PROVE  SubSeq(a \o b, p + 1, Len(a \o b)) = SubSeq(a, p + 1, Len(a)) \o b
<1> DEFINE c == SubSeq(a, 1, p)
           d == SubSeq(a, p + 1, Len(a))
<1>1. /\ c \in Seq(X) /\ Len(c) = p /\ d \in Seq(X) /\ c \o d = a
  BY Split
<1> HIDE DEF c, d
<1>2. c \o (d \o b) = a \o b /\ d \o b \in Seq(X)
  <2>1. (c \o d) \o b = c \o (d \o b)
    <3>1. \A x, y, z \in Seq(X) : (x \o y) \o z = x \o (y \o z)
      BY ConcatAssoc
    <3>2. c \in Seq(X) /\ d \in Seq(X)
      BY <1>1
    <3> QED
      BY <3>1, <3>2
  <2>2. d \o b \in Seq(X)
    BY <1>1
  <2> QED
    BY <1>1, <2>1, <2>2
<1>3. SubSeq(c \o (d \o b), Len(c) + 1, Len(c \o (d \o b))) = d \o b
  BY <1>1, <1>2, AfterFront
<1> QED
  BY <1>1, <1>2, <1>3 DEF d

\* Induction over the naturals, for a set.
LEMMA InductionOnNat ==
  ASSUME NEW T, 0 \in T, \A n \in Nat : n \in T => n + 1 \in T
  PROVE  \A n \in Nat : n \in T
<1> SUFFICES ASSUME \E n \in Nat : n \notin T PROVE FALSE
  OBVIOUS
<1> DEFINE R == OpToRel(<, Nat)
           U == {n \in Nat : n \notin T}
<1>1. IsWellFoundedOn(R, Nat)
  BY NatLessThanWellFounded
<1>2. \A x, y \in Nat : x < y => <<x, y>> \in R
  BY DEF OpToRel
<1>3. U \subseteq Nat /\ U # {}
  OBVIOUS
<1> HIDE DEF R, U
<1>4. PICK n \in U : \A m \in U : ~(<<m, n>> \in R)
  BY <1>1, <1>3, WFMin
<1>5. n \in Nat /\ n \notin T /\ n # 0
  BY <1>4 DEF U
<1>6. n - 1 \in Nat /\ n - 1 < n /\ n = (n - 1) + 1
  BY <1>5
<1>7. n - 1 \in T
  BY <1>2, <1>4, <1>5, <1>6 DEF U
<1> QED
  BY <1>5, <1>6, <1>7

LEMMA IsAppend ==
  ASSUME NEW X, NEW q \in Seq(X), NEW a \in Seq(X), NEW x \in X, Len(q) = Len(a) + 1,
         \A k \in 1..Len(a) : a[k] = q[k], q[Len(a) + 1] = x
  PROVE  Append(a, x) = q
<1>1. Append(a, x) \in Seq(X) /\ Len(Append(a, x)) = Len(a) + 1 /\ Len(a) \in Nat
      /\ (\A k \in 1..Len(a) : Append(a, x)[k] = a[k]) /\ Append(a, x)[Len(a) + 1] = x
  BY AppendProperties
<1>2. \A k \in 1..(Len(a) + 1) : Append(a, x)[k] = q[k]
  <2> TAKE k \in 1..(Len(a) + 1)
  <2>1. k \in 1..Len(a) \/ k = Len(a) + 1
    BY <1>1
  <2> QED
    BY <1>1, <2>1
<1> QED
  BY <1>1, <1>2, SeqEqual

\* Induction over sequences, for a set.
LEMMA InductionOnSeq ==
  ASSUME NEW S, NEW T, <<>> \in T, \A q \in Seq(S), x \in S : q \in T => Append(q, x) \in T
  PROVE  \A q \in Seq(S) : q \in T
<1> DEFINE U == {m \in Nat : \A q \in Seq(S) : Len(q) = m => q \in T}
<1>1. 0 \in U
  <2>1. \A q \in Seq(S) : Len(q) = 0 => q = <<>>
    OBVIOUS
  <2> QED
    BY <2>1
<1>2. ASSUME NEW m \in Nat, m \in U PROVE m + 1 \in U
  <2> SUFFICES ASSUME NEW q \in Seq(S), Len(q) = m + 1 PROVE q \in T
    <3>1. m + 1 \in Nat
      OBVIOUS
    <3> QED
      BY <3>1, Zenon
  <2> DEFINE r == SubSeq(q, 1, m)
             x == q[m + 1]
  <2>1. r \in Seq(S) /\ Len(r) = m /\ x \in S /\ \A i \in 1..m : r[i] = q[i]
    OBVIOUS
  <2> HIDE DEF r, x
  <2>2. Append(r, x) = q
    <3>1. q[m + 1] = x
      BY DEF x
    <3> QED
      BY <2>1, <3>1, IsAppend
  <2>3. r \in T
    BY <1>2, <2>1
  <2> QED
    BY <2>1, <2>2, <2>3
<1> HIDE DEF U
<1>3. \A m \in Nat : m \in U
  BY <1>1, <1>2, InductionOnNat
<1> TAKE q \in Seq(S)
<1>4. Len(q) \in U
  BY <1>3
<1> QED
  BY <1>4 DEF U

LEMMA AppendConcat ==
  ASSUME NEW X, NEW a \in Seq(X), NEW b \in Seq(X), NEW x \in X
  PROVE  a \o Append(b, x) = Append(a \o b, x)
<1>1. Append(b, x) = b \o <<x>> /\ Append(a \o b, x) = (a \o b) \o <<x>> /\ <<x>> \in Seq(X)
  OBVIOUS
<1> QED
  BY <1>1, ConcatAssoc

LEMMA LeastIs ==
  ASSUME NEW S, S \subseteq Int, NEW x \in S, \A y \in S : x <= y
  PROVE  Min(S) = x
<1>1. Min(S) \in S /\ \A y \in S : Min(S) <= y
  BY DEF Min
<1>2. Min(S) <= x /\ x <= Min(S) /\ x \in Int /\ Min(S) \in Int
  BY <1>1
<1> QED
  BY <1>2


\* What is computed step by step, G being one step, is there, ...
Steps(g, n, a, G) == g = [k \in 0..n |-> IF k = 0 THEN a ELSE G[<<k, g[k - 1]>>]]

LEMMA StepsExist ==
  ASSUME NEW n \in Nat, NEW a, NEW G
  PROVE  \E g : Steps(g, n, a, G)
<1> DEFINE U == {m \in Nat : \E g : Steps(g, m, a, G)}
<1>1. 0 \in U
  <2>1. Steps([k \in 0..0 |-> a], 0, a, G)
    BY DEF Steps
  <2> QED
    BY <2>1
<1>2. ASSUME NEW m \in Nat, m \in U PROVE m + 1 \in U
  <2>1. PICK g : Steps(g, m, a, G)
    BY <1>2
  <2> DEFINE h == [k \in 0..(m + 1) |-> IF k = 0 THEN a ELSE G[<<k, g[k - 1]>>]]
  <2>2. \A k \in 0..m : g[k] = IF k = 0 THEN a ELSE G[<<k, g[k - 1]>>]
    BY <2>1, Zenon DEF Steps
  <2>3. \A k \in 0..m : h[k] = g[k]
    <3> TAKE k \in 0..m
    <3>1. k \in 0..(m + 1)
      OBVIOUS
    <3> QED
      BY <2>2, <3>1, Zenon
  <2>4. \A k \in 0..(m + 1) : h[k] = IF k = 0 THEN a ELSE G[<<k, h[k - 1]>>]
    <3> TAKE k \in 0..(m + 1)
    <3>1. k # 0 => k - 1 \in 0..m
      OBVIOUS
    <3>2. k # 0 => h[k - 1] = g[k - 1]
      BY <2>3, <3>1
    <3>3. h[k] = IF k = 0 THEN a ELSE G[<<k, g[k - 1]>>]
      BY Zenon
    <3> QED
      BY <3>2, <3>3, Zenon
  <2>5. h = [k \in 0..(m + 1) |-> IF k = 0 THEN a ELSE G[<<k, h[k - 1]>>]]
    <3>1. h = [k \in 0..(m + 1) |-> h[k]]
      OBVIOUS
    <3> HIDE DEF h
    <3> QED
      BY <2>4, <3>1, Zenon
  <2>6. Steps(h, m + 1, a, G)
    BY <2>5 DEF Steps
  <2> QED
    <3>1. m + 1 \in Nat
      OBVIOUS
    <3> HIDE DEF h
    <3> QED
      BY <2>6, <3>1, Zenon
<1> HIDE DEF U
<1>3. n \in U
  BY <1>1, <1>2, InductionOnNat
<1> QED
  BY <1>3 DEF U

\* ... and what every step keeps, it keeps.
LEMMA StepsKeep ==
  ASSUME NEW n \in Nat, NEW T, NEW g, g[0] \in T[0],
         \A k \in 1..n : g[k - 1] \in T[k - 1] => g[k] \in T[k]
  PROVE  \A k \in 0..n : g[k] \in T[k]
<1> DEFINE V == {k \in Nat : k <= n => g[k] \in T[k]}
<1>1. 0 \in V
  OBVIOUS
<1>2. ASSUME NEW k \in Nat, k \in V PROVE k + 1 \in V
  <2> SUFFICES ASSUME k + 1 <= n PROVE g[k + 1] \in T[k + 1]
    OBVIOUS
  <2>1. k + 1 \in 1..n /\ (k + 1) - 1 = k /\ k <= n
    OBVIOUS
  <2>2. g[k] \in T[k]
    BY <1>2, <2>1
  <2> QED
    BY <2>1, <2>2
<1> HIDE DEF V
<1>3. \A k \in Nat : k \in V
  BY <1>1, <1>2, InductionOnNat
<1>4. \A k \in 0..n : k \in Nat /\ k \in V /\ k <= n
  BY <1>3
<1> QED
  BY <1>4 DEF V

\* The two together, for steps that lead from T[k - 1] into T[k].
Leads(G, n, T) == \A k \in 1..n : \A x \in T[k - 1] : G[<<k, x>>] \in T[k]

StepsWithin(g, n, a, G, T) ==
  /\ g = [k \in 0..n |-> g[k]] /\ g[0] = a
  /\ \A k \in 1..n : g[k] = G[<<k, g[k - 1]>>]
  /\ \A k \in 0..n : g[k] \in T[k]

LEMMA StepsIn ==
  ASSUME NEW n \in Nat, NEW a, NEW G, NEW T, a \in T[0], Leads(G, n, T)
  PROVE  \E g : StepsWithin(g, n, a, G, T)
<1>1. PICK g : Steps(g, n, a, G)
  BY StepsExist
<1>2. \A k \in 0..n : g[k] = IF k = 0 THEN a ELSE G[<<k, g[k - 1]>>]
  BY <1>1, Zenon DEF Steps
<1>3. g[0] = a
  <2>1. 0 \in 0..n
    OBVIOUS
  <2> QED
    BY <1>2, <2>1, Zenon
<1>4. \A k \in 1..n : g[k] = G[<<k, g[k - 1]>>]
  <2> TAKE k \in 1..n
  <2>1. k \in 0..n /\ k # 0
    OBVIOUS
  <2> QED
    BY <1>2, <2>1, Zenon
<1>5. \A k \in 1..n : g[k - 1] \in T[k - 1] => g[k] \in T[k]
  BY <1>4 DEF Leads
<1>6. \A k \in 0..n : g[k] \in T[k]
  BY <1>3, <1>5, StepsKeep
<1>7. g = [k \in 0..n |-> g[k]]
  <2>1. g = [k \in 0..n |-> IF k = 0 THEN a ELSE G[<<k, g[k - 1]>>]]
    BY <1>1 DEF Steps
  <2>2. [k \in 0..n |-> IF k = 0 THEN a ELSE G[<<k, g[k - 1]>>]] = [k \in 0..n |-> g[k]]
    BY <1>2, Zenon
  <2> QED
    BY <2>1, <2>2
<1> QED
  BY <1>3, <1>4, <1>6, <1>7 DEF StepsWithin
-----------------------------------------------------------------------------
(* The bytes that the filters of a chain hold *)

Kinds == {"through", "pairs", "hoard", "refuse"}

\* A filter: only pairs, of one byte at most, and hoards keep bytes between two calls.
Filters ==
  {f \in [kind : Kinds, held : Seq(Nat)] :
     /\ f.kind \in {"through", "refuse"} => f.held = <<>>
     /\ f.kind = "pairs" => Len(f.held) <= 1}

HeldFrom(h, c) == h = [k \in 0..Len(c) |-> IF k = 0 THEN NoBytes ELSE c[k].held \o h[k - 1]]

LEMMA FilterFields ==
  ASSUME NEW f \in Filters
  PROVE  f.held \in Seq(Nat) /\ f.kind \in Kinds
BY DEF Filters

LEMMA HeldExists ==
  ASSUME NEW c \in Seq(Filters)
  PROVE  \E h : HeldFrom(h, c) /\ h \in [0..Len(c) -> Seq(Nat)]
<1> DEFINE n == Len(c)
           G == [p \in (1..n) \X Seq(Nat) |-> c[p[1]].held \o p[2]]
           T == [k \in 0..n |-> Seq(Nat)]
<1>1. n \in Nat /\ NoBytes \in T[0]
  <2>1. n \in Nat /\ 0 \in 0..n /\ <<>> \in Seq(Nat)
    OBVIOUS
  <2> QED
    BY <2>1 DEF NoBytes
<1>2. \A k \in 1..n : \A x \in Seq(Nat) : G[<<k, x>>] = c[k].held \o x
  OBVIOUS
<1>3. \A k \in 1..n : c[k].held \in Seq(Nat)
  BY FilterFields
<1>4. \A k \in 1..n : \A x \in Seq(Nat) : c[k].held \o x \in Seq(Nat)
  BY <1>3
<1>5. Leads(G, n, T)
  <2>1. \A k \in 1..n : T[k - 1] = Seq(Nat) /\ T[k] = Seq(Nat)
    <3> TAKE k \in 1..n
    <3>1. k - 1 \in 0..n /\ k \in 0..n
      OBVIOUS
    <3> QED
      BY <3>1
  <2> HIDE DEF T, G
  <2> SUFFICES ASSUME NEW k \in 1..n, NEW x \in T[k - 1] PROVE G[<<k, x>>] \in T[k]
    BY DEF Leads
  <2>2. x \in Seq(Nat)
    BY <2>1
  <2> QED
    BY <1>2, <1>4, <2>1, <2>2
<1> HIDE DEF G, T, n
<1>6. PICK g : StepsWithin(g, n, NoBytes, G, T)
  BY <1>1, <1>5, StepsIn
<1>7. \A k \in 0..n : g[k] \in Seq(Nat)
  BY <1>6 DEF T, StepsWithin
<1>8. \A k \in 0..n : g[k] = IF k = 0 THEN NoBytes ELSE c[k].held \o g[k - 1]
  <2> TAKE k \in 0..n
  <2>1. k # 0 => k \in 1..n /\ k - 1 \in 0..n
    BY <1>1
  <2> QED
    BY <1>2, <1>6, <1>7, <2>1 DEF StepsWithin
<1>9. HeldFrom(g, c)
  <2>1. g = [k \in 0..n |-> g[k]]
    BY <1>6 DEF StepsWithin
  <2>2. g = [k \in 0..n |-> IF k = 0 THEN NoBytes ELSE c[k].held \o g[k - 1]]
    BY <1>8, <2>1, Zenon
  <2> QED
    BY <2>2 DEF HeldFrom, n
<1>10. g \in [0..n -> Seq(Nat)]
  <2>1. g = [k \in 0..n |-> g[k]]
    BY <1>6 DEF StepsWithin
  <2> QED
    BY <1>7, <2>1
<1> QED
  BY <1>9, <1>10 DEF n

\* What the beginnings of two chains hold, where these agree.
LEMMA HeldAgrees ==
  ASSUME NEW c \in Seq(Filters), NEW d \in Seq(Filters), NEW g, HeldFrom(g, c), NEW h, HeldFrom(h, d),
         Len(c) <= Len(d), \A k \in 1..Len(c) : c[k] = d[k]
  PROVE  g[Len(c)] = h[Len(c)]
<1> DEFINE n == Len(c)
           T == [k \in 0..n |-> {h[k]}]
<1>1. n \in Nat /\ Len(d) \in Nat
  OBVIOUS
<1>2. \A k \in 0..n : g[k] = IF k = 0 THEN NoBytes ELSE c[k].held \o g[k - 1]
  BY Zenon DEF HeldFrom
<1>3. \A k \in 0..Len(d) : h[k] = IF k = 0 THEN NoBytes ELSE d[k].held \o h[k - 1]
  BY Zenon DEF HeldFrom
<1>4. 0 \in 0..n /\ 0 \in 0..Len(d)
  OBVIOUS
<1>5. g[0] = NoBytes /\ h[0] = NoBytes
  BY <1>2, <1>3, <1>4, Zenon
<1>6. \A k \in 1..n : g[k - 1] = h[k - 1] => g[k] = h[k]
  <2> TAKE k \in 1..n
  <2>1. k \in 0..n /\ k \in 0..Len(d) /\ k # 0 /\ c[k] = d[k]
    OBVIOUS
  <2> QED
    BY <1>2, <1>3, <2>1, Zenon
<1>7. \A k \in 0..n : T[k] = {h[k]}
  OBVIOUS
<1> HIDE DEF T
<1>8. \A k \in 1..n : g[k - 1] \in T[k - 1] => g[k] \in T[k]
  <2> TAKE k \in 1..n
  <2>1. k \in 0..n /\ k - 1 \in 0..n
    OBVIOUS
  <2> QED
    BY <1>6, <1>7, <2>1
<1>9. \A k \in 0..n : g[k] \in T[k]
  <2>1. g[0] \in T[0]
    BY <1>4, <1>5, <1>7
  <2> QED
    BY <1>1, <1>8, <2>1, StepsKeep, Zenon
<1>10. n \in 0..n
  OBVIOUS
<1> QED
  BY <1>7, <1>9, <1>10

LEMMA HeldIs ==
  ASSUME NEW c \in Seq(Filters), NEW g, HeldFrom(g, c)
  PROVE  Held(c) = g[Len(c)]
<1> DEFINE h == CHOOSE h : HeldFrom(h, c)
<1>1. HeldFrom(h, c)
  BY DEF HeldFrom
<1>2. Held(c) = h[Len(c)]
  BY Zenon DEF Held, HeldFrom
<1> HIDE DEF h
<1>3. Len(c) <= Len(c)
  OBVIOUS
<1> QED
  BY <1>1, <1>2, <1>3, HeldAgrees

LEMMA HeldNone == Held(<<>>) = <<>>
<1>1. <<>> \in Seq(Filters) /\ Len(<<>>) = 0
  OBVIOUS
<1>2. PICK h : HeldFrom(h, <<>>)
  BY <1>1, HeldExists
<1>3. \A k \in 0..Len(<<>>) : h[k] = IF k = 0 THEN NoBytes ELSE <<>>[k].held \o h[k - 1]
  BY <1>2, Zenon DEF HeldFrom
<1>4. h[0] = NoBytes
  BY <1>1, <1>3
<1> QED
  BY <1>1, <1>2, <1>4, HeldIs DEF NoBytes

\* The last filter of a chain has the oldest bytes.
LEMMA HeldAppend ==
  ASSUME NEW c \in Seq(Filters), NEW f \in Filters
  PROVE  Held(c) \in Seq(Nat) /\ Held(Append(c, f)) = f.held \o Held(c)
<1> DEFINE d == Append(c, f)
<1>1. /\ d \in Seq(Filters) /\ Len(d) = Len(c) + 1 /\ d[Len(c) + 1] = f
      /\ \A k \in 1..Len(c) : d[k] = c[k]
  BY AppendProperties
<1> HIDE DEF d
<1>2. PICK g : HeldFrom(g, c) /\ g \in [0..Len(c) -> Seq(Nat)]
  BY HeldExists
<1>3. PICK h : HeldFrom(h, d)
  BY <1>1, HeldExists
<1>4. Held(c) = g[Len(c)] /\ Held(d) = h[Len(d)] /\ Len(c) \in Nat /\ Len(c) \in 0..Len(c)
  BY <1>1, <1>2, <1>3, HeldIs
<1>5. g[Len(c)] = h[Len(c)]
  <2>1. Len(c) <= Len(d)
    BY <1>1, <1>4
  <2> QED
    BY <1>1, <1>2, <1>3, <2>1, HeldAgrees
<1>6. h[Len(d)] = d[Len(d)].held \o h[Len(d) - 1]
  <2>1. \A k \in 0..Len(d) : h[k] = IF k = 0 THEN NoBytes ELSE d[k].held \o h[k - 1]
    BY <1>3, Zenon DEF HeldFrom
  <2>2. Len(d) \in 0..Len(d) /\ Len(d) # 0
    BY <1>1, <1>4
  <2> QED
    BY <2>1, <2>2
<1>7. Len(d) - 1 = Len(c) /\ d[Len(d)] = f
  BY <1>1, <1>4
<1> QED
  BY <1>2, <1>4, <1>5, <1>6, <1>7 DEF d

LEMMA HeldType == \A c \in Seq(Filters) : Held(c) \in Seq(Nat)
<1>1. "through" \in Kinds /\ <<>> \in Seq(Nat)
  BY DEF Kinds
<1>2. [kind |-> "through", held |-> <<>>] \in Filters
  BY <1>1 DEF Filters
<1> QED
  BY <1>2, HeldAppend

LEMMA BytesAssoc == \A a, b, c \in Seq(Nat) : (a \o b) \o c = a \o (b \o c)
BY ConcatAssoc

LEMMA HeldConcat ==
  ASSUME NEW a \in Seq(Filters)
  PROVE  \A b \in Seq(Filters) : Held(a \o b) = Held(b) \o Held(a)
<1> DEFINE T == {b \in Seq(Filters) : Held(a \o b) = Held(b) \o Held(a)}
<1>1. <<>> \in T
  <2>1. a \o <<>> = a /\ Held(a) \in Seq(Nat) /\ <<>> \in Seq(Filters)
    BY ConcatEmpty, HeldType
  <2>2. <<>> \o Held(a) = Held(a)
    BY <2>1, ConcatEmpty
  <2> QED
    BY <2>1, <2>2, HeldNone
<1>2. ASSUME NEW b \in Seq(Filters), NEW f \in Filters, b \in T PROVE Append(b, f) \in T
  <2>1. a \o Append(b, f) = Append(a \o b, f) /\ a \o b \in Seq(Filters)
        /\ Append(b, f) \in Seq(Filters)
    BY AppendConcat
  <2>2. Held(Append(a \o b, f)) = f.held \o Held(a \o b) /\ Held(Append(b, f)) = f.held \o Held(b)
    BY <2>1, HeldAppend
  <2>3. Held(a) \in Seq(Nat) /\ Held(b) \in Seq(Nat) /\ f.held \in Seq(Nat)
    BY HeldType, FilterFields
  <2>4. (f.held \o Held(b)) \o Held(a) = f.held \o (Held(b) \o Held(a))
    BY <2>3, BytesAssoc
  <2>5. Held(a \o b) = Held(b) \o Held(a)
    BY <1>2
  <2> QED
    BY <2>1, <2>2, <2>4, <2>5
<1> HIDE DEF T
<1>3. \A b \in Seq(Filters) : b \in T
  BY <1>1, <1>2, InductionOnSeq
<1> QED
  BY <1>3 DEF T

\* What the filters up to the k-th hold, and those after it.
Before(c, k) == Held(SubSeq(c, 1, k))
After(c, k) == Held(SubSeq(c, k + 1, Len(c)))

LEMMA HeldSplit ==
  ASSUME NEW c \in Seq(Filters), NEW k \in 0..Len(c)
  PROVE  /\ Before(c, k) \in Seq(Nat) /\ After(c, k) \in Seq(Nat)
         /\ Held(c) = After(c, k) \o Before(c, k)
<1> DEFINE a == SubSeq(c, 1, k)
           b == SubSeq(c, k + 1, Len(c))
<1>1. a \in Seq(Filters) /\ b \in Seq(Filters) /\ a \o b = c
  BY Split
<1> HIDE DEF a, b
<1>2. Held(a \o b) = Held(b) \o Held(a) /\ Held(a) \in Seq(Nat) /\ Held(b) \in Seq(Nat)
  BY <1>1, HeldConcat, HeldType
<1> QED
  BY <1>1, <1>2 DEF Before, After, a, b

LEMMA HeldEnds ==
  ASSUME NEW c \in Seq(Filters)
  PROVE  /\ Before(c, 0) = <<>> /\ After(c, 0) = Held(c)
         /\ Before(c, Len(c)) = Held(c) /\ After(c, Len(c)) = <<>>
<1>1. SubSeq(c, 1, 0) = <<>> /\ SubSeq(c, Len(c) + 1, Len(c)) = <<>>
  OBVIOUS
<1>2. SubSeq(c, 1, Len(c)) = c /\ SubSeq(c, 0 + 1, Len(c)) = c
  BY SubSeqFull
<1> QED
  BY <1>1, <1>2, HeldNone DEF Before, After

LEMMA HeldOne ==
  ASSUME NEW f \in Filters
  PROVE  Held(<<f>>) = f.held /\ <<f>> \in Seq(Filters)
<1>1. <<>> \in Seq(Filters) /\ Append(<<>>, f) = <<f>> /\ <<f>> \in Seq(Filters)
  OBVIOUS
<1>2. Held(<<f>>) = f.held \o <<>>
  BY <1>1, HeldAppend, HeldNone
<1> QED
  BY <1>1, <1>2, ConcatEmpty, FilterFields

LEMMA HeldAt ==
  ASSUME NEW c \in Seq(Filters), NEW i \in 1..Len(c)
  PROVE  /\ c[i] \in Filters
         /\ Before(c, i) = c[i].held \o Before(c, i - 1)
         /\ After(c, i - 1) = After(c, i) \o c[i].held
<1>1. c[i] \in Filters /\ i \in 0..Len(c) /\ i - 1 \in 0..Len(c)
  OBVIOUS
<1>2. Before(c, i) = c[i].held \o Before(c, i - 1)
  <2> DEFINE a == SubSeq(c, 1, i - 1)
  <2>1. a \in Seq(Filters) /\ Append(a, c[i]) = SubSeq(c, 1, i)
    OBVIOUS
  <2> HIDE DEF a
  <2>2. Held(Append(a, c[i])) = c[i].held \o Held(a)
    BY <1>1, <2>1, HeldAppend
  <2> QED
    BY <2>1, <2>2 DEF Before, a
<1>3. After(c, i - 1) = After(c, i) \o c[i].held
  <2> DEFINE b == SubSeq(c, i + 1, Len(c))
             d == SubSeq(c, i, Len(c))
             e == <<c[i]>>
  <2>1. b \in Seq(Filters) /\ d = e \o b
    OBVIOUS
  <2>2. Held(e) = c[i].held /\ e \in Seq(Filters)
    BY <1>1, HeldOne
  <2> HIDE DEF b, d, e
  <2>3. Held(e \o b) = Held(b) \o Held(e)
    BY <2>1, <2>2, HeldConcat
  <2>4. (i - 1) + 1 = i
    OBVIOUS
  <2> QED
    BY <2>1, <2>2, <2>3, <2>4 DEF After, b, d
<1> QED
  BY <1>1, <1>2, <1>3

\* The i-th filter is replaced by f.
IsPut(c, i, f, d) ==
  /\ d \in Seq(Filters) /\ Len(d) = Len(c) /\ d[i] = f
  /\ \A j \in 1..Len(c) : j # i => d[j] = c[j]
  /\ Before(d, i - 1) = Before(c, i - 1) /\ After(d, i) = After(c, i)
  /\ Before(d, i) = f.held \o Before(c, i - 1)

LEMMA HeldPut ==
  ASSUME NEW c \in Seq(Filters), NEW i \in 1..Len(c), NEW f \in Filters
  PROVE  IsPut(c, i, f, [c EXCEPT ![i] = f])
<1> DEFINE d == [c EXCEPT ![i] = f]
<1>1. /\ d \in Seq(Filters) /\ Len(d) = Len(c) /\ d[i] = f /\ Len(c) \in Nat
      /\ \A j \in 1..Len(c) : j # i => d[j] = c[j]
  OBVIOUS
<1> HIDE DEF d
<1>2. SubSeq(d, 1, i - 1) = SubSeq(c, 1, i - 1)
  <2> DEFINE p == SubSeq(d, 1, i - 1)
             q == SubSeq(c, 1, i - 1)
  <2>1. p \in Seq(Filters) /\ Len(p) = i - 1 /\ \A j \in 1..(i - 1) : p[j] = d[j]
    BY <1>1
  <2>2. q \in Seq(Filters) /\ Len(q) = i - 1 /\ \A j \in 1..(i - 1) : q[j] = c[j]
    OBVIOUS
  <2>3. \A j \in 1..(i - 1) : d[j] = c[j]
    BY <1>1
  <2> HIDE DEF p, q
  <2>4. p = q
    BY <2>1, <2>2, <2>3, SeqEqual
  <2> QED
    BY <2>4 DEF p, q
<1>3. SubSeq(d, i + 1, Len(d)) = SubSeq(c, i + 1, Len(c))
  <2> DEFINE p == SubSeq(d, i + 1, Len(d))
             q == SubSeq(c, i + 1, Len(c))
             n == Len(c) - i
  <2>1. p \in Seq(Filters) /\ Len(p) = n /\ \A j \in 1..n : p[j] = d[i + j]
    BY <1>1
  <2>2. q \in Seq(Filters) /\ Len(q) = n /\ \A j \in 1..n : q[j] = c[i + j]
    OBVIOUS
  <2>3. \A j \in 1..n : d[i + j] = c[i + j]
    <3> TAKE j \in 1..n
    <3>1. i + j \in 1..Len(c) /\ i + j # i
      BY <1>1
    <3> QED
      BY <1>1, <3>1
  <2> HIDE DEF p, q, n
  <2>4. p = q
    BY <2>1, <2>2, <2>3, SeqEqual
  <2> QED
    BY <2>4 DEF p, q
<1>4. i \in 1..Len(d)
  BY <1>1
<1>5. Before(d, i) = d[i].held \o Before(d, i - 1)
  BY <1>1, <1>4, HeldAt
<1> QED
  BY <1>1, <1>2, <1>3, <1>5 DEF Before, After, d, IsPut
-----------------------------------------------------------------------------
(* One filter, and a chain of them *)

Flags == {"NORMAL", "FLUSH_INC", "FLUSH_CLOSE"}
Statuses == {"PASS_ON", "FEED_ME", "ERR_FATAL"}

\* A filter that does not fail keeps what it does not pass on, behind it; told of the
\* end, it keeps nothing.
Gave(f, bytes, flag, r) ==
  /\ r = [filter |-> r.filter, out |-> r.out, status |-> r.status]
  /\ r.filter \in Filters /\ r.filter.kind = f.kind
  /\ r.out \in Seq(Nat) /\ r.status \in Statuses
  /\ r.status = "ERR_FATAL" => f.kind = "refuse" /\ bytes # <<>> /\ r.filter = f /\ r.out = <<>>
  /\ r.status # "ERR_FATAL" => f.held \o bytes = r.out \o r.filter.held
  /\ r.status = "FEED_ME" => r.out = <<>> /\ f.kind # "through"
  /\ f.kind = "refuse" => r.filter.held = <<>>
  /\ flag = "FLUSH_CLOSE" => r.filter.held = <<>>

LEMMA FilterKeeps ==
  ASSUME NEW f \in Filters, NEW bytes \in Seq(Nat), NEW flag \in Flags
  PROVE  Gave(f, bytes, flag, OpFilter(f, bytes, flag))
<1> DEFINE all == f.held \o bytes
           n == CASE f.kind = "through" -> Len(all)
                  [] f.kind = "pairs" -> IF flag = "NORMAL" THEN 2 * (Len(all) \div 2)
                                         ELSE Len(all)
                  [] f.kind = "hoard" -> IF flag = "FLUSH_CLOSE" THEN Len(all) ELSE 0
                  [] OTHER -> 0
           rest == SubSeq(all, n + 1, Len(all))
           out == SubSeq(all, 1, n)
           status == IF n > 0 \/ f.kind = "through" THEN "PASS_ON" ELSE "FEED_ME"
           g == [f EXCEPT !.held = rest]
           r == OpFilter(f, bytes, flag)
<1> SUFFICES Gave(f, bytes, flag, r)
  OBVIOUS
<1>1. /\ f = [kind |-> f.kind, held |-> f.held] /\ f.kind \in Kinds /\ f.held \in Seq(Nat)
      /\ f.kind \in {"through", "refuse"} => f.held = <<>>
      /\ f.kind = "pairs" => Len(f.held) <= 1
  BY DEF Filters
<1>2. all \in Seq(Nat) /\ Len(all) \in Nat
  BY <1>1
<1>3. CASE f.kind = "refuse" /\ bytes # <<>>
  <2>1. r = [filter |-> f, out |-> <<>>, status |-> "ERR_FATAL"]
    BY <1>3 DEF OpFilter, NoBytes
  <2>2. f.held = <<>>
    BY <1>1, <1>3
  <2> HIDE DEF r
  <2>3. r.filter = f /\ r.out = <<>> /\ r.status = "ERR_FATAL" /\ <<>> \in Seq(Nat)
    BY <2>1
  <2> QED
    BY <1>1, <1>3, <2>1, <2>2, <2>3 DEF Statuses, Gave
<1>4. CASE ~(f.kind = "refuse" /\ bytes # <<>>)
  <2>1. r = [filter |-> g, out |-> out, status |-> status]
    BY <1>4, Zenon DEF OpFilter, NoBytes
  <2>2. /\ n \in 0..Len(all)
        /\ f.kind \in {"through"} => n = Len(all)
        /\ f.kind = "refuse" => n = Len(all)
        /\ f.kind = "pairs" => Len(all) - n <= 1
        /\ flag = "FLUSH_CLOSE" => n = Len(all)
    <3>1. CASE f.kind = "through"
      BY <1>2, <3>1
    <3>2. CASE f.kind = "pairs"
      <4>1. \A m \in Nat : 2 * (m \div 2) \in 0..m /\ m - 2 * (m \div 2) <= 1
        OBVIOUS
      <4>2. n \in {Len(all), 2 * (Len(all) \div 2)} /\ (flag = "FLUSH_CLOSE" => n = Len(all))
        BY <3>2
      <4> HIDE DEF n, all
      <4> QED
        BY <1>2, <3>2, <4>1, <4>2
    <3>3. CASE f.kind = "hoard"
      <4>1. n \in {Len(all), 0} /\ (flag = "FLUSH_CLOSE" => n = Len(all))
        BY <3>3
      <4> HIDE DEF n, all
      <4> QED
        BY <1>2, <3>3, <4>1
    <3>4. CASE f.kind = "refuse"
      <4>1. n = 0 /\ all = <<>>
        BY <1>1, <1>4, <3>4
      <4> HIDE DEF n, all
      <4> QED
        BY <3>4, <4>1
    <3> QED
      BY <1>1, <3>1, <3>2, <3>3, <3>4 DEF Kinds
  <2> HIDE DEF n, all
  <2>3. /\ out \in Seq(Nat) /\ Len(out) = n /\ rest \in Seq(Nat) /\ out \o rest = all
        /\ Len(rest) = Len(all) - n
    <3>1. out \in Seq(Nat) /\ Len(out) = n /\ rest \in Seq(Nat) /\ out \o rest = all
      BY <1>2, <2>2, Split
    <3> HIDE DEF out, rest
    <3>2. Len(out \o rest) = Len(out) + Len(rest) /\ Len(rest) \in Nat /\ Len(out) \in Nat
      BY <3>1
    <3> QED
      BY <1>2, <3>1, <3>2
  <2> HIDE DEF out, rest
  <2>4. n = Len(all) => rest = <<>>
    BY <1>2, <2>3
  <2>5. g = [kind |-> f.kind, held |-> rest] /\ g \in Filters /\ g.kind = f.kind /\ g.held = rest
    <3>1. g = [kind |-> f.kind, held |-> rest]
      BY <1>1
    <3> HIDE DEF g
    <3>2. g.kind = f.kind /\ g.held = rest /\ g \in [kind : Kinds, held : Seq(Nat)]
      BY <1>1, <2>3, <3>1
    <3>3. f.kind = "pairs" => Len(rest) <= 1
      BY <2>2, <2>3
    <3>4. f.kind \in {"through", "refuse"} => rest = <<>>
      BY <2>2, <2>4
    <3> QED
      BY <3>1, <3>2, <3>3, <3>4 DEF Filters
  <2>6. /\ status \in {"PASS_ON", "FEED_ME"}
        /\ status = "FEED_ME" => n = 0 /\ f.kind # "through"
    BY <2>2
  <2>7. n = 0 => out = <<>>
    BY <2>3
  <2> HIDE DEF g, status, r
  <2>8. r.filter = g /\ r.out = out /\ r.status = status
    BY <2>1
  <2>9. r = [filter |-> r.filter, out |-> r.out, status |-> r.status]
    BY <2>1, <2>8
  <2>10. f.held \o bytes = out \o rest
    BY <2>3 DEF all
  <2>11. r.status \in Statuses /\ r.status # "ERR_FATAL"
    BY <2>6, <2>8 DEF Statuses
  <2>12. (f.kind = "refuse" => rest = <<>>) /\ (flag = "FLUSH_CLOSE" => rest = <<>>)
    BY <2>2, <2>4
  <2> QED
    BY <2>3, <2>5, <2>6, <2>7, <2>8, <2>9, <2>10, <2>11, <2>12 DEF Gave
<1> QED
  BY <1>3, <1>4

SameKinds(c, d) == Len(d) = Len(c) /\ \A k \in 1..Len(c) : d[k].kind = c[k].kind
Refusing(c) == \E k \in 1..Len(c) : c[k].kind = "refuse"

Brigades == [chain : Seq(Filters), data : Seq(Nat), status : Statuses]

\* What the first k filters of c may have made of the bytes.  A round that has ended early
\* leaves the rest of the chain behind a filter that had nothing to pass on.
Wound(c, bytes, flag, k) ==
  {p \in Brigades :
     /\ SameKinds(c, p.chain)
     /\ p.status = "PASS_ON" =>
          /\ Held(c) \o bytes = (After(p.chain, k) \o p.data) \o Before(p.chain, k)
          /\ flag = "FLUSH_CLOSE" => \A j \in 1..k : p.chain[j].held = <<>>
     /\ p.status = "FEED_ME" => p.data = <<>> /\ Held(c) \o bytes = Held(p.chain)
     /\ p.status = "ERR_FATAL" =>
          /\ Refusing(c) /\ p.data = <<>>
          /\ Len(Held(p.chain)) < Len(Held(c)) + Len(bytes)
     /\ p.status # "PASS_ON" /\ flag = "FLUSH_CLOSE" => Drained(p.chain)}

LEMMA PassOnKeeps ==
  ASSUME NEW c \in Seq(Filters), NEW bytes \in Seq(Nat), NEW flag \in Flags,
         NEW k \in 1..Len(c), NEW x \in Wound(c, bytes, flag, k - 1)
  PROVE  PassOn(x, k, flag) \in Wound(c, bytes, flag, k)
<1>1. /\ x.chain \in Seq(Filters) /\ x.data \in Seq(Nat) /\ x.status \in Statuses
      /\ SameKinds(c, x.chain) /\ Len(x.chain) = Len(c)
      /\ x = [chain |-> x.chain, data |-> x.data, status |-> x.status] /\ x \in Brigades
  BY DEF Wound, Brigades, SameKinds
<1>2. CASE x.status # "PASS_ON"
  <2>1. PassOn(x, k, flag) = x
    BY <1>2 DEF PassOn
  <2>2. x \in Wound(c, bytes, flag, k)
    BY <1>2 DEF Wound
  <2> QED
    BY <2>1, <2>2
<1>3. CASE x.status = "PASS_ON"
  <2> DEFINE e == x.chain
             f == e[k]
             r == OpFilter(f, x.data, flag)
             d == [e EXCEPT ![k] = r.filter]
             y == [chain |-> d, data |-> r.out, status |-> r.status]
             A == After(e, k)
             B == Before(e, k - 1)
  <2>1. PassOn(x, k, flag) = y
    BY <1>3 DEF PassOn, Passed
  <2>2. /\ Held(c) \o bytes = (After(e, k - 1) \o x.data) \o B
        /\ flag = "FLUSH_CLOSE" => \A j \in 1..(k - 1) : e[j].held = <<>>
    BY <1>3 DEF Wound
  <2>3. e \in Seq(Filters) /\ k \in 1..Len(e) /\ k \in 0..Len(e) /\ k - 1 \in 0..Len(e)
        /\ SameKinds(c, e) /\ x.data \in Seq(Nat) /\ Len(e) = Len(c)
    BY <1>1
  <2> HIDE DEF e
  <2>4. f \in Filters /\ After(e, k - 1) = A \o f.held
    BY <2>3, HeldAt
  <2>5. A \in Seq(Nat) /\ B \in Seq(Nat) /\ f.held \in Seq(Nat)
    BY <2>3, <2>4, HeldSplit, FilterFields
  <2>6. /\ r.filter \in Filters /\ r.filter.kind = f.kind
        /\ r.out \in Seq(Nat) /\ r.status \in Statuses
        /\ r.status = "ERR_FATAL" => /\ f.kind = "refuse" /\ x.data # <<>>
                                     /\ r.filter = f /\ r.out = <<>>
        /\ r.status # "ERR_FATAL" => f.held \o x.data = r.out \o r.filter.held
        /\ r.status = "FEED_ME" => r.out = <<>> /\ f.kind # "through"
        /\ flag = "FLUSH_CLOSE" => r.filter.held = <<>>
    <3>1. Gave(f, x.data, flag, r)
      <4> HIDE DEF f
      <4> QED
        BY <2>3, <2>4, FilterKeeps
    <3> HIDE DEF r, f
    <3> QED
      BY <3>1 DEF Gave
  <2> HIDE DEF r
  <2> DEFINE h == r.filter.held
  <2>7. h \in Seq(Nat)
    BY <2>6, FilterFields
  <2>8. /\ d \in Seq(Filters) /\ Len(d) = Len(e) /\ d[k] = r.filter
        /\ \A j \in 1..Len(e) : j # k => d[j] = e[j]
        /\ After(d, k) = A /\ Before(d, k) = h \o B
    <3>1. IsPut(e, k, r.filter, d)
      BY <2>3, <2>6, HeldPut
    <3> HIDE DEF d
    <3> QED
      BY <3>1 DEF IsPut
  <2>9. d = e \/ r.filter # f
    BY <2>3
  <2> HIDE DEF d, f, A, B, h
  <2>10. y \in Brigades /\ y.chain = d /\ y.data = r.out /\ y.status = r.status
    BY <2>6, <2>8 DEF Brigades
  <2> HIDE DEF y
  <2>11. SameKinds(c, d)
    <3>1. \A j \in 1..Len(c) : e[j].kind = c[j].kind
      BY <2>3 DEF SameKinds
    <3>2. \A j \in 1..Len(c) : d[j].kind = e[j].kind
      <4> TAKE j \in 1..Len(c)
      <4>1. CASE j = k
        BY <2>6, <2>8, <4>1 DEF f
      <4>2. CASE j # k
        BY <2>3, <2>8, <4>2
      <4> QED
        BY <4>1, <4>2
    <3> QED
      BY <2>3, <2>8, <3>1, <3>2 DEF SameKinds
  <2>12. r.status # "ERR_FATAL" => Held(c) \o bytes = (A \o r.out) \o (h \o B)
    <3> SUFFICES ASSUME r.status # "ERR_FATAL"
                 PROVE  Held(c) \o bytes = (A \o r.out) \o (h \o B)
      OBVIOUS
    <3>1. Held(c) \o bytes = ((A \o f.held) \o x.data) \o B
      BY <2>2, <2>4
    <3>2. (A \o f.held) \o x.data = A \o (f.held \o x.data)
      BY <2>3, <2>5, BytesAssoc
    <3>3. f.held \o x.data = r.out \o h
      BY <2>6 DEF h
    <3>4. A \o (r.out \o h) = (A \o r.out) \o h
      BY <2>5, <2>6, <2>7, BytesAssoc
    <3>5. ((A \o r.out) \o h) \o B = (A \o r.out) \o (h \o B)
      <4>1. A \o r.out \in Seq(Nat)
        BY <2>5, <2>6
      <4> QED
        BY <2>5, <2>7, <4>1, BytesAssoc
    <3> QED
      BY <3>1, <3>2, <3>3, <3>4, <3>5
  <2>13. flag = "FLUSH_CLOSE" => \A j \in 1..k : d[j].held = <<>>
    <3> SUFFICES ASSUME flag = "FLUSH_CLOSE", NEW j \in 1..k PROVE d[j].held = <<>>
      OBVIOUS
    <3>1. CASE j = k
      BY <2>6, <2>8, <3>1
    <3>2. CASE j # k
      <4>1. j \in 1..(k - 1) /\ j \in 1..Len(e)
        BY <2>3, <3>2
      <4> QED
        BY <2>2, <2>8, <3>2, <4>1
    <3> QED
      BY <3>1, <3>2
  <2>14. r.status # "PASS_ON" /\ flag = "FLUSH_CLOSE" => Drained(d)
    <3> SUFFICES ASSUME r.status # "PASS_ON", flag = "FLUSH_CLOSE" PROVE Drained(d)
      OBVIOUS
    <3>1. d[k].kind # "through"
      <4>1. f.kind # "through"
        BY <2>6 DEF Statuses
      <4> QED
        BY <2>6, <2>8, <4>1
    <3>2. DOMAIN d = 1..Len(d) /\ k \in 1..Len(d) /\ Len(d) \in Nat
      BY <2>3, <2>8
    <3>3. \A j \in 1..Len(d) : d[j].held # <<>> => k \in 1..(j - 1)
      BY <2>13, <3>2
    <3> QED
      BY <3>1, <3>2, <3>3 DEF Drained, NoBytes
  <2>15. r.status = "FEED_ME" => Held(c) \o bytes = Held(d)
    <3> SUFFICES ASSUME r.status = "FEED_ME" PROVE Held(c) \o bytes = Held(d)
      OBVIOUS
    <3>1. A \o r.out = A
      BY <2>5, <2>6, ConcatEmpty
    <3>2. k \in 0..Len(d)
      BY <2>3, <2>8
    <3>3. Held(d) = After(d, k) \o Before(d, k)
      BY <2>8, <3>2, HeldSplit
    <3> QED
      BY <2>8, <2>12, <3>1, <3>3
  <2>16. r.status = "ERR_FATAL" => Refusing(c) /\ Len(Held(d)) < Len(Held(c)) + Len(bytes)
    <3> SUFFICES ASSUME r.status = "ERR_FATAL"
                 PROVE  Refusing(c) /\ Len(Held(d)) < Len(Held(c)) + Len(bytes)
      OBVIOUS
    <3>1. d = e /\ f.kind = "refuse" /\ x.data # <<>>
      BY <2>6, <2>9
    <3>2. Refusing(c)
      BY <2>3, <3>1 DEF Refusing, SameKinds, f
    <3> DEFINE P == After(e, k - 1)
    <3>3. P \in Seq(Nat) /\ B \in Seq(Nat) /\ Held(e) = P \o B
      BY <2>3, HeldSplit DEF B
    <3>4. Held(c) \in Seq(Nat) /\ Held(c) \o bytes = (P \o x.data) \o B
      BY <2>2, HeldType
    <3> HIDE DEF P
    <3>5. Len(Held(c) \o bytes) = Len(Held(c)) + Len(bytes)
      BY <3>4
    <3>6. Len((P \o x.data) \o B) = Len(P) + Len(x.data) + Len(B) /\ Len(P \o B) = Len(P) + Len(B)
      BY <2>3, <3>3
    <3>7. Len(x.data) \in Nat /\ Len(x.data) # 0 /\ Len(P) \in Nat /\ Len(B) \in Nat
      BY <2>3, <3>1, <3>3
    <3>8. Len(Held(d)) < Len(Held(c)) + Len(bytes)
      BY <3>1, <3>3, <3>4, <3>5, <3>6, <3>7
    <3> QED
      BY <3>2, <3>8
  <2>17. r.status = "ERR_FATAL" \/ r.status = "FEED_ME" => r.out = <<>>
    BY <2>6
  <2>18. y \in Wound(c, bytes, flag, k)
    BY <2>8, <2>10, <2>11, <2>12, <2>13, <2>14, <2>15, <2>16, <2>17 DEF Wound
  <2> QED
    BY <2>1, <2>18
<1> QED
  BY <1>2, <1>3

WindSteps(g, c, bytes, flag) ==
  g = [k \in 0..Len(c) |-> IF k = 0 THEN [chain |-> c, data |-> bytes, status |-> "PASS_ON"]
                           ELSE PassOn(g[k - 1], k, flag)]

LEMMA WindWound ==
  ASSUME NEW c \in Seq(Filters), NEW bytes \in Seq(Nat), NEW flag \in Flags
  PROVE  Wind(c, bytes, flag) \in Wound(c, bytes, flag, Len(c))
<1> DEFINE n == Len(c)
           a == [chain |-> c, data |-> bytes, status |-> "PASS_ON"]
           G == [p \in (1..n) \X Brigades |-> PassOn(p[2], p[1], flag)]
           T == [k \in 0..n |-> Wound(c, bytes, flag, k)]
<1>1. n \in Nat /\ 0 \in 0..n
  OBVIOUS
<1>2. a \in Wound(c, bytes, flag, 0)
  <2>1. SameKinds(c, c)
    BY DEF SameKinds
  <2>2. After(c, 0) = Held(c) /\ Before(c, 0) = <<>> /\ Held(c) \in Seq(Nat)
    BY HeldEnds, HeldType
  <2>3. (Held(c) \o bytes) \o <<>> = Held(c) \o bytes
    <3>1. Held(c) \o bytes \in Seq(Nat)
      BY <2>2
    <3> QED
      BY <3>1, ConcatEmpty
  <2>4. a \in Brigades /\ a.chain = c /\ a.data = bytes /\ a.status = "PASS_ON"
    BY DEF Brigades, Statuses
  <2> HIDE DEF a
  <2>5. (After(c, 0) \o bytes) \o Before(c, 0) = Held(c) \o bytes
    BY <2>2, <2>3
  <2>6. \A j \in 1..0 : c[j].held = <<>>
    OBVIOUS
  <2> QED
    BY <2>1, <2>4, <2>5, <2>6 DEF Wound
<1>3. \A k \in 1..n : \A x \in T[k - 1] : PassOn(x, k, flag) \in T[k] /\ x \in Brigades
  <2> SUFFICES ASSUME NEW k \in 1..n, NEW x \in T[k - 1]
               PROVE  PassOn(x, k, flag) \in T[k] /\ x \in Brigades
    OBVIOUS
  <2>1. k - 1 \in 0..n /\ k \in 0..n
    OBVIOUS
  <2>2. T[k - 1] = Wound(c, bytes, flag, k - 1) /\ T[k] = Wound(c, bytes, flag, k)
    BY <2>1
  <2> HIDE DEF T
  <2> QED
    BY <2>2, PassOnKeeps DEF Wound
<1>4. Leads(G, n, T)
  <2>1. \A k \in 1..n : \A x \in Brigades : G[<<k, x>>] = PassOn(x, k, flag)
    OBVIOUS
  <2> HIDE DEF G, T
  <2> QED
    BY <1>3, <2>1 DEF Leads
<1>5. a \in T[0] /\ T[0] = Wound(c, bytes, flag, 0) /\ T[n] = Wound(c, bytes, flag, n)
  BY <1>1, <1>2
<1>6. \A k \in 1..n : \A x \in Brigades : G[<<k, x>>] = PassOn(x, k, flag)
  OBVIOUS
<1> HIDE DEF G, T
<1>7. PICK g : StepsWithin(g, n, a, G, T)
  <2> HIDE DEF n, a
  <2> QED
    BY <1>1, <1>4, <1>5, StepsIn
<1>8. WindSteps(g, c, bytes, flag)
  <2>1. \A k \in 0..n : g[k] = IF k = 0 THEN a ELSE PassOn(g[k - 1], k, flag)
    <3> TAKE k \in 0..n
    <3>1. k # 0 => k \in 1..n /\ k - 1 \in 0..n
      OBVIOUS
    <3>2. k # 0 => g[k - 1] \in Brigades
      BY <1>3, <1>7, <3>1 DEF StepsWithin
    <3>3. k # 0 => g[k] = G[<<k, g[k - 1]>>]
      BY <1>7, <3>1 DEF StepsWithin
    <3>4. k = 0 => g[k] = a
      BY <1>7 DEF StepsWithin
    <3> HIDE DEF a, n
    <3> QED
      BY <1>6, <3>1, <3>2, <3>3, <3>4
  <2>2. g = [k \in 0..n |-> g[k]]
    BY <1>7 DEF StepsWithin
  <2>3. g = [k \in 0..n |-> IF k = 0 THEN a ELSE PassOn(g[k - 1], k, flag)]
    BY <2>1, <2>2, Zenon
  <2> QED
    BY <2>3 DEF WindSteps
<1> DEFINE h == CHOOSE h : WindSteps(h, c, bytes, flag)
<1>9. WindSteps(h, c, bytes, flag)
  BY <1>8
<1>10. Wind(c, bytes, flag) = h[n]
  BY Zenon DEF Wind, WindSteps
<1> HIDE DEF h
<1>11. \A k \in 0..n : h[k] = IF k = 0 THEN a ELSE PassOn(h[k - 1], k, flag)
  BY <1>9, Zenon DEF WindSteps
<1>12. h[0] \in T[0]
  BY <1>1, <1>5, <1>11
<1>13. \A k \in 1..n : h[k - 1] \in T[k - 1] => h[k] \in T[k]
  <2> TAKE k \in 1..n
  <2>1. k \in 0..n /\ k # 0
    OBVIOUS
  <2>2. h[k] = PassOn(h[k - 1], k, flag)
    BY <1>11, <2>1, Zenon
  <2> HIDE DEF n
  <2> QED
    BY <1>3, <2>2
<1> HIDE DEF n, a
<1>14. \A k \in 0..n : h[k] \in T[k]
  BY <1>1, <1>12, <1>13, StepsKeep
<1>15. n \in 0..n
  BY <1>1
<1> QED
  BY <1>5, <1>10, <1>14, <1>15 DEF n

\* What passed, or nothing when the round ended early.
Passing(w) == IF w.status = "PASS_ON" THEN w.data ELSE <<>>

\* A round of the chain c loses nothing but what a filter refuses, and keeps the order.
Winds(c, bytes, flag, w) ==
  /\ w \in Brigades /\ SameKinds(c, w.chain)
  /\ w.status = "ERR_FATAL" => Refusing(c) /\ Len(Held(w.chain)) < Len(Held(c)) + Len(bytes)
  /\ w.status # "ERR_FATAL" => Held(c) \o bytes = Passing(w) \o Held(w.chain)
  /\ flag = "FLUSH_CLOSE" => Drained(w.chain)

LEMMA WindKeeps ==
  ASSUME NEW c \in Seq(Filters), NEW bytes \in Seq(Nat), NEW flag \in Flags
  PROVE  Winds(c, bytes, flag, Wind(c, bytes, flag))
<1> DEFINE w == Wind(c, bytes, flag)
<1>1. w \in Wound(c, bytes, flag, Len(c))
  BY WindWound
<1> HIDE DEF w
<1>2. w \in Brigades /\ SameKinds(c, w.chain) /\ w.chain \in Seq(Filters) /\ w.data \in Seq(Nat)
      /\ Len(w.chain) = Len(c) /\ w.status \in Statuses
  BY <1>1 DEF Wound, Brigades, SameKinds
<1>3. Held(w.chain) \in Seq(Nat)
  BY <1>2, HeldType
<1>4. w.status = "ERR_FATAL" => Refusing(c) /\ Len(Held(w.chain)) < Len(Held(c)) + Len(bytes)
  BY <1>1 DEF Wound
<1>5. w.status = "PASS_ON" => Held(c) \o bytes = w.data \o Held(w.chain)
  <2>1. After(w.chain, Len(c)) = <<>> /\ Before(w.chain, Len(c)) = Held(w.chain)
    BY <1>2, HeldEnds
  <2>2. <<>> \o w.data = w.data
    BY <1>2, ConcatEmpty
  <2> QED
    BY <1>1, <2>1, <2>2 DEF Wound
<1>6. w.status = "FEED_ME" => Held(c) \o bytes = <<>> \o Held(w.chain)
  BY <1>1, <1>3, ConcatEmpty DEF Wound
<1>7. flag = "FLUSH_CLOSE" => Drained(w.chain)
  <2>1. CASE w.status = "PASS_ON"
    <3>1. flag = "FLUSH_CLOSE" => \A j \in 1..Len(c) : w.chain[j].held = <<>>
      BY <1>1, <2>1 DEF Wound
    <3>2. DOMAIN w.chain = 1..Len(c)
      BY <1>2
    <3> QED
      BY <3>1, <3>2 DEF Drained, NoBytes
  <2>2. CASE w.status # "PASS_ON"
    BY <1>1, <2>2 DEF Wound
  <2> QED
    BY <2>1, <2>2
<1>8. w.status # "ERR_FATAL" => Held(c) \o bytes = Passing(w) \o Held(w.chain)
  BY <1>2, <1>5, <1>6 DEF Passing, Statuses
<1> QED
  BY <1>2, <1>4, <1>7, <1>8 DEF w, Winds
-----------------------------------------------------------------------------
(* The loops: what every turn keeps, the loop keeps *)

LEMMA FillLoop ==
  ASSUME NEW n \in Nat, NEW T, NEW a \in T[0],
         \A k \in 1..n : \A x \in T[k - 1] : FillTurn(x) \in T[k]
  PROVE  Loop(FillTurn, a, n) \in T[n]
<1> DEFINE U == UNION {T[k] : k \in 0..n}
           G == [p \in (1..n) \X U |-> FillTurn(p[2])]
           Turns(g) == g = [k \in 0..n |-> IF k = 0 THEN a ELSE FillTurn(g[k - 1])]
           h == CHOOSE g : Turns(g)
<1>1. \A k \in 0..n : \A x \in T[k] : x \in U
  OBVIOUS
<1>2. \A k \in 1..n : \A x \in T[k - 1] : G[<<k, x>>] = FillTurn(x)
  <2> SUFFICES ASSUME NEW k \in 1..n, NEW x \in T[k - 1] PROVE G[<<k, x>>] = FillTurn(x)
    OBVIOUS
  <2>1. x \in U
    BY <1>1
  <2> HIDE DEF U
  <2> QED
    BY <2>1
<1> HIDE DEF G, U
<1>3. PICK g : StepsWithin(g, n, a, G, T)
  BY <1>2, StepsIn DEF Leads
<1>4. Turns(g)
  <2>1. \A k \in 0..n : g[k] = IF k = 0 THEN a ELSE FillTurn(g[k - 1])
    <3> TAKE k \in 0..n
    <3>1. k # 0 => k \in 1..n /\ k - 1 \in 0..n
      OBVIOUS
    <3> QED
      BY <1>2, <1>3, <3>1 DEF StepsWithin
  <2>2. g = [k \in 0..n |-> g[k]]
    BY <1>3 DEF StepsWithin
  <2> QED
    BY <2>1, <2>2, Zenon
<1>5. Turns(h)
  BY <1>4
<1>6. Loop(FillTurn, a, n) = h[n]
  BY Zenon DEF Loop
<1> HIDE DEF h
<1>7. \A k \in 0..n : h[k] = IF k = 0 THEN a ELSE FillTurn(h[k - 1])
  BY <1>5, Zenon
<1>8. h[0] \in T[0] /\ \A k \in 1..n : h[k - 1] \in T[k - 1] => h[k] \in T[k]
  <2>1. h[0] = a
    BY <1>7
  <2>2. \A k \in 1..n : h[k] = FillTurn(h[k - 1])
    <3> TAKE k \in 1..n
    <3>1. k \in 0..n /\ k # 0
      OBVIOUS
    <3> QED
      BY <1>7, <3>1, Zenon
  <2> QED
    BY <2>1, <2>2
<1> HIDE DEF Turns
<1>9. \A k \in 0..n : h[k] \in T[k]
  BY <1>8, StepsKeep
<1> QED
  BY <1>6, <1>9

LEMMA ReadLoop ==
  ASSUME NEW n \in Nat, NEW T, NEW a \in T[0],
         \A k \in 1..n : \A x \in T[k - 1] : ReadTurn(x) \in T[k]
  PROVE  Loop(ReadTurn, a, n) \in T[n]
<1> DEFINE U == UNION {T[k] : k \in 0..n}
           G == [p \in (1..n) \X U |-> ReadTurn(p[2])]
           Turns(g) == g = [k \in 0..n |-> IF k = 0 THEN a ELSE ReadTurn(g[k - 1])]
           h == CHOOSE g : Turns(g)
<1>1. \A k \in 0..n : \A x \in T[k] : x \in U
  OBVIOUS
<1>2. \A k \in 1..n : \A x \in T[k - 1] : G[<<k, x>>] = ReadTurn(x)
  <2> SUFFICES ASSUME NEW k \in 1..n, NEW x \in T[k - 1] PROVE G[<<k, x>>] = ReadTurn(x)
    OBVIOUS
  <2>1. x \in U
    BY <1>1
  <2> HIDE DEF U
  <2> QED
    BY <2>1
<1> HIDE DEF G, U
<1>3. PICK g : StepsWithin(g, n, a, G, T)
  BY <1>2, StepsIn DEF Leads
<1>4. Turns(g)
  <2>1. \A k \in 0..n : g[k] = IF k = 0 THEN a ELSE ReadTurn(g[k - 1])
    <3> TAKE k \in 0..n
    <3>1. k # 0 => k \in 1..n /\ k - 1 \in 0..n
      OBVIOUS
    <3> QED
      BY <1>2, <1>3, <3>1 DEF StepsWithin
  <2>2. g = [k \in 0..n |-> g[k]]
    BY <1>3 DEF StepsWithin
  <2> QED
    BY <2>1, <2>2, Zenon
<1>5. Turns(h)
  BY <1>4
<1>6. Loop(ReadTurn, a, n) = h[n]
  BY Zenon DEF Loop
<1> HIDE DEF h
<1>7. \A k \in 0..n : h[k] = IF k = 0 THEN a ELSE ReadTurn(h[k - 1])
  BY <1>5, Zenon
<1>8. h[0] \in T[0] /\ \A k \in 1..n : h[k - 1] \in T[k - 1] => h[k] \in T[k]
  <2>1. h[0] = a
    BY <1>7
  <2>2. \A k \in 1..n : h[k] = ReadTurn(h[k - 1])
    <3> TAKE k \in 1..n
    <3>1. k \in 0..n /\ k # 0
      OBVIOUS
    <3> QED
      BY <1>7, <3>1, Zenon
  <2> QED
    BY <2>1, <2>2
<1> HIDE DEF Turns
<1>9. \A k \in 0..n : h[k] \in T[k]
  BY <1>8, StepsKeep
<1> QED
  BY <1>6, <1>9

LEMMA RecordLoop ==
  ASSUME NEW n \in Nat, NEW T, NEW a \in T[0],
         \A k \in 1..n : \A x \in T[k - 1] : RecordTurn(x) \in T[k]
  PROVE  Loop(RecordTurn, a, n) \in T[n]
<1> DEFINE U == UNION {T[k] : k \in 0..n}
           G == [p \in (1..n) \X U |-> RecordTurn(p[2])]
           Turns(g) == g = [k \in 0..n |-> IF k = 0 THEN a ELSE RecordTurn(g[k - 1])]
           h == CHOOSE g : Turns(g)
<1>1. \A k \in 0..n : \A x \in T[k] : x \in U
  OBVIOUS
<1>2. \A k \in 1..n : \A x \in T[k - 1] : G[<<k, x>>] = RecordTurn(x)
  <2> SUFFICES ASSUME NEW k \in 1..n, NEW x \in T[k - 1] PROVE G[<<k, x>>] = RecordTurn(x)
    OBVIOUS
  <2>1. x \in U
    BY <1>1
  <2> HIDE DEF U
  <2> QED
    BY <2>1
<1> HIDE DEF G, U
<1>3. PICK g : StepsWithin(g, n, a, G, T)
  BY <1>2, StepsIn DEF Leads
<1>4. Turns(g)
  <2>1. \A k \in 0..n : g[k] = IF k = 0 THEN a ELSE RecordTurn(g[k - 1])
    <3> TAKE k \in 0..n
    <3>1. k # 0 => k \in 1..n /\ k - 1 \in 0..n
      OBVIOUS
    <3> QED
      BY <1>2, <1>3, <3>1 DEF StepsWithin
  <2>2. g = [k \in 0..n |-> g[k]]
    BY <1>3 DEF StepsWithin
  <2> QED
    BY <2>1, <2>2, Zenon
<1>5. Turns(h)
  BY <1>4
<1>6. Loop(RecordTurn, a, n) = h[n]
  BY Zenon DEF Loop
<1> HIDE DEF h
<1>7. \A k \in 0..n : h[k] = IF k = 0 THEN a ELSE RecordTurn(h[k - 1])
  BY <1>5, Zenon
<1>8. h[0] \in T[0] /\ \A k \in 1..n : h[k - 1] \in T[k - 1] => h[k] \in T[k]
  <2>1. h[0] = a
    BY <1>7
  <2>2. \A k \in 1..n : h[k] = RecordTurn(h[k - 1])
    <3> TAKE k \in 1..n
    <3>1. k \in 0..n /\ k # 0
      OBVIOUS
    <3> QED
      BY <1>7, <3>1, Zenon
  <2> QED
    BY <2>1, <2>2
<1> HIDE DEF Turns
<1>9. \A k \in 0..n : h[k] \in T[k]
  BY <1>8, StepsKeep
<1> QED
  BY <1>6, <1>9

LEMMA WriteLoop ==
  ASSUME NEW n \in Nat, NEW T, NEW a \in T[0],
         \A k \in 1..n : \A x \in T[k - 1] : WriteTurn(x) \in T[k]
  PROVE  Loop(WriteTurn, a, n) \in T[n]
<1> DEFINE U == UNION {T[k] : k \in 0..n}
           G == [p \in (1..n) \X U |-> WriteTurn(p[2])]
           Turns(g) == g = [k \in 0..n |-> IF k = 0 THEN a ELSE WriteTurn(g[k - 1])]
           h == CHOOSE g : Turns(g)
<1>1. \A k \in 0..n : \A x \in T[k] : x \in U
  OBVIOUS
<1>2. \A k \in 1..n : \A x \in T[k - 1] : G[<<k, x>>] = WriteTurn(x)
  <2> SUFFICES ASSUME NEW k \in 1..n, NEW x \in T[k - 1] PROVE G[<<k, x>>] = WriteTurn(x)
    OBVIOUS
  <2>1. x \in U
    BY <1>1
  <2> HIDE DEF U
  <2> QED
    BY <2>1
<1> HIDE DEF G, U
<1>3. PICK g : StepsWithin(g, n, a, G, T)
  BY <1>2, StepsIn DEF Leads
<1>4. Turns(g)
  <2>1. \A k \in 0..n : g[k] = IF k = 0 THEN a ELSE WriteTurn(g[k - 1])
    <3> TAKE k \in 0..n
    <3>1. k # 0 => k \in 1..n /\ k - 1 \in 0..n
      OBVIOUS
    <3> QED
      BY <1>2, <1>3, <3>1 DEF StepsWithin
  <2>2. g = [k \in 0..n |-> g[k]]
    BY <1>3 DEF StepsWithin
  <2> QED
    BY <2>1, <2>2, Zenon
<1>5. Turns(h)
  BY <1>4
<1>6. Loop(WriteTurn, a, n) = h[n]
  BY Zenon DEF Loop
<1> HIDE DEF h
<1>7. \A k \in 0..n : h[k] = IF k = 0 THEN a ELSE WriteTurn(h[k - 1])
  BY <1>5, Zenon
<1>8. h[0] \in T[0] /\ \A k \in 1..n : h[k - 1] \in T[k - 1] => h[k] \in T[k]
  <2>1. h[0] = a
    BY <1>7
  <2>2. \A k \in 1..n : h[k] = WriteTurn(h[k - 1])
    <3> TAKE k \in 1..n
    <3>1. k \in 0..n /\ k # 0
      OBVIOUS
    <3> QED
      BY <1>7, <3>1, Zenon
  <2> QED
    BY <2>1, <2>2
<1> HIDE DEF Turns
<1>9. \A k \in 0..n : h[k] \in T[k]
  BY <1>8, StepsKeep
<1> QED
  BY <1>6, <1>9
-----------------------------------------------------------------------------
(* A stream, and what a call that takes bytes from it leaves of it *)

Streams ==
  [arrived : Seq(Nat), ended : BOOLEAN, early : BOOLEAN, out : Seq(Nat),
   buf : Seq(Nat), readpos : Nat, cap : Nat, position : Nat, eof : BOOLEAN,
   chunk : {ChunkSize}, nobuf : {FALSE}, noseek : {TRUE}, eol : {"unix"}, plain : {FALSE},
   readfilters : Seq(Filters), writefilters : Seq(Filters)]

\* The buffer holds what has been consumed of it, and at the end the filters have
\* been told of it.
Sane(x) ==
  /\ x \in Streams /\ x.readpos <= Len(x.buf) /\ Len(x.buf) <= x.cap
  /\ x.eof /\ ~x.early => Drained(x.readfilters)

\* What the reader will get of x, the oldest first, and how much of it is not in the buffer.
Content(x) == (Unread(x) \o Held(x.readfilters)) \o x.arrived
Inside(x) == Len(Held(x.readfilters)) + Len(x.arrived)

\* What reading leaves alone.
Same(x, y) ==
  /\ y.early = x.early /\ y.ended = x.ended /\ y.out = x.out
  /\ y.writefilters = x.writefilters
  /\ SameKinds(x.readfilters, y.readfilters)

\* A filter has failed with bytes in hand.
Lossy(x, y) == Refusing(x.readfilters) /\ Inside(y) < Inside(x)

\* From x, got was taken, which left y, ...
Gone(x, got, y) ==
  /\ Sane(y) /\ Same(x, y) /\ got \in Seq(Nat) /\ Inside(y) <= Inside(x)
  /\ Content(x) = got \o Content(y) \/ Lossy(x, y)

\* ... and has not been counted yet.
Kept(x, got, y) == Gone(x, got, y) /\ y.position = x.position

LEMMA StreamFields ==
  ASSUME NEW x, Sane(x)
  PROVE  /\ x \in Streams /\ x.buf \in Seq(Nat) /\ x.arrived \in Seq(Nat) /\ x.out \in Seq(Nat)
         /\ Len(x.buf) \in Nat /\ x.readpos \in Nat /\ x.readpos \in 0..Len(x.buf)
         /\ x.cap \in Nat /\ Len(x.buf) <= x.cap /\ x.position \in Nat
         /\ x.early \in BOOLEAN /\ x.ended \in BOOLEAN /\ x.eof \in BOOLEAN
         /\ x.chunk = ChunkSize /\ x.nobuf = FALSE /\ x.noseek = TRUE /\ x.plain = FALSE
         /\ x.readfilters \in Seq(Filters) /\ x.writefilters \in Seq(Filters)
<1>1. x \in Streams /\ x.readpos <= Len(x.buf) /\ Len(x.buf) <= x.cap
  BY DEF Sane
<1>2. /\ x.buf \in Seq(Nat) /\ x.arrived \in Seq(Nat) /\ x.out \in Seq(Nat)
      /\ x.readpos \in Nat /\ x.cap \in Nat /\ x.position \in Nat
      /\ x.early \in BOOLEAN /\ x.ended \in BOOLEAN /\ x.eof \in BOOLEAN
      /\ x.chunk = ChunkSize /\ x.nobuf = FALSE /\ x.noseek = TRUE /\ x.plain = FALSE
      /\ x.readfilters \in Seq(Filters) /\ x.writefilters \in Seq(Filters)
  BY <1>1 DEF Streams
<1>3. Len(x.buf) \in Nat
  BY <1>2
<1> QED
  BY <1>1, <1>2, <1>3

LEMMA UnreadFields ==
  ASSUME NEW x, Sane(x)
  PROVE  /\ Unread(x) \in Seq(Nat) /\ Len(Unread(x)) = Len(x.buf) - x.readpos
         /\ Avail(x) \in Nat /\ Avail(x) = Len(Unread(x))
         /\ Held(x.readfilters) \in Seq(Nat) /\ Content(x) \in Seq(Nat) /\ Inside(x) \in Nat
<1>1. /\ x.buf \in Seq(Nat) /\ x.readpos \in 0..Len(x.buf) /\ x.arrived \in Seq(Nat)
      /\ x.readfilters \in Seq(Filters)
  BY StreamFields
<1>2. /\ SubSeq(x.buf, x.readpos + 1, Len(x.buf)) \in Seq(Nat)
      /\ Len(SubSeq(x.buf, x.readpos + 1, Len(x.buf))) = Len(x.buf) - x.readpos
  <2> DEFINE b == x.buf
             p == x.readpos
  <2>1. b \in Seq(Nat) /\ p \in 0..Len(b)
    BY <1>1
  <2> HIDE DEF b, p
  <2>2. SubSeq(b, p + 1, Len(b)) \in Seq(Nat) /\ Len(SubSeq(b, p + 1, Len(b))) = Len(b) - p
    BY <2>1
  <2> QED
    BY <2>2 DEF b, p
<1>3. Held(x.readfilters) \in Seq(Nat)
  BY <1>1, HeldType
<1>4. Unread(x) \in Seq(Nat) /\ Len(Unread(x)) = Len(x.buf) - x.readpos /\ Avail(x) = Len(Unread(x))
  BY <1>2 DEF Unread, Avail
<1>5. Content(x) \in Seq(Nat) /\ Inside(x) \in Nat
  <2> DEFINE u == Unread(x)
             h == Held(x.readfilters)
             a == x.arrived
  <2>1. u \in Seq(Nat) /\ h \in Seq(Nat) /\ a \in Seq(Nat)
    BY <1>1, <1>3, <1>4
  <2> HIDE DEF u, h, a
  <2>2. (u \o h) \o a \in Seq(Nat) /\ Len(h) + Len(a) \in Nat
    BY <2>1
  <2> QED
    BY <2>2 DEF Content, Inside, u, h, a
<1>6. Avail(x) \in Nat
  BY <1>4
<1> QED
  BY <1>3, <1>4, <1>5, <1>6

LEMMA SameTwice ==
  ASSUME NEW x, NEW y, NEW z, Same(x, y), Same(y, z)
  PROVE  Same(x, z) /\ (Refusing(y.readfilters) => Refusing(x.readfilters))
BY DEF Same, SameKinds, Refusing

LEMMA GoneTwice ==
  ASSUME NEW x, Sane(x), NEW a, NEW y, Gone(x, a, y), NEW b, NEW z, Gone(y, b, z)
  PROVE  Gone(x, a \o b, z)
<1>1. /\ Sane(y) /\ Sane(z) /\ Same(x, y) /\ Same(y, z) /\ a \in Seq(Nat) /\ b \in Seq(Nat)
      /\ Inside(y) <= Inside(x) /\ Inside(z) <= Inside(y)
  BY DEF Gone
<1>2. Inside(x) \in Nat /\ Inside(y) \in Nat /\ Inside(z) \in Nat /\ Content(z) \in Seq(Nat)
  BY <1>1, UnreadFields
<1>3. Same(x, z) /\ (Refusing(y.readfilters) => Refusing(x.readfilters))
  BY <1>1, SameTwice
<1>4. a \o b \in Seq(Nat) /\ (a \o b) \o Content(z) = a \o (b \o Content(z))
  <2> DEFINE c == Content(z)
  <2>1. c \in Seq(Nat)
    BY <1>2
  <2> HIDE DEF c
  <2>2. a \o b \in Seq(Nat) /\ (a \o b) \o c = a \o (b \o c)
    BY <1>1, <2>1, BytesAssoc
  <2> QED
    BY <2>2 DEF c
<1>5. CASE Lossy(x, y) \/ Lossy(y, z)
  <2>1. Lossy(x, z)
    BY <1>1, <1>2, <1>3, <1>5 DEF Lossy
  <2> QED
    BY <1>1, <1>2, <1>3, <1>4, <2>1 DEF Gone
<1>6. CASE ~(Lossy(x, y) \/ Lossy(y, z))
  <2>1. Content(x) = a \o Content(y) /\ Content(y) = b \o Content(z)
    BY <1>6 DEF Gone
  <2> QED
    BY <1>1, <1>2, <1>3, <1>4, <2>1 DEF Gone
<1> QED
  BY <1>5, <1>6

LEMMA KeptTwice ==
  ASSUME NEW x, Sane(x), NEW a, NEW y, Kept(x, a, y), NEW b, NEW z, Kept(y, b, z)
  PROVE  Kept(x, a \o b, z)
BY GoneTwice DEF Kept

LEMMA LeastOf ==
  ASSUME NEW a \in Nat, NEW b \in Nat
  PROVE  /\ Least(a, b) \in Nat /\ Least(a, b) <= a /\ Least(a, b) <= b
         /\ Least(a, b) = a \/ Least(a, b) = b
<1>1. \E x \in {a, b} : \A y \in {a, b} : x <= y
  OBVIOUS
<1>2. Least(a, b) \in {a, b} /\ \A y \in {a, b} : Least(a, b) <= y
  BY <1>1 DEF Least, Min
<1> QED
  BY <1>2

\* The connection gives from its front, and the end is noticed by a read that finds nothing.
Took(x, n, r) ==
  /\ r.s \in Streams /\ r.got \in Seq(Nat) /\ Len(r.got) <= n
  /\ x.arrived = r.got \o r.s.arrived
  /\ r.s.buf = x.buf /\ r.s.readpos = x.readpos /\ r.s.cap = x.cap /\ r.s.position = x.position
  /\ r.s.early = x.early /\ r.s.ended = x.ended /\ r.s.out = x.out
  /\ r.s.readfilters = x.readfilters /\ r.s.writefilters = x.writefilters
  /\ r.s.eof /\ ~r.s.early => r.got = <<>>

LEMMA OpReadTakes ==
  ASSUME NEW x \in Streams, NEW n \in Nat
  PROVE  Took(x, n, OpRead(x, n))
<1> DEFINE k == IF n < Len(x.arrived) THEN n ELSE Len(x.arrived)
           rest == SubSeq(x.arrived, k + 1, Len(x.arrived))
           got == SubSeq(x.arrived, 1, k)
           e == x.ended /\ (k = 0 \/ (x.early /\ k = Len(x.arrived)))
           t == [x EXCEPT !.arrived = rest, !.eof = e]
           r == OpRead(x, n)
<1>1. x.arrived \in Seq(Nat) /\ x.ended \in BOOLEAN /\ x.early \in BOOLEAN
  BY DEF Streams
<1>2. k \in 0..Len(x.arrived) /\ k <= n
  BY <1>1
<1>3. e \in BOOLEAN /\ (e /\ ~x.early => k = 0)
  BY <1>1
<1>4. r = [s |-> t, got |-> got]
  BY Zenon DEF OpRead
<1> HIDE DEF k, e
<1>5. got \in Seq(Nat) /\ Len(got) = k /\ rest \in Seq(Nat) /\ got \o rest = x.arrived
  BY <1>1, <1>2, Split
<1> HIDE DEF got, rest
<1>6. /\ t \in Streams /\ t.arrived = rest /\ t.eof = e
      /\ t.buf = x.buf /\ t.readpos = x.readpos /\ t.cap = x.cap /\ t.position = x.position
      /\ t.early = x.early /\ t.ended = x.ended /\ t.out = x.out
      /\ t.readfilters = x.readfilters /\ t.writefilters = x.writefilters
  BY <1>3, <1>5 DEF Streams
<1> HIDE DEF t, r
<1>7. r.s = t /\ r.got = got
  BY <1>4
<1>8. k = 0 => got = <<>>
  BY <1>5
<1>9. Took(x, n, r)
  BY <1>2, <1>3, <1>5, <1>6, <1>7, <1>8 DEF Took
<1> QED
  BY <1>9 DEF r
-----------------------------------------------------------------------------
(* Filling the read buffer *)

InTheMiddle(a, b, c, d) == (a \o b) \o (c \o d) = (a \o (b \o c)) \o d

LEMMA InTheMiddleIs ==
  ASSUME NEW a \in Seq(Nat), NEW b \in Seq(Nat), NEW c \in Seq(Nat), NEW d \in Seq(Nat)
  PROVE  InTheMiddle(a, b, c, d)
<1> DEFINE p == a \o b
<1>1. p \in Seq(Nat)
  OBVIOUS
<1>2. p \o c = a \o (b \o c)
  BY BytesAssoc
<1> HIDE DEF p
<1>3. p \o (c \o d) = (p \o c) \o d
  BY <1>1, BytesAssoc
<1> QED
  BY <1>2, <1>3 DEF p, InTheMiddle

\* The bytes h and g are replaced by o and k in the same order.
Rearranged(u, h, g, a, o, k) ==
  h \o g = o \o k => (u \o h) \o (g \o a) = ((u \o o) \o k) \o a

LEMMA RearrangedIs ==
  ASSUME NEW u \in Seq(Nat), NEW h \in Seq(Nat), NEW g \in Seq(Nat), NEW a \in Seq(Nat),
         NEW o \in Seq(Nat), NEW k \in Seq(Nat)
  PROVE  Rearranged(u, h, g, a, o, k)
<1>1. InTheMiddle(u, h, g, a)
  BY InTheMiddleIs
<1>2. (u \o o) \o k = u \o (o \o k)
  BY BytesAssoc
<1> QED
  BY <1>1, <1>2, Zenon DEF InTheMiddle, Rearranged

\* What is put at the end of the buffer is behind the unread bytes.
LEMMA ReceivedKeeps ==
  ASSUME NEW x, x \in Streams, x.readpos <= Len(x.buf), Len(x.buf) <= x.cap, NEW o \in Seq(Nat)
  PROVE  LET t == Received(x, o)
         IN /\ t \in Streams /\ t.readpos <= Len(t.buf) /\ Len(t.buf) <= t.cap
            /\ Unread(t) = Unread(x) \o o /\ t.arrived = x.arrived /\ t.eof = x.eof
            /\ t.early = x.early /\ t.ended = x.ended /\ t.out = x.out /\ t.position = x.position
            /\ t.readfilters = x.readfilters /\ t.writefilters = x.writefilters
<1> DEFINE b == x.buf
           p == x.readpos
           c == IF x.cap - Len(x.buf) < Len(o) THEN x.cap + Len(o) ELSE x.cap
           d == b \o o
           t == Received(x, o)
<1>1. b \in Seq(Nat) /\ p \in Nat /\ x.cap \in Nat
  BY DEF Streams
<1>2. Len(b) \in Nat /\ Len(o) \in Nat /\ p \in 0..Len(b)
  BY <1>1
<1>3. c \in Nat /\ Len(b) + Len(o) <= c
  BY <1>1, <1>2
<1>4. d \in Seq(Nat) /\ Len(d) = Len(b) + Len(o)
  <2> HIDE DEF b
  <2> QED
    BY <1>1
<1>5. t = [x EXCEPT !.buf = d, !.cap = c]
  BY DEF Received
<1>6. SubSeq(d, p + 1, Len(d)) = SubSeq(b, p + 1, Len(b)) \o o
  <2> HIDE DEF b, p
  <2> QED
    BY <1>1, <1>2, TailOfConcat
<1> HIDE DEF t, c, d
<1>7. /\ t \in Streams /\ t.buf = d /\ t.readpos = p /\ t.cap = c /\ t.arrived = x.arrived
      /\ t.early = x.early /\ t.ended = x.ended /\ t.out = x.out /\ t.position = x.position
      /\ t.readfilters = x.readfilters /\ t.writefilters = x.writefilters /\ t.eof = x.eof
  BY <1>3, <1>4, <1>5 DEF Streams
<1>8. Unread(t) = Unread(x) \o o
  BY <1>6, <1>7 DEF Unread
<1>9. t.readpos <= Len(t.buf) /\ Len(t.buf) <= t.cap
  BY <1>2, <1>3, <1>4, <1>7
<1> QED
  BY <1>7, <1>8, <1>9 DEF t

\* What is read through the filters is lost only by one that fails.
LEMMA ThroughKeeps ==
  ASSUME NEW y, Sane(y), NEW n \in Nat, NEW r, Took(y, n, r),
         NEW w, Winds(y.readfilters, r.got, FillFlag(r.s, r.got), w)
  PROVE  Kept(y, <<>>, Received([r.s EXCEPT !.readfilters = w.chain], Passing(w)))
<1> DEFINE c == w.chain
           o == Passing(w)
           q == [r.s EXCEPT !.readfilters = c]
           t == Received(q, o)
           h == Held(y.readfilters)
           k == Held(c)
           u == Unread(y)
           a == r.s.arrived
<1> SUFFICES Kept(y, <<>>, t)
  OBVIOUS
<1>1. /\ w \in Brigades /\ SameKinds(y.readfilters, c)
      /\ w.status = "ERR_FATAL" => Refusing(y.readfilters) /\ Len(k) < Len(h) + Len(r.got)
      /\ w.status # "ERR_FATAL" => h \o r.got = o \o k
      /\ FillFlag(r.s, r.got) = "FLUSH_CLOSE" => Drained(c)
  BY DEF Winds
<1>2. c \in Seq(Filters) /\ o \in Seq(Nat) /\ <<>> \in Seq(Nat)
  BY <1>1 DEF Brigades, Passing
<1>3. /\ r.s \in Streams /\ r.got \in Seq(Nat) /\ y.arrived = r.got \o a
      /\ r.s.buf = y.buf /\ r.s.readpos = y.readpos /\ r.s.cap = y.cap /\ r.s.position = y.position
      /\ r.s.early = y.early /\ r.s.ended = y.ended /\ r.s.out = y.out
      /\ r.s.readfilters = y.readfilters /\ r.s.writefilters = y.writefilters
      /\ r.s.eof /\ ~r.s.early => r.got = <<>>
  BY DEF Took
<1> HIDE DEF c, o
<1>4. /\ q \in Streams /\ q.buf = y.buf /\ q.readpos = y.readpos /\ q.cap = y.cap
      /\ q.position = y.position /\ q.early = y.early /\ q.ended = y.ended /\ q.out = y.out
      /\ q.readfilters = c /\ q.writefilters = y.writefilters /\ q.arrived = a /\ q.eof = r.s.eof
  BY <1>2, <1>3 DEF Streams
<1>5. q.readpos <= Len(q.buf) /\ Len(q.buf) <= q.cap
  BY <1>4 DEF Sane
<1> HIDE DEF q
<1>6. /\ t \in Streams /\ t.readpos <= Len(t.buf) /\ Len(t.buf) <= t.cap
      /\ Unread(t) = Unread(q) \o o /\ t.arrived = a /\ t.eof = r.s.eof
      /\ t.early = y.early /\ t.ended = y.ended /\ t.out = y.out /\ t.position = y.position
      /\ t.readfilters = c /\ t.writefilters = y.writefilters
  BY <1>2, <1>4, <1>5, ReceivedKeeps
<1> HIDE DEF t
<1>7. Unread(q) = u
  BY <1>4 DEF Unread
<1>8. Sane(t)
  <2>1. t.eof /\ ~t.early => FillFlag(r.s, r.got) = "FLUSH_CLOSE"
    BY <1>3, <1>6 DEF FillFlag
  <2> QED
    BY <1>1, <1>6, <2>1 DEF Sane
<1>9. Same(y, t)
  BY <1>1, <1>6 DEF Same
<1>10. u \in Seq(Nat) /\ h \in Seq(Nat) /\ k \in Seq(Nat) /\ a \in Seq(Nat) /\ Content(t) \in Seq(Nat)
  <2>1. a \in Seq(Nat)
    BY <1>3 DEF Streams
  <2>2. u \in Seq(Nat) /\ h \in Seq(Nat) /\ Content(t) \in Seq(Nat)
    BY <1>8, UnreadFields
  <2>3. k \in Seq(Nat)
    BY <1>2, HeldType
  <2> QED
    BY <2>1, <2>2, <2>3
<1>11. Inside(y) = Len(h) + Len(y.arrived) /\ Inside(t) = Len(k) + Len(a)
  BY <1>6 DEF Inside
<1>12. Content(y) = (u \o h) \o (r.got \o a) /\ Content(t) = ((u \o o) \o k) \o a
  BY <1>3, <1>6, <1>7 DEF Content
<1> HIDE DEF u, h, k, a
<1>13. Len(y.arrived) = Len(r.got) + Len(a) /\ Len(r.got) \in Nat /\ Len(a) \in Nat
       /\ Len(h) \in Nat /\ Len(k) \in Nat
  <2> DEFINE g == r.got
  <2>1. g \in Seq(Nat) /\ y.arrived = g \o a
    BY <1>3
  <2> HIDE DEF g
  <2>2. Len(y.arrived) = Len(g) + Len(a) /\ Len(g) \in Nat /\ Len(a) \in Nat
        /\ Len(h) \in Nat /\ Len(k) \in Nat
    BY <1>10, <2>1
  <2> QED
    BY <2>2 DEF g
<1>14. CASE w.status = "ERR_FATAL"
  <2>1. Lossy(y, t)
    BY <1>1, <1>11, <1>13, <1>14 DEF Lossy
  <2> QED
    BY <1>2, <1>8, <1>9, <1>11, <1>13, <1>14, <2>1, <1>1, <1>6 DEF Kept, Gone
<1>15. CASE w.status # "ERR_FATAL"
  <2>1. h \o r.got = o \o k
    BY <1>1, <1>15
  <2>2. Content(y) = Content(t)
    <3> DEFINE g == r.got
    <3>1. g \in Seq(Nat) /\ h \o g = o \o k
      BY <1>3, <2>1
    <3> HIDE DEF g
    <3>2. Rearranged(u, h, g, a, o, k)
      BY <1>2, <1>10, <3>1, RearrangedIs
    <3> QED
      BY <1>12, <3>1, <3>2, Zenon DEF g, Rearranged
  <2>3. <<>> \o Content(t) = Content(t)
    BY <1>10, ConcatEmpty
  <2>4. Len(h) + Len(r.got) = Len(o) + Len(k) /\ Len(o) \in Nat
    <3> DEFINE g == r.got
    <3>1. g \in Seq(Nat) /\ h \o g = o \o k
      BY <1>3, <2>1
    <3> HIDE DEF g
    <3>2. Len(h \o g) = Len(h) + Len(g) /\ Len(o \o k) = Len(o) + Len(k) /\ Len(o) \in Nat
      BY <1>2, <1>10, <3>1
    <3> QED
      BY <3>1, <3>2 DEF g
  <2>5. Inside(t) <= Inside(y)
    BY <1>11, <1>13, <2>4
  <2> QED
    BY <1>2, <1>6, <1>8, <1>9, <2>2, <2>3, <2>5 DEF Kept, Gone
<1> QED
  BY <1>14, <1>15

\* y differs from x in how its buffer is laid out.
Alike(x, y) ==
  /\ y \in Streams /\ y.readpos <= Len(y.buf) /\ Len(y.buf) <= y.cap
  /\ Unread(y) = Unread(x) /\ y.arrived = x.arrived /\ y.eof = x.eof
  /\ y.early = x.early /\ y.ended = x.ended /\ y.out = x.out /\ y.position = x.position
  /\ y.readfilters = x.readfilters /\ y.writefilters = x.writefilters

LEMMA AlikeKept ==
  ASSUME NEW x, Sane(x), NEW y, Alike(x, y)
  PROVE  Kept(x, <<>>, y)
<1>1. Sane(y)
  BY DEF Sane, Alike
<1>2. Same(x, y)
  BY DEF Same, SameKinds, Alike
<1>3. Content(y) = Content(x) /\ Inside(y) = Inside(x)
  BY DEF Content, Inside, Alike
<1>4. Content(y) \in Seq(Nat) /\ Inside(x) \in Nat
  BY <1>1, UnreadFields
<1>5. <<>> \o Content(y) = Content(y) /\ <<>> \in Seq(Nat)
  BY <1>4, ConcatEmpty
<1> QED
  BY <1>1, <1>2, <1>3, <1>4, <1>5 DEF Kept, Gone, Alike

LEMMA AlikeTwice ==
  ASSUME NEW x, NEW y, NEW z, Alike(x, y), Alike(y, z)
  PROVE  Alike(x, z)
BY DEF Alike

LEMMA AlikeSelf ==
  ASSUME NEW x, Sane(x)
  PROVE  Alike(x, x)
BY DEF Alike, Sane

LEMMA ForgetAlike ==
  ASSUME NEW x, Sane(x), Unread(x) = <<>>
  PROVE  Alike(x, Forget(x))
<1> DEFINE t == Forget(x)
<1>1. t = [x EXCEPT !.buf = <<>>, !.readpos = 0]
  BY DEF Forget
<1>2. x \in Streams /\ x.cap \in Nat /\ <<>> \in Seq(Nat) /\ 0 \in Nat /\ Len(<<>>) = 0
  <2>1. <<>> \in Seq(Nat) /\ 0 \in Nat /\ Len(<<>>) = 0
    OBVIOUS
  <2> QED
    BY <2>1, StreamFields
<1> HIDE DEF t
<1>3. /\ t \in Streams /\ t.buf = <<>> /\ t.readpos = 0 /\ t.cap = x.cap
      /\ t.arrived = x.arrived /\ t.eof = x.eof
      /\ t.early = x.early /\ t.ended = x.ended /\ t.out = x.out /\ t.position = x.position
      /\ t.readfilters = x.readfilters /\ t.writefilters = x.writefilters
  BY <1>1, <1>2 DEF Streams
<1>4. Unread(t) = <<>>
  BY <1>3 DEF Unread
<1> QED
  BY <1>2, <1>3, <1>4 DEF Alike, t

LEMMA CompactedAlike ==
  ASSUME NEW x, Sane(x)
  PROVE  Alike(x, Compacted(x)) /\ Compacted(x).chunk = x.chunk
<1> DEFINE c == Compacted(x)
<1>1. CASE ~(x.cap > 0 /\ ShortOfRoom(x))
  BY <1>1, AlikeSelf DEF Compacted
<1>2. CASE x.cap > 0 /\ ShortOfRoom(x)
  <2> DEFINE u == Unread(x)
  <2>1. u \in Seq(Nat) /\ Len(u) = Len(x.buf) - x.readpos
    BY UnreadFields
  <2>2. c = [x EXCEPT !.buf = u, !.readpos = 0]
    BY <1>2 DEF Compacted
  <2>3. x \in Streams /\ x.cap \in Nat /\ Len(x.buf) <= x.cap /\ x.readpos \in Nat
    BY StreamFields
  <2> HIDE DEF u, c
  <2>4. /\ c \in Streams /\ c.buf = u /\ c.readpos = 0 /\ c.cap = x.cap /\ c.chunk = x.chunk
        /\ c.arrived = x.arrived /\ c.eof = x.eof
        /\ c.early = x.early /\ c.ended = x.ended /\ c.out = x.out /\ c.position = x.position
        /\ c.readfilters = x.readfilters /\ c.writefilters = x.writefilters
    BY <2>1, <2>2, <2>3 DEF Streams
  <2>5. Unread(c) = u
    <3>1. SubSeq(u, 0 + 1, Len(u)) = u
      BY <2>1
    <3> QED
      BY <2>4, <3>1 DEF Unread
  <2>6. Len(u) \in Nat /\ Len(u) <= x.cap
    BY <2>1, <2>3
  <2> QED
    BY <2>4, <2>5, <2>6 DEF Alike, c, u
<1> QED
  BY <1>1, <1>2

LEMMA GrownAlike ==
  ASSUME NEW x, Sane(x)
  PROVE  Alike(x, Grown(x))
<1> DEFINE g == Grown(x)
<1>1. CASE ~ShortOfRoom(x)
  BY <1>1, AlikeSelf DEF Grown
<1>2. CASE ShortOfRoom(x)
  <2> DEFINE c == x.cap + x.chunk
  <2>1. g = [x EXCEPT !.cap = c]
    BY <1>2 DEF Grown
  <2>2. x \in Streams /\ x.cap \in Nat /\ Len(x.buf) <= x.cap /\ x.chunk \in Nat /\ Len(x.buf) \in Nat
    BY StreamFields, FiltersAssumption
  <2>3. c \in Nat /\ Len(x.buf) <= c
    BY <2>2
  <2> HIDE DEF c, g
  <2>4. /\ g \in Streams /\ g.buf = x.buf /\ g.readpos = x.readpos /\ g.cap = c
        /\ g.arrived = x.arrived /\ g.eof = x.eof
        /\ g.early = x.early /\ g.ended = x.ended /\ g.out = x.out /\ g.position = x.position
        /\ g.readfilters = x.readfilters /\ g.writefilters = x.writefilters
    BY <2>1, <2>2, <2>3 DEF Streams
  <2>5. Unread(g) = Unread(x) /\ g.readpos <= Len(g.buf)
    BY <2>4 DEF Unread, Sane
  <2> QED
    BY <2>3, <2>4, <2>5 DEF Alike, g
<1> QED
  BY <1>1, <1>2

\* Without filters a fill puts behind the buffer what it takes from the connection.
LEMMA PlainFillKeeps ==
  ASSUME NEW x, Sane(x), x.readfilters = <<>>, NEW n \in Nat
  PROVE  Kept(x, <<>>, FillReadBuffer(x, n))
<1> DEFINE c == Compacted(x)
           g == Grown(c)
           room == g.cap - Len(g.buf)
           r == OpRead(g, room)
           b == g.buf \o r.got
           t == Buffered(r)
<1>1. CASE Avail(x) >= n
  <2>1. FillReadBuffer(x, n) = x
    BY <1>1 DEF FillReadBuffer
  <2> QED
    BY <2>1, AlikeSelf, AlikeKept
<1>2. CASE ~(Avail(x) >= n)
  <2>1. FillReadBuffer(x, n) = t
    BY <1>2 DEF FillReadBuffer, FillRoom
  <2>2. Alike(x, c)
    BY CompactedAlike
  <2>3. Sane(c)
    BY <2>2, AlikeKept DEF Kept, Gone
  <2> HIDE DEF c
  <2>4. Alike(x, g)
    BY <2>2, <2>3, GrownAlike, AlikeTwice
  <2>5. Sane(g)
    BY <2>4, AlikeKept DEF Kept, Gone
  <2> HIDE DEF g
  <2>6. /\ g \in Streams /\ g.buf \in Seq(Nat) /\ Len(g.buf) \in Nat /\ g.readpos \in 0..Len(g.buf)
        /\ g.cap \in Nat /\ Len(g.buf) <= g.cap
    BY <2>5, StreamFields
  <2>7. room \in Nat /\ Len(g.buf) + room = g.cap
    BY <2>6
  <2> HIDE DEF room
  <2>8. Took(g, room, r)
    BY <2>6, <2>7, OpReadTakes
  <2> HIDE DEF r
  <2>9. /\ r.s \in Streams /\ r.got \in Seq(Nat) /\ Len(r.got) <= room
        /\ x.arrived = r.got \o r.s.arrived
        /\ r.s.buf = g.buf /\ r.s.readpos = g.readpos /\ r.s.cap = g.cap /\ r.s.position = x.position
        /\ r.s.early = x.early /\ r.s.ended = x.ended /\ r.s.out = x.out
        /\ r.s.readfilters = <<>> /\ r.s.writefilters = x.writefilters
    BY <2>4, <2>8 DEF Took, Alike
  <2>10. b \in Seq(Nat) /\ Len(b) = Len(g.buf) + Len(r.got) /\ Len(r.got) \in Nat
         /\ SubSeq(b, g.readpos + 1, Len(b)) = Unread(g) \o r.got
    <3> DEFINE d == g.buf
               p == g.readpos
               o == r.got
    <3>1. d \in Seq(Nat) /\ p \in 0..Len(d) /\ o \in Seq(Nat)
      BY <2>6, <2>9
    <3>2. b = d \o o
      OBVIOUS
    <3> HIDE DEF d, p, o, b
    <3>3. d \o o \in Seq(Nat) /\ Len(d \o o) = Len(d) + Len(o) /\ Len(o) \in Nat
      BY <3>1
    <3>4. SubSeq(d \o o, p + 1, Len(d \o o)) = SubSeq(d, p + 1, Len(d)) \o o
      BY <3>1, TailOfConcat
    <3> QED
      BY <3>2, <3>3, <3>4 DEF d, p, o, Unread
  <2>11. t = [r.s EXCEPT !.buf = b]
    BY <2>9 DEF Buffered
  <2> HIDE DEF t, b
  <2>12. /\ t \in Streams /\ t.buf = b /\ t.readpos = g.readpos /\ t.cap = g.cap
         /\ t.position = x.position /\ t.arrived = r.s.arrived
         /\ t.early = x.early /\ t.ended = x.ended /\ t.out = x.out
         /\ t.readfilters = <<>> /\ t.writefilters = x.writefilters
    BY <2>9, <2>10, <2>11 DEF Streams
  <2>13. Unread(t) = Unread(x) \o r.got
    BY <2>4, <2>10, <2>12 DEF Unread, Alike
  <2>14. t.readpos <= Len(t.buf) /\ Len(t.buf) <= t.cap
    <3>1. Len(t.buf) = Len(g.buf) + Len(r.got) /\ t.cap = g.cap /\ t.readpos = g.readpos
      BY <2>10, <2>12
    <3>2. Len(r.got) <= room /\ Len(r.got) \in Nat
      BY <2>9, <2>10
    <3> DEFINE l == Len(g.buf)
               m == Len(r.got)
    <3>3. l \in Nat /\ g.readpos \in 0..l /\ m \in Nat /\ m <= room /\ l + room = g.cap
      BY <2>6, <2>7, <3>2
    <3>4. Len(t.buf) = l + m
      BY <3>1
    <3> HIDE DEF l, m
    <3>5. g.readpos <= l + m /\ l + m <= l + room
      BY <2>7, <3>3
    <3> QED
      BY <3>1, <3>3, <3>4, <3>5, Zenon
  <2>15. Sane(t)
    <3>1. Drained(<<>>)
      BY DEF Drained
    <3> QED
      BY <2>12, <2>14, <3>1 DEF Sane
  <2>16. Same(x, t)
    BY <2>12 DEF Same, SameKinds
  <2> DEFINE u == Unread(x)
             o == r.got
             a == r.s.arrived
  <2>17. u \in Seq(Nat) /\ o \in Seq(Nat) /\ a \in Seq(Nat) /\ Content(t) \in Seq(Nat)
    <3>1. a \in Seq(Nat)
      BY <2>9 DEF Streams
    <3> QED
      BY <2>9, <2>15, <3>1, UnreadFields
  <2>18. Content(x) = (u \o <<>>) \o (o \o a) /\ Content(t) = ((u \o o) \o <<>>) \o a
    BY <2>9, <2>12, <2>13, HeldNone DEF Content
  <2>19. Inside(x) = Len(<<>>) + Len(o \o a) /\ Inside(t) = Len(<<>>) + Len(a)
    BY <2>9, <2>12, HeldNone DEF Inside
  <2> HIDE DEF u, o, a
  <2>20. Inside(t) <= Inside(x)
    BY <2>17, <2>19
  <2>21. Content(x) = Content(t)
    <3>1. <<>> \in Seq(Nat) /\ <<>> \o o = o \o <<>>
      BY <2>17, ConcatEmpty
    <3>2. Rearranged(u, <<>>, o, a, o, <<>>)
      BY <2>17, <3>1, RearrangedIs
    <3> QED
      BY <2>18, <3>1, <3>2, Zenon DEF Rearranged
  <2>22. <<>> \o Content(t) = Content(t) /\ <<>> \in Seq(Nat)
    BY <2>17, ConcatEmpty
  <2>23. Kept(x, <<>>, t)
    BY <2>12, <2>15, <2>16, <2>20, <2>21, <2>22 DEF Kept, Gone
  <2> QED
    BY <2>1, <2>23
<1> QED
  BY <1>1, <1>2

\* Through filters it is put there when the buffer has been read, for it is dropped.
LEMMA FilteredFillKeeps ==
  ASSUME NEW x, Sane(x), Unread(x) = <<>>, NEW n \in Nat
  PROVE  Kept(x, <<>>, FillFiltered(x, n))
<1> DEFINE V == {st \in [s : Streams, size : Nat, done : BOOLEAN] : Kept(x, <<>>, st.s)}
           T == [k \in 0..(Arrivals + 2) |-> V]
           a == [s |-> Forget(x), size |-> n, done |-> FALSE]
<1>1. Arrivals + 2 \in Nat /\ 0 \in 0..(Arrivals + 2) /\ Arrivals + 2 \in 0..(Arrivals + 2)
  BY FiltersAssumption
<1>2. a \in V
  <2>1. Kept(x, <<>>, Forget(x))
    BY ForgetAlike, AlikeKept
  <2>2. Forget(x) \in Streams
    BY <2>1 DEF Kept, Gone, Sane
  <2> QED
    BY <2>1, <2>2
<1>3. ASSUME NEW st \in V PROVE FillTurn(st) \in V
  <2>1. /\ st \in [s : Streams, size : Nat, done : BOOLEAN] /\ Kept(x, <<>>, st.s)
        /\ Sane(st.s) /\ st.s.chunk \in Nat /\ st.s \in Streams /\ st.s.readfilters \in Seq(Filters)
    <3>1. Kept(x, <<>>, st.s) /\ st \in [s : Streams, size : Nat, done : BOOLEAN]
      OBVIOUS
    <3>2. Sane(st.s)
      BY <3>1 DEF Kept, Gone
    <3> QED
      BY <3>1, <3>2, StreamFields, FiltersAssumption
  <2> DEFINE r == OpRead(st.s, st.s.chunk)
             f == FillFlag(r.s, r.got)
             w == Wind(st.s.readfilters, r.got, f)
             t == Received([r.s EXCEPT !.readfilters = w.chain], Passing(w))
             d == r.got = <<>> \/ w.status = "ERR_FATAL"
  <2>2. CASE st.done \/ st.s.eof \/ Avail(st.s) >= st.size
    <3>1. FillTurn(st) = [st EXCEPT !.done = TRUE]
      BY <2>2 DEF FillTurn
    <3> QED
      BY <2>1, <3>1
  <2>3. CASE ~(st.done \/ st.s.eof \/ Avail(st.s) >= st.size)
    <3>1. FillTurn(st) = [st EXCEPT !.s = t, !.done = d]
      BY <2>3 DEF FillTurn, FillThrough, Filled, Passing
    <3>2. Took(st.s, st.s.chunk, r)
      BY <2>1, OpReadTakes
    <3> HIDE DEF r
    <3>3. f \in Flags /\ r.got \in Seq(Nat)
      BY <3>2 DEF FillFlag, Flags, Took
    <3>4. Winds(st.s.readfilters, r.got, f, w)
      <4> HIDE DEF f
      <4> QED
        BY <2>1, <3>3, WindKeeps
    <3> HIDE DEF w
    <3>5. Kept(st.s, <<>>, t)
      BY <2>1, <3>2, <3>4, ThroughKeeps
    <3> HIDE DEF t, d
    <3>6. Kept(x, <<>> \o <<>>, t)
      BY <2>1, <3>5, KeptTwice
    <3>7. <<>> \o <<>> = <<>>
      OBVIOUS
    <3>8. t \in Streams
      BY <3>5 DEF Kept, Gone, Sane
    <3>9. d \in BOOLEAN
      BY DEF d
    <3>10. [st EXCEPT !.s = t, !.done = d] \in V
      BY <2>1, <3>6, <3>7, <3>8, <3>9
    <3> QED
      BY <3>1, <3>10
  <2> QED
    BY <2>2, <2>3
<1>4. \A k \in 0..(Arrivals + 2) : T[k] = V
  OBVIOUS
<1> HIDE DEF a, T, V
<1>5. \A k \in 1..(Arrivals + 2) : \A y \in T[k - 1] : FillTurn(y) \in T[k]
  <2> TAKE k \in 1..(Arrivals + 2)
  <2>1. k \in 0..(Arrivals + 2) /\ k - 1 \in 0..(Arrivals + 2)
    BY <1>1
  <2> QED
    BY <1>3, <1>4, <2>1
<1>6. a \in T[0]
  BY <1>1, <1>2, <1>4
<1>7. Loop(FillTurn, a, Arrivals + 2) \in T[Arrivals + 2]
  <2> DEFINE m == Arrivals + 2
  <2>1. m \in Nat /\ \A k \in 1..m : \A y \in T[k - 1] : FillTurn(y) \in T[k]
    BY <1>1, <1>5
  <2> HIDE DEF m
  <2>2. Loop(FillTurn, a, m) \in T[m]
    BY <1>6, <2>1, FillLoop
  <2> QED
    BY <2>2 DEF m
<1>8. Loop(FillTurn, a, Arrivals + 2) \in V
  BY <1>1, <1>4, <1>7
<1>9. FillFiltered(x, n) = Loop(FillTurn, a, Arrivals + 2).s
  BY Zenon DEF FillFiltered, a
<1> QED
  BY <1>8, <1>9 DEF V

LEMMA FillKeeps ==
  ASSUME NEW x, Sane(x), NEW n \in Nat, x.readfilters # <<>> => Unread(x) = <<>>
  PROVE  Kept(x, <<>>, FillReadBuffer(x, n))
<1>1. CASE x.readfilters = <<>>
  BY <1>1, PlainFillKeeps
<1>2. CASE x.readfilters # <<>>
  BY <1>2, FilteredFillKeeps DEF FillReadBuffer
<1> QED
  BY <1>1, <1>2
-----------------------------------------------------------------------------
(* Reading *)

\* What is consumed comes from the front of the buffer.
Consumes(x, k, got, t) ==
  /\ Kept(x, got, t) /\ Len(got) = k /\ got = SubSeq(Unread(x), 1, k)
  /\ Unread(t) = SubSeq(Unread(x), k + 1, Len(Unread(x)))
  /\ Unread(x) = got \o Unread(t) /\ Avail(t) = Avail(x) - k
  /\ t.arrived = x.arrived /\ t.readfilters = x.readfilters

LEMMA ConsumeKeeps ==
  ASSUME NEW x, Sane(x), NEW k \in 0..Avail(x)
  PROVE  Consumes(x, k, SubSeq(Unread(x), 1, k), Consume(x, k))
<1> DEFINE u == Unread(x)
           t == Consume(x, k)
           got == SubSeq(u, 1, k)
           rest == SubSeq(u, k + 1, Len(u))
           m == x.readpos + k
           h == Held(x.readfilters)
<1> SUFFICES Consumes(x, k, got, t)
  OBVIOUS
<1>1. /\ u \in Seq(Nat) /\ Len(u) = Avail(x) /\ Len(u) = Len(x.buf) - x.readpos /\ Avail(x) \in Nat
      /\ h \in Seq(Nat)
  BY UnreadFields
<1>2. /\ x \in Streams /\ x.buf \in Seq(Nat) /\ x.readpos \in 0..Len(x.buf) /\ Len(x.buf) <= x.cap
      /\ Len(x.buf) \in Nat /\ x.arrived \in Seq(Nat)
  BY StreamFields
<1>3. k \in 0..Len(u) /\ k \in 0..(Len(x.buf) - x.readpos)
  BY <1>1
<1>4. m \in Nat /\ m <= Len(x.buf)
  BY <1>2, <1>3
<1>5. t = [x EXCEPT !.readpos = m]
  BY DEF Consume
<1> HIDE DEF m, t
<1>6. /\ t \in Streams /\ t.readpos = m /\ t.buf = x.buf /\ t.cap = x.cap /\ t.arrived = x.arrived
      /\ t.eof = x.eof /\ t.position = x.position
      /\ t.early = x.early /\ t.ended = x.ended /\ t.out = x.out
      /\ t.readfilters = x.readfilters /\ t.writefilters = x.writefilters
  BY <1>2, <1>4, <1>5 DEF Streams
<1>7. Unread(t) = rest
  <2> DEFINE b == x.buf
             p == x.readpos
  <2>1. b \in Seq(Nat) /\ p \in 0..Len(b) /\ k \in 0..(Len(b) - p)
    BY <1>2, <1>3
  <2> HIDE DEF b, p
  <2>2. SubSeq(SubSeq(b, p + 1, Len(b)), k + 1, Len(b) - p) = SubSeq(b, p + k + 1, Len(b))
    BY <2>1, CutTwice
  <2>3. SubSeq(u, k + 1, Len(u)) = SubSeq(x.buf, m + 1, Len(x.buf))
    BY <1>1, <2>2 DEF b, p, m, Unread
  <2> QED
    BY <1>6, <2>3 DEF Unread
<1> HIDE DEF u
<1>8. got \in Seq(Nat) /\ Len(got) = k /\ rest \in Seq(Nat) /\ got \o rest = u
  BY <1>1, <1>3, Split
<1> HIDE DEF got, rest
<1>9. Sane(t)
  BY <1>2, <1>4, <1>6 DEF Sane
<1>10. Same(x, t) /\ Inside(t) <= Inside(x)
  <2>1. Same(x, t) /\ Inside(t) = Inside(x)
    BY <1>6 DEF Same, SameKinds, Inside
  <2> QED
    BY <2>1, UnreadFields
<1>11. Content(x) = (u \o h) \o x.arrived /\ Content(t) = (rest \o h) \o x.arrived
  BY <1>6, <1>7 DEF Content, u
<1> DEFINE a == x.arrived
<1>12. a \in Seq(Nat)
  BY <1>2
<1> HIDE DEF a, h
<1>13. (u \o h) \o a = got \o ((rest \o h) \o a)
  <2>1. u \o h = got \o (rest \o h)
    BY <1>1, <1>8, BytesAssoc
  <2> DEFINE q == rest \o h
  <2>2. q \in Seq(Nat)
    BY <1>1, <1>8
  <2> HIDE DEF q
  <2>3. (got \o q) \o a = got \o (q \o a)
    BY <1>8, <1>12, <2>2, BytesAssoc
  <2> QED
    BY <2>1, <2>3 DEF q
<1>14. Kept(x, got, t)
  BY <1>6, <1>8, <1>9, <1>10, <1>11, <1>13, Zenon DEF Kept, Gone, a
<1>15. Avail(t) = Avail(x) - k
  <2>1. Len(x.buf) - m = (Len(x.buf) - x.readpos) - k
    BY <1>2, <1>3 DEF m
  <2> QED
    BY <1>1, <1>6, <2>1 DEF Avail
<1> QED
  BY <1>6, <1>7, <1>8, <1>14, <1>15 DEF Consumes, got, rest, u

Drains(x, n, d) ==
  /\ Consumes(x, Least(Avail(x), n), d.got, d.s)
  /\ Len(d.got) <= n /\ (Len(d.got) < n => Unread(d.s) = <<>>)

LEMMA DrainKeeps ==
  ASSUME NEW x, Sane(x), NEW n \in Nat
  PROVE  Drains(x, n, Drain(x, n))
<1> DEFINE k == Least(Avail(x), n)
           t == Consume(x, k)
           got == SubSeq(Unread(x), 1, k)
<1>1. Drain(x, n) = [s |-> t, got |-> got]
  BY DEF Drain
<1>2. Avail(x) \in Nat /\ Len(Unread(x)) = Avail(x) /\ Unread(x) \in Seq(Nat)
  BY UnreadFields
<1>3. k \in 0..Avail(x) /\ k <= n /\ (k = Avail(x) \/ k = n)
  <2>1. k \in Nat /\ k <= Avail(x) /\ k <= n /\ (k = Avail(x) \/ k = n)
    BY <1>2, LeastOf
  <2> QED
    BY <1>2, <2>1
<1>4. Consumes(x, k, got, t)
  <2> HIDE DEF k
  <2> QED
    BY <1>3, ConsumeKeeps
<1>5. k = Avail(x) => Unread(t) = <<>>
  <2>1. SubSeq(Unread(x), Avail(x) + 1, Len(Unread(x))) = <<>>
    BY <1>2
  <2> QED
    BY <1>4, <2>1 DEF Consumes
<1>6. Len(got) = k
  BY <1>4 DEF Consumes
<1> HIDE DEF t, got
<1>7. Drain(x, n).s = t /\ Drain(x, n).got = got
  BY <1>1
<1> HIDE DEF k
<1>8. Len(got) <= n /\ (Len(got) < n => Unread(t) = <<>>)
  BY <1>3, <1>5, <1>6
<1> QED
  BY <1>4, <1>7, <1>8 DEF Drains, k

\* A read that does without the buffer.
LEMMA DirectKeeps ==
  ASSUME NEW x, Sane(x), Unread(x) = <<>>, x.readfilters = <<>>, NEW n \in Nat, NEW r, Took(x, n, r)
  PROVE  Kept(x, r.got, r.s)
<1>1. /\ r.s \in Streams /\ r.got \in Seq(Nat) /\ Len(r.got) <= n
      /\ x.arrived = r.got \o r.s.arrived
      /\ r.s.buf = x.buf /\ r.s.readpos = x.readpos /\ r.s.cap = x.cap /\ r.s.position = x.position
      /\ r.s.early = x.early /\ r.s.ended = x.ended /\ r.s.out = x.out
      /\ r.s.readfilters = <<>> /\ r.s.writefilters = x.writefilters
  BY DEF Took
<1>2. Sane(r.s)
  <2>1. Drained(<<>>)
    BY DEF Drained
  <2> QED
    BY <1>1, <2>1 DEF Sane
<1>3. Same(x, r.s)
  BY <1>1 DEF Same, SameKinds
<1> DEFINE a == r.s.arrived
           g == r.got
<1>4. Content(x) = (<<>> \o <<>>) \o x.arrived /\ Content(r.s) = (<<>> \o <<>>) \o a
  <2>1. Unread(r.s) = <<>>
    BY <1>1 DEF Unread
  <2> QED
    BY <1>1, <2>1, HeldNone DEF Content
<1>5. Inside(x) = Len(<<>>) + Len(x.arrived) /\ Inside(r.s) = Len(<<>>) + Len(a)
  BY <1>1, HeldNone DEF Inside
<1>6. a \in Seq(Nat) /\ g \in Seq(Nat) /\ x.arrived = g \o a
  BY <1>1 DEF Streams
<1>7. Kept(x, g, r.s)
  <2> HIDE DEF a, g
  <2>1. <<>> \o <<>> = <<>> /\ Len(<<>>) = 0
    OBVIOUS
  <2>2. <<>> \o a = a /\ <<>> \o (g \o a) = g \o a /\ Len(g \o a) = Len(g) + Len(a)
        /\ Len(g) \in Nat /\ Len(a) \in Nat
    BY <1>6
  <2>3. Content(x) = g \o Content(r.s)
    BY <1>4, <1>6, <2>1, <2>2
  <2>4. Inside(r.s) <= Inside(x)
    BY <1>5, <1>6, <2>1, <2>2
  <2> QED
    BY <1>1, <1>2, <1>3, <1>6, <2>3, <2>4 DEF Kept, Gone
<1> QED
  BY <1>7

LEMMA ReadMoreKeeps ==
  ASSUME NEW x, Sane(x), Unread(x) = <<>>, NEW n \in Nat
  PROVE  LET r == ReadMore(x, n) IN Kept(x, r.got, r.s) /\ Len(r.got) <= n
<1>1. CASE x.readfilters = <<>> /\ (x.nobuf \/ x.chunk = 1)
  <2>1. ReadMore(x, n) = OpRead(x, n)
    BY <1>1 DEF ReadMore
  <2> DEFINE r == OpRead(x, n)
  <2>2. Took(x, n, r)
    BY OpReadTakes DEF Sane
  <2> HIDE DEF r
  <2>3. Kept(x, r.got, r.s)
    BY <1>1, <2>2, DirectKeeps
  <2> QED
    BY <2>1, <2>2, <2>3 DEF Took, r
<1>2. CASE ~(x.readfilters = <<>> /\ (x.nobuf \/ x.chunk = 1))
  <2> DEFINE f == FillReadBuffer(x, n)
             d == Drain(f, n)
  <2>1. ReadMore(x, n) = d
    BY <1>2 DEF ReadMore
  <2>2. Kept(x, <<>>, f)
    BY FillKeeps
  <2> HIDE DEF f
  <2>3. Drains(f, n, d)
    BY <2>2, DrainKeeps DEF Kept, Gone
  <2> HIDE DEF d
  <2>4. Kept(f, d.got, d.s) /\ Len(d.got) <= n
    BY <2>3 DEF Drains, Consumes
  <2>5. Kept(x, <<>> \o d.got, d.s)
    BY <2>2, <2>4, KeptTwice
  <2>6. <<>> \o d.got = d.got
    BY <2>4, ConcatEmpty DEF Kept, Gone
  <2> QED
    BY <2>1, <2>4, <2>5, <2>6
<1> QED
  BY <1>1, <1>2

Readings == [s : Streams, got : Seq(Nat), size : Nat, done : BOOLEAN]

LEMMA CountedIn ==
  ASSUME NEW st \in Readings, NEW r, r.s \in Streams, r.got \in Seq(Nat), Len(r.got) <= st.size
  PROVE  /\ Counted(st, r) \in Readings /\ Counted(st, r).s = r.s
         /\ Counted(st, r).got = st.got \o r.got /\ Counted(st, r).size = st.size - Len(r.got)
         /\ OnlyPlainAgain(Counted(st, r)) \in Readings
         /\ OnlyPlainAgain(Counted(st, r)).s = r.s
         /\ OnlyPlainAgain(Counted(st, r)).got = st.got \o r.got
<1> DEFINE g == st.got \o r.got
           n == st.size - Len(r.got)
           d == r.got = <<>>
           c == Counted(st, r)
           e == c.done \/ ~c.s.plain
           o == OnlyPlainAgain(c)
<1>1. g \in Seq(Nat)
  BY DEF Readings
<1>2. n \in Nat
  BY DEF Readings
<1>3. c = [st EXCEPT !.s = r.s, !.got = g, !.size = n, !.done = d] /\ d \in BOOLEAN
  BY DEF Counted
<1>4. o = [c EXCEPT !.done = e] /\ e \in BOOLEAN
  BY DEF OnlyPlainAgain
<1> HIDE DEF g, n, d, c, e, o
<1>5. c \in Readings /\ c.s = r.s /\ c.got = g /\ c.size = n
  BY <1>1, <1>2, <1>3 DEF Readings
<1>6. o \in Readings /\ o.s = r.s /\ o.got = g
  BY <1>4, <1>5 DEF Readings
<1> QED
  BY <1>5, <1>6 DEF g, n, c, o

\* What a turn of a read keeps.
LEMMA ReadTurnKeeps ==
  ASSUME NEW x, Sane(x), NEW st \in Readings, Kept(x, st.got, st.s)
  PROVE  ReadTurn(st) \in Readings /\ Kept(x, ReadTurn(st).got, ReadTurn(st).s)
<1> DEFINE d == Drain(st.s, st.size)
           c == Counted(st, d)
           m == ReadMore(c.s, c.size)
<1>1. st.size \in Nat /\ Sane(st.s) /\ st.got \in Seq(Nat)
  BY DEF Readings, Kept, Gone
<1>2. CASE st.done \/ st.size = 0
  <2>1. ReadTurn(st) = st
    BY <1>2 DEF ReadTurn
  <2> QED
    BY <2>1
<1>3. CASE ~(st.done \/ st.size = 0)
  <2>1. ReadTurn(st) = IF c.size = 0 THEN [c EXCEPT !.done = TRUE] ELSE OnlyPlainAgain(Counted(c, m))
    BY <1>3 DEF ReadTurn, ReadBehind
  <2>2. Drains(st.s, st.size, d)
    BY <1>1, DrainKeeps
  <2> HIDE DEF d
  <2>3. /\ Kept(st.s, d.got, d.s) /\ Len(d.got) <= st.size
        /\ Len(d.got) < st.size => Unread(d.s) = <<>>
    BY <2>2 DEF Drains, Consumes
  <2>4. d.s \in Streams /\ Sane(d.s) /\ d.got \in Seq(Nat)
    BY <2>3 DEF Kept, Gone, Sane
  <2>5. c \in Readings /\ c.s = d.s /\ c.got = st.got \o d.got /\ c.size = st.size - Len(d.got)
    BY <2>3, <2>4, CountedIn
  <2> HIDE DEF c
  <2>6. Kept(x, c.got, c.s)
    BY <2>3, <2>5, KeptTwice
  <2>7. CASE c.size = 0
    <3>1. [c EXCEPT !.done = TRUE] \in Readings /\ [c EXCEPT !.done = TRUE].got = c.got
          /\ [c EXCEPT !.done = TRUE].s = c.s
      BY <2>5 DEF Readings
    <3> QED
      BY <2>1, <2>6, <2>7, <3>1
  <2>8. CASE c.size # 0
    <3>1. c.size \in Nat /\ Len(d.got) \in Nat
      BY <2>4, <2>5 DEF Readings
    <3>2. Unread(c.s) = <<>> /\ Sane(c.s)
      BY <1>1, <2>3, <2>4, <2>5, <2>8, <3>1
    <3>3. Kept(c.s, m.got, m.s) /\ Len(m.got) <= c.size
      BY <3>1, <3>2, ReadMoreKeeps
    <3> HIDE DEF m
    <3>4. m.s \in Streams /\ m.got \in Seq(Nat)
      BY <3>3 DEF Kept, Gone, Sane
    <3> DEFINE o == OnlyPlainAgain(Counted(c, m))
    <3>5. o \in Readings /\ o.s = m.s /\ o.got = c.got \o m.got
      BY <2>5, <3>3, <3>4, CountedIn
    <3> HIDE DEF o
    <3>6. Kept(x, c.got \o m.got, m.s)
      BY <2>6, <3>3, KeptTwice
    <3>7. ReadTurn(st) = o
      BY <2>1, <2>8 DEF o
    <3> QED
      BY <3>5, <3>6, <3>7
  <2> QED
    BY <2>7, <2>8
<1> QED
  BY <1>2, <1>3

\* A stream that counts where it is.
Placed(y, q, z) ==
  /\ Sane(z) /\ z.position = q /\ Unread(z) = Unread(y)
  /\ Content(z) = Content(y) /\ Inside(z) = Inside(y) /\ z.arrived = y.arrived
  /\ z.early = y.early /\ z.ended = y.ended /\ z.out = y.out
  /\ z.readfilters = y.readfilters /\ z.writefilters = y.writefilters
  /\ Avail(z) = Avail(y)

LEMMA PlacedIs ==
  ASSUME NEW y, Sane(y), NEW q \in Nat
  PROVE  Placed(y, q, [y EXCEPT !.position = q])
<1> DEFINE z == [y EXCEPT !.position = q]
<1>1. y \in Streams
  BY DEF Sane
<1>2. /\ z \in Streams /\ z.buf = y.buf /\ z.readpos = y.readpos /\ z.cap = y.cap
      /\ z.arrived = y.arrived /\ z.eof = y.eof /\ z.position = q
      /\ z.early = y.early /\ z.ended = y.ended /\ z.out = y.out
      /\ z.readfilters = y.readfilters /\ z.writefilters = y.writefilters
  BY <1>1 DEF Streams
<1> HIDE DEF z
<1>3. Sane(z)
  BY <1>2 DEF Sane
<1>4. Unread(z) = Unread(y) /\ Avail(z) = Avail(y)
  BY <1>2 DEF Unread, Avail
<1>5. Content(z) = Content(y) /\ Inside(z) = Inside(y)
  BY <1>2, <1>4 DEF Content, Inside
<1> QED
  BY <1>2, <1>3, <1>4, <1>5 DEF Placed, z

LEMMA GonePlaced ==
  ASSUME NEW x, NEW a, NEW y, Gone(x, a, y), NEW q, NEW z, Placed(y, q, z)
  PROVE  Gone(x, a, z)
BY DEF Gone, Placed, Same, Lossy

LEMMA ReadKeeps ==
  ASSUME NEW x, Sane(x), NEW n \in Nat
  PROVE  LET r == Read(x, n)
         IN Gone(x, r.got, r.s) /\ r.s.position = x.position + Len(r.got)
<1> DEFINE V == {st \in Readings : Kept(x, st.got, st.s)}
           T == [k \in 0..(n + 1) |-> V]
           a == [s |-> x, got |-> <<>>, size |-> n, done |-> FALSE]
           e == Loop(ReadTurn, a, n + 1)
           q == e.s.position + Len(e.got)
           r == Read(x, n)
<1>1. a \in V
  <2>1. Kept(x, <<>>, x) /\ x \in Streams
    BY AlikeSelf, AlikeKept DEF Sane
  <2> QED
    BY <2>1 DEF Readings
<1>2. \A st \in V : ReadTurn(st) \in V
  BY ReadTurnKeeps
<1>3. \A k \in 0..(n + 1) : T[k] = V
  OBVIOUS
<1> HIDE DEF V, T, a
<1>4. e \in V
  <2> DEFINE m == n + 1
  <2>1. m \in Nat /\ 0 \in 0..m /\ m \in 0..m /\ \A k \in 1..m : k \in 0..m /\ k - 1 \in 0..m
    OBVIOUS
  <2>2. \A k \in 0..m : T[k] = V
    BY <1>3
  <2> HIDE DEF m
  <2>3. \A k \in 1..m : \A y \in T[k - 1] : ReadTurn(y) \in T[k]
    BY <1>2, <2>1, <2>2
  <2>4. a \in T[0]
    BY <1>1, <2>1, <2>2
  <2>5. Loop(ReadTurn, a, m) \in T[m]
    BY <2>1, <2>3, <2>4, ReadLoop
  <2>6. Loop(ReadTurn, a, m) \in V
    BY <2>1, <2>2, <2>5
  <2> QED
    BY <2>6 DEF m
<1>5. r = [s |-> [e.s EXCEPT !.position = e.s.position + Len(e.got)], got |-> e.got]
  BY DEF Read, Advanced, a
<1> HIDE DEF e
<1>6. Kept(x, e.got, e.s) /\ e.got \in Seq(Nat) /\ Sane(e.s) /\ e.s.position = x.position
  BY <1>4 DEF V, Readings, Kept, Gone
<1>7. q \in Nat /\ q = x.position + Len(e.got)
  <2>1. Len(e.got) \in Nat
    BY <1>6
  <2>2. x.position \in Nat
    BY StreamFields
  <2> QED
    BY <1>6, <2>1, <2>2
<1> DEFINE z == [e.s EXCEPT !.position = q]
<1>8. r = [s |-> z, got |-> e.got]
  BY <1>5
<1> HIDE DEF q
<1>9. Placed(e.s, q, z)
  BY <1>6, <1>7, PlacedIs
<1> HIDE DEF z, r
<1>10. Gone(x, e.got, z) /\ z.position = q
  BY <1>6, <1>9, GonePlaced DEF Kept, Placed
<1>11. r.s = z /\ r.got = e.got
  BY <1>8
<1> QED
  BY <1>7, <1>10, <1>11 DEF r

LEMMA ConsumesNone ==
  ASSUME NEW x, Sane(x)
  PROVE  Consumes(x, 0, <<>>, x)
<1>1. Unread(x) \in Seq(Nat) /\ Avail(x) \in Nat
  BY UnreadFields
<1>2. SubSeq(Unread(x), 1, 0) = <<>>
  OBVIOUS
<1>3. SubSeq(Unread(x), 0 + 1, Len(Unread(x))) = Unread(x) /\ Unread(x) = <<>> \o Unread(x)
  <2> DEFINE u == Unread(x)
  <2>1. u \in Seq(Nat)
    BY <1>1
  <2> HIDE DEF u
  <2>2. SubSeq(u, 1, Len(u)) = u
    BY <2>1, SubSeqFull
  <2>3. <<>> \o u = u
    BY <2>1, ConcatEmpty
  <2> QED
    BY <2>2, <2>3 DEF u
<1>4. Kept(x, <<>>, x) /\ Avail(x) = Avail(x) - 0 /\ Len(<<>>) = 0
  BY <1>1, AlikeSelf, AlikeKept
<1> QED
  BY <1>2, <1>3, <1>4 DEF Consumes

\* A read of what is in the buffer only drains it.
LEMMA ReadBuffered ==
  ASSUME NEW x, Sane(x), NEW n \in 0..Avail(x)
  PROVE  LET r == Read(x, n)
         IN \E y : Consumes(x, n, r.got, y) /\ Placed(y, x.position + n, r.s)
<1> DEFINE a == [s |-> x, got |-> <<>>, size |-> n, done |-> FALSE]
           W == {st \in Readings : st.size = 0 /\ Consumes(x, n, st.got, st.s)}
           T == [k \in 0..(n + 1) |-> IF k = 0 THEN {a} ELSE W]
           e == Loop(ReadTurn, a, n + 1)
           q == e.s.position + Len(e.got)
           r == Read(x, n)
<1>1. n \in Nat /\ x \in Streams /\ <<>> \in Seq(Nat) /\ Avail(x) \in Nat /\ n <= Avail(x)
  BY UnreadFields DEF Sane
<1>2. a \in Readings /\ a.s = x /\ a.got = <<>> /\ a.size = n /\ a.done = FALSE
  BY <1>1 DEF Readings
<1>3. \A st \in W : ReadTurn(st) = st
  BY DEF ReadTurn
<1>4. ReadTurn(a) \in W
  <2>1. CASE n = 0
    <3> HIDE DEF a
    <3>1. ReadTurn(a) = a
      BY <1>2, <2>1 DEF ReadTurn
    <3> QED
      BY <1>2, <2>1, <3>1, ConsumesNone
  <2>2. CASE n # 0
    <3> DEFINE d == Drain(x, n)
               c == Counted(a, d)
    <3> HIDE DEF a
    <3>1. ReadTurn(a) = ReadBehind(c)
      BY <1>2, <2>2 DEF ReadTurn
    <3>2. Drains(x, n, d)
      BY <1>1, DrainKeeps
    <3> HIDE DEF d
    <3>3. Least(Avail(x), n) = n
      <4>1. Least(Avail(x), n) \in Nat /\ Least(Avail(x), n) <= n
            /\ (Least(Avail(x), n) = Avail(x) \/ Least(Avail(x), n) = n)
        BY <1>1, LeastOf
      <4> QED
        BY <1>1, <4>1
    <3>4. Consumes(x, n, d.got, d.s)
      BY <3>2, <3>3 DEF Drains
    <3>5. d.s \in Streams /\ d.got \in Seq(Nat) /\ Len(d.got) = n
      BY <3>4 DEF Consumes, Kept, Gone, Sane
    <3>6. c \in Readings /\ c.s = d.s /\ c.got = <<>> \o d.got /\ c.size = n - n
      <4>1. Len(d.got) <= a.size
        BY <1>1, <1>2, <3>5
      <4> QED
        BY <1>2, <3>5, <4>1, CountedIn
    <3>7. c.got = d.got /\ c.size = 0
      BY <1>1, <3>5, <3>6, ConcatEmpty
    <3> HIDE DEF c
    <3> DEFINE o == [c EXCEPT !.done = TRUE]
    <3>8. ReadBehind(c) = o
      BY <3>7 DEF ReadBehind
    <3>9. o \in Readings /\ o.s = c.s /\ o.got = c.got /\ o.size = c.size
      BY <3>6 DEF Readings
    <3> HIDE DEF o
    <3> QED
      BY <3>1, <3>4, <3>6, <3>7, <3>8, <3>9
  <2> QED
    BY <2>1, <2>2
<1> HIDE DEF a, W
<1>5. e \in W
  <2> DEFINE m == n + 1
  <2>1. m \in Nat /\ 0 \in 0..m /\ m \in 0..m /\ m # 0 /\ \A k \in 1..m : k \in 0..m /\ k - 1 \in 0..m /\ k # 0
    BY <1>1
  <2>2. \A k \in 0..m : T[k] = IF k = 0 THEN {a} ELSE W
    OBVIOUS
  <2> HIDE DEF m, T
  <2>3. \A k \in 1..m : \A y \in T[k - 1] : ReadTurn(y) \in T[k]
    BY <1>3, <1>4, <2>1, <2>2
  <2>4. a \in T[0]
    BY <2>1, <2>2
  <2>5. Loop(ReadTurn, a, m) \in T[m]
    BY <2>1, <2>3, <2>4, ReadLoop
  <2>6. Loop(ReadTurn, a, m) \in W
    BY <2>1, <2>2, <2>5
  <2> QED
    BY <2>6 DEF m
<1>6. r = [s |-> [e.s EXCEPT !.position = e.s.position + Len(e.got)], got |-> e.got]
  BY DEF Read, Advanced, a
<1> HIDE DEF e
<1>7. Consumes(x, n, e.got, e.s)
  BY <1>5 DEF W
<1>8. Sane(e.s) /\ e.s.position = x.position /\ Len(e.got) = n
  BY <1>7 DEF Consumes, Kept, Gone
<1>9. q \in Nat /\ q = x.position + n
  <2>1. x.position \in Nat
    BY StreamFields
  <2> QED
    BY <1>1, <1>8, <2>1
<1> DEFINE z == [e.s EXCEPT !.position = q]
<1>10. r = [s |-> z, got |-> e.got]
  BY <1>6
<1> HIDE DEF q
<1>11. Placed(e.s, q, z)
  BY <1>8, <1>9, PlacedIs
<1> HIDE DEF z, r
<1>12. r.s = z /\ r.got = e.got
  BY <1>10
<1> QED
  BY <1>7, <1>9, <1>11, <1>12 DEF r
-----------------------------------------------------------------------------
(* Records *)

LEMMA LeastExists ==
  ASSUME NEW A, A \subseteq Nat, A # {}
  PROVE  Min(A) \in A
<1> DEFINE R == OpToRel(<, Nat)
<1>1. IsWellFoundedOn(R, Nat)
  BY NatLessThanWellFounded
<1>2. \A x, y \in Nat : x < y => <<x, y>> \in R
  BY DEF OpToRel
<1> HIDE DEF R
<1>3. PICK n \in A : \A m \in A : ~(<<m, n>> \in R)
  BY <1>1, WFMin
<1>4. \A m \in A : m \in Nat /\ n \in Nat /\ ~(m < n)
  BY <1>2, <1>3
<1>5. \A m \in A : n <= m
  BY <1>4
<1> QED
  BY <1>3, <1>5 DEF Min

LEMMA PartOfFront ==
  ASSUME NEW X, NEW a \in Seq(X), NEW m \in 0..Len(a), NEW i \in Nat, NEW j \in Nat, i >= 1, j <= m
  PROVE  SubSeq(SubSeq(a, 1, m), i, j) = SubSeq(a, i, j)
OBVIOUS

LEMMA FrontOfRest ==
  ASSUME NEW X, NEW a \in Seq(X), NEW p \in 0..Len(a), NEW k \in 0..(Len(a) - p)
  PROVE  SubSeq(SubSeq(a, p + 1, Len(a)), 1, k) = SubSeq(a, p + 1, p + k)
OBVIOUS

\* The delimiter is in the buffer, k bytes on.
FoundAt(y, delim, k) ==
  /\ delim # <<>> /\ k \in Nat /\ k + Len(delim) <= Avail(y)
  /\ SubSeq(Unread(y), k + 1, k + Len(delim)) = delim

LEMMA SearchFinds ==
  ASSUME NEW y, Sane(y), NEW max \in Nat, NEW skip \in Nat, NEW delim \in Seq(Nat), delim # <<>>
  PROVE  LET k == SearchDelim(y, max, skip, delim) IN k = -1 \/ FoundAt(y, delim, k)
<1> DEFINE m == Least(Avail(y), max)
           u == SubSeq(Unread(y), 1, m)
           at == {k \in skip..Len(u) - Len(delim) : SubSeq(u, k + 1, k + Len(delim)) = delim}
<1>1. Unread(y) \in Seq(Nat) /\ Avail(y) \in Nat /\ Len(Unread(y)) = Avail(y)
  BY UnreadFields
<1>2. m \in Nat /\ m <= Avail(y)
  BY <1>1, LeastOf
<1> HIDE DEF m
<1>3. Len(u) = m /\ Len(delim) \in Nat
  BY <1>1, <1>2
<1>4. SearchDelim(y, max, skip, delim) = IF at = {} THEN -1 ELSE Min(at)
  BY DEF SearchDelim, m
<1>5. CASE at = {}
  BY <1>4, <1>5
<1>6. CASE at # {}
  <2> DEFINE k == Min(at)
  <2>1. at \subseteq Nat
    BY <1>2, <1>3
  <2> HIDE DEF at
  <2>2. k \in at
    BY <1>6, <2>1, LeastExists
  <2> HIDE DEF k, u
  <2>3. k \in skip..(m - Len(delim)) /\ SubSeq(u, k + 1, k + Len(delim)) = delim
    BY <1>3, <2>2 DEF at
  <2>4. k \in Nat /\ k + Len(delim) <= m /\ k + 1 \in Nat /\ k + 1 >= 1 /\ k + Len(delim) \in Nat
    BY <1>2, <1>3, <2>3
  <2>5. SubSeq(u, k + 1, k + Len(delim)) = SubSeq(Unread(y), k + 1, k + Len(delim))
    <3> DEFINE i == k + 1
               j == k + Len(delim)
               v == Unread(y)
    <3>1. i \in Nat /\ j \in Nat /\ i >= 1 /\ j <= m /\ v \in Seq(Nat) /\ m \in 0..Len(v)
      BY <1>1, <1>2, <2>4
    <3> HIDE DEF i, j, v
    <3>2. SubSeq(SubSeq(v, 1, m), i, j) = SubSeq(v, i, j)
      BY <3>1, PartOfFront
    <3> QED
      BY <3>2 DEF i, j, v, u
  <2>6. k + Len(delim) <= Avail(y)
    BY <1>1, <1>2, <1>3, <2>4
  <2>7. FoundAt(y, delim, k)
    BY <2>3, <2>4, <2>5, <2>6 DEF FoundAt
  <2> QED
    BY <1>4, <1>6, <2>7 DEF k
<1> QED
  BY <1>5, <1>6

\* Bytes that are passed over behind what was read.
LEMMA RecordReadKeeps ==
  ASSUME NEW y, Sane(y), NEW d \in 0..Avail(y)
  PROVE  LET t == [Consume(y, d) EXCEPT !.position = @ + d]
         IN Gone(y, SubSeq(Unread(y), 1, d), t) /\ t.position = y.position + d
<1> DEFINE c == Consume(y, d)
           got == SubSeq(Unread(y), 1, d)
           q == c.position + d
           t == [c EXCEPT !.position = q]
<1>1. Consumes(y, d, got, c)
  BY ConsumeKeeps
<1> HIDE DEF c, got
<1>2. Gone(y, got, c) /\ c.position = y.position /\ Sane(c)
  BY <1>1 DEF Consumes, Kept, Gone
<1>3. q \in Nat
  <2>1. Avail(y) \in Nat /\ c.position \in Nat
    BY <1>2, UnreadFields, StreamFields
  <2> QED
    BY <2>1
<1> HIDE DEF q
<1>4. Placed(c, q, t)
  BY <1>2, <1>3, PlacedIs
<1> HIDE DEF t
<1>5. Gone(y, got, t) /\ t.position = q
  BY <1>2, <1>4, GonePlaced DEF Placed
<1> QED
  BY <1>2, <1>5 DEF t, q, c, got

Recordings ==
  [s : Streams, max : Nat, delim : Seq(Nat), len : Nat, done : BOOLEAN, found : Int]

\* No turn is taken any more.
Stopped(st) == st.found >= 0 \/ st.len >= st.max \/ st.done

\* A search in x that goes on; through filters only with the buffer empty.
Searching(x, max, delim, st) ==
  /\ st \in Recordings /\ st.max = max /\ st.delim = delim /\ Kept(x, <<>>, st.s)
  /\ st.found >= 0 => FoundAt(st.s, delim, st.found)
  /\ x.readfilters # <<>> /\ ~Stopped(st) => st.s = x /\ Avail(x) = 0 /\ st.len = 0

LEMMA RecordTurnKeeps ==
  ASSUME Sane(s), NEW max \in Nat, NEW delim \in Seq(Nat), ~RecordDrops(max, delim),
         NEW st, Searching(s, max, delim, st)
  PROVE  Searching(s, max, delim, RecordTurn(st))
<1> DEFINE want == st.len + Least(max - st.len, st.s.chunk)
           f == FillReadBuffer(st.s, want)
           skip == Searched(st.len, delim)
           k == IF delim = <<>> THEN -1 ELSE SearchDelim(f, max, skip, delim)
<1>1. /\ st \in Recordings /\ st.max = max /\ st.delim = delim /\ Kept(s, <<>>, st.s)
      /\ Sane(st.s) /\ st.len \in Nat /\ st.found \in Int /\ st.done \in BOOLEAN
      /\ st.s.chunk = ChunkSize /\ Len(delim) \in Nat
  <2>1. st \in Recordings /\ st.max = max /\ st.delim = delim /\ Kept(s, <<>>, st.s)
    BY DEF Searching
  <2>2. Sane(st.s)
    BY <2>1 DEF Kept, Gone
  <2>3. st.len \in Nat /\ st.found \in Int /\ st.done \in BOOLEAN
    BY <2>1 DEF Recordings
  <2>4. Len(delim) \in Nat
    OBVIOUS
  <2>5. st.s.chunk = ChunkSize
    BY <2>2, StreamFields
  <2> QED
    BY <2>1, <2>2, <2>3, <2>4, <2>5
<1>2. CASE Stopped(st)
  <2>1. RecordTurn(st) = st
    BY <1>1, <1>2 DEF RecordTurn, Stopped
  <2> QED
    BY <2>1
<1>3. CASE ~Stopped(st)
  <2>1. ~(st.found >= 0 \/ st.len >= max \/ st.done)
    BY <1>1, <1>3 DEF Stopped
  <2>2. want \in Nat
    <3>1. max - st.len \in Nat /\ ChunkSize \in Nat
      BY <1>1, <2>1, FiltersAssumption
    <3>2. Least(max - st.len, st.s.chunk) \in Nat
      BY <1>1, <3>1, LeastOf
    <3> QED
      BY <1>1, <3>2
  <2>3. s.readfilters # <<>> => st.s = s /\ Avail(s) = 0 /\ st.len = 0
    BY <1>3 DEF Searching
  <2>4. st.s.readfilters # <<>> => Unread(st.s) = <<>>
    <3>1. s.readfilters = <<>> => st.s.readfilters = <<>>
      <4>1. SameKinds(s.readfilters, st.s.readfilters) /\ st.s.readfilters \in Seq(Filters)
        BY <1>1, StreamFields DEF Kept, Gone, Same
      <4> QED
        BY <4>1 DEF SameKinds
    <3>2. Unread(st.s) \in Seq(Nat) /\ Avail(st.s) = Len(Unread(st.s))
      BY <1>1, UnreadFields
    <3>3. Avail(st.s) = 0 => Unread(st.s) = <<>>
      <4> DEFINE u == Unread(st.s)
      <4>1. u \in Seq(Nat) /\ Avail(st.s) = Len(u)
        BY <3>2
      <4> HIDE DEF u
      <4>2. Len(u) = 0 => u = <<>>
        <5>1. \A v \in Seq(Nat) : Len(v) = 0 => v = <<>>
          OBVIOUS
        <5> QED
          BY <4>1, <5>1
      <4> QED
        BY <4>1, <4>2 DEF u
    <3> QED
      BY <2>3, <3>1, <3>3
  <2>5. Kept(st.s, <<>>, f)
    <3> HIDE DEF want
    <3> QED
      BY <1>1, <2>2, <2>4, FillKeeps
  <2>6. RecordTurn(st) = RecordFilled(st, f)
    BY <1>1, <2>1 DEF RecordTurn
  <2>7. s.readfilters # <<>> =>
          Avail(f) = 0 \/ Avail(f) >= max \/ (delim # <<>> /\ SearchDelim(f, max, 0, delim) >= 0)
    <3> SUFFICES ASSUME s.readfilters # <<>>, Avail(f) # 0, Avail(f) < max,
                        delim = <<>> \/ SearchDelim(f, max, 0, delim) < 0
                 PROVE  FALSE
      <4>1. Avail(f) \in Nat
        BY <2>5, UnreadFields DEF Kept, Gone
      <4>2. delim # <<>> => SearchDelim(f, max, 0, delim) \in Int
        <5>1. Sane(f)
          BY <2>5 DEF Kept, Gone
        <5> HIDE DEF f
        <5>2. delim # <<>> => SearchDelim(f, max, 0, delim) = -1
                              \/ FoundAt(f, delim, SearchDelim(f, max, 0, delim))
          BY <5>1, SearchFinds
        <5> QED
          BY <5>2 DEF FoundAt
      <4> HIDE DEF f
      <4> QED
        BY <4>1, <4>2
    <3>1. st.s = s /\ Avail(s) = 0 /\ st.len = Avail(s)
      BY <2>3
    <3>2. f = FillReadBuffer(s, Avail(s) + Least(max - Avail(s), s.chunk))
      BY <3>1
    <3>3. Avail(f) > 0
      <4>1. Avail(f) \in Nat
        BY <2>5, UnreadFields DEF Kept, Gone
      <4> HIDE DEF f
      <4> QED
        BY <4>1
    <3>4. Avail(s) < max
      BY <1>1, <2>1, <3>1
    <3>5. delim = <<>> \/ SearchDelim(s, max, 0, delim) < 0
      <4>1. CASE delim = <<>>
        BY <4>1
      <4>2. CASE delim # <<>>
        <5>1. SearchDelim(s, max, 0, delim) = -1 \/ FoundAt(s, delim, SearchDelim(s, max, 0, delim))
          BY <4>2, SearchFinds
        <5>2. ~FoundAt(s, delim, SearchDelim(s, max, 0, delim))
          <6>1. Len(delim) > 0
            BY <4>2
          <6> QED
            BY <3>1, <6>1, <1>1 DEF FoundAt
        <5>3. -1 < 0
          OBVIOUS
        <5> QED
          BY <5>1, <5>2, <5>3
      <4> QED
        BY <4>1, <4>2
    <3> HIDE DEF f
    <3>6. /\ s.readfilters # <<>> /\ Avail(s) < max /\ Avail(f) > 0 /\ Avail(f) < max
          /\ delim = NoBytes \/ SearchDelim(s, max, 0, delim) < 0
          /\ delim = NoBytes \/ SearchDelim(f, max, 0, delim) < 0
      BY <3>3, <3>4, <3>5 DEF NoBytes
    <3> QED
      BY <3>2, <3>6, Zenon DEF RecordDrops
  <2>8. Kept(s, <<>>, f)
    <3> HIDE DEF f
    <3>1. Kept(s, <<>> \o <<>>, f)
      BY <1>1, <2>5, KeptTwice
    <3>2. <<>> \o <<>> = <<>>
      OBVIOUS
    <3> QED
      BY <3>1, <3>2
  <2> HIDE DEF f, want
  <2>9. Sane(f) /\ f \in Streams /\ Avail(f) \in Nat
    BY <2>8, UnreadFields DEF Kept, Gone, Sane
  <2>10. CASE Avail(f) = st.len
    <3> DEFINE t == [st EXCEPT !.s = f, !.done = TRUE]
    <3>1. RecordTurn(st) = t
      BY <2>6, <2>10 DEF RecordFilled
    <3>2. t \in Recordings /\ t.max = max /\ t.delim = delim /\ t.s = f /\ t.done = TRUE
          /\ t.found = st.found
      BY <1>1, <2>9 DEF Recordings
    <3> HIDE DEF t
    <3> QED
      BY <2>1, <2>8, <3>1, <3>2 DEF Searching, Stopped
  <2>11. CASE Avail(f) # st.len
    <3> DEFINE t == [st EXCEPT !.s = f, !.len = Avail(f), !.found = k]
    <3>1. RecordTurn(st) = t
      BY <1>1, <2>6, <2>11 DEF RecordFilled
    <3>2. skip \in Nat
      BY <1>1 DEF Searched
    <3>3. k \in Int /\ (k >= 0 => FoundAt(f, delim, k))
      <4>1. CASE delim = <<>>
        BY <4>1
      <4>2. CASE delim # <<>>
        <5> HIDE DEF skip
        <5> DEFINE e == SearchDelim(f, max, skip, delim)
        <5>1. e = -1 \/ FoundAt(f, delim, e)
          BY <2>9, <3>2, <4>2, SearchFinds
        <5>2. k = e
          BY <4>2
        <5> HIDE DEF e, k
        <5>3. e \in Int
          BY <5>1 DEF FoundAt
        <5>4. e >= 0 => e # -1
          OBVIOUS
        <5> QED
          BY <5>1, <5>2, <5>3, <5>4
      <4> QED
        BY <4>1, <4>2
    <3>4. s.readfilters # <<>> => Avail(f) >= max \/ k >= 0
      <4> SUFFICES ASSUME s.readfilters # <<>> PROVE Avail(f) >= max \/ k >= 0
        OBVIOUS
      <4>1. st.len = 0 /\ Avail(f) # 0
        BY <2>3, <2>11
      <4>2. CASE Avail(f) >= max
        BY <4>2
      <4>3. CASE ~(Avail(f) >= max)
        <5>1. delim # <<>> /\ SearchDelim(f, max, 0, delim) >= 0
          BY <2>7, <4>1, <4>3
        <5>2. skip = 0
          <6>1. Len(delim) > 0
            BY <5>1
          <6> QED
            BY <1>1, <4>1, <6>1 DEF Searched
        <5> QED
          BY <5>1, <5>2
      <4> QED
        BY <4>2, <4>3
    <3> HIDE DEF k
    <3>5. t \in Recordings /\ t.max = max /\ t.delim = delim /\ t.s = f /\ t.len = Avail(f)
          /\ t.found = k
      BY <1>1, <2>9, <3>3 DEF Recordings
    <3> HIDE DEF t
    <3> QED
      BY <2>8, <3>1, <3>3, <3>4, <3>5 DEF Searching, Stopped
  <2> QED
    BY <2>10, <2>11
<1> QED
  BY <1>2, <1>3

\* What was consumed of a record: a delimiter that was found is not given.
Cut(x, delim, r) == IF r.s.position - x.position > Len(r.got) THEN delim ELSE NoBytes

LEMMA RecordKeeps ==
  ASSUME Sane(s), NEW max \in Nat, NEW delim \in Seq(Nat), ~RecordDrops(max, delim)
  PROVE  LET r == GetRecord(s, max, delim)
         IN r.got \in Seq(Nat) /\ Gone(s, r.got \o Cut(s, delim, r), r.s)
<1> DEFINE k0 == IF delim = <<>> THEN -1 ELSE SearchDelim(s, max, 0, delim)
           a == [s |-> s, max |-> max, delim |-> delim, len |-> Avail(s), done |-> FALSE, found |-> k0]
           V == {st \in Recordings : Searching(s, max, delim, st)}
           T == [k \in 0..(max + 1) |-> V]
           e == Loop(RecordTurn, a, max + 1)
           r == GetRecord(s, max, delim)
<1>1. a \in V
  <2>1. Kept(s, <<>>, s) /\ s \in Streams /\ Avail(s) \in Nat /\ 0 \in Nat
    BY AlikeSelf, AlikeKept, UnreadFields DEF Sane
  <2>2. k0 \in Int /\ (k0 >= 0 => FoundAt(s, delim, k0))
    <3>1. CASE delim = <<>>
      BY <3>1
    <3>2. CASE delim # <<>>
      <4> DEFINE f == SearchDelim(s, max, 0, delim)
      <4>1. f = -1 \/ FoundAt(s, delim, f)
        BY <2>1, <3>2, SearchFinds
      <4>2. k0 = f
        BY <3>2
      <4> HIDE DEF f, k0
      <4>3. f \in Int /\ (f >= 0 => f # -1)
        BY <4>1 DEF FoundAt
      <4> QED
        BY <4>1, <4>2, <4>3
    <3> QED
      BY <3>1, <3>2
  <2>3. s.readfilters # <<>> /\ ~(k0 >= 0) /\ ~(Avail(s) >= max) => Avail(s) = 0
    <3> SUFFICES ASSUME s.readfilters # <<>>, ~(k0 >= 0), ~(Avail(s) >= max), Avail(s) # 0
                 PROVE  FALSE
      OBVIOUS
    <3>1. delim = NoBytes \/ SearchDelim(s, max, 0, delim) < 0
      BY <2>2 DEF NoBytes
    <3>2. Avail(s) < max /\ Avail(s) > 0
      BY <2>1
    <3> HIDE DEF k0
    <3> QED
      BY <3>1, <3>2, Zenon DEF RecordDrops
  <2> HIDE DEF k0
  <2>4. a \in Recordings /\ a.s = s /\ a.max = max /\ a.delim = delim /\ a.len = Avail(s)
        /\ a.done = FALSE /\ a.found = k0
    BY <2>1, <2>2 DEF Recordings
  <2> HIDE DEF a
  <2> QED
    BY <2>1, <2>2, <2>3, <2>4 DEF Searching, Stopped
<1>2. \A st \in V : RecordTurn(st) \in V
  <2> SUFFICES ASSUME NEW st \in V PROVE RecordTurn(st) \in V
    OBVIOUS
  <2>1. Searching(s, max, delim, RecordTurn(st))
    BY RecordTurnKeeps
  <2> QED
    BY <2>1 DEF Searching
<1>3. \A k \in 0..(max + 1) : T[k] = V
  OBVIOUS
<1> HIDE DEF V, T, a
<1>4. e \in V
  <2> DEFINE m == max + 1
  <2>1. m \in Nat /\ 0 \in 0..m /\ m \in 0..m /\ \A k \in 1..m : k \in 0..m /\ k - 1 \in 0..m
    OBVIOUS
  <2>2. \A k \in 0..m : T[k] = V
    BY <1>3
  <2> HIDE DEF m
  <2>3. \A k \in 1..m : \A y \in T[k - 1] : RecordTurn(y) \in T[k]
    BY <1>2, <2>1, <2>2
  <2>4. a \in T[0]
    BY <1>1, <2>1, <2>2
  <2>5. Loop(RecordTurn, a, m) \in T[m]
    BY <2>1, <2>3, <2>4, RecordLoop
  <2>6. Loop(RecordTurn, a, m) \in V
    BY <2>1, <2>2, <2>5
  <2> QED
    BY <2>6 DEF m
<1>5. r = RecordTaken(e)
  BY DEF GetRecord, a
<1> HIDE DEF e
<1> DEFINE y == e.s
<1>6. /\ Kept(s, <<>>, y) /\ e.max = max /\ e.delim = delim /\ e.found \in Int
      /\ e.found >= 0 => FoundAt(y, delim, e.found)
  BY <1>4 DEF V, Searching, Recordings
<1>7. /\ Gone(s, <<>>, y) /\ Sane(y) /\ y.position = s.position /\ y.position \in Nat
      /\ Avail(y) \in Nat /\ Unread(y) \in Seq(Nat) /\ Len(Unread(y)) = Avail(y)
  <2>1. Gone(s, <<>>, y) /\ Sane(y) /\ y.position = s.position
    BY <1>6 DEF Kept, Gone
  <2> HIDE DEF y
  <2> QED
    BY <2>1, UnreadFields, StreamFields
<1> HIDE DEF y
<1>8. <<>> \o <<>> = <<>> /\ <<>> \in Seq(Nat) /\ Len(<<>>) = 0
  OBVIOUS
<1>9. CASE NoRecord(e, Avail(y))
  <2>1. r = [s |-> y, got |-> <<>>, ok |-> FALSE]
    BY <1>5, <1>9 DEF RecordTaken, y
  <2> HIDE DEF r
  <2>2. r.s = y /\ r.got = <<>>
    BY <2>1
  <2>3. Cut(s, delim, r) = <<>>
    BY <1>7, <1>8, <2>2 DEF Cut, NoBytes
  <2> QED
    BY <1>7, <1>8, <2>2, <2>3 DEF r
<1>10. CASE ~NoRecord(e, Avail(y)) /\ e.found < 0
  <2> DEFINE n == Least(Avail(y), max)
             q == Read(y, n)
             z == q.s
             t == [Consume(z, 0) EXCEPT !.position = @ + 0]
             g == q.got
  <2>1. r = [s |-> t, got |-> g, ok |-> TRUE]
    <3>1. ~(e.found >= 0)
      BY <1>6, <1>10
    <3> QED
      BY <1>5, <1>6, <1>10, <3>1 DEF RecordTaken, RecordRead, y
  <2>2. n \in Nat
    BY <1>7, LeastOf
  <2> HIDE DEF n
  <2>3. Gone(y, g, z) /\ z.position = y.position + Len(g)
    BY <1>7, <2>2, ReadKeeps
  <2> HIDE DEF z, g
  <2>4. Sane(z) /\ g \in Seq(Nat)
    BY <2>3 DEF Gone
  <2>5. Gone(z, <<>>, t) /\ t.position = z.position + 0
    <3>1. 0 \in 0..Avail(z)
      BY <2>4, UnreadFields
    <3>2. Gone(z, SubSeq(Unread(z), 1, 0), t) /\ t.position = z.position + 0
      BY <2>4, <3>1, RecordReadKeeps
    <3>3. SubSeq(Unread(z), 1, 0) = <<>>
      BY <2>4, UnreadFields
    <3> QED
      BY <3>2, <3>3
  <2> HIDE DEF t, r
  <2>6. r.s = t /\ r.got = g
    BY <2>1
  <2>7. Gone(y, g \o <<>>, t)
    BY <1>7, <2>3, <2>5, GoneTwice
  <2>8. Gone(s, <<>> \o (g \o <<>>), t)
    BY <1>7, <2>7, GoneTwice
  <2>9. g \o <<>> = g /\ <<>> \o (g \o <<>>) = g
    BY <2>4
  <2>10. Cut(s, delim, r) = <<>>
    <3>1. Len(g) \in Nat
      BY <2>4
    <3>2. t.position - s.position = Len(g)
      BY <1>7, <2>3, <2>5, <3>1
    <3>3. ~(r.s.position - s.position > Len(r.got))
      BY <2>6, <3>1, <3>2
    <3> QED
      BY <3>3 DEF Cut, NoBytes
  <2> QED
    BY <2>4, <2>6, <2>8, <2>9, <2>10 DEF r
<1>11. CASE ~NoRecord(e, Avail(y)) /\ e.found >= 0
  <2> DEFINE n == e.found
             q == Read(y, n)
             z == q.s
             l == Len(delim)
             t == [Consume(z, l) EXCEPT !.position = @ + l]
             g == q.got
             u == Unread(y)
  <2>1. r = [s |-> t, got |-> g, ok |-> TRUE]
    BY <1>5, <1>6, <1>11 DEF RecordTaken, RecordRead, y
  <2>2. /\ n \in 0..Avail(y) /\ n \in Nat /\ l \in Nat /\ l > 0 /\ n + l <= Avail(y)
        /\ SubSeq(u, n + 1, n + l) = delim
    <3>1. FoundAt(y, delim, n)
      BY <1>6, <1>11
    <3>2. l \in Nat /\ (delim # <<>> => l > 0)
      OBVIOUS
    <3> HIDE DEF l, n
    <3> QED
      BY <1>7, <3>1, <3>2 DEF FoundAt, l
  <2> HIDE DEF n
  <2>3. PICK v : Consumes(y, n, g, v) /\ Placed(v, y.position + n, z)
    BY <1>7, <2>2, ReadBuffered
  <2> HIDE DEF z, g
  <2>4. /\ Kept(y, g, v) /\ Len(g) = n /\ Unread(z) = SubSeq(u, n + 1, Len(u)) /\ g \in Seq(Nat)
        /\ Avail(z) = Avail(y) - n /\ Sane(z) /\ z.position = y.position + n
    BY <2>3 DEF Consumes, Placed, Kept, Gone
  <2>5. Gone(y, g, z)
    BY <2>3, <2>4, GonePlaced DEF Kept
  <2>6. l \in 0..Avail(z)
    BY <1>7, <2>2, <2>4
  <2>7. SubSeq(Unread(z), 1, l) = delim
    <3>1. u \in Seq(Nat) /\ n \in 0..Len(u) /\ l \in 0..(Len(u) - n)
      BY <1>7, <2>2
    <3> HIDE DEF u, l
    <3>2. SubSeq(SubSeq(u, n + 1, Len(u)), 1, l) = SubSeq(u, n + 1, n + l)
      BY <3>1, FrontOfRest
    <3> QED
      BY <2>2, <2>4, <3>2
  <2> HIDE DEF l, u
  <2>8. Gone(z, delim, t) /\ t.position = z.position + l
    <3>1. Gone(z, SubSeq(Unread(z), 1, l), t) /\ t.position = z.position + l
      BY <2>4, <2>6, RecordReadKeeps
    <3> QED
      BY <2>7, <3>1
  <2> HIDE DEF t, r
  <2>9. r.s = t /\ r.got = g
    BY <2>1
  <2>10. Gone(y, g \o delim, t)
    BY <1>7, <2>5, <2>8, GoneTwice
  <2>11. Gone(s, <<>> \o (g \o delim), t)
    BY <1>7, <2>10, GoneTwice
  <2>12. <<>> \o (g \o delim) = g \o delim
    BY <2>4
  <2>13. Cut(s, delim, r) = delim
    <3>1. t.position - s.position = n + l
      BY <1>7, <2>2, <2>4, <2>8
    <3>2. r.s.position - s.position > Len(r.got)
      BY <2>2, <2>4, <2>9, <3>1
    <3> QED
      BY <3>2 DEF Cut
  <2> QED
    BY <2>4, <2>9, <2>11, <2>12, <2>13 DEF r
<1> QED
  <2>1. e.found < 0 \/ e.found >= 0
    BY <1>6
  <2> QED
    BY <1>9, <1>10, <1>11, <2>1
-----------------------------------------------------------------------------
(* Writing *)

\* From x, b was sent, which left y, unless the connection took no more.
Sent(x, b, y) ==
  /\ y \in Streams /\ Len(y.out) <= Room
  /\ y.readfilters = x.readfilters /\ y.writefilters = x.writefilters /\ y.arrived = x.arrived
  /\ Full(y) \/ y.out = x.out \o b

\* The connection takes from the front of what is written.
Accepts(x, b, w) ==
  /\ w.n \in 0..Len(b) /\ w.s \in Streams /\ w.s.out = x.out \o SubSeq(b, 1, w.n)
  /\ Len(w.s.out) <= Room /\ (w.n < Len(b) => Full(w.s))
  /\ w.s.readfilters = x.readfilters /\ w.s.writefilters = x.writefilters
  /\ w.s.arrived = x.arrived /\ w.s.noseek = TRUE

LEMMA OpWriteAccepts ==
  ASSUME NEW x \in Streams, Len(x.out) <= Room, NEW b \in Seq(Nat)
  PROVE  Accepts(x, b, OpWrite(x, b))
<1> DEFINE k == IF Len(x.out) + Len(b) > Room THEN Room - Len(x.out) ELSE Len(b)
           c == SubSeq(b, 1, k)
           o == x.out \o c
           t == [x EXCEPT !.out = o]
           w == OpWrite(x, b)
<1>1. x.out \in Seq(Nat) /\ Room \in Nat
  BY FiltersAssumption DEF Streams
<1>2. Len(x.out) \in Nat /\ Len(b) \in Nat
  BY <1>1
<1>3. k \in 0..Len(b) /\ Len(x.out) + k <= Room /\ (k < Len(b) => Len(x.out) + k = Room)
  <2> DEFINE i == Len(x.out)
             j == Len(b)
  <2>1. i \in Nat /\ j \in Nat /\ Room \in Nat /\ i <= Room
    BY <1>1, <1>2
  <2>2. k = IF i + j > Room THEN Room - i ELSE j
    OBVIOUS
  <2> HIDE DEF i, j, k
  <2>3. k \in 0..j /\ i + k <= Room /\ (k < j => i + k = Room)
    BY <2>1, <2>2
  <2> QED
    BY <2>3 DEF i, j
<1> HIDE DEF k
<1>4. c \in Seq(Nat) /\ Len(c) = k
  BY <1>3, Split
<1> HIDE DEF c
<1>5. o \in Seq(Nat) /\ Len(o) = Len(x.out) + k
  <2> DEFINE p == x.out
  <2>1. p \in Seq(Nat)
    BY <1>1
  <2> HIDE DEF p
  <2>2. p \o c \in Seq(Nat) /\ Len(p \o c) = Len(p) + Len(c)
    <3>1. c \in Seq(Nat)
      BY <1>4
    <3> HIDE DEF c
    <3> QED
      BY <2>1, <3>1
  <2>3. Len(p \o c) = Len(p) + k
    BY <1>4, <2>2
  <2> QED
    BY <2>2, <2>3 DEF p
<1>6. w = [s |-> t, n |-> k]
  BY DEF OpWrite, k, c
<1> HIDE DEF o
<1>7. /\ t \in Streams /\ t.out = o /\ t.readfilters = x.readfilters
      /\ t.writefilters = x.writefilters /\ t.arrived = x.arrived /\ t.noseek = TRUE
  BY <1>5 DEF Streams
<1> HIDE DEF t, w
<1>8. w.s = t /\ w.n = k
  BY <1>6
<1>9. Accepts(x, b, w)
  BY <1>3, <1>5, <1>7, <1>8 DEF Accepts, Full, o, c
<1> QED
  BY <1>9 DEF w

Writings == [s : Streams, left : Seq(Nat), n : Nat, done : BOOLEAN]

\* The loop that writes bytes to x after k turns; it is done early when the connection is full.
Writing(x, bytes, k) ==
  {st \in Writings :
     /\ Len(st.s.out) <= Room /\ (st.done => Full(st.s))
     /\ st.s.readfilters = x.readfilters /\ st.s.writefilters = x.writefilters
     /\ st.s.arrived = x.arrived /\ st.s.noseek = TRUE
     /\ x.out \o bytes = st.s.out \o st.left
     /\ st.done \/ st.left = <<>> \/ Len(st.left) <= Len(bytes) - k}

LEMMA WriteTurnKeeps ==
  ASSUME NEW x, NEW bytes \in Seq(Nat), NEW k \in Nat, NEW st \in Writing(x, bytes, k)
  PROVE  WriteTurn(st) \in Writing(x, bytes, k + 1)
<1> DEFINE m == Least(Len(st.left), st.s.chunk)
           c == SubSeq(st.left, 1, m)
           w == OpWrite(st.s, c)
           rest == SubSeq(st.left, w.n + 1, Len(st.left))
           y == [s |-> w.s, left |-> rest, n |-> st.n + w.n, done |-> FALSE]
           z == [st EXCEPT !.s = w.s, !.done = TRUE]
<1>1. /\ st \in Writings /\ st.s \in Streams /\ st.left \in Seq(Nat) /\ st.n \in Nat
      /\ st.done \in BOOLEAN /\ Len(st.s.out) <= Room /\ (st.done => Full(st.s))
      /\ st.s.readfilters = x.readfilters /\ st.s.writefilters = x.writefilters
      /\ st.s.arrived = x.arrived /\ st.s.noseek = TRUE
      /\ x.out \o bytes = st.s.out \o st.left
      /\ st.done \/ st.left = <<>> \/ Len(st.left) <= Len(bytes) - k
  BY DEF Writing, Writings
<1>2. CASE st.done \/ st.left = <<>>
  <2>1. WriteTurn(st) = st
    BY <1>2 DEF WriteTurn
  <2>2. st \in Writing(x, bytes, k + 1)
    BY <1>1, <1>2 DEF Writing
  <2> QED
    BY <2>1, <2>2
<1>3. CASE ~(st.done \/ st.left = <<>>)
  <2> DEFINE l == st.left
             o == st.s.out
             n == w.n
  <2>1. l \in Seq(Nat) /\ o \in Seq(Nat) /\ l # <<>> /\ Len(l) <= Len(bytes) - k
    BY <1>1, <1>3 DEF Streams
  <2>2. Len(l) \in Nat /\ Len(l) >= 1
    <3> HIDE DEF l
    <3> QED
      BY <2>1
  <2>3. m \in Nat /\ m >= 1 /\ m <= Len(l)
    <3>1. st.s.chunk \in Nat /\ st.s.chunk >= 1
      <4>1. st.s.chunk = ChunkSize
        BY <1>1 DEF Streams
      <4>2. ChunkSize \in Nat /\ ChunkSize >= 1
        BY FiltersAssumption
      <4> QED
        BY <4>1, <4>2
    <3>2. m \in Nat /\ m <= Len(l) /\ (m = Len(l) \/ m = st.s.chunk)
      BY <2>2, <3>1, LeastOf
    <3> QED
      BY <2>2, <3>1, <3>2
  <2> HIDE DEF m
  <2>4. c \in Seq(Nat) /\ Len(c) = m
    <3> HIDE DEF l
    <3>1. SubSeq(l, 1, m) \in Seq(Nat) /\ Len(SubSeq(l, 1, m)) = m
      BY <2>1, <2>3
    <3> QED
      BY <3>1 DEF l
  <2>5. WriteTurn(st) = Written(st, w)
    BY <1>3 DEF WriteTurn, m
  <2> HIDE DEF c
  <2>6. Accepts(st.s, c, w)
    BY <1>1, <2>4, OpWriteAccepts
  <2> HIDE DEF w
  <2>7. /\ n \in 0..m /\ n \in Nat /\ w.s \in Streams /\ w.s.out = o \o SubSeq(c, 1, n)
        /\ Len(w.s.out) <= Room /\ (n < m => Full(w.s))
        /\ w.s.readfilters = x.readfilters /\ w.s.writefilters = x.writefilters
        /\ w.s.arrived = x.arrived /\ w.s.noseek = TRUE
    BY <1>1, <2>4, <2>6 DEF Accepts
  <2> HIDE DEF n
  <2>8. SubSeq(c, 1, n) = SubSeq(l, 1, n) /\ n \in 0..Len(l)
    <3>1. m \in 0..Len(l) /\ n <= m /\ n \in 0..Len(l) /\ 1 \in Nat /\ 1 >= 1
      BY <2>2, <2>3, <2>7
    <3> HIDE DEF l
    <3>2. SubSeq(SubSeq(l, 1, m), 1, n) = SubSeq(l, 1, n)
      BY <2>1, <2>7, <3>1, PartOfFront
    <3> QED
      BY <3>1, <3>2 DEF c, l
  <2>9. /\ SubSeq(l, 1, n) \in Seq(Nat) /\ SubSeq(l, n + 1, Len(l)) \in Seq(Nat)
        /\ SubSeq(l, 1, n) \o SubSeq(l, n + 1, Len(l)) = l
        /\ Len(SubSeq(l, n + 1, Len(l))) = Len(l) - n
    <3> HIDE DEF l
    <3>1. /\ SubSeq(l, 1, n) \in Seq(Nat) /\ SubSeq(l, n + 1, Len(l)) \in Seq(Nat)
          /\ SubSeq(l, 1, n) \o SubSeq(l, n + 1, Len(l)) = l
      BY <2>1, <2>8, Split
    <3>2. Len(SubSeq(l, n + 1, Len(l))) = Len(l) - n
      BY <2>1, <2>8
    <3> QED
      BY <3>1, <3>2
  <2>10. CASE n <= 0
    <3>1. n = 0
      BY <2>7, <2>10
    <3>2. WriteTurn(st) = z
      BY <2>5, <2>10 DEF Written, n
    <3>3. w.s.out = o
      <4>1. SubSeq(l, 1, 0) = <<>>
        BY <2>1
      <4>2. o \o <<>> = o
        <5> HIDE DEF o
        <5> QED
          BY <2>1, ConcatEmpty
      <4> QED
        BY <2>7, <2>8, <3>1, <4>1, <4>2
    <3>4. z \in Writings /\ z.s = w.s /\ z.left = l /\ z.done = TRUE
      BY <1>1, <2>7 DEF Writings
    <3> HIDE DEF z
    <3>5. Full(w.s)
      BY <2>3, <2>7, <3>1
    <3>6. z \in Writing(x, bytes, k + 1)
      BY <1>1, <2>7, <3>3, <3>4, <3>5 DEF Writing
    <3> QED
      BY <3>2, <3>6
  <2>11. CASE n > 0
    <3>1. WriteTurn(st) = y
      <4>1. ~(n <= 0) /\ ~Seekable(w.s)
        BY <2>7, <2>11 DEF Seekable
      <4> QED
        BY <2>5, <4>1 DEF Written, n
    <3>2. st.n + w.n \in Nat
      BY <1>1, <2>7 DEF n
    <3> DEFINE r == rest
    <3>3. r \in Seq(Nat) /\ Len(r) = Len(l) - n /\ r = SubSeq(l, n + 1, Len(l))
      BY <2>9 DEF n
    <3> HIDE DEF rest
    <3>4. y \in Writings /\ y.s = w.s /\ y.left = r /\ y.done = FALSE
      BY <2>7, <3>2, <3>3 DEF Writings
    <3> HIDE DEF y, r, l, o
    <3>5. o \o l = w.s.out \o r
      <4> DEFINE f == SubSeq(l, 1, n)
      <4>1. f \in Seq(Nat) /\ f \o r = l /\ w.s.out = o \o f
        BY <2>7, <2>8, <2>9, <3>3
      <4> HIDE DEF f
      <4>2. (o \o f) \o r = o \o (f \o r)
        BY <2>1, <3>3, <4>1, BytesAssoc
      <4> QED
        BY <4>1, <4>2
    <3>6. Len(r) <= Len(bytes) - (k + 1)
      <4>1. Len(bytes) \in Nat
        OBVIOUS
      <4> QED
        BY <2>1, <2>2, <2>7, <2>11, <3>3, <4>1
    <3>7. x.out \o bytes = w.s.out \o r
      BY <1>1, <3>5 DEF o, l
    <3>8. y \in Writing(x, bytes, k + 1)
      BY <2>7, <3>4, <3>6, <3>7 DEF Writing
    <3> QED
      BY <3>1, <3>8
  <2> QED
    BY <2>7, <2>10, <2>11
<1> QED
  BY <1>2, <1>3

LEMMA WriteBufferSends ==
  ASSUME NEW x \in Streams, Len(x.out) <= Room, NEW bytes \in Seq(Nat)
  PROVE  Sent(x, bytes, WriteBuffer(x, bytes).s)
<1> DEFINE a == [s |-> x, left |-> bytes, n |-> 0, done |-> FALSE]
           n == Len(bytes) + 1
           T == [k \in 0..n |-> Writing(x, bytes, k)]
           e == Loop(WriteTurn, a, n)
<1>1. x.noseek = TRUE /\ n \in Nat /\ Len(bytes) \in Nat
  <2>1. x.noseek = TRUE
    BY DEF Streams
  <2>2. Len(bytes) \in Nat
    OBVIOUS
  <2> QED
    BY <2>1, <2>2
<1>2. WriteBuffer(x, bytes) = e
  <2>1. Rewind(x) = x
    BY <1>1 DEF Rewind, Seekable
  <2> QED
    BY <2>1 DEF WriteBuffer
<1>3. a \in Writing(x, bytes, 0)
  <2>1. a \in Writings /\ a.s = x /\ a.left = bytes /\ a.done = FALSE
    BY DEF Writings
  <2> HIDE DEF a
  <2>2. Len(bytes) <= Len(bytes) - 0
    BY <1>1
  <2> QED
    BY <1>1, <2>1, <2>2 DEF Writing
<1>4. \A k \in 0..n : T[k] = Writing(x, bytes, k)
  OBVIOUS
<1> HIDE DEF a, T
<1>5. e \in Writing(x, bytes, n)
  <2>1. 0 \in 0..n /\ n \in 0..n /\ \A k \in 1..n : k \in 0..n /\ k - 1 \in 0..n /\ k - 1 \in Nat /\ (k - 1) + 1 = k
    BY <1>1
  <2> HIDE DEF n
  <2>2. \A k \in 1..n : \A y \in T[k - 1] : WriteTurn(y) \in T[k]
    <3> SUFFICES ASSUME NEW k \in 1..n, NEW y \in T[k - 1] PROVE WriteTurn(y) \in T[k]
      OBVIOUS
    <3>1. y \in Writing(x, bytes, k - 1)
      BY <1>4, <2>1
    <3>2. WriteTurn(y) \in Writing(x, bytes, (k - 1) + 1)
      BY <2>1, <3>1, WriteTurnKeeps
    <3> QED
      BY <1>4, <2>1, <3>2
  <2>3. a \in T[0]
    BY <1>3, <1>4, <2>1
  <2>4. Loop(WriteTurn, a, n) \in T[n]
    BY <1>1, <2>2, <2>3, WriteLoop
  <2> QED
    BY <1>4, <2>1, <2>4
<1> HIDE DEF e
<1>6. /\ e.s \in Streams /\ e.left \in Seq(Nat) /\ Len(e.s.out) <= Room /\ (e.done => Full(e.s))
      /\ e.s.readfilters = x.readfilters /\ e.s.writefilters = x.writefilters
      /\ e.s.arrived = x.arrived /\ x.out \o bytes = e.s.out \o e.left
      /\ e.done \/ e.left = <<>> \/ Len(e.left) <= Len(bytes) - n
  BY <1>5 DEF Writing, Writings
<1>7. e.left = <<>> \/ e.done
  <2>1. Len(e.left) \in Nat
    BY <1>6
  <2> QED
    BY <1>1, <1>6, <2>1
<1>8. e.left = <<>> => e.s.out = x.out \o bytes
  <2>1. e.s.out \in Seq(Nat)
    BY <1>6 DEF Streams
  <2> QED
    BY <1>6, <2>1, ConcatEmpty
<1> QED
  BY <1>2, <1>6, <1>7, <1>8 DEF Sent

\* From x, bytes were written through the filters with a flag, which left y, unless a filter
\* failed with bytes in hand or the connection took no more.
SentThrough(x, bytes, flag, y) ==
  /\ y \in Streams /\ Len(y.out) <= Room
  /\ y.readfilters = x.readfilters /\ y.arrived = x.arrived
  /\ SameKinds(x.writefilters, y.writefilters)
  /\ flag = "FLUSH_CLOSE" => Drained(y.writefilters)
  /\ \/ Full(y)
     \/ /\ Refusing(x.writefilters)
        /\ Len(Held(y.writefilters)) < Len(Held(x.writefilters)) + Len(bytes)
     \/ y.out \o Held(y.writefilters) = x.out \o (Held(x.writefilters) \o bytes)

LEMMA WriteWoundSends ==
  ASSUME NEW x \in Streams, Len(x.out) <= Room, NEW bytes \in Seq(Nat), NEW flag \in Flags,
         NEW w, Winds(x.writefilters, bytes, flag, w)
  PROVE  SentThrough(x, bytes, flag, WriteWound(x, w))
<1> DEFINE c == w.chain
           t == [x EXCEPT !.writefilters = c]
           y == WriteWound(x, w)
           d == x.writefilters
           o == x.out
<1> SUFFICES SentThrough(x, bytes, flag, y)
  OBVIOUS
<1>1. /\ w \in Brigades /\ SameKinds(d, c)
      /\ w.status = "ERR_FATAL" => Refusing(d) /\ Len(Held(c)) < Len(Held(d)) + Len(bytes)
      /\ w.status # "ERR_FATAL" => Held(d) \o bytes = Passing(w) \o Held(c)
      /\ flag = "FLUSH_CLOSE" => Drained(c)
  BY DEF Winds
<1>2. c \in Seq(Filters) /\ w.data \in Seq(Nat) /\ w.status \in Statuses
  BY <1>1 DEF Brigades
<1>3. /\ t \in Streams /\ t.writefilters = c /\ t.out = o /\ t.readfilters = x.readfilters
      /\ t.arrived = x.arrived /\ o \in Seq(Nat) /\ d \in Seq(Filters)
  BY <1>2 DEF Streams
<1>4. Held(c) \in Seq(Nat) /\ Held(d) \in Seq(Nat)
  BY <1>2, <1>3, HeldType
<1>5. y = IF w.status # "PASS_ON" THEN t ELSE WriteBuffer(t, w.data).s
  BY Zenon DEF WriteWound
<1> HIDE DEF t, y
<1>6. CASE w.status = "ERR_FATAL"
  <2>1. y = t
    BY <1>5, <1>6
  <2>2. y.writefilters = c /\ y.out = o /\ Len(y.out) <= Room
    BY <1>3, <2>1
  <2>3. Refusing(d) /\ Len(Held(y.writefilters)) < Len(Held(d)) + Len(bytes)
    BY <1>1, <1>6, <2>2, Zenon
  <2>4. y \in Streams /\ y.readfilters = x.readfilters /\ y.arrived = x.arrived
    BY <1>3, <2>1
  <2> QED
    BY <1>1, <2>2, <2>3, <2>4, Zenon DEF SentThrough
<1>7. CASE w.status = "FEED_ME"
  <2>1. y = t
    BY <1>5, <1>7
  <2>2. Held(d) \o bytes = Held(c)
    <3>1. Passing(w) = <<>>
      BY <1>7 DEF Passing
    <3> QED
      BY <1>1, <1>4, <1>7, <3>1, ConcatEmpty
  <2>3. y.writefilters = c /\ y.out = o /\ Len(y.out) <= Room
    BY <1>3, <2>1
  <2>4. y \in Streams /\ y.readfilters = x.readfilters /\ y.arrived = x.arrived
    BY <1>3, <2>1
  <2> QED
    BY <1>1, <2>2, <2>3, <2>4, Zenon DEF SentThrough
<1>8. CASE w.status = "PASS_ON"
  <2>1. y = WriteBuffer(t, w.data).s /\ Passing(w) = w.data
    BY <1>5, <1>8 DEF Passing
  <2>2. Sent(t, w.data, y)
    BY <1>2, <1>3, <2>1, WriteBufferSends
  <2>3. /\ y \in Streams /\ Len(y.out) <= Room
        /\ y.readfilters = x.readfilters /\ y.writefilters = c /\ y.arrived = x.arrived
        /\ Full(y) \/ y.out = o \o w.data
    BY <1>3, <2>2 DEF Sent
  <2>4. (o \o w.data) \o Held(c) = o \o (Held(d) \o bytes)
    <3> DEFINE b == w.data
               h == Held(c)
    <3>1. b \in Seq(Nat) /\ h \in Seq(Nat) /\ Held(d) \o bytes = b \o h
      BY <1>1, <1>2, <1>4, <1>8, <2>1
    <3> HIDE DEF b, h, o, d
    <3>2. (o \o b) \o h = o \o (b \o h)
      BY <1>3, <3>1, BytesAssoc
    <3> QED
      BY <3>1, <3>2 DEF b, h
  <2>5. Full(y) \/ y.out \o Held(y.writefilters) = o \o (Held(d) \o bytes)
    BY <2>3, <2>4, Zenon
  <2> QED
    BY <1>1, <2>3, <2>5, Zenon DEF SentThrough
<1>9. w.status = "PASS_ON" \/ w.status = "FEED_ME" \/ w.status = "ERR_FATAL"
  BY <1>2 DEF Statuses
<1> QED
  BY <1>6, <1>7, <1>8, <1>9, Zenon

LEMMA FlushSends ==
  ASSUME NEW x \in Streams, Len(x.out) <= Room, NEW closing \in BOOLEAN
  PROVE  SentThrough(x, <<>>, IF closing THEN "FLUSH_CLOSE" ELSE "FLUSH_INC", Flush(x, closing))
<1> DEFINE flag == IF closing THEN "FLUSH_CLOSE" ELSE "FLUSH_INC"
           w == Wind(x.writefilters, <<>>, flag)
<1>1. flag \in Flags
  BY DEF Flags
<1>2. x.writefilters \in Seq(Filters) /\ x.out \in Seq(Nat)
  BY DEF Streams
<1>3. <<>> \in Seq(Nat)
  OBVIOUS
<1>4. CASE x.writefilters = <<>>
  <2>1. Flush(x, closing) = x
    BY <1>4 DEF Flush
  <2>2. Held(x.writefilters) = <<>> /\ Drained(x.writefilters) /\ SameKinds(x.writefilters, x.writefilters)
    BY <1>4, HeldNone DEF Drained, SameKinds
  <2>3. <<>> \o <<>> = <<>>
    BY <1>3, ConcatEmpty
  <2> QED
    BY <2>1, <2>2, <2>3 DEF SentThrough
<1>5. CASE x.writefilters # <<>>
  <2>1. Flush(x, closing) = WriteWound(x, w)
    BY <1>5 DEF Flush, WriteFiltered
  <2>2. Winds(x.writefilters, <<>>, flag, w)
    <3> HIDE DEF flag
    <3> QED
      BY <1>1, <1>2, <1>3, WindKeeps
  <2> HIDE DEF w
  <2>3. SentThrough(x, <<>>, flag, WriteWound(x, w))
    <3> HIDE DEF flag
    <3> QED
      BY <1>1, <1>3, <2>2, WriteWoundSends
  <2> QED
    BY <2>1, <2>3
<1> QED
  BY <1>4, <1>5

LEMMA WriteSends ==
  ASSUME NEW x \in Streams, Len(x.out) <= Room, NEW bytes \in Seq(Nat)
  PROVE  SentThrough(x, bytes, "NORMAL", Write(x, bytes).s)
<1> DEFINE h == Held(x.writefilters)
           o == x.out
<1>1. x.writefilters \in Seq(Filters) /\ o \in Seq(Nat)
  BY DEF Streams
<1>2. h \in Seq(Nat)
  BY <1>1, HeldType
<1>3. SameKinds(x.writefilters, x.writefilters)
  BY DEF SameKinds
<1> HIDE DEF h, o
<1>4. CASE bytes = <<>>
  <2>1. Write(x, bytes).s = x
    BY <1>4 DEF Write
  <2>2. h \o bytes = h
    BY <1>2, <1>4, ConcatEmpty
  <2> QED
    BY <1>3, <2>1, <2>2 DEF SentThrough, h, o
<1>5. CASE bytes # <<>> /\ x.writefilters # <<>>
  <2> DEFINE w == Wind(x.writefilters, bytes, "NORMAL")
  <2>1. Write(x, bytes).s = WriteWound(x, w)
    BY <1>5 DEF Write, WriteFiltered
  <2>2. "NORMAL" \in Flags
    BY DEF Flags
  <2>3. Winds(x.writefilters, bytes, "NORMAL", w)
    BY <1>1, <2>2, WindKeeps
  <2> HIDE DEF w
  <2> QED
    BY <2>1, <2>2, <2>3, WriteWoundSends
<1>6. CASE bytes # <<>> /\ x.writefilters = <<>>
  <2> DEFINE y == WriteBuffer(x, bytes).s
  <2>1. Write(x, bytes).s = y
    BY <1>6 DEF Write
  <2>2. Sent(x, bytes, y)
    BY WriteBufferSends
  <2> HIDE DEF y
  <2>3. h = <<>> /\ <<>> \o bytes = bytes
    BY <1>6, HeldNone, ConcatEmpty DEF h
  <2>4. /\ y \in Streams /\ Len(y.out) <= Room
        /\ y.readfilters = x.readfilters /\ y.writefilters = x.writefilters /\ y.arrived = x.arrived
        /\ Full(y) \/ y.out = o \o bytes
    BY <2>2 DEF Sent, o
  <2>5. (o \o bytes) \o <<>> = o \o bytes
    <3>1. o \o bytes \in Seq(Nat)
      BY <1>1
    <3> QED
      BY <3>1, ConcatEmpty
  <2>6. Full(y) \/ y.out \o h = o \o (h \o bytes)
    BY <2>3, <2>4, <2>5
  <2> QED
    BY <1>3, <2>1, <2>4, <2>6 DEF SentThrough, h, o
<1> QED
  BY <1>4, <1>5, <1>6
-----------------------------------------------------------------------------
(* Flushing one filter *)

\* What a filter keeps of a call that passes nothing on.
KeptBack(f, bytes, r) ==
  /\ r.filter \in Filters /\ r.filter.kind = f.kind /\ r.status \in Statuses
  /\ r.out = <<>> /\ r.filter.held = f.held \o bytes

\* A filter that is not told to flush gives nothing of what it may hold.
LEMMA HoldsBack ==
  ASSUME NEW f \in Filters, NEW bytes \in Seq(Nat),
         f.kind \in {"through", "refuse"} => bytes = <<>>,
         f.kind = "pairs" => Len(f.held \o bytes) <= 1
  PROVE  KeptBack(f, bytes, OpFilter(f, bytes, "NORMAL"))
<1> DEFINE all == f.held \o bytes
           n == CASE f.kind = "through" -> Len(all)
                  [] f.kind = "pairs" -> 2 * (Len(all) \div 2)
                  [] f.kind = "hoard" -> 0
                  [] OTHER -> 0
           rest == SubSeq(all, n + 1, Len(all))
           out == SubSeq(all, 1, n)
           status == IF n > 0 \/ f.kind = "through" THEN "PASS_ON" ELSE "FEED_ME"
           g == [f EXCEPT !.held = rest]
           r == OpFilter(f, bytes, "NORMAL")
<1>1. /\ f.kind \in Kinds /\ f.held \in Seq(Nat)
      /\ f.kind \in {"through", "refuse"} => f.held = <<>>
  BY DEF Filters
<1>2. all \in Seq(Nat) /\ Len(all) \in Nat /\ (f.kind = "through" => Len(all) = 0)
  <2>1. all \in Seq(Nat)
    BY <1>1
  <2>2. f.kind = "through" => all = <<>>
    <3>1. <<>> \in Seq(Nat) /\ <<>> \o <<>> = <<>>
      BY ConcatEmpty
    <3> QED
      BY <1>1, <3>1
  <2> HIDE DEF all
  <2> QED
    BY <2>1, <2>2
<1>3. n = 0
  <2>1. f.kind = "pairs" => Len(all) = 0 \/ Len(all) = 1
    BY <1>2
  <2>2. 0 \div 2 = 0 /\ 1 \div 2 = 0
    OBVIOUS
  <2>3. f.kind = "through" => n = 0
    BY <1>2
  <2>4. f.kind = "pairs" => n = 2 * (Len(all) \div 2)
    OBVIOUS
  <2>5. f.kind \in {"hoard", "refuse"} => n = 0
    <3>1. CASE f.kind = "hoard"
      BY <3>1
    <3>2. CASE f.kind = "refuse"
      BY <3>2
    <3> QED
      BY <3>1, <3>2
  <2> HIDE DEF n, all
  <2>6. f.kind = "pairs" => n = 0
    <3>1. \A m \in {0, 1} : 2 * (m \div 2) = 0
      BY <2>2
    <3>2. f.kind = "pairs" => Len(all) \in {0, 1}
      BY <2>1
    <3> QED
      BY <2>4, <3>1, <3>2, Zenon
  <2> QED
    BY <1>1, <2>3, <2>5, <2>6 DEF Kinds
<1>4. r = [filter |-> g, out |-> out, status |-> status]
  <2>1. ~(f.kind = "refuse" /\ bytes # NoBytes)
    BY DEF NoBytes
  <2> QED
    BY <2>1, Zenon DEF OpFilter
<1> HIDE DEF all, n
<1>5. out = <<>> /\ rest = all
  <2>1. SubSeq(all, 1, 0) = <<>> /\ SubSeq(all, 0 + 1, Len(all)) = all
    BY <1>2, SubSeqFull
  <2> QED
    BY <1>3, <2>1
<1>6. status \in Statuses
  BY DEF Statuses
<1> HIDE DEF out, rest, status
<1>7. g.kind = f.kind /\ g.held = all /\ g \in Filters
  <2>1. f.kind \in {"through", "refuse"} => all = <<>>
    <3>1. <<>> \in Seq(Nat) /\ <<>> \o <<>> = <<>>
      BY ConcatEmpty
    <3> QED
      BY <1>1, <3>1 DEF all
  <2>2. f.kind = "pairs" => Len(all) <= 1
    BY DEF all
  <2> QED
    BY <1>1, <1>2, <1>5, <2>1, <2>2 DEF Filters
<1> HIDE DEF g, r
<1>8. r.filter = g /\ r.out = out /\ r.status = status
  BY <1>4
<1>9. KeptBack(f, bytes, r)
  BY <1>5, <1>6, <1>7, <1>8 DEF KeptBack, all
<1> QED
  BY <1>9 DEF r

\* One that is told to gives all it has or nothing.
GaveAll(f, r) ==
  /\ r.filter \in Filters /\ r.filter.kind = f.kind /\ r.status \in {"PASS_ON", "FEED_ME"}
  /\ r.out \in Seq(Nat) /\ f.held = r.out \o r.filter.held
  /\ r.out = <<>> \/ r.filter.held = <<>>
  /\ r.status = "FEED_ME" => r.out = <<>>

LEMMA FlushGives ==
  ASSUME NEW f \in Filters, NEW flag \in {"FLUSH_INC", "FLUSH_CLOSE"}
  PROVE  GaveAll(f, OpFilter(f, <<>>, flag))
<1> DEFINE all == f.held \o <<>>
           n == CASE f.kind = "through" -> Len(all)
                  [] f.kind = "pairs" -> IF flag = "NORMAL" THEN 2 * (Len(all) \div 2)
                                         ELSE Len(all)
                  [] f.kind = "hoard" -> IF flag = "FLUSH_CLOSE" THEN Len(all) ELSE 0
                  [] OTHER -> 0
           rest == SubSeq(all, n + 1, Len(all))
           out == SubSeq(all, 1, n)
           status == IF n > 0 \/ f.kind = "through" THEN "PASS_ON" ELSE "FEED_ME"
           g == [f EXCEPT !.held = rest]
           r == OpFilter(f, <<>>, flag)
<1>1. f.held \in Seq(Nat) /\ <<>> \in Seq(Nat) /\ flag \in Flags
  BY FilterFields DEF Flags
<1>2. all = f.held /\ Len(all) \in Nat /\ all \in Seq(Nat)
  BY <1>1, ConcatEmpty
<1>3. Gave(f, <<>>, flag, r)
  BY <1>1, FilterKeeps
<1>4. r = [filter |-> g, out |-> out, status |-> status]
  <2>1. ~(f.kind = "refuse" /\ <<>> # NoBytes)
    BY DEF NoBytes
  <2> QED
    BY <2>1, Zenon DEF OpFilter
<1>5. n = 0 \/ n = Len(all)
  BY <1>2
<1> HIDE DEF all, n
<1>6. SubSeq(all, 1, 0) = <<>> /\ SubSeq(all, Len(all) + 1, Len(all)) = <<>>
  BY <1>2
<1>7. out = <<>> \/ rest = <<>>
  BY <1>5, <1>6
<1> HIDE DEF out, rest
<1>8. g.held = rest
  <2>1. f \in [kind : Kinds, held : Seq(Nat)]
    BY DEF Filters
  <2> QED
    BY <2>1
<1> HIDE DEF g, r
<1>9. r.filter.held = rest /\ r.out = out
  BY <1>4, <1>8
<1>10. /\ r.filter \in Filters /\ r.filter.kind = f.kind
       /\ r.out \in Seq(Nat) /\ r.status \in Statuses /\ r.status # "ERR_FATAL"
       /\ f.held \o <<>> = r.out \o r.filter.held
       /\ r.status = "FEED_ME" => r.out = <<>>
  BY <1>3 DEF Gave
<1>11. GaveAll(f, r)
  BY <1>2, <1>7, <1>9, <1>10 DEF GaveAll, Statuses, all
<1> QED
  BY <1>11 DEF r

FlushFlag(finish) == IF finish THEN "FLUSH_CLOSE" ELSE "FLUSH_INC"

FlushTurn(p, k, finish) ==
  IF p.status # "PASS_ON" THEN p
  ELSE OpFilter(p.filter, p.out, IF k > 1 THEN "NORMAL" ELSE FlushFlag(finish))

\* What is made of the filter f in k turns: the first may give all it has, and every other
\* takes that back.
Flushed(f, k) ==
  {p \in [filter : Filters, out : Seq(Nat), status : Statuses] :
     /\ p.filter.kind = f.kind
     /\ k = 0 => p.filter = f /\ p.out = <<>> /\ p.status = "PASS_ON"
     /\ k = 1 => GaveAll(f, p)
     /\ k > 1 => p.filter.held = f.held /\ p.out = <<>>}

LEMMA FlushTurnGives ==
  ASSUME NEW f \in Filters, NEW k \in Nat, k >= 1, NEW finish \in BOOLEAN, NEW p \in Flushed(f, k - 1)
  PROVE  FlushTurn(p, k, finish) \in Flushed(f, k)
<1> DEFINE fk == IF k > 1 THEN "NORMAL" ELSE FlushFlag(finish)
           r == OpFilter(p.filter, p.out, fk)
           t == FlushTurn(p, k, finish)
<1> SUFFICES t \in Flushed(f, k)
  OBVIOUS
<1>1. p.filter \in Filters /\ p.out \in Seq(Nat) /\ p.status \in Statuses /\ p.filter.kind = f.kind
      /\ p \in [filter : Filters, out : Seq(Nat), status : Statuses]
  BY DEF Flushed
<1>2. /\ f.held \in Seq(Nat) /\ f.kind \in Kinds /\ <<>> \in Seq(Nat)
      /\ f.kind \in {"through", "refuse"} => f.held = <<>>
      /\ f.kind = "pairs" => Len(f.held) <= 1
  BY DEF Filters
<1>3. CASE k = 1
  <2>1. p.filter = f /\ p.out = <<>> /\ p.status = "PASS_ON"
    BY <1>3 DEF Flushed
  <2>2. fk = FlushFlag(finish) /\ FlushFlag(finish) \in {"FLUSH_INC", "FLUSH_CLOSE"}
    BY <1>3 DEF FlushFlag
  <2>3. t = OpFilter(f, <<>>, FlushFlag(finish))
    BY <2>1, <2>2, Zenon DEF FlushTurn
  <2>4. GaveAll(f, t)
    BY <2>2, <2>3, FlushGives
  <2>5. Gave(f, <<>>, FlushFlag(finish), t)
    <3> DEFINE flag == FlushFlag(finish)
    <3>1. flag \in Flags
      BY <2>2 DEF Flags
    <3> HIDE DEF flag
    <3>2. Gave(f, <<>>, flag, OpFilter(f, <<>>, flag))
      <4>1. <<>> \in Seq(Nat)
        OBVIOUS
      <4> QED
        BY <3>1, <4>1, FilterKeeps
    <3> QED
      BY <2>3, <3>2 DEF flag
  <2> HIDE DEF t
  <2>6. t \in [filter : Filters, out : Seq(Nat), status : Statuses] /\ t.filter.kind = f.kind
    BY <2>5 DEF Gave
  <2> QED
    BY <1>3, <2>4, <2>6 DEF Flushed
<1>4. CASE k > 1
  <2> DEFINE back == p.filter.held \o p.out
             Back == /\ back = f.held
                     /\ f.held = <<>> => p.out = <<>>
                     /\ p.status # "PASS_ON" => p.out = <<>> /\ p.filter.held = f.held
  <2>1. ASSUME k = 2 PROVE Back
    <3>1. GaveAll(f, p)
      <4>1. k - 1 = 1
        BY <2>1
      <4> QED
        BY <4>1 DEF Flushed
    <3>2. /\ f.held = p.out \o p.filter.held /\ (p.out = <<>> \/ p.filter.held = <<>>)
          /\ p.status = "FEED_ME" => p.out = <<>>
          /\ p.status \in {"PASS_ON", "FEED_ME"}
      BY <3>1 DEF GaveAll
    <3>3. p.filter.held \in Seq(Nat)
      BY <1>1, FilterFields
    <3>4. back = f.held
      BY <1>1, <3>2, <3>3, ConcatEmpty
    <3>5. f.held = <<>> => p.out = <<>>
      <4>1. CASE p.out = <<>>
        BY <4>1
      <4>2. CASE p.filter.held = <<>>
        BY <1>1, <3>2, <4>2, ConcatEmpty
      <4> QED
        BY <3>2, <4>1, <4>2
    <3>6. p.status # "PASS_ON" => p.out = <<>> /\ p.filter.held = f.held
      <4>1. p.status # "PASS_ON" => p.out = <<>>
        BY <3>2
      <4> QED
        BY <3>2, <3>3, <4>1, ConcatEmpty
    <3> HIDE DEF back
    <3> QED
      BY <3>4, <3>5, <3>6
  <2>2. ASSUME k > 2 PROVE Back
    <3>1. p.filter.held = f.held /\ p.out = <<>>
      <4>1. k - 1 > 1
        BY <2>2
      <4> QED
        BY <4>1 DEF Flushed
    <3>2. back = f.held
      BY <1>2, <3>1, ConcatEmpty
    <3> HIDE DEF back
    <3> QED
      BY <3>1, <3>2
  <2>3. /\ back = f.held
        /\ f.held = <<>> => p.out = <<>>
        /\ p.status # "PASS_ON" => p.out = <<>> /\ p.filter.held = f.held
    <3>1. k = 2 \/ k > 2
      BY <1>4
    <3> QED
      BY <2>1, <2>2, <3>1
  <2> HIDE DEF back
  <2>4. CASE p.status # "PASS_ON"
    <3>1. t = p
      BY <2>4 DEF FlushTurn
    <3>2. ~(k = 0) /\ ~(k = 1)
      BY <1>4
    <3> QED
      BY <1>1, <2>3, <2>4, <3>1, <3>2 DEF Flushed
  <2>5. CASE p.status = "PASS_ON"
    <3> DEFINE e == p.filter
               b == p.out
    <3>1. t = OpFilter(e, b, "NORMAL")
      BY <1>4, <2>5 DEF FlushTurn
    <3>2. /\ e \in Filters /\ b \in Seq(Nat) /\ e.kind = f.kind
          /\ e.kind \in {"through", "refuse"} => b = <<>>
          /\ e.kind = "pairs" => Len(e.held \o b) <= 1
      <4>1. e.held \o b = f.held
        BY <2>3 DEF back
      <4>2. /\ f.kind \in {"through", "refuse"} => f.held = <<>>
            /\ f.kind = "pairs" => Len(f.held) <= 1
        BY <1>2
      <4> QED
        BY <1>1, <2>3, <4>1, <4>2, Zenon
    <3> HIDE DEF e, b, t
    <3>3. KeptBack(e, b, t)
      BY <3>1, <3>2, HoldsBack
    <3>4. Gave(e, b, "NORMAL", t)
      BY <3>1, <3>2, FilterKeeps DEF Flags
    <3>5. t \in [filter : Filters, out : Seq(Nat), status : Statuses]
      BY <3>4 DEF Gave
    <3>6. t.filter.kind = f.kind /\ t.filter.held = f.held /\ t.out = <<>>
      BY <2>3, <3>2, <3>3 DEF KeptBack, back, e, b
    <3>7. ~(k = 0) /\ ~(k = 1)
      BY <1>4
    <3> QED
      BY <3>5, <3>6, <3>7 DEF Flushed
  <2> QED
    BY <2>4, <2>5
<1> QED
  <2>1. k = 1 \/ k > 1
    OBVIOUS
  <2> QED
    BY <1>3, <1>4, <2>1

FlushSteps(g, c, i, finish) ==
  g = [k \in 0..(Len(c) - i + 1) |->
         IF k = 0 THEN [filter |-> c[i], out |-> NoBytes, status |-> "PASS_ON"]
         ELSE FlushTurn(g[k - 1], k, finish)]

\* The turns for the i-th filter of c end with what one turn gives, or with nothing given
\* when other filters follow.
LEMMA FlushTurnsGive ==
  ASSUME NEW c \in Seq(Filters), NEW i \in 1..Len(c), NEW finish \in BOOLEAN
  PROVE  FlushTurns(c, i, finish) \in Flushed(c[i], Len(c) - i + 1)
<1> DEFINE n == Len(c) - i + 1
           f == c[i]
           Brigade == [filter : Filters, out : Seq(Nat), status : Statuses]
           a == [filter |-> f, out |-> NoBytes, status |-> "PASS_ON"]
           G == [p \in (1..n) \X Brigade |-> FlushTurn(p[2], p[1], finish)]
           T == [k \in 0..n |-> Flushed(f, k)]
<1>1. n \in Nat /\ 0 \in 0..n /\ n \in 0..n
  OBVIOUS
<1>2. f \in Filters
  OBVIOUS
<1>3. a \in Flushed(f, 0)
  <2>1. NoBytes = <<>> /\ <<>> \in Seq(Nat)
    BY DEF NoBytes
  <2>2. a \in Brigade /\ a.filter = f /\ a.out = <<>> /\ a.status = "PASS_ON"
    BY <1>2, <2>1 DEF Statuses
  <2> HIDE DEF a
  <2> QED
    BY <2>2 DEF Flushed
<1> HIDE DEF f
<1>4. \A k \in 1..n : \A x \in T[k - 1] : FlushTurn(x, k, finish) \in T[k] /\ x \in Brigade
  <2> SUFFICES ASSUME NEW k \in 1..n, NEW x \in T[k - 1]
               PROVE  FlushTurn(x, k, finish) \in T[k] /\ x \in Brigade
    OBVIOUS
  <2>1. k - 1 \in 0..n /\ k \in 0..n /\ k \in Nat /\ k >= 1
    OBVIOUS
  <2>2. T[k - 1] = Flushed(f, k - 1) /\ T[k] = Flushed(f, k)
    BY <2>1
  <2> HIDE DEF T, n
  <2>3. x \in Flushed(f, k - 1)
    BY <2>2
  <2>4. x \in Brigade
    BY <2>3 DEF Flushed
  <2> HIDE DEF Brigade
  <2>5. FlushTurn(x, k, finish) \in Flushed(f, k)
    BY <1>2, <2>1, <2>3, FlushTurnGives
  <2> QED
    BY <2>2, <2>4, <2>5
<1>5. Leads(G, n, T)
  <2>1. \A k \in 1..n : \A x \in Brigade : G[<<k, x>>] = FlushTurn(x, k, finish)
    OBVIOUS
  <2> HIDE DEF G, T, Brigade
  <2> QED
    BY <1>4, <2>1 DEF Leads
<1>6. a \in T[0] /\ T[n] = Flushed(f, n)
  BY <1>1, <1>3
<1>7. \A k \in 1..n : \A x \in Brigade : G[<<k, x>>] = FlushTurn(x, k, finish)
  OBVIOUS
<1> HIDE DEF G, T, Brigade
<1>8. PICK g : StepsWithin(g, n, a, G, T)
  <2> HIDE DEF n, a
  <2> QED
    BY <1>1, <1>5, <1>6, StepsIn
<1>9. FlushSteps(g, c, i, finish)
  <2>1. \A k \in 0..n : g[k] = IF k = 0 THEN a ELSE FlushTurn(g[k - 1], k, finish)
    <3> TAKE k \in 0..n
    <3>1. k # 0 => k \in 1..n /\ k - 1 \in 0..n
      OBVIOUS
    <3>2. k # 0 => g[k - 1] \in Brigade
      BY <1>4, <1>8, <3>1 DEF StepsWithin
    <3>3. k # 0 => g[k] = G[<<k, g[k - 1]>>]
      BY <1>8, <3>1 DEF StepsWithin
    <3>4. k = 0 => g[k] = a
      BY <1>8 DEF StepsWithin
    <3> HIDE DEF a, n
    <3> QED
      BY <1>7, <3>1, <3>2, <3>3, <3>4
  <2>2. g = [k \in 0..n |-> g[k]]
    BY <1>8 DEF StepsWithin
  <2>3. g = [k \in 0..n |-> IF k = 0 THEN a ELSE FlushTurn(g[k - 1], k, finish)]
    BY <2>1, <2>2, Zenon
  <2> QED
    BY <2>3 DEF FlushSteps, f
<1> DEFINE h == CHOOSE h : FlushSteps(h, c, i, finish)
<1>10. FlushSteps(h, c, i, finish)
  BY <1>9
<1>11. FlushTurns(c, i, finish) = h[n]
  BY Zenon DEF FlushTurns, FlushSteps, FlushTurn, FlushFlag
<1> HIDE DEF h
<1>12. \A k \in 0..n : h[k] = IF k = 0 THEN a ELSE FlushTurn(h[k - 1], k, finish)
  BY <1>10, Zenon DEF FlushSteps, f
<1>13. h[0] \in T[0]
  BY <1>1, <1>6, <1>12
<1>14. \A k \in 1..n : h[k - 1] \in T[k - 1] => h[k] \in T[k]
  <2> TAKE k \in 1..n
  <2>1. k \in 0..n /\ k # 0
    OBVIOUS
  <2>2. h[k] = FlushTurn(h[k - 1], k, finish)
    BY <1>12, <2>1, Zenon
  <2> HIDE DEF n
  <2> QED
    BY <1>4, <2>2
<1> HIDE DEF n, a
<1>15. \A k \in 0..n : h[k] \in T[k]
  BY <1>1, <1>13, <1>14, StepsKeep
<1> QED
  BY <1>1, <1>6, <1>11, <1>15 DEF n, f

\* What flushing the i-th filter of c gives.
Flushing(c, i, r) ==
  /\ r.filter \in Filters /\ r.filter.kind = c[i].kind /\ r.out \in Seq(Nat)
  /\ c[i].held = r.out \o r.filter.held
  /\ r.out # <<>> => i = Len(c) /\ r.status = "PASS_ON" /\ r.filter.held = <<>>

LEMMA FlushingIs ==
  ASSUME NEW c \in Seq(Filters), NEW i \in 1..Len(c), NEW finish \in BOOLEAN
  PROVE  Flushing(c, i, FlushTurns(c, i, finish))
<1> DEFINE n == Len(c) - i + 1
           f == c[i]
           r == FlushTurns(c, i, finish)
<1>1. r \in Flushed(f, n) /\ f \in Filters /\ n \in Nat /\ n >= 1 /\ (n = 1 => i = Len(c))
  BY FlushTurnsGive
<1> HIDE DEF n, r, f
<1>2. r.filter \in Filters /\ r.filter.kind = f.kind /\ r.out \in Seq(Nat)
  BY <1>1 DEF Flushed
<1>3. f.held \in Seq(Nat)
  BY <1>1, FilterFields
<1>4. CASE n = 1
  <2>1. GaveAll(f, r)
    BY <1>1, <1>4 DEF Flushed
  <2>2. r.out # <<>> => r.status = "PASS_ON" /\ r.filter.held = <<>>
    BY <2>1 DEF GaveAll
  <2>3. Flushing(c, i, r)
    BY <1>1, <1>2, <1>4, <2>1, <2>2 DEF Flushing, GaveAll, f
  <2> QED
    BY <2>3 DEF r
<1>5. CASE n # 1
  <2>1. n > 1
    BY <1>1, <1>5
  <2>2. r.filter.held = f.held /\ r.out = <<>>
    BY <1>1, <2>1 DEF Flushed
  <2>3. f.held = r.out \o r.filter.held
    BY <1>3, <2>2, ConcatEmpty
  <2>4. Flushing(c, i, r)
    BY <1>2, <2>2, <2>3 DEF Flushing, f
  <2> QED
    BY <2>4 DEF r
<1> QED
  BY <1>4, <1>5

\* What a chain holds when its i-th filter is replaced.
LEMMA HeldAround ==
  ASSUME NEW c \in Seq(Filters), NEW i \in 1..Len(c), NEW f \in Filters, NEW d, IsPut(c, i, f, d)
  PROVE  /\ After(c, i) \in Seq(Nat) /\ Before(c, i - 1) \in Seq(Nat)
         /\ c[i].held \in Seq(Nat) /\ f.held \in Seq(Nat)
         /\ Held(c) = After(c, i) \o (c[i].held \o Before(c, i - 1))
         /\ Held(d) = After(c, i) \o (f.held \o Before(c, i - 1))
<1>1. i \in 0..Len(c) /\ i - 1 \in 0..Len(c) /\ c[i] \in Filters
  OBVIOUS
<1>2. /\ d \in Seq(Filters) /\ Len(d) = Len(c) /\ After(d, i) = After(c, i)
      /\ Before(d, i) = f.held \o Before(c, i - 1)
  BY DEF IsPut
<1>3. /\ After(c, i) \in Seq(Nat) /\ Before(c, i - 1) \in Seq(Nat)
      /\ c[i].held \in Seq(Nat) /\ f.held \in Seq(Nat)
  BY <1>1, HeldSplit, FilterFields
<1>4. Held(c) = After(c, i) \o Before(c, i) /\ Before(c, i) = c[i].held \o Before(c, i - 1)
  BY <1>1, HeldSplit, HeldAt
<1>5. Held(d) = After(d, i) \o Before(d, i)
  <2>1. i \in 0..Len(d)
    BY <1>1, <1>2
  <2> QED
    BY <1>2, <2>1, HeldSplit
<1> QED
  BY <1>2, <1>3, <1>4, <1>5

LEMMA DrainedPut ==
  ASSUME NEW c \in Seq(Filters), NEW i \in 1..Len(c), NEW f \in Filters, NEW d, IsPut(c, i, f, d),
         f.kind = c[i].kind, f.held # <<>> => c[i].held # <<>>, Drained(c)
  PROVE  Drained(d)
<1>1. d \in Seq(Filters) /\ Len(d) = Len(c) /\ d[i] = f /\ \A j \in 1..Len(c) : j # i => d[j] = c[j]
  BY DEF IsPut
<1>2. Len(c) \in Nat /\ DOMAIN c = 1..Len(c) /\ DOMAIN d = 1..Len(c)
  BY <1>1
<1>3. \A k \in 1..Len(c) : d[k].kind = c[k].kind /\ (d[k].held # <<>> => c[k].held # <<>>)
  BY <1>1
<1> SUFFICES ASSUME NEW k \in 1..Len(c), d[k].held # <<>>
             PROVE  \E j \in 1..(k - 1) : d[j].kind # "through"
  BY <1>2 DEF Drained, NoBytes
<1>4. PICK j \in 1..(k - 1) : c[j].kind # "through"
  BY <1>2, <1>3 DEF Drained, NoBytes
<1>5. j \in 1..Len(c)
  BY <1>2, <1>4
<1> QED
  BY <1>3, <1>4, <1>5

\* What was done to the read chain of x left in y what the reader will get.
SameToRead(x, y) ==
  /\ Sane(y) /\ y.writefilters = x.writefilters
  /\ y.arrived = x.arrived /\ Content(y) = Content(x)

LEMMA FilterFlushReads ==
  ASSUME NEW x, Sane(x), NEW i \in 1..Len(x.readfilters), NEW finish \in BOOLEAN,
         NEW r, r = FlushTurns(x.readfilters, i, finish),
         r.status = "PASS_ON" /\ r.out # <<>> => x.readpos = 0 /\ Len(r.out) <= x.cap - Len(x.buf)
  PROVE  SameToRead(x, FilterFlush(x, "readfilters", i, finish))
<1> DEFINE c == x.readfilters
           f == r.filter
           d == [c EXCEPT ![i] = f]
           y == [x EXCEPT !.readfilters = d]
           b == x.buf \o r.out
           z == [y EXCEPT !.buf = b]
           t == FilterFlush(x, "readfilters", i, finish)
           A == After(c, i)
           B == Before(c, i - 1)
<1>1. /\ x \in Streams /\ x.buf \in Seq(Nat) /\ x.arrived \in Seq(Nat) /\ Len(x.buf) \in Nat
      /\ x.readpos \in 0..Len(x.buf) /\ x.cap \in Nat /\ Len(x.buf) <= x.cap /\ c \in Seq(Filters)
  BY StreamFields
<1>2. Flushing(c, i, r)
  BY <1>1, FlushingIs
<1>3. /\ f \in Filters /\ f.kind = c[i].kind /\ r.out \in Seq(Nat) /\ c[i].held = r.out \o f.held
      /\ r.out # <<>> => i = Len(c) /\ r.status = "PASS_ON" /\ f.held = <<>>
  BY <1>2 DEF Flushing
<1>4. IsPut(c, i, f, d)
  BY <1>1, <1>3, HeldPut
<1>5. /\ A \in Seq(Nat) /\ B \in Seq(Nat) /\ c[i].held \in Seq(Nat) /\ f.held \in Seq(Nat)
      /\ Held(c) = A \o (c[i].held \o B) /\ Held(d) = A \o (f.held \o B)
  <2> HIDE DEF c, f, d
  <2> QED
    BY <1>1, <1>3, <1>4, HeldAround DEF c
<1>6. d \in Seq(Filters)
  BY <1>4 DEF IsPut
<1>7. Drained(c) => Drained(d)
  <2>1. f.held # <<>> => c[i].held # <<>>
    <3>1. r.out = <<>> => c[i].held = f.held
      BY <1>3, <1>5, ConcatEmpty
    <3> QED
      BY <1>3, <3>1
  <2> HIDE DEF c, f, d
  <2> QED
    BY <1>1, <1>3, <1>4, <2>1, DrainedPut DEF c
<1>8. /\ y \in Streams /\ y.readfilters = d /\ y.buf = x.buf /\ y.readpos = x.readpos
      /\ y.cap = x.cap /\ y.arrived = x.arrived /\ y.eof = x.eof /\ y.early = x.early
      /\ y.writefilters = x.writefilters
  <2> HIDE DEF d, c
  <2> QED
    BY <1>1, <1>6 DEF Streams
<1>9. t = IF r.status # "PASS_ON" \/ r.out = NoBytes THEN y
          ELSE [BackUp(y) EXCEPT !.buf = @ \o r.out]
  BY DEF FilterFlush
<1> HIDE DEF d, y, t
<1>10. CASE r.out = <<>>
  <2>1. t = y
    BY <1>9, <1>10 DEF NoBytes
  <2>2. Held(d) = Held(c)
    BY <1>3, <1>5, <1>10, ConcatEmpty
  <2>3. Sane(y)
    BY <1>1, <1>7, <1>8 DEF Sane
  <2>4. Content(y) = Content(x)
    BY <1>8, <2>2 DEF Content, Unread
  <2>5. SameToRead(x, t)
    BY <1>8, <2>1, <2>3, <2>4 DEF SameToRead
  <2> QED
    BY <2>5 DEF t
<1>11. CASE r.out # <<>>
  <2> DEFINE o == r.out
             u == x.buf
  <2>1. r.status = "PASS_ON" /\ x.readpos = 0 /\ Len(o) <= x.cap - Len(u) /\ i = Len(c) /\ f.held = <<>>
    BY <1>3, <1>11
  <2>2. t = z
    <3>1. BackUp(y) = y
      BY <1>8, <2>1 DEF BackUp
    <3>2. [y EXCEPT !.buf = @ \o r.out] = z
      BY <1>8
    <3> QED
      BY <1>9, <1>11, <2>1, <3>1, <3>2 DEF NoBytes
  <2>3. A = <<>>
    BY <1>1, <2>1, HeldEnds
  <2>4. Held(c) = o \o B /\ Held(d) = B
    <3>1. o \o <<>> = o
      BY <1>3, ConcatEmpty
    <3>2. o \o B \in Seq(Nat)
      BY <1>3, <1>5
    <3> HIDE DEF o, B, A, c, f
    <3> QED
      BY <1>3, <1>5, <2>1, <2>3, <3>1, <3>2, ConcatEmpty DEF o
  <2>5. b \in Seq(Nat) /\ Len(b) = Len(u) + Len(o)
    <3>1. u \in Seq(Nat) /\ o \in Seq(Nat)
      BY <1>1, <1>3
    <3> HIDE DEF u, o
    <3>2. u \o o \in Seq(Nat) /\ Len(u \o o) = Len(u) + Len(o)
      BY <3>1
    <3> QED
      BY <3>2 DEF u, o
  <2> HIDE DEF b, o, u
  <2>6. /\ z \in Streams /\ z.readfilters = d /\ z.buf = b /\ z.readpos = 0
        /\ z.cap = x.cap /\ z.arrived = x.arrived /\ z.eof = x.eof /\ z.early = x.early
        /\ z.writefilters = x.writefilters
    BY <1>8, <2>1, <2>5 DEF Streams
  <2> HIDE DEF z
  <2>7. Sane(z)
    <3>1. 0 <= Len(b) /\ Len(b) <= x.cap
      <4>1. u \in Seq(Nat) /\ o \in Seq(Nat) /\ x.cap \in Nat
        BY <1>1, <1>3 DEF u, o
      <4>2. Len(u) \in Nat /\ Len(o) \in Nat
        BY <4>1
      <4>3. Len(o) <= x.cap - Len(u)
        BY <2>1 DEF u, o
      <4> QED
        BY <2>5, <4>1, <4>2, <4>3
    <3> QED
      BY <1>7, <2>6, <3>1 DEF Sane
  <2>8. Unread(x) = u /\ Unread(z) = u \o o
    <3>1. Unread(x) = SubSeq(u, 0 + 1, Len(u)) /\ Unread(z) = SubSeq(b, 0 + 1, Len(b))
      BY <2>1, <2>6 DEF Unread, u
    <3>2. SubSeq(u, 0 + 1, Len(u)) = u
      BY <1>1, SubSeqFull DEF u
    <3>3. SubSeq(b, 0 + 1, Len(b)) = b
      BY <2>5, SubSeqFull
    <3> QED
      BY <3>1, <3>2, <3>3 DEF b, u, o
  <2>9. (u \o o) \o B = u \o (o \o B)
    <3>1. u \in Seq(Nat) /\ o \in Seq(Nat)
      BY <1>1, <1>3 DEF u, o
    <3> HIDE DEF B
    <3> QED
      BY <1>5, <3>1, BytesAssoc
  <2>10. Content(z) = Content(x)
    <3>1. Content(z) = ((u \o o) \o B) \o x.arrived
      BY <2>4, <2>6, <2>8 DEF Content
    <3>2. Content(x) = (u \o (o \o B)) \o x.arrived
      BY <2>4, <2>8 DEF Content
    <3> QED
      BY <2>9, <3>1, <3>2, Zenon
  <2>11. SameToRead(x, t)
    BY <2>2, <2>6, <2>7, <2>10 DEF SameToRead
  <2> QED
    BY <2>11 DEF t
<1> QED
  BY <1>10, <1>11

\* What was done to the write chain of x left in y what was sent and will be.
SameToSend(x, y) ==
  /\ y \in Streams /\ Len(y.out) <= Room
  /\ y.readfilters = x.readfilters /\ y.arrived = x.arrived
  /\ y.out \o Held(y.writefilters) = x.out \o Held(x.writefilters)

LEMMA FilterFlushWrites ==
  ASSUME NEW x \in Streams, Len(x.out) <= Room, NEW i \in 1..Len(x.writefilters),
         NEW finish \in BOOLEAN, ~Full(FilterFlush(x, "writefilters", i, finish))
  PROVE  SameToSend(x, FilterFlush(x, "writefilters", i, finish))
<1> DEFINE c == x.writefilters
           r == FlushTurns(c, i, finish)
           f == r.filter
           d == [c EXCEPT ![i] = f]
           y == [x EXCEPT !.writefilters = d]
           w == OpWrite(y, r.out)
           t == FilterFlush(x, "writefilters", i, finish)
           A == After(c, i)
           B == Before(c, i - 1)
<1>1. x.out \in Seq(Nat) /\ c \in Seq(Filters)
  BY DEF Streams
<1>2. Flushing(c, i, r)
  BY <1>1, FlushingIs
<1>3. t = IF r.status # "PASS_ON" \/ r.out = NoBytes THEN y ELSE w.s
  BY DEF FilterFlush
<1> SUFFICES ASSUME ~Full(t) PROVE SameToSend(x, t)
  OBVIOUS
<1> HIDE DEF r
<1>4. /\ f \in Filters /\ f.kind = c[i].kind /\ r.out \in Seq(Nat) /\ c[i].held = r.out \o f.held
      /\ r.out # <<>> => i = Len(c) /\ r.status = "PASS_ON" /\ f.held = <<>>
  BY <1>2 DEF Flushing
<1>5. IsPut(c, i, f, d)
  BY <1>1, <1>4, HeldPut
<1>6. /\ A \in Seq(Nat) /\ B \in Seq(Nat) /\ c[i].held \in Seq(Nat) /\ f.held \in Seq(Nat)
      /\ Held(c) = A \o (c[i].held \o B) /\ Held(d) = A \o (f.held \o B)
  <2> HIDE DEF c, f, d
  <2> QED
    BY <1>1, <1>4, <1>5, HeldAround DEF c
<1>7. d \in Seq(Filters)
  BY <1>5 DEF IsPut
<1>8. /\ y \in Streams /\ y.writefilters = d /\ y.out = x.out
      /\ y.readfilters = x.readfilters /\ y.arrived = x.arrived
  <2> HIDE DEF d, c
  <2> QED
    BY <1>7 DEF Streams
<1> HIDE DEF d, y, t
<1>9. CASE r.out = <<>>
  <2>1. t = y
    BY <1>3, <1>9 DEF NoBytes
  <2>2. Held(d) = Held(c)
    BY <1>4, <1>6, <1>9, ConcatEmpty
  <2>3. SameToSend(x, t)
    BY <1>8, <2>1, <2>2 DEF SameToSend
  <2> QED
    BY <2>3
<1>10. CASE r.out # <<>>
  <2> DEFINE o == r.out
             p == x.out
  <2>1. r.status = "PASS_ON" /\ i = Len(c) /\ f.held = <<>>
    BY <1>4, <1>10
  <2>2. t = w.s
    BY <1>3, <1>10, <2>1 DEF NoBytes
  <2>3. Accepts(y, o, w)
    BY <1>4, <1>8, OpWriteAccepts
  <2> HIDE DEF w
  <2>4. A = <<>>
    BY <1>1, <2>1, HeldEnds
  <2>5. Held(c) = o \o B /\ Held(d) = B
    <3>1. o \o <<>> = o
      BY <1>4, ConcatEmpty
    <3>2. o \o B \in Seq(Nat)
      BY <1>4, <1>6
    <3> HIDE DEF o, B, A, c, f
    <3> QED
      BY <1>4, <1>6, <2>1, <2>4, <3>1, <3>2, ConcatEmpty DEF o
  <2>6. /\ w.s \in Streams /\ Len(w.s.out) <= Room /\ w.s.readfilters = x.readfilters
        /\ w.s.writefilters = d /\ w.s.arrived = x.arrived
    BY <1>8, <2>3 DEF Accepts
  <2>7. Full(w.s) \/ w.s.out = p \o o
    <3>1. w.n \in 0..Len(o) /\ w.s.out = y.out \o SubSeq(o, 1, w.n) /\ (w.n < Len(o) => Full(w.s))
      BY <2>3 DEF Accepts
    <3>2. SubSeq(o, 1, Len(o)) = o /\ Len(o) \in Nat
      BY <1>4, SubSeqFull
    <3>3. w.n < Len(o) \/ w.n = Len(o)
      BY <3>1, <3>2
    <3> QED
      BY <1>8, <3>1, <3>2, <3>3
  <2>8. (p \o o) \o B = p \o (o \o B)
    <3>1. p \in Seq(Nat) /\ o \in Seq(Nat) /\ B \in Seq(Nat)
      BY <1>1, <1>4, <1>6
    <3> HIDE DEF p, o, B
    <3> QED
      BY <3>1, BytesAssoc
  <2>9. w.s.out \o Held(w.s.writefilters) = p \o Held(c)
    BY <2>2, <2>5, <2>6, <2>7, <2>8, Zenon
  <2>10. SameToSend(x, t)
    BY <2>2, <2>6, <2>9, Zenon DEF SameToSend
  <2> QED
    BY <2>10
<1> QED
  BY <1>9, <1>10
-----------------------------------------------------------------------------
(* Putting a filter on a chain and taking one off *)

New(f) == f \in Filters /\ f.held = <<>>

LEMMA NewFilterIs ==
  ASSUME NEW kind \in FilterKinds
  PROVE  New(NewFilter(kind))
<1>1. kind \in Kinds /\ <<>> \in Seq(Nat) /\ Len(<<>>) = 0
  <2>1. kind \in Kinds
    BY FiltersAssumption DEF Kinds
  <2> QED
    BY <2>1
<1> QED
  BY <1>1 DEF New, NewFilter, Filters, NoBytes

LEMMA HeldPrepend ==
  ASSUME NEW c \in Seq(Filters), NEW f, New(f)
  PROVE  /\ <<f>> \o c \in Seq(Filters) /\ Held(<<f>> \o c) = Held(c)
         /\ Drained(c) => Drained(<<f>> \o c)
<1> DEFINE d == <<f>> \o c
<1>1. f \in Filters /\ f.held = <<>> /\ <<f>> \in Seq(Filters) /\ Held(<<f>>) = <<>>
  BY HeldOne DEF New
<1>2. Held(d) = Held(c)
  <2> DEFINE e == <<f>>
  <2>1. e \in Seq(Filters)
    BY <1>1
  <2>2. Held(e) = <<>>
    BY <1>1
  <2> HIDE DEF e
  <2>3. Held(e \o c) = Held(c) \o Held(e)
    BY <2>1, HeldConcat
  <2>4. Held(c) \in Seq(Nat)
    BY HeldType
  <2> QED
    BY <2>2, <2>3, <2>4, ConcatEmpty DEF e
<1>3. /\ d \in Seq(Filters) /\ Len(d) = Len(c) + 1 /\ Len(c) \in Nat /\ d[1] = f
      /\ \A k \in 2..(Len(c) + 1) : d[k] = c[k - 1]
  BY <1>1
<1> HIDE DEF d
<1>4. ASSUME Drained(c) PROVE Drained(d)
  <2> SUFFICES ASSUME NEW k \in 1..(Len(c) + 1), d[k].held # <<>>
               PROVE  \E j \in 1..(k - 1) : d[j].kind # "through"
    BY <1>3 DEF Drained, NoBytes
  <2>1. k \in 2..(Len(c) + 1) /\ k - 1 \in 1..Len(c)
    BY <1>1, <1>3
  <2>2. c[k - 1].held # <<>>
    BY <1>3, <2>1
  <2>3. PICK j \in 1..(k - 1 - 1) : c[j].kind # "through"
    BY <1>4, <2>1, <2>2 DEF Drained, NoBytes
  <2>4. j + 1 \in 1..(k - 1) /\ j + 1 \in 2..(Len(c) + 1) /\ (j + 1) - 1 = j
    BY <1>3, <2>1, <2>3
  <2>5. d[j + 1] = c[j]
    BY <1>3, <2>4
  <2> QED
    BY <2>3, <2>4, <2>5
<1> QED
  BY <1>2, <1>3, <1>4 DEF d

\* A chain changed as a whole.
LEMMA ChainReads ==
  ASSUME NEW x, Sane(x), NEW d \in Seq(Filters), Held(d) = Held(x.readfilters),
         x.eof /\ ~x.early => Drained(d)
  PROVE  SameToRead(x, [x EXCEPT !.readfilters = d])
<1> DEFINE y == [x EXCEPT !.readfilters = d]
<1>1. x \in Streams /\ x.readpos <= Len(x.buf) /\ Len(x.buf) <= x.cap
  BY DEF Sane
<1>2. /\ y \in Streams /\ y.readfilters = d /\ y.buf = x.buf /\ y.readpos = x.readpos
      /\ y.cap = x.cap /\ y.arrived = x.arrived /\ y.eof = x.eof /\ y.early = x.early
      /\ y.writefilters = x.writefilters
  BY <1>1 DEF Streams
<1> HIDE DEF y
<1>3. Sane(y)
  BY <1>1, <1>2 DEF Sane
<1>4. Content(y) = Content(x)
  BY <1>2 DEF Content, Unread
<1>5. SameToRead(x, y)
  BY <1>2, <1>3, <1>4 DEF SameToRead
<1> QED
  BY <1>5 DEF y

LEMMA ChainSends ==
  ASSUME NEW x \in Streams, Len(x.out) <= Room, NEW d \in Seq(Filters),
         Held(d) = Held(x.writefilters)
  PROVE  SameToSend(x, [x EXCEPT !.writefilters = d])
<1> DEFINE y == [x EXCEPT !.writefilters = d]
<1>1. /\ y \in Streams /\ y.writefilters = d /\ y.readfilters = x.readfilters
      /\ y.arrived = x.arrived /\ y.out = x.out
  BY DEF Streams
<1> HIDE DEF y
<1>2. SameToSend(x, y)
  BY <1>1 DEF SameToSend
<1> QED
  BY <1>2 DEF y

LEMMA HeldAppendNew ==
  ASSUME NEW c \in Seq(Filters), NEW f, New(f)
  PROVE  Append(c, f) \in Seq(Filters) /\ Held(Append(c, f)) = Held(c)
<1>1. f \in Filters /\ f.held = <<>>
  BY DEF New
<1>2. Held(Append(c, f)) = f.held \o Held(c) /\ Held(c) \in Seq(Nat)
  BY <1>1, HeldAppend
<1>3. Append(c, f) \in Seq(Filters)
  BY <1>1
<1> QED
  BY <1>1, <1>2, <1>3, ConcatEmpty

LEMMA AppendReads ==
  ASSUME NEW x, Sane(x), ~x.eof, NEW f, New(f)
  PROVE  SameToRead(x, AppendFilter(x, "readfilters", f))
<1> DEFINE c == x.readfilters
           u == Unread(x)
           r == OpFilter(f, u, "NORMAL")
           o == r.out
           h == Held(c)
           a == x.arrived
           d == Append(c, f)
           e == Append(c, r.filter)
           k == IF x.cap < Len(o) THEN x.cap + Len(o) ELSE x.cap
           y == [x EXCEPT !.readfilters = e, !.buf = o, !.readpos = 0, !.cap = k]
           t == AppendFilter(x, "readfilters", f)
<1> SUFFICES SameToRead(x, t)
  OBVIOUS
<1>1. /\ x \in Streams /\ x.buf \in Seq(Nat) /\ x.cap \in Nat /\ c \in Seq(Filters)
      /\ a \in Seq(Nat) /\ x.eof = FALSE
  BY StreamFields
<1>2. u \in Seq(Nat) /\ h \in Seq(Nat)
  BY UnreadFields
<1>3. f \in Filters /\ f.held = <<>>
  BY DEF New
<1>4. Gave(f, u, "NORMAL", r)
  <2> HIDE DEF u
  <2> QED
    BY <1>2, <1>3, FilterKeeps DEF Flags
<1>5. CASE Avail(x) = 0
  <2>1. t = [x EXCEPT !.readfilters = d]
    BY <1>1, <1>5 DEF AppendFilter
  <2>2. d \in Seq(Filters) /\ Held(d) = Held(c)
    BY <1>1, HeldAppendNew
  <2> HIDE DEF t, d
  <2>3. SameToRead(x, [x EXCEPT !.readfilters = d])
    BY <1>1, <2>2, ChainReads
  <2> QED
    BY <2>1, <2>3
<1>6. CASE Avail(x) # 0 /\ r.status = "ERR_FATAL"
  <2>1. t = x
    BY <1>6 DEF AppendFilter
  <2> QED
    BY <2>1 DEF SameToRead
<1>7. CASE Avail(x) # 0 /\ r.status # "ERR_FATAL"
  <2>1. IF r.status = "PASS_ON" THEN o = o ELSE <<>> = o
    BY <1>4, <1>7 DEF Gave, Statuses
  <2>2. /\ r.filter \in Filters /\ o \in Seq(Nat) /\ u = o \o r.filter.held
    <3>1. r.filter \in Filters /\ o \in Seq(Nat) /\ f.held \o u = o \o r.filter.held
      BY <1>4, <1>7 DEF Gave
    <3> HIDE DEF u, r
    <3> QED
      BY <1>2, <1>3, <3>1, ConcatEmpty
  <2>3. t = y
    <3>1. t = [Forget(x) EXCEPT !["readfilters"] = Append(@, r.filter),
                 !.buf = IF r.status = "PASS_ON" THEN r.out ELSE NoBytes,
                 !.cap = IF @ < Len(r.out) THEN @ + Len(r.out) ELSE @]
      <4>1. ~("readfilters" = "writefilters" \/ Avail(x) = 0) /\ r.status # "ERR_FATAL"
        BY <1>7
      <4> QED
        BY <4>1, Zenon DEF AppendFilter
    <3>2. (IF r.status = "PASS_ON" THEN r.out ELSE NoBytes) = o
      BY <2>1 DEF NoBytes
    <3> DEFINE n == Len(o)
               z == Forget(x)
    <3>3. z = [x EXCEPT !.buf = <<>>, !.readpos = 0]
      BY DEF Forget
    <3>4. z["readfilters"] = c /\ z["cap"] = x.cap
      BY <1>1, <3>3 DEF Streams
    <3> HIDE DEF r, z
    <3>5. t = [z EXCEPT !["readfilters"] = e, !.buf = o, !.cap = IF x.cap < n THEN x.cap + n ELSE x.cap]
      BY <3>1, <3>2, <3>4 DEF z
    <3> HIDE DEF o, n, t, e
    <3> QED
      BY <1>1, <3>3, <3>5 DEF Streams, n
  <2> DEFINE g == r.filter.held
  <2>4. g \in Seq(Nat) /\ e \in Seq(Filters) /\ Held(e) = g \o h
    <3>1. r.filter \in Filters
      BY <2>2
    <3> DEFINE q == r.filter
    <3>2. q \in Filters /\ c \in Seq(Filters)
      BY <1>1, <3>1
    <3> HIDE DEF q, c
    <3>3. q.held \in Seq(Nat)
      BY <3>2, FilterFields
    <3>4. Append(c, q) \in Seq(Filters)
      BY <3>2
    <3>5. Held(Append(c, q)) = q.held \o Held(c)
      BY <3>2, HeldAppend
    <3> QED
      BY <3>3, <3>4, <3>5 DEF q, c
  <2>5. Len(o) \in Nat /\ k \in Nat /\ Len(o) <= k
    <3>1. Len(o) \in Nat
      BY <2>2
    <3> HIDE DEF o
    <3> QED
      BY <1>1, <3>1
  <2> HIDE DEF e, k, t, u, o
  <2>6. /\ y \in Streams /\ y.readfilters = e /\ y.buf = o /\ y.readpos = 0 /\ y.cap = k
        /\ y.arrived = a /\ y.eof = FALSE /\ y.writefilters = x.writefilters
    BY <1>1, <2>2, <2>4, <2>5 DEF Streams
  <2> HIDE DEF y
  <2>7. Sane(y)
    BY <2>5, <2>6 DEF Sane
  <2>8. Unread(y) = o
    BY <2>2, <2>6, SubSeqFull DEF Unread
  <2>9. (o \o g) \o h = o \o (g \o h)
    <3> HIDE DEF g, h
    <3> QED
      BY <1>2, <2>2, <2>4, BytesAssoc
  <2>10. Content(y) = Content(x)
    <3>1. Content(x) = ((o \o g) \o h) \o a
      BY <2>2 DEF Content, u
    <3>2. Content(y) = (o \o (g \o h)) \o a
      BY <2>4, <2>6, <2>8 DEF Content
    <3> QED
      BY <2>9, <3>1, <3>2, Zenon
  <2> QED
    BY <2>3, <2>6, <2>7, <2>10 DEF SameToRead
<1> QED
  BY <1>5, <1>6, <1>7

\* A filter with nothing in it goes.
LEMMA HeldRemove ==
  ASSUME NEW c \in Seq(Filters), NEW i \in 1..Len(c), c[i].held = <<>>
  PROVE  /\ SubSeq(c, 1, i - 1) \o SubSeq(c, i + 1, Len(c)) \in Seq(Filters)
         /\ Held(SubSeq(c, 1, i - 1) \o SubSeq(c, i + 1, Len(c))) = Held(c)
<1> DEFINE a == SubSeq(c, 1, i - 1)
           b == SubSeq(c, i + 1, Len(c))
<1>1. i \in 0..Len(c) /\ i - 1 \in 0..Len(c) /\ a \in Seq(Filters) /\ b \in Seq(Filters)
  OBVIOUS
<1>2. After(c, i) \in Seq(Nat) /\ Before(c, i) \in Seq(Nat) /\ Before(c, i - 1) \in Seq(Nat)
      /\ Held(c) = After(c, i) \o Before(c, i)
  BY <1>1, HeldSplit
<1>3. Before(c, i) = c[i].held \o Before(c, i - 1)
  BY HeldAt
<1>4. Before(c, i) = Before(c, i - 1)
  BY <1>2, <1>3, ConcatEmpty
<1>5. Held(b) = After(c, i) /\ Held(a) = Before(c, i - 1)
  BY DEF After, Before
<1> HIDE DEF a, b
<1>6. a \o b \in Seq(Filters)
  BY <1>1
<1>7. Held(a \o b) = Held(b) \o Held(a)
  BY <1>1, HeldConcat
<1> QED
  BY <1>2, <1>4, <1>5, <1>6, <1>7 DEF a, b

\* When a chain holds nothing, none of its filters does.
LEMMA HeldNothing ==
  ASSUME NEW c \in Seq(Filters), Held(c) = <<>>, NEW k \in 1..Len(c)
  PROVE  c[k].held = <<>>
<1>1. c[k] \in Filters /\ k \in 0..Len(c) /\ k - 1 \in 0..Len(c)
  OBVIOUS
<1>2. /\ After(c, k) \in Seq(Nat) /\ Before(c, k) \in Seq(Nat) /\ Before(c, k - 1) \in Seq(Nat)
      /\ c[k].held \in Seq(Nat)
      /\ Held(c) = After(c, k) \o Before(c, k) /\ Before(c, k) = c[k].held \o Before(c, k - 1)
  BY <1>1, HeldSplit, HeldAt, FilterFields
<1>3. \A p, q \in Seq(Nat) : p \o q = <<>> => p = <<>> /\ q = <<>>
  <2> SUFFICES ASSUME NEW p \in Seq(Nat), NEW q \in Seq(Nat), p \o q = <<>>
               PROVE  p = <<>> /\ q = <<>>
    OBVIOUS
  <2>1. Len(p \o q) = Len(p) + Len(q) /\ Len(p) \in Nat /\ Len(q) \in Nat
    OBVIOUS
  <2>2. Len(p \o q) = 0
    OBVIOUS
  <2>3. Len(p) = 0 /\ Len(q) = 0
    BY <2>1, <2>2
  <2> QED
    BY <2>3
<1>4. Before(c, k) = <<>>
  BY <1>2, <1>3
<1> QED
  BY <1>2, <1>3, <1>4

\* Of a chain that holds as much as c, nothing is left in any filter either.
LEMMA NothingDrained ==
  ASSUME NEW c \in Seq(Filters), Held(c) = <<>>
  PROVE  Drained(c)
<1>1. DOMAIN c = 1..Len(c) /\ \A k \in 1..Len(c) : c[k].held = <<>>
  BY HeldNothing
<1> QED
  BY <1>1 DEF Drained, NoBytes

LEMMA RemoveReads ==
  ASSUME NEW x, Sane(x), NEW i \in 1..Len(x.readfilters), x.readfilters[i].held = <<>>,
         x.eof => Held(x.readfilters) = <<>>
  PROVE  SameToRead(x, RemoveFilter(x, "readfilters", i))
<1> DEFINE c == x.readfilters
           d == SubSeq(c, 1, i - 1) \o SubSeq(c, i + 1, Len(c))
<1>1. x \in Streams /\ c \in Seq(Filters)
  BY StreamFields
<1>2. RemoveFilter(x, "readfilters", i) = [x EXCEPT !.readfilters = d]
  BY <1>1 DEF RemoveFilter, Streams
<1>3. d \in Seq(Filters) /\ Held(d) = Held(c)
  <2> HIDE DEF c
  <2> QED
    BY <1>1, HeldRemove DEF c
<1> HIDE DEF d
<1>4. x.eof => Drained(d)
  BY <1>3, NothingDrained
<1>5. SameToRead(x, [x EXCEPT !.readfilters = d])
  BY <1>3, <1>4, ChainReads
<1> QED
  BY <1>2, <1>5

LEMMA RemoveSends ==
  ASSUME NEW x \in Streams, Len(x.out) <= Room, NEW i \in 1..Len(x.writefilters),
         x.writefilters[i].held = <<>>
  PROVE  SameToSend(x, RemoveFilter(x, "writefilters", i))
<1> DEFINE c == x.writefilters
           d == SubSeq(c, 1, i - 1) \o SubSeq(c, i + 1, Len(c))
<1>1. c \in Seq(Filters)
  BY DEF Streams
<1>2. RemoveFilter(x, "writefilters", i) = [x EXCEPT !.writefilters = d]
  BY <1>1 DEF RemoveFilter, Streams
<1>3. d \in Seq(Filters) /\ Held(d) = Held(c)
  <2> HIDE DEF c
  <2> QED
    BY <1>1, HeldRemove DEF c
<1> HIDE DEF d
<1>4. SameToSend(x, [x EXCEPT !.writefilters = d])
  BY <1>3, ChainSends
<1> QED
  BY <1>2, <1>4

LEMMA AppendSends ==
  ASSUME NEW x \in Streams, Len(x.out) <= Room, NEW f, New(f)
  PROVE  SameToSend(x, AppendFilter(x, "writefilters", f))
<1> DEFINE c == x.writefilters
           d == Append(c, f)
<1>1. c \in Seq(Filters)
  BY DEF Streams
<1>2. AppendFilter(x, "writefilters", f) = [x EXCEPT !.writefilters = d]
  BY <1>1 DEF AppendFilter, Streams
<1>3. d \in Seq(Filters) /\ Held(d) = Held(c)
  BY <1>1, HeldAppendNew
<1> HIDE DEF d
<1>4. SameToSend(x, [x EXCEPT !.writefilters = d])
  BY <1>3, ChainSends
<1> QED
  BY <1>2, <1>4

LEMMA PrependSends ==
  ASSUME NEW x \in Streams, Len(x.out) <= Room, NEW f, New(f)
  PROVE  SameToSend(x, PrependFilter(x, "writefilters", f))
<1> DEFINE c == x.writefilters
           d == <<f>> \o c
<1>1. c \in Seq(Filters)
  BY DEF Streams
<1>2. PrependFilter(x, "writefilters", f) = [x EXCEPT !.writefilters = d]
  BY <1>1 DEF PrependFilter, Streams
<1>3. d \in Seq(Filters) /\ Held(d) = Held(c)
  BY <1>1, HeldPrepend
<1> HIDE DEF d
<1>4. SameToSend(x, [x EXCEPT !.writefilters = d])
  BY <1>3, ChainSends
<1> QED
  BY <1>2, <1>4

LEMMA PrependReads ==
  ASSUME NEW x, Sane(x), NEW f, New(f)
  PROVE  SameToRead(x, PrependFilter(x, "readfilters", f))
<1> DEFINE c == x.readfilters
           d == <<f>> \o c
<1>1. x \in Streams /\ c \in Seq(Filters) /\ (x.eof /\ ~x.early => Drained(c))
  BY StreamFields DEF Sane
<1>2. PrependFilter(x, "readfilters", f) = [x EXCEPT !.readfilters = d]
  BY <1>1 DEF PrependFilter, Streams
<1>3. d \in Seq(Filters) /\ Held(d) = Held(c) /\ (Drained(c) => Drained(d))
  <2> HIDE DEF c
  <2> QED
    BY <1>1, HeldPrepend DEF c
<1> HIDE DEF d
<1>4. SameToRead(x, [x EXCEPT !.readfilters = d])
  BY <1>1, <1>3, ChainReads
<1> QED
  BY <1>2, <1>4
-----------------------------------------------------------------------------
(* The bytes that arrive and are written are numbered *)

LEMMA NumberedIs ==
  ASSUME NEW a \in Nat, NEW b \in Nat, b >= a
  PROVE  /\ Numbered(a + 1, b) \in Seq(Nat) /\ Len(Numbered(a + 1, b)) = b - a
         /\ \A k \in 1..(b - a) : Numbered(a + 1, b)[k] = a + k
<1> DEFINE m == b - (a + 1) + 1
           q == [k \in 1..m |-> a + 1 + k - 1]
<1>1. m \in Nat /\ m = b - a
  OBVIOUS
<1>2. \A k \in 1..m : a + 1 + k - 1 \in Nat /\ a + 1 + k - 1 = a + k
  BY <1>1
<1> HIDE DEF m
<1>3. q \in Seq(Nat) /\ Len(q) = m
  BY <1>1, <1>2
<1>4. \A k \in 1..m : q[k] = a + k
  BY <1>2
<1>5. Numbered(a + 1, b) = q
  BY DEF Numbered, m
<1> QED
  BY <1>1, <1>3, <1>4, <1>5

LEMMA NumberedMore ==
  ASSUME NEW w \in Nat, NEW n \in Nat
  PROVE  /\ Numbered(1, w) \in Seq(Nat) /\ Numbered(w + 1, w + n) \in Seq(Nat)
         /\ Numbered(1, w) \o Numbered(w + 1, w + n) = Numbered(1, w + n)
<1> DEFINE p == Numbered(1, w)
           q == Numbered(w + 1, w + n)
           r == Numbered(1, w + n)
<1>1. p \in Seq(Nat) /\ Len(p) = w /\ \A k \in 1..w : p[k] = k
  <2>1. /\ Numbered(0 + 1, w) \in Seq(Nat) /\ Len(Numbered(0 + 1, w)) = w - 0
        /\ \A k \in 1..(w - 0) : Numbered(0 + 1, w)[k] = 0 + k
    <3>1. 0 \in Nat /\ w >= 0
      OBVIOUS
    <3> QED
      BY <3>1, NumberedIs
  <2>2. 0 + 1 = 1 /\ w - 0 = w /\ \A k \in 1..w : 0 + k = k
    OBVIOUS
  <2> QED
    BY <2>1, <2>2
<1>2. q \in Seq(Nat) /\ Len(q) = n /\ \A k \in 1..n : q[k] = w + k
  <2>1. w + n \in Nat /\ w + n >= w /\ (w + n) - w = n
    OBVIOUS
  <2> DEFINE e == w + n
  <2> HIDE DEF e
  <2>2. /\ Numbered(w + 1, e) \in Seq(Nat) /\ Len(Numbered(w + 1, e)) = e - w
        /\ \A k \in 1..(e - w) : Numbered(w + 1, e)[k] = w + k
    BY <2>1, NumberedIs DEF e
  <2> QED
    BY <2>1, <2>2 DEF e
<1>3. r \in Seq(Nat) /\ Len(r) = w + n /\ \A k \in 1..(w + n) : r[k] = k
  <2> DEFINE e == w + n
  <2>1. e \in Nat /\ e >= 0
    OBVIOUS
  <2> HIDE DEF e
  <2>2. /\ Numbered(0 + 1, e) \in Seq(Nat) /\ Len(Numbered(0 + 1, e)) = e - 0
        /\ \A k \in 1..(e - 0) : Numbered(0 + 1, e)[k] = 0 + k
    BY <2>1, NumberedIs
  <2>3. 0 + 1 = 1 /\ e - 0 = e /\ \A k \in 1..e : 0 + k = k
    BY <2>1
  <2>4. Numbered(1, e) \in Seq(Nat) /\ Len(Numbered(1, e)) = e /\ \A k \in 1..e : Numbered(1, e)[k] = k
    BY <2>2, <2>3
  <2> QED
    BY <2>4 DEF e
<1> HIDE DEF p, q, r
<1>4. p \o q \in Seq(Nat) /\ Len(p \o q) = w + n
  <2>1. p \o q \in Seq(Nat) /\ Len(p \o q) = Len(p) + Len(q)
    <3>1. p \in Seq(Nat) /\ q \in Seq(Nat)
      BY <1>1, <1>2
    <3> QED
      BY <3>1
  <2> QED
    BY <1>1, <1>2, <2>1
<1>5. \A k \in 1..(w + n) : (p \o q)[k] = r[k]
  <2> TAKE k \in 1..(w + n)
  <2>1. CASE k <= w
    <3>1. (p \o q)[k] = p[k]
      BY <1>1, <1>2, <2>1
    <3> QED
      BY <1>1, <1>3, <2>1, <3>1
  <2>2. CASE k > w
    <3>1. (p \o q)[k] = q[k - w]
      BY <1>1, <1>2, <2>2
    <3>2. k - w \in 1..n /\ w + (k - w) = k
      BY <2>2
    <3> QED
      BY <1>2, <1>3, <3>1, <3>2
  <2>3. k <= w \/ k > w
    OBVIOUS
  <2> QED
    BY <2>1, <2>2, <2>3
<1>6. p \o q = r
  BY <1>3, <1>4, <1>5, SeqEqual
<1> QED
  BY <1>1, <1>2, <1>6 DEF p, q, r

LEMMA NumberedNext ==
  ASSUME NEW n \in Nat
  PROVE  Numbered(1, n) \in Seq(Nat) /\ Numbered(1, n) \o <<n + 1>> = Numbered(1, n + 1)
<1>1. /\ Numbered(1, n) \in Seq(Nat) /\ Numbered(n + 1, n + 1) \in Seq(Nat)
      /\ Numbered(1, n) \o Numbered(n + 1, n + 1) = Numbered(1, n + 1)
  BY NumberedMore
<1>2. Numbered(n + 1, n + 1) = <<n + 1>>
  <2>1. /\ Len(Numbered(n + 1, n + 1)) = (n + 1) - n
        /\ \A k \in 1..((n + 1) - n) : Numbered(n + 1, n + 1)[k] = n + k
    <3> DEFINE m == n + 1
    <3>1. m \in Nat /\ m >= n
      OBVIOUS
    <3> HIDE DEF m
    <3>2. /\ Len(Numbered(n + 1, m)) = m - n
          /\ \A k \in 1..(m - n) : Numbered(n + 1, m)[k] = n + k
      BY <3>1, NumberedIs
    <3> QED
      BY <3>2 DEF m
  <2>2. (n + 1) - n = 1
    OBVIOUS
  <2>3. Len(Numbered(n + 1, n + 1)) = 1 /\ Numbered(n + 1, n + 1)[1] = n + 1
    BY <2>1, <2>2
  <2>4. <<n + 1>> \in Seq(Nat) /\ Len(<<n + 1>>) = 1 /\ <<n + 1>>[1] = n + 1
    OBVIOUS
  <2>5. \A p, q \in Seq(Nat) : Len(p) = 1 /\ Len(q) = 1 /\ p[1] = q[1] => p = q
    BY SeqEqual
  <2> QED
    BY <1>1, <2>3, <2>4, <2>5
<1> QED
  BY <1>1, <1>2

LEMMA NumberedNone == Numbered(1, 0) = <<>>
BY DEF Numbered
-----------------------------------------------------------------------------
(* The stream that is open for reading, and the one that is open for writing *)

ReadGood ==
  mode = "read" /\ open =>
    Sane(s) /\ s.writefilters = <<>> /\ delivered \o Content(s) = Numbered(1, came)

WriteGood ==
  mode = "write" =>
    /\ s \in Streams /\ Len(s.out) <= Room
    /\ s.out \o Held(s.writefilters) = Numbered(1, wrote)
    /\ ~open => Drained(s.writefilters)

\* As long as nothing has happened that takes bytes out of their order, ...
Good ==
  /\ mode \in {"read", "write"} /\ came \in Nat /\ wrote \in Nat /\ delivered \in Seq(Nat)
  /\ ReadGood /\ WriteGood

Inv == sound => Good

\* The bytes were in order before the call.
Begun == Good /\ open

LEMMA ReadBegun ==
  ASSUME Begun, mode = "read"
  PROVE  /\ Sane(s) /\ s.writefilters = <<>> /\ delivered \o Content(s) = Numbered(1, came)
         /\ Chain = "readfilters" /\ s[Chain] = s.readfilters
         /\ came \in Nat /\ wrote \in Nat /\ delivered \in Seq(Nat) /\ Content(s) \in Seq(Nat)
<1>1. /\ Sane(s) /\ s.writefilters = <<>> /\ delivered \o Content(s) = Numbered(1, came)
      /\ came \in Nat /\ wrote \in Nat /\ delivered \in Seq(Nat)
  BY DEF Begun, Good, ReadGood
<1>2. Chain = "readfilters"
  BY DEF Chain
<1>3. s["readfilters"] = s.readfilters
  OBVIOUS
<1>4. Content(s) \in Seq(Nat)
  BY <1>1, UnreadFields
<1> QED
  BY <1>1, <1>2, <1>3, <1>4

LEMMA WriteBegun ==
  ASSUME Begun, mode = "write"
  PROVE  /\ s \in Streams /\ Len(s.out) <= Room /\ s.out \o Held(s.writefilters) = Numbered(1, wrote)
         /\ Chain = "writefilters" /\ s[Chain] = s.writefilters
         /\ came \in Nat /\ wrote \in Nat /\ delivered \in Seq(Nat)
         /\ s.out \in Seq(Nat) /\ s.writefilters \in Seq(Filters) /\ Held(s.writefilters) \in Seq(Nat)
<1>1. /\ s \in Streams /\ Len(s.out) <= Room /\ s.out \o Held(s.writefilters) = Numbered(1, wrote)
      /\ came \in Nat /\ wrote \in Nat /\ delivered \in Seq(Nat)
  BY DEF Begun, Good, WriteGood
<1>2. Chain = "writefilters"
  BY DEF Chain
<1>3. s["writefilters"] = s.writefilters
  OBVIOUS
<1>4. s.out \in Seq(Nat) /\ s.writefilters \in Seq(Filters)
  BY <1>1 DEF Streams
<1>5. Held(s.writefilters) \in Seq(Nat)
  BY <1>4, HeldType
<1> QED
  BY <1>1, <1>2, <1>3, <1>4, <1>5

\* A read that no filter refused loses nothing.
LEMMA NotRefused ==
  ASSUME Begun, mode = "read", NEW t, NEW got, Gone(s, got, t), ~RefusedBy(t)
  PROVE  Content(s) = got \o Content(t)
<1>1. Sane(s) /\ Chain = "readfilters" /\ s[Chain] = s.readfilters
  BY ReadBegun
<1>2. /\ Sane(t) /\ Same(s, t) /\ (Content(s) = got \o Content(t) \/ Lossy(s, t))
  BY DEF Gone
<1> SUFFICES ASSUME Lossy(s, t) PROVE FALSE
  BY <1>2
<1>3. Refusing(s.readfilters) /\ Inside(t) < Inside(s)
  BY DEF Lossy
<1>4. s.readfilters \in Seq(Filters)
  BY <1>1, StreamFields
<1>5. Refuses
  <2>1. DOMAIN s.readfilters = 1..Len(s.readfilters)
    BY <1>4
  <2> QED
    BY <1>1, <1>3, <2>1, Zenon DEF Refuses, Refusing
<1>6. t["readfilters"] = t.readfilters
  OBVIOUS
<1>7. t.arrived = s.arrived /\ Held(t.readfilters) = Held(s.readfilters)
  BY <1>1, <1>5, <1>6, Zenon DEF RefusedBy
<1>8. Inside(t) = Inside(s) /\ Inside(s) \in Nat
  BY <1>1, <1>7, UnreadFields DEF Inside
<1> QED
  BY <1>3, <1>8

\* Neither does a write or a flush.
LEMMA NotRefusedWrite ==
  ASSUME Begun, mode = "write", NEW bytes \in Seq(Nat), NEW flag, NEW t,
         SentThrough(s, bytes, flag, t), ~Full(t),
         ~Refuses \/ (bytes = <<>> /\ ~RefusedBy(t))
  PROVE  t.out \o Held(t.writefilters) = Numbered(1, wrote) \o bytes
<1>1. /\ s \in Streams /\ s.out \o Held(s.writefilters) = Numbered(1, wrote)
      /\ Chain = "writefilters" /\ s[Chain] = s.writefilters
      /\ s.out \in Seq(Nat) /\ s.writefilters \in Seq(Filters) /\ Held(s.writefilters) \in Seq(Nat)
  BY WriteBegun
<1>2. /\ SameKinds(s.writefilters, t.writefilters)
      /\ \/ Full(t)
         \/ /\ Refusing(s.writefilters)
            /\ Len(Held(t.writefilters)) < Len(Held(s.writefilters)) + Len(bytes)
         \/ t.out \o Held(t.writefilters) = s.out \o (Held(s.writefilters) \o bytes)
  BY DEF SentThrough
<1>3. Refusing(s.writefilters) => Refuses
  <2>1. DOMAIN s.writefilters = 1..Len(s.writefilters)
    BY <1>1
  <2> QED
    BY <1>1, <2>1, Zenon DEF Refuses, Refusing
<1>4. ~(Refusing(s.writefilters) /\ Len(Held(t.writefilters)) < Len(Held(s.writefilters)) + Len(bytes))
  <2> SUFFICES ASSUME Refusing(s.writefilters),
                      Len(Held(t.writefilters)) < Len(Held(s.writefilters)) + Len(bytes)
               PROVE  FALSE
    OBVIOUS
  <2>1. Refuses /\ bytes = <<>> /\ ~RefusedBy(t)
    BY <1>3
  <2>2. t["writefilters"] = t.writefilters
    OBVIOUS
  <2>3. Held(t.writefilters) = Held(s.writefilters)
    BY <1>1, <2>1, <2>2, Zenon DEF RefusedBy
  <2>4. Len(bytes) = 0 /\ Len(Held(s.writefilters)) \in Nat
    BY <1>1, <2>1
  <2> QED
    BY <2>3, <2>4
<1>5. t.out \o Held(t.writefilters) = s.out \o (Held(s.writefilters) \o bytes)
  BY <1>2, <1>4
<1> DEFINE o == s.out
           h == Held(s.writefilters)
<1>6. o \in Seq(Nat) /\ h \in Seq(Nat)
  BY <1>1
<1> HIDE DEF o, h
<1>7. (o \o h) \o bytes = o \o (h \o bytes)
  BY <1>6, BytesAssoc
<1> QED
  BY <1>1, <1>5, <1>7, Zenon DEF o, h
-----------------------------------------------------------------------------
(* Every call keeps the bytes in order, or says that it did not *)

LEMMA ReadOn ==
  ASSUME Begun, mode = "read", NEW got \in Seq(Nat),
         Sane(s'), s'.writefilters = <<>>, Content(s) = got \o Content(s'),
         delivered' = delivered \o got, mode' = mode, came' = came, wrote' = wrote
  PROVE  Good'
<1>1. /\ Sane(s) /\ s.writefilters = <<>> /\ delivered \o Content(s) = Numbered(1, came)
      /\ came \in Nat /\ wrote \in Nat /\ delivered \in Seq(Nat)
  BY ReadBegun
<1> DEFINE c == Content(s')
           d == delivered
<1>2. c \in Seq(Nat) /\ d \in Seq(Nat)
  BY <1>1, UnreadFields
<1>3. delivered' \in Seq(Nat)
  BY <1>1
<1> HIDE DEF c, d
<1>4. (d \o got) \o c = d \o (got \o c)
  BY <1>2, BytesAssoc
<1>5. delivered' \o Content(s') = Numbered(1, came')
  BY <1>1, <1>4 DEF c, d
<1>6. ReadGood'
  BY <1>5 DEF ReadGood
<1>7. WriteGood'
  BY DEF WriteGood
<1> QED
  BY <1>1, <1>3, <1>6, <1>7 DEF Good

LEMMA WriteOn ==
  ASSUME Begun, mode = "write", s' \in Streams, Len(s'.out) <= Room, wrote' \in Nat,
         s'.out \o Held(s'.writefilters) = Numbered(1, wrote'),
         open' \/ Drained(s'.writefilters),
         mode' = mode, came' = came, delivered' = delivered
  PROVE  Good'
<1>1. came \in Nat /\ delivered \in Seq(Nat)
  BY WriteBegun
<1>2. ReadGood'
  BY DEF ReadGood
<1>3. WriteGood'
  BY DEF WriteGood
<1> QED
  BY <1>1, <1>2, <1>3 DEF Good

LEMMA ArriveKeeps ==
  ASSUME Begun, Arrive
  PROVE  Good'
<1> DEFINE b == came + 1
           a == Append(s.arrived, b)
           t == [s EXCEPT !.arrived = a]
           u == Unread(s) \o Held(s.readfilters)
<1>1. mode = "read" /\ mode' = mode /\ open' = open /\ wrote' = wrote /\ delivered' = delivered
      /\ came' = b
  BY DEF Arrive
<1>2. /\ Sane(s) /\ s.writefilters = <<>> /\ delivered \o Content(s) = Numbered(1, came)
      /\ came \in Nat /\ wrote \in Nat /\ delivered \in Seq(Nat)
  BY <1>1, ReadBegun
<1>3. s \in Streams /\ s.arrived \in Seq(Nat) /\ b \in Nat
  <2>1. s \in Streams /\ s.arrived \in Seq(Nat)
    BY <1>2, StreamFields
  <2>2. b \in Nat
    BY <1>2
  <2> QED
    BY <2>1, <2>2
<1>4. u \in Seq(Nat)
  BY <1>2, UnreadFields
<1>5. a \in Seq(Nat) /\ a = s.arrived \o <<b>> /\ <<b>> \in Seq(Nat)
  <2> HIDE DEF b
  <2> QED
    BY <1>3
<1>6. s' = t
  BY DEF Arrive
<1> HIDE DEF a
<1>7. /\ t \in Streams /\ t.arrived = a /\ t.buf = s.buf /\ t.readpos = s.readpos /\ t.cap = s.cap
      /\ t.readfilters = s.readfilters /\ t.eof = s.eof /\ t.early = s.early
      /\ t.writefilters = s.writefilters
  BY <1>3, <1>5 DEF Streams
<1> HIDE DEF t
<1>8. Sane(t)
  BY <1>2, <1>7 DEF Sane
<1>9. Content(t) = u \o a /\ Content(s) = u \o s.arrived
  BY <1>7 DEF Content, Unread
<1> HIDE DEF u
<1>10. delivered \o (u \o a) = Numbered(1, b)
  <2> DEFINE e == <<b>>
             r == s.arrived
             d == delivered
             c == u \o r
  <2>1. e \in Seq(Nat) /\ r \in Seq(Nat) /\ d \in Seq(Nat) /\ u \in Seq(Nat) /\ a = r \o e
    BY <1>2, <1>3, <1>4, <1>5
  <2>2. d \o c = Numbered(1, came)
    BY <1>2, <1>9
  <2>3. Numbered(1, came) \o e = Numbered(1, b)
    BY <1>2, NumberedNext
  <2> HIDE DEF e, r, d, b
  <2>4. u \o (r \o e) = (u \o r) \o e
    BY <2>1, BytesAssoc
  <2>5. c \in Seq(Nat)
    BY <2>1
  <2> HIDE DEF c
  <2>6. d \o (c \o e) = (d \o c) \o e
    BY <2>1, <2>5, BytesAssoc
  <2>7. u \o a = c \o e
    BY <2>1, <2>4 DEF c
  <2> QED
    BY <2>2, <2>3, <2>6, <2>7, Zenon DEF d
<1>11. ReadGood'
  BY <1>1, <1>2, <1>6, <1>7, <1>8, <1>9, <1>10 DEF ReadGood
<1>12. WriteGood'
  BY <1>1 DEF WriteGood
<1> QED
  BY <1>1, <1>2, <1>3, <1>11, <1>12 DEF Good

LEMMA EndKeeps ==
  ASSUME Begun, End
  PROVE  Good'
<1> DEFINE t == [s EXCEPT !.ended = TRUE]
<1>1. mode = "read" /\ mode' = mode /\ open' = open /\ wrote' = wrote /\ delivered' = delivered
      /\ came' = came
  BY DEF End
<1>2. /\ Sane(s) /\ s.writefilters = <<>> /\ delivered \o Content(s) = Numbered(1, came)
      /\ came \in Nat /\ wrote \in Nat /\ delivered \in Seq(Nat)
  BY <1>1, ReadBegun
<1>3. s \in Streams
  BY <1>2, StreamFields
<1>4. s' = t
  BY DEF End
<1>5. /\ t \in Streams /\ t.arrived = s.arrived /\ t.buf = s.buf /\ t.readpos = s.readpos
      /\ t.cap = s.cap /\ t.readfilters = s.readfilters /\ t.eof = s.eof /\ t.early = s.early
      /\ t.writefilters = s.writefilters
  BY <1>3 DEF Streams
<1> HIDE DEF t
<1>6. Sane(t) /\ Content(t) = Content(s)
  BY <1>2, <1>5 DEF Sane, Content, Unread
<1>7. ReadGood'
  BY <1>1, <1>2, <1>4, <1>5, <1>6 DEF ReadGood
<1>8. WriteGood'
  BY <1>1 DEF WriteGood
<1> QED
  BY <1>1, <1>2, <1>7, <1>8 DEF Good

LEMMA DoReadKeeps ==
  ASSUME Begun, NEW n \in Nat, DoRead(n), sound'
  PROVE  Good'
<1> DEFINE r == Read(s, n)
<1>1. mode = "read" /\ mode' = mode /\ came' = came /\ wrote' = wrote
      /\ s' = r.s /\ delivered' = delivered \o r.got /\ ~RefusedBy(r.s)
  BY DEF DoRead
<1>2. Sane(s) /\ s.writefilters = <<>>
  BY <1>1, ReadBegun
<1>3. Gone(s, r.got, r.s)
  BY <1>2, ReadKeeps
<1> HIDE DEF r
<1>4. Content(s) = r.got \o Content(r.s)
  BY <1>1, <1>3, NotRefused
<1>5. Sane(r.s) /\ r.s.writefilters = <<>> /\ r.got \in Seq(Nat)
  BY <1>2, <1>3 DEF Gone, Same
<1> QED
  BY <1>1, <1>4, <1>5, ReadOn

LEMMA DoRecordKeeps ==
  ASSUME Begun, NEW max \in Nat, NEW delim \in Seq(Nat), DoRecord(max, delim), sound'
  PROVE  Good'
<1> DEFINE r == GetRecord(s, max, delim)
           cut == Cut(s, delim, r)
           g == r.got \o cut
<1>1. mode = "read" /\ mode' = mode /\ came' = came /\ wrote' = wrote
      /\ s' = r.s /\ delivered' = (delivered \o r.got) \o cut
      /\ ~RefusedBy(r.s) /\ ~RecordDrops(max, delim)
  BY DEF DoRecord, Cut
<1>2. Sane(s) /\ s.writefilters = <<>> /\ delivered \in Seq(Nat)
  BY <1>1, ReadBegun
<1>3. Gone(s, g, r.s) /\ r.got \in Seq(Nat)
  BY <1>1, <1>2, RecordKeeps
<1>4. cut \in Seq(Nat)
  BY DEF Cut, NoBytes
<1>5. r.got \in Seq(Nat)
  BY <1>3
<1> HIDE DEF r, cut
<1>6. Content(s) = g \o Content(r.s)
  BY <1>1, <1>3, NotRefused
<1>7. Sane(r.s) /\ r.s.writefilters = <<>> /\ g \in Seq(Nat)
  BY <1>2, <1>3 DEF Gone, Same
<1>8. delivered' = delivered \o g
  BY <1>1, <1>2, <1>4, <1>5, BytesAssoc
<1> HIDE DEF g
<1> QED
  BY <1>1, <1>6, <1>7, <1>8, ReadOn

LEMMA DoWriteKeeps ==
  ASSUME Begun, NEW n \in Nat, DoWrite(n), sound'
  PROVE  Good'
<1> DEFINE b == Numbered(wrote + 1, wrote + n)
           w == Write(s, b)
<1>1. mode = "write" /\ mode' = mode /\ came' = came /\ delivered' = delivered /\ open' = open
      /\ s' = w.s /\ wrote' = wrote + n /\ ~Refuses /\ ~Full(w.s)
  BY DEF DoWrite
<1>2. s \in Streams /\ Len(s.out) <= Room /\ wrote \in Nat
  BY <1>1, WriteBegun
<1>3. b \in Seq(Nat) /\ Numbered(1, wrote) \o b = Numbered(1, wrote + n)
  BY <1>2, NumberedMore
<1> HIDE DEF b
<1>4. SentThrough(s, b, "NORMAL", w.s)
  BY <1>2, <1>3, WriteSends
<1> HIDE DEF w
<1>5. w.s.out \o Held(w.s.writefilters) = Numbered(1, wrote) \o b
  BY <1>1, <1>3, <1>4, NotRefusedWrite
<1>6. w.s \in Streams /\ Len(w.s.out) <= Room
  BY <1>4 DEF SentThrough
<1>7. wrote' \in Nat
  BY <1>1, <1>2
<1>8. open' \/ Drained(s'.writefilters)
  BY <1>1 DEF Begun
<1>9. s'.out \o Held(s'.writefilters) = Numbered(1, wrote')
  BY <1>1, <1>3, <1>5
<1> QED
  BY <1>1, <1>6, <1>7, <1>8, <1>9, WriteOn

\* A flush, whether the stream closes or not.
LEMMA FlushedInOrder ==
  ASSUME Begun, mode = "write", NEW closing \in BOOLEAN, NEW t, t = Flush(s, closing),
         ~Full(t), ~RefusedBy(t)
  PROVE  /\ t \in Streams /\ Len(t.out) <= Room
         /\ t.out \o Held(t.writefilters) = Numbered(1, wrote)
         /\ closing => Drained(t.writefilters)
<1> DEFINE flag == IF closing THEN "FLUSH_CLOSE" ELSE "FLUSH_INC"
<1>1. s \in Streams /\ Len(s.out) <= Room /\ wrote \in Nat
  BY WriteBegun
<1>2. SentThrough(s, <<>>, flag, t)
  BY <1>1, FlushSends
<1>3. closing => flag = "FLUSH_CLOSE"
  OBVIOUS
<1> HIDE DEF flag
<1>4. <<>> \in Seq(Nat)
  OBVIOUS
<1>5. t.out \o Held(t.writefilters) = Numbered(1, wrote) \o <<>>
  <2> DEFINE b == <<>>
  <2>1. b \in Seq(Nat) /\ b = <<>> /\ SentThrough(s, b, flag, t)
    BY <1>2, <1>4
  <2> HIDE DEF b
  <2>2. t.out \o Held(t.writefilters) = Numbered(1, wrote) \o b
    BY <2>1, NotRefusedWrite
  <2> QED
    BY <2>1, <2>2
<1>6. Numbered(1, wrote) \o <<>> = Numbered(1, wrote)
  <2>1. 0 \in Nat
    OBVIOUS
  <2>2. Numbered(1, wrote) \in Seq(Nat)
    BY <1>1, NumberedNext
  <2> QED
    BY <2>2, ConcatEmpty
<1>7. t \in Streams /\ Len(t.out) <= Room /\ (flag = "FLUSH_CLOSE" => Drained(t.writefilters))
  BY <1>2 DEF SentThrough
<1> QED
  BY <1>3, <1>5, <1>6, <1>7

LEMMA DoFlushKeeps ==
  ASSUME Begun, DoFlush, sound'
  PROVE  Good'
<1> DEFINE t == Flush(s, FALSE)
<1>1. mode = "write" /\ mode' = mode /\ came' = came /\ delivered' = delivered /\ open' = open
      /\ wrote' = wrote /\ s' = t /\ ~Full(s') /\ ~RefusedBy(s')
  BY DEF DoFlush
<1>2. wrote \in Nat
  BY <1>1, WriteBegun
<1> HIDE DEF t
<1>3. t \in Streams /\ Len(t.out) <= Room /\ t.out \o Held(t.writefilters) = Numbered(1, wrote)
  BY <1>1, FlushedInOrder DEF t
<1>4. open' \/ Drained(s'.writefilters)
  BY <1>1 DEF Begun
<1> QED
  BY <1>1, <1>2, <1>3, <1>4, WriteOn

LEMMA DoCloseKeeps ==
  ASSUME Begun, DoClose, sound'
  PROVE  Good'
<1> DEFINE y == Flush(s, TRUE)
           none == <<>>
           t == [y EXCEPT !.readfilters = none]
<1>1. mode' = mode /\ came' = came /\ delivered' = delivered /\ open' = FALSE
      /\ wrote' = wrote /\ s' = t /\ ~Full(s') /\ ~RefusedBy(s')
  BY DEF DoClose
<1>2. mode \in {"read", "write"} /\ came \in Nat /\ wrote \in Nat /\ delivered \in Seq(Nat)
  BY DEF Begun, Good
<1>3. CASE mode = "read"
  <2>1. ReadGood' /\ WriteGood'
    BY <1>1, <1>3 DEF ReadGood, WriteGood
  <2> QED
    BY <1>1, <1>2, <2>1 DEF Good
<1>4. CASE mode = "write"
  <2>1. s \in Streams /\ Len(s.out) <= Room /\ Chain = "writefilters"
    BY <1>4, WriteBegun
  <2>2. SentThrough(s, <<>>, "FLUSH_CLOSE", y)
    <3> DEFINE c == TRUE
    <3>1. c \in BOOLEAN
      OBVIOUS
    <3> HIDE DEF c
    <3>2. SentThrough(s, <<>>, IF c THEN "FLUSH_CLOSE" ELSE "FLUSH_INC", Flush(s, c))
      BY <2>1, <3>1, FlushSends
    <3>3. (IF c THEN "FLUSH_CLOSE" ELSE "FLUSH_INC") = "FLUSH_CLOSE"
      BY DEF c
    <3> QED
      BY <3>2, <3>3 DEF c
  <2>3. y \in Streams /\ none \in Seq(Filters)
    <3>1. none \in Seq(Filters)
      OBVIOUS
    <3> HIDE DEF y, none
    <3>2. y \in Streams
      BY <2>2 DEF SentThrough
    <3> QED
      BY <3>1, <3>2
  <2> HIDE DEF none, y
  <2>4. /\ t \in Streams /\ t.out = y.out /\ t.writefilters = y.writefilters
        /\ t.arrived = y.arrived /\ t["writefilters"] = y["writefilters"]
    BY <2>3 DEF Streams
  <2> HIDE DEF t
  <2>5. ~Full(y)
    BY <1>1, <2>4 DEF Full
  <2>6. ~RefusedBy(y)
    BY <1>1, <2>1, <2>4, Zenon DEF RefusedBy
  <2>7. /\ Len(y.out) <= Room /\ y.out \o Held(y.writefilters) = Numbered(1, wrote)
        /\ Drained(y.writefilters)
    BY <1>4, <2>5, <2>6, FlushedInOrder DEF y
  <2> QED
    BY <1>1, <1>2, <1>4, <2>4, <2>7, WriteOn
<1> QED
  BY <1>2, <1>3, <1>4

\* What is done to the chain of a stream keeps the bytes in order if it keeps what will be
\* read or sent.
LEMMA ChainOn ==
  ASSUME Begun, mode = "read" => SameToRead(s, s'), mode = "write" => SameToSend(s, s'),
         mode' = mode, came' = came, wrote' = wrote, delivered' = delivered, open' = open
  PROVE  Good'
<1>1. mode \in {"read", "write"}
  BY DEF Begun, Good
<1>2. CASE mode = "read"
  <2>1. /\ s.writefilters = <<>> /\ Sane(s) /\ delivered \in Seq(Nat)
    BY <1>2, ReadBegun
  <2>2. Sane(s') /\ s'.writefilters = <<>> /\ Content(s') = Content(s) /\ Content(s') \in Seq(Nat)
    <3>1. Sane(s') /\ s'.writefilters = s.writefilters /\ Content(s') = Content(s)
      BY <1>2 DEF SameToRead
    <3>2. Content(s) \in Seq(Nat)
      BY <2>1, UnreadFields
    <3> QED
      BY <2>1, <3>1, <3>2
  <2>3. Content(s) = <<>> \o Content(s') /\ delivered' = delivered \o <<>> /\ <<>> \in Seq(Nat)
    <3>1. \A q \in Seq(Nat) : <<>> \o q = q /\ q \o <<>> = q
      BY ConcatEmpty
    <3> QED
      BY <2>1, <2>2, <3>1
  <2> QED
    BY <1>2, <2>2, <2>3, ReadOn
<1>3. CASE mode = "write"
  <2>1. s.out \o Held(s.writefilters) = Numbered(1, wrote) /\ wrote \in Nat
    BY <1>3, WriteBegun
  <2>2. s' \in Streams /\ Len(s'.out) <= Room
        /\ s'.out \o Held(s'.writefilters) = s.out \o Held(s.writefilters)
    BY <1>3 DEF SameToSend
  <2>3. open'
    BY DEF Begun
  <2> QED
    BY <1>3, <2>1, <2>2, <2>3, WriteOn
<1> QED
  BY <1>1, <1>2, <1>3

LEMMA DoPrependKeeps ==
  ASSUME Begun, NEW kind \in FilterKinds, DoPrepend(kind)
  PROVE  Good'
<1> DEFINE f == NewFilter(kind)
<1>1. /\ mode' = mode /\ came' = came /\ wrote' = wrote /\ delivered' = delivered /\ open' = open
      /\ s' = PrependFilter(s, Chain, f)
  BY DEF DoPrepend
<1>2. New(f)
  BY NewFilterIs
<1> HIDE DEF f
<1>3. mode = "read" => SameToRead(s, s')
  <2> SUFFICES ASSUME mode = "read" PROVE SameToRead(s, s')
    OBVIOUS
  <2>1. Sane(s) /\ Chain = "readfilters"
    BY ReadBegun
  <2> QED
    BY <1>1, <1>2, <2>1, PrependReads
<1>4. mode = "write" => SameToSend(s, s')
  <2> SUFFICES ASSUME mode = "write" PROVE SameToSend(s, s')
    OBVIOUS
  <2>1. s \in Streams /\ Len(s.out) <= Room /\ Chain = "writefilters"
    BY WriteBegun
  <2> QED
    BY <1>1, <1>2, <2>1, PrependSends
<1> QED
  BY <1>1, <1>3, <1>4, ChainOn

LEMMA DoAppendKeeps ==
  ASSUME Begun, NEW kind \in FilterKinds, DoAppend(kind), sound'
  PROVE  Good'
<1> DEFINE f == NewFilter(kind)
<1>1. /\ mode' = mode /\ came' = came /\ wrote' = wrote /\ delivered' = delivered /\ open' = open
      /\ s' = AppendFilter(s, Chain, f) /\ ~AppendStrands
  BY DEF DoAppend
<1>2. New(f)
  BY NewFilterIs
<1> HIDE DEF f
<1>3. mode = "read" => SameToRead(s, s')
  <2> SUFFICES ASSUME mode = "read" PROVE SameToRead(s, s')
    OBVIOUS
  <2>1. Sane(s) /\ Chain = "readfilters"
    BY ReadBegun
  <2>2. ~s.eof
    BY <1>1 DEF AppendStrands
  <2> QED
    BY <1>1, <1>2, <2>1, <2>2, AppendReads
<1>4. mode = "write" => SameToSend(s, s')
  <2> SUFFICES ASSUME mode = "write" PROVE SameToSend(s, s')
    OBVIOUS
  <2>1. s \in Streams /\ Len(s.out) <= Room /\ Chain = "writefilters"
    BY WriteBegun
  <2> QED
    BY <1>1, <1>2, <2>1, AppendSends
<1> QED
  BY <1>1, <1>3, <1>4, ChainOn

LEMMA DoRemoveKeeps ==
  ASSUME Begun, NEW i \in DOMAIN s[Chain], DoRemove(i), sound'
  PROVE  Good'
<1>1. /\ mode' = mode /\ came' = came /\ wrote' = wrote /\ delivered' = delivered /\ open' = open
      /\ s' = RemoveFilter(s, Chain, i) /\ ~RemoveLoses(i)
  BY DEF DoRemove
<1>2. s[Chain][i].held = <<>> /\ (s.eof => Held(s[Chain]) = <<>>)
  BY <1>1 DEF RemoveLoses, NoBytes
<1>3. mode = "read" => SameToRead(s, s')
  <2> SUFFICES ASSUME mode = "read" PROVE SameToRead(s, s')
    OBVIOUS
  <2>1. Sane(s) /\ Chain = "readfilters" /\ s[Chain] = s.readfilters
    BY ReadBegun
  <2>2. i \in 1..Len(s.readfilters)
    <3>1. s.readfilters \in Seq(Filters)
      BY <2>1, StreamFields
    <3>2. i \in DOMAIN s.readfilters
      BY <2>1
    <3> QED
      BY <3>1, <3>2
  <2>3. s.readfilters[i].held = <<>> /\ (s.eof => Held(s.readfilters) = <<>>)
    BY <1>2, <2>1, Zenon
  <2>4. SameToRead(s, RemoveFilter(s, "readfilters", i))
    BY <2>1, <2>2, <2>3, RemoveReads
  <2> QED
    BY <1>1, <2>1, <2>4, Zenon
<1>4. mode = "write" => SameToSend(s, s')
  <2> SUFFICES ASSUME mode = "write" PROVE SameToSend(s, s')
    OBVIOUS
  <2>1. /\ s \in Streams /\ Len(s.out) <= Room /\ Chain = "writefilters"
        /\ s[Chain] = s.writefilters /\ s.writefilters \in Seq(Filters)
    BY WriteBegun
  <2>2. i \in 1..Len(s.writefilters)
    BY <2>1
  <2>3. s.writefilters[i].held = <<>>
    BY <1>2, <2>1, Zenon
  <2>4. SameToSend(s, RemoveFilter(s, "writefilters", i))
    BY <2>1, <2>2, <2>3, RemoveSends
  <2> QED
    BY <1>1, <2>1, <2>4, Zenon
<1> QED
  BY <1>1, <1>3, <1>4, ChainOn

LEMMA DoFilterFlushKeeps ==
  ASSUME Begun, NEW i \in DOMAIN s[Chain], NEW finish \in BOOLEAN, DoFilterFlush(i, finish), sound'
  PROVE  Good'
<1>1. /\ mode' = mode /\ came' = came /\ wrote' = wrote /\ delivered' = delivered /\ open' = open
      /\ s' = FilterFlush(s, Chain, i, finish) /\ ~FlushRepeats(i, finish) /\ ~Full(s')
  BY DEF DoFilterFlush
<1>2. mode = "read" => SameToRead(s, s')
  <2> SUFFICES ASSUME mode = "read" PROVE SameToRead(s, s')
    OBVIOUS
  <2> DEFINE r == FlushTurns(s.readfilters, i, finish)
  <2>1. Sane(s) /\ Chain = "readfilters" /\ s[Chain] = s.readfilters
    BY ReadBegun
  <2>2. i \in 1..Len(s.readfilters) /\ s.readfilters \in Seq(Filters)
    <3>1. s.readfilters \in Seq(Filters)
      BY <2>1, StreamFields
    <3>2. i \in DOMAIN s.readfilters
      BY <2>1
    <3> QED
      BY <3>1, <3>2
  <2>3. ~(/\ r.status = "PASS_ON" /\ r.out # <<>>
          /\ s.readpos > 0 \/ Len(r.out) > s.cap - Len(s.buf))
    <3>1. ~(/\ mode = "read" /\ r.status = "PASS_ON" /\ r.out # NoBytes
            /\ s.readpos > 0 \/ Len(r.out) > s.cap - Len(s.buf))
      BY <1>1, <2>1, Zenon DEF FlushRepeats
    <3> QED
      BY <3>1, Zenon DEF NoBytes
  <2>4. Flushing(s.readfilters, i, r)
    BY <2>2, FlushingIs
  <2> HIDE DEF r
  <2>5. r.out \in Seq(Nat)
    BY <2>4 DEF Flushing
  <2>6. r.status = "PASS_ON" /\ r.out # <<>> => s.readpos = 0 /\ Len(r.out) <= s.cap - Len(s.buf)
    <3>1. s.readpos \in Nat /\ s.cap \in Nat /\ Len(s.buf) \in Nat
      BY <2>1, StreamFields
    <3>2. Len(r.out) \in Nat
      BY <2>5
    <3> QED
      BY <2>3, <3>1, <3>2
  <2>7. SameToRead(s, FilterFlush(s, "readfilters", i, finish))
    BY <2>1, <2>2, <2>6, FilterFlushReads DEF r
  <2> QED
    BY <1>1, <2>1, <2>7, Zenon
<1>3. mode = "write" => SameToSend(s, s')
  <2> SUFFICES ASSUME mode = "write" PROVE SameToSend(s, s')
    OBVIOUS
  <2>1. /\ s \in Streams /\ Len(s.out) <= Room /\ Chain = "writefilters"
        /\ s[Chain] = s.writefilters /\ s.writefilters \in Seq(Filters)
    BY WriteBegun
  <2>2. i \in 1..Len(s.writefilters)
    BY <2>1
  <2>3. s' = FilterFlush(s, "writefilters", i, finish)
    BY <1>1, <2>1, Zenon
  <2>4. ~Full(FilterFlush(s, "writefilters", i, finish))
    BY <1>1, <2>3, Zenon
  <2>5. SameToSend(s, FilterFlush(s, "writefilters", i, finish))
    BY <2>1, <2>2, <2>4, FilterFlushWrites
  <2> QED
    BY <2>3, <2>5, Zenon
<1> QED
  BY <1>1, <1>2, <1>3, ChainOn
-----------------------------------------------------------------------------
(* The stream *)

LEMMA InitGood == Init => Inv
<1> SUFFICES ASSUME Init PROVE Good
  BY DEF Inv
<1>1. /\ mode \in {"read", "write"} /\ came = 0 /\ wrote = 0 /\ delivered = <<>> /\ open = TRUE
  BY FiltersAssumption DEF Init
<1>2. PICK early \in BOOLEAN :
       s = [arrived |-> <<>>, ended |-> FALSE, early |-> early, out |-> <<>>,
            buf |-> <<>>, readpos |-> 0, cap |-> 0, position |-> 0, eof |-> FALSE,
            chunk |-> ChunkSize, nobuf |-> FALSE, noseek |-> TRUE, eol |-> "unix",
            plain |-> FALSE, readfilters |-> <<>>, writefilters |-> <<>>]
  BY DEF Init
<1>3. <<>> \in Seq(Nat) /\ <<>> \in Seq(Filters) /\ 0 \in Nat /\ Len(<<>>) = 0 /\ 0 <= Room
  <2>1. Room \in Nat
    BY FiltersAssumption
  <2> QED
    BY <2>1
<1>4. /\ s \in Streams /\ s.arrived = <<>> /\ s.out = <<>> /\ s.buf = <<>> /\ s.readpos = 0
      /\ s.cap = 0 /\ s.eof = FALSE /\ s.readfilters = <<>> /\ s.writefilters = <<>>
  <2> DEFINE none == <<>>
  <2>1. none \in Seq(Nat) /\ none \in Seq(Filters) /\ 0 \in Nat
    BY <1>3
  <2>2. s = [arrived |-> none, ended |-> FALSE, early |-> early, out |-> none,
            buf |-> none, readpos |-> 0, cap |-> 0, position |-> 0, eof |-> FALSE,
            chunk |-> ChunkSize, nobuf |-> FALSE, noseek |-> TRUE, eol |-> "unix",
            plain |-> FALSE, readfilters |-> none, writefilters |-> none]
    BY <1>2
  <2> HIDE DEF none
  <2>3. /\ s \in Streams /\ s.arrived = none /\ s.out = none /\ s.buf = none /\ s.readpos = 0
        /\ s.cap = 0 /\ s.eof = FALSE /\ s.readfilters = none /\ s.writefilters = none
    BY <2>1, <2>2 DEF Streams
  <2> QED
    BY <2>3 DEF none
<1>5. Held(<<>>) = <<>> /\ <<>> \o <<>> = <<>> /\ Numbered(1, 0) = <<>>
  BY <1>3, HeldNone, NumberedNone, ConcatEmpty
<1>6. Sane(s)
  BY <1>3, <1>4 DEF Sane
<1>7. Content(s) = <<>>
  <2>1. Unread(s) = <<>>
    <3>1. SubSeq(<<>>, 0 + 1, Len(<<>>)) = <<>>
      OBVIOUS
    <3> QED
      BY <1>4, <3>1 DEF Unread
  <2> QED
    BY <1>4, <1>5, <2>1 DEF Content
<1>8. ReadGood
  BY <1>1, <1>4, <1>5, <1>6, <1>7 DEF ReadGood
<1>9. WriteGood
  BY <1>1, <1>3, <1>4, <1>5 DEF WriteGood
<1> QED
  BY <1>1, <1>3, <1>8, <1>9 DEF Good

LEMMA StepGood == Inv /\ [Next]_vars => Inv'
<1> SUFFICES ASSUME Inv, [Next]_vars PROVE Inv'
  OBVIOUS
<1>1. CASE Next
  <2> SUFFICES ASSUME sound' PROVE Good'
    BY DEF Inv
  <2>1. Good /\ Call
    BY <1>1 DEF Next, Inv
  <2>2. open
    BY <2>1 DEF Call, Arrive, End, DoFlush, DoClose, DoRead, DoWrite, DoRecord, DoPrepend,
                DoAppend, DoRemove, DoFilterFlush
  <2>3. Begun
    BY <2>1, <2>2 DEF Begun
  <2>4. CASE Arrive
    BY <2>3, <2>4, ArriveKeeps
  <2>5. CASE End
    BY <2>3, <2>5, EndKeeps
  <2>6. CASE DoFlush
    BY <2>3, <2>6, DoFlushKeeps
  <2>7. CASE DoClose
    BY <2>3, <2>7, DoCloseKeeps
  <2>8. ASSUME NEW n \in Counts, DoRead(n) \/ DoWrite(n) PROVE Good'
    <3>1. n \in Nat
      BY FiltersAssumption
    <3> QED
      BY <2>3, <2>8, <3>1, DoReadKeeps, DoWriteKeeps
  <2>9. ASSUME NEW n \in Counts, NEW d \in Delims, DoRecord(n, d) PROVE Good'
    <3>1. n \in Nat /\ d \in Seq(Nat)
      BY FiltersAssumption
    <3> QED
      BY <2>3, <2>9, <3>1, DoRecordKeeps
  <2>10. ASSUME NEW kind \in FilterKinds, DoPrepend(kind) \/ DoAppend(kind) PROVE Good'
    BY <2>3, <2>10, DoPrependKeeps, DoAppendKeeps
  <2>11. ASSUME NEW i \in DOMAIN s[Chain],
                DoRemove(i) \/ \E finish \in BOOLEAN : DoFilterFlush(i, finish)
         PROVE  Good'
    BY <2>3, <2>11, DoRemoveKeeps, DoFilterFlushKeeps
  <2> QED
    BY <2>1, <2>4, <2>5, <2>6, <2>7, <2>8, <2>9, <2>10, <2>11 DEF Call
<1>2. CASE UNCHANGED vars
  <2>1. /\ s' = s /\ mode' = mode /\ came' = came /\ wrote' = wrote
        /\ delivered' = delivered /\ sound' = sound /\ open' = open
    BY <1>2 DEF vars
  <2> QED
    BY <2>1 DEF Inv, Good, ReadGood, WriteGood
<1> QED
  BY <1>1, <1>2

\* What the two properties need of the invariant.
LEMMA GoodIsConserved == Inv => Conserved
<1> SUFFICES ASSUME Inv, sound PROVE
      /\ mode = "read" /\ open =>
           delivered \o Unread(s) \o Held(s.readfilters) \o s.arrived = Numbered(1, came)
      /\ mode = "write" => s.out \o Held(s.writefilters) = Numbered(1, wrote)
  BY DEF Conserved
<1>1. Good
  BY DEF Inv
<1>2. mode = "write" => s.out \o Held(s.writefilters) = Numbered(1, wrote)
  BY <1>1 DEF Good, WriteGood
<1>3. ASSUME mode = "read", open
      PROVE  ((delivered \o Unread(s)) \o Held(s.readfilters)) \o s.arrived = Numbered(1, came)
  <2> DEFINE d == delivered
             u == Unread(s)
             h == Held(s.readfilters)
             a == s.arrived
             p == u \o h
  <2>1. Sane(s) /\ d \in Seq(Nat) /\ d \o Content(s) = Numbered(1, came)
    BY <1>1, <1>3 DEF Good, ReadGood
  <2>2. u \in Seq(Nat) /\ h \in Seq(Nat) /\ a \in Seq(Nat)
    BY <2>1, UnreadFields, StreamFields
  <2>3. Content(s) = p \o a
    BY DEF Content
  <2> HIDE DEF d, u, h, a
  <2>4. (d \o u) \o h = d \o (u \o h)
    BY <2>1, <2>2, BytesAssoc
  <2>5. p \in Seq(Nat)
    BY <2>2
  <2> HIDE DEF p
  <2>6. (d \o p) \o a = d \o (p \o a)
    BY <2>1, <2>2, <2>5, BytesAssoc
  <2>7. ((d \o u) \o h) \o a = Numbered(1, came)
    BY <2>1, <2>3, <2>4, <2>6, Zenon DEF p
  <2> QED
    BY <2>7 DEF d, u, h, a
<1> QED
  BY <1>2, <1>3

LEMMA GoodIsWhole == Inv => EndIsWhole
BY DEF Inv, Good, ReadGood, WriteGood, Sane, EndIsWhole

\* No byte is lost, repeated or overtaken, whatever is read, looked for, written, flushed or
\* done to the chains (streams.c, filter.c), as long as none of the calls has been made that
\* take bytes out of their order.
THEOREM BytesConserved == Spec => []Conserved
<1>1. Inv => Conserved
  BY GoodIsConserved
<1> QED
  BY <1>1, InitGood, StepGood, PTL DEF Spec

\* A reader that is told of the end has got everything that the filters would give, and the
\* connection has when the stream was closed (_php_stream_fill_read_buffer,
\* _php_stream_free).
THEOREM EndsAreWhole == Spec => []EndIsWhole
<1>1. Inv => EndIsWhole
  BY GoodIsWhole
<1> QED
  BY <1>1, InitGood, StepGood, PTL DEF Spec
=============================================================================
