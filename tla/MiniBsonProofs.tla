---------------------------- MODULE MiniBsonProofs ----------------------------
(***************************************************************************)
(* What the driver puts into a packet, and what it finds in a reply, for   *)
(* commands and documents of any number of fields of any length.           *)
(***************************************************************************)
EXTENDS MiniBson, SequenceTheorems, WellFoundedInduction, TLAPS
-----------------------------------------------------------------------------
(* Sequences of sequences *)

\* Induction over the naturals, for a set.
LEMMA InductionOnNat ==
  ASSUME NEW T, 0 \in T, \A n \in Nat : n \in T => n + 1 \in T
  PROVE  \A n \in Nat : n \in T
<1> SUFFICES ASSUME \E n \in Nat : n \notin T PROVE FALSE
  OBVIOUS
<1> DEFINE R == OpToRel(<, Nat)
           U == {n \in Nat : n \notin T}
<1>1. IsWellFoundedOn(R, Nat)
  BY NatLessThanWellFounded
<1>2. \A x, y \in Nat : x < y => <<x, y>> \in R
  BY DEF OpToRel
<1>3. U \subseteq Nat /\ U # {}
  OBVIOUS
<1> HIDE DEF R, U
<1>4. PICK n \in U : \A m \in U : ~(<<m, n>> \in R)
  BY <1>1, <1>3, WFMin
<1>5. n \in Nat /\ n \notin T /\ n # 0
  BY <1>4 DEF U
<1>6. n - 1 \in Nat /\ n - 1 < n /\ n = (n - 1) + 1
  BY <1>5
<1>7. n - 1 \in T
  BY <1>2, <1>4, <1>5, <1>6 DEF U
<1> QED
  BY <1>5, <1>6, <1>7

LEMMA ConcatAssoc ==
  \A X : \A a, b, c \in Seq(X) : (a \o b) \o c = a \o (b \o c)
OBVIOUS

LEMMA ConcatEmpty ==
  ASSUME NEW X, NEW a \in Seq(X)
  PROVE  a \o <<>> = a /\ <<>> \o a = a
OBVIOUS

\* The flattened beginnings of s.
Flat(g, s) == g = [i \in 1..Len(s) |-> IF i = 1 THEN s[i] ELSE g[i - 1] \o s[i]]

LEMMA FlatExists ==
  ASSUME NEW X, NEW s \in Seq(Seq(X))
  PROVE  \E g : Flat(g, s) /\ g \in [1..Len(s) -> Seq(X)]
<1> DEFINE F(g, m) == /\ g = [i \in 1..m |-> IF i = 1 THEN s[i] ELSE g[i - 1] \o s[i]]
                      /\ g \in [1..m -> Seq(X)]
           T == {m \in Nat : m <= Len(s) => \E g : F(g, m)}
<1>1. 0 \in T
  <2>1. F([i \in 1..0 |-> <<>>], 0)
    OBVIOUS
  <2> QED
    BY <2>1
<1>2. ASSUME NEW m \in Nat, m \in T PROVE m + 1 \in T
  <2>1. SUFFICES ASSUME m + 1 <= Len(s) PROVE \E g : F(g, m + 1)
    <3> HIDE DEF F
    <3>1. m + 1 \in Nat
      OBVIOUS
    <3> QED
      BY <3>1, Zenon
  <2>2. PICK g : F(g, m)
    <3> HIDE DEF F
    <3>1. m <= Len(s)
      BY <2>1
    <3> QED
      BY <1>2, <3>1, Zenon
  <2> DEFINE h == [i \in 1..(m + 1) |-> IF i = 1 THEN s[i] ELSE g[i - 1] \o s[i]]
  <2>3. \A i \in 1..m : g[i] = (IF i = 1 THEN s[i] ELSE g[i - 1] \o s[i]) /\ g[i] \in Seq(X)
    BY <2>2
  <2>4. \A i \in 1..m : h[i] = g[i]
    <3> TAKE i \in 1..m
    <3>1. i \in 1..(m + 1)
      OBVIOUS
    <3> QED
      BY <2>3, <3>1, Zenon
  <2>5. \A i \in 1..(m + 1) : h[i] = (IF i = 1 THEN s[i] ELSE h[i - 1] \o s[i])
    <3> TAKE i \in 1..(m + 1)
    <3>1. i # 1 => i - 1 \in 1..m
      OBVIOUS
    <3>2. i # 1 => h[i - 1] = g[i - 1]
      BY <2>4, <3>1
    <3>3. h[i] = IF i = 1 THEN s[i] ELSE g[i - 1] \o s[i]
      BY Zenon
    <3> QED
      BY <3>2, <3>3, Zenon
  <2>6. \A i \in 1..(m + 1) : h[i] \in Seq(X)
    <3> TAKE i \in 1..(m + 1)
    <3>1. i # 1 => g[i - 1] \in Seq(X)
      BY <2>3
    <3>2. s[i] \in Seq(X)
      BY <2>1
    <3>3. h[i] = IF i = 1 THEN s[i] ELSE g[i - 1] \o s[i]
      BY Zenon
    <3> HIDE DEF h
    <3> QED
      BY <3>1, <3>2, <3>3
  <2>7. h = [i \in 1..(m + 1) |-> h[i]]
    BY Zenon
  <2> HIDE DEF h
  <2>8. F(h, m + 1)
    BY <2>5, <2>6, <2>7
  <2> QED
    BY <2>8
<1> HIDE DEF T
<1>3. \A m \in Nat : m \in T
  BY <1>1, <1>2, InductionOnNat
<1>4. Len(s) \in T /\ Len(s) \in Nat
  BY <1>3
<1>5. \E g : F(g, Len(s))
  <2>1. Len(s) <= Len(s)
    BY <1>4
  <2> HIDE DEF F
  <2> QED
    BY <1>4, <2>1, Zenon DEF T
<1> QED
  BY <1>5 DEF Flat

\* Two ways to flatten that begin alike are alike.
LEMMA FlatUnique ==
  ASSUME NEW X, NEW s \in Seq(Seq(X)), NEW g, NEW h, NEW t, Flat(g, s), Flat(h, t),
         Len(t) \in Nat, Len(s) <= Len(t), \A i \in 1..Len(s) : s[i] = t[i]
  PROVE  \A i \in 1..Len(s) : g[i] = h[i]
<1> DEFINE T == {m \in Nat : m \in 1..Len(s) => g[m] = h[m]}
<1>1. \A i \in 1..Len(s) : g[i] = IF i = 1 THEN s[i] ELSE g[i - 1] \o s[i]
  BY DEF Flat
<1>2. \A i \in 1..Len(t) : h[i] = IF i = 1 THEN t[i] ELSE h[i - 1] \o t[i]
  BY DEF Flat
<1>3. 0 \in T
  OBVIOUS
<1>4. ASSUME NEW m \in Nat, m \in T PROVE m + 1 \in T
  <2> SUFFICES ASSUME m + 1 \in 1..Len(s) PROVE g[m + 1] = h[m + 1]
    OBVIOUS
  <2>1. m + 1 \in 1..Len(t) /\ s[m + 1] = t[m + 1]
    OBVIOUS
  <2>2. (m + 1) - 1 = m /\ (m + 1 = 1 <=> m = 0)
    OBVIOUS
  <2>3. m # 0 => g[m] = h[m]
    BY <1>4
  <2>4. g[m + 1] = IF m = 0 THEN s[m + 1] ELSE g[m] \o s[m + 1]
    BY <1>1, <2>2, Zenon
  <2>5. h[m + 1] = IF m = 0 THEN t[m + 1] ELSE h[m] \o t[m + 1]
    BY <1>2, <2>1, <2>2, Zenon
  <2> QED
    BY <2>1, <2>3, <2>4, <2>5
<1> HIDE DEF T
<1>5. \A m \in Nat : m \in T
  BY <1>3, <1>4, InductionOnNat
<1>6. \A i \in 1..Len(s) : i \in Nat /\ i \in T
  BY <1>5
<1> QED
  BY <1>6 DEF T

LEMMA FlattenIs ==
  ASSUME NEW X, NEW s \in Seq(Seq(X)), NEW g, Flat(g, s), s # <<>>
  PROVE  FlattenSeq(s) = g[Len(s)]
<1> DEFINE h == CHOOSE h : Flat(h, s)
<1>1. Flat(h, s)
  BY DEF Flat
<1>2. Len(s) \in Nat /\ Len(s) \in 1..Len(s) /\ Len(s) # 0
  OBVIOUS
<1>3. FlattenSeq(s) = h[Len(s)]
  BY <1>2, Zenon DEF FlattenSeq, Flat
<1> HIDE DEF h
<1>4. g[Len(s)] = h[Len(s)]
  BY <1>1, <1>2, FlatUnique
<1> QED
  BY <1>3, <1>4

LEMMA FlattenNone == FlattenSeq(<<>>) = <<>>
BY DEF FlattenSeq

\* What is appended comes last.
LEMMA FlattenAppend ==
  ASSUME NEW X, NEW s \in Seq(Seq(X)), NEW a \in Seq(X)
  PROVE  /\ FlattenSeq(s) \in Seq(X) /\ FlattenSeq(Append(s, a)) \in Seq(X)
         /\ FlattenSeq(Append(s, a)) = FlattenSeq(s) \o a
<1> DEFINE t == Append(s, a)
<1>1. t \in Seq(Seq(X)) /\ Len(t) = Len(s) + 1 /\ t[Len(s) + 1] = a /\ t # <<>>
      /\ Len(s) \in Nat /\ \A i \in 1..Len(s) : s[i] = t[i]
  <2>1. t \in Seq(Seq(X)) /\ Len(t) = Len(s) + 1
    BY AppendProperties
  <2>2. \A i \in 1..Len(s) : t[i] = s[i]
    BY AppendProperties
  <2>3. t[Len(s) + 1] = a
    BY AppendProperties
  <2> HIDE DEF t
  <2> QED
    BY <2>1, <2>2, <2>3
<1> HIDE DEF t
<1>2. PICK h : Flat(h, t) /\ h \in [1..Len(t) -> Seq(X)]
  BY <1>1, FlatExists
<1>3. FlattenSeq(t) = h[Len(t)]
  BY <1>1, <1>2, FlattenIs
<1>4. h[Len(t)] = IF Len(t) = 1 THEN t[Len(t)] ELSE h[Len(t) - 1] \o t[Len(t)]
  <2>1. Len(t) \in 1..Len(t)
    BY <1>1
  <2> QED
    BY <1>2, <2>1, Zenon DEF Flat
<1>5. h[Len(t)] \in Seq(X)
  BY <1>1, <1>2
<1>6. CASE s = <<>>
  <2>1. FlattenSeq(s) = <<>> /\ Len(s) = 0
    BY <1>6, FlattenNone
  <2>2. h[Len(t)] = a
    BY <1>1, <1>4, <2>1
  <2>3. <<>> \o a = a /\ <<>> \in Seq(X)
    OBVIOUS
  <2> QED
    BY <1>3, <1>5, <2>1, <2>2, <2>3 DEF t
<1>7. CASE s # <<>>
  <2>1. PICK g : Flat(g, s) /\ g \in [1..Len(s) -> Seq(X)]
    BY FlatExists
  <2>2. FlattenSeq(s) = g[Len(s)]
    BY <1>7, <2>1, FlattenIs
  <2>3. Len(s) \in 1..Len(s) /\ Len(t) # 1 /\ Len(t) - 1 = Len(s)
    BY <1>1, <1>7
  <2>4. g[Len(s)] = h[Len(s)] /\ g[Len(s)] \in Seq(X)
    <3>1. Len(s) <= Len(t) /\ Len(t) \in Nat
      BY <1>1
    <3>2. Flat(g, s) /\ Flat(h, t) /\ \A i \in 1..Len(s) : s[i] = t[i]
      BY <1>1, <1>2, <2>1
    <3>3. \A i \in 1..Len(s) : g[i] = h[i]
      BY <3>1, <3>2, FlatUnique, Zenon
    <3> QED
      BY <2>1, <2>3, <3>3
  <2>5. h[Len(t)] = h[Len(s)] \o a
    BY <1>1, <1>4, <2>3
  <2> QED
    BY <1>3, <1>5, <2>2, <2>4, <2>5 DEF t
<1> QED
  BY <1>6, <1>7

LEMMA IsAppend ==
  ASSUME NEW X, NEW s \in Seq(X), NEW a \in Seq(X), NEW x \in X, Len(s) = Len(a) + 1,
         \A k \in 1..Len(a) : a[k] = s[k], s[Len(a) + 1] = x
  PROVE  Append(a, x) = s
<1>1. Append(a, x) \in Seq(X) /\ Len(Append(a, x)) = Len(a) + 1 /\ Len(a) \in Nat
      /\ (\A k \in 1..Len(a) : Append(a, x)[k] = a[k]) /\ Append(a, x)[Len(a) + 1] = x
  BY AppendProperties
<1>2. \A k \in 1..(Len(a) + 1) : Append(a, x)[k] = s[k]
  <2> TAKE k \in 1..(Len(a) + 1)
  <2>1. k \in 1..Len(a) \/ k = Len(a) + 1
    BY <1>1
  <2> QED
    BY <1>1, <2>1
<1> QED
  BY <1>1, <1>2, SeqEqual

\* Induction over sequences, for a set.
LEMMA InductionOnSeq ==
  ASSUME NEW S, NEW T, <<>> \in T, \A s \in Seq(S), x \in S : s \in T => Append(s, x) \in T
  PROVE  \A s \in Seq(S) : s \in T
<1> DEFINE U == {m \in Nat : \A s \in Seq(S) : Len(s) = m => s \in T}
<1>1. 0 \in U
  <2>1. \A s \in Seq(S) : Len(s) = 0 => s = <<>>
    OBVIOUS
  <2> QED
    BY <2>1
<1>2. ASSUME NEW m \in Nat, m \in U PROVE m + 1 \in U
  <2> SUFFICES ASSUME NEW s \in Seq(S), Len(s) = m + 1 PROVE s \in T
    <3>1. m + 1 \in Nat
      OBVIOUS
    <3> QED
      BY <3>1, Zenon
  <2> DEFINE r == SubSeq(s, 1, m)
             x == s[m + 1]
  <2>1. r \in Seq(S) /\ Len(r) = m /\ x \in S /\ \A i \in 1..m : r[i] = s[i]
    OBVIOUS
  <2> HIDE DEF r, x
  <2>2. Append(r, x) = s
    <3>1. s[m + 1] = x
      BY DEF x
    <3> QED
      BY <2>1, <3>1, IsAppend
  <2>3. r \in T
    BY <1>2, <2>1
  <2> QED
    BY <2>1, <2>2, <2>3
<1> HIDE DEF U
<1>3. \A m \in Nat : m \in U
  BY <1>1, <1>2, InductionOnNat
<1> TAKE s \in Seq(S)
<1>4. Len(s) \in U
  BY <1>3
<1> QED
  BY <1>4 DEF U

LEMMA AppendConcat ==
  ASSUME NEW X, NEW a \in Seq(X), NEW b \in Seq(X), NEW x \in X
  PROVE  a \o Append(b, x) = Append(a \o b, x)
<1>1. Append(b, x) = b \o <<x>> /\ Append(a \o b, x) = (a \o b) \o <<x>> /\ <<x>> \in Seq(X)
  OBVIOUS
<1> QED
  BY <1>1, ConcatAssoc

LEMMA FlattenType ==
  ASSUME NEW X
  PROVE  \A s \in Seq(Seq(X)) : FlattenSeq(s) \in Seq(X)
BY FlattenAppend, EmptySeq

LEMMA FlattenConcat ==
  ASSUME NEW X, NEW a \in Seq(Seq(X)), NEW b \in Seq(Seq(X))
  PROVE  FlattenSeq(a \o b) = FlattenSeq(a) \o FlattenSeq(b)
<1> DEFINE T == {c \in Seq(Seq(X)) : FlattenSeq(a \o c) = FlattenSeq(a) \o FlattenSeq(c)}
<1>1. <<>> \in T
  <2>1. a \o <<>> = a /\ FlattenSeq(a) \in Seq(X) /\ <<>> \in Seq(Seq(X))
    BY ConcatEmpty, FlattenType
  <2>2. FlattenSeq(a) \o <<>> = FlattenSeq(a)
    BY <2>1, ConcatEmpty
  <2> QED
    BY <2>1, <2>2, FlattenNone
<1>2. ASSUME NEW c \in Seq(Seq(X)), NEW x \in Seq(X), c \in T PROVE Append(c, x) \in T
  <2>1. a \o Append(c, x) = Append(a \o c, x) /\ a \o c \in Seq(Seq(X))
        /\ Append(c, x) \in Seq(Seq(X))
    BY AppendConcat
  <2>2. FlattenSeq(Append(a \o c, x)) = FlattenSeq(a \o c) \o x
        /\ FlattenSeq(Append(c, x)) = FlattenSeq(c) \o x
    BY <2>1, FlattenAppend
  <2>3. FlattenSeq(a) \in Seq(X) /\ FlattenSeq(c) \in Seq(X)
    BY FlattenType
  <2>4. (FlattenSeq(a) \o FlattenSeq(c)) \o x = FlattenSeq(a) \o (FlattenSeq(c) \o x)
    BY <2>3, ConcatAssoc
  <2>5. FlattenSeq(a \o c) = FlattenSeq(a) \o FlattenSeq(c)
    BY <1>2
  <2> QED
    BY <2>1, <2>2, <2>4, <2>5, Zenon
<1> HIDE DEF T
<1>3. \A c \in Seq(Seq(X)) : c \in T
  BY <1>1, <1>2, InductionOnSeq
<1> QED
  BY <1>3 DEF T

LEMMA FlattenOne ==
  ASSUME NEW X, NEW a \in Seq(X)
  PROVE  FlattenSeq(<<a>>) = a
<1>1. <<>> \in Seq(Seq(X)) /\ <<a>> = Append(<<>>, a)
  OBVIOUS
<1>2. FlattenSeq(Append(<<>>, a)) = FlattenSeq(<<>>) \o a
  BY <1>1, FlattenAppend
<1> QED
  BY <1>1, <1>2, FlattenNone, ConcatEmpty

LEMMA FlattenHead ==
  ASSUME NEW X, NEW s \in Seq(Seq(X)), s # <<>>
  PROVE  /\ Head(s) \in Seq(X) /\ Tail(s) \in Seq(Seq(X))
         /\ FlattenSeq(s) = Head(s) \o FlattenSeq(Tail(s))
<1>1. Head(s) \in Seq(X) /\ Tail(s) \in Seq(Seq(X)) /\ <<Head(s)>> \in Seq(Seq(X))
      /\ s = <<Head(s)>> \o Tail(s)
  OBVIOUS
<1>2. FlattenSeq(<<Head(s)>> \o Tail(s)) = FlattenSeq(<<Head(s)>>) \o FlattenSeq(Tail(s))
  BY <1>1, FlattenConcat
<1> QED
  BY <1>1, <1>2, FlattenOne

\* Flattening what has been flattened is flattening each first.
LEMMA FlattenTwice ==
  ASSUME NEW X, NEW s \in Seq(Seq(Seq(X)))
  PROVE  FlattenSeq(FlattenSeq(s)) = FlattenSeq([k \in 1..Len(s) |-> FlattenSeq(s[k])])
<1> DEFINE M(r) == [k \in 1..Len(r) |-> FlattenSeq(r[k])]
           T == {r \in Seq(Seq(Seq(X))) : FlattenSeq(FlattenSeq(r)) = FlattenSeq(M(r))}
<1>0. \A r \in Seq(Seq(Seq(X))) :
        M(r) \in Seq(Seq(X)) /\ Len(M(r)) = Len(r) /\ \A k \in 1..Len(r) : M(r)[k] = FlattenSeq(r[k])
  <2> TAKE r \in Seq(Seq(Seq(X)))
  <2>1. \A k \in 1..Len(r) : FlattenSeq(r[k]) \in Seq(X)
    BY FlattenType
  <2>2. Len(r) \in Nat
    OBVIOUS
  <2> QED
    BY <2>1, <2>2
<1>1. <<>> \in T
  <2>1. <<>> \in Seq(Seq(Seq(X))) /\ Len(<<>>) = 0
    OBVIOUS
  <2>2. M(<<>>) = <<>>
    BY <1>0, <2>1
  <2> HIDE DEF M
  <2> QED
    BY <2>1, <2>2, FlattenNone
<1>2. ASSUME NEW r \in Seq(Seq(Seq(X))), NEW x \in Seq(Seq(X)), r \in T PROVE Append(r, x) \in T
  <2> DEFINE t == Append(r, x)
  <2>1. t \in Seq(Seq(Seq(X))) /\ Len(t) = Len(r) + 1 /\ t[Len(r) + 1] = x /\ Len(r) \in Nat
    BY AppendProperties
  <2>2. \A k \in 1..Len(r) : t[k] = r[k]
    BY AppendProperties
  <2>3. FlattenSeq(t) = FlattenSeq(r) \o x
    BY FlattenAppend
  <2>4. FlattenSeq(r) \in Seq(Seq(X)) /\ FlattenSeq(x) \in Seq(X)
    BY FlattenType
  <2>5. FlattenSeq(FlattenSeq(r) \o x) = FlattenSeq(FlattenSeq(r)) \o FlattenSeq(x)
    BY <2>4, FlattenConcat
  <2> HIDE DEF t
  <2>6. /\ M(r) \in Seq(Seq(X)) /\ Len(M(r)) = Len(r) /\ \A k \in 1..Len(r) : M(r)[k] = FlattenSeq(r[k])
        /\ M(t) \in Seq(Seq(X)) /\ Len(M(t)) = Len(t) /\ \A k \in 1..Len(t) : M(t)[k] = FlattenSeq(t[k])
    BY <1>0, <2>1
  <2> HIDE DEF M
  <2>7. Append(M(r), FlattenSeq(x)) = M(t)
    <3>1. Len(M(t)) = Len(M(r)) + 1 /\ M(t)[Len(M(r)) + 1] = FlattenSeq(x)
      BY <2>1, <2>6
    <3>2. \A k \in 1..Len(M(r)) : M(t)[k] = M(r)[k]
      BY <2>1, <2>2, <2>6
    <3> QED
      BY <2>4, <2>6, <3>1, <3>2, IsAppend
  <2>8. FlattenSeq(M(t)) = FlattenSeq(M(r)) \o FlattenSeq(x)
    BY <2>4, <2>6, <2>7, FlattenAppend
  <2>9. FlattenSeq(FlattenSeq(r)) = FlattenSeq(M(r))
    BY <1>2
  <2> QED
    BY <2>1, <2>3, <2>5, <2>8, <2>9 DEF t
<1> HIDE DEF T
<1>3. \A r \in Seq(Seq(Seq(X))) : r \in T
  BY <1>1, <1>2, InductionOnSeq
<1> QED
  BY <1>3 DEF T
-----------------------------------------------------------------------------
(* What lies where *)

\* The length of the pieces before the k-th.
Before(s, k) == Len(FlattenSeq(SubSeq(s, 1, k - 1)))

LEMMA BeforeNext ==
  ASSUME NEW X, NEW s \in Seq(Seq(X)), NEW k \in 1..Len(s)
  PROVE  /\ FlattenSeq(SubSeq(s, 1, k)) = FlattenSeq(SubSeq(s, 1, k - 1)) \o s[k]
         /\ FlattenSeq(SubSeq(s, 1, k - 1)) \in Seq(X) /\ s[k] \in Seq(X)
         /\ Before(s, k) \in Nat /\ Before(s, k + 1) = Before(s, k) + Len(s[k])
<1> DEFINE r == SubSeq(s, 1, k - 1)
           t == SubSeq(s, 1, k)
<1>1. r \in Seq(Seq(X)) /\ Len(r) = k - 1 /\ \A i \in 1..(k - 1) : r[i] = s[i]
  OBVIOUS
<1>2. t \in Seq(Seq(X)) /\ Len(t) = k /\ \A i \in 1..k : t[i] = s[i]
  OBVIOUS
<1>3. s[k] \in Seq(X) /\ k \in Nat
  OBVIOUS
<1> HIDE DEF r, t
<1>4. Append(r, s[k]) = t
  <2>1. Len(t) = Len(r) + 1 /\ Len(r) + 1 \in 1..k
    BY <1>1, <1>2, <1>3
  <2>2. \A i \in 1..Len(r) : i \in 1..(k - 1) /\ i \in 1..k
    BY <1>1, <1>3
  <2>3. \A i \in 1..Len(r) : r[i] = t[i]
    BY <1>1, <1>2, <2>2
  <2>4. t[Len(r) + 1] = s[k]
    BY <1>1, <1>2, <1>3, <2>1
  <2> QED
    BY <1>1, <1>2, <1>3, <2>1, <2>3, <2>4, IsAppend
<1>5. FlattenSeq(t) = FlattenSeq(r) \o s[k] /\ FlattenSeq(r) \in Seq(X)
  BY <1>1, <1>3, <1>4, FlattenAppend
<1>6. Before(s, k) = Len(FlattenSeq(r)) /\ Before(s, k + 1) = Len(FlattenSeq(t))
  <2>1. (k + 1) - 1 = k
    BY <1>3
  <2> QED
    BY <2>1 DEF Before, r, t
<1>7. Len(FlattenSeq(r) \o s[k]) = Len(FlattenSeq(r)) + Len(s[k]) /\ Len(FlattenSeq(r)) \in Nat
  BY <1>3, <1>5
<1> QED
  BY <1>3, <1>5, <1>6, <1>7 DEF r, t

LEMMA BeforeEnds ==
  ASSUME NEW X, NEW s \in Seq(Seq(X))
  PROVE  Before(s, 1) = 0 /\ Before(s, Len(s) + 1) = Len(FlattenSeq(s))
<1>1. SubSeq(s, 1, 1 - 1) = <<>> /\ SubSeq(s, 1, (Len(s) + 1) - 1) = s
  OBVIOUS
<1>2. Len(<<>>) = 0
  OBVIOUS
<1> QED
  BY <1>1, <1>2, FlattenNone, Zenon DEF Before

\* s is what lies at p.
Has(p, s) == \A i \in 1..Len(s) : p + i - 1 \in DOMAIN buf /\ buf[p + i - 1] = s[i]

LEMMA HasConcat ==
  ASSUME NEW X, NEW a \in Seq(X), NEW b \in Seq(X), NEW p \in Nat, Has(p, a \o b)
  PROVE  Has(p, a) /\ Has(p + Len(a), b)
<1>1. /\ Len(a \o b) = Len(a) + Len(b) /\ Len(a) \in Nat /\ Len(b) \in Nat
      /\ \A i \in 1..Len(a) : (a \o b)[i] = a[i] /\ i \in 1..Len(a \o b)
      /\ \A i \in 1..Len(b) : (a \o b)[Len(a) + i] = b[i] /\ Len(a) + i \in 1..Len(a \o b)
  OBVIOUS
<1>2. \A i \in 1..Len(a \o b) : p + i - 1 \in DOMAIN buf /\ buf[p + i - 1] = (a \o b)[i]
  BY DEF Has
<1>3. Has(p, a)
  BY <1>1, <1>2 DEF Has
<1>4. \A i \in 1..Len(b) : p + Len(a) + i - 1 \in DOMAIN buf /\ buf[p + Len(a) + i - 1] = b[i]
  <2> TAKE i \in 1..Len(b)
  <2>1. /\ p + (Len(a) + i) - 1 \in DOMAIN buf
        /\ buf[p + (Len(a) + i) - 1] = (a \o b)[Len(a) + i]
    BY <1>1, <1>2
  <2>2. p + (Len(a) + i) - 1 = p + Len(a) + i - 1
    BY <1>1
  <2> QED
    BY <1>1, <2>1, <2>2
<1> QED
  BY <1>3, <1>4 DEF Has

LEMMA HasPiece ==
  ASSUME NEW X, NEW s \in Seq(Seq(X)), NEW p \in Nat, Has(p, FlattenSeq(s)), NEW k \in 1..Len(s)
  PROVE  Has(p + Before(s, k), s[k])
<1> DEFINE r == SubSeq(s, 1, k)
           t == SubSeq(s, k + 1, Len(s))
           u == SubSeq(s, 1, k - 1)
<1>1. r \in Seq(Seq(X)) /\ t \in Seq(Seq(X))
  OBVIOUS
<1>2. s = r \o t
  <2>1. 1 \in 1..(Len(s) + 1) /\ k \in (1 - 1)..Len(s) /\ Len(s) \in k..Len(s)
    OBVIOUS
  <2>2. r \o t = SubSeq(s, 1, Len(s))
    BY <2>1, ConcatAdjacentSubSeq, Zenon
  <2>3. SubSeq(s, 1, Len(s)) = s
    OBVIOUS
  <2> QED
    BY <2>2, <2>3, Zenon
<1>3. FlattenSeq(r) = FlattenSeq(u) \o s[k] /\ FlattenSeq(u) \in Seq(X) /\ s[k] \in Seq(X)
      /\ Before(s, k) = Len(FlattenSeq(u))
  BY BeforeNext, Zenon DEF Before
<1> HIDE DEF r, t, u
<1>4. FlattenSeq(s) = FlattenSeq(r) \o FlattenSeq(t) /\ FlattenSeq(t) \in Seq(X)
      /\ FlattenSeq(r) \in Seq(X)
  BY <1>1, <1>2, FlattenConcat, FlattenType
<1>5. Has(p, FlattenSeq(r))
  BY <1>4, HasConcat
<1>6. Has(p + Len(FlattenSeq(u)), s[k])
  BY <1>3, <1>5, HasConcat
<1> QED
  BY <1>3, <1>6

LEMMA IntBytes == \A n \in Int : SerializeInt(n) \in Seq(Bytes) /\ Len(SerializeInt(n)) = 4
<1> TAKE n \in Int
<1>1. \A m \in Int : m % 256 \in Bytes /\ m \div 256 \in Int /\ m \div 65536 \in Int
                  /\ m \div 16777216 \in Int
  BY DEF Bytes
<1> QED
  BY <1>1 DEF SerializeInt

LEMMA IntByte ==
  ASSUME NEW n \in Int
  PROVE  /\ SerializeInt(n)[1] = n % 256 /\ SerializeInt(n)[2] = (n \div 256) % 256
         /\ SerializeInt(n)[3] = (n \div 65536) % 256
         /\ SerializeInt(n)[4] = (n \div 16777216) % 256
BY DEF SerializeInt, Bytes

LEMMA BytesConcat ==
  \A a, b \in Seq(Bytes) :
    a \o b \in Seq(Bytes) /\ Len(a \o b) = Len(a) + Len(b) /\ Len(a) \in Nat /\ Len(b) \in Nat
<1> DEFINE X == Bytes
<1>1. \A a, b \in Seq(X) :
        a \o b \in Seq(X) /\ Len(a \o b) = Len(a) + Len(b) /\ Len(a) \in Nat /\ Len(b) \in Nat
  <2> HIDE DEF X
  <2> QED
    OBVIOUS
<1> QED
  BY <1>1

LEMMA ZeroByte == << 0 >> \in Seq(Bytes) /\ Len(<< 0 >>) = 1 /\ << 0 >>[1] = 0
<1>1. 0 \in Bytes
  BY DEF Bytes
<1> QED
  BY <1>1

LEMMA DocumentOK ==
  ASSUME NEW s \in Seq(Seq(Bytes))
  PROVE  /\ Document(s) = (SerializeInt(Len(Document(s))) \o FlattenSeq(s)) \o << 0 >>
         /\ Document(s) \in Seq(Bytes) /\ Len(Document(s)) = Len(FlattenSeq(s)) + 5
         /\ FlattenSeq(s) \in Seq(Bytes)
<1> DEFINE b == FlattenSeq(s)
           h == SerializeInt(Len(b) + 5)
<1>1. b \in Seq(Bytes) /\ Len(b) + 5 \in Int
  <2>1. b \in Seq(Bytes)
    BY FlattenType
  <2>2. Len(b) \in Nat
    BY <2>1, BytesConcat
  <2> QED
    BY <2>1, <2>2
<1>2. h \in Seq(Bytes) /\ Len(h) = 4
  <2> HIDE DEF b
  <2> QED
    BY <1>1, IntBytes
<1>3. Document(s) = h \o b \o << 0 >>
  BY DEF Document
<1> HIDE DEF b, h
<1>4. h \o b \in Seq(Bytes) /\ Len(h \o b) = 4 + Len(b) /\ Len(b) \in Nat
  BY <1>1, <1>2, BytesConcat
<1>5. (h \o b) \o << 0 >> \in Seq(Bytes) /\ Len((h \o b) \o << 0 >>) = 4 + Len(b) + 1
  BY <1>4, BytesConcat, ZeroByte
<1>6. Len(Document(s)) = Len(b) + 5
  BY <1>3, <1>4, <1>5
<1> QED
  BY <1>1, <1>3, <1>5, <1>6 DEF b, h

\* A document lies where its length, its pieces and its end lie.
LEMMA HasDocument ==
  ASSUME NEW s \in Seq(Seq(Bytes)), NEW p \in Nat, Has(p, Document(s))
  PROVE  /\ Has(p, SerializeInt(Len(Document(s))))
         /\ \A k \in 1..Len(s) : Has(p + 4 + Before(s, k), s[k])
         /\ Has(p + 4 + Before(s, Len(s) + 1), << 0 >>)
<1> DEFINE d == Document(s)
           h == SerializeInt(Len(d))
           b == FlattenSeq(s)
<1>1. d = (h \o b) \o << 0 >> /\ Len(d) \in Int /\ b \in Seq(Bytes)
  <2>1. d \in Seq(Bytes)
    BY DocumentOK
  <2>2. Len(d) \in Int
    BY <2>1, BytesConcat
  <2> QED
    BY <2>2, DocumentOK
<1>2. h \in Seq(Bytes) /\ Len(h) = 4 /\ << 0 >> \in Seq(Bytes)
  <2> HIDE DEF d
  <2> QED
    BY <1>1, IntBytes, ZeroByte
<1>3. Before(s, Len(s) + 1) = Len(b)
  BY BeforeEnds
<1>4. Has(p, d)
  OBVIOUS
<1> HIDE DEF d, h, b
<1>5. h \o b \in Seq(Bytes) /\ Len(h \o b) = 4 + Len(b) /\ Len(b) \in Nat
  BY <1>1, <1>2, BytesConcat
<1>6. Has(p, h \o b) /\ Has(p + Len(h \o b), << 0 >>)
  BY <1>1, <1>2, <1>4, <1>5, HasConcat
<1>7. Has(p, h) /\ Has(p + Len(h), b)
  BY <1>1, <1>2, <1>6, HasConcat
<1>8. Has(p + 4, FlattenSeq(s)) /\ p + 4 \in Nat
  BY <1>2, <1>7 DEF b
<1>9. \A k \in 1..Len(s) : Has(p + 4 + Before(s, k), s[k])
  <2> TAKE k \in 1..Len(s)
  <2> QED
    BY <1>8, HasPiece
<1>10. p + Len(h \o b) = p + 4 + Before(s, Len(s) + 1)
  <2> DEFINE m == Before(s, Len(s) + 1)
  <2>1. m = Len(b)
    BY <1>3
  <2> HIDE DEF m
  <2>2. p + Len(h \o b) = p + 4 + m
    BY <1>5, <2>1
  <2> QED
    BY <2>2 DEF m
<1> QED
  BY <1>6, <1>7, <1>9, <1>10 DEF h, d
-----------------------------------------------------------------------------
(* Well-formed documents *)

LEMMA TypeBytes ==
  /\ Type.DOUBLE = 1 /\ Type.STRING = 2 /\ Type.DOCUMENT = 3 /\ Type.ARRAY = 4
  /\ Type.BINARY = 5 /\ Type.UNDEFINED = 6 /\ Type.OBJECT_ID = 7 /\ Type.BOOLEAN = 8
  /\ Type.DATETIME = 9 /\ Type.NULL = 10 /\ Type.REGEXP = 11 /\ Type.DBPOINTER = 12
  /\ Type.JAVASCRIPT = 13 /\ Type.SYMBOL = 14 /\ Type.INT32 = 16 /\ Type.TIMESTAMP = 17
  /\ Type.INT64 = 18 /\ Type.MIN_KEY = 255 /\ Type.MAX_KEY = 127
BY DEF Type

LEMMA TypesAre ==
  /\ StringTypes = {2, 13, 14} /\ FixedTypes = {7, 8, 1, 9, 17, 18, 16, 6, 10, 255, 127}
  /\ ScalarTypes = {2, 13, 14, 5, 12, 7, 8, 1, 9, 17, 18, 16, 6, 10, 255, 127}
BY TypeBytes DEF StringTypes, FixedTypes, ScalarTypes

LEMMA ScalarFields ==
  ASSUME NEW e \in Scalars
  PROVE  /\ e.type \in ScalarTypes /\ e.name \in Seq(Chars) /\ e.value \in Seq(Bytes)
         /\ e.type \in FixedTypes => Len(e.value) = Width(e.type)
         /\ e.type \notin FixedTypes => Len(e.value) < MaxInt32
BY DEF Scalars

LEMMA EmbeddedFields ==
  ASSUME NEW e \in Embedded
  PROVE  /\ e.type \in {3, 4} /\ e.name \in Seq(Chars) /\ e.value \in Seq(Nested)
         /\ Len(Doc(Scalar, e.value)) <= MaxInt32
BY TypeBytes DEF Embedded

LEMMA CharsAreBytes == Chars \subseteq Bytes /\ Seq(Chars) \subseteq Seq(Bytes)
<1>1. Chars \subseteq Bytes
  BY DEF Chars, Bytes
<1>2. \A s \in Seq(Chars) : s \in Seq(Bytes)
  <2> TAKE s \in Seq(Chars)
  <2>1. Len(s) \in Nat /\ \A i \in 1..Len(s) : s[i] \in Chars
    OBVIOUS
  <2>2. s = [i \in 1..Len(s) |-> s[i]]
    OBVIOUS
  <2>3. \A i \in 1..Len(s) : s[i] \in Bytes
    BY <1>1, <2>1
  <2> QED
    BY <2>1, <2>2, <2>3
<1> QED
  BY <1>1, <1>2

LEMMA CharIsNotZero == \A c \in Chars : c # 0
BY DEF Chars

LEMMA CStringOK ==
  ASSUME NEW t \in Seq(Bytes)
  PROVE  CString(t) \in Seq(Bytes) /\ Len(CString(t)) = Len(t) + 1
BY BytesConcat, ZeroByte DEF CString

LEMMA LengthAndStringOK ==
  ASSUME NEW t \in Seq(Bytes)
  PROVE  LengthAndString(t) \in Seq(Bytes) /\ Len(LengthAndString(t)) = Len(t) + 5
<1>1. Len(t) + 1 \in Int /\ Len(t) \in Nat
  BY BytesConcat
<1>2. SerializeInt(Len(t) + 1) \in Seq(Bytes) /\ Len(SerializeInt(Len(t) + 1)) = 4
  BY <1>1, IntBytes
<1>3. CString(t) \in Seq(Bytes) /\ Len(CString(t)) = Len(t) + 1
  BY CStringOK
<1>4. LengthAndString(t) = SerializeInt(Len(t) + 1) \o CString(t)
  BY DEF LengthAndString
<1>5. /\ LengthAndString(t) \in Seq(Bytes)
      /\ Len(LengthAndString(t)) = Len(SerializeInt(Len(t) + 1)) + Len(CString(t))
  <2>1. /\ SerializeInt(Len(t) + 1) \o CString(t) \in Seq(Bytes)
        /\ Len(SerializeInt(Len(t) + 1) \o CString(t))
             = Len(SerializeInt(Len(t) + 1)) + Len(CString(t))
    BY <1>2, <1>3, BytesConcat, Zenon
  <2> QED
    BY <1>4, <2>1, Zenon
<1> DEFINE h == SerializeInt(Len(t) + 1)
           c == CString(t)
           r == LengthAndString(t)
<1>6. r \in Seq(Bytes) /\ Len(r) = Len(h) + Len(c) /\ Len(h) = 4 /\ Len(c) = Len(t) + 1
  BY <1>2, <1>3, <1>5, Zenon
<1> HIDE DEF h, c, r
<1>7. r \in Seq(Bytes) /\ Len(r) = Len(t) + 5
  BY <1>1, <1>6
<1> QED
  BY <1>7 DEF r

\* The twelve bytes of a pointer's object id.
LEMMA PointerOK ==
  [k \in 1..12 |-> k] \in Seq(Bytes) /\ Len([k \in 1..12 |-> k]) = 12
<1>1. \A k \in 1..12 : k \in Bytes
  BY DEF Bytes
<1> QED
  BY <1>1

LEMMA ScalarOK ==
  ASSUME NEW e \in Scalars
  PROVE  Scalar(e) \in Seq(Bytes)
<1> DEFINE v == e.value
           t == e.type
<1>1. v \in Seq(Bytes) /\ t \in ScalarTypes
  BY ScalarFields
<1>2. Len(v) \in Nat /\ LengthAndString(v) \in Seq(Bytes) /\ SerializeInt(Len(v)) \in Seq(Bytes)
  <2>1. Len(v) \in Nat /\ Len(v) \in Int
    BY <1>1, BytesConcat
  <2>2. LengthAndString(v) \in Seq(Bytes)
    BY <1>1, LengthAndStringOK
  <2>3. SerializeInt(Len(v)) \in Seq(Bytes)
    BY <2>1, IntBytes
  <2> QED
    BY <2>1, <2>2, <2>3
<1>3. (SerializeInt(Len(v)) \o << 0 >>) \o v \in Seq(Bytes)
  BY <1>1, <1>2, BytesConcat, ZeroByte
<1>4. LengthAndString(v) \o [k \in 1..12 |-> k] \in Seq(Bytes)
  BY <1>2, PointerOK, BytesConcat
<1>5. t # Type.REGEXP
  BY <1>1, TypesAre, TypeBytes
<1>6. Scalar(e) \in {LengthAndString(v), (SerializeInt(Len(v)) \o << 0 >>) \o v,
                     LengthAndString(v) \o [k \in 1..12 |-> k], v}
  BY <1>5 DEF Scalar
<1> QED
  BY <1>1, <1>2, <1>3, <1>4, <1>6

\* The bytes of the elements of a document.
Pieces(doc) == [k \in DOMAIN doc |-> Element(doc[k], Value(doc[k]))]
Within(doc) == [k \in DOMAIN doc |-> Element(doc[k], Scalar(doc[k]))]

LEMMA EncodedIs == \A doc : Encoded(doc) = Document(Pieces(doc))
BY DEF Encoded, Doc, Pieces

LEMMA DocIs == \A doc : Doc(Scalar, doc) = Document(Within(doc))
BY DEF Doc, Within

LEMMA ElementOK ==
  ASSUME NEW e, e.type \in Bytes, e.name \in Seq(Chars), NEW v \in Seq(Bytes)
  PROVE  /\ Element(e, v) \in Seq(Bytes) /\ Len(Element(e, v)) = Len(e.name) + 2 + Len(v)
         /\ <<e.type>> \in Seq(Bytes) /\ CString(e.name) \in Seq(Bytes)
         /\ Len(e.name) \in Nat /\ Len(v) \in Nat
<1>1. e.name \in Seq(Bytes)
  BY CharsAreBytes
<1>2. CString(e.name) \in Seq(Bytes) /\ Len(CString(e.name)) = Len(e.name) + 1
  BY <1>1, CStringOK
<1>3. <<e.type>> \in Seq(Bytes) /\ Len(<<e.type>>) = 1
  OBVIOUS
<1>4. <<e.type>> \o CString(e.name) \in Seq(Bytes)
      /\ Len(<<e.type>> \o CString(e.name)) = Len(e.name) + 2 /\ Len(e.name) \in Nat
  BY <1>1, <1>2, <1>3, BytesConcat
<1> QED
  BY <1>2, <1>3, <1>4, BytesConcat DEF Element

LEMMA NestedType == Nested \subseteq Scalars /\ Nested \subseteq Elements /\ Scalars \subseteq Elements
BY DEF Nested, Elements

LEMMA ElementType ==
  ASSUME NEW e \in Elements
  PROVE  e.type \in Chars /\ e.name \in Seq(Chars)
<1>1. CASE e \in Scalars
  BY <1>1, ScalarFields, TypesAre DEF Chars
<1>2. CASE e \in Embedded
  BY <1>2, EmbeddedFields DEF Chars
<1> QED
  BY <1>1, <1>2 DEF Elements

LEMMA WithinOK ==
  ASSUME NEW doc \in Seq(Nested)
  PROVE  Within(doc) \in Seq(Seq(Bytes)) /\ Len(Within(doc)) = Len(doc)
<1>1. \A k \in 1..Len(doc) : Element(doc[k], Scalar(doc[k])) \in Seq(Bytes)
  <2> TAKE k \in 1..Len(doc)
  <2>1. doc[k] \in Scalars /\ doc[k] \in Elements
    BY NestedType
  <2>2. doc[k].type \in Bytes /\ doc[k].name \in Seq(Chars) /\ Scalar(doc[k]) \in Seq(Bytes)
    BY <2>1, ElementType, CharsAreBytes, ScalarOK
  <2> QED
    BY <2>2, ElementOK
<1>2. Len(doc) \in Nat /\ DOMAIN doc = 1..Len(doc)
  OBVIOUS
<1> QED
  BY <1>1, <1>2 DEF Within

LEMMA ValueOK ==
  ASSUME NEW e \in Elements
  PROVE  Value(e) \in Seq(Bytes)
<1>1. CASE e \in Scalars
  <2>1. e.type \notin {Type.DOCUMENT, Type.ARRAY}
    <3>1. e.type \in ScalarTypes
      BY <1>1, ScalarFields
    <3> QED
      BY <3>1, TypesAre, TypeBytes
  <2> QED
    BY <1>1, <2>1, ScalarOK DEF Value
<1>2. CASE e \in Embedded
  <2>1. e.type \in {Type.DOCUMENT, Type.ARRAY} /\ e.value \in Seq(Nested)
    BY <1>2, EmbeddedFields, TypeBytes
  <2>2. Value(e) = Document(Within(e.value))
    BY <2>1, DocIs DEF Value
  <2> QED
    BY <2>1, <2>2, WithinOK, DocumentOK
<1> QED
  BY <1>1, <1>2 DEF Elements

LEMMA PiecesOK ==
  ASSUME NEW doc \in Seq(Elements)
  PROVE  /\ Pieces(doc) \in Seq(Seq(Bytes)) /\ Len(Pieces(doc)) = Len(doc)
         /\ \A k \in 1..Len(doc) : Pieces(doc)[k] = Element(doc[k], Value(doc[k]))
<1>1. \A k \in 1..Len(doc) : Element(doc[k], Value(doc[k])) \in Seq(Bytes)
  <2> TAKE k \in 1..Len(doc)
  <2>1. doc[k] \in Elements
    OBVIOUS
  <2>2. doc[k].type \in Bytes /\ doc[k].name \in Seq(Chars) /\ Value(doc[k]) \in Seq(Bytes)
    BY <2>1, ElementType, CharsAreBytes, ValueOK
  <2> QED
    BY <2>2, ElementOK
<1>2. Len(doc) \in Nat /\ DOMAIN doc = 1..Len(doc)
  OBVIOUS
<1> QED
  BY <1>1, <1>2 DEF Pieces

\* Where the k-th element is.
LEMMA ElementIsAt ==
  ASSUME NEW doc \in Seq(Elements), NEW base \in Nat, NEW k \in 1..(Len(doc) + 1)
  PROVE  ElementAt(doc, base, k) = base + 4 + Before(Pieces(doc), k)
<1> DEFINE r == SubSeq(doc, 1, k - 1)
           s == Pieces(doc)
<1>1. r \in Seq(Elements) /\ Len(r) = k - 1 /\ (\A i \in 1..(k - 1) : r[i] = doc[i])
      /\ k - 1 \in 0..Len(doc) /\ k - 1 \in Nat
  OBVIOUS
<1>2. s \in Seq(Seq(Bytes)) /\ Len(s) = Len(doc)
      /\ \A i \in 1..Len(doc) : s[i] = Element(doc[i], Value(doc[i]))
  BY PiecesOK
<1> HIDE DEF r, s
<1>3. Pieces(r) \in Seq(Seq(Bytes)) /\ Len(Pieces(r)) = k - 1
      /\ \A i \in 1..(k - 1) : Pieces(r)[i] = Element(r[i], Value(r[i]))
  BY <1>1, PiecesOK
<1>4. Pieces(r) = SubSeq(s, 1, k - 1)
  <2> DEFINE q == SubSeq(s, 1, k - 1)
  <2>1. q \in Seq(Seq(Bytes)) /\ Len(q) = k - 1 /\ \A i \in 1..(k - 1) : q[i] = s[i]
    BY <1>1, <1>2
  <2>2. \A i \in 1..(k - 1) : i \in 1..Len(doc)
    BY <1>1
  <2>3. \A i \in 1..(k - 1) : Pieces(r)[i] = q[i]
    BY <1>1, <1>2, <1>3, <2>1, <2>2
  <2> HIDE DEF q
  <2>4. Pieces(r) = q
    BY <1>3, <2>1, <2>3, SeqEqual
  <2> QED
    BY <2>4 DEF q
<1>5. Len(Encoded(r)) = Before(s, k) + 5
  BY <1>3, <1>4, EncodedIs, DocumentOK DEF Before
<1>6. Before(s, k) \in Nat
  <2>1. FlattenSeq(SubSeq(s, 1, k - 1)) \in Seq(Bytes)
    BY <1>3, <1>4, FlattenType
  <2> QED
    BY <2>1, BytesConcat DEF Before
<1> QED
  BY <1>5, <1>6 DEF ElementAt, r, s
-----------------------------------------------------------------------------
(* Reading what lies there *)

LEMMA LeastIs ==
  ASSUME NEW S, S \subseteq Int, NEW x \in S, \A y \in S : x <= y
  PROVE  Min(S) = x
<1>1. Min(S) \in S /\ \A y \in S : Min(S) <= y
  BY DEF Min
<1>2. Min(S) <= x /\ x <= Min(S) /\ x \in Int /\ Min(S) \in Int
  BY <1>1
<1> QED
  BY <1>2

LEMMA HadByte ==
  ASSUME NEW s, NEW p, NEW i \in 1..Len(s), Has(p, s)
  PROVE  ByteAt(p + i - 1) = s[i] /\ p + i - 1 \in DOMAIN buf /\ buf[p + i - 1] = s[i]
BY DEF Has, ByteAt

LEMMA HadFirst ==
  ASSUME NEW s, Len(s) \in Nat \ {0}, NEW p \in Nat, Has(p, s)
  PROVE  ByteAt(p) = s[1] /\ p \in DOMAIN buf
<1>1. 1 \in 1..Len(s) /\ p + 1 - 1 = p
  OBVIOUS
<1> QED
  BY <1>1, HadByte

\* What lies there is what is cut out.
LEMMA CutOut ==
  ASSUME buf \in Seq(Bytes), NEW s \in Seq(Bytes), NEW p \in Nat \ {0}, Has(p, s)
  PROVE  SubSeq(buf, p, p + Len(s) - 1) = s
<1> DEFINE t == SubSeq(buf, p, p + Len(s) - 1)
<1>1. Len(s) \in Nat /\ Len(buf) \in Nat /\ DOMAIN buf = 1..Len(buf)
  BY BytesConcat
<1>2. \A i \in 1..Len(s) : p + i - 1 \in 1..Len(buf) /\ buf[p + i - 1] = s[i]
  BY <1>1, HadByte
<1>3. CASE Len(s) = 0
  <2>1. s = <<>> /\ p + Len(s) - 1 < p
    BY <1>3
  <2>2. t = <<>>
    BY <1>1, <2>1
  <2> QED
    BY <2>1, <2>2
<1>4. CASE Len(s) # 0
  <2>1. Len(s) \in 1..Len(s) /\ p + Len(s) - 1 <= Len(buf)
    BY <1>1, <1>2, <1>4
  <2>2. t \in Seq(Bytes) /\ Len(t) = Len(s) /\ \A i \in 1..Len(s) : t[i] = buf[p + i - 1]
    <3> DEFINE m == p + Len(s) - 1
    <3>1. m \in Nat /\ m <= Len(buf) /\ p <= m /\ Len(s) = m - p + 1
      BY <1>1, <1>4, <2>1
    <3> HIDE DEF m
    <3>2. SubSeq(buf, p, m) \in Seq(Bytes) /\ Len(SubSeq(buf, p, m)) = m - p + 1
          /\ \A i \in 1..(m - p + 1) : SubSeq(buf, p, m)[i] = buf[p + i - 1]
      BY <1>1, <3>1, SubSeqProperties
    <3> QED
      BY <3>1, <3>2 DEF m
  <2> HIDE DEF t
  <2>3. \A i \in 1..Len(s) : t[i] = s[i]
    BY <1>2, <2>2
  <2>4. t = s
    BY <2>2, <2>3, SeqEqual
  <2> QED
    BY <2>4 DEF t
<1> QED
  BY <1>3, <1>4

\* A C string ends at its NUL.
LEMMA CStringRead ==
  ASSUME buf \in Seq(Bytes), NEW t \in Seq(Chars), NEW p \in Nat \ {0}, Has(p, CString(t))
  PROVE  AfterNul(p) = p + Len(t) + 1 /\ CStringAt(p) = t
<1> DEFINE S == {j \in p..Len(buf) : buf[j] = 0} \cup {Len(buf) + 1}
           e == p + Len(t)
<1>1. t \in Seq(Bytes) /\ Len(t) \in Nat /\ Len(buf) \in Nat /\ DOMAIN buf = 1..Len(buf)
      /\ \A i \in 1..Len(t) : t[i] # 0
  <2>1. t \in Seq(Bytes)
    BY CharsAreBytes
  <2>2. \A i \in 1..Len(t) : t[i] \in Chars
    OBVIOUS
  <2>3. \A i \in 1..Len(t) : t[i] # 0
    <3> TAKE i \in 1..Len(t)
    <3> QED
      BY <2>2, CharIsNotZero, Zenon
  <2> QED
    BY <2>1, <2>3, BytesConcat
<1>2. Has(p, t) /\ Has(e, << 0 >>)
  BY <1>1, ZeroByte, HasConcat DEF CString
<1>3. e \in 1..Len(buf) /\ buf[e] = 0
  <2>1. 1 \in 1..Len(<< 0 >>) /\ e + 1 - 1 = e
    BY <1>1, ZeroByte
  <2>2. e \in DOMAIN buf /\ buf[e] = << 0 >>[1]
    <3> DEFINE z == << 0 >>
    <3>1. Has(e, z) /\ 1 \in 1..Len(z) /\ e + 1 - 1 = e
      BY <1>2, <2>1
    <3> HIDE DEF e, z
    <3>2. e + 1 - 1 \in DOMAIN buf /\ buf[e + 1 - 1] = z[1]
      BY <3>1, HadByte, Zenon
    <3> QED
      BY <3>1, <3>2 DEF z
  <2> QED
    BY <1>1, <2>2, ZeroByte
<1>4. \A j \in p..(e - 1) : buf[j] # 0
  <2> TAKE j \in p..(e - 1)
  <2>1. j - p + 1 \in 1..Len(t) /\ p + (j - p + 1) - 1 = j
    BY <1>1
  <2>2. buf[p + (j - p + 1) - 1] = t[j - p + 1]
    BY <1>2, <2>1, HadByte
  <2> QED
    BY <1>1, <2>1, <2>2
<1>5. S \subseteq Int /\ e \in S
  BY <1>1, <1>3
<1>6. \A y \in S : e <= y
  <2> TAKE y \in S
  <2>1. CASE y = Len(buf) + 1
    BY <1>1, <1>3, <2>1
  <2>2. CASE y \in p..Len(buf) /\ buf[y] = 0
    <3>1. y \notin p..(e - 1)
      BY <1>4, <2>2
    <3> QED
      BY <1>1, <2>2, <3>1
  <2> QED
    BY <2>1, <2>2
<1> HIDE DEF S
<1>7. Min(S) = e
  BY <1>5, <1>6, LeastIs
<1>8. AfterNul(p) = e + 1
  BY <1>7 DEF AfterNul, S
<1>9. AfterNul(p) - 2 = p + Len(t) - 1
  BY <1>1, <1>8
<1>10. CStringAt(p) = t
  BY <1>1, <1>2, <1>9, CutOut DEF CStringAt
<1> QED
  BY <1>8, <1>10

\* A number is the sum of its bytes.
LEMMA SumOfBytes ==
  ASSUME NEW n \in Nat, n <= MaxInt32
  PROVE  /\ (n % 256) + (256 * ((n \div 256) % 256)) + (65536 * ((n \div 65536) % 256))
              + (16777216 * ((n \div 16777216) % 256)) = n
         /\ (n \div 16777216) % 256 \in 0..127
<1>1. n \in Nat /\ n <= 2147483647
  BY SMT DEF MaxInt32
<1>2. \A m \in Nat : m = (256 * (m \div 256)) + (m % 256) /\ m \div 256 \in Nat /\ m % 256 \in Nat
  BY SMT
<1>3. n \div 65536 = (n \div 256) \div 256 /\ n \div 16777216 = (n \div 65536) \div 256
  BY <1>1, SMT
<1>4. n \div 16777216 \in 0..127
  BY <1>1, SMT
<1>5. \A q \in 0..127 : q % 256 = q
  BY SMT
<1> DEFINE q1 == n \div 256
           q2 == n \div 65536
           q3 == n \div 16777216
<1>6. /\ n = (256 * q1) + (n % 256) /\ q1 = (256 * q2) + (q1 % 256)
      /\ q2 = (256 * q3) + (q2 % 256) /\ q3 % 256 = q3 /\ q3 \in 0..127
      /\ n % 256 \in Nat /\ q1 % 256 \in Nat /\ q2 % 256 \in Nat
  <2>1. q1 \in Nat /\ q2 \in Nat
    BY <1>1, <1>2, <1>3, SMT
  <2> QED
    BY <1>1, <1>2, <1>3, <1>4, <1>5, <2>1, SMT
<1> HIDE DEF q1, q2, q3
<1>7. (n % 256) + (256 * (q1 % 256)) + (65536 * (q2 % 256)) + (16777216 * (q3 % 256)) = n
  <2> DEFINE r0 == n % 256
             r1 == q1 % 256
             r2 == q2 % 256
  <2>1. /\ n = (256 * q1) + r0 /\ q1 = (256 * q2) + r1 /\ q2 = (256 * q3) + r2
        /\ r0 \in Nat /\ r1 \in Nat /\ r2 \in Nat /\ q3 \in Nat
    BY <1>6, SMT
  <2> HIDE DEF r0, r1, r2
  <2>2. r0 + (256 * r1) + (65536 * r2) + (16777216 * q3) = n
    BY <2>1, SMT
  <2> QED
    BY <1>6, <2>2, SMT DEF r0, r1, r2
<1> QED
  BY <1>6, <1>7, SMT DEF q1, q2, q3

LEMMA IntRead ==
  ASSUME NEW n \in Nat, n <= MaxInt32, NEW p \in Nat, Has(p, SerializeInt(n))
  PROVE  Int32At(p) = n
<1> DEFINE b == SerializeInt(n)
<1>1. n \in Int /\ Len(b) = 4
  BY IntBytes, SMT
<1>2. b[1] = n % 256 /\ b[2] = (n \div 256) % 256
      /\ b[3] = (n \div 65536) % 256 /\ b[4] = (n \div 16777216) % 256
  BY <1>1, IntByte, SMT
<1>3. Has(p, b)
  OBVIOUS
<1> HIDE DEF b
<1>4. \A i \in 1..4 : ByteAt(p + i - 1) = b[i]
  <2> TAKE i \in 1..4
  <2>1. i \in 1..Len(b)
    BY <1>1
  <2> QED
    BY <1>3, <2>1, HadByte, Zenon
<1>5. ByteAt(p) = b[1] /\ ByteAt(p + 1) = b[2] /\ ByteAt(p + 2) = b[3] /\ ByteAt(p + 3) = b[4]
  <2>1. 1 \in 1..4 /\ 2 \in 1..4 /\ 3 \in 1..4 /\ 4 \in 1..4
        /\ p + 1 - 1 = p /\ p + 2 - 1 = p + 1 /\ p + 3 - 1 = p + 2 /\ p + 4 - 1 = p + 3
    BY SMT
  <2>2. ByteAt(p + 1 - 1) = b[1] /\ ByteAt(p + 2 - 1) = b[2] /\ ByteAt(p + 3 - 1) = b[3]
        /\ ByteAt(p + 4 - 1) = b[4]
    BY <1>4, <2>1, Zenon
  <2> QED
    BY <2>1, <2>2
<1> DEFINE r == (n \div 16777216) % 256
<1>6. r \in 0..127
  BY SumOfBytes, SMT
<1>7. Signed(ByteAt(p + 3)) = r
  <2>1. ByteAt(p + 3) = r
    BY <1>2, <1>5, SMT
  <2> HIDE DEF r
  <2> QED
    BY <1>6, <2>1 DEF Signed
<1>8. Int32At(p) = (n % 256) + (256 * ((n \div 256) % 256)) + (65536 * ((n \div 65536) % 256))
                     + (16777216 * r)
  <2> HIDE DEF r
  <2> QED
    BY <1>2, <1>5, <1>7, SMT DEF Int32At
<1> QED
  BY <1>8, SumOfBytes, SMT
LEMMA ScalarIs ==
  ASSUME NEW e
  PROVE  /\ e.type \in {2, 13, 14} => Scalar(e) = LengthAndString(e.value)
         /\ e.type = 5 => Scalar(e) = (SerializeInt(Len(e.value)) \o << 0 >>) \o e.value
         /\ e.type = 12 => Scalar(e) = LengthAndString(e.value) \o [k \in 1..12 |-> k]
         /\ e.type \in {7, 8, 1, 9, 17, 18, 16, 6, 10, 255, 127} => Scalar(e) = e.value
<1> DEFINE s == LengthAndString(e.value)
           b == (SerializeInt(Len(e.value)) \o << 0 >>) \o e.value
           p == LengthAndString(e.value) \o [k \in 1..12 |-> k]
           r == CString(e.value) \o CString(e.value)
<1>1. Scalar(e) = CASE e.type \in {Type.STRING, Type.JAVASCRIPT, Type.SYMBOL} -> s
                    [] e.type = Type.BINARY    -> b
                    [] e.type = Type.DBPOINTER -> p
                    [] e.type = Type.REGEXP    -> r
                    [] OTHER -> e.value
  BY DEF Scalar
<1> HIDE DEF s, b, p, r
<1>2. Scalar(e) = CASE e.type \in {2, 13, 14} -> s
                    [] e.type = 5 -> b [] e.type = 12 -> p [] e.type = 11 -> r
                    [] OTHER -> e.value
  BY <1>1, TypeBytes
<1>3. /\ e.type \in {2, 13, 14} => Scalar(e) = s
      /\ e.type = 5 => Scalar(e) = b
      /\ e.type = 12 => Scalar(e) = p
      /\ e.type \in {7, 8, 1, 9, 17, 18, 16, 6, 10, 255, 127} => Scalar(e) = e.value
  BY <1>2
<1> QED
  BY <1>3, Zenon DEF s, b, p, r

LEMMA StringSizeRead ==
  ASSUME buf \in Seq(Bytes), NEW t \in Seq(Bytes), Len(t) < MaxInt32, NEW p \in Nat,
         Has(p, LengthAndString(t))
  PROVE  StringSize(p) = Len(LengthAndString(t))
<1> DEFINE n == Len(t) + 1
<1>1. Len(t) \in Nat
  BY BytesConcat
<1>2. n \in Nat /\ n <= MaxInt32 /\ n \in Int
  BY <1>1, SMT DEF MaxInt32
<1>3. SerializeInt(n) \in Seq(Bytes) /\ CString(t) \in Seq(Bytes)
  <2> HIDE DEF n
  <2> QED
    BY <1>2, IntBytes, CStringOK, Zenon
<1>4. Has(p, SerializeInt(n) \o CString(t))
  BY DEF LengthAndString
<1>5. Len(LengthAndString(t)) = 4 + n
  <2>1. Len(LengthAndString(t)) = Len(t) + 5
    BY LengthAndStringOK
  <2> QED
    BY <1>1, <2>1
<1> HIDE DEF n
<1>6. Has(p, SerializeInt(n))
  BY <1>3, <1>4, HasConcat, Zenon
<1>7. Int32At(p) = n
  BY <1>2, <1>6, IntRead, Zenon
<1> QED
  BY <1>5, <1>7, Zenon DEF StringSize

LEMMA SkippedIs ==
  ASSUME NEW t, NEW d
  PROVE  /\ t \in {2, 13, 14} => Skipped(t, d) = d + StringSize(d)
         /\ t \in {3, 4} => Skipped(t, d) = d + Int32At(d)
         /\ t = 5 => Skipped(t, d) = d + 4 + 1 + Int32At(d)
         /\ t = 12 => Skipped(t, d) = d + StringSize(d) + 12
<1> DEFINE s == d + StringSize(d)
           i == d + Int32At(d)
           b == d + 4 + 1 + Int32At(d)
           p == d + StringSize(d) + 12
           r == AfterNul(d)
           d1 == d + 1
           d4 == d + 4
           d8 == d + 8
           d12 == d + 12
<1>1. Skipped(t, d) =
        CASE t \in {Type.STRING, Type.JAVASCRIPT, Type.SYMBOL} -> s
          [] t \in {Type.DOCUMENT, Type.ARRAY} -> i
          [] t = Type.BINARY -> b
          [] t \in {Type.UNDEFINED, Type.NULL, Type.MIN_KEY, Type.MAX_KEY} -> d
          [] t = Type.OBJECT_ID -> d12
          [] t = Type.BOOLEAN -> d1
          [] t \in {Type.DOUBLE, Type.DATETIME, Type.TIMESTAMP, Type.INT64} -> d8
          [] t = Type.REGEXP -> r
          [] t = Type.DBPOINTER -> p
          [] t = Type.INT32 -> d4
          [] OTHER -> NULL
  BY DEF Skipped
<1> HIDE DEF s, i, b, p, r, d1, d4, d8, d12
<1>2. Skipped(t, d) =
        CASE t \in {2, 13, 14} -> s [] t \in {3, 4} -> i [] t = 5 -> b
          [] t \in {6, 10, 255, 127} -> d [] t = 7 -> d12 [] t = 8 -> d1
          [] t \in {1, 9, 17, 18} -> d8 [] t = 11 -> r [] t = 12 -> p [] t = 16 -> d4
          [] OTHER -> NULL
  BY <1>1, TypeBytes
<1>3. /\ t \in {2, 13, 14} => Skipped(t, d) = s
      /\ t \in {3, 4} => Skipped(t, d) = i
      /\ t = 5 => Skipped(t, d) = b
      /\ t = 12 => Skipped(t, d) = p
  BY <1>2
<1> QED
  BY <1>3, Zenon DEF s, i, b, p

\* A value of a type that bson_next knows is skipped as a whole.
LEMMA ScalarSkipped ==
  ASSUME buf \in Seq(Bytes), NEW e \in Scalars, NEW d \in Nat, Has(d, Scalar(e))
  PROVE  Skipped(e.type, d) = d + Len(Scalar(e))
<1> DEFINE v == e.value
           t == e.type
<1>1. v \in Seq(Bytes) /\ t \in ScalarTypes /\ Len(v) \in Nat /\ Len(v) \in Int
      /\ (t \in FixedTypes => Len(v) = Width(t)) /\ (t \notin FixedTypes => Len(v) < MaxInt32)
  <2>1. v \in Seq(Bytes) /\ t \in ScalarTypes
        /\ (t \in FixedTypes => Len(v) = Width(t)) /\ (t \notin FixedTypes => Len(v) < MaxInt32)
    BY ScalarFields
  <2>2. Len(v) \in Nat
    BY <2>1, BytesConcat
  <2> QED
    BY <2>1, <2>2, SMT
<1>2. CASE t \in StringTypes
  <2>1. Scalar(e) = LengthAndString(v)
    BY <1>2, TypesAre, ScalarIs
  <2>2. Skipped(t, d) = d + StringSize(d)
    BY <1>2, TypesAre, SkippedIs
  <2>3. t \notin FixedTypes
    BY <1>2, TypesAre
  <2>4. Has(d, LengthAndString(v))
    BY <2>1, Zenon
  <2>5. StringSize(d) = Len(LengthAndString(v))
    <3> HIDE DEF v, t
    <3> QED
      BY <1>1, <2>3, <2>4, StringSizeRead, Zenon
  <2> QED
    BY <2>1, <2>2, <2>5, Zenon
<1>3. CASE t = Type.BINARY
  <2> DEFINE h == SerializeInt(Len(v))
  <2>1. Scalar(e) = (h \o << 0 >>) \o v
    BY <1>3, TypeBytes, ScalarIs
  <2>2. Skipped(t, d) = d + 4 + 1 + Int32At(d)
    BY <1>3, TypeBytes, SkippedIs
  <2>3. h \in Seq(Bytes) /\ Len(h) = 4
    <3> HIDE DEF v
    <3> QED
      BY <1>1, IntBytes, Zenon
  <2>4. t \notin FixedTypes
    BY <1>3, TypesAre, TypeBytes
  <2>5. Len(v) <= MaxInt32 /\ Len(v) \in Nat
    <3> DEFINE n == Len(v)
    <3>1. n \in Nat /\ n < MaxInt32
      BY <1>1, <2>4, Zenon
    <3> HIDE DEF n
    <3>2. n \in Nat /\ n <= MaxInt32
      BY <3>1, SMT DEF MaxInt32
    <3> QED
      BY <3>2, Zenon DEF n
  <2> HIDE DEF h, v
  <2>6. h \o << 0 >> \in Seq(Bytes) /\ Len(h \o << 0 >>) = 5
        /\ Len((h \o << 0 >>) \o v) = 5 + Len(v)
    <3>1. h \o << 0 >> \in Seq(Bytes) /\ Len(h \o << 0 >>) = Len(h) + Len(<< 0 >>)
      BY <2>3, ZeroByte, BytesConcat, Zenon
    <3> DEFINE g == h \o << 0 >>
    <3> HIDE DEF g
    <3>2. g \in Seq(Bytes) /\ Len(g) = 5
      BY <2>3, <3>1, ZeroByte DEF g
    <3>3. Len(g \o v) = Len(g) + Len(v)
      BY <1>1, <3>2, BytesConcat, Zenon
    <3> QED
      BY <3>2, <3>3 DEF g
  <2>7. Has(d, h \o << 0 >>)
    BY <1>1, <2>1, <2>6, HasConcat, Zenon
  <2>8. Has(d, h)
    BY <2>3, <2>7, ZeroByte, HasConcat, Zenon
  <2>9. Int32At(d) = Len(v)
    BY <2>5, <2>8, IntRead, Zenon DEF h
  <2> QED
    BY <2>1, <2>2, <2>5, <2>6, <2>9
<1>4. CASE t = Type.DBPOINTER
  <2> DEFINE o == [k \in 1..12 |-> k]
             s == LengthAndString(v)
  <2>1. Scalar(e) = s \o o
    BY <1>4, TypeBytes, ScalarIs
  <2>2. Skipped(t, d) = d + StringSize(d) + 12
    BY <1>4, TypeBytes, SkippedIs
  <2>3. o \in Seq(Bytes) /\ Len(o) = 12
    BY PointerOK
  <2>4. s \in Seq(Bytes)
    BY <1>1, LengthAndStringOK
  <2>5. t \notin FixedTypes
    BY <1>4, TypesAre, TypeBytes
  <2> HIDE DEF o, s, v
  <2>6. Has(d, s)
    BY <2>1, <2>3, <2>4, HasConcat, Zenon
  <2>7. StringSize(d) = Len(s)
    BY <1>1, <2>5, <2>6, StringSizeRead, Zenon DEF s
  <2>8. Len(s \o o) = Len(s) + 12 /\ Len(s) \in Nat
    BY <2>3, <2>4, BytesConcat
  <2> QED
    BY <2>1, <2>2, <2>7, <2>8
<1>5. CASE t \in FixedTypes
  <2>1. t \in {7, 8, 1, 9, 17, 18, 16, 6, 10, 255, 127} /\ Len(v) = Width(t)
    BY <1>1, <1>5, TypesAre
  <2>2. Scalar(e) = v
    BY <2>1, ScalarIs
  <2>3. Skipped(t, d) = d + Width(t)
    <3> HIDE DEF t
    <3> QED
      BY <2>1, TypeBytes DEF Skipped, Width
  <2> QED
    BY <2>1, <2>2, <2>3, Zenon
<1> QED
  BY <1>1, <1>2, <1>3, <1>4, <1>5 DEF ScalarTypes

LEMMA NoDocument ==
  ASSUME NEW e \in Scalars
  PROVE  e.type \notin {Type.DOCUMENT, Type.ARRAY} /\ Value(e) = Scalar(e)
<1>1. e.type \in ScalarTypes
  BY ScalarFields
<1>2. e.type \notin {Type.DOCUMENT, Type.ARRAY}
  BY <1>1, TypesAre, TypeBytes
<1> QED
  BY <1>2 DEF Value

LEMMA ADocument ==
  ASSUME NEW e \in Embedded
  PROVE  /\ e.type \in {Type.DOCUMENT, Type.ARRAY} /\ e.value \in Seq(Nested)
         /\ Value(e) = Document(Within(e.value)) /\ Len(Value(e)) <= MaxInt32
         /\ Within(e.value) \in Seq(Seq(Bytes)) /\ Value(e) \in Seq(Bytes)
         /\ Value(e) = Encoded(e.value) /\ e.value \in Seq(Elements)
<1>1. e.type \in {Type.DOCUMENT, Type.ARRAY} /\ e.value \in Seq(Nested)
      /\ Len(Doc(Scalar, e.value)) <= MaxInt32
  BY EmbeddedFields, TypeBytes
<1>2. Value(e) = Doc(Scalar, e.value)
  BY <1>1 DEF Value
<1>3. Value(e) = Document(Within(e.value))
  BY <1>2, DocIs
<1>4. Within(e.value) \in Seq(Seq(Bytes))
  BY <1>1, WithinOK
<1>5. Value(e) \in Seq(Bytes)
  BY <1>3, <1>4, DocumentOK
<1>6. \A k \in DOMAIN e.value : e.value[k] \in Nested
  BY <1>1
<1>7. Within(e.value) = Pieces(e.value)
  <2>1. \A k \in DOMAIN e.value : Value(e.value[k]) = Scalar(e.value[k])
    BY <1>6, NestedType, NoDocument
  <2> QED
    BY <2>1 DEF Within, Pieces
<1>8. Value(e) = Encoded(e.value)
  BY <1>3, <1>7, EncodedIs
<1>9. e.value \in Seq(Elements)
  <2> DEFINE s == e.value
  <2>1. s = [k \in 1..Len(s) |-> s[k]] /\ Len(s) \in Nat /\ DOMAIN s = 1..Len(s)
    BY <1>1
  <2>2. \A k \in 1..Len(s) : s[k] \in Elements
    BY <1>6, <2>1, NestedType
  <2> HIDE DEF s
  <2>3. s \in Seq(Elements)
    BY <2>1, <2>2
  <2> QED
    BY <2>3 DEF s
<1> QED
  BY <1>1, <1>2, <1>3, <1>4, <1>5, <1>8, <1>9

LEMMA ValueSkipped ==
  ASSUME buf \in Seq(Bytes), NEW e \in Elements, NEW d \in Nat, Has(d, Value(e))
  PROVE  Skipped(e.type, d) = d + Len(Value(e))
<1>1. CASE e \in Scalars
  BY <1>1, NoDocument, ScalarSkipped
<1>2. CASE e \in Embedded
  <2> DEFINE v == Value(e)
             s == Within(e.value)
             n == Len(v)
  <2>1. e.type \in {Type.DOCUMENT, Type.ARRAY} /\ s \in Seq(Seq(Bytes)) /\ v = Document(s)
        /\ v \in Seq(Bytes) /\ n <= MaxInt32
    BY <1>2, ADocument, Zenon
  <2>2. Skipped(e.type, d) = d + Int32At(d)
    BY <2>1, TypeBytes, SkippedIs
  <2>3. Has(d, v) /\ n \in Nat
    BY <2>1, BytesConcat
  <2> HIDE DEF v, s
  <2>4. Has(d, SerializeInt(n))
    BY <2>1, <2>3, HasDocument, Zenon
  <2> HIDE DEF n
  <2>5. Int32At(d) = n
    BY <2>1, <2>3, <2>4, IntRead, Zenon
  <2> QED
    BY <2>2, <2>5, Zenon DEF n, v
<1> QED
  BY <1>1, <1>2 DEF Elements

\* What is found where an element lies: its name, its value, and the next one.
LEMMA ElementRead ==
  ASSUME buf \in Seq(Bytes), NEW e \in Elements, NEW p \in Nat \ {0},
         Has(p, Element(e, Value(e)))
  PROVE  /\ ByteAt(p) = e.type /\ e.type \in Chars /\ Len(e.name) \in Nat /\ p \in DOMAIN buf
         /\ BsonNext(p) = p + Len(Element(e, Value(e))) /\ Len(Element(e, Value(e))) \in Nat
         /\ GetCurrent(p) = [type |-> Signed(e.type), field |-> p + 1,
                             data |-> p + Len(e.name) + 2]
         /\ CStringAt(p + 1) = e.name
         /\ Has(p + Len(e.name) + 2, Value(e))
<1> DEFINE v == Value(e)
           n == e.name
           t == e.type
           a == <<t>>
           c == CString(n)
           l == Element(e, v)
<1>1. t \in Chars /\ n \in Seq(Chars) /\ t \in Bytes /\ v \in Seq(Bytes) /\ n \in Seq(Bytes)
  BY ElementType, ValueOK, CharsAreBytes
<1>2. /\ l \in Seq(Bytes) /\ Len(l) = Len(n) + 2 + Len(v) /\ Len(n) \in Nat /\ Len(v) \in Nat
      /\ a \in Seq(Bytes) /\ c \in Seq(Bytes)
  <2> HIDE DEF v
  <2> QED
    BY <1>1, ElementOK
<1>3. a \in Seq(Chars) /\ Len(a) = 1 /\ a[1] = t
  BY <1>1
<1>4. a \o n \in Seq(Chars) /\ Len(a \o n) = Len(n) + 1
  <2> DEFINE X == Chars
  <2>1. a \in Seq(X) /\ n \in Seq(X)
    BY <1>1, <1>3
  <2> HIDE DEF a, n, X
  <2>2. a \o n \in Seq(X) /\ Len(a \o n) = Len(a) + Len(n)
    BY <2>1
  <2>3. Len(a \o n) = Len(n) + 1
    BY <1>2, <1>3, <2>2
  <2> QED
    BY <2>2, <2>3 DEF X
<1>5. l = (a \o c) \o v
  BY Zenon DEF Element
<1>6. a \o c = CString(a \o n)
  <2>1. (a \o n) \o << 0 >> = a \o (n \o << 0 >>)
    <3> DEFINE z == << 0 >>
    <3>1. a \in Seq(Bytes) /\ n \in Seq(Bytes) /\ z \in Seq(Bytes)
      BY <1>1, <1>2, ZeroByte
    <3> HIDE DEF a, n, z
    <3>2. (a \o n) \o z = a \o (n \o z)
      BY <3>1, ConcatAssoc, SMT
    <3> QED
      BY <3>2 DEF z
  <2> QED
    BY <2>1, Zenon DEF CString
<1>7. Len(c) = Len(n) + 1
  <2> HIDE DEF n
  <2> QED
    BY <1>1, CStringOK
<1>8. Has(p, l)
  OBVIOUS
<1> HIDE DEF v, n, t, a, c, l
<1>9. a \o c \in Seq(Bytes) /\ Len(a \o c) = Len(n) + 2
  <2>1. a \o c \in Seq(Bytes) /\ Len(a \o c) = Len(a) + Len(c)
    BY <1>2, BytesConcat, Zenon
  <2>2. Len(a) + Len(c) = Len(n) + 2
    BY <1>2, <1>3, <1>7
  <2> QED
    BY <2>1, <2>2, Zenon
<1>10. Has(p, a \o c) /\ Has(p + (Len(n) + 2), v)
  <2>1. Has(p, a \o c) /\ Has(p + Len(a \o c), v)
    BY <1>1, <1>5, <1>8, <1>9, HasConcat
  <2> QED
    BY <1>9, <2>1, Zenon
<1>11. Has(p, a) /\ Has(p + 1, c)
  <2>1. Has(p, a) /\ Has(p + Len(a), c)
    BY <1>2, <1>10, HasConcat
  <2> QED
    BY <1>3, <2>1, Zenon
<1>12. ByteAt(p) = t /\ p \in DOMAIN buf
  <2>1. Len(a) \in Nat \ {0} /\ p \in Nat
    BY <1>3
  <2> QED
    BY <1>3, <1>11, <2>1, HadFirst, Zenon
<1>13. AfterNul(p + 1) = p + Len(n) + 2 /\ CStringAt(p + 1) = n
  <2>1. p + 1 \in Nat \ {0}
    OBVIOUS
  <2>2. AfterNul(p + 1) = p + 1 + Len(n) + 1 /\ CStringAt(p + 1) = n
    BY <1>1, <1>11, <2>1, CStringRead DEF c
  <2> QED
    BY <1>2, <2>2
<1>14. AfterNul(p) = p + Len(n) + 2
  <2>1. AfterNul(p) = p + Len(a \o n) + 1
    BY <1>4, <1>6, <1>10, CStringRead
  <2> QED
    BY <1>2, <1>4, <2>1
<1>15. t # 0
  BY <1>1, CharIsNotZero
<1>16. GetCurrent(p) = [type |-> Signed(t), field |-> p + 1, data |-> p + Len(n) + 2]
  BY <1>12, <1>14, <1>15 DEF GetCurrent, SkipFieldName
<1>17. Has(p + Len(n) + 2, v) /\ p + Len(n) + 2 \in Nat
  <2>1. p + Len(n) + 2 = p + (Len(n) + 2) /\ p + Len(n) + 2 \in Nat
    BY <1>2
  <2> QED
    BY <1>10, <2>1, Zenon
<1>18. BsonNext(p) = p + Len(l)
  <2>1. BsonNext(p) = Skipped(t, p + Len(n) + 2)
    BY <1>12, <1>13, <1>15 DEF BsonNext, SkipFieldName
  <2>2. Skipped(t, p + Len(n) + 2) = p + Len(n) + 2 + Len(v)
    BY <1>17, ValueSkipped DEF v, t
  <2> QED
    BY <1>2, <2>1, <2>2
<1>19. Len(l) \in Nat
  BY <1>2
<1> QED
  BY <1>1, <1>2, <1>12, <1>13, <1>16, <1>17, <1>18, <1>19 DEF l, v, n, t

LEMMA EndRead ==
  ASSUME NEW p \in Nat, Has(p, << 0 >>)
  PROVE  BsonNext(p) = NULL /\ GetCurrent(p) = [type |-> 0, field |-> NULL, data |-> NULL]
<1> DEFINE z == << 0 >>
<1>1. Len(z) \in Nat \ {0} /\ z[1] = 0 /\ Has(p, z)
  BY ZeroByte
<1> HIDE DEF z
<1>2. ByteAt(p) = 0
  BY <1>1, HadFirst
<1> QED
  BY <1>2 DEF BsonNext, GetCurrent

LEMMA SignedIs ==
  ASSUME NEW t \in Chars, NEW u \in Searchable
  PROVE  Signed(t) = u <=> t = u
<1>1. u \in {4, 3, 1, 8, 16, 18, 2}
  BY TypeBytes DEF Searchable
<1>2. t \in Nat /\ t < 256 /\ u < 127 /\ u >= 0
  BY <1>1 DEF Chars
<1>3. CASE t > 127
  <2>1. Signed(t) = t - 256
    BY <1>3 DEF Signed
  <2>2. t - 256 < 0
    BY <1>2
  <2> QED
    BY <1>1, <1>2, <1>3, <2>1, <2>2
<1>4. CASE ~(t > 127)
  BY <1>4 DEF Signed
<1> QED
  BY <1>3, <1>4
-----------------------------------------------------------------------------
(* Reading a document *)

LEMMA DocumentRead ==
  ASSUME buf \in Seq(Bytes), NEW doc \in Seq(Elements), NEW base \in Nat \ {0},
         Has(base, Encoded(doc))
  PROVE  /\ \A k \in 1..Len(doc) :
              LET p == ElementAt(doc, base, k)
              IN /\ p \in Nat \ {0} /\ BsonNext(p) = ElementAt(doc, base, k + 1)
                 /\ BsonNext(p) \in Nat /\ BsonNext(p) >= ValueAt(doc, base, k)
                 /\ GetCurrent(p) = [type |-> Signed(doc[k].type), field |-> p + 1,
                                     data |-> ValueAt(doc, base, k)]
                 /\ CStringAt(p + 1) = doc[k].name
                 /\ Has(ValueAt(doc, base, k), Value(doc[k]))
                 /\ ValueAt(doc, base, k) \in Nat /\ ValueAt(doc, base, k) > p
         /\ LET p == ElementAt(doc, base, Len(doc) + 1)
            IN /\ p \in Nat \ {0} /\ BsonNext(p) = NULL
               /\ GetCurrent(p) = [type |-> 0, field |-> NULL, data |-> NULL]
<1> DEFINE s == Pieces(doc)
           E(k) == ElementAt(doc, base, k)
           V(k) == ValueAt(doc, base, k)
<1>1. s \in Seq(Seq(Bytes)) /\ Len(s) = Len(doc) /\ Len(doc) \in Nat
      /\ \A k \in 1..Len(doc) : s[k] = Element(doc[k], Value(doc[k])) /\ doc[k] \in Elements
  BY PiecesOK
<1>2. Has(base, Document(s))
  BY EncodedIs
<1> HIDE DEF s
<1>3. /\ \A k \in 1..Len(doc) : Has(base + 4 + Before(s, k), s[k])
      /\ Has(base + 4 + Before(s, Len(doc) + 1), << 0 >>)
  BY <1>1, <1>2, HasDocument
<1>4. \A k \in 1..(Len(doc) + 1) : E(k) = base + 4 + Before(s, k)
  BY ElementIsAt DEF s
<1>5. \A k \in 1..Len(doc) : Before(s, k) \in Nat /\ Before(s, k + 1) = Before(s, k) + Len(s[k])
  BY <1>1, BeforeNext
<1>6. \A k \in 1..Len(doc) : V(k) = E(k) + Len(doc[k].name) + 2
  BY DEF ValueAt
<1> HIDE DEF E, V
<1>7. ASSUME NEW k \in 1..Len(doc)
      PROVE  LET p == E(k)
             IN /\ p \in Nat \ {0} /\ BsonNext(p) = E(k + 1)
                /\ BsonNext(p) \in Nat /\ BsonNext(p) >= V(k)
                /\ GetCurrent(p) = [type |-> Signed(doc[k].type), field |-> p + 1, data |-> V(k)]
                /\ CStringAt(p + 1) = doc[k].name
                /\ Has(V(k), Value(doc[k]))
                /\ V(k) \in Nat /\ V(k) > p
  <2> DEFINE e == doc[k]
             v == Value(e)
             p == base + 4 + Before(s, k)
             l == Element(e, v)
  <2>1. e \in Elements /\ s[k] = l
    BY <1>1
  <2>2. p \in Nat \ {0}
    BY <1>5
  <2>3. k \in 1..(Len(doc) + 1) /\ k + 1 \in 1..(Len(doc) + 1)
    BY <1>1
  <2>4. E(k) = p /\ E(k + 1) = base + 4 + Before(s, k + 1)
    BY <1>4, <2>3, Zenon
  <2>5. Has(p, l)
    BY <1>3, <2>1, Zenon
  <2> HIDE DEF e, p
  <2>6. /\ BsonNext(p) = p + Len(l) /\ Len(l) \in Nat /\ Len(e.name) \in Nat
        /\ GetCurrent(p) = [type |-> Signed(e.type), field |-> p + 1, data |-> p + Len(e.name) + 2]
        /\ CStringAt(p + 1) = e.name
        /\ Has(p + Len(e.name) + 2, v)
    BY <2>1, <2>2, <2>5, ElementRead
  <2>7. Len(l) >= Len(e.name) + 2
    <3>1. e.type \in Bytes /\ e.name \in Seq(Chars) /\ v \in Seq(Bytes)
      BY <2>1, ElementType, CharsAreBytes, ValueOK
    <3> HIDE DEF v, l
    <3>2. Len(l) = Len(e.name) + 2 + Len(v) /\ Len(v) \in Nat
      BY <3>1, ElementOK DEF l
    <3> QED
      BY <2>6, <3>2
  <2> HIDE DEF l, v
  <2>8. E(k + 1) = p + Len(l)
    <3>1. Before(s, k + 1) = Before(s, k) + Len(l) /\ Before(s, k) \in Nat
      BY <1>5, <2>1
    <3> QED
      BY <2>4, <2>6, <3>1 DEF p
  <2>9. V(k) = p + Len(e.name) + 2
    BY <1>6, <2>4 DEF e
  <2>10. p + Len(l) \in Nat /\ p + Len(l) >= p + Len(e.name) + 2 /\ p + Len(e.name) + 2 \in Nat
         /\ p + Len(e.name) + 2 > p
    BY <2>2, <2>6, <2>7
  <2> QED
    BY <2>2, <2>4, <2>6, <2>8, <2>9, <2>10 DEF e, v
<1>8. LET p == E(Len(doc) + 1)
      IN /\ p \in Nat \ {0} /\ BsonNext(p) = NULL
         /\ GetCurrent(p) = [type |-> 0, field |-> NULL, data |-> NULL]
  <2> DEFINE p == base + 4 + Before(s, Len(doc) + 1)
  <2>1. Before(s, Len(doc) + 1) \in Nat
    <3>1. Before(s, Len(doc) + 1) = Len(FlattenSeq(s)) /\ FlattenSeq(s) \in Seq(Bytes)
      BY <1>1, BeforeEnds, FlattenType
    <3> QED
      BY <3>1, BytesConcat
  <2>2. p \in Nat \ {0} /\ Len(doc) + 1 \in 1..(Len(doc) + 1)
    BY <1>1, <2>1
  <2>3. E(Len(doc) + 1) = p
    BY <1>4, <2>2, Zenon
  <2>4. Has(p, << 0 >>)
    BY <1>3
  <2> HIDE DEF p
  <2>5. BsonNext(p) = NULL /\ GetCurrent(p) = [type |-> 0, field |-> NULL, data |-> NULL]
    BY <2>2, <2>4, EndRead
  <2> QED
    BY <2>2, <2>3, <2>5
<1> QED
  BY <1>7, <1>8 DEF E, V
\* The values of a document lie in the order of its elements.
LEMMA InOrder ==
  ASSUME buf \in Seq(Bytes), NEW doc \in Seq(Elements), NEW base \in Nat \ {0},
         Has(base, Encoded(doc))
  PROVE  \A j, k \in 1..Len(doc) : ValueAt(doc, base, j) = ValueAt(doc, base, k) => j = k
<1> DEFINE E(k) == ElementAt(doc, base, k)
           V(k) == ValueAt(doc, base, k)
           T == {n \in Nat : \A j \in 1..Len(doc) : j < n /\ n \in 1..Len(doc) => V(j) < V(n)}
<1>1. \A k \in 1..Len(doc) :
        E(k) \in Nat /\ E(k + 1) \in Nat /\ V(k) \in Nat /\ V(k) > E(k) /\ V(k) <= E(k + 1)
  BY DocumentRead
<1>2. Len(doc) \in Nat
  OBVIOUS
<1> HIDE DEF E, V
<1>3. 0 \in T
  OBVIOUS
<1>4. ASSUME NEW n \in Nat, n \in T PROVE n + 1 \in T
  <2> SUFFICES ASSUME NEW j \in 1..Len(doc), j < n + 1, n + 1 \in 1..Len(doc)
               PROVE  V(j) < V(n + 1)
    OBVIOUS
  <2>1. n \in 1..Len(doc)
    BY <1>2
  <2>2. V(n) \in Nat /\ V(n) <= E(n + 1) /\ E(n + 1) < V(n + 1) /\ V(n + 1) \in Nat
        /\ E(n + 1) \in Nat /\ V(j) \in Nat
    BY <1>1, <2>1
  <2>3. V(j) <= V(n)
    <3>1. CASE j = n
      BY <2>2, <3>1
    <3>2. CASE j # n
      <4>1. j < n
        BY <3>2
      <4>2. V(j) < V(n)
        BY <1>4, <2>1, <4>1
      <4> QED
        BY <2>2, <4>2
    <3> QED
      BY <3>1, <3>2
  <2> QED
    BY <2>2, <2>3
<1> HIDE DEF T
<1>5. \A n \in Nat : n \in T
  BY <1>3, <1>4, InductionOnNat
<1>6. \A j, n \in 1..Len(doc) : j < n => V(j) < V(n)
  <2>1. \A n \in 1..Len(doc) : n \in T
    BY <1>2, <1>5
  <2> QED
    BY <2>1 DEF T
<1>7. \A j, k \in 1..Len(doc) : V(j) = V(k) => j = k
  <2> TAKE j, k \in 1..Len(doc)
  <2>1. V(j) \in Nat /\ V(k) \in Nat
    BY <1>1
  <2>2. j < k => V(j) < V(k)
    BY <1>6
  <2>3. k < j => V(k) < V(j)
    BY <1>6
  <2> QED
    BY <2>1, <2>2, <2>3
<1> QED
  BY <1>7 DEF V

LEMMA HasAll == Has(1, buf)
<1>1. \A i \in 1..Len(buf) : 1 + i - 1 = i
  OBVIOUS
<1> QED
  BY <1>1 DEF Has
-----------------------------------------------------------------------------
(* The search and the walk *)

At(r, w) == {k \in DOMAIN r : r[k].name = w.name /\ r[k].type = w.type}

\* The search w of the reply r: it is at an element, or at the end, and the one it
\* is for is not before it.
Finding(r, w) ==
  /\ w.result = NULL /\ w.type \in Searchable /\ w.list = <<>>
  /\ \E k \in 1..Len(r) + 1 : w.ptr = ElementAt(r, 1, k) /\ \A j \in At(r, w) : j >= k

Found(r, w) ==
  /\ w.type \in Searchable /\ w.list = <<>>
  /\ w.result = IF At(r, w) = {} THEN NULL ELSE ValueAt(r, 1, Min(At(r, w)))

\* The walk w goes through the m-th element of r.
InArray(r, w, m) ==
  /\ m \in DOMAIN r /\ r[m] \in Embedded /\ w.result = ValueAt(r, 1, m)
  /\ w.type \in {Type.STRING, Type.INT32}
  /\ \A k \in DOMAIN r[m].value : r[m].value[k].type = w.type

Pairs(doc, n) == [k \in 1..n |-> <<doc[k].name, doc[k].value>>]

WalkingAt(w, doc) ==
  \E k \in 1..Len(doc) + 1 :
    /\ w.ptr = ElementAt(doc, w.result, k) /\ w.list = Pairs(doc, k - 1)
    /\ w.type = Type.INT32 => k <= 4

Walking(r, w) == \E m \in DOMAIN r : InArray(r, w, m) /\ WalkingAt(w, r[m].value)

\* How many elements of doc are taken.
Wanted(w, doc) == IF w.type = Type.INT32 THEN Min({4, Len(doc)}) ELSE Len(doc)

WalkedAll(r, w) ==
  \E m \in DOMAIN r : InArray(r, w, m) /\ w.list = Pairs(r[m].value, Wanted(w, r[m].value))

IsWalk(w) ==
  w = [ptr |-> w.ptr, name |-> w.name, type |-> w.type, result |-> w.result,
       data |-> w.data, field |-> w.field, list |-> w.list]

ReadInv ==
  /\ reply \in Seq(Elements) /\ buf = Encoded(reply) /\ IsWalk(walk)
  /\ pc = "find" => Finding(reply, walk)
  /\ pc = "found" => Found(reply, walk)
  /\ pc = "array" => Walking(reply, walk)
  /\ pc = "walked" => WalkedAll(reply, walk)

LEMMA BufferOK ==
  ASSUME ReadInv
  PROVE  buf \in Seq(Bytes) /\ Has(1, Encoded(reply)) /\ reply \in Seq(Elements)
<1>1. reply \in Seq(Elements) /\ buf = Encoded(reply)
  BY DEF ReadInv
<1>2. Pieces(reply) \in Seq(Seq(Bytes))
  BY <1>1, PiecesOK
<1>3. buf \in Seq(Bytes)
  BY <1>1, <1>2, EncodedIs, DocumentOK
<1> QED
  BY <1>1, <1>3, HasAll

\* The array that is walked is the one that was found.
LEMMA WalkedIs ==
  ASSUME ReadInv, NEW m \in DOMAIN reply, InArray(reply, walk, m)
  PROVE  /\ Walked = reply[m].value /\ reply[m].value \in Seq(Nested)
         /\ reply[m].value \in Seq(Elements)
         /\ walk.result \in Nat \ {0} /\ Has(walk.result, Encoded(reply[m].value))
<1> DEFINE V(k) == ValueAt(reply, 1, k)
<1>1. buf \in Seq(Bytes) /\ Has(1, Encoded(reply)) /\ reply \in Seq(Elements)
  BY BufferOK
<1>2. m \in 1..Len(reply) /\ walk.result = V(m) /\ reply[m] \in Embedded
      /\ DOMAIN reply = 1..Len(reply)
  BY <1>1 DEF InArray
<1>3. 1 \in Nat \ {0}
  OBVIOUS
<1>4. \A j, k \in 1..Len(reply) : V(j) = V(k) => j = k
  BY <1>1, <1>3, InOrder
<1>5. LET p == ElementAt(reply, 1, m)
      IN V(m) \in Nat /\ V(m) > p /\ p \in Nat \ {0} /\ Has(V(m), Value(reply[m]))
  BY <1>1, <1>2, <1>3, DocumentRead
<1>6. reply[m].value \in Seq(Nested) /\ Value(reply[m]) = Encoded(reply[m].value)
      /\ reply[m].value \in Seq(Elements)
  BY <1>2, ADocument
<1> HIDE DEF V
<1>7. (CHOOSE k \in DOMAIN reply : V(k) = walk.result) = m
  BY <1>2, <1>4
<1>8. Walked = reply[m].value
  BY <1>7 DEF Walked, V
<1>9. walk.result \in Nat \ {0}
  BY <1>2, <1>5
<1> QED
  BY <1>2, <1>5, <1>6, <1>8, <1>9

\* The search is at an element, which it compares, or at the end.
LEMMA FindReads ==
  ASSUME ReadInv, NEW k \in 1..(Len(reply) + 1), walk.ptr = ElementAt(reply, 1, k),
         walk.type \in Searchable
  PROVE  /\ k <= Len(reply) =>
              /\ Matches(GetCurrent(walk.ptr), walk.name, walk.type) <=> k \in At(reply, walk)
              /\ GetCurrent(walk.ptr).field # NULL
              /\ GetCurrent(walk.ptr).data = ValueAt(reply, 1, k)
              /\ BsonNext(walk.ptr) = ElementAt(reply, 1, k + 1) /\ BsonNext(walk.ptr) # NULL
         /\ k = Len(reply) + 1 =>
              /\ GetCurrent(walk.ptr).field = NULL
              /\ ~Matches(GetCurrent(walk.ptr), walk.name, walk.type)
<1> DEFINE p == walk.ptr
           c == GetCurrent(p)
<1>1. buf \in Seq(Bytes) /\ Has(1, Encoded(reply)) /\ reply \in Seq(Elements) /\ 1 \in Nat \ {0}
  BY BufferOK
<1>2. CASE k <= Len(reply)
  <2>1. k \in 1..Len(reply) /\ reply[k] \in Elements /\ k \in DOMAIN reply /\ k # Len(reply) + 1
    BY <1>1, <1>2
  <2>2. LET q == ElementAt(reply, 1, k)
        IN /\ q \in Nat \ {0} /\ BsonNext(q) = ElementAt(reply, 1, k + 1)
           /\ BsonNext(q) \in Nat /\ BsonNext(q) >= ValueAt(reply, 1, k)
           /\ GetCurrent(q) = [type |-> Signed(reply[k].type), field |-> q + 1,
                               data |-> ValueAt(reply, 1, k)]
           /\ CStringAt(q + 1) = reply[k].name
           /\ ValueAt(reply, 1, k) \in Nat /\ ValueAt(reply, 1, k) > q
    BY <1>1, <2>1, DocumentRead
  <2>3. /\ p \in Nat \ {0} /\ BsonNext(p) = ElementAt(reply, 1, k + 1)
        /\ BsonNext(p) \in Nat /\ BsonNext(p) >= ValueAt(reply, 1, k)
        /\ c = [type |-> Signed(reply[k].type), field |-> p + 1, data |-> ValueAt(reply, 1, k)]
        /\ CStringAt(p + 1) = reply[k].name
        /\ ValueAt(reply, 1, k) \in Nat /\ ValueAt(reply, 1, k) > p
    BY <2>2, Zenon
  <2>4. Signed(reply[k].type) = walk.type <=> reply[k].type = walk.type
    BY <2>1, ElementType, SignedIs
  <2> HIDE DEF c, p
  <2>5. c.field = p + 1 /\ c.type = Signed(reply[k].type) /\ c.data = ValueAt(reply, 1, k)
    BY <2>3
  <2>6. c.field # NULL
    BY <2>3, <2>5 DEF NULL
  <2>7. Matches(c, walk.name, walk.type) <=> k \in At(reply, walk)
    BY <2>1, <2>3, <2>4, <2>5, <2>6 DEF Matches, At
  <2>8. BsonNext(p) # NULL
    BY <2>3 DEF NULL
  <2> QED
    BY <2>1, <2>3, <2>5, <2>6, <2>7, <2>8 DEF c, p
<1>3. CASE k = Len(reply) + 1
  <2>1. GetCurrent(p) = [type |-> 0, field |-> NULL, data |-> NULL]
    BY <1>1, <1>3, DocumentRead
  <2>2. GetCurrent(p).field = NULL
    BY <2>1
  <2>3. ~(k <= Len(reply))
    BY <1>1, <1>3
  <2> QED
    BY <2>2, <2>3 DEF Matches
<1> QED
  BY <1>1, <1>2, <1>3

LEMMA AtIs ==
  ASSUME NEW r \in Seq(Elements), NEW w
  PROVE  At(r, w) \subseteq 1..Len(r) /\ At(r, w) \subseteq Int
         /\ (At(r, w) # {} => Min(At(r, w)) \in At(r, w))
<1>1. At(r, w) \subseteq 1..Len(r) /\ Len(r) \in Nat
  BY DEF At
<1>2. ASSUME At(r, w) # {} PROVE Min(At(r, w)) \in At(r, w)
  <2> DEFINE S == At(r, w)
             T == {n \in Nat : n \in 1..Len(r) =>
                     ((\E y \in S : y <= n) => \E x \in S : \A y \in S : x <= y)}
  <2>1. S \subseteq 1..Len(r)
    BY <1>1
  <2> HIDE DEF S
  <2>2. 0 \in T
    OBVIOUS
  <2>3. ASSUME NEW n \in Nat, n \in T PROVE n + 1 \in T
    <3> SUFFICES ASSUME n + 1 \in 1..Len(r), NEW y \in S, y <= n + 1
                 PROVE  \E x \in S : \A z \in S : x <= z
      OBVIOUS
    <3>1. CASE \E z \in S : z <= n
      <4>1. n \in 1..Len(r)
        BY <1>1, <2>1, <3>1
      <4> QED
        BY <2>3, <3>1, <4>1
    <3>2. CASE ~\E z \in S : z <= n
      <4>1. \A z \in S : y <= z
        BY <1>1, <2>1, <3>2
      <4> QED
        BY <4>1
    <3> QED
      BY <3>1, <3>2
  <2> HIDE DEF T
  <2>4. \A n \in Nat : n \in T
    BY <2>2, <2>3, InductionOnNat
  <2>5. PICK y \in S : TRUE
    BY <1>2 DEF S
  <2>6. y \in Nat /\ y \in 1..Len(r) /\ y \in T /\ y <= y
    BY <1>1, <2>1, <2>4, <2>5
  <2>7. \E x \in S : \A z \in S : x <= z
    BY <2>5, <2>6 DEF T
  <2>8. Min(S) \in S
    BY <2>7 DEF Min
  <2> QED
    BY <2>8 DEF S
<1> QED
  BY <1>1, <1>2
LEMMA FreshWalk ==
  ASSUME NEW w, w = [ptr |-> 5, name |-> <<>>, type |-> 0, result |-> NULL,
                     data |-> NULL, field |-> NULL, list |-> <<>>]
  PROVE  IsWalk(w)
BY DEF IsWalk

LEMMA ReadBegins == Init => ReadInv
<1> SUFFICES ASSUME Init PROVE ReadInv
  OBVIOUS
<1>1. IsWalk(walk)
  BY FreshWalk DEF Init
<1>2. reply \in Seq(Elements) /\ buf = Encoded(reply)
  BY DEF Init
<1>3. pc = "idle"
  BY DEF Init
<1> QED
  BY <1>1, <1>2, <1>3 DEF ReadInv

LEMMA FirstElement ==
  ASSUME NEW r \in Seq(Elements), NEW base \in Nat
  PROVE  1 \in 1..(Len(r) + 1) /\ ElementAt(r, base, 1) = base + 4
<1>1. 1 \in 1..(Len(r) + 1)
  OBVIOUS
<1>2. Pieces(r) \in Seq(Seq(Bytes))
  BY PiecesOK
<1>3. Before(Pieces(r), 1) = 0
  BY <1>2, BeforeEnds
<1>4. ElementAt(r, base, 1) = base + 4 + Before(Pieces(r), 1)
  BY <1>1, ElementIsAt
<1> QED
  BY <1>1, <1>3, <1>4

LEMMA FindStarts ==
  ASSUME ReadInv, NEW n, NEW t \in Searchable, StartFind(n, t)
  PROVE  ReadInv'
<1> DEFINE w == walk'
<1>1. /\ pc' = "find" /\ reply' = reply /\ buf' = buf
      /\ w = [ptr |-> 5, name |-> n, type |-> t, result |-> NULL,
              data |-> NULL, field |-> NULL, list |-> <<>>]
  BY DEF StartFind
<1>2. reply \in Seq(Elements) /\ buf = Encoded(reply)
  BY DEF ReadInv
<1> HIDE DEF w
<1>3. IsWalk(w)
  BY <1>1 DEF IsWalk
<1>4. Finding(reply, w)
  <2>1. w.ptr = 5 /\ w.result = NULL /\ w.type = t /\ w.list = <<>>
    BY <1>1
  <2>2. 1 \in 1..(Len(reply) + 1) /\ ElementAt(reply, 1, 1) = 5
    BY <1>2, FirstElement
  <2>3. \A j \in At(reply, w) : j >= 1
    BY <1>2, AtIs
  <2>4. \E k \in 1..Len(reply) + 1 : w.ptr = ElementAt(reply, 1, k) /\ \A j \in At(reply, w) : j >= k
    BY <2>1, <2>2, <2>3, Zenon
  <2> QED
    BY <2>1, <2>4, Zenon DEF Finding
<1> QED
  BY <1>1, <1>2, <1>3, <1>4 DEF ReadInv, w

LEMMA FindSteps ==
  ASSUME ReadInv, FindStep
  PROVE  ReadInv'
<1> DEFINE w == walk'
           p == walk.ptr
           c == GetCurrent(p)
           M == Matches(c, walk.name, walk.type)
<1>1. pc = "find" /\ reply' = reply /\ buf' = buf
  BY DEF FindStep
<1>2. reply \in Seq(Elements) /\ buf = Encoded(reply) /\ IsWalk(walk) /\ Finding(reply, walk)
  BY <1>1 DEF ReadInv
<1>3. PICK k \in 1..(Len(reply) + 1) :
             p = ElementAt(reply, 1, k) /\ \A j \in At(reply, walk) : j >= k
  BY <1>2 DEF Finding
<1>4. walk.result = NULL /\ walk.type \in Searchable /\ walk.list = <<>>
  BY <1>2 DEF Finding
<1>5. /\ k <= Len(reply) =>
           /\ M <=> k \in At(reply, walk)
           /\ c.field # NULL
           /\ c.data = ValueAt(reply, 1, k)
           /\ BsonNext(p) = ElementAt(reply, 1, k + 1) /\ BsonNext(p) # NULL
      /\ k = Len(reply) + 1 => c.field = NULL /\ ~M
  BY <1>3, <1>4, FindReads, Zenon
<1>6. Len(reply) \in Nat /\ At(reply, walk) \subseteq 1..Len(reply) /\ At(reply, walk) \subseteq Int
      /\ k \in Int /\ (k <= Len(reply) \/ k = Len(reply) + 1)
  BY <1>2, AtIs
<1>7. \/ M /\ w = [walk EXCEPT !.result = c.data] /\ pc' = "found"
      \/ ~M /\ c.field # NULL /\ BsonNext(p) # NULL /\ w = [walk EXCEPT !.ptr = BsonNext(p)]
           /\ pc' = "find"
      \/ ~M /\ (c.field = NULL \/ BsonNext(p) = NULL) /\ pc' = "found" /\ w = walk
  BY <1>1, Zenon DEF FindStep, Advanced
<1> HIDE DEF w, c, p, M
<1>8. CASE M /\ w = [walk EXCEPT !.result = c.data] /\ pc' = "found"
  <2>1. k <= Len(reply) /\ k \in At(reply, walk) /\ c.data = ValueAt(reply, 1, k)
    BY <1>5, <1>6, <1>8
  <2>2. Min(At(reply, walk)) = k
    BY <1>3, <1>6, <2>1, LeastIs
  <2>3. IsWalk(w) /\ w.result = ValueAt(reply, 1, k) /\ w.type = walk.type /\ w.name = walk.name
        /\ w.list = <<>>
    BY <1>2, <1>4, <1>8, <2>1 DEF IsWalk
  <2>4. At(reply, w) = At(reply, walk)
    BY <2>3 DEF At
  <2>5. Found(reply, w)
    BY <1>4, <2>1, <2>2, <2>3, <2>4 DEF Found
  <2> QED
    BY <1>1, <1>2, <1>8, <2>3, <2>5 DEF ReadInv, w
<1>9. CASE ~M /\ c.field # NULL /\ BsonNext(p) # NULL /\ w = [walk EXCEPT !.ptr = BsonNext(p)]
            /\ pc' = "find"
  <2>1. k <= Len(reply) /\ k \notin At(reply, walk) /\ BsonNext(p) = ElementAt(reply, 1, k + 1)
    BY <1>5, <1>6, <1>9
  <2>2. IsWalk(w) /\ w.ptr = ElementAt(reply, 1, k + 1) /\ w.type = walk.type
        /\ w.name = walk.name /\ w.list = <<>> /\ w.result = NULL
    BY <1>2, <1>4, <1>9, <2>1 DEF IsWalk
  <2>3. At(reply, w) = At(reply, walk)
    BY <2>2 DEF At
  <2>4. k + 1 \in 1..(Len(reply) + 1)
    BY <1>6, <2>1
  <2>5. \A j \in At(reply, walk) : j >= k + 1
    <3> TAKE j \in At(reply, walk)
    <3>1. j >= k /\ j # k /\ j \in Int
      BY <1>3, <1>6, <2>1
    <3> QED
      BY <1>6, <3>1
  <2>6. Finding(reply, w)
    BY <1>4, <2>2, <2>3, <2>4, <2>5, Zenon DEF Finding
  <2> QED
    BY <1>1, <1>2, <1>9, <2>2, <2>6 DEF ReadInv, w
<1>10. CASE ~M /\ (c.field = NULL \/ BsonNext(p) = NULL) /\ pc' = "found" /\ w = walk
  <2>1. k = Len(reply) + 1
    BY <1>5, <1>6, <1>10
  <2>2. At(reply, walk) = {}
    <3> SUFFICES ASSUME NEW j \in At(reply, walk) PROVE FALSE
      OBVIOUS
    <3>1. j >= Len(reply) + 1 /\ j \in 1..Len(reply)
      BY <1>3, <1>6, <2>1
    <3> QED
      BY <1>6, <3>1
  <2>3. Found(reply, w)
    BY <1>4, <1>10, <2>2 DEF Found
  <2> QED
    BY <1>1, <1>2, <1>10, <2>3 DEF ReadInv, w
<1> QED
  BY <1>7, <1>8, <1>9, <1>10

LEMMA WalkStarts ==
  ASSUME ReadInv, NEW t \in {Type.STRING, Type.INT32}, StartArray(t)
  PROVE  ReadInv'
<1> DEFINE w == walk'
           m == Min(At(reply, walk))
<1>1. /\ pc = "found" /\ pc' = "array" /\ reply' = reply /\ buf' = buf
      /\ walk.type \in {Type.ARRAY, Type.DOCUMENT} /\ walk.result # NULL
      /\ \A k \in DOMAIN Walked : Walked[k].type = t
      /\ w = [walk EXCEPT !.ptr = walk.result + 4, !.type = t]
  BY DEF StartArray
<1>2. reply \in Seq(Elements) /\ buf = Encoded(reply) /\ IsWalk(walk) /\ Found(reply, walk)
  BY <1>1 DEF ReadInv
<1>3. At(reply, walk) # {}
  BY <1>1, <1>2 DEF Found
<1>4. m \in At(reply, walk)
  BY <1>2, <1>3, AtIs
<1>5. walk.result = ValueAt(reply, 1, m) /\ walk.list = <<>>
  BY <1>2, <1>3 DEF Found
<1> HIDE DEF m, w
<1>6. m \in DOMAIN reply /\ reply[m].type = walk.type /\ reply[m] \in Elements
  BY <1>2, <1>4 DEF At
<1>7. reply[m] \in Embedded
  <2>1. reply[m] \notin Scalars
    BY <1>1, <1>6, NoDocument
  <2> QED
    BY <1>6, <2>1 DEF Elements
<1>8. IsWalk(w) /\ w.ptr = walk.result + 4 /\ w.type = t /\ w.result = walk.result /\ w.list = <<>>
  BY <1>1, <1>2, <1>5 DEF IsWalk
<1>9. Walked = reply[m].value /\ reply[m].value \in Seq(Elements) /\ walk.result \in Nat \ {0}
  <2> DEFINE V(k) == ValueAt(reply, 1, k)
  <2>1. buf \in Seq(Bytes) /\ Has(1, Encoded(reply)) /\ 1 \in Nat \ {0}
    BY BufferOK
  <2>2. m \in 1..Len(reply) /\ DOMAIN reply = 1..Len(reply)
    BY <1>2, <1>6
  <2>3. \A j, k \in 1..Len(reply) : V(j) = V(k) => j = k
    BY <1>2, <2>1, InOrder
  <2>4. LET p == ElementAt(reply, 1, m) IN V(m) \in Nat /\ V(m) > p /\ p \in Nat \ {0}
    BY <1>2, <2>1, <2>2, DocumentRead
  <2>5. walk.result = V(m)
    BY <1>5
  <2> HIDE DEF V
  <2>6. (CHOOSE k \in DOMAIN reply : V(k) = walk.result) = m
    BY <2>2, <2>3, <2>5
  <2>7. Walked = reply[m].value
    BY <2>6 DEF Walked, V
  <2>8. walk.result \in Nat \ {0}
    BY <2>4, <2>5
  <2> QED
    BY <1>7, <2>7, <2>8, ADocument
<1>10. InArray(reply, w, m)
  BY <1>1, <1>5, <1>6, <1>7, <1>8, <1>9 DEF InArray
<1>11. WalkingAt(w, reply[m].value)
  <2> DEFINE d == reply[m].value
  <2>1. 1 \in 1..(Len(d) + 1) /\ ElementAt(d, walk.result, 1) = walk.result + 4
    BY <1>9, FirstElement
  <2>2. Pairs(d, 1 - 1) = <<>>
    BY DEF Pairs
  <2>3. 1 <= 4
    OBVIOUS
  <2>4. w.ptr = ElementAt(d, w.result, 1) /\ w.list = Pairs(d, 1 - 1)
    BY <1>8, <2>1, <2>2
  <2> HIDE DEF d
  <2>5. WalkingAt(w, d)
    BY <2>1, <2>3, <2>4, Zenon DEF WalkingAt
  <2> QED
    BY <2>5 DEF d
<1>12. Walking(reply, w)
  BY <1>6, <1>10, <1>11, Zenon DEF Walking
<1> QED
  BY <1>1, <1>2, <1>8, <1>12 DEF ReadInv, w
\* What the caller takes from the element that the walk is at.
LEMMA WalkReads ==
  ASSUME ReadInv, NEW m \in DOMAIN reply, InArray(reply, walk, m),
         NEW k \in 1..Len(reply[m].value), walk.ptr = ElementAt(reply[m].value, walk.result, k)
  PROVE  LET c == GetCurrent(walk.ptr)
             e == reply[m].value[k]
         IN /\ c.type = walk.type /\ c.field = walk.ptr + 1
            /\ CStringAt(c.field) = e.name
            /\ walk.type = Type.STRING => CStringAt(c.data + 4) = e.value
            /\ walk.type = Type.INT32 => SubSeq(buf, c.data, c.data + 3) = e.value
            /\ BsonNext(walk.ptr) = ElementAt(reply[m].value, walk.result, k + 1)
            /\ BsonNext(walk.ptr) # NULL
            /\ e.name \in Seq(Bytes) /\ e.value \in Seq(Bytes)
<1> DEFINE d == reply[m].value
           r == walk.result
           e == d[k]
           p == walk.ptr
           c == GetCurrent(p)
           V == ValueAt(d, r, k)
<1>1. buf \in Seq(Bytes) /\ reply \in Seq(Elements)
  BY BufferOK
<1>2. d \in Seq(Nested) /\ d \in Seq(Elements) /\ r \in Nat \ {0} /\ Has(r, Encoded(d))
  BY WalkedIs
<1>3. k \in 1..Len(d) /\ k \in DOMAIN d /\ p = ElementAt(d, r, k) /\ e = d[k]
  BY <1>2
<1>4. e \in Nested /\ e.type = walk.type /\ walk.type \in {Type.STRING, Type.INT32}
  BY <1>2, <1>3 DEF InArray
<1> HIDE DEF d, r, e, c, p, V
<1>5. /\ p \in Nat \ {0} /\ BsonNext(p) = ElementAt(d, r, k + 1)
      /\ BsonNext(p) \in Nat /\ BsonNext(p) >= V
      /\ c = [type |-> Signed(e.type), field |-> p + 1, data |-> V]
      /\ CStringAt(p + 1) = e.name
      /\ Has(V, Value(e))
      /\ V \in Nat /\ V > p
  <2>1. LET q == ElementAt(d, r, k)
        IN /\ q \in Nat \ {0} /\ BsonNext(q) = ElementAt(d, r, k + 1)
           /\ BsonNext(q) \in Nat /\ BsonNext(q) >= ValueAt(d, r, k)
           /\ GetCurrent(q) = [type |-> Signed(d[k].type), field |-> q + 1,
                               data |-> ValueAt(d, r, k)]
           /\ CStringAt(q + 1) = d[k].name
           /\ Has(ValueAt(d, r, k), Value(d[k]))
           /\ ValueAt(d, r, k) \in Nat /\ ValueAt(d, r, k) > q
    BY <1>1, <1>2, <1>3, DocumentRead
  <2> QED
    BY <1>3, <2>1, Zenon DEF V, c
<1>6. c.type = Signed(e.type) /\ c.field = p + 1 /\ c.data = V
  BY <1>5
<1>7. c.type = walk.type
  <2>1. e.type \in Chars /\ walk.type \in Searchable
    BY <1>4, NestedType, ElementType DEF Searchable
  <2> QED
    BY <1>4, <1>6, <2>1, SignedIs
<1>8. e \in Scalars /\ Value(e) = Scalar(e) /\ e.name \in Seq(Bytes) /\ e.value \in Seq(Bytes)
  <2>1. e \in Scalars
    BY <1>4, NestedType
  <2>2. e.name \in Seq(Chars) /\ e.value \in Seq(Bytes)
    BY <2>1, ScalarFields
  <2> QED
    BY <2>1, <2>2, NoDocument, CharsAreBytes
<1>9. BsonNext(p) # NULL
  BY <1>5 DEF NULL
<1>10. ASSUME walk.type = Type.STRING PROVE CStringAt(c.data + 4) = e.value
  <2>1. e.value \in Seq(Chars) /\ e.type = 2
    BY <1>4, <1>10, TypeBytes DEF Nested
  <2>2. Has(V, LengthAndString(e.value))
    BY <1>5, <1>8, <2>1, ScalarIs
  <2> DEFINE h == SerializeInt(Len(e.value) + 1)
             t == CString(e.value)
  <2>3. Has(V, h \o t)
    BY <2>2, Zenon DEF LengthAndString
  <2>4. h \in Seq(Bytes) /\ Len(h) = 4 /\ t \in Seq(Bytes)
    <3>1. Len(e.value) \in Nat
      BY <1>8, BytesConcat
    <3>2. Len(e.value) + 1 \in Int
      BY <3>1
    <3>3. h \in Seq(Bytes) /\ Len(h) = 4
      BY <3>2, IntBytes, Zenon
    <3> QED
      BY <1>8, <3>3, CStringOK, Zenon
  <2> HIDE DEF h, t
  <2>5. Has(V + 4, t)
    <3>1. Has(V + Len(h), t)
      BY <1>5, <2>3, <2>4, HasConcat
    <3> QED
      BY <2>4, <3>1
  <2>6. V + 4 \in Nat \ {0}
    BY <1>5
  <2>7. CStringAt(V + 4) = e.value
    BY <1>1, <2>1, <2>5, <2>6, CStringRead DEF t
  <2> QED
    BY <1>6, <2>7
<1>11. ASSUME walk.type = Type.INT32 PROVE SubSeq(buf, c.data, c.data + 3) = e.value
  <2>1. e.type = 16 /\ Len(e.value) = 4
    <3>1. e.type = 16 /\ e.type = Type.INT32 /\ e.type \in FixedTypes
      BY <1>4, <1>11, TypeBytes, TypesAre
    <3>2. Width(e.type) = 4
      BY <3>1, TypeBytes DEF Width
    <3> QED
      BY <1>8, <3>1, <3>2, ScalarFields
  <2>2. Has(V, e.value) /\ V \in Nat \ {0}
    <3>1. Scalar(e) = e.value
      BY <2>1, ScalarIs
    <3>2. V \in Nat \ {0}
      BY <1>5
    <3> QED
      BY <1>5, <1>8, <3>1, <3>2, Zenon
  <2>3. SubSeq(buf, V, V + Len(e.value) - 1) = e.value
    BY <1>1, <1>8, <2>2, CutOut
  <2>4. V + Len(e.value) - 1 = V + 3
    BY <2>1, <2>2
  <2> QED
    BY <1>6, <2>3, <2>4
<1> QED
  BY <1>5, <1>6, <1>7, <1>8, <1>9, <1>10, <1>11 DEF c, p, r, e, d

LEMMA PairsAppend ==
  ASSUME NEW doc, NEW n \in Nat,
         \A k \in 1..(n + 1) : doc[k].name \in Seq(Bytes) /\ doc[k].value \in Seq(Bytes)
  PROVE  Append(Pairs(doc, n), <<doc[n + 1].name, doc[n + 1].value>>) = Pairs(doc, n + 1)
         /\ Len(Pairs(doc, n)) = n
<1> DEFINE X == Seq(Bytes) \X Seq(Bytes)
           f(k) == <<doc[k].name, doc[k].value>>
           a == Pairs(doc, n)
           s == Pairs(doc, n + 1)
<1>1. \A k \in 1..(n + 1) : f(k) \in X
  OBVIOUS
<1>2. a = [k \in 1..n |-> f(k)] /\ s = [k \in 1..(n + 1) |-> f(k)]
  BY DEF Pairs
<1> HIDE DEF X, f, a, s
<1>3. a \in Seq(X) /\ Len(a) = n /\ \A k \in 1..n : a[k] = f(k)
  BY <1>1, <1>2
<1>4. s \in Seq(X) /\ Len(s) = n + 1 /\ \A k \in 1..(n + 1) : s[k] = f(k)
  BY <1>1, <1>2
<1>5. Append(a, f(n + 1)) = s
  <2>1. \A k \in 1..Len(a) : a[k] = s[k]
    BY <1>3, <1>4
  <2>2. n + 1 \in 1..(n + 1) /\ Len(s) = Len(a) + 1 /\ s[Len(a) + 1] = f(n + 1)
    BY <1>3, <1>4
  <2> QED
    BY <1>1, <1>3, <1>4, <2>1, <2>2, IsAppend
<1> QED
  BY <1>3, <1>5 DEF a, s, f

\* Four numbers, or as many as there are.
LEMMA LesserIs ==
  ASSUME NEW n \in Nat
  PROVE  (n >= 4 => Min({4, n}) = 4) /\ (n <= 4 => Min({4, n}) = n)
<1>1. n >= 4 => Min({4, n}) = 4
  BY LeastIs
<1>2. n <= 4 => Min({4, n}) = n
  BY LeastIs
<1> QED
  BY <1>1, <1>2

LEMMA WalkSteps ==
  ASSUME ReadInv, ArrayStep
  PROVE  ReadInv'
<1> DEFINE v == walk'
           p == walk.ptr
           c == GetCurrent(p)
           hit == c.type = walk.type
           next == BsonNext(p)
           w == [walk EXCEPT !.data = IF ~hit THEN @
                                      ELSE IF walk.type = Type.STRING THEN c.data + 4 ELSE c.data,
                             !.field = IF hit THEN c.field ELSE @,
                             !.ptr = next]
<1>1. /\ pc = "array" /\ reply' = reply /\ buf' = buf
      /\ IF next # NULL
         THEN /\ v = [w EXCEPT !.list = Append(@, <<CStringAt(w.field), Taken(w)>>)]
              /\ pc' = IF walk.type = Type.INT32 /\ Len(walk.list) = 3 THEN "walked" ELSE pc
         ELSE pc' = "walked" /\ v = [walk EXCEPT !.data = w.data, !.field = w.field]
  BY Zenon DEF ArrayStep, More
<1>2. reply \in Seq(Elements) /\ buf = Encoded(reply) /\ IsWalk(walk) /\ Walking(reply, walk)
  BY <1>1 DEF ReadInv
<1>3. PICK m \in DOMAIN reply : InArray(reply, walk, m) /\ WalkingAt(walk, reply[m].value)
  BY <1>2 DEF Walking
<1> DEFINE d == reply[m].value
           r == walk.result
<1>4. PICK k \in 1..(Len(d) + 1) :
        /\ p = ElementAt(d, r, k) /\ walk.list = Pairs(d, k - 1)
        /\ walk.type = Type.INT32 => k <= 4
  BY <1>3, Zenon DEF WalkingAt
<1>5. d \in Seq(Elements) /\ r \in Nat \ {0} /\ Has(r, Encoded(d)) /\ buf \in Seq(Bytes)
      /\ Len(d) \in Nat
  <2>1. d \in Seq(Elements) /\ r \in Nat \ {0} /\ Has(r, Encoded(d)) /\ buf \in Seq(Bytes)
    BY <1>3, WalkedIs, BufferOK, Zenon
  <2> HIDE DEF d
  <2>2. Len(d) \in Nat
    BY <2>1
  <2> QED
    BY <2>1, <2>2
<1>6. walk.type \in {Type.STRING, Type.INT32}
  BY <1>3 DEF InArray
<1>7. walk = [ptr |-> walk.ptr, name |-> walk.name, type |-> walk.type, result |-> walk.result,
              data |-> walk.data, field |-> walk.field, list |-> walk.list]
  BY <1>2 DEF IsWalk
<1> HIDE DEF v, c, p, d, r, next
<1>8. ASSUME NEW u, u.result = walk.result, u.type = walk.type PROVE InArray(reply, u, m)
  BY <1>3, <1>8 DEF InArray
<1>9. CASE k <= Len(d)
  <2>1. k \in 1..Len(d)
    BY <1>5, <1>9
  <2>2. /\ c.type = walk.type /\ CStringAt(c.field) = d[k].name
        /\ walk.type = Type.STRING => CStringAt(c.data + 4) = d[k].value
        /\ walk.type = Type.INT32 => SubSeq(buf, c.data, c.data + 3) = d[k].value
        /\ next = ElementAt(d, r, k + 1) /\ next # NULL
    BY <1>3, <1>4, <2>1, WalkReads DEF c, d, r, next, p
  <2>3. /\ w.field = c.field /\ w.type = walk.type /\ w.ptr = next /\ w.list = walk.list
        /\ w.data = IF walk.type = Type.STRING THEN c.data + 4 ELSE c.data
        /\ w.result = walk.result
        /\ w = [ptr |-> w.ptr, name |-> w.name, type |-> w.type, result |-> w.result,
                data |-> w.data, field |-> w.field, list |-> w.list]
    <3> DEFINE x == IF walk.type = Type.STRING THEN c.data + 4 ELSE c.data
               f == c.field
               y == c.data + 4
               z == c.data
    <3>1. hit
      BY <2>2
    <3> HIDE DEF x, f, y, z
    <3>2. x = IF walk.type = Type.STRING THEN y ELSE z
      BY DEF x, y, z
    <3>3. w = [walk EXCEPT !.data = IF ~hit THEN @ ELSE IF walk.type = Type.STRING THEN y ELSE z,
                           !.field = IF hit THEN f ELSE @, !.ptr = next]
      BY DEF f, y, z
    <3> HIDE DEF w, hit
    <3>4. w = [ptr |-> next, name |-> walk.name, type |-> walk.type, result |-> walk.result,
               data |-> x, field |-> f, list |-> walk.list]
      BY <1>7, <3>1, <3>2, <3>3
    <3>5. /\ w.field = f /\ w.type = walk.type /\ w.ptr = next /\ w.list = walk.list
          /\ w.data = x /\ w.result = walk.result
          /\ w = [ptr |-> w.ptr, name |-> w.name, type |-> w.type, result |-> w.result,
                  data |-> w.data, field |-> w.field, list |-> w.list]
      BY <3>4
    <3> QED
      BY <3>5, Zenon DEF x, f
  <2> HIDE DEF w
  <2>4. Taken(w) = d[k].value
    <3>1. CASE walk.type = Type.STRING
      BY <2>2, <2>3, <3>1 DEF Taken
    <3>2. CASE walk.type = Type.INT32
      <4>1. walk.type # Type.STRING
        BY <3>2, TypeBytes
      <4> QED
        BY <2>2, <2>3, <3>2, <4>1 DEF Taken
    <3> QED
      BY <1>6, <3>1, <3>2
  <2>5. Append(walk.list, <<CStringAt(w.field), Taken(w)>>) = Pairs(d, k) /\ Len(walk.list) = k - 1
    <3>1. \A j \in 1..((k - 1) + 1) : d[j].name \in Seq(Bytes) /\ d[j].value \in Seq(Bytes)
      <4> TAKE j \in 1..((k - 1) + 1)
      <4>1. j \in 1..Len(d)
        BY <1>5, <2>1
      <4>2. d \in Seq(Nested)
        BY <1>3, WalkedIs DEF d
      <4>3. d[j] \in Scalars
        BY <4>1, <4>2, NestedType
      <4> QED
        BY <4>3, ScalarFields, CharsAreBytes
    <3>2. k - 1 \in Nat /\ (k - 1) + 1 = k
      BY <2>1
    <3>3. Append(Pairs(d, k - 1), <<d[(k - 1) + 1].name, d[(k - 1) + 1].value>>)
            = Pairs(d, (k - 1) + 1) /\ Len(Pairs(d, k - 1)) = k - 1
      BY <3>1, <3>2, PairsAppend, Zenon
    <3> QED
      BY <1>4, <2>2, <2>3, <2>4, <3>2, <3>3, Zenon
  <2>6. /\ IsWalk(v) /\ v.ptr = ElementAt(d, r, k + 1) /\ v.type = walk.type /\ v.result = r
        /\ v.list = Pairs(d, k)
        /\ pc' = IF walk.type = Type.INT32 /\ Len(walk.list) = 3 THEN "walked" ELSE "array"
    BY <1>1, <2>2, <2>3, <2>5 DEF IsWalk, r
  <2>7. InArray(reply, v, m)
    BY <1>8, <2>6 DEF r
  <2>8. CASE pc' = "walked"
    <3>1. walk.type = Type.INT32 /\ k = 4 /\ Len(d) >= 4
      BY <1>9, <2>1, <2>5, <2>6, <2>8
    <3>2. Wanted(v, d) = 4
      BY <1>5, <2>6, <3>1, LesserIs DEF Wanted
    <3>3. WalkedAll(reply, v)
      BY <2>6, <2>7, <3>1, <3>2, Zenon DEF WalkedAll, d
    <3> QED
      BY <1>1, <1>2, <2>6, <2>8, <3>3 DEF ReadInv, v
  <2>9. CASE pc' = "array"
    <3>1. ~(walk.type = Type.INT32 /\ k = 4)
      BY <2>1, <2>5, <2>6, <2>9
    <3>2. k + 1 \in 1..(Len(d) + 1) /\ (k + 1) - 1 = k
      BY <1>5, <2>1
    <3>3. walk.type = Type.INT32 => k + 1 <= 4
      BY <1>4, <2>1, <3>1
    <3>4. WalkingAt(v, d)
      <4>1. v.ptr = ElementAt(d, v.result, k + 1) /\ v.list = Pairs(d, (k + 1) - 1)
            /\ (v.type = Type.INT32 => k + 1 <= 4)
        BY <2>6, <3>2, <3>3
      <4> QED
        BY <3>2, <4>1, Zenon DEF WalkingAt
    <3>5. Walking(reply, v)
      BY <2>7, <3>4, Zenon DEF Walking, d
    <3> QED
      BY <1>1, <1>2, <2>6, <2>9, <3>5 DEF ReadInv, v
  <2> QED
    BY <2>6, <2>8, <2>9
<1>10. CASE k = Len(d) + 1
  <2>1. next = NULL
    BY <1>4, <1>5, <1>10, DocumentRead DEF next
  <2>2. /\ pc' = "walked" /\ IsWalk(v) /\ v.type = walk.type /\ v.result = r
        /\ v.list = Pairs(d, Len(d))
    <3>1. k - 1 = Len(d)
      BY <1>5, <1>10
    <3> HIDE DEF w
    <3>2. pc' = "walked" /\ v = [walk EXCEPT !.data = w.data, !.field = w.field]
      BY <1>1, <2>1
    <3> QED
      BY <1>4, <1>7, <3>1, <3>2 DEF IsWalk, r
  <2>3. InArray(reply, v, m)
    BY <1>8, <2>2 DEF r
  <2>4. Wanted(v, d) = Len(d)
    <3>1. walk.type = Type.INT32 => Len(d) <= 4
      BY <1>4, <1>5, <1>10
    <3> QED
      BY <1>5, <2>2, <3>1, LesserIs DEF Wanted
  <2>5. WalkedAll(reply, v)
    BY <2>2, <2>3, <2>4, Zenon DEF WalkedAll, d
  <2> QED
    BY <1>1, <1>2, <2>2, <2>5 DEF ReadInv, v
<1> QED
  BY <1>5, <1>9, <1>10
\* Without a reply there is nothing to read.
LEMMA NothingRead ==
  ASSUME ReadInv, pc' \notin {"find", "found", "array", "walked"},
         reply' \in Seq(Elements), buf' = Encoded(reply'), IsWalk(walk')
  PROVE  ReadInv'
BY DEF ReadInv

LEMMA ReadStep == ReadInv /\ [Next]_vars => ReadInv'
<1> SUFFICES ASSUME ReadInv, [Next]_vars PROVE ReadInv'
  OBVIOUS
<1>0. reply \in Seq(Elements) /\ buf = Encoded(reply) /\ IsWalk(walk)
  BY DEF ReadInv
<1>1. CASE Command
  <2>1. PICK c : Begin(c)
    BY <1>1 DEF Command
  <2>2. pc' = "build" /\ reply' = reply /\ buf' = buf /\ walk' = walk
    BY <2>1 DEF Begin
  <2> QED
    BY <1>0, <2>2, NothingRead
<1>2. CASE AddPiece
  <2>1. pc' = "build" /\ reply' = reply /\ buf' = buf /\ walk' = walk
    BY <1>2 DEF AddPiece
  <2> QED
    BY <1>0, <2>1, NothingRead
<1>3. CASE Send
  <2>1. pc' = "sent" /\ reply' = reply /\ buf' = buf /\ walk' = walk
    BY <1>3 DEF Send
  <2> QED
    BY <1>0, <2>1, NothingRead
<1>4. CASE \E d \in Documents : Reply(d)
  <2>1. PICK d \in Documents : Reply(d)
    BY <1>4
  <2>2. pc' = "got" /\ reply' = d /\ buf' = Encoded(d) /\ walk' = walk
    BY <2>1 DEF Reply
  <2>3. d \in Seq(Elements)
    BY MiniBsonAssumption
  <2> QED
    BY <1>0, <2>2, <2>3, NothingRead
<1>5. CASE \E n \in FieldNames, t \in Searchable : StartFind(n, t)
  BY <1>5, FindStarts
<1>6. CASE FindStep
  BY <1>6, FindSteps
<1>7. CASE \E t \in {Type.STRING, Type.INT32} : StartArray(t)
  BY <1>7, WalkStarts
<1>8. CASE ArrayStep
  BY <1>8, WalkSteps
<1>9. CASE Done
  <2>1. pc' = "idle" /\ reply' = <<>> /\ buf' = Encoded(<<>>)
        /\ walk' = [ptr |-> 5, name |-> <<>>, type |-> 0, result |-> NULL,
                    data |-> NULL, field |-> NULL, list |-> <<>>]
    BY <1>9 DEF Done
  <2>2. IsWalk(walk')
    BY <2>1, FreshWalk, Zenon
  <2>3. <<>> \in Seq(Elements)
    OBVIOUS
  <2> QED
    BY <2>1, <2>2, <2>3, NothingRead
<1>10. CASE UNCHANGED vars
  <2>1. pc' = pc /\ reply' = reply /\ buf' = buf /\ walk' = walk
    BY <1>10 DEF vars
  <2> QED
    BY <2>1 DEF ReadInv
<1> QED
  BY <1>1, <1>2, <1>3, <1>4, <1>5, <1>6, <1>7, <1>8, <1>9, <1>10 DEF Next

LEMMA ReadHolds == Spec => []ReadInv
<1>1. Init => ReadInv
  BY ReadBegins
<1>2. ReadInv /\ [Next]_vars => ReadInv'
  BY ReadStep
<1> QED
  BY <1>1, <1>2, PTL DEF Spec

LEMMA SearchReads == ReadInv => FindsFirst
<1> SUFFICES ASSUME ReadInv PROVE FindsFirst
  OBVIOUS
<1>1. pc = "find" => \E k \in 1..Len(reply) + 1 : walk.ptr = ElementAt(reply, 1, k)
  BY DEF ReadInv, Finding
<1>2. pc = "found" => walk.result = IF At(reply, walk) = {} THEN NULL
                                    ELSE ValueAt(reply, 1, Min(At(reply, walk)))
  BY DEF ReadInv, Found
<1> QED
  BY <1>1, <1>2, Zenon DEF FindsFirst, At

LEMMA WalkReadsAll == ReadInv => ArrayWhole
<1> SUFFICES ASSUME ReadInv PROVE ArrayWhole
  OBVIOUS
<1>1. ASSUME pc = "array"
      PROVE  \E k \in 1..Len(Walked) + 1 : walk.ptr = ElementAt(Walked, walk.result, k)
  <2>1. PICK m \in DOMAIN reply : InArray(reply, walk, m) /\ WalkingAt(walk, reply[m].value)
    BY <1>1 DEF ReadInv, Walking
  <2>2. Walked = reply[m].value
    BY <2>1, WalkedIs
  <2> QED
    BY <2>1, <2>2, Zenon DEF WalkingAt
<1>2. ASSUME pc = "walked"
      PROVE  walk.list = Pairs(Walked, Wanted(walk, Walked))
  <2>1. PICK m \in DOMAIN reply : InArray(reply, walk, m)
                                   /\ walk.list = Pairs(reply[m].value, Wanted(walk, reply[m].value))
    BY <1>2 DEF ReadInv, WalkedAll
  <2>2. Walked = reply[m].value
    BY <2>1, WalkedIs
  <2> QED
    BY <2>1, <2>2, Zenon
<1> QED
  BY <1>1, <1>2, Zenon DEF ArrayWhole, Pairs, Wanted

\* A field is found where the first element of its name and type has its value, and
\* not found only without one (bson_find_field, bson_next), for documents of any
\* number of elements of any length.
THEOREM SearchFindsFirst == Spec => []FindsFirst
<1>1. ReadInv => FindsFirst
  BY SearchReads
<1> QED
  BY <1>1, ReadHolds, PTL

\* The walk over an array or a document inside a reply (bson_array_find_next_string,
\* bson_array_find_next_int32) yields every element once and in order, of numbers the
\* first four, however many there are.
THEOREM ArraysAreWhole == Spec => []ArrayWhole
<1>1. ReadInv => ArrayWhole
  BY WalkReadsAll
<1> QED
  BY <1>1, ReadHolds, PTL
-----------------------------------------------------------------------------
(* The packet *)

LEMMA ConcatIs ==
  ASSUME NEW X, NEW a \in Seq(X), NEW b \in Seq(X), NEW c \in Seq(X), NEW ab, NEW bc,
         ab = a \o b, bc = b \o c
  PROVE  ab \o c = a \o bc
BY ConcatAssoc

LEMMA FlattenThree ==
  ASSUME NEW X, NEW a \in Seq(X), NEW b \in Seq(X), NEW c \in Seq(X)
  PROVE  FlattenSeq(<<a, b, c>>) = (a \o b) \o c /\ <<a, b, c>> \in Seq(Seq(X))
<1>1. <<a>> \in Seq(Seq(X)) /\ <<a, b>> \in Seq(Seq(X)) /\ <<a, b>> = Append(<<a>>, b)
      /\ <<a, b, c>> = Append(<<a, b>>, c) /\ <<a, b, c>> \in Seq(Seq(X))
  OBVIOUS
<1>2. FlattenSeq(Append(<<a>>, b)) = FlattenSeq(<<a>>) \o b
  BY <1>1, FlattenAppend
<1>3. FlattenSeq(Append(<<a, b>>, c)) = FlattenSeq(<<a, b>>) \o c
  BY <1>1, FlattenAppend
<1> QED
  BY <1>1, <1>2, <1>3, FlattenOne

LEMMA FlattenFive ==
  ASSUME NEW X, NEW a \in Seq(X), NEW b \in Seq(X), NEW c \in Seq(X), NEW d \in Seq(X),
         NEW e \in Seq(X)
  PROVE  /\ FlattenSeq(<<a, b, c, d, e>>) = (a \o b) \o (c \o (d \o e))
         /\ <<a, b, c, d, e>> \in Seq(Seq(X))
<1>1. /\ <<a>> \in Seq(Seq(X)) /\ <<a, b>> \in Seq(Seq(X)) /\ <<a, b>> = Append(<<a>>, b)
      /\ <<a, b, c>> = Append(<<a, b>>, c)
      /\ <<a, b, c>> \in Seq(Seq(X)) /\ <<a, b, c, d>> \in Seq(Seq(X))
      /\ <<a, b, c, d>> = Append(<<a, b, c>>, d)
      /\ <<a, b, c, d, e>> = Append(<<a, b, c, d>>, e) /\ <<a, b, c, d, e>> \in Seq(Seq(X))
  OBVIOUS
<1>2. FlattenSeq(Append(<<a, b, c>>, d)) = FlattenSeq(<<a, b, c>>) \o d
  BY <1>1, FlattenAppend
<1>3. FlattenSeq(Append(<<a, b, c, d>>, e)) = FlattenSeq(<<a, b, c, d>>) \o e
  BY <1>1, FlattenAppend
<1> DEFINE u == a \o b
           w == u \o c
           x == d \o e
<1>4. FlattenSeq(<<a, b, c>>) = w
  <2>1. FlattenSeq(Append(<<a>>, b)) = FlattenSeq(<<a>>) \o b
        /\ FlattenSeq(Append(<<a, b>>, c)) = FlattenSeq(<<a, b>>) \o c
    BY <1>1, FlattenAppend
  <2>2. FlattenSeq(<<a>>) = a
    BY FlattenOne
  <2>3. FlattenSeq(<<a, b>>) = u
    BY <1>1, <2>1, <2>2, Zenon
  <2> HIDE DEF u
  <2> QED
    BY <1>1, <2>1, <2>3, Zenon
<1>5. u \in Seq(X) /\ x \in Seq(X)
  OBVIOUS
<1> HIDE DEF u
<1>6. w \in Seq(X)
  BY <1>5
<1> HIDE DEF w
<1>7. FlattenSeq(<<a, b, c, d, e>>) = (w \o d) \o e
  BY <1>1, <1>2, <1>3, <1>4
<1>8. (w \o d) \o e = w \o x
  <2>1. w \in Seq(X) /\ d \in Seq(X) /\ e \in Seq(X)
    BY <1>6
  <2> QED
    BY <2>1, ConcatAssoc
<1> HIDE DEF x
<1>9. w \o x = u \o (c \o x)
  <2>1. u \in Seq(X) /\ c \in Seq(X) /\ x \in Seq(X)
    BY <1>5
  <2>2. w = u \o c
    BY DEF w
  <2> DEFINE y == c \o x
  <2>3. y = c \o x
    OBVIOUS
  <2> HIDE DEF y
  <2>4. w \o x = u \o y
    BY <2>1, <2>2, <2>3, ConcatIs, SMTT(60)
  <2> QED
    BY <2>4 DEF y
<1>10. FlattenSeq(<<a, b, c, d, e>>) = u \o (c \o x)
  BY <1>7, <1>8, <1>9, Zenon
<1> QED
  BY <1>1, <1>10, Zenon DEF u, x

\* The fields that the driver adds.
Fields ==
  {f \in [type : {16, 18, 2}, name : Seq(Chars), n : Int, value : Seq(Bytes)] :
     /\ f.type = 16 => f.value = SerializeInt(f.n)
     /\ f.type = 18 => f.value = SerializeInt64(f.n)}

Commands == [ns : Seq(Chars), fields : Seq(Fields)]

LEMMA LongBytes == \A n \in Int : SerializeInt64(n) \in Seq(Bytes)
<1> TAKE n \in Int
<1> DEFINE h == SerializeInt(IF n < 0 THEN -1 ELSE 0)
<1>1. (IF n < 0 THEN -1 ELSE 0) \in Int
  OBVIOUS
<1>2. h \in Seq(Bytes) /\ SerializeInt(n) \in Seq(Bytes)
  BY <1>1, IntBytes, Zenon
<1>3. SerializeInt64(n) = SerializeInt(n) \o h
  BY DEF SerializeInt64
<1> HIDE DEF h
<1> QED
  BY <1>2, <1>3, BytesConcat

LEMMA FieldOK ==
  ASSUME NEW f \in Fields
  PROVE  /\ AddField(f) \in Seq(Seq(Bytes)) /\ FlattenSeq(AddField(f)) = Element(f, Value(f))
         /\ Element(f, Value(f)) \in Seq(Bytes)
<1> DEFINE t == <<f.type>>
           c == CString(f.name)
           v == f.value
<1>1. f.type \in {16, 18, 2} /\ f.name \in Seq(Chars) /\ v \in Seq(Bytes) /\ f.n \in Int
      /\ (f.type = 16 => v = SerializeInt(f.n)) /\ (f.type = 18 => v = SerializeInt64(f.n))
  BY DEF Fields
<1>2. t \in Seq(Bytes) /\ c \in Seq(Bytes)
  <2>1. f.type \in Bytes /\ f.name \in Seq(Bytes)
    BY <1>1, CharsAreBytes DEF Bytes
  <2> QED
    BY <2>1, CStringOK
<1>3. f.type \notin {Type.DOCUMENT, Type.ARRAY}
  BY <1>1, TypeBytes
<1>4. Value(f) = Scalar(f)
  BY <1>3 DEF Value
<1>5. Element(f, Value(f)) = (t \o c) \o Scalar(f)
  BY <1>4, Zenon DEF Element
<1>6. CASE f.type \in {16, 18}
  <2>1. Scalar(f) = v
    BY <1>6, ScalarIs
  <2>2. AddField(f) = <<t, c, v>>
    <3>1. CASE f.type = 16
      BY <1>1, <3>1, TypeBytes DEF AddField, AddInt32
    <3>2. CASE f.type = 18
      BY <1>1, <3>2, TypeBytes DEF AddField, AddLong
    <3> QED
      BY <1>6, <3>1, <3>2
  <2> HIDE DEF t, c, v
  <2>3. FlattenSeq(<<t, c, v>>) = (t \o c) \o v /\ <<t, c, v>> \in Seq(Seq(Bytes))
    BY <1>1, <1>2, FlattenThree
  <2>4. (t \o c) \o v \in Seq(Bytes)
    BY <1>1, <1>2, BytesConcat
  <2> QED
    BY <1>5, <2>1, <2>2, <2>3, <2>4
<1>7. CASE f.type = 2
  <2> DEFINE h == SerializeInt(Len(v) + 1)
             z == << 0 >>
  <2>1. Scalar(f) = LengthAndString(v)
    BY <1>7, ScalarIs
  <2>2. LengthAndString(v) = h \o (v \o z)
    BY DEF LengthAndString, CString
  <2>3. AddField(f) = <<t, c, h, v, z>>
    BY <1>7, TypeBytes DEF AddField, AddStringl
  <2>4. h \in Seq(Bytes) /\ z \in Seq(Bytes) /\ LengthAndString(v) \in Seq(Bytes)
    <3> HIDE DEF v
    <3>1. Len(v) \in Nat
      BY <1>1, BytesConcat
    <3>2. Len(v) + 1 \in Int
      BY <3>1
    <3> QED
      BY <1>1, <3>2, IntBytes, ZeroByte, LengthAndStringOK, Zenon
  <2> HIDE DEF t, c, v, h, z
  <2>5. /\ FlattenSeq(<<t, c, h, v, z>>) = (t \o c) \o (h \o (v \o z))
        /\ <<t, c, h, v, z>> \in Seq(Seq(Bytes))
    BY <1>1, <1>2, <2>4, FlattenFive
  <2>6. t \o c \in Seq(Bytes)
    BY <1>2, BytesConcat
  <2>7. (t \o c) \o LengthAndString(v) \in Seq(Bytes)
    BY <2>4, <2>6, BytesConcat
  <2> QED
    BY <1>5, <2>1, <2>2, <2>3, <2>5, <2>7
<1> QED
  BY <1>1, <1>6, <1>7

LEMMA FieldsOK ==
  ASSUME NEW fs \in Seq(Fields)
  PROVE  LET add == [k \in DOMAIN fs |-> AddField(fs[k])]
         IN /\ FlattenSeq(add) \in Seq(Seq(Bytes))
            /\ FlattenSeq(FlattenSeq(add)) = FlattenSeq(Pieces(fs))
            /\ Pieces(fs) \in Seq(Seq(Bytes))
<1> DEFINE add == [k \in DOMAIN fs |-> AddField(fs[k])]
<1>1. Len(fs) \in Nat /\ DOMAIN fs = 1..Len(fs) /\ \A k \in 1..Len(fs) : fs[k] \in Fields
  OBVIOUS
<1>2. add = [k \in 1..Len(fs) |-> AddField(fs[k])]
  BY <1>1
<1> HIDE DEF add
<1>3. \A k \in 1..Len(fs) :
        /\ AddField(fs[k]) \in Seq(Seq(Bytes))
        /\ FlattenSeq(AddField(fs[k])) = Element(fs[k], Value(fs[k]))
        /\ Element(fs[k], Value(fs[k])) \in Seq(Bytes)
  BY <1>1, FieldOK
<1> DEFINE X == Seq(Seq(Bytes))
<1>4. add \in Seq(X) /\ Len(add) = Len(fs) /\ \A k \in 1..Len(fs) : add[k] = AddField(fs[k])
  <2> HIDE DEF X
  <2>1. \A k \in 1..Len(fs) : AddField(fs[k]) \in X
    BY <1>3 DEF X
  <2> QED
    BY <1>1, <1>2, <2>1
<1>5. FlattenSeq(add) \in Seq(Seq(Bytes))
  <2>1. \A s \in Seq(Seq(Seq(Bytes))) : FlattenSeq(s) \in Seq(Seq(Bytes))
    BY FlattenType
  <2> QED
    BY <1>4, <2>1
<1>6. FlattenSeq(FlattenSeq(add)) = FlattenSeq([k \in 1..Len(add) |-> FlattenSeq(add[k])])
  BY <1>4, FlattenTwice
<1>7. [k \in 1..Len(add) |-> FlattenSeq(add[k])] = Pieces(fs)
  <2>1. \A k \in 1..Len(fs) : FlattenSeq(add[k]) = Element(fs[k], Value(fs[k]))
    BY <1>3, <1>4
  <2> QED
    BY <1>1, <1>4, <2>1 DEF Pieces
<1>8. Pieces(fs) \in Seq(Seq(Bytes))
  <2>1. \A k \in 1..Len(fs) : Element(fs[k], Value(fs[k])) \in Seq(Bytes)
    BY <1>3
  <2> QED
    BY <1>1, <2>1 DEF Pieces
<1> QED
  BY <1>5, <1>6, <1>7, <1>8 DEF add

\* The bytes of a command before its lengths are filled in.
Whole(c) ==
  FlattenSeq(SimpleHeader(c.ns)) \o (SerializeInt(0) \o (FlattenSeq(Pieces(c.fields)) \o << 0 >>))

LEMMA HeaderOK ==
  ASSUME NEW ns \in Seq(Chars)
  PROVE  /\ SimpleHeader(ns) \in Seq(Seq(Bytes)) /\ FlattenSeq(SimpleHeader(ns)) \in Seq(Bytes)
         /\ HeaderLength(ns) \in Nat /\ HeaderLength(ns) >= 4
         /\ HeaderLength(ns) = Len(FlattenSeq(SimpleHeader(ns)))
<1> DEFINE s == SimpleHeader(ns)
           X == Seq(Bytes)
           i0 == SerializeInt(0)
           i1 == SerializeInt(1)
           i2 == SerializeInt(2004)
           i4 == SerializeInt(4)
           im == SerializeInt(-1)
           c == CString(ns)
<1>1. i0 \in X /\ i1 \in X /\ i2 \in X /\ i4 \in X /\ im \in X /\ c \in X /\ Len(i0) = 4
  <2>1. 0 \in Int /\ 1 \in Int /\ 2004 \in Int /\ 4 \in Int /\ -1 \in Int
    OBVIOUS
  <2>2. ns \in Seq(Bytes)
    BY CharsAreBytes
  <2> QED
    <3>1. i0 \in X /\ i1 \in X /\ i2 \in X /\ i4 \in X /\ im \in X /\ Len(i0) = 4
      BY <2>1, IntBytes
    <3>2. c \in X
      BY <2>2, CStringOK
    <3> HIDE DEF i0, i1, i2, i4, im, c, X
    <3> QED
      BY <3>1, <3>2
<1>2. s = <<i0, i1, i0, i2, i4, c, i0, im>>
  BY DEF SimpleHeader
<1> HIDE DEF i0, i1, i2, i4, im, c, s, X
<1>3. s \in Seq(X) /\ s # <<>> /\ Head(s) = i0
  BY <1>1, <1>2
<1>4. FlattenSeq(s) \in X
  BY <1>3, FlattenType DEF X
<1>5. FlattenSeq(s) = i0 \o FlattenSeq(Tail(s)) /\ Tail(s) \in Seq(X)
  BY <1>3, FlattenHead DEF X
<1>6. FlattenSeq(Tail(s)) \in X
  BY <1>5, FlattenType DEF X
<1>7. Len(FlattenSeq(s)) = 4 + Len(FlattenSeq(Tail(s))) /\ Len(FlattenSeq(Tail(s))) \in Nat
  <2> DEFINE g == FlattenSeq(s)
             f == FlattenSeq(Tail(s))
  <2>1. g = i0 \o f /\ f \in Seq(Bytes) /\ i0 \in Seq(Bytes) /\ Len(i0) = 4
    BY <1>1, <1>5, <1>6 DEF X
  <2> HIDE DEF g, f
  <2>2. Len(i0 \o f) = Len(i0) + Len(f) /\ Len(f) \in Nat
    BY <2>1, BytesConcat, Zenon
  <2>3. Len(g) = 4 + Len(f) /\ Len(f) \in Nat
    BY <2>1, <2>2
  <2> QED
    BY <2>3, Zenon DEF g, f
<1> QED
  BY <1>3, <1>4, <1>7 DEF s, X, HeaderLength

\* What is begun comes to the whole packet.
LEMMA BegunIs ==
  ASSUME NEW c \in Commands, Begin(c)
  PROVE  todo' \in Seq(Seq(Bytes)) /\ FlattenSeq(todo') = Whole(c)
<1> DEFINE H == SimpleHeader(c.ns)
           i == SerializeInt(0)
           A == FlattenSeq([k \in DOMAIN c.fields |-> AddField(c.fields[k])])
           z == << 0 >>
           Y == Seq(Bytes)
           b == FlattenSeq(Pieces(c.fields))
<1>1. c.ns \in Seq(Chars) /\ c.fields \in Seq(Fields)
  BY DEF Commands
<1>2. H \in Seq(Y) /\ FlattenSeq(H) \in Y
  BY <1>1, HeaderOK
<1>3. A \in Seq(Y) /\ FlattenSeq(A) = b /\ Pieces(c.fields) \in Seq(Y)
  BY <1>1, FieldsOK
<1>4. i \in Y /\ z \in Y
  <2>1. 0 \in Int
    OBVIOUS
  <2> QED
    BY <2>1, IntBytes, ZeroByte, Zenon
<1>5. b \in Y
  BY <1>3, FlattenType
<1>6. todo' = ((H \o <<i>>) \o A) \o <<z>>
  BY Zenon DEF Begin
<1>7. Whole(c) = FlattenSeq(H) \o (i \o (b \o z))
  BY DEF Whole
<1> HIDE DEF H, i, A, z, Y, b
<1> DEFINE ti == <<i>>
           tz == <<z>>
           h == FlattenSeq(H)
<1>8. ti \in Seq(Y) /\ tz \in Seq(Y)
  BY <1>4
<1>9. FlattenSeq(ti) = i /\ FlattenSeq(tz) = z
  BY <1>4, FlattenOne DEF Y
<1>10. todo' = ((H \o ti) \o A) \o tz
  BY <1>6
<1> HIDE DEF ti, tz
<1> DEFINE p == H \o ti
<1>11. p \in Seq(Y) /\ FlattenSeq(p) = h \o i
  <2>1. p \in Seq(Y)
    BY <1>2, <1>8
  <2>2. FlattenSeq(H \o ti) = FlattenSeq(H) \o FlattenSeq(ti)
    BY <1>2, <1>8, FlattenConcat DEF Y
  <2> QED
    BY <1>9, <2>1, <2>2
<1> HIDE DEF p
<1> DEFINE q == p \o A
<1>12. q \in Seq(Y) /\ FlattenSeq(q) = FlattenSeq(p) \o b
  <2>1. q \in Seq(Y)
    BY <1>3, <1>11
  <2>2. FlattenSeq(p \o A) = FlattenSeq(p) \o FlattenSeq(A)
    BY <1>3, <1>11, FlattenConcat DEF Y
  <2> QED
    BY <1>3, <2>1, <2>2
<1> HIDE DEF q
<1>13. q \o tz \in Seq(Y) /\ FlattenSeq(q \o tz) = FlattenSeq(q) \o z
  <2>1. q \o tz \in Seq(Y)
    BY <1>8, <1>12
  <2>2. FlattenSeq(q \o tz) = FlattenSeq(q) \o FlattenSeq(tz)
    BY <1>8, <1>12, FlattenConcat DEF Y
  <2> QED
    BY <1>9, <2>1, <2>2
<1>14. todo' = q \o tz
  BY <1>10 DEF q, p
<1>15. h \in Seq(Bytes) /\ i \in Seq(Bytes) /\ b \in Seq(Bytes) /\ z \in Seq(Bytes)
  BY <1>2, <1>4, <1>5 DEF Y
<1> HIDE DEF h
<1> DEFINE hi == h \o i
           bz == b \o z
<1>16. hi \in Seq(Bytes) /\ bz \in Seq(Bytes)
  BY <1>15, BytesConcat
<1> HIDE DEF hi
<1>17. (hi \o b) \o z = hi \o bz
  BY <1>15, <1>16, ConcatAssoc, SMT
<1> HIDE DEF bz
<1>18. hi \o bz = h \o (i \o bz)
  BY <1>15, <1>16, ConcatAssoc, SMT DEF hi
<1>19. FlattenSeq(q \o tz) = (hi \o b) \o z
  BY <1>11, <1>12, <1>13 DEF hi
<1>20. Whole(c) = h \o (i \o bz)
  BY <1>7 DEF h, bz
<1> QED
  BY <1>13, <1>14, <1>17, <1>18, <1>19, <1>20 DEF Y
LEMMA CutFront ==
  ASSUME NEW X, NEW a \in Seq(X), NEW b \in Seq(X)
  PROVE  SubSeq(a \o b, 1, Len(a)) = a
<1> DEFINE s == a \o b
           t == SubSeq(s, 1, Len(a))
<1>1. s \in Seq(X) /\ Len(s) = Len(a) + Len(b) /\ Len(a) \in Nat /\ Len(b) \in Nat
      /\ \A i \in 1..Len(a) : s[i] = a[i]
  OBVIOUS
<1> HIDE DEF s
<1>2. t \in Seq(X) /\ Len(t) = Len(a) /\ \A i \in 1..Len(a) : t[i] = s[i]
  BY <1>1
<1> HIDE DEF t
<1>3. t = a
  BY <1>1, <1>2, SeqEqual
<1> QED
  BY <1>3 DEF t, s

LEMMA CutBack ==
  ASSUME NEW X, NEW a \in Seq(X), NEW b \in Seq(X)
  PROVE  SubSeq(a \o b, Len(a) + 1, Len(a \o b)) = b
<1> DEFINE s == a \o b
           t == SubSeq(s, Len(a) + 1, Len(s))
<1>1. s \in Seq(X) /\ Len(s) = Len(a) + Len(b) /\ Len(a) \in Nat /\ Len(b) \in Nat
      /\ \A i \in 1..Len(b) : s[Len(a) + i] = b[i]
  OBVIOUS
<1> HIDE DEF s
<1>2. t \in Seq(X) /\ Len(t) = Len(b) /\ \A i \in 1..Len(b) : t[i] = s[Len(a) + i]
  BY <1>1
<1> HIDE DEF t
<1>3. t = b
  BY <1>1, <1>2, SeqEqual
<1> QED
  BY <1>3 DEF t, s

LEMMA CutMiddle ==
  ASSUME NEW X, NEW d \in Seq(X), NEW n \in Nat, n >= 4, n <= Len(d)
  PROVE  SubSeq(d, 5, n) \in Seq(X) /\ Len(SubSeq(d, 5, n)) = n - 4
OBVIOUS

\* The packet that has been sent is a whole one.
IsPacket(c, d) ==
  LET h == HeaderLength(c.ns)
  IN SubSeq(d, 1, 4) = SerializeInt(Len(d)) /\ SubSeq(d, h + 1, Len(d)) = Encoded(c.fields)

LEMMA LengthsOK ==
  ASSUME NEW c \in Commands
  PROVE  LET d == Lengths(Whole(c), HeaderLength(c.ns))
         IN d \in Seq(Bytes) /\ Len(d) = Len(Whole(c)) /\ IsPacket(c, d)
<1> DEFINE h == FlattenSeq(SimpleHeader(c.ns))
           n == HeaderLength(c.ns)
           i == SerializeInt(0)
           p == Pieces(c.fields)
           b == FlattenSeq(p)
           z == << 0 >>
           e == b \o z
           d == Whole(c)
           r == Lengths(d, n)
<1>1. c.ns \in Seq(Chars) /\ c.fields \in Seq(Fields)
  BY DEF Commands
<1>2. h \in Seq(Bytes) /\ n \in Nat /\ n >= 4 /\ n = Len(h)
  BY <1>1, HeaderOK
<1>3. p \in Seq(Seq(Bytes)) /\ b \in Seq(Bytes)
  <2>1. p \in Seq(Seq(Bytes))
    BY <1>1, FieldsOK
  <2> HIDE DEF p
  <2> QED
    BY <2>1, FlattenType
<1>4. i \in Seq(Bytes) /\ Len(i) = 4 /\ z \in Seq(Bytes) /\ Len(z) = 1
  <2>1. 0 \in Int
    OBVIOUS
  <2> QED
    BY <2>1, IntBytes, ZeroByte, Zenon
<1>5. d = h \o (i \o e)
  BY DEF Whole
<1>6. r = ((SerializeInt(Len(d)) \o SubSeq(d, 5, n)) \o SerializeInt(Len(d) - n))
            \o SubSeq(d, n + 5, Len(d))
  BY Zenon DEF Lengths
<1>7. Encoded(c.fields) = (SerializeInt(Len(b) + 5) \o b) \o z
  <2>1. Encoded(c.fields) = Document(p)
    BY EncodedIs, Zenon
  <2> QED
    BY <2>1, Zenon DEF Document
<1> HIDE DEF h, n, i, p, b, z, d, r
<1>8. e \in Seq(Bytes) /\ Len(e) = Len(b) + 1 /\ Len(b) \in Nat
  BY <1>3, <1>4, BytesConcat
<1> HIDE DEF e
<1> DEFINE g == h \o i
<1>9. g \in Seq(Bytes) /\ Len(g) = n + 4
  BY <1>2, <1>4, BytesConcat
<1> HIDE DEF g
<1>10. d = g \o e /\ d \in Seq(Bytes) /\ Len(d) = n + 5 + Len(b)
  <2> DEFINE x == i \o e
  <2>1. x = i \o e /\ g = h \o i
    BY DEF g
  <2> HIDE DEF x
  <2>2. g \o e = h \o x
    BY <1>2, <1>4, <1>8, <2>1, ConcatIs, SMTT(60)
  <2>3. d = g \o e
    BY <1>5, <2>1, <2>2
  <2>4. g \o e \in Seq(Bytes) /\ Len(g \o e) = Len(g) + Len(e)
    BY <1>8, <1>9, BytesConcat, Zenon
  <2> QED
    BY <1>2, <1>8, <1>9, <2>3, <2>4
<1>11. SubSeq(d, n + 5, Len(d)) = e
  <2>1. SubSeq(g \o e, Len(g) + 1, Len(g \o e)) = e
    BY <1>8, <1>9, CutBack
  <2>2. Len(g) + 1 = n + 5
    BY <1>2, <1>9
  <2> QED
    BY <1>10, <2>1, <2>2
<1> DEFINE l == SerializeInt(Len(d))
           m == SubSeq(d, 5, n)
           k == SerializeInt(Len(d) - n)
<1>12. m \in Seq(Bytes) /\ Len(m) = n - 4
  <2>1. n <= Len(d)
    BY <1>2, <1>8, <1>10
  <2> QED
    BY <1>2, <1>10, <2>1, CutMiddle
<1>13. l \in Seq(Bytes) /\ Len(l) = 4 /\ k \in Seq(Bytes) /\ Len(k) = 4
  <2>1. Len(d) \in Int /\ Len(d) - n \in Int
    BY <1>2, <1>8, <1>10
  <2> QED
    BY <2>1, IntBytes
<1>14. k = SerializeInt(Len(b) + 5)
  <2>1. Len(d) - n = Len(b) + 5
    BY <1>2, <1>8, <1>10
  <2> QED
    BY <2>1
<1>15. l = SerializeInt(Len(d))
  OBVIOUS
<1>16. r = ((l \o m) \o k) \o e
  BY <1>6, <1>11, Zenon
<1> HIDE DEF l, m, k
<1> DEFINE f == l \o m
           q == k \o e
           u == f \o k
<1>17. f \in Seq(Bytes) /\ Len(f) = n
  <2>1. f \in Seq(Bytes) /\ Len(f) = Len(l) + Len(m)
    BY <1>12, <1>13, BytesConcat, Zenon
  <2> QED
    BY <1>2, <1>12, <1>13, <2>1
<1>18. q \in Seq(Bytes) /\ Len(q) = Len(b) + 5
  <2>1. q \in Seq(Bytes) /\ Len(q) = Len(k) + Len(e)
    BY <1>8, <1>13, BytesConcat, Zenon
  <2> QED
    BY <1>8, <1>13, <2>1
<1>19. f = l \o m /\ q = k \o e /\ u = f \o k
  OBVIOUS
<1>20. r = u \o e
  BY <1>16
<1> HIDE DEF f, q, u
<1>21. r = f \o q
  BY <1>8, <1>13, <1>17, <1>19, <1>20, ConcatIs, SMTT(60)
<1>22. r \in Seq(Bytes) /\ Len(r) = Len(d)
  <2>1. f \o q \in Seq(Bytes) /\ Len(f \o q) = Len(f) + Len(q)
    BY <1>17, <1>18, BytesConcat, Zenon
  <2> QED
    BY <1>2, <1>8, <1>10, <1>17, <1>18, <1>21, <2>1
<1>23. SubSeq(r, 1, 4) = SerializeInt(Len(r))
  <2> DEFINE v == m \o q
  <2>1. v \in Seq(Bytes)
    BY <1>12, <1>18, BytesConcat, Zenon
  <2>2. v = m \o q
    OBVIOUS
  <2> HIDE DEF v
  <2>3. f \o q = l \o v
    <3>1. l \in Seq(Bytes) /\ m \in Seq(Bytes) /\ q \in Seq(Bytes) /\ f = l \o m
      BY <1>12, <1>13, <1>18, <1>19
    <3> QED
      BY <2>2, <3>1, ConcatIs, SMTT(60)
  <2>4. SubSeq(l \o v, 1, Len(l)) = l
    BY <1>13, <2>1, CutFront
  <2> QED
    BY <1>13, <1>15, <1>21, <1>22, <2>3, <2>4
<1>24. SubSeq(r, n + 1, Len(r)) = q
  <2>1. SubSeq(f \o q, Len(f) + 1, Len(f \o q)) = q
    BY <1>17, <1>18, CutBack
  <2> QED
    BY <1>17, <1>21, <2>1
<1>25. q = Encoded(c.fields)
  <2> DEFINE w == k \o b
  <2>1. w = k \o b /\ e = b \o z
    BY DEF e
  <2> HIDE DEF w
  <2>2. w \o z = k \o e
    BY <1>3, <1>4, <1>13, <2>1, ConcatIs, SMTT(60)
  <2>3. Encoded(c.fields) = w \o z
    BY <1>7, <1>14, <2>1
  <2> QED
    BY <1>19, <2>2, <2>3
<1>26. IsPacket(c, r)
  BY <1>23, <1>24, <1>25 DEF IsPacket, n
<1> QED
  BY <1>22, <1>26 DEF r, d, n
-----------------------------------------------------------------------------
(* The buffer *)

\* What has been added and what is still to be added is the whole command, and there
\* is room for the terminator.
PacketInv ==
  /\ cmd \in Commands
  /\ str = [d |-> str.d, a |-> str.a] /\ str.d \in Seq(Bytes) /\ str.a \in Nat
  /\ todo \in Seq(Seq(Bytes))
  /\ str.d # <<>> => Len(str.d) + 1 <= str.a
  /\ pc = "build" => str.d \o FlattenSeq(todo) = Whole(cmd)
  /\ pc = "sent" => IsPacket(cmd, str.d)

LEMMA FieldKinds ==
  /\ \A n \in Seq(Chars) : LongField(n) \in Fields
  /\ \A n \in Seq(Chars), i \in Int : IntField(n, i) \in Fields
  /\ \A n \in Seq(Chars), v \in Seq(Chars) : StringField(n, v) \in Fields
  /\ \A n \in Seq(Chars), v \in Words \cup {Absent} : OptionalField(n, v) \in Seq(Fields)
<1>1. ASSUME NEW n \in Seq(Chars) PROVE LongField(n) \in Fields
  <2> DEFINE v == SerializeInt64(1)
  <2>1. v \in Seq(Bytes) /\ 1 \in Int
    BY LongBytes
  <2>2. LongField(n) = [type |-> 18, name |-> n, n |-> 1, value |-> v]
    BY TypeBytes DEF LongField
  <2>3. v = SerializeInt64(1)
    OBVIOUS
  <2> HIDE DEF v
  <2> QED
    BY <2>1, <2>2, <2>3 DEF Fields
<1>2. ASSUME NEW n \in Seq(Chars), NEW i \in Int PROVE IntField(n, i) \in Fields
  <2> DEFINE v == SerializeInt(i)
  <2>1. v \in Seq(Bytes)
    BY IntBytes
  <2>2. IntField(n, i) = [type |-> 16, name |-> n, n |-> i, value |-> v]
    BY TypeBytes DEF IntField
  <2>3. v = SerializeInt(i)
    OBVIOUS
  <2> HIDE DEF v
  <2> QED
    BY <2>1, <2>2, <2>3 DEF Fields
<1>3. ASSUME NEW n \in Seq(Chars), NEW v \in Seq(Chars) PROVE StringField(n, v) \in Fields
  <2>1. v \in Seq(Bytes)
    BY CharsAreBytes
  <2>2. StringField(n, v) = [type |-> 2, name |-> n, n |-> 0, value |-> v]
    BY TypeBytes DEF StringField
  <2> QED
    BY <2>1, <2>2 DEF Fields
<1>4. ASSUME NEW n \in Seq(Chars), NEW v \in Words \cup {Absent}
      PROVE  OptionalField(n, v) \in Seq(Fields)
  <2>1. CASE v = Absent
    BY <2>1 DEF OptionalField
  <2>2. CASE v # Absent
    <3>1. v \in Seq(Chars)
      BY <2>2, MiniBsonAssumption
    <3>2. OptionalField(n, v) = <<StringField(n, v)>>
      BY <2>2 DEF OptionalField
    <3>3. StringField(n, v) \in Fields
      BY <1>3, <3>1
    <3> QED
      BY <3>2, <3>3
  <2> QED
    BY <2>1, <2>2
<1> QED
  BY <1>1, <1>2, <1>3, <1>4

LEMMA CommandKinds ==
  /\ \A w \in Seq(Chars) : SimpleCommand(w) \in Commands
  /\ \A db, u \in Words, v, k, m \in Words \cup {Absent} :
       AuthenticateCommand(db, u, v, k, m) \in Commands
  /\ \A db \in Words, m \in Words \cup {Absent} :
       SaslStartCommand(db, m, <<1, 2, 3>>) \in Commands
  /\ \A db, p \in Words, i \in Int : SaslContinueCommand(db, i, p) \in Commands
<1>0. /\ \A b \in 1..11 : <<b>> \in Seq(Chars)
      /\ <<1, 36>> \in Seq(Chars) /\ <<63, 63>> \in Seq(Chars) /\ <<1, 2, 3>> \in Seq(Chars)
      /\ <<>> \in Seq(Chars)
      /\ \A db \in Seq(Chars) : db \o << 36 >> \in Seq(Chars)
  <2> DEFINE C == Chars
  <2>1. /\ \A b \in 1..11 : b \in C
        /\ 36 \in C /\ 63 \in C
    BY DEF Chars
  <2>2. 1 \in 1..11 /\ 2 \in 1..11 /\ 3 \in 1..11
    OBVIOUS
  <2>3. 1 \in C /\ 2 \in C /\ 3 \in C
    BY <2>1, <2>2
  <2> HIDE DEF C
  <2>4. \A b \in 1..11 : <<b>> \in Seq(C)
    BY <2>1
  <2>5. <<1, 36>> \in Seq(C) /\ <<63, 63>> \in Seq(C) /\ <<1, 2, 3>> \in Seq(C)
        /\ <<>> \in Seq(C)
    BY <2>1, <2>3
  <2>6. \A db \in Seq(C) : db \o << 36 >> \in Seq(C)
    BY <2>1
  <2> QED
    BY <2>4, <2>5, <2>6 DEF C
<1>1. \A b \in 1..11 : LongField(<<b>>) \in Fields
  BY <1>0, FieldKinds
<1>2. Words \subseteq Seq(Chars)
  BY MiniBsonAssumption
<1>3. ASSUME NEW w \in Seq(Chars) PROVE SimpleCommand(w) \in Commands
  <2>1. LongField(w) \in Fields
    BY FieldKinds
  <2>2. SimpleCommand(w) = [ns |-> <<1, 36>>, fields |-> <<LongField(w)>>]
    BY DEF SimpleCommand
  <2> QED
    BY <1>0, <2>1, <2>2 DEF Commands
<1>4. ASSUME NEW db \in Words, NEW u \in Words, NEW v \in Words \cup {Absent},
             NEW k \in Words \cup {Absent}, NEW m \in Words \cup {Absent}
      PROVE  AuthenticateCommand(db, u, v, k, m) \in Commands
  <2> DEFINE f1 == LongField(<< 2 >>)
             f2 == StringField(<< 3 >>, u)
             o1 == OptionalField(<< 4 >>, v)
             o2 == OptionalField(<< 5 >>, k)
             o3 == OptionalField(<< 6 >>, m)
  <2>1. f1 \in Fields
    BY <1>1
  <2>2. f2 \in Fields
    <3>1. << 3 >> \in Seq(Chars) /\ u \in Seq(Chars)
      BY <1>0, <1>2
    <3> QED
      BY <3>1, FieldKinds, Zenon
  <2>3. o1 \in Seq(Fields) /\ o2 \in Seq(Fields) /\ o3 \in Seq(Fields)
    <3>1. << 4 >> \in Seq(Chars) /\ << 5 >> \in Seq(Chars) /\ << 6 >> \in Seq(Chars)
      BY <1>0
    <3> QED
      BY <3>1, FieldKinds, Zenon
  <2>4. AuthenticateCommand(db, u, v, k, m)
          = [ns |-> db \o << 36 >>, fields |-> ((<<f1, f2>> \o o1) \o o2) \o o3]
    BY DEF AuthenticateCommand
  <2>5. db \o << 36 >> \in Seq(Chars)
    BY <1>0, <1>2
  <2> HIDE DEF f1, f2, o1, o2, o3
  <2>6. ((<<f1, f2>> \o o1) \o o2) \o o3 \in Seq(Fields)
    BY <2>1, <2>2, <2>3
  <2> QED
    BY <2>4, <2>5, <2>6 DEF Commands
<1>5. ASSUME NEW db \in Words, NEW m \in Words \cup {Absent}
      PROVE  SaslStartCommand(db, m, <<1, 2, 3>>) \in Commands
  <2> DEFINE v == IF m = Absent THEN <<63, 63>> ELSE m
             x == IF m = Absent THEN <<>> ELSE <<1, 2, 3>>
             f1 == LongField(<< 7 >>)
             f2 == StringField(<< 6 >>, v)
             f3 == StringField(<< 8 >>, x)
             f4 == LongField(<< 9 >>)
  <2>1. v \in Seq(Chars) /\ x \in Seq(Chars)
    BY <1>0, <1>2
  <2>2. f1 \in Fields /\ f4 \in Fields
    BY <1>1
  <2>3. SaslStartCommand(db, m, <<1, 2, 3>>) = [ns |-> db \o << 36 >>, fields |-> <<f1, f2, f3, f4>>]
    BY DEF SaslStartCommand
  <2>4. db \o << 36 >> \in Seq(Chars)
    BY <1>0, <1>2
  <2>5. f2 \in Fields /\ f3 \in Fields
    <3> HIDE DEF v, x
    <3>1. << 6 >> \in Seq(Chars) /\ << 8 >> \in Seq(Chars)
      BY <1>0
    <3> QED
      BY <2>1, <3>1, FieldKinds, Zenon
  <2> HIDE DEF f1, f2, f3, f4
  <2>6. <<f1, f2, f3, f4>> \in Seq(Fields)
    BY <2>2, <2>5
  <2> DEFINE n == db \o << 36 >>
             fs == <<f1, f2, f3, f4>>
  <2>7. n \in Seq(Chars) /\ fs \in Seq(Fields)
        /\ SaslStartCommand(db, m, <<1, 2, 3>>) = [ns |-> n, fields |-> fs]
    BY <2>3, <2>4, <2>6, Zenon
  <2> HIDE DEF n, fs
  <2> QED
    BY <2>7 DEF Commands
<1>6. ASSUME NEW db \in Words, NEW p \in Words, NEW i \in Int
      PROVE  SaslContinueCommand(db, i, p) \in Commands
  <2> DEFINE f1 == LongField(<< 10 >>)
             f2 == IntField(<< 11 >>, i)
             f3 == StringField(<< 8 >>, p)
  <2>1. f1 \in Fields
    BY <1>1
  <2>2. f2 \in Fields /\ f3 \in Fields
    <3>1. << 11 >> \in Seq(Chars) /\ << 8 >> \in Seq(Chars) /\ p \in Seq(Chars)
      BY <1>0, <1>2
    <3> QED
      BY <3>1, FieldKinds, Zenon
  <2>3. SaslContinueCommand(db, i, p) = [ns |-> db \o << 36 >>, fields |-> <<f1, f2, f3>>]
    BY DEF SaslContinueCommand
  <2>4. db \o << 36 >> \in Seq(Chars)
    BY <1>0, <1>2
  <2> HIDE DEF f1, f2, f3
  <2>5. <<f1, f2, f3>> \in Seq(Fields)
    BY <2>1, <2>2
  <2> QED
    BY <2>3, <2>4, <2>5 DEF Commands
<1> QED
  BY <1>3, <1>4, <1>5, <1>6

LEMMA CommandBegins ==
  ASSUME Command
  PROVE  \E c \in Commands : Begin(c)
<1>1. PICK w \in Words, v \in Optional, m \in Optional :
        \/ Begin(SimpleCommand(w))
        \/ \E u \in Words : Begin(AuthenticateCommand(w, u, v, v, m))
        \/ Begin(SaslStartCommand(w, m, <<1, 2, 3>>))
        \/ Begin(SaslContinueCommand(w, 300, w))
  BY Zenon DEF Command
<1>2. w \in Seq(Chars) /\ v \in Words \cup {Absent} /\ m \in Words \cup {Absent} /\ 300 \in Int
  BY MiniBsonAssumption DEF Optional
<1>3. /\ SimpleCommand(w) \in Commands
      /\ \A u \in Words : AuthenticateCommand(w, u, v, v, m) \in Commands
      /\ SaslStartCommand(w, m, <<1, 2, 3>>) \in Commands
      /\ SaslContinueCommand(w, 300, w) \in Commands
  BY <1>2, CommandKinds, Zenon
<1> QED
  BY <1>1, <1>3, Zenon

\* Adding to the buffer leaves room for the terminator (mcon_str_addl).
LEMMA AddlOK ==
  ASSUME NEW d \in Seq(Bytes), NEW a \in Nat, d # <<>> => Len(d) + 1 <= a, NEW b \in Seq(Bytes)
  PROVE  LET x == Addl([d |-> d, a |-> a], b)
         IN /\ x = [d |-> x.d, a |-> x.a] /\ x.d = d \o b /\ x.d \in Seq(Bytes) /\ x.a \in Nat
            /\ x.d # <<>> => Len(x.d) + 1 <= x.a
<1> DEFINE n == IF Len(d) + Len(b) > a - 1 THEN a + Len(b) + Prealloc ELSE a
           x == Addl([d |-> d, a |-> a], b)
           g == d \o b
<1>1. x = [d |-> g, a |-> n]
  BY DEF Addl
<1>2. g \in Seq(Bytes) /\ Len(g) = Len(d) + Len(b) /\ Len(d) \in Nat /\ Len(b) \in Nat
  BY BytesConcat
<1>3. Prealloc \in Nat \ {0}
  BY MiniBsonAssumption
<1>4. d = <<>> => Len(d) = 0
  OBVIOUS
<1>5. g = d \o b
  OBVIOUS
<1> HIDE DEF g, x
<1>6. n \in Nat /\ Len(g) + 1 <= n
  BY <1>2, <1>3, <1>4
<1> HIDE DEF n
<1>7. x = [d |-> x.d, a |-> x.a] /\ x.d = g /\ x.a = n
  BY <1>1
<1> QED
  BY <1>2, <1>5, <1>6, <1>7 DEF x
LEMMA EmptyBuffer ==
  ASSUME NEW s, s = [d |-> <<>>, a |-> 0]
  PROVE  s = [d |-> s.d, a |-> s.a] /\ s.d = <<>> /\ s.d \in Seq(Bytes) /\ s.a \in Nat
OBVIOUS

LEMMA PacketBegins == Init => PacketInv
<1> SUFFICES ASSUME Init PROVE PacketInv
  OBVIOUS
<1>1. pc = "idle" /\ cmd = SimpleCommand(<<>>) /\ str = [d |-> <<>>, a |-> 0] /\ todo = <<>>
  BY DEF Init
<1>2. <<>> \in Seq(Chars) /\ todo \in Seq(Seq(Bytes))
  BY <1>1
<1>3. cmd \in Commands
  BY <1>1, <1>2, CommandKinds
<1>4. str = [d |-> str.d, a |-> str.a] /\ str.d = <<>> /\ str.d \in Seq(Bytes) /\ str.a \in Nat
  BY <1>1, EmptyBuffer
<1> QED
  BY <1>1, <1>2, <1>3, <1>4 DEF PacketInv

LEMMA PacketStep == PacketInv /\ [Next]_vars => PacketInv'
<1> SUFFICES ASSUME PacketInv, [Next]_vars PROVE PacketInv'
  OBVIOUS
<1>0. /\ cmd \in Commands
      /\ str = [d |-> str.d, a |-> str.a] /\ str.d \in Seq(Bytes) /\ str.a \in Nat
      /\ todo \in Seq(Seq(Bytes))
      /\ str.d # <<>> => Len(str.d) + 1 <= str.a
      /\ pc = "build" => str.d \o FlattenSeq(todo) = Whole(cmd)
      /\ pc = "sent" => IsPacket(cmd, str.d)
  BY DEF PacketInv
<1>1. CASE Command
  <2>1. PICK c \in Commands : Begin(c)
    BY <1>1, CommandBegins
  <2>2. pc' = "build" /\ cmd' = c /\ str' = [d |-> <<>>, a |-> 0]
    BY <2>1 DEF Begin
  <2>3. todo' \in Seq(Seq(Bytes)) /\ FlattenSeq(todo') = Whole(c)
    BY <2>1, BegunIs
  <2>4. /\ str' = [d |-> str'.d, a |-> str'.a] /\ str'.d = <<>> /\ str'.d \in Seq(Bytes)
        /\ str'.a \in Nat
    BY <2>2, EmptyBuffer
  <2>5. FlattenSeq(todo') \in Seq(Bytes)
    BY <2>3, FlattenType
  <2>6. <<>> \o FlattenSeq(todo') = FlattenSeq(todo')
    BY <2>5, ConcatEmpty
  <2>7. str'.d \o FlattenSeq(todo') = Whole(cmd')
    BY <2>2, <2>3, <2>4, <2>6, Zenon
  <2> QED
    BY <2>2, <2>3, <2>4, <2>7 DEF PacketInv
<1>2. CASE AddPiece
  <2> DEFINE b == Head(todo)
             t == Tail(todo)
             d == str.d
             g == d \o b
             f == FlattenSeq(t)
  <2>1. /\ pc = "build" /\ todo # <<>> /\ str' = Addl(str, b) /\ todo' = t
        /\ pc' = pc /\ cmd' = cmd
    BY <1>2 DEF AddPiece
  <2>2. b \in Seq(Bytes) /\ t \in Seq(Seq(Bytes)) /\ FlattenSeq(todo) = b \o f
    BY <1>0, <2>1, FlattenHead
  <2>3. f \in Seq(Bytes)
    BY <2>2, FlattenType
  <2>4. /\ str' = [d |-> str'.d, a |-> str'.a] /\ str'.d = g /\ str'.d \in Seq(Bytes)
        /\ str'.a \in Nat /\ (str'.d # <<>> => Len(str'.d) + 1 <= str'.a)
    <3> DEFINE x == Addl([d |-> str.d, a |-> str.a], b)
    <3>1. /\ x = [d |-> x.d, a |-> x.a] /\ x.d = str.d \o b /\ x.d \in Seq(Bytes) /\ x.a \in Nat
          /\ x.d # <<>> => Len(x.d) + 1 <= x.a
      BY <1>0, <2>2, AddlOK
    <3>2. str' = x
      BY <1>0, <2>1
    <3> HIDE DEF x
    <3> QED
      BY <3>1, <3>2
  <2>5. g \o f = Whole(cmd)
    <3> DEFINE y == b \o f
    <3>1. d \o y = Whole(cmd)
      BY <1>0, <2>1, <2>2
    <3>2. g = d \o b /\ y = b \o f /\ d \in Seq(Bytes)
      BY <1>0
    <3> HIDE DEF g, y, d, b, f
    <3>3. g \o f = d \o y
      BY <2>2, <2>3, <3>2, ConcatIs, SMTT(60)
    <3> QED
      BY <3>1, <3>3
  <2>6. str'.d \o FlattenSeq(todo') = Whole(cmd')
    BY <2>1, <2>4, <2>5
  <2> HIDE DEF b, t, d, g, f
  <2> QED
    BY <1>0, <2>1, <2>2, <2>4, <2>6 DEF PacketInv
<1>3. CASE Send
  <2> DEFINE r == Lengths(str.d, HeaderLength(cmd.ns))
  <2>1. pc = "build" /\ todo = <<>> /\ pc' = "sent" /\ str' = [str EXCEPT !.d = r]
        /\ cmd' = cmd /\ todo' = todo
    BY <1>3 DEF Send
  <2>2. str.d = Whole(cmd)
    <3>1. FlattenSeq(todo) = <<>>
      BY <2>1, FlattenNone
    <3>2. str.d \o <<>> = str.d
      BY <1>0, ConcatEmpty
    <3> QED
      BY <1>0, <2>1, <3>1, <3>2
  <2>3. r \in Seq(Bytes) /\ Len(r) = Len(str.d) /\ IsPacket(cmd, r)
    BY <1>0, <2>2, LengthsOK
  <2> HIDE DEF r
  <2>4. str' = [d |-> str'.d, a |-> str'.a] /\ str'.d = r /\ str'.a = str.a
    BY <1>0, <2>1
  <2>5. r # <<>> => str.d # <<>>
    BY <1>0, <2>3
  <2>6. str'.d # <<>> => Len(str'.d) + 1 <= str'.a
    BY <1>0, <2>3, <2>4, <2>5
  <2> QED
    BY <1>0, <2>1, <2>3, <2>4, <2>6 DEF PacketInv
<1>4. CASE \E d \in Documents : Reply(d)
  <2>1. pc' = "got" /\ str' = [d |-> <<>>, a |-> 0] /\ cmd' = SimpleCommand(<<>>) /\ todo' = todo
    BY <1>4 DEF Reply
  <2>2. cmd' \in Commands
    <3>1. <<>> \in Seq(Chars)
      OBVIOUS
    <3> QED
      BY <2>1, <3>1, CommandKinds
  <2>3. /\ str' = [d |-> str'.d, a |-> str'.a] /\ str'.d = <<>> /\ str'.d \in Seq(Bytes)
        /\ str'.a \in Nat
    BY <2>1, EmptyBuffer
  <2> QED
    BY <1>0, <2>1, <2>2, <2>3 DEF PacketInv
<1>5. ASSUME cmd' = cmd, str' = str, todo' = todo, pc' = pc \/ pc' \notin {"build", "sent"}
      PROVE  PacketInv'
  BY <1>5 DEF PacketInv
<1>6. CASE \E n \in FieldNames, t \in Searchable : StartFind(n, t)
  BY <1>5, <1>6 DEF StartFind
<1>7. CASE FindStep
  BY <1>5, <1>7 DEF FindStep
<1>8. CASE \E t \in {Type.STRING, Type.INT32} : StartArray(t)
  BY <1>5, <1>8 DEF StartArray
<1>9. CASE ArrayStep
  BY <1>5, <1>9 DEF ArrayStep
<1>10. CASE Done
  BY <1>5, <1>10 DEF Done
<1>11. CASE UNCHANGED vars
  BY <1>5, <1>11 DEF vars
<1> QED
  BY <1>1, <1>2, <1>3, <1>4, <1>6, <1>7, <1>8, <1>9, <1>10, <1>11 DEF Next

LEMMA PacketHolds == PacketInv => PacketWellFormed
BY DEF PacketInv, PacketWellFormed, IsPacket

\* However a command's pieces make the buffer grow (mcon_str_addl), there is room for
\* the terminator behind them, and the packet that is sent starts with its length and
\* ends in one whole document of the fields that were meant, in their order.
THEOREM PacketsAreWhole == Spec => []PacketWellFormed
<1>1. Init => PacketInv
  BY PacketBegins
<1>2. PacketInv /\ [Next]_vars => PacketInv'
  BY PacketStep
<1>3. PacketInv => PacketWellFormed
  BY PacketHolds
<1> QED
  BY <1>1, <1>2, <1>3, PTL DEF Spec
=============================================================================
