------------------------ MODULE ReadPreferenceProofs ------------------------
(***************************************************************************)
(* What the selection pipeline of ReadPreference returns, for registries   *)
(* and requests of any size.                                               *)
(***************************************************************************)
EXTENDS ReadPreference, FiniteSetTheorems, FunctionTheorems, WellFoundedInduction, TLAPS

-----------------------------------------------------------------------------
(* Collections *)

\* Induction over the naturals, for a set.
LEMMA InductionOnNat ==
  ASSUME NEW T, 0 \in T, \A n \in Nat : n \in T => n + 1 \in T
  PROVE  \A n \in Nat : n \in T
<1> SUFFICES ASSUME \E n \in Nat : n \notin T PROVE FALSE
  OBVIOUS
<1> DEFINE R == OpToRel(<, Nat)
           U == {n \in Nat : n \notin T}
<1>1. IsWellFoundedOn(R, Nat)
  BY NatLessThanWellFounded
<1>2. \A x, y \in Nat : x < y => <<x, y>> \in R
  BY DEF OpToRel
<1>3. U \subseteq Nat /\ U # {}
  OBVIOUS
<1> HIDE DEF R, U
<1>4. PICK n \in U : \A m \in U : ~(<<m, n>> \in R)
  BY <1>1, <1>3, WFMin
<1>5. n \in Nat /\ n \notin T /\ n # 0
  BY <1>4 DEF U
<1>6. n - 1 \in Nat /\ n - 1 < n /\ n = (n - 1) + 1
  BY <1>5
<1>7. n - 1 \in T
  BY <1>2, <1>4, <1>5, <1>6 DEF U
<1> QED
  BY <1>5, <1>6, <1>7

\* Keep goes through s once: it has the value of the loop at the end of s.
LEMMA KeepLoop ==
  ASSUME NEW s, Len(s) \in Nat, NEW S
  PROVE  \E g : /\ g[0] = <<>>
                /\ \A n \in Nat : n + 1 \in 1..Len(s) =>
                     g[n + 1] = IF s[n + 1] \in S THEN Append(g[n], s[n + 1]) ELSE g[n]
                /\ Keep(s, S) = g[Len(s)]
<1> DEFINE Loop(g, n) ==
             g = [i \in 0..n |->
                    IF i = 0 THEN <<>>
                    ELSE IF s[i] \in S THEN Append(g[i - 1], s[i]) ELSE g[i - 1]]
           T == {n \in Nat : \E g : Loop(g, n)}
<1>1. 0 \in T
  <2>1. Loop([i \in 0..0 |-> <<>>], 0)
    OBVIOUS
  <2> QED
    BY <2>1
<1>2. ASSUME NEW n \in Nat, n \in T PROVE n + 1 \in T
  <2>1. PICK g : Loop(g, n)
    BY <1>2
  <2> DEFINE h == [i \in 0..(n + 1) |->
                     IF i = 0 THEN <<>>
                     ELSE IF s[i] \in S THEN Append(g[i - 1], s[i]) ELSE g[i - 1]]
  <2>2. \A i \in 0..n : g[i] = IF i = 0 THEN <<>>
                              ELSE IF s[i] \in S THEN Append(g[i - 1], s[i]) ELSE g[i - 1]
    BY <2>1, Zenon
  <2>3. \A i \in 0..n : h[i] = g[i]
    <3> TAKE i \in 0..n
    <3>1. i \in 0..(n + 1)
      OBVIOUS
    <3> QED
      BY <2>2, <3>1, Zenon
  <2>4. \A i \in 0..(n + 1) : h[i] = IF i = 0 THEN <<>>
                                    ELSE IF s[i] \in S THEN Append(h[i - 1], s[i]) ELSE h[i - 1]
    <3> TAKE i \in 0..(n + 1)
    <3>1. i # 0 => i - 1 \in 0..n
      OBVIOUS
    <3>2. i # 0 => h[i - 1] = g[i - 1]
      BY <2>3, <3>1
    <3>3. h[i] = IF i = 0 THEN <<>>
                 ELSE IF s[i] \in S THEN Append(g[i - 1], s[i]) ELSE g[i - 1]
      BY Zenon
    <3> QED
      BY <3>2, <3>3, Zenon
  <2>5. h = [i \in 0..(n + 1) |-> IF i = 0 THEN <<>>
                                 ELSE IF s[i] \in S THEN Append(h[i - 1], s[i]) ELSE h[i - 1]]
    <3>1. h = [i \in 0..(n + 1) |-> h[i]]
      OBVIOUS
    <3> HIDE DEF h
    <3> QED
      BY <2>4, <3>1, Zenon
  <2> QED
    <3>1. n + 1 \in Nat
      OBVIOUS
    <3> HIDE DEF h
    <3>2. \E f : Loop(f, n + 1)
      BY <2>5, Zenon
    <3> QED
      BY <3>1, <3>2, Zenon
<1>3. \E g : Loop(g, Len(s))
  <2> HIDE DEF T
  <2>1. Len(s) \in T
    BY <1>1, <1>2, InductionOnNat
  <2> QED
    BY <2>1 DEF T
<1>4. Loop(CHOOSE g : Loop(g, Len(s)), Len(s))
  BY <1>3
<1>5. PICK g : Loop(g, Len(s)) /\ Keep(s, S) = g[Len(s)]
  BY <1>4 DEF Keep
<1>6. g[0] = <<>> /\ \A n \in Nat : n + 1 \in 1..Len(s) =>
        g[n + 1] = IF s[n + 1] \in S THEN Append(g[n], s[n + 1]) ELSE g[n]
  <2>1. \A i \in 0..Len(s) : g[i] = IF i = 0 THEN <<>>
                       ELSE IF s[i] \in S THEN Append(g[i - 1], s[i]) ELSE g[i - 1]
    BY <1>5, Zenon
  <2>2. ASSUME NEW n \in Nat, n + 1 \in 1..Len(s)
        PROVE  n + 1 \in 0..Len(s) /\ n + 1 # 0 /\ (n + 1) - 1 = n
    BY <2>2
  <2>3. 0 \in 0..Len(s)
    OBVIOUS
  <2>4. g[0] = <<>>
    BY <2>1, <2>3, Zenon
  <2>5. ASSUME NEW n \in Nat, n + 1 \in 1..Len(s)
        PROVE  g[n + 1] = IF s[n + 1] \in S THEN Append(g[n], s[n + 1]) ELSE g[n]
    <3>1. n + 1 \in 0..Len(s) /\ n + 1 # 0 /\ (n + 1) - 1 = n
      BY <2>2, <2>5
    <3>2. g[n + 1] = IF n + 1 = 0 THEN <<>>
            ELSE IF s[n + 1] \in S THEN Append(g[(n + 1) - 1], s[n + 1]) ELSE g[(n + 1) - 1]
      BY <2>1, <3>1, Zenon
    <3> QED
      BY <3>1, <3>2, Zenon
  <2> QED
    BY <2>4, <2>5
<1> QED
  BY <1>5, <1>6, Zenon

\* What Keep keeps, it takes from growing places of s, and it leaves out no place
\* that has an element of S.
Places(k, s, n, S, h) ==
  /\ h \in [1..Len(k) -> 1..n]
  /\ \A i \in 1..Len(k) : k[i] = s[h[i]] /\ k[i] \in S
  /\ \A i, j \in 1..Len(k) : i < j => h[i] < h[j]
  /\ \A m \in 1..n : s[m] \in S => \E i \in 1..Len(k) : h[i] = m

LEMMA PlacesNext ==
  ASSUME NEW X, NEW s \in Seq(X), NEW n \in Nat, n + 1 \in 1..Len(s), NEW S,
         NEW k \in Seq(X), NEW h, Places(k, s, n, S, h)
  PROVE  LET l == IF s[n + 1] \in S THEN Append(k, s[n + 1]) ELSE k
         IN l \in Seq(X) /\ \E f : Places(l, s, n + 1, S, f)
<1>1. CASE s[n + 1] \notin S
  <2>1. Places(k, s, n + 1, S, h)
    BY <1>1 DEF Places
  <2> QED
    BY <1>1, <2>1
<1>2. CASE s[n + 1] \in S
  <2> DEFINE l == Append(k, s[n + 1])
             f == [i \in 1..Len(l) |-> IF i = Len(l) THEN n + 1 ELSE h[i]]
  <2>1. l \in Seq(X) /\ Len(l) = Len(k) + 1 /\ l[Len(l)] = s[n + 1]
        /\ \A i \in 1..Len(k) : l[i] = k[i]
    OBVIOUS
  <2>2. f[Len(l)] = n + 1 /\ \A i \in 1..Len(k) : f[i] = h[i] /\ f[i] \in 1..n
    BY <2>1 DEF Places
  <2>3. f \in [1..Len(l) -> 1..(n + 1)]
    <3>1. \A i \in 1..Len(l) : i # Len(l) => i \in 1..Len(k)
      BY <2>1
    <3>2. \A i \in 1..Len(k) : h[i] \in 1..(n + 1)
      BY DEF Places
    <3>3. \A i \in 1..Len(l) : (IF i = Len(l) THEN n + 1 ELSE h[i]) \in 1..(n + 1)
      BY <3>1, <3>2
    <3> QED
      BY <3>3, Zenon
  <2>4. \A i \in 1..Len(l) : i \in 1..Len(k) \/ i = Len(l)
    BY <2>1
  <2> HIDE DEF l, f
  <2>5. \A i \in 1..Len(l) : l[i] = s[f[i]] /\ l[i] \in S
    BY <1>2, <2>1, <2>2, <2>4 DEF Places
  <2>6. ASSUME NEW i \in 1..Len(l), NEW j \in 1..Len(l), i < j PROVE f[i] < f[j]
    <3>1. i \in 1..Len(k)
      BY <2>1, <2>4, <2>6
    <3>2. CASE j \in 1..Len(k)
      BY <2>2, <2>6, <3>1, <3>2 DEF Places
    <3>3. CASE j = Len(l)
      BY <2>2, <3>1, <3>3
    <3> QED
      BY <2>4, <3>2, <3>3
  <2>7. ASSUME NEW m \in 1..(n + 1), s[m] \in S PROVE \E i \in 1..Len(l) : f[i] = m
    <3>1. CASE m = n + 1
      BY <2>1, <2>2, <3>1
    <3>2. CASE m \in 1..n
      <4>1. PICK i \in 1..Len(k) : h[i] = m
        BY <2>7, <3>2 DEF Places
      <4> QED
        BY <2>1, <2>2, <4>1
    <3> QED
      BY <3>1, <3>2
  <2>8. Places(l, s, n + 1, S, f)
    BY <2>3, <2>5, <2>6, <2>7 DEF Places
  <2>9. l = IF s[n + 1] \in S THEN Append(k, s[n + 1]) ELSE k
    BY <1>2 DEF l
  <2> QED
    BY <2>1, <2>8, <2>9
<1> QED
  BY <1>1, <1>2

LEMMA KeepPlaces ==
  ASSUME NEW X, NEW s \in Seq(X), NEW S
  PROVE  Keep(s, S) \in Seq(X) /\ \E h : Places(Keep(s, S), s, Len(s), S, h)
<1>1. Len(s) \in Nat
  OBVIOUS
<1>2. PICK g : /\ g[0] = <<>>
               /\ \A n \in Nat : n + 1 \in 1..Len(s) =>
                    g[n + 1] = IF s[n + 1] \in S THEN Append(g[n], s[n + 1]) ELSE g[n]
               /\ Keep(s, S) = g[Len(s)]
  BY <1>1, KeepLoop, Zenon
<1> DEFINE T == {n \in Nat : n <= Len(s) =>
                    g[n] \in Seq(X) /\ \E h : Places(g[n], s, n, S, h)}
<1>3. 0 \in T
  <2>1. Places(<<>>, s, 0, S, [i \in 1..0 |-> 0])
    BY DEF Places
  <2>2. <<>> \in Seq(X)
    OBVIOUS
  <2> HIDE DEF Places
  <2>3. g[0] \in Seq(X) /\ \E h : Places(g[0], s, 0, S, h)
    BY <1>2, <2>1, <2>2
  <2> QED
    BY <2>3
<1>4. ASSUME NEW n \in Nat, n \in T PROVE n + 1 \in T
  <2> SUFFICES ASSUME n + 1 <= Len(s)
               PROVE  g[n + 1] \in Seq(X) /\ \E h : Places(g[n + 1], s, n + 1, S, h)
    OBVIOUS
  <2>1. n + 1 \in 1..Len(s) /\ n <= Len(s)
    OBVIOUS
  <2>2. g[n] \in Seq(X) /\ \E h : Places(g[n], s, n, S, h)
    BY <1>4, <2>1
  <2>3. g[n + 1] = IF s[n + 1] \in S THEN Append(g[n], s[n + 1]) ELSE g[n]
    BY <1>2, <2>1
  <2> QED
    BY <2>1, <2>2, <2>3, PlacesNext
<1> HIDE DEF T
<1>5. Len(s) \in T
  BY <1>3, <1>4, InductionOnNat
<1> QED
  BY <1>2, <1>5 DEF T

\* The elements of a sequence.
LEMMA Elements ==
  ASSUME NEW X, NEW s \in Seq(X)
  PROVE  /\ ToSet(s) = {s[i] : i \in 1..Len(s)}
         /\ ToSet(s) \subseteq X
         /\ s \in Seq(ToSet(s))
         /\ s = <<>> <=> ToSet(s) = {}
<1>1. DOMAIN s = 1..Len(s)
  OBVIOUS
<1>2. ToSet(s) = {s[i] : i \in 1..Len(s)}
  BY <1>1 DEF ToSet
<1>3. \A i \in 1..Len(s) : s[i] \in ToSet(s) /\ s[i] \in X
  BY <1>2
<1>4. ToSet(s) \subseteq X
  BY <1>2, <1>3
<1>5. s \in Seq(ToSet(s))
  BY <1>3
<1>6. s = <<>> <=> ToSet(s) = {}
  <2>1. s = <<>> => ToSet(s) = {}
    <3>1. s = <<>> => 1..Len(s) = {}
      OBVIOUS
    <3> QED
      BY <1>2, <3>1
  <2>2. s # <<>> => 1 \in 1..Len(s)
    OBVIOUS
  <2> QED
    BY <1>3, <2>1, <2>2
<1> QED
  BY <1>2, <1>4, <1>5, <1>6

Distinct(s) == \A i, j \in 1..Len(s) : s[i] = s[j] => i = j

\* Keep keeps the elements of S, and none more often than s has it.
LEMMA KeepSet ==
  ASSUME NEW X, NEW s \in Seq(X), NEW S
  PROVE  /\ Keep(s, S) \in Seq(X)
         /\ ToSet(Keep(s, S)) = ToSet(s) \cap S
         /\ Distinct(s) => Distinct(Keep(s, S))
<1> DEFINE k == Keep(s, S)
<1>1. k \in Seq(X) /\ \E h : Places(k, s, Len(s), S, h)
  BY KeepPlaces
<1> HIDE DEF k
<1>2. PICK h : Places(k, s, Len(s), S, h)
  BY <1>1
<1>3. ToSet(k) = {k[i] : i \in 1..Len(k)} /\ ToSet(s) = {s[i] : i \in 1..Len(s)}
  BY <1>1, Elements
<1>4. ToSet(k) \subseteq ToSet(s) \cap S
  BY <1>2, <1>3 DEF Places
<1>5. ToSet(s) \cap S \subseteq ToSet(k)
  <2> SUFFICES ASSUME NEW m \in 1..Len(s), s[m] \in S PROVE s[m] \in ToSet(k)
    BY <1>3
  <2>1. PICK i \in 1..Len(k) : h[i] = m
    BY <1>2 DEF Places
  <2> QED
    BY <1>2, <1>3, <2>1 DEF Places
<1>6. ASSUME Distinct(s) PROVE Distinct(k)
  <2> SUFFICES ASSUME NEW i \in 1..Len(k), NEW j \in 1..Len(k), k[i] = k[j] PROVE i = j
    BY DEF Distinct
  <2>1. h[i] \in 1..Len(s) /\ h[j] \in 1..Len(s) /\ s[h[i]] = s[h[j]]
    BY <1>2 DEF Places
  <2>2. h[i] = h[j]
    BY <1>6, <2>1 DEF Distinct
  <2>3. ~(i < j) /\ ~(j < i)
    BY <1>2, <2>1, <2>2 DEF Places
  <2> QED
    BY <1>1, <2>3
<1> QED
  BY <1>1, <1>4, <1>5, <1>6 DEF k

\* FlattenSeq puts the sequences behind one another.
LEMMA FlattenLoop ==
  ASSUME NEW ss, Len(ss) \in Nat \ {0}
  PROVE  \E g : /\ g[1] = ss[1]
                /\ \A n \in Nat \ {0} : n + 1 \in 1..Len(ss) => g[n + 1] = g[n] \o ss[n + 1]
                /\ FlattenSeq(ss) = g[Len(ss)]
<1> DEFINE Loop(g, n) == g = [i \in 1..n |-> IF i = 1 THEN ss[i] ELSE g[i - 1] \o ss[i]]
           T == {n \in Nat : \E g : Loop(g, n)}
<1>1. 0 \in T
  <2>1. Loop([i \in 1..0 |-> <<>>], 0)
    OBVIOUS
  <2> QED
    BY <2>1
<1>2. ASSUME NEW n \in Nat, n \in T PROVE n + 1 \in T
  <2>1. PICK g : Loop(g, n)
    BY <1>2
  <2> DEFINE h == [i \in 1..(n + 1) |-> IF i = 1 THEN ss[i] ELSE g[i - 1] \o ss[i]]
  <2>2. \A i \in 1..n : g[i] = IF i = 1 THEN ss[i] ELSE g[i - 1] \o ss[i]
    BY <2>1, Zenon
  <2>3. \A i \in 1..n : h[i] = g[i]
    <3> TAKE i \in 1..n
    <3>1. i \in 1..(n + 1)
      OBVIOUS
    <3> QED
      BY <2>2, <3>1, Zenon
  <2>4. \A i \in 1..(n + 1) : h[i] = IF i = 1 THEN ss[i] ELSE h[i - 1] \o ss[i]
    <3> TAKE i \in 1..(n + 1)
    <3>1. i # 1 => i - 1 \in 1..n
      OBVIOUS
    <3>2. i # 1 => h[i - 1] = g[i - 1]
      BY <2>3, <3>1
    <3>3. h[i] = IF i = 1 THEN ss[i] ELSE g[i - 1] \o ss[i]
      BY Zenon
    <3> QED
      BY <3>2, <3>3, Zenon
  <2>5. h = [i \in 1..(n + 1) |-> IF i = 1 THEN ss[i] ELSE h[i - 1] \o ss[i]]
    <3>1. h = [i \in 1..(n + 1) |-> h[i]]
      OBVIOUS
    <3> HIDE DEF h
    <3> QED
      BY <2>4, <3>1, Zenon
  <2> QED
    <3>1. n + 1 \in Nat
      OBVIOUS
    <3> HIDE DEF h
    <3>2. \E f : Loop(f, n + 1)
      BY <2>5, Zenon
    <3> QED
      BY <3>1, <3>2, Zenon
<1>3. \E g : Loop(g, Len(ss))
  <2> HIDE DEF T
  <2>1. Len(ss) \in T
    BY <1>1, <1>2, InductionOnNat
  <2> QED
    BY <2>1 DEF T
<1>4. Loop(CHOOSE g : Loop(g, Len(ss)), Len(ss))
  BY <1>3
<1>5. PICK g : Loop(g, Len(ss)) /\ FlattenSeq(ss) = g[Len(ss)]
  BY <1>4 DEF FlattenSeq
<1>6. \A i \in 1..Len(ss) : g[i] = IF i = 1 THEN ss[i] ELSE g[i - 1] \o ss[i]
  BY <1>5, Zenon
<1>7. g[1] = ss[1]
  <2>1. 1 \in 1..Len(ss)
    OBVIOUS
  <2> QED
    BY <1>6, <2>1, Zenon
<1>8. ASSUME NEW n \in Nat \ {0}, n + 1 \in 1..Len(ss) PROVE g[n + 1] = g[n] \o ss[n + 1]
  <2>1. n + 1 # 1 /\ (n + 1) - 1 = n
    OBVIOUS
  <2>2. g[n + 1] = IF n + 1 = 1 THEN ss[n + 1] ELSE g[(n + 1) - 1] \o ss[n + 1]
    BY <1>6, <1>8, Zenon
  <2> QED
    BY <2>1, <2>2, Zenon
<1> QED
  BY <1>5, <1>7, <1>8, Zenon

LEMMA ConcatSet ==
  ASSUME NEW X, NEW s \in Seq(X), NEW t \in Seq(X)
  PROVE  s \o t \in Seq(X) /\ ToSet(s \o t) = ToSet(s) \cup ToSet(t)
<1>1. s \o t \in Seq(X) /\ Len(s \o t) = Len(s) + Len(t)
  OBVIOUS
<1>2. /\ ToSet(s \o t) = {(s \o t)[i] : i \in 1..Len(s \o t)}
      /\ ToSet(s) = {s[i] : i \in 1..Len(s)} /\ ToSet(t) = {t[i] : i \in 1..Len(t)}
  BY <1>1, Elements
<1>3. ASSUME NEW i \in 1..Len(s \o t) PROVE (s \o t)[i] \in ToSet(s) \cup ToSet(t)
  <2>1. CASE i <= Len(s)
    BY <1>2, <2>1
  <2>2. CASE i > Len(s)
    <3>1. i - Len(s) \in 1..Len(t) /\ (s \o t)[i] = t[i - Len(s)]
      BY <1>1, <2>2
    <3> QED
      BY <1>2, <3>1
  <2> QED
    BY <1>1, <2>1, <2>2
<1>4. \A i \in 1..Len(s) : s[i] = (s \o t)[i] /\ i \in 1..Len(s \o t)
  BY <1>1
<1>5. \A i \in 1..Len(t) : t[i] = (s \o t)[i + Len(s)] /\ i + Len(s) \in 1..Len(s \o t)
  BY <1>1
<1> QED
  BY <1>1, <1>2, <1>3, <1>4, <1>5

LEMMA FlattenElements ==
  ASSUME NEW X, NEW ss \in Seq(Seq(X)), ss # <<>>
  PROVE  /\ FlattenSeq(ss) \in Seq(X)
         /\ ToSet(FlattenSeq(ss)) = UNION {ToSet(ss[j]) : j \in 1..Len(ss)}
<1>1. Len(ss) \in Nat \ {0}
  OBVIOUS
<1>2. PICK g : /\ g[1] = ss[1]
               /\ \A n \in Nat \ {0} : n + 1 \in 1..Len(ss) => g[n + 1] = g[n] \o ss[n + 1]
               /\ FlattenSeq(ss) = g[Len(ss)]
  BY <1>1, FlattenLoop, Zenon
<1> DEFINE Upto(n) == UNION {ToSet(ss[j]) : j \in 1..n}
           T == {n \in Nat : n + 1 <= Len(ss) =>
                   g[n + 1] \in Seq(X) /\ ToSet(g[n + 1]) = Upto(n + 1)}
<1>3. 0 \in T
  <2>1. ss[1] \in Seq(X) /\ Upto(1) = ToSet(ss[1])
    BY <1>1
  <2> QED
    BY <1>2, <2>1
<1>4. ASSUME NEW n \in Nat, n \in T PROVE n + 1 \in T
  <2> SUFFICES ASSUME (n + 1) + 1 <= Len(ss)
               PROVE  /\ g[(n + 1) + 1] \in Seq(X)
                      /\ ToSet(g[(n + 1) + 1]) = Upto((n + 1) + 1)
    OBVIOUS
  <2> DEFINE m == n + 1
  <2>1. m \in Nat \ {0} /\ m + 1 \in 1..Len(ss) /\ n + 1 <= Len(ss)
    OBVIOUS
  <2>2. g[m] \in Seq(X) /\ ToSet(g[m]) = Upto(m)
    BY <1>4, <2>1
  <2> HIDE DEF m
  <2>3. ss[m + 1] \in Seq(X) /\ g[m + 1] = g[m] \o ss[m + 1]
    <3>1. ss[m + 1] \in Seq(X)
      BY <2>1
    <3>2. g[m + 1] = g[m] \o ss[m + 1]
      BY <1>2, <2>1, Zenon
    <3> QED
      BY <3>1, <3>2
  <2>4. g[m + 1] \in Seq(X) /\ ToSet(g[m + 1]) = ToSet(g[m]) \cup ToSet(ss[m + 1])
    BY <2>2, <2>3, ConcatSet
  <2>5. 1..(m + 1) = (1..m) \cup {m + 1}
    BY <2>1
  <2>6. Upto(m + 1) = Upto(m) \cup ToSet(ss[m + 1])
    BY <2>5
  <2> QED
    BY <2>2, <2>4, <2>6 DEF m
<1> HIDE DEF T
<1>5. Len(ss) - 1 \in T
  <2>1. Len(ss) - 1 \in Nat
    BY <1>1
  <2> QED
    BY <1>3, <1>4, <2>1, InductionOnNat
<1>6. (Len(ss) - 1) + 1 = Len(ss)
  BY <1>1
<1>7. g[Len(ss)] \in Seq(X) /\ ToSet(g[Len(ss)]) = Upto(Len(ss))
  <2>1. (Len(ss) - 1) + 1 <= Len(ss)
    BY <1>1
  <2> HIDE DEF Upto
  <2>2. /\ g[(Len(ss) - 1) + 1] \in Seq(X)
        /\ ToSet(g[(Len(ss) - 1) + 1]) = Upto((Len(ss) - 1) + 1)
    BY <1>5, <2>1, Zenon DEF T
  <2> QED
    BY <1>6, <2>2
<1> QED
  BY <1>2, <1>7, Zenon

\* A sorted collection has the same elements, as often as before.
LEMMA SortedElements ==
  ASSUME NEW X, NEW s \in Seq(X), NEW rp, NEW t \in Sorted(s, rp)
  PROVE  /\ t \in Seq(X)
         /\ ToSet(t) = ToSet(s)
         /\ Distinct(s) => Distinct(t)
         /\ \A i \in 1..(Len(t) - 1) : MayPrecede(t[i], t[i + 1], rp)
<1>1. PICK p \in Bijection(1..Len(s), 1..Len(s)) : t = [i \in 1..Len(s) |-> s[p[i]]]
  BY DEF Sorted
<1>2. /\ p \in [1..Len(s) -> 1..Len(s)]
      /\ \A i, j \in 1..Len(s) : p[i] = p[j] => i = j
      /\ \A j \in 1..Len(s) : \E i \in 1..Len(s) : p[i] = j
  BY DEF Bijection, Injection, Surjection, IsInjective
<1>3. t \in Seq(X) /\ Len(t) = Len(s) /\ \A i \in 1..Len(s) : t[i] = s[p[i]]
  <2>1. \A i \in 1..Len(s) : s[p[i]] \in X
    BY <1>2
  <2>2. Len(s) \in Nat
    OBVIOUS
  <2>3. t \in [1..Len(s) -> X] /\ \A i \in 1..Len(s) : t[i] = s[p[i]]
    BY <1>1, <2>1, Zenon
  <2> QED
    BY <2>2, <2>3
<1>4. ToSet(t) = {t[i] : i \in 1..Len(s)} /\ ToSet(s) = {s[i] : i \in 1..Len(s)}
  <2>1. ToSet(t) = {t[i] : i \in 1..Len(t)} /\ ToSet(s) = {s[i] : i \in 1..Len(s)}
    BY <1>3, Elements
  <2> QED
    BY <1>3, <2>1, Zenon
<1>5. ToSet(t) = ToSet(s)
  <2>1. \A i \in 1..Len(s) : t[i] \in ToSet(s)
    BY <1>2, <1>3, <1>4
  <2>2. \A j \in 1..Len(s) : \E i \in 1..Len(s) : t[i] = s[j]
    BY <1>2, <1>3
  <2> QED
    BY <1>4, <2>1, <2>2
<1>6. ASSUME Distinct(s) PROVE Distinct(t)
  <2> SUFFICES ASSUME NEW i \in 1..Len(s), NEW j \in 1..Len(s), t[i] = t[j] PROVE i = j
    BY <1>3 DEF Distinct
  <2>1. p[i] \in 1..Len(s) /\ p[j] \in 1..Len(s) /\ s[p[i]] = s[p[j]]
    BY <1>2, <1>3
  <2>2. p[i] = p[j]
    BY <1>6, <2>1 DEF Distinct
  <2> QED
    BY <1>2, <2>2
<1>7. \A i \in 1..(Len(t) - 1) : MayPrecede(t[i], t[i + 1], rp)
  BY DEF Sorted
<1> QED
  BY <1>3, <1>5, <1>6, <1>7
-----------------------------------------------------------------------------
(* What is in the collection *)

LEMMA Given ==
  ASSUME registry \in Registries, request \in Requests
  PROVE  /\ registry \in Seq(InRegistry)
         /\ InRegistry = {registry[i] : i \in 1..Len(registry)}
         /\ \A i, j \in 1..Len(registry) : registry[i].hash = registry[j].hash => i = j
         /\ \A c \in InRegistry : /\ c.ping \in Nat /\ c.type \in DOMAIN NodeValue
                                  /\ c.tags \in Seq(ToSet(c.tags))
         /\ request.servers \in Seq(ToSet(request.servers)) /\ request.servers # <<>>
         /\ request.tagsets \in Seq(ToSet(request.tagsets))
         /\ \A k \in 1..Len(request.tagsets) :
              request.tagsets[k] \in Seq(ToSet(request.tagsets[k]))
<1>1. /\ IsList(registry) /\ \A i, j \in DOMAIN registry : registry[i].hash = registry[j].hash => i = j
      /\ \A c \in ToSet(registry) : c.ping \in Nat /\ c.type \in DOMAIN NodeValue /\ IsList(c.tags)
      /\ IsList(request.servers) /\ request.servers # <<>>
      /\ IsList(request.tagsets) /\ \A t \in ToSet(request.tagsets) : IsList(t)
  BY ReadPreferenceAssumption
<1>2. registry \in Seq(InRegistry)
  BY <1>1 DEF IsList, InRegistry
<1>3. DOMAIN registry = 1..Len(registry) /\ InRegistry = {registry[i] : i \in 1..Len(registry)}
  BY <1>2, Elements DEF InRegistry
<1>4. request.tagsets \in Seq(ToSet(request.tagsets))
  BY <1>1 DEF IsList
<1>5. \A k \in 1..Len(request.tagsets) : request.tagsets[k] \in ToSet(request.tagsets)
  BY <1>4
<1> QED
  BY <1>1, <1>2, <1>3, <1>4, <1>5 DEF IsList, InRegistry

TypeInv ==
  /\ registry \in Registries /\ request \in Requests
  /\ col \in Seq(InRegistry)

\* Those the first function leaves over.
Collected == {c \in InRegistry : c.hash.pid = MyPid /\ c.type \in CollectTypes(FindType(request))}

LEMMA CollectedOnly ==
  ASSUME registry \in Registries, request \in Requests
  PROVE  LET t == FilterConnections(registry, CollectTypes(FindType(request)))
         IN t \in Seq(InRegistry) /\ ToSet(t) = Collected /\ Distinct(t)
<1> DEFINE S == {c \in ToSet(registry) : c.hash.pid = MyPid /\ c.type \in CollectTypes(FindType(request))}
<1>1. registry \in Seq(InRegistry) /\ Distinct(registry)
  BY Given DEF Distinct
<1>2. /\ Keep(registry, S) \in Seq(InRegistry) /\ ToSet(Keep(registry, S)) = ToSet(registry) \cap S
      /\ Distinct(Keep(registry, S))
  <2> HIDE DEF S
  <2> QED
    BY <1>1, KeepSet
<1>3. ToSet(registry) \cap S = Collected
  BY DEF Collected, InRegistry
<1> QED
  BY <1>2, <1>3 DEF FilterConnections

LEMMA LimitedOnly ==
  ASSUME registry \in Registries, request \in Requests,
         col \in Seq(InRegistry), ToSet(col) = Collected
  PROVE  LET t == IF request.type = "REPLSET" THEN ByReplicasetName(col, request.rs)
                  ELSE BySeed(col, request.servers)
         IN t \in Seq(InRegistry) /\ ToSet(t) = Candidates
            /\ (request.type = "REPLSET" /\ Distinct(col) => Distinct(t))
<1>1. CASE request.type = "REPLSET"
  <2> DEFINE S == {c \in ToSet(col) : c.hash.rs # Null /\ (request.rs = Null \/ c.hash.rs = request.rs)}
  <2>1. /\ Keep(col, S) \in Seq(InRegistry) /\ ToSet(Keep(col, S)) = ToSet(col) \cap S
        /\ Distinct(col) => Distinct(Keep(col, S))
    <3> HIDE DEF S
    <3> QED
      BY KeepSet
  <2>2. ToSet(col) \cap S = Candidates
    BY <1>1 DEF Candidates, Collected
  <2> QED
    BY <1>1, <2>1, <2>2 DEF ByReplicasetName
<1>2. CASE request.type # "REPLSET"
  <2> DEFINE S(j) == {c \in ToSet(col) : c.hash = HashOf(request.servers[j])}
             n == Len(request.servers)
             ss == [j \in 1..n |-> Keep(col, S(j))]
  <2>1. n \in Nat \ {0}
    BY Given
  <2>2. ASSUME NEW j \in 1..n
        PROVE  Keep(col, S(j)) \in Seq(InRegistry) /\ ToSet(Keep(col, S(j))) = S(j)
    <3>1. S(j) \subseteq ToSet(col)
      OBVIOUS
    <3>2. \A U : Keep(col, U) \in Seq(InRegistry) /\ ToSet(Keep(col, U)) = ToSet(col) \cap U
      BY KeepSet
    <3> HIDE DEF S
    <3>3. Keep(col, S(j)) \in Seq(InRegistry) /\ ToSet(Keep(col, S(j))) = ToSet(col) \cap S(j)
      BY <3>2, Zenon
    <3> QED
      BY <3>1, <3>3
  <2>3. ss \in Seq(Seq(InRegistry)) /\ Len(ss) = n /\ \A j \in 1..n : ToSet(ss[j]) = S(j)
    <3>1. ss \in [1..n -> Seq(InRegistry)] /\ \A j \in 1..n : ss[j] = Keep(col, S(j))
      BY <2>2, Zenon
    <3> HIDE DEF ss, S, n
    <3> QED
      BY <2>1, <2>2, <3>1
  <2>4. FlattenSeq(ss) \in Seq(InRegistry) /\ ToSet(FlattenSeq(ss)) = UNION {ToSet(ss[j]) : j \in 1..n}
    <3> HIDE DEF ss, S, n
    <3>1. ss # <<>>
      BY <2>1, <2>3
    <3> QED
      BY <2>3, <3>1, FlattenElements
  <2>5. UNION {ToSet(ss[j]) : j \in 1..n} = UNION {S(j) : j \in 1..n}
    <3>1. \A j \in 1..n : ToSet(ss[j]) = S(j)
      BY <2>3
    <3> HIDE DEF ss, S, n
    <3> QED
      BY <3>1
  <2>6. UNION {S(j) : j \in 1..n} = Candidates
    BY <1>2 DEF Candidates, Collected
  <2> QED
    BY <1>2, <2>4, <2>5, <2>6 DEF BySeed
<1> QED
  BY <1>1, <1>2

\* Clients without credentials share the manager only with their like: the
\* filter lets every connection pass for them.
AnonymousApart ==
  \A r \in Registries, q \in Requests :
    q.servers[1].cred = Null => \A c \in ToSet(r) : c.hash.cred = Null

LEMMA CredentialsOnly ==
  ASSUME AnonymousApart, TypeInv, ToSet(col) = Candidates
  PROVE  LET t == ByCredentials(col, request.servers[1].cred)
         IN t \in Seq(InRegistry) /\ ToSet(t) = Mine /\ (Distinct(col) => Distinct(t))
<1> DEFINE cred == request.servers[1].cred
           S == {c \in ToSet(col) : cred = Null \/ c.hash.cred = cred}
<1>1. /\ Keep(col, S) \in Seq(InRegistry) /\ ToSet(Keep(col, S)) = ToSet(col) \cap S
      /\ Distinct(col) => Distinct(Keep(col, S))
  <2> HIDE DEF S
  <2> QED
    BY KeepSet DEF TypeInv
<1>2. \A c \in InRegistry : cred = Null => c.hash.cred = Null
  BY DEF AnonymousApart, TypeInv, InRegistry
<1>3. ToSet(col) \cap S = {c \in Candidates : c.hash.cred = cred}
  <2>1. Candidates \subseteq InRegistry
    BY DEF Candidates
  <2> QED
    BY <1>2, <2>1
<1>4. {c \in Candidates : c.hash.cred = cred} = Mine
  BY DEF Mine
<1> QED
  BY <1>1, <1>3, <1>4 DEF ByCredentials

\* What a round of the loop over the tagsets keeps.
LEMMA TagsetOnly ==
  ASSUME TypeInv, NEW tags, NEW rp
  PROVE  LET t == ByTagset(col, tags, rp)
         IN /\ t \in Seq(InRegistry)
            /\ ToSet(t) = {c \in ToSet(col) : \/ rp = "PRIMARY_PREFERRED" /\ c.type = "PRIMARY"
                                              \/ MatchesTags(c, tags)}
            /\ Distinct(col) => Distinct(t)
<1> DEFINE S == {c \in ToSet(col) : \/ rp = "PRIMARY_PREFERRED" /\ c.type = "PRIMARY"
                                    \/ MatchesTags(c, tags)}
<1>1. S \subseteq ToSet(col)
  OBVIOUS
<1> HIDE DEF S
<1>2. /\ Keep(col, S) \in Seq(InRegistry) /\ ToSet(Keep(col, S)) = ToSet(col) \cap S
      /\ Distinct(col) => Distinct(Keep(col, S))
  BY KeepSet DEF TypeInv
<1> QED
  BY <1>1, <1>2 DEF ByTagset, S

\* What the cutoff leaves over.
LEMMA NearOnly ==
  ASSUME NEW X, NEW s \in Seq(X), NEW latency
  PROVE  LET t == NearestServers(s, latency)
         IN /\ t \in Seq(X)
            /\ ToSet(t) = {c \in ToSet(s) : c.ping <= CInt(s[1].ping + latency)}
<1> DEFINE S == {c \in ToSet(s) : c.ping <= CInt(s[1].ping + latency)}
<1>1. S \subseteq ToSet(s)
  OBVIOUS
<1> HIDE DEF S
<1>2. Keep(s, S) \in Seq(X) /\ ToSet(Keep(s, S)) = ToSet(s) \cap S
  BY KeepSet
<1> QED
  BY <1>1, <1>2 DEF NearestServers, S
-----------------------------------------------------------------------------
(* A connection that is returned is one the request is about *)

StageInv ==
  /\ stage = "limit" => ToSet(col) = Collected
  /\ stage = "credentials" => ToSet(col) = Candidates
  /\ stage = "tags" => ToSet(col) = Mine
  /\ stage \in {"sort", "near", "pick"} => ToSet(col) \subseteq Mine
  /\ stage = "done" => con \in Mine

MineInv == TypeInv /\ StageInv

\* The registry and the request stay, and with them what is promised.
LEMMA Unmoved ==
  ASSUME UNCHANGED <<registry, request>>
  PROVE  /\ InRegistry' = InRegistry /\ Collected' = Collected /\ Candidates' = Candidates
         /\ Mine' = Mine /\ Tagged' = Tagged /\ Promised' = Promised
         /\ LatencyFits' = LatencyFits /\ CutsAll' = CutsAll /\ NullCompared' = NullCompared
<1>1. InRegistry' = InRegistry /\ Collected' = Collected /\ Candidates' = Candidates
  BY DEF InRegistry, Collected, Candidates, FindType, IsRead
<1>2. Mine' = Mine
  BY <1>1 DEF Mine
<1>3. Tagged' = Tagged
  BY <1>2 DEF Tagged, FindType, Tagsets, IsRead
<1>4. Promised' = Promised
  BY <1>3 DEF Promised, Preferred
<1>5. (LatencyFits' <=> LatencyFits) /\ (CutsAll' <=> CutsAll) /\ (NullCompared' <=> NullCompared)
  BY <1>1, <1>3 DEF LatencyFits, CutsAll, NullCompared, MayPrecede
<1> QED
  BY <1>1, <1>2, <1>3, <1>4, <1>5 DEF LatencyFits, CutsAll, NullCompared

LEMMA MineInit == Init => MineInv
<1> SUFFICES ASSUME Init PROVE MineInv
  OBVIOUS
<1>1. registry \in Registries /\ request \in Requests /\ stage = "collect" /\ col = <<>>
  BY DEF Init
<1>2. col \in Seq(InRegistry)
  BY <1>1
<1> QED
  BY <1>1, <1>2 DEF MineInv, TypeInv, StageInv

LEMMA CollectMine ==
  ASSUME MineInv, Collect PROVE MineInv'
<1>1. UNCHANGED <<registry, request>> /\ stage' = "limit"
  BY DEF Collect, Goto
<1>2. col' \in Seq(InRegistry) /\ ToSet(col') = Collected
  BY CollectedOnly DEF Collect, MineInv, TypeInv
<1> QED
  BY <1>1, <1>2, Unmoved DEF MineInv, TypeInv, StageInv

LEMMA LimitMine ==
  ASSUME MineInv, Limit PROVE MineInv'
<1>1. UNCHANGED <<registry, request>> /\ stage' = "credentials"
  BY DEF Limit, Goto
<1>2. col' \in Seq(InRegistry) /\ ToSet(col') = Candidates
  BY LimitedOnly DEF Limit, MineInv, TypeInv, StageInv
<1> QED
  BY <1>1, <1>2, Unmoved DEF MineInv, TypeInv, StageInv

LEMMA CredentialsMine ==
  ASSUME AnonymousApart, MineInv, Credentials PROVE MineInv'
<1>1. UNCHANGED <<registry, request>>
  BY DEF Credentials, Goto
<1>2. CASE stage' = "crashed" /\ UNCHANGED col
  BY <1>1, <1>2, Unmoved DEF MineInv, TypeInv, StageInv
<1>3. CASE stage' \in {"sort", "tags"} /\ col' = ByCredentials(col, request.servers[1].cred)
  <2>1. col' \in Seq(InRegistry) /\ ToSet(col') = Mine
    BY <1>3, CredentialsOnly DEF Credentials, MineInv, StageInv
  <2> QED
    BY <1>1, <1>3, <2>1, Unmoved DEF MineInv, TypeInv, StageInv
<1> QED
  BY <1>2, <1>3 DEF Credentials, Goto

LEMMA TryTagsetMine ==
  ASSUME MineInv, TryTagset PROVE MineInv'
<1> DEFINE hit == ByTagset(col, Tagsets(request)[tagset], FindType(request))
<1>1. UNCHANGED <<registry, request>> /\ stage = "tags"
  BY DEF TryTagset, Goto
<1>2. hit \in Seq(InRegistry) /\ ToSet(hit) \subseteq Mine
  BY <1>1, TagsetOnly DEF MineInv, StageInv
<1>3. CASE stage' = "sort" /\ col' = hit
  BY <1>1, <1>2, <1>3, Unmoved DEF MineInv, TypeInv, StageInv
<1>4. CASE stage' = "tags" /\ UNCHANGED col
  BY <1>1, <1>4, Unmoved DEF MineInv, TypeInv, StageInv
<1>5. CASE stage' = "null" /\ col' = <<>>
  <2>1. <<>> \in Seq(InRegistry)
    OBVIOUS
  <2> QED
    BY <1>1, <1>5, <2>1, Unmoved DEF MineInv, TypeInv, StageInv
<1> QED
  BY <1>3, <1>4, <1>5 DEF TryTagset, Goto

LEMMA SortMine ==
  ASSUME MineInv, Sort PROVE MineInv'
<1>1. UNCHANGED <<registry, request>> /\ stage = "sort"
  BY DEF Sort, Goto
<1>2. CASE stage' = "null" /\ UNCHANGED col
  BY <1>1, <1>2, Unmoved DEF MineInv, TypeInv, StageInv
<1>3. CASE stage' = "near" /\ col' \in Sorted(col, request.rp)
  <2>1. col' \in Seq(InRegistry) /\ ToSet(col') = ToSet(col)
    BY <1>3, SortedElements DEF MineInv, TypeInv
  <2> QED
    BY <1>1, <1>3, <2>1, Unmoved DEF MineInv, TypeInv, StageInv
<1> QED
  BY <1>2, <1>3 DEF Sort, Goto

LEMMA NearMine ==
  ASSUME MineInv, Near PROVE MineInv'
<1>1. UNCHANGED <<registry, request>> /\ stage = "near" /\ stage' = "pick"
  BY DEF Near, Goto
<1>2. col' \in Seq(InRegistry) /\ ToSet(col') \subseteq ToSet(col)
  BY NearOnly DEF Near, MineInv, TypeInv
<1> QED
  BY <1>1, <1>2, Unmoved DEF MineInv, TypeInv, StageInv

\* The place that is drawn is one of the collection.
LEMMA PlaceInCollection ==
  ASSUME NEW X, NEW s \in Seq(X), s # <<>>, NEW rp
  PROVE  PickFrom(s, rp) \subseteq 1..Len(s)
<1>1. Len(s) \in Nat \ {0}
  OBVIOUS
<1> QED
  BY <1>1 DEF PickFrom

LEMMA PickMine ==
  ASSUME MineInv, Pick PROVE MineInv'
<1>1. UNCHANGED <<registry, request, col>> /\ stage = "pick"
  BY DEF Pick
<1>2. CASE stage' = "crashed"
  BY <1>1, <1>2, Unmoved DEF MineInv, TypeInv, StageInv
<1>3. CASE stage' = "done" /\ col # <<>>
  <2>1. PICK i \in PickFrom(col, request.rp) : con' = col[i]
    BY <1>3 DEF Pick
  <2>2. i \in 1..Len(col) /\ ToSet(col) = {col[j] : j \in 1..Len(col)}
    BY <1>3, PlaceInCollection, Elements DEF MineInv, TypeInv
  <2>3. con' \in Mine
    BY <1>1, <2>1, <2>2 DEF MineInv, StageInv
  <2> QED
    BY <1>1, <1>3, <2>3, Unmoved DEF MineInv, TypeInv, StageInv
<1> QED
  BY <1>2, <1>3 DEF Pick

LEMMA MineNext ==
  ASSUME AnonymousApart, MineInv, [Next]_vars PROVE MineInv'
<1>1. CASE UNCHANGED vars
  BY <1>1, Unmoved DEF vars, MineInv, TypeInv, StageInv
<1> QED
  BY <1>1, CollectMine, LimitMine, CredentialsMine, TryTagsetMine, SortMine, NearMine, PickMine
     DEF Next

\* A connection that is returned was registered by this process, for the set or
\* the servers and with the credentials of the request, whatever else the list
\* holds.
THEOREM ReturnsMineOnly == ASSUME AnonymousApart PROVE Spec => []ReturnsMine
<1>1. Init => MineInv
  BY MineInit
<1>2. MineInv /\ [Next]_vars => MineInv'
  BY MineNext
<1>3. MineInv => ReturnsMine
  BY DEF MineInv, StageInv, ReturnsMine
<1> QED
  BY <1>1, <1>2, <1>3, PTL DEF Spec
-----------------------------------------------------------------------------
(* The tagsets *)

\* No tag is given twice, neither for a server nor in a tagset.
TagsDistinct ==
  /\ \A r \in Registries : \A c \in ToSet(r) : Distinct(c.tags)
  /\ \A q \in Requests : \A k \in 1..Len(q.tagsets) : Distinct(q.tagsets[k])

\* Then the count of the pairs that match is the number of tags exactly if each
\* tag is matched.
LEMMA MatchesIsHas ==
  ASSUME NEW c, NEW X, c.tags \in Seq(X), NEW Y, NEW tags \in Seq(Y),
         Distinct(c.tags), Distinct(tags)
  PROVE  MatchesTags(c, tags) <=> HasTags(c, tags)
<1> DEFINE m == Len(tags)
           n == Len(c.tags)
           P == {p \in (1..m) \X (1..n) : tags[p[1]] = c.tags[p[2]]}
           I == {i \in 1..m : \E j \in 1..n : tags[i] = c.tags[j]}
           f == [p \in P |-> p[1]]
<1>1. m \in Nat /\ n \in Nat
  OBVIOUS
<1>2. f \in Bijection(P, I)
  <2>1. \A p \in P : p[1] \in I
    OBVIOUS
  <2>2. f \in [P -> I]
    BY <2>1
  <2>3. ASSUME NEW p \in P, NEW q \in P, f[p] = f[q] PROVE p = q
    <3>1. p[1] = q[1] /\ c.tags[p[2]] = c.tags[q[2]]
      BY <2>3
    <3>2. p[2] = q[2]
      BY <3>1 DEF Distinct
    <3>3. p = <<p[1], p[2]>> /\ q = <<q[1], q[2]>>
      OBVIOUS
    <3> QED
      BY <3>1, <3>2, <3>3
  <2>4. ASSUME NEW i \in I PROVE \E p \in P : f[p] = i
    <3>1. PICK j \in 1..n : tags[i] = c.tags[j]
      OBVIOUS
    <3>2. <<i, j>> \in P
      BY <3>1
    <3> QED
      BY <3>2
  <2> HIDE DEF f, P, I
  <2> QED
    BY <2>2, <2>3, <2>4 DEF Bijection, Injection, Surjection, IsInjective
<1>3. IsFiniteSet(1..m) /\ Cardinality(1..m) = m /\ I \subseteq 1..m
  <2>1. I \subseteq 1..m
    OBVIOUS
  <2> HIDE DEF m, I
  <2>2. IsFiniteSet(1..m)
    BY <1>1, FS_Interval
  <2>3. Cardinality(1..m) = IF 1 > m THEN 0 ELSE m - 1 + 1
    BY <1>1, FS_Interval
  <2>4. Cardinality(1..m) = m
    BY <1>1, <2>3
  <2> QED
    BY <2>1, <2>2, <2>4
<1>4. IsFiniteSet(I) /\ (Cardinality(I) = m <=> I = 1..m)
  <2> HIDE DEF I
  <2>1. IsFiniteSet(I) /\ (Cardinality(I) = Cardinality(1..m) => I = 1..m)
    BY <1>3, FS_Subset
  <2> QED
    BY <1>3, <2>1
<1>5. Cardinality(P) = Cardinality(I)
  <2>1. ExistsBijection(I, P)
    <3>1. ExistsBijection(P, I)
      BY <1>2 DEF ExistsBijection
    <3> HIDE DEF P, I
    <3> QED
      BY <3>1, Fun_ExistsBijSymmetric
  <2> HIDE DEF P, I
  <2> QED
    BY <1>4, <2>1, FS_Bijection
<1>6. ToSet(tags) = {tags[i] : i \in 1..m} /\ ToSet(c.tags) = {c.tags[j] : j \in 1..n}
  BY Elements
<1>7. I = 1..m <=> HasTags(c, tags)
  BY <1>6 DEF HasTags
<1> QED
  BY <1>4, <1>5, <1>7 DEF MatchesTags
-----------------------------------------------------------------------------
(* The draw *)

\* A connection, as far as the sort and the cutoff look at it.
Ranked(X) == \A c \in X : c.ping \in Nat /\ c.type \in DOMAIN NodeValue

LEMMA PrecedesTransitive ==
  ASSUME NEW X, Ranked(X), NEW a \in X, NEW b \in X, NEW c \in X, NEW rp,
         MayPrecede(a, b, rp), MayPrecede(b, c, rp)
  PROVE  MayPrecede(a, c, rp)
<1>1. \A d \in X : d.ping \in Nat /\ NodeValue[d.type] \in Nat
  BY DEF Ranked, NodeValue
<1> QED
  BY <1>1 DEF MayPrecede

\* What holds of neighbours in a sorted collection holds of any two.
LEMMA SortedThroughout ==
  ASSUME NEW X, Ranked(X), NEW s \in Seq(X), NEW rp,
         \A i \in 1..(Len(s) - 1) : MayPrecede(s[i], s[i + 1], rp)
  PROVE  \A i, j \in 1..Len(s) : i < j => MayPrecede(s[i], s[j], rp)
<1> SUFFICES ASSUME NEW i \in 1..Len(s)
             PROVE  \A j \in 1..Len(s) : i < j => MayPrecede(s[i], s[j], rp)
  OBVIOUS
<1> DEFINE T == {d \in Nat : i + d + 1 \in 1..Len(s) => MayPrecede(s[i], s[i + d + 1], rp)}
<1>1. 0 \in T
  <2>1. i + 0 + 1 \in 1..Len(s) => i \in 1..(Len(s) - 1)
    OBVIOUS
  <2>2. i + 0 + 1 = i + 1
    OBVIOUS
  <2> HIDE DEF MayPrecede
  <2> QED
    BY <2>1, <2>2
<1>2. ASSUME NEW d \in Nat, d \in T PROVE d + 1 \in T
  <2> SUFFICES ASSUME i + (d + 1) + 1 \in 1..Len(s)
               PROVE  MayPrecede(s[i], s[i + (d + 1) + 1], rp)
    OBVIOUS
  <2> DEFINE k == i + d + 1
  <2>1. k \in 1..(Len(s) - 1) /\ k \in 1..Len(s) /\ k + 1 \in 1..Len(s) /\ i + (d + 1) + 1 = k + 1
    OBVIOUS
  <2>2. MayPrecede(s[i], s[k], rp)
    BY <1>2, <2>1
  <2> HIDE DEF k
  <2>3. MayPrecede(s[k], s[k + 1], rp)
    BY <2>1
  <2>4. s[i] \in X /\ s[k] \in X /\ s[k + 1] \in X
    BY <2>1
  <2>5. MayPrecede(s[i], s[k + 1], rp)
    BY <2>2, <2>3, <2>4, PrecedesTransitive
  <2> QED
    BY <2>1, <2>5
<1> HIDE DEF T
<1>3. ASSUME NEW j \in 1..Len(s), i < j PROVE MayPrecede(s[i], s[j], rp)
  <2>1. j - i - 1 \in Nat /\ i + (j - i - 1) + 1 = j
    BY <1>3
  <2>2. j - i - 1 \in T
    BY <1>1, <1>2, <2>1, InductionOnNat
  <2>3. i + (j - i - 1) + 1 \in 1..Len(s) => MayPrecede(s[i], s[i + (j - i - 1) + 1], rp)
    BY <2>2 DEF T
  <2> QED
    BY <2>1, <2>3
<1> QED
  BY <1>3

\* The first of a sorted collection passes the cutoff and stays the first, and
\* what is left of the collection is still sorted.
LEMMA NearSorted ==
  ASSUME NEW X, Ranked(X), NEW s \in Seq(X), s # <<>>, NEW rp, NEW latency \in Nat,
         \A i, j \in 1..Len(s) : i < j => MayPrecede(s[i], s[j], rp),
         CInt(s[1].ping + latency) = s[1].ping + latency
  PROVE  LET t == NearestServers(s, latency)
         IN /\ t \in Seq(X) /\ t # <<>> /\ t[1] = s[1]
            /\ ToSet(t) = {c \in ToSet(s) : c.ping <= s[1].ping + latency}
            /\ \A i, j \in 1..Len(t) : i < j => MayPrecede(t[i], t[j], rp)
            /\ Distinct(s) => Distinct(t)
<1> DEFINE S == {c \in ToSet(s) : c.ping <= CInt(s[1].ping + latency)}
           t == Keep(s, S)
<1>1. 1 \in 1..Len(s) /\ s[1] \in X
  OBVIOUS
<1>2. s[1] \in ToSet(s) /\ ToSet(s) \subseteq X
  BY <1>1, Elements
<1>3. s[1] \in S
  BY <1>2 DEF Ranked
<1> HIDE DEF S
<1>4. t \in Seq(X) /\ \E h : Places(t, s, Len(s), S, h)
  BY KeepPlaces
<1>5. ToSet(t) = ToSet(s) \cap S /\ (Distinct(s) => Distinct(t))
  BY KeepSet
<1> HIDE DEF t
<1>6. PICK h : Places(t, s, Len(s), S, h)
  BY <1>4
<1>7. PICK i \in 1..Len(t) : h[i] = 1
  BY <1>1, <1>3, <1>6 DEF Places
<1>8. Len(t) \in Nat /\ 1 \in 1..Len(t)
  BY <1>4, <1>7
<1>9. i = 1
  <2>1. h[1] \in 1..Len(s) /\ (1 < i => h[1] < h[i])
    BY <1>6, <1>7, <1>8 DEF Places
  <2> QED
    BY <1>7, <2>1
<1>10. t # <<>> /\ t[1] = s[1]
  BY <1>4, <1>6, <1>7, <1>8, <1>9 DEF Places
<1>11. ASSUME NEW k \in 1..Len(t), NEW l \in 1..Len(t), k < l PROVE MayPrecede(t[k], t[l], rp)
  <2>1. h[k] \in 1..Len(s) /\ h[l] \in 1..Len(s) /\ h[k] < h[l] /\ t[k] = s[h[k]] /\ t[l] = s[h[l]]
    BY <1>6, <1>11 DEF Places
  <2> HIDE DEF MayPrecede
  <2> QED
    BY <2>1
<1>12. ToSet(s) \cap S = {c \in ToSet(s) : c.ping <= s[1].ping + latency}
  BY DEF S
<1> QED
  BY <1>4, <1>5, <1>10, <1>11, <1>12 DEF NearestServers, t, S

LEMMA OneAtMost ==
  ASSUME NEW S, IsFiniteSet(S), Cardinality(S) <= 1, NEW p \in S, NEW q \in S
  PROVE  p = q
<1>1. IsFiniteSet({p}) /\ Cardinality({p}) = 1
  BY FS_Singleton
<1>2. Cardinality({p}) <= Cardinality(S) /\ (Cardinality(S) = Cardinality({p}) => S = {p})
  BY FS_Subset
<1>3. Cardinality(S) \in Nat
  BY FS_CardinalityType
<1> QED
  BY <1>1, <1>2, <1>3

LEMMA ElementsFinite ==
  ASSUME NEW X, NEW s \in Seq(X)
  PROVE  IsFiniteSet(ToSet(s))
<1>1. IsFiniteSet(1..Len(s))
  BY FS_Interval
<1>2. s \in [1..Len(s) -> ToSet(s)] /\ \A c \in ToSet(s) : \E i \in 1..Len(s) : s[i] = c
  BY Elements
<1>3. s \in Surjection(1..Len(s), ToSet(s))
  BY <1>2 DEF Surjection
<1> QED
  BY <1>1, <1>3, FS_Surjection

\* All the places but the last, when only that one has p.
LEMMA AllButLast ==
  ASSUME NEW X, NEW t \in Seq(X), Distinct(t), t # <<>>
  PROVE  {t[i] : i \in 1..(Len(t) - 1)} = ToSet(t) \ {t[Len(t)]}
<1>1. Len(t) \in 1..Len(t) /\ ToSet(t) = {t[i] : i \in 1..Len(t)}
  BY Elements
<1>2. \A i \in 1..Len(t) : t[i] = t[Len(t)] <=> i = Len(t)
  BY <1>1 DEF Distinct
<1>3. 1..(Len(t) - 1) = {i \in 1..Len(t) : i # Len(t)}
  OBVIOUS
<1>4. {t[i] : i \in 1..(Len(t) - 1)} = {t[i] : i \in {j \in 1..Len(t) : j # Len(t)}}
  BY <1>3
<1> QED
  BY <1>1, <1>2, <1>4

\* The cutoff counts from the first connection, which is the nearest of those
\* with the preferred role; a primary that secondaryPreferred takes along stands
\* last.
LEMMA DrawIsPromised ==
  ASSUME LatencyFits, registry \in Registries, request \in Requests,
         NEW s \in Seq(InRegistry), ToSet(s) = Tagged, s # <<>>, Distinct(s),
         \A i \in 1..(Len(s) - 1) : MayPrecede(s[i], s[i + 1], request.rp),
         Roles(Tagged), Cardinality(Primaries(Tagged)) <= 1
  PROVE  LET t == NearestServers(s, request.latency)
         IN {t[i] : i \in PickFrom(t, request.rp)} = Promised
<1> DEFINE rp == request.rp
           latency == request.latency
           t == NearestServers(s, latency)
           a == s[1]
<1>1. Ranked(InRegistry)
  BY Given DEF Ranked
<1>2. 1 \in 1..Len(s) /\ ToSet(s) = {s[i] : i \in 1..Len(s)} /\ ToSet(s) \subseteq InRegistry
  BY Elements
<1>3. a \in Tagged /\ a \in InRegistry
  BY <1>2
<1>4. \A i, j \in 1..Len(s) : i < j => MayPrecede(s[i], s[j], rp)
  BY <1>1, SortedThroughout
<1>5. latency \in Nat /\ CInt(a.ping + latency) = a.ping + latency
  BY <1>3 DEF LatencyFits
<1>6. /\ t \in Seq(InRegistry) /\ t # <<>> /\ t[1] = a
      /\ ToSet(t) = {c \in Tagged : c.ping <= a.ping + latency}
      /\ \A i, j \in 1..Len(t) : i < j => MayPrecede(t[i], t[j], rp)
      /\ Distinct(t)
  <2>1. /\ t \in Seq(InRegistry) /\ t # <<>> /\ t[1] = a
        /\ ToSet(t) = {c \in ToSet(s) : c.ping <= a.ping + latency}
        /\ \A i, j \in 1..Len(t) : i < j => MayPrecede(t[i], t[j], rp)
        /\ Distinct(s) => Distinct(t)
    BY <1>1, <1>4, <1>5, NearSorted, Zenon
  <2> HIDE DEF t, a
  <2> QED
    BY <2>1
<1>7. \A c \in Tagged : c = a \/ MayPrecede(a, c, rp)
  <2> SUFFICES ASSUME NEW i \in 1..Len(s) PROVE s[i] = a \/ MayPrecede(a, s[i], rp)
    BY <1>2
  <2>1. i = 1 \/ 1 < i
    OBVIOUS
  <2> HIDE DEF MayPrecede
  <2> QED
    BY <1>2, <1>4, <2>1
<1>8. \A c \in Tagged : /\ c.ping \in Nat /\ c.type \in {"PRIMARY", "SECONDARY"}
                        /\ NodeValue[c.type] = IF c.type = "PRIMARY" THEN 2 ELSE 4
  <2>1. Tagged \subseteq InRegistry
    BY <1>2
  <2>2. \A c \in Tagged : c.ping \in Nat
    BY <1>1, <2>1 DEF Ranked
  <2>3. \A c \in Tagged : c.type \in {"PRIMARY", "SECONDARY"}
    BY DEF Roles
  <2>4. NodeValue["PRIMARY"] = 2 /\ NodeValue["SECONDARY"] = 4
    BY DEF NodeValue
  <2> QED
    BY <2>2, <2>3, <2>4
<1>9. \A p, q \in Tagged : p.type = "PRIMARY" /\ q.type = "PRIMARY" => p = q
  <2>1. IsFiniteSet(Tagged)
    BY ElementsFinite
  <2>2. Primaries(Tagged) \subseteq Tagged
    BY DEF Primaries
  <2>3. IsFiniteSet(Primaries(Tagged))
    BY <2>1, <2>2, FS_Subset
  <2>4. \A p, q \in Primaries(Tagged) : p = q
    BY <2>3, OneAtMost
  <2> QED
    BY <2>4 DEF Primaries
<1> HIDE DEF t, a
<1>10. ToSet(t) = {t[i] : i \in 1..Len(t)} /\ Len(t) \in Nat \ {0}
  <2>1. t \in Seq(InRegistry) /\ t # <<>>
    BY <1>6
  <2>2. ToSet(t) = {t[i] : i \in 1..Len(t)}
    BY <2>1, Elements
  <2>3. Len(t) \in Nat \ {0}
    BY <2>1
  <2> QED
    BY <2>2, <2>3
<1>11. ASSUME PickFrom(t, rp) = 1..Len(t)
       PROVE  {t[i] : i \in PickFrom(t, rp)} = ToSet(t)
  BY <1>10, <1>11, Zenon
<1>12. ASSUME \A c \in Tagged : a.ping <= c.ping, Preferred = Tagged
       PROVE  ToSet(t) = Promised
  <2>1. ASSUME NEW c \in Tagged
        PROVE  c.ping <= a.ping + latency <=> \A d \in Tagged : c.ping <= d.ping + latency
    BY <1>3, <1>5, <1>8, <1>12
  <2> QED
    BY <1>6, <1>12, <2>1 DEF Promised
<1> SUFFICES {t[i] : i \in PickFrom(t, rp)} = Promised
  BY DEF t
<1>13. CASE rp = "PRIMARY_PREFERRED" /\ a.type = "PRIMARY"
  <2>1. Preferred = {a}
    BY <1>3, <1>9, <1>13 DEF Preferred
  <2>2. Promised = {a}
    BY <1>3, <1>5, <1>8, <2>1 DEF Promised
  <2>3. PickFrom(t, rp) = 1..1
    BY <1>6, <1>13 DEF PickFrom
  <2>4. {t[i] : i \in 1..1} = {t[1]}
    OBVIOUS
  <2>5. {t[i] : i \in PickFrom(t, rp)} = {t[i] : i \in 1..1}
    BY <2>3, Zenon
  <2> QED
    BY <1>6, <2>2, <2>4, <2>5
<1>14. CASE rp = "PRIMARY_PREFERRED" /\ a.type # "PRIMARY"
  <2>1. \A c \in Tagged : c.type = "SECONDARY" /\ a.ping <= c.ping
    BY <1>3, <1>7, <1>8, <1>14 DEF MayPrecede
  <2>2. Preferred = Tagged
    BY <1>14, <2>1 DEF Preferred
  <2>3. PickFrom(t, rp) = 1..Len(t)
    BY <1>6, <1>14 DEF PickFrom
  <2> QED
    BY <1>12, <1>11, <2>1, <2>2, <2>3
<1>15. CASE rp = "SECONDARY_PREFERRED" /\ a.type = "PRIMARY"
  <2>1. \A c \in Tagged : c = a
    BY <1>3, <1>7, <1>8, <1>9, <1>15 DEF MayPrecede
  <2>2. Preferred = Tagged
    BY <1>15, <2>1 DEF Preferred
  <2>3. Len(t) = 1
    <3>1. \A i \in 1..Len(t) : t[i] = a
      BY <1>6, <1>10, <2>1
    <3>2. 1 \in 1..Len(t) /\ Len(t) \in 1..Len(t)
      BY <1>10
    <3>3. t[1] = t[Len(t)]
      BY <3>1, <3>2
    <3> QED
      BY <1>6, <3>2, <3>3 DEF Distinct
  <2>4. PickFrom(t, rp) = 1..Len(t)
    BY <1>15, <2>3 DEF PickFrom
  <2>5. \A c \in Tagged : a.ping <= c.ping
    BY <1>3, <1>8, <2>1
  <2> QED
    BY <1>12, <1>11, <2>2, <2>4, <2>5
<1>16. CASE rp = "SECONDARY_PREFERRED" /\ a.type # "PRIMARY"
  <2> DEFINE z == t[Len(t)]
  <2>1. a.type = "SECONDARY" /\ a \in Tagged
    BY <1>3, <1>8, <1>16
  <2>2. Preferred = {c \in Tagged : c.type = "SECONDARY"}
    BY <1>16, <2>1 DEF Preferred
  <2>3. \A c \in Preferred : a.ping <= c.ping
    BY <1>3, <1>7, <1>8, <1>16, <2>1, <2>2 DEF MayPrecede
  <2>4. Promised = {c \in ToSet(t) : c.type = "SECONDARY"}
    <3>1. ASSUME NEW c \in Preferred
          PROVE  c.ping <= a.ping + latency <=> \A d \in Preferred : c.ping <= d.ping + latency
      BY <1>5, <1>8, <2>1, <2>2, <2>3
    <3> QED
      BY <1>6, <2>2, <3>1 DEF Promised
  <2>5. \A i \in 1..Len(t) : t[i] \in Tagged
    BY <1>6, <1>10
  <2>6. ASSUME NEW i \in 1..Len(t), t[i].type = "PRIMARY" PROVE i = Len(t)
    <3> SUFFICES ASSUME i < Len(t) PROVE FALSE
      BY <1>10
    <3>1. Len(t) \in 1..Len(t)
      BY <1>10
    <3>2. MayPrecede(t[i], z, rp) /\ t[i] \in Tagged /\ z \in Tagged
      BY <1>6, <2>5, <3>1
    <3>3. z.type = "PRIMARY"
      BY <1>8, <1>16, <2>6, <3>2 DEF MayPrecede
    <3>4. t[i] = z
      BY <1>9, <2>6, <3>2, <3>3
    <3> QED
      BY <1>6, <3>1, <3>4 DEF Distinct
  <2>7. CASE z.type = "PRIMARY"
    <3>1. Len(t) > 1
      <4>1. Len(t) = 1 => z = a
        BY <1>6
      <4>2. Len(t) # 1
        BY <1>16, <2>7, <4>1
      <4>3. Len(t) \in Nat \ {0}
        BY <1>10
      <4>4. \A n \in Nat \ {0} : n # 1 => n > 1
        OBVIOUS
      <4> QED
        BY <4>2, <4>3, <4>4, Zenon
    <3>2. PickFrom(t, rp) = 1..(Len(t) - 1)
      BY <1>16, <2>7, <3>1 DEF PickFrom
    <3>3. {t[i] : i \in 1..(Len(t) - 1)} = ToSet(t) \ {z}
      BY <1>6, AllButLast
    <3>4. \A c \in ToSet(t) : c.type = "SECONDARY" <=> c # z
      BY <1>8, <1>9, <1>10, <2>5, <2>6, <2>7
    <3>5. {t[i] : i \in PickFrom(t, rp)} = {t[i] : i \in 1..(Len(t) - 1)}
      BY <3>2, Zenon
    <3> QED
      BY <2>4, <3>3, <3>4, <3>5
  <2>8. CASE z.type # "PRIMARY"
    <3>1. PickFrom(t, rp) = 1..Len(t)
      BY <1>16, <2>8 DEF PickFrom
    <3>2. \A c \in ToSet(t) : c.type = "SECONDARY"
      BY <1>8, <1>10, <2>5, <2>6, <2>8
    <3>3. {t[i] : i \in PickFrom(t, rp)} = ToSet(t)
      BY <1>11, <3>1
    <3> QED
      BY <2>4, <3>2, <3>3
  <2> QED
    BY <2>7, <2>8
<1>17. CASE rp \notin {"PRIMARY_PREFERRED", "SECONDARY_PREFERRED"}
  <2>1. \A c \in Tagged : a.ping <= c.ping
    BY <1>3, <1>7, <1>8, <1>17 DEF MayPrecede
  <2>2. \A c \in Tagged : c.type # Null
    BY <1>8, ReadPreferenceAssumption DEF NodeValue
  <2>3. Preferred = Tagged
    BY <1>17, <2>2 DEF Preferred
  <2>4. PickFrom(t, rp) = 1..Len(t)
    BY <1>17 DEF PickFrom
  <2> QED
    BY <1>12, <1>11, <2>1, <2>3, <2>4
<1> QED
  <2> HIDE DEF rp
  <2> QED
    BY <1>13, <1>14, <1>15, <1>16, <1>17, Zenon
-----------------------------------------------------------------------------
(* What is promised is drawn from, and a failure is honest *)

\* The connections the request may use that have the k-th tagset.
Carriers(k) ==
  {c \in Mine : \/ HasTags(c, Tagsets(request)[k])
                \/ FindType(request) = "PRIMARY_PREFERRED" /\ c.type = "PRIMARY"}

LEMMA TagsetsListed ==
  ASSUME registry \in Registries, request \in Requests
  PROVE  /\ Len(Tagsets(request)) \in Nat
         /\ Tagsets(request) # <<>> => Len(Tagsets(request)) # 0
         /\ \A k \in 1..Len(Tagsets(request)) :
              /\ Tagsets(request)[k] \in Seq(ToSet(Tagsets(request)[k]))
              /\ TagsDistinct => Distinct(Tagsets(request)[k])
<1>1. /\ request.tagsets \in Seq(ToSet(request.tagsets))
      /\ \A k \in 1..Len(request.tagsets) :
              request.tagsets[k] \in Seq(ToSet(request.tagsets[k]))
  BY Given
<1>2. CASE IsRead(request)
  <2>1. Tagsets(request) = request.tagsets
    BY <1>2 DEF Tagsets
  <2>2. Len(request.tagsets) \in Nat /\ (request.tagsets # <<>> => Len(request.tagsets) # 0)
    BY <1>1
  <2> QED
    BY <1>1, <2>1, <2>2 DEF TagsDistinct
<1>3. CASE ~IsRead(request)
  <2>1. Tagsets(request) = <<>>
    BY <1>3 DEF Tagsets
  <2> QED
    BY <2>1
<1> QED
  BY <1>2, <1>3

\* The tagset the loop stops at is the one whose carriers are meant.
LEMMA FirstTagset ==
  ASSUME NEW n \in 1..Len(Tagsets(request)), Tagsets(request) # <<>>, Carriers(n) # {},
         \A k \in 1..(n - 1) : Carriers(k) = {}
  PROVE  Tagged = Carriers(n)
<1> DEFINE hits == {k \in 1..Len(Tagsets(request)) : Carriers(k) # {}}
           first == {k \in hits : \A j \in hits : k <= j}
<1>1. n \in hits
  OBVIOUS
<1>2. \A k \in hits : n <= k
  OBVIOUS
<1>3. first = {n}
  BY <1>1, <1>2
<1>4. Tagged = UNION {Carriers(k) : k \in first}
  BY DEF Tagged, Carriers
<1> HIDE DEF first
<1>5. UNION {Carriers(k) : k \in {n}} = Carriers(n)
  OBVIOUS
<1> QED
  BY <1>3, <1>4, <1>5, Zenon

LEMMA NoTagset ==
  ASSUME Tagsets(request) # <<>>, \A k \in 1..Len(Tagsets(request)) : Carriers(k) = {}
  PROVE  Tagged = {}
<1> DEFINE hits == {k \in 1..Len(Tagsets(request)) : Carriers(k) # {}}
           first == {k \in hits : \A j \in hits : k <= j}
<1>1. Tagged = UNION {Carriers(k) : k \in first}
  BY DEF Tagged, Carriers
<1>2. first = {}
  OBVIOUS
<1>3. UNION {Carriers(k) : k \in {}} = {}
  OBVIOUS
<1> HIDE DEF first
<1> QED
  BY <1>1, <1>2, <1>3, Zenon

\* A round of the loop keeps the carriers of its tagset.
LEMMA RoundKeepsCarriers ==
  ASSUME TagsDistinct, TypeInv, ToSet(col) = Mine, NEW k \in 1..Len(Tagsets(request))
  PROVE  ToSet(ByTagset(col, Tagsets(request)[k], FindType(request))) = Carriers(k)
<1> DEFINE tags == Tagsets(request)[k]
<1>1. tags \in Seq(ToSet(tags)) /\ Distinct(tags)
  BY TagsetsListed DEF TypeInv
<1>2. \A c \in Mine : c.tags \in Seq(ToSet(c.tags)) /\ Distinct(c.tags)
  <2>1. Mine \subseteq InRegistry
    BY DEF Mine, Candidates
  <2>2. \A c \in InRegistry : c.tags \in Seq(ToSet(c.tags))
    BY Given DEF TypeInv
  <2>3. \A c \in InRegistry : Distinct(c.tags)
    BY DEF TagsDistinct, TypeInv, InRegistry
  <2> QED
    BY <2>1, <2>2, <2>3
<1> HIDE DEF tags
<1>3. \A c \in Mine : MatchesTags(c, tags) <=> HasTags(c, tags)
  BY <1>1, <1>2, MatchesIsHas
<1>4. ToSet(ByTagset(col, tags, FindType(request)))
        = {c \in Mine : \/ FindType(request) = "PRIMARY_PREFERRED" /\ c.type = "PRIMARY"
                        \/ MatchesTags(c, tags)}
  BY TagsetOnly
<1> QED
  BY <1>3, <1>4 DEF Carriers, tags

Fresh == {"collect", "limit", "credentials"}

TagInv ==
  /\ stage \in Fresh => tagset = 1
  /\ stage = "tags" => /\ Tagsets(request) # <<>> /\ tagset \in 1..Len(Tagsets(request))
                       /\ \A k \in 1..(tagset - 1) : Carriers(k) = {}
  /\ stage \in {"sort", "near"} => ToSet(col) = Tagged
  /\ stage = "near" =>
       col # <<>> /\ \A i \in 1..(Len(col) - 1) : MayPrecede(col[i], col[i + 1], request.rp)
  /\ request.type = "REPLSET" /\ stage \in {"limit", "credentials", "tags", "sort", "near"}
       => Distinct(col)
  /\ stage = "pick" => (col = <<>> <=> CutsAll)
  /\ stage = "null" => Tagged = {}
  /\ stage = "done" => ~CutsAll
  /\ stage = "crashed" => NullCompared \/ CutsAll
  /\ stage \in {"tags", "sort", "near", "pick", "null", "done"} => ~NullCompared
  /\ PickIsPromised

DrawInv == MineInv /\ TagInv

LEMMA CarriersUnmoved ==
  ASSUME UNCHANGED <<registry, request>>
  PROVE  \A k : Carriers(k)' = Carriers(k)
BY Unmoved DEF Carriers, Tagsets, FindType, IsRead

LEMMA DrawInit == Init => TagInv
BY DEF Init, TagInv, Fresh, PickIsPromised

LEMMA CollectDraw ==
  ASSUME DrawInv, Collect PROVE TagInv'
<1>1. UNCHANGED <<registry, request, tagset>> /\ stage = "collect" /\ stage' = "limit"
  BY DEF Collect, Goto
<1>2. Distinct(col')
  BY CollectedOnly DEF Collect, DrawInv, MineInv, TypeInv
<1>3. Distinct(col)'
  BY <1>2 DEF Distinct
<1> QED
  BY <1>1, <1>3 DEF DrawInv, TagInv, Fresh, PickIsPromised

LEMMA LimitDraw ==
  ASSUME DrawInv, Limit PROVE TagInv'
<1>1. /\ UNCHANGED <<registry, request, tagset>> /\ stage = "limit" /\ stage' = "credentials"
  BY DEF Limit, Goto
<1>2. request.type = "REPLSET" => Distinct(col')
  BY <1>1, LimitedOnly DEF Limit, DrawInv, MineInv, TypeInv, StageInv, TagInv
<1>3. request.type = "REPLSET" => Distinct(col)'
  BY <1>2 DEF Distinct
<1> QED
  BY <1>1, <1>3 DEF DrawInv, TagInv, Fresh, PickIsPromised

LEMMA CredentialsDraw ==
  ASSUME AnonymousApart, DrawInv, Credentials PROVE TagInv'
<1>1. UNCHANGED <<registry, request, tagset>> /\ stage = "credentials"
  BY DEF Credentials, Goto
<1>0. /\ ComparesNull(col, request.servers[1].cred) <=> NullCompared
      /\ NullCompared' <=> NullCompared
  <2>1. ToSet(col) = Candidates /\ ToSet(col) = {col[i] : i \in 1..Len(col)}
    BY <1>1, Elements DEF DrawInv, MineInv, TypeInv, StageInv
  <2> QED
    BY <1>1, <2>1, Unmoved DEF ComparesNull, NullCompared
<1>2. CASE ComparesNull(col, request.servers[1].cred) /\ stage' = "crashed"
  BY <1>0, <1>1, <1>2 DEF TagInv, Fresh, PickIsPromised
<1>3. CASE /\ ~ComparesNull(col, request.servers[1].cred)
           /\ stage' = IF Tagsets(request) = <<>> THEN "sort" ELSE "tags"
           /\ col' = ByCredentials(col, request.servers[1].cred)
  <2>1. ToSet(col') = Mine /\ (request.type = "REPLSET" => Distinct(col'))
    BY <1>1, <1>3, CredentialsOnly DEF DrawInv, MineInv, StageInv, TagInv
  <2>2. ToSet(col)' = Mine /\ (request.type = "REPLSET" => Distinct(col)')
    BY <2>1 DEF ToSet, Distinct
  <2>3. CASE Tagsets(request) = <<>>
    <3>1. Tagged' = Mine
      BY <1>1, <2>3, Unmoved DEF Tagged
    <3> QED
      BY <1>0, <1>1, <1>3, <2>2, <2>3, <3>1 DEF TagInv, Fresh, PickIsPromised
  <2>4. CASE Tagsets(request) # <<>>
    <3>1. Tagsets(request') = Tagsets(request)
      BY <1>1
    <3>2. tagset = 1 /\ tagset \in 1..Len(Tagsets(request)) /\ 1..(tagset - 1) = {}
      BY <1>1, <2>4, TagsetsListed DEF DrawInv, MineInv, TypeInv, TagInv, Fresh
    <3> QED
      BY <1>0, <1>1, <1>3, <2>2, <2>4, <3>1, <3>2 DEF TagInv, Fresh, PickIsPromised
  <2> QED
    BY <2>3, <2>4
<1> QED
  BY <1>2, <1>3 DEF Credentials, Goto

LEMMA TryTagsetDraw ==
  ASSUME TagsDistinct, DrawInv, TryTagset PROVE TagInv'
<1> DEFINE tagsets == Tagsets(request)
           hit == ByTagset(col, tagsets[tagset], FindType(request))
<1>1. UNCHANGED <<registry, request>> /\ stage = "tags"
  BY DEF TryTagset, Goto
<1>2. /\ tagsets # <<>> /\ tagset \in 1..Len(tagsets) /\ Len(tagsets) \in Nat
      /\ \A k \in 1..(tagset - 1) : Carriers(k) = {}
  BY <1>1, TagsetsListed DEF DrawInv, MineInv, TypeInv, TagInv
<1>3. ToSet(hit) = Carriers(tagset) /\ hit \in Seq(InRegistry)
  BY <1>1, <1>2, RoundKeepsCarriers, TagsetOnly DEF DrawInv, MineInv, StageInv
<1>4. hit = <<>> <=> Carriers(tagset) = {}
  BY <1>3, Elements
<1>5. request.type = "REPLSET" => Distinct(hit)
  BY <1>1, TagsetOnly DEF DrawInv, MineInv, TagInv
<1>6. /\ Tagged' = Tagged /\ Tagsets(request') = tagsets /\ \A k : Carriers(k)' = Carriers(k)
      /\ ~NullCompared'
  BY <1>1, Unmoved, CarriersUnmoved DEF DrawInv, TagInv
<1> HIDE DEF hit
<1>7. CASE hit # <<>> /\ col' = hit /\ stage' = "sort"
  <2>1. Tagged = Carriers(tagset)
    BY <1>2, <1>4, <1>7, FirstTagset
  <2>2. ToSet(col)' = Tagged' /\ (request.type = "REPLSET" => Distinct(col)')
    BY <1>3, <1>5, <1>6, <1>7, <2>1 DEF ToSet, Distinct
  <2> QED
    BY <1>1, <1>6, <1>7, <2>2 DEF TagInv, Fresh, PickIsPromised
<1>8. CASE /\ hit = <<>> /\ tagset < Len(tagsets) /\ tagset' = tagset + 1
           /\ stage' = "tags" /\ UNCHANGED col
  <2>1. /\ tagset' \in 1..Len(tagsets)
        /\ \A k \in 1..(tagset' - 1) : k = tagset \/ k \in 1..(tagset - 1)
    BY <1>2, <1>8
  <2>2. \A k \in 1..(tagset' - 1) : Carriers(k)' = {}
    BY <1>2, <1>4, <1>6, <1>8, <2>1
  <2>3. request.type = "REPLSET" => Distinct(col)'
    BY <1>1, <1>8 DEF DrawInv, TagInv, Distinct
  <2> QED
    BY <1>1, <1>2, <1>6, <1>8, <2>1, <2>2, <2>3 DEF TagInv, Fresh, PickIsPromised
<1>9. CASE hit = <<>> /\ tagset = Len(tagsets) /\ stage' = "null"
  <2>1. \A k \in 1..Len(tagsets) : k = tagset \/ k \in 1..(tagset - 1)
    BY <1>2, <1>9
  <2>2. Tagged = {}
    BY <1>2, <1>4, <1>9, <2>1, NoTagset
  <2> QED
    BY <1>1, <1>6, <1>9, <2>2 DEF TagInv, Fresh, PickIsPromised
<1> QED
  BY <1>7, <1>8, <1>9 DEF TryTagset, Goto, hit

LEMMA SortDraw ==
  ASSUME DrawInv, Sort PROVE TagInv'
<1>1. UNCHANGED <<registry, request, tagset>> /\ stage = "sort"
  BY DEF Sort, Goto
<1>2. ToSet(col) = Tagged /\ col \in Seq(InRegistry) /\ (request.type = "REPLSET" => Distinct(col))
  BY <1>1 DEF DrawInv, MineInv, TypeInv, TagInv
<1>3. Tagged' = Tagged /\ ~NullCompared'
  BY <1>1, Unmoved DEF DrawInv, TagInv
<1>4. CASE col = <<>> /\ stage' = "null"
  <2>1. Tagged = {}
    BY <1>2, <1>4, Elements
  <2> QED
    BY <1>1, <1>3, <1>4, <2>1 DEF TagInv, Fresh, PickIsPromised
<1>5. CASE col # <<>> /\ stage' = "near" /\ col' \in Sorted(col, request.rp)
  <2>1. /\ col' \in Seq(InRegistry) /\ ToSet(col') = ToSet(col)
        /\ Distinct(col) => Distinct(col')
        /\ \A i \in 1..(Len(col') - 1) : MayPrecede(col'[i], col'[i + 1], request.rp)
    BY <1>2, <1>5, SortedElements
  <2>2. col' # <<>>
    <3>1. ToSet(col) # {} /\ (col' = <<>> => ToSet(col') = {})
      BY <1>2, <1>5, <2>1, Elements
    <3> QED
      BY <2>1, <3>1
  <2>3. ToSet(col)' = Tagged' /\ (request.type = "REPLSET" => Distinct(col)')
    BY <1>2, <1>3, <2>1 DEF ToSet, Distinct
  <2>4. (\A i \in 1..(Len(col) - 1) : MayPrecede(col[i], col[i + 1], request.rp))'
    BY <1>1, <2>1 DEF MayPrecede
  <2> QED
    BY <1>1, <1>3, <1>5, <2>2, <2>3, <2>4 DEF TagInv, Fresh, PickIsPromised
<1> QED
  BY <1>4, <1>5 DEF Sort, Goto

\* Whom the sort puts first has the ping from which the cutoff counts, so that the
\* cutoff leaves nobody over exactly if CutsAll says so.
LEMMA CutOff ==
  ASSUME registry \in Registries, request \in Requests,
         NEW s \in Seq(InRegistry), ToSet(s) = Tagged, s # <<>>,
         \A i \in 1..(Len(s) - 1) : MayPrecede(s[i], s[i + 1], request.rp)
  PROVE  NearestServers(s, request.latency) = <<>> <=> CutsAll
<1> DEFINE rp == request.rp
           near == {c \in Tagged : c.ping <= CInt(s[1].ping + request.latency)}
           t == NearestServers(s, request.latency)
<1>1. Ranked(InRegistry)
  BY Given DEF Ranked
<1>2. 1 \in 1..Len(s) /\ ToSet(s) = {s[i] : i \in 1..Len(s)} /\ ToSet(s) \subseteq InRegistry
  BY Elements
<1>3. t \in Seq(InRegistry) /\ ToSet(t) = near
  BY NearOnly
<1>4. t = <<>> <=> near = {}
  <2> HIDE DEF t, near
  <2> QED
    BY <1>3, Elements
<1>5. \A c \in Tagged : c.ping \in Nat /\ NodeValue[c.type] \in Nat
  BY <1>1, <1>2 DEF Ranked, NodeValue
<1>6. \A c \in Tagged : MayPrecede(s[1], c, rp)
  <2> SUFFICES ASSUME NEW i \in 1..Len(s) PROVE MayPrecede(s[1], s[i], rp)
    BY <1>2
  <2>1. CASE i = 1
    BY <1>2, <1>5, <2>1 DEF MayPrecede
  <2>2. CASE i # 1
    <3>1. \A k, l \in 1..Len(s) : k < l => MayPrecede(s[k], s[l], rp)
      BY <1>1, SortedThroughout
    <3>2. 1 < i
      BY <2>2
    <3> HIDE DEF MayPrecede
    <3> QED
      BY <1>2, <3>1, <3>2
  <2> QED
    BY <2>1, <2>2
<1>7. s[1] \in Tagged
  BY <1>2
<1>8. ASSUME near = {} PROVE CutsAll
  <2>1. \A d \in Tagged : ~(d.ping <= CInt(s[1].ping + request.latency))
    BY <1>8
  <2> HIDE DEF MayPrecede
  <2> QED
    BY <1>6, <1>7, <2>1 DEF CutsAll
<1>9. ASSUME CutsAll PROVE near = {}
  <2>1. PICK c \in Tagged :
          /\ \A d \in Tagged : MayPrecede(c, d, rp)
          /\ \A d \in Tagged : ~(d.ping <= CInt(c.ping + request.latency))
    BY <1>9 DEF CutsAll
  <2>2. MayPrecede(c, s[1], rp) /\ MayPrecede(s[1], c, rp)
    BY <1>6, <1>7, <2>1
  <2>3. c.ping = s[1].ping
    BY <1>5, <1>7, <2>2 DEF MayPrecede
  <2> QED
    BY <2>1, <2>3
<1> QED
  BY <1>4, <1>8, <1>9

\* A latency that can be added leaves over whom it is counted from.
LEMMA NotAllCut ==
  ASSUME registry \in Registries, request \in Requests, LatencyFits
  PROVE  ~CutsAll
<1> SUFFICES ASSUME NEW c \in Tagged,
                    \A d \in Tagged : ~(d.ping <= CInt(c.ping + request.latency))
             PROVE  FALSE
  BY DEF CutsAll
<1>1. CInt(c.ping + request.latency) = c.ping + request.latency /\ request.latency \in Nat
  BY DEF LatencyFits
<1>2. c.ping \in Nat
  <2>1. c \in InRegistry
    BY DEF Tagged, Mine, Candidates
  <2> QED
    BY <2>1, Given
<1> QED
  BY <1>1, <1>2

LEMMA NearDraw ==
  ASSUME DrawInv, Near PROVE TagInv'
<1>1. /\ UNCHANGED <<registry, request, tagset>> /\ stage = "near" /\ stage' = "pick"
      /\ col' = NearestServers(col, request.latency)
  BY DEF Near, Goto
<1>2. /\ registry \in Registries /\ request \in Requests /\ col \in Seq(InRegistry)
      /\ ToSet(col) = Tagged /\ col # <<>> /\ ~NullCompared
      /\ \A i \in 1..(Len(col) - 1) : MayPrecede(col[i], col[i + 1], request.rp)
      /\ request.type = "REPLSET" => Distinct(col)
  BY <1>1 DEF DrawInv, MineInv, TypeInv, TagInv
<1>3. /\ Tagged' = Tagged /\ Promised' = Promised
      /\ (LatencyFits' <=> LatencyFits) /\ (CutsAll' <=> CutsAll) /\ ~NullCompared'
  BY <1>1, <1>2, Unmoved
<1>4. col' = <<>> <=> CutsAll
  BY <1>1, <1>2, CutOff
<1>5. ASSUME request.type = "REPLSET", LatencyFits, Roles(Tagged),
             Cardinality(Primaries(Tagged)) <= 1
      PROVE  {col'[i] : i \in PickFrom(col', request.rp)} = Promised
  BY <1>1, <1>2, <1>5, DrawIsPromised
<1>6. PickIsPromised'
  <2>1. (Roles(Tagged) <=> Roles(Tagged)') /\ Primaries(Tagged)' = Primaries(Tagged)
    BY <1>3 DEF Roles, Primaries
  <2>2. ASSUME request.type = "REPLSET", LatencyFits', Roles(Tagged)',
               Cardinality(Primaries(Tagged)') <= 1
        PROVE  {col'[i] : i \in PickFrom(col', request.rp)} = Promised'
    BY <1>3, <1>5, <2>1, <2>2
  <2>3. PickIsPromised' <=>
          (stage' = "pick" /\ request.type = "REPLSET" /\ LatencyFits' /\ Roles(Tagged)'
             /\ Cardinality(Primaries(Tagged)') <= 1
             => {col'[i] : i \in PickFrom(col', request.rp)} = Promised')
    BY <1>1 DEF PickIsPromised, PickFrom
  <2> QED
    BY <2>2, <2>3
<1> QED
  BY <1>1, <1>3, <1>4, <1>6 DEF TagInv, Fresh

LEMMA PickDraw ==
  ASSUME DrawInv, Pick PROVE TagInv'
<1>1. /\ UNCHANGED <<registry, request, tagset>> /\ stage = "pick"
      /\ (col = <<>> /\ stage' = "crashed") \/ (col # <<>> /\ stage' = "done")
  BY DEF Pick
<1>2. /\ (CutsAll' <=> CutsAll) /\ (NullCompared' <=> NullCompared)
      /\ ~NullCompared /\ (col = <<>> <=> CutsAll)
  BY <1>1, Unmoved DEF DrawInv, TagInv
<1> QED
  BY <1>1, <1>2 DEF TagInv, Fresh, PickIsPromised

LEMMA DrawNext ==
  ASSUME AnonymousApart, TagsDistinct, DrawInv, [Next]_vars
  PROVE  DrawInv'
<1>1. MineInv'
  BY MineNext DEF DrawInv
<1>2. CASE UNCHANGED vars
  <2>1. /\ Tagged' = Tagged /\ Promised' = Promised /\ \A k : Carriers(k)' = Carriers(k)
        /\ (LatencyFits' <=> LatencyFits) /\ (CutsAll' <=> CutsAll)
        /\ (NullCompared' <=> NullCompared)
        /\ UNCHANGED <<registry, request, stage, col, tagset>>
    BY <1>2, Unmoved, CarriersUnmoved DEF vars
  <2>2. PickIsPromised'
    BY <2>1 DEF DrawInv, TagInv, PickIsPromised, PickFrom, Roles, Primaries
  <2>3. TagInv'
    BY <2>1, <2>2 DEF DrawInv, TagInv, Fresh, Distinct, MayPrecede, ToSet
  <2> QED
    BY <1>1, <2>3 DEF DrawInv
<1>3. CASE Next
  <2>1. TagInv'
    BY <1>3, CollectDraw, LimitDraw, CredentialsDraw, TryTagsetDraw, SortDraw, NearDraw, PickDraw
       DEF Next
  <2> QED
    BY <1>1, <2>1 DEF DrawInv
<1> QED
  BY <1>2, <1>3

LEMMA AlwaysDraw == ASSUME AnonymousApart, TagsDistinct PROVE Spec => []DrawInv
<1>1. Init => DrawInv
  BY MineInit, DrawInit DEF DrawInv
<1>2. DrawInv /\ [Next]_vars => DrawInv'
  BY DrawNext
<1> QED
  BY <1>1, <1>2, PTL DEF Spec

\* In a replica set with one primary and with a latency that can be added to a ping,
\* the draw is made from exactly the connections the read preference promises:
\* those of the first tagset anyone has, of the preferred role if anyone has it,
\* within the latency of the nearest of them.
THEOREM DrawPromised ==
  ASSUME AnonymousApart, TagsDistinct
  PROVE  Spec => []PickIsPromised
<1>1. DrawInv => PickIsPromised
  BY DEF DrawInv, TagInv
<1> QED
  BY <1>1, AlwaysDraw, PTL

\* A search that comes back empty leaves no connection the request could have
\* used.  For any latency and with clients with and without credentials on the same
\* registry, it compares a missing credential exactly if one stands among the
\* candidates of a client with credentials, and it draws from nothing exactly if the
\* cutoff leaves nobody over, which only a latency that is negative or does not fit
\* with a ping can do.
THEOREM FailsHonestly ==
  ASSUME AnonymousApart, TagsDistinct
  PROVE  Spec => []OutcomeIsDue
<1>1. ASSUME DrawInv PROVE OutcomeIsDue
  <2>1. CutsAll => ~LatencyFits
    BY <1>1, NotAllCut DEF DrawInv, MineInv, TypeInv
  <2> QED
    BY <1>1, <2>1 DEF DrawInv, TagInv, OutcomeIsDue
<1> QED
  BY <1>1, AlwaysDraw, PTL
=============================================================================
