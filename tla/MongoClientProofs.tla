-------------------------- MODULE MongoClientProofs --------------------------
(***************************************************************************)
(* Theorems about the options of a MongoClient, for any connection string, *)
(* any options in any order and any number of servers.                     *)
(***************************************************************************)
EXTENDS MongoClient, TLAPS

-----------------------------------------------------------------------------
(* A hash can be taken apart again and fits its buffer, for texts of any length.
   First what the operators on texts do, then the five fields of a hash, then
   the three of its credentials. *)

\* Two texts put together.
LEMMA Joined ==
  ASSUME NEW S, NEW s \in Seq(S), NEW t \in Seq(S), NEW h, h = s \o t
  PROVE  /\ h \in Seq(S) /\ Len(h) = Len(s) + Len(t)
         /\ Len(s) \in Nat /\ Len(t) \in Nat
         /\ \A k \in 1..Len(s) : h[k] = s[k]
         /\ \A k \in 1..Len(t) : h[Len(s) + k] = t[k]
<1>1. h \in Seq(S) /\ Len(h) = Len(s) + Len(t) /\ Len(s) \in Nat /\ Len(t) \in Nat
  OBVIOUS
<1>2. \A k \in 1..Len(s) : h[k] = s[k]
  BY <1>1
<1>3. \A k \in 1..Len(t) : h[Len(s) + k] = t[k]
  BY <1>1
<1> QED
  BY <1>1, <1>2, <1>3

\* The letter c is at a place of h and not between there and the place from.
FirstAt(h, from, at, c) ==
  /\ from \in Nat \ {0} /\ at \in from..Len(h)
  /\ h[at] = c /\ \A k \in from..(at - 1) : h[k] # c

\* strchr finds the separator that no earlier letter is.
LEMMA FindSeparator ==
  ASSUME NEW S, NEW h \in Seq(S), NEW from, NEW at, NEW c, FirstAt(h, from, at, c)
  PROVE  FirstFrom(h, from, c) = at
<1> USE DEF FirstAt
<1> DEFINE A == {k \in from..Len(h) : h[k] = c}
<1>1. Len(h) \in Nat /\ at \in Nat
  OBVIOUS
<1>2. at \in A /\ A \subseteq Nat
  BY <1>1
<1>3. \A m \in A : at <= m
  BY <1>1
<1>4. FirstFrom(h, from, c) = IF A = {} THEN Len(h) + 1 ELSE CHOOSE k \in A : \A m \in A : k <= m
  BY DEF FirstFrom
<1> HIDE DEF A
<1>5. ASSUME NEW k \in A, \A m \in A : k <= m PROVE k = at
  BY <1>2, <1>3, <1>5
<1> QED
  BY <1>2, <1>3, <1>4, <1>5

\* The text t is in h, after x letters.
Within(h, t, x) ==
  /\ x \in Nat /\ Len(t) \in Nat /\ Len(h) \in Nat /\ x + Len(t) <= Len(h)
  /\ \A k \in 1..Len(t) : h[x + k] = t[k]

\* These are its first and its last place there.
Spans(lo, hi, x, t) == lo = x + 1 /\ hi = x + Len(t)

\* The text from the place lo to the place hi.
Cut(h, lo, hi) == SubSeq(h, lo, hi)

\* It can be taken out again.
LEMMA PartOf ==
  ASSUME NEW S, NEW h \in Seq(S), NEW t \in Seq(S), NEW x, Within(h, t, x),
         NEW lo, NEW hi, Spans(lo, hi, x, t)
  PROVE  Cut(h, lo, hi) = t
<1> USE DEF Within, Spans, Cut
<1> DEFINE u == SubSeq(h, x + 1, x + Len(t))
<1>1. Len(h) \in Nat /\ Len(t) \in Nat
  OBVIOUS
<1>2. u \in Seq(S) /\ Len(u) = Len(t)
  BY <1>1
<1>3. \A k \in 1..Len(t) : u[k] = t[k]
  BY <1>1
<1> HIDE DEF u
<1>4. u = t
  BY <1>1, <1>2, <1>3
<1> QED
  BY <1>4 DEF u

\* The letter c is not in the text t.
Without(t, c) == \A k \in 1..Len(t) : t[k] # c

\* Nor is it in h where t is.
LEMMA Absent ==
  ASSUME NEW h, NEW t, NEW x, Within(h, t, x), NEW c, Without(t, c), NEW k \in (x + 1)..(x + Len(t))
  PROVE  h[k] # c
<1> DEFINE j == k - x
<1>1. j \in 1..Len(t) /\ x + j = k
  BY DEF Within
<1> HIDE DEF j
<1>2. h[x + j] = t[j]
  BY <1>1 DEF Within
<1> QED
  BY <1>1, <1>2 DEF Without

\* The letter c ends the text t in h: at is its place, and from is where t begins.
EndsAt(h, t, x, from, at, c) ==
  from = x + 1 /\ at = x + Len(t) + 1 /\ at <= Len(h) /\ h[at] = c

\* strchr finds the end of a text that does not hold the letter.
LEMMA FindEnd ==
  ASSUME NEW S, NEW h \in Seq(S), NEW t, NEW x, Within(h, t, x), NEW c, Without(t, c),
         NEW from, NEW at, EndsAt(h, t, x, from, at, c)
  PROVE  FirstFrom(h, from, c) = at
<1>1. /\ x \in Nat /\ Len(t) \in Nat /\ Len(h) \in Nat
      /\ from = x + 1 /\ at = x + Len(t) + 1 /\ at <= Len(h) /\ h[at] = c
  BY DEF Within, EndsAt
<1>2. from \in Nat \ {0} /\ at \in from..Len(h)
  BY <1>1
<1>3. \A k \in from..(at - 1) : k \in (x + 1)..(x + Len(t))
  BY <1>1
<1>4. \A k \in from..(at - 1) : h[k] # c
  BY <1>3, Absent
<1>5. FirstAt(h, from, at, c)
  BY <1>1, <1>2, <1>4 DEF FirstAt
<1> QED
  BY <1>5, FindSeparator

\* g is the beginning of h.
Begins(g, h) ==
  Len(g) \in Nat /\ Len(h) \in Nat /\ Len(g) <= Len(h) /\ \A k \in 1..Len(g) : h[k] = g[k]

\* A beginning of a beginning is a beginning.
LEMMA BeginsTrans ==
  ASSUME NEW f, NEW g, NEW h, Begins(f, g), Begins(g, h)
  PROVE  Begins(f, h)
<1>1. \A k \in 1..Len(f) : k \in 1..Len(g)
  BY DEF Begins
<1> QED
  BY <1>1 DEF Begins

\* h is g with the field F, or with the separator x, added.
Added(g, F, h) ==
  /\ Len(h) = Len(g) + Len(F) /\ Len(F) \in Nat /\ Begins(g, h)
  /\ \A k \in 1..Len(F) : h[Len(g) + k] = F[k]
Marked(g, x, h) == Len(h) = Len(g) + 1 /\ Begins(g, h) /\ h[Len(g) + 1] = x

\* What was added stays where it is.
LEMMA AddedWithin ==
  ASSUME NEW g, NEW F, NEW h, Added(g, F, h), NEW f, Begins(h, f), NEW x, x = Len(g)
  PROVE  Within(f, F, x)
<1>1. /\ x \in Nat /\ Len(F) \in Nat /\ Len(h) \in Nat /\ Len(f) \in Nat
      /\ Len(h) = x + Len(F) /\ Len(h) <= Len(f)
  BY DEF Added, Begins
<1>2. \A k \in 1..Len(F) : x + k \in 1..Len(h) /\ h[x + k] = F[k]
  BY <1>1 DEF Added
<1>3. \A k \in 1..Len(F) : f[x + k] = F[k]
  BY <1>2 DEF Begins
<1> QED
  BY <1>1, <1>3 DEF Within

\* Appending a field adds it.
LEMMA FieldAdded ==
  ASSUME NEW S, NEW g \in Seq(S), NEW F \in Seq(S)
  PROVE  g \o F \in Seq(S) /\ Added(g, F, g \o F)
<1> DEFINE h == g \o F
<1>1. /\ h \in Seq(S) /\ Len(h) = Len(g) + Len(F)
      /\ Len(g) \in Nat /\ Len(F) \in Nat
      /\ \A k \in 1..Len(g) : h[k] = g[k]
      /\ \A k \in 1..Len(F) : h[Len(g) + k] = F[k]
  BY Joined
<1> HIDE DEF h
<1>2. h \in Seq(S) /\ Added(g, F, h)
  BY <1>1 DEF Added, Begins
<1> QED
  BY <1>2 DEF h

\* Appending a separator adds it.
LEMMA MarkAdded ==
  ASSUME NEW S, NEW g \in Seq(S), NEW x \in S
  PROVE  g \o <<x>> \in Seq(S) /\ Marked(g, x, g \o <<x>>)
<1> DEFINE F == <<x>>
           h == g \o F
<1>1. F \in Seq(S) /\ Len(F) = 1 /\ F[1] = x
  OBVIOUS
<1> HIDE DEF F
<1>2. h \in Seq(S) /\ Added(g, F, h)
  BY <1>1, FieldAdded
<1> HIDE DEF h
<1>3. Marked(g, x, h)
  BY <1>1, <1>2 DEF Added, Marked
<1> QED
  BY <1>2, <1>3 DEF h, F

\* Five fields with a separator after each of the first four.
Fields(A, x, B, y, C, D, P) ==
  A \o <<x>> \o B \o <<y>> \o C \o <<y>> \o D \o <<y>> \o P

\* Where each field and each separator is: a to d are the places before the
\* separators.
Laid(h, S, A, x, B, y, C, D, P, a, b, c, d) ==
  /\ h \in Seq(S) /\ Len(h) = d + 1 + Len(P)
  /\ a \in Nat /\ b \in Nat /\ c \in Nat /\ d \in Nat
  /\ h[a + 1] = x /\ h[b + 1] = y /\ h[c + 1] = y /\ h[d + 1] = y
  /\ Within(h, A, 0) /\ Within(h, B, a + 1) /\ Within(h, C, b + 1) /\ Within(h, D, c + 1)
  /\ Within(h, P, d + 1)
  /\ Within(h, A \o <<x>> \o B, 0) /\ Len(A \o <<x>> \o B) = b /\ A \o <<x>> \o B \in Seq(S)

\* The five fields are where their lengths put them.
LEMMA FieldsAt ==
  ASSUME NEW S, NEW x \in S, NEW y \in S,
         NEW A \in Seq(S), NEW B \in Seq(S), NEW C \in Seq(S), NEW D \in Seq(S), NEW P \in Seq(S),
         NEW h, h = Fields(A, x, B, y, C, D, P),
         NEW a, a = Len(A), NEW b, b = a + 1 + Len(B), NEW c, c = b + 1 + Len(C),
         NEW d, d = c + 1 + Len(D)
  PROVE  Laid(h, S, A, x, B, y, C, D, P, a, b, c, d)
<1> DEFINE h1 == A \o <<x>>
           h2 == h1 \o B
           h3 == h2 \o <<y>>
           h4 == h3 \o C
           h5 == h4 \o <<y>>
           h6 == h5 \o D
           h7 == h6 \o <<y>>
<1>0. h = h7 \o P /\ Len(A) \in Nat
  BY DEF Fields
<1>1. h1 \in Seq(S) /\ Marked(A, x, h1)
  BY MarkAdded
<1> HIDE DEF h1
<1>2. h2 \in Seq(S) /\ Added(h1, B, h2)
  BY <1>1, FieldAdded
<1> HIDE DEF h2
<1>3. h3 \in Seq(S) /\ Marked(h2, y, h3)
  BY <1>2, MarkAdded
<1> HIDE DEF h3
<1>4. h4 \in Seq(S) /\ Added(h3, C, h4)
  BY <1>3, FieldAdded
<1> HIDE DEF h4
<1>5. h5 \in Seq(S) /\ Marked(h4, y, h5)
  BY <1>4, MarkAdded
<1> HIDE DEF h5
<1>6. h6 \in Seq(S) /\ Added(h5, D, h6)
  BY <1>5, FieldAdded
<1> HIDE DEF h6
<1>7. h7 \in Seq(S) /\ Marked(h6, y, h7)
  BY <1>6, MarkAdded
<1> HIDE DEF h7
<1>8. h \in Seq(S) /\ Added(h7, P, h)
  BY <1>0, <1>7, FieldAdded
<1> USE DEF Added, Marked
<1>9. /\ Begins(h7, h) /\ Begins(h6, h) /\ Begins(h5, h) /\ Begins(h4, h) /\ Begins(h3, h)
      /\ Begins(h2, h) /\ Begins(h1, h) /\ Begins(A, h)
  <2>1. Begins(h6, h)
    BY <1>7, <1>8, BeginsTrans
  <2>2. Begins(h5, h)
    BY <1>6, <2>1, BeginsTrans
  <2>3. Begins(h4, h)
    BY <1>5, <2>2, BeginsTrans
  <2>4. Begins(h3, h)
    BY <1>4, <2>3, BeginsTrans
  <2>5. Begins(h2, h)
    BY <1>3, <2>4, BeginsTrans
  <2>6. Begins(h1, h)
    BY <1>2, <2>5, BeginsTrans
  <2>7. Begins(A, h)
    BY <1>1, <2>6, BeginsTrans
  <2> QED
    BY <1>8, <2>1, <2>2, <2>3, <2>4, <2>5, <2>6, <2>7
<1>10. /\ a \in Nat /\ b \in Nat /\ c \in Nat /\ d \in Nat
       /\ Len(h1) = a + 1 /\ Len(h2) = b /\ Len(h3) = b + 1 /\ Len(h4) = c /\ Len(h5) = c + 1
       /\ Len(h6) = d /\ Len(h7) = d + 1 /\ Len(h) = d + 1 + Len(P)
  BY <1>0, <1>1, <1>2, <1>3, <1>4, <1>5, <1>6, <1>7, <1>8
<1>11. h[a + 1] = x /\ \A k \in 1..Len(A) : h[k] = A[k]
  <2>1. a + 1 \in 1..Len(h1)
    BY <1>10
  <2>2. h1[a + 1] = x
    BY <1>1
  <2> QED
    BY <1>9, <2>1, <2>2 DEF Begins
<1>12. h[b + 1] = y /\ h[c + 1] = y /\ h[d + 1] = y
  <2>1. b + 1 \in 1..Len(h3) /\ c + 1 \in 1..Len(h5) /\ d + 1 \in 1..Len(h7)
    BY <1>10
  <2>2. h3[b + 1] = y /\ h5[c + 1] = y /\ h7[d + 1] = y
    BY <1>3, <1>5, <1>7, <1>10
  <2> QED
    BY <1>9, <2>1, <2>2 DEF Begins
<1> HIDE DEF Added, Marked
<1>13. Within(h, B, a + 1)
  BY <1>2, <1>9, <1>10, AddedWithin
<1>14. Within(h, C, b + 1)
  BY <1>4, <1>9, <1>10, AddedWithin
<1>15. Within(h, D, c + 1)
  BY <1>6, <1>9, <1>10, AddedWithin
<1>16. Within(h, P, d + 1)
  <2>1. Begins(h, h)
    BY <1>8 DEF Begins
  <2> QED
    BY <1>8, <1>10, <2>1, AddedWithin
<1>17. Begins(A \o <<x>> \o B, h) /\ Len(A \o <<x>> \o B) = b /\ A \o <<x>> \o B \in Seq(S)
  <2>1. A \o <<x>> \o B = h2
    BY DEF h1, h2
  <2> QED
    BY <1>2, <1>9, <1>10, <2>1
<1>18. ASSUME NEW g, Begins(g, h) PROVE Within(h, g, 0)
  BY <1>18 DEF Begins, Within
<1> QED
  BY <1>8, <1>9, <1>10, <1>11, <1>12, <1>13, <1>14, <1>15, <1>16, <1>17, <1>18 DEF Laid

\* The first letter of a field, or the separator after it.
First(t, y) == IF Len(t) = 0 THEN y ELSE t[1]

\* What is found in a text of five fields.
Found(h, A, x, B, y, C, D, P, a, b, c, d) ==
  /\ FirstFrom(h, 1, x) = a + 1 /\ FirstFrom(h, a + 1, y) = b + 1
  /\ FirstFrom(h, b + 2, y) = c + 1 /\ FirstFrom(h, c + 2, y) = d + 1
  /\ FirstFrom(h, 1, y) = b + 1
  /\ Cut(h, 1, a) = A /\ Cut(h, a + 2, b) = B /\ Cut(h, b + 2, c) = C
  /\ Cut(h, d + 2, Len(h)) = P /\ Cut(h, 1, b) = A \o <<x>> \o B
  /\ h[b + 2] = First(C, y) /\ h[c + 2] = First(D, y)

\* Looking for the separators finds the fields, if no field holds the separator
\* that ends it.
LEMMA FieldsFound ==
  ASSUME NEW S, NEW x \in S, NEW y \in S, x # y,
         NEW A \in Seq(S), NEW B \in Seq(S), NEW C \in Seq(S), NEW D \in Seq(S), NEW P \in Seq(S),
         NEW h, h = Fields(A, x, B, y, C, D, P),
         NEW a, a = Len(A), NEW b, b = a + 1 + Len(B), NEW c, c = b + 1 + Len(C),
         NEW d, d = c + 1 + Len(D),
         Without(A, x), Without(A, y), Without(B, y), Without(C, y), Without(D, y)
  PROVE  Found(h, A, x, B, y, C, D, P, a, b, c, d)
<1> DEFINE G == A \o <<x>> \o B
<1>1. Laid(h, S, A, x, B, y, C, D, P, a, b, c, d)
  BY FieldsAt
<1>2. /\ h \in Seq(S) /\ Len(h) = d + 1 + Len(P)
      /\ a \in Nat /\ b \in Nat /\ c \in Nat /\ d \in Nat
      /\ Len(G) = b /\ G \in Seq(S)
  BY <1>1 DEF Laid
<1>x. h[a + 1] = x /\ h[b + 1] = y /\ h[c + 1] = y /\ h[d + 1] = y
  BY <1>1 DEF Laid
<1>A. Within(h, A, 0)
  BY <1>1 DEF Laid
<1>B. Within(h, B, a + 1)
  BY <1>1 DEF Laid
<1>C. Within(h, C, b + 1)
  BY <1>1 DEF Laid
<1>D. Within(h, D, c + 1)
  BY <1>1 DEF Laid
<1>P. Within(h, P, d + 1)
  BY <1>1 DEF Laid
<1>G. Within(h, G, 0)
  BY <1>1 DEF Laid
<1> HIDE DEF G
<1>3. /\ Len(A) \in Nat /\ Len(B) \in Nat /\ Len(C) \in Nat /\ Len(D) \in Nat /\ Len(P) \in Nat
      /\ Len(h) \in Nat
  BY <1>2
<1>4. FirstFrom(h, 1, x) = a + 1
  <2>1. EndsAt(h, A, 0, 1, a + 1, x)
    BY <1>2, <1>3, <1>x DEF EndsAt
  <2> QED
    BY <1>2, <1>A, <2>1, FindEnd
<1>5. FirstFrom(h, b + 2, y) = c + 1
  <2>1. EndsAt(h, C, b + 1, b + 2, c + 1, y)
    BY <1>2, <1>3, <1>x DEF EndsAt
  <2> QED
    BY <1>2, <1>C, <2>1, FindEnd
<1>6. FirstFrom(h, c + 2, y) = d + 1
  <2>1. EndsAt(h, D, c + 1, c + 2, d + 1, y)
    BY <1>2, <1>3, <1>x DEF EndsAt
  <2> QED
    BY <1>2, <1>D, <2>1, FindEnd
<1>7. \A k \in 1..a : h[k] # y
  <2>1. \A k \in 1..a : k \in (0 + 1)..(0 + Len(A))
    BY <1>3
  <2> QED
    BY <1>A, <2>1, Absent
<1>8. \A k \in (a + 2)..b : h[k] # y
  <2>1. \A k \in (a + 2)..b : k \in (a + 1 + 1)..(a + 1 + Len(B))
    BY <1>2, <1>3
  <2> QED
    BY <1>B, <2>1, Absent
<1>9. ASSUME NEW k \in 1..b PROVE h[k] # y
  <2>1. k \in 1..a \/ k = a + 1 \/ k \in (a + 2)..b
    BY <1>2
  <2>2. CASE k = a + 1
    BY <1>x, <2>2
  <2> QED
    BY <1>7, <1>8, <2>1, <2>2
<1>10. ASSUME NEW from \in {1, a + 1} PROVE FirstFrom(h, from, y) = b + 1
  <2>1. /\ from \in Nat \ {0} /\ b + 1 \in from..Len(h)
        /\ \A k \in from..(b + 1 - 1) : k \in 1..b
    BY <1>2, <1>3
  <2>2. \A k \in from..(b + 1 - 1) : h[k] # y
    BY <1>9, <2>1
  <2>3. FirstAt(h, from, b + 1, y)
    BY <1>x, <2>1, <2>2 DEF FirstAt
  <2> QED
    BY <1>2, <2>3, FindSeparator
<1>11. FirstFrom(h, a + 1, y) = b + 1 /\ FirstFrom(h, 1, y) = b + 1
  BY <1>10
<1>12. Cut(h, 1, a) = A
  <2>1. Spans(1, a, 0, A)
    BY <1>2, <1>3 DEF Spans
  <2> QED
    BY <1>2, <1>A, <2>1, PartOf
<1>13. Cut(h, 1, b) = G
  <2>1. Spans(1, b, 0, G)
    BY <1>2, <1>3 DEF Spans
  <2> QED
    BY <1>2, <1>G, <2>1, PartOf
<1>14. Cut(h, a + 2, b) = B
  <2>1. Spans(a + 2, b, a + 1, B)
    BY <1>2, <1>3 DEF Spans
  <2> QED
    BY <1>2, <1>B, <2>1, PartOf
<1>15. Cut(h, b + 2, c) = C
  <2>1. Spans(b + 2, c, b + 1, C)
    BY <1>2, <1>3 DEF Spans
  <2> QED
    BY <1>2, <1>C, <2>1, PartOf
<1>16. Cut(h, d + 2, Len(h)) = P
  <2>1. Spans(d + 2, Len(h), d + 1, P)
    BY <1>2, <1>3 DEF Spans
  <2> QED
    BY <1>2, <1>P, <2>1, PartOf
<1>17. ASSUME NEW F, NEW q \in Nat, Within(h, F, q + 1), h[q + 1 + Len(F) + 1] = y
       PROVE  h[q + 2] = First(F, y)
  <2>1. CASE Len(F) = 0
    BY <1>17, <2>1 DEF First
  <2>2. CASE Len(F) # 0
    <3>1. 1 \in 1..Len(F) /\ q + 1 + 1 = q + 2
      BY <1>17, <2>2 DEF Within
    <3>2. h[q + 1 + 1] = F[1]
      BY <1>17, <3>1 DEF Within
    <3> QED
      BY <2>2, <3>1, <3>2 DEF First
  <2> QED
    BY <2>1, <2>2
<1>18. h[b + 2] = First(C, y) /\ h[c + 2] = First(D, y)
  <2>1. b + 1 + Len(C) + 1 = c + 1 /\ c + 1 + Len(D) + 1 = d + 1
    BY <1>2, <1>3
  <2> QED
    BY <1>2, <1>x, <1>C, <1>D, <1>17, <2>1
<1> QED
  BY <1>4, <1>5, <1>6, <1>11, <1>12, <1>13, <1>14, <1>15, <1>16, <1>18 DEF G, Found

\* The credentials: database, user and digest, with a slash between them.
Credentials(E, z, U, g) == E \o <<z>> \o U \o <<z, g>>

\* Where they are, e and u being the places before the slashes.
LaidOut(S, D, E, z, U, g, e, u) ==
  /\ D \in Seq(S) /\ Len(D) = u + 2 /\ e \in Nat /\ u \in Nat
  /\ Within(D, E, 0) /\ Within(D, U, e + 1)
  /\ D[e + 1] = z /\ D[u + 1] = z /\ D[u + 2] = g

\* Database, user and digest are where their lengths put them.
LEMMA CredentialsAt ==
  ASSUME NEW S, NEW z \in S, NEW g \in S, NEW E \in Seq(S), NEW U \in Seq(S),
         NEW D, D = Credentials(E, z, U, g), NEW e, e = Len(E), NEW u, u = e + 1 + Len(U)
  PROVE  LaidOut(S, D, E, z, U, g, e, u)
<1> DEFINE F == <<z, g>>
           h1 == E \o <<z>>
           h2 == h1 \o U
<1>0. D = h2 \o F /\ Len(E) \in Nat /\ Len(U) \in Nat
  BY DEF Credentials
<1>1. F \in Seq(S) /\ Len(F) = 2 /\ F[1] = z /\ F[2] = g
  OBVIOUS
<1> HIDE DEF F
<1>2. h1 \in Seq(S) /\ Marked(E, z, h1)
  BY MarkAdded
<1> HIDE DEF h1
<1>3. h2 \in Seq(S) /\ Added(h1, U, h2)
  BY <1>2, FieldAdded
<1> HIDE DEF h2
<1>4. D \in Seq(S) /\ Added(h2, F, D)
  BY <1>0, <1>1, <1>3, FieldAdded
<1> USE DEF Added, Marked
<1>5. e \in Nat /\ u \in Nat /\ Len(h1) = e + 1 /\ Len(h2) = u /\ Len(D) = u + 2
  BY <1>0, <1>1, <1>2, <1>3, <1>4
<1>6. Begins(h2, D) /\ Begins(h1, D) /\ Begins(E, D)
  <2>1. Begins(h1, D)
    BY <1>3, <1>4, BeginsTrans
  <2> QED
    BY <1>2, <1>4, <2>1, BeginsTrans
<1>7. Within(D, E, 0)
  BY <1>6 DEF Begins, Within
<1>8. Within(D, U, e + 1)
  <2>1. \A k \in 1..Len(U) : e + 1 + k \in 1..Len(h2) /\ h2[e + 1 + k] = U[k]
    BY <1>0, <1>3, <1>5
  <2>2. \A k \in 1..Len(U) : D[e + 1 + k] = U[k]
    BY <1>6, <2>1 DEF Begins
  <2>3. e + 1 + Len(U) <= Len(D) /\ Len(D) \in Nat /\ e + 1 \in Nat
    BY <1>0, <1>5
  <2> QED
    BY <1>0, <2>2, <2>3 DEF Within
<1>9. D[e + 1] = z
  <2>1. e + 1 \in 1..Len(h1) /\ h1[e + 1] = z
    BY <1>2, <1>5
  <2> QED
    BY <1>6, <2>1 DEF Begins
<1>10. D[u + 1] = z /\ D[u + 2] = g
  <2>1. 1 \in 1..Len(F) /\ 2 \in 1..Len(F)
    BY <1>1
  <2> QED
    BY <1>1, <1>4, <1>5, <2>1
<1> QED
  BY <1>4, <1>5, <1>7, <1>8, <1>9, <1>10 DEF LaidOut

\* What is in a field is in the text, further on.
LEMMA Nested ==
  ASSUME NEW h, NEW D, NEW q, Within(h, D, q), NEW E, NEW x, Within(D, E, x)
  PROVE  Within(h, E, q + x)
<1> SUFFICES ASSUME NEW k \in 1..Len(E) PROVE h[q + x + k] = E[k]
  BY DEF Within
<1> DEFINE j == x + k
<1>1. j \in 1..Len(D) /\ q + j = q + x + k
  BY DEF Within
<1>2. D[j] = E[k]
  BY DEF Within
<1> HIDE DEF j
<1>3. h[q + j] = D[j]
  BY <1>1 DEF Within
<1> QED
  BY <1>1, <1>2, <1>3

\* What is found in credentials.
FoundCredentials(h, D, E, z, U, g, c, s1, s2) ==
  /\ FirstFrom(h, c + 2, z) = s1 /\ FirstFrom(h, s1 + 1, z) = s2
  /\ s1 \in Nat /\ s2 \in Nat /\ Len(D) = s2 + 1 - (c + 1)
  /\ Cut(h, c + 2, s1 - 1) = E /\ Cut(h, s1 + 1, s2 - 1) = U /\ Cut(h, s2 + 1, s2 + 1) = <<g>>

\* Looking for the slashes finds the credentials in the text.
LEMMA CredentialsFound ==
  ASSUME NEW S, NEW z \in S, NEW g \in S, NEW E \in Seq(S), NEW U \in Seq(S),
         NEW D, D = Credentials(E, z, U, g), NEW h \in Seq(S), NEW c \in Nat, Within(h, D, c + 1),
         Without(E, z), Without(U, z),
         NEW s1, s1 = c + 2 + Len(E), NEW s2, s2 = s1 + 1 + Len(U)
  PROVE  FoundCredentials(h, D, E, z, U, g, c, s1, s2)
<1> DEFINE e == Len(E)
           u == e + 1 + Len(U)
<1>1. /\ Len(E) \in Nat /\ Len(U) \in Nat /\ Len(h) \in Nat /\ e = Len(E) /\ u = e + 1 + Len(U)
      /\ s1 = c + 2 + e /\ s2 = c + 2 + u
  OBVIOUS
<1> HIDE DEF e, u
<1>2. LaidOut(S, D, E, z, U, g, e, u)
  BY <1>1, CredentialsAt
<1>3. /\ D \in Seq(S) /\ Len(D) = u + 2 /\ e \in Nat /\ u \in Nat
      /\ Within(D, E, 0) /\ Within(D, U, e + 1)
      /\ D[e + 1] = z /\ D[u + 1] = z /\ D[u + 2] = g
  BY <1>2 DEF LaidOut
<1>4. Within(h, E, c + 1) /\ Within(h, U, s1)
  <2>1. Within(h, E, c + 1 + 0) /\ Within(h, U, c + 1 + (e + 1))
    BY <1>3, Nested
  <2>2. c + 1 + 0 = c + 1 /\ c + 1 + (e + 1) = s1
    BY <1>3, <1>1
  <2> QED
    BY <2>1, <2>2
<1>5. /\ e + 1 \in 1..Len(D) /\ u + 1 \in 1..Len(D) /\ u + 2 \in 1..Len(D)
      /\ c + 1 + (e + 1) = s1 /\ c + 1 + (u + 1) = s2 /\ c + 1 + (u + 2) = s2 + 1
      /\ c + 1 + Len(D) <= Len(h) /\ c + 1 + Len(D) = s2 + 1
  <2>1. c + 1 + Len(D) <= Len(h)
    BY DEF Within
  <2> HIDE DEF Within
  <2> QED
    BY <1>3, <1>1, <2>1
<1>6. h[s1] = z /\ h[s2] = z /\ h[s2 + 1] = g
  <2>1. h[c + 1 + (e + 1)] = D[e + 1] /\ h[c + 1 + (u + 1)] = D[u + 1] /\ h[c + 1 + (u + 2)] = D[u + 2]
    BY <1>5 DEF Within
  <2> QED
    BY <1>3, <1>5, <2>1
<1>7. FirstFrom(h, c + 2, z) = s1
  <2>1. EndsAt(h, E, c + 1, c + 2, s1, z)
    BY <1>1, <1>3, <1>5, <1>6 DEF EndsAt
  <2> QED
    BY <1>4, <2>1, FindEnd
<1>8. FirstFrom(h, s1 + 1, z) = s2
  <2>1. EndsAt(h, U, s1, s1 + 1, s2, z)
    BY <1>1, <1>3, <1>5, <1>6 DEF EndsAt
  <2> QED
    BY <1>4, <2>1, FindEnd
<1>9. Spans(c + 2, s1 - 1, c + 1, E) /\ Spans(s1 + 1, s2 - 1, s1, U)
  BY <1>3, <1>1 DEF Spans
<1>10. Cut(h, c + 2, s1 - 1) = E /\ Cut(h, s1 + 1, s2 - 1) = U
  BY <1>4, <1>9, PartOf
<1>11. Cut(h, s2 + 1, s2 + 1) = <<g>>
  <2> DEFINE F == <<g>>
  <2>1. F \in Seq(S) /\ Len(F) = 1 /\ F[1] = g
    OBVIOUS
  <2> HIDE DEF F
  <2>2. s2 \in Nat /\ s2 + 1 <= Len(h) /\ \A k \in 1..1 : k = 1
    BY <1>3, <1>1, <1>5
  <2>3. Within(h, F, s2)
    <3>1. Len(F) \in Nat /\ Len(h) \in Nat /\ s2 + Len(F) <= Len(h)
      BY <2>1, <2>2
    <3>2. ASSUME NEW k \in 1..Len(F) PROVE h[s2 + k] = F[k]
      <4>1. k = 1
        BY <2>1
      <4> QED
        BY <1>6, <2>1, <4>1
    <3> QED
      BY <2>2, <3>1, <3>2 DEF Within
  <2>4. Spans(s2 + 1, s2 + 1, s2, F)
    BY <2>1 DEF Spans
  <2>5. Cut(h, s2 + 1, s2 + 1) = F
    BY <2>1, <2>3, <2>4, PartOf
  <2> QED
    BY <2>5 DEF F
<1>12. s1 \in Nat /\ s2 \in Nat /\ Len(D) = s2 + 1 - (c + 1)
  BY <1>1, <1>3
<1> QED
  BY <1>7, <1>8, <1>10, <1>11, <1>12 DEF FoundCredentials

\* What splitting a text makes of the places of its separators.
PartsAt(h, colon, set, cred, s1, s2, semi) ==
  [host |-> Cut(h, 1, colon - 1), port |-> Cut(h, colon + 1, set - 2),
   rs   |-> IF h[set] # "-" THEN Cut(h, set, cred - 2) ELSE Null,
   db   |-> IF h[cred] # "." THEN Cut(h, cred, s1 - 1) ELSE Null,
   user |-> IF h[cred] # "." THEN Cut(h, s1 + 1, s2 - 1) ELSE Null,
   auth |-> IF h[cred] # "." THEN Cut(h, s2 + 1, semi - 1) ELSE Null,
   pid  |-> Cut(h, semi + 1, Len(h))]

\* The letters of texts.  That the separators are strings is beyond the provers,
\* so they are named.
Letters == STRING \cup {":", ";", "/", "-", ".", "admin", "0", "1", "2", "7"}

\* A text is one of letters.
LEMMA TextLetters ==
  ASSUME NEW t, IsText(t)
  PROVE  t \in Seq(Letters)
<1> DEFINE S == STRING
<1>1. t \in Seq(S) /\ S \subseteq Letters
  BY DEF IsText, Letters
<1> HIDE DEF S
<1>2. Len(t) \in Nat /\ t \in [1..Len(t) -> S]
  BY <1>1
<1>3. t \in [1..Len(t) -> Letters]
  BY <1>1, <1>2
<1> QED
  BY <1>2, <1>3

\* A text that the user, the database and the set of a hash may be.
PlainUser(t) == t \in Seq(Letters) /\ Without(t, ";") /\ Without(t, "/")
PlainDb(t) == t \in Seq(Letters) /\ Without(t, ";") /\ Without(t, "/") /\ First(t, "/") # "."
PlainSet(t) == t \in Seq(Letters) /\ Without(t, ";") /\ First(t, ";") # "-"

\* The fields of the set and of the credentials.
SetField(d) == IF d.rs # Null THEN d.rs ELSE <<"-">>
CredentialField(d, p) ==
  IF Credentialed(d) THEN Credentials(d.db, "/", d.user, HashedPassword(p, d.pass, d.user)) ELSE <<".">>

\* A server whose hash can be taken apart again.
PlainServer(d, p) ==
  /\ d.host \in Seq(Letters) /\ Without(d.host, ":") /\ Without(d.host, ";")
  /\ d.port \in Seq(Letters) /\ Without(d.port, ";")
  /\ d.rs # Null => PlainSet(d.rs)
  /\ Credentialed(d) => /\ PlainDb(d.db) /\ PlainUser(d.user)
                        /\ HashedPassword(p, d.pass, d.user) \in Letters \ {";"}
  /\ p \in Seq(Letters)

\* mongo_server_create_hash writes five fields.
LEMMA HashFields ==
  ASSUME NEW d, NEW p
  PROVE  CreateHash(d, p) = Fields(d.host, ":", d.port, ";", SetField(d), CredentialField(d, p), p)
BY DEF CreateHash, Fields, SetField, CredentialField, Credentials

\* A text of one letter.
LEMMA OneLetter ==
  ASSUME NEW S, NEW x \in S, NEW y, y # x
  PROVE  <<x>> \in Seq(S) /\ Without(<<x>>, y) /\ First(<<x>>, y) = x
<1> DEFINE F == <<x>>
<1>1. F \in Seq(S) /\ Len(F) = 1 /\ F[1] = x
  OBVIOUS
<1> HIDE DEF F
<1>2. F \in Seq(S) /\ Without(F, y) /\ First(F, y) = x
  BY <1>1 DEF Without, First
<1> QED
  BY <1>2 DEF F

\* The field of the set begins with "-" when there is no set.
LEMMA SetFieldPlain ==
  ASSUME NEW d, NEW p, PlainServer(d, p)
  PROVE  /\ SetField(d) \in Seq(Letters) /\ Without(SetField(d), ";")
         /\ First(SetField(d), ";") # "-" <=> d.rs # Null
<1>1. CASE d.rs # Null
  BY <1>1 DEF SetField, PlainServer, PlainSet
<1>2. CASE d.rs = Null
  <2>1. SetField(d) = <<"-">>
    BY <1>2 DEF SetField
  <2>2. "-" \in Letters /\ ";" # "-"
    BY DEF Letters
  <2>3. <<"-">> \in Seq(Letters) /\ Without(<<"-">>, ";") /\ First(<<"-">>, ";") = "-"
    BY <2>2, OneLetter
  <2> QED
    BY <1>2, <2>1, <2>3
<1> QED
  BY <1>1, <1>2

\* The credentials hold no semicolon and begin like the database.
LEMMA CredentialsPlain ==
  ASSUME NEW S, NEW z \in S, NEW g \in S, NEW y, NEW E \in Seq(S), NEW U \in Seq(S),
         NEW D, D = Credentials(E, z, U, g), Without(E, y), Without(U, y), z # y, g # y
  PROVE  D \in Seq(S) /\ Without(D, y) /\ First(D, y) = First(E, z)
<1> DEFINE e == Len(E)
           u == e + 1 + Len(U)
<1>1. /\ Len(E) \in Nat /\ Len(U) \in Nat /\ e = Len(E) /\ u = e + 1 + Len(U)
  OBVIOUS
<1> HIDE DEF e, u
<1>2. LaidOut(S, D, E, z, U, g, e, u)
  BY <1>1, CredentialsAt
<1>3. /\ D \in Seq(S) /\ Len(D) = u + 2 /\ e \in Nat /\ u \in Nat
      /\ Within(D, E, 0) /\ Within(D, U, e + 1)
      /\ D[e + 1] = z /\ D[u + 1] = z /\ D[u + 2] = g
  BY <1>2 DEF LaidOut
<1>4. ASSUME NEW k \in 1..Len(D) PROVE D[k] # y
  <2>1. \/ k \in (0 + 1)..(0 + Len(E)) \/ k = e + 1
        \/ k \in (e + 1 + 1)..(e + 1 + Len(U)) \/ k = u + 1 \/ k = u + 2
    <3>1. Len(D) = u + 2 /\ e \in Nat /\ u \in Nat
      BY <1>3
    <3>2. k \in Nat /\ 1 <= k /\ k <= u + 2
      BY <3>1
    <3>3. k \in Nat /\ k <= Len(E) + 1 + Len(U) + 2
      BY <1>1, <3>2
    <3>4. \/ k <= 0 + Len(E) \/ k = Len(E) + 1
          \/ (Len(E) + 1 + 1 <= k /\ k <= Len(E) + 1 + Len(U))
          \/ k = Len(E) + 1 + Len(U) + 1 \/ k = Len(E) + 1 + Len(U) + 2
      BY <1>1, <3>3
    <3> QED
      BY <1>1, <3>2, <3>4
  <2>2. CASE k \in (0 + 1)..(0 + Len(E))
    <3>1. Within(D, E, 0)
      BY <1>3
    <3> QED
      BY <2>2, <3>1, Absent
  <2>3. CASE k \in (e + 1 + 1)..(e + 1 + Len(U))
    <3>1. Within(D, U, e + 1)
      BY <1>3
    <3> QED
      BY <2>3, <3>1, Absent
  <2>4. CASE k = e + 1 \/ k = u + 1 \/ k = u + 2
    BY <1>3, <2>4
  <2> QED
    BY <2>1, <2>2, <2>3, <2>4
<1>5. First(D, y) = First(E, z)
  <2>1. First(D, y) = D[1]
    BY <1>3 DEF First
  <2>2. CASE Len(E) = 0
    BY <1>1, <1>3, <2>1, <2>2 DEF First
  <2>3. CASE Len(E) # 0
    <3>1. 1 \in 1..Len(E) /\ 0 + 1 = 1
      BY <1>1, <2>3
    <3>2. D[0 + 1] = E[1]
      BY <1>3, <3>1 DEF Within
    <3> QED
      BY <2>1, <2>3, <3>1, <3>2 DEF First
  <2> QED
    BY <2>2, <2>3
<1> QED
  BY <1>3, <1>4, <1>5 DEF Without

\* The field of the credentials begins with "." when there are none.
LEMMA CredentialFieldPlain ==
  ASSUME NEW d, NEW p, PlainServer(d, p)
  PROVE  /\ CredentialField(d, p) \in Seq(Letters) /\ Without(CredentialField(d, p), ";")
         /\ First(CredentialField(d, p), ";") # "." <=> Credentialed(d)
<1>1. CASE Credentialed(d)
  <2> DEFINE g == HashedPassword(p, d.pass, d.user)
             D == CredentialField(d, p)
             x == ";"
             z == "/"
  <2>1. D = Credentials(d.db, z, d.user, g)
    BY <1>1 DEF CredentialField
  <2>2. /\ d.db \in Seq(Letters) /\ d.user \in Seq(Letters) /\ g \in Letters /\ g # x
        /\ Without(d.db, x) /\ Without(d.user, x) /\ First(d.db, z) # "."
    BY <1>1 DEF PlainServer, PlainDb, PlainUser
  <2>3. z \in Letters /\ z # x
    BY DEF Letters
  <2> HIDE DEF g, D, x, z
  <2>4. D \in Seq(Letters) /\ Without(D, x) /\ First(D, x) = First(d.db, z)
    BY <2>1, <2>2, <2>3, CredentialsPlain
  <2>5. First(D, x) # "."
    BY <2>2, <2>4
  <2> QED
    BY <1>1, <2>4, <2>5 DEF D, x
<1>2. CASE ~Credentialed(d)
  <2>1. CredentialField(d, p) = <<".">>
    BY <1>2 DEF CredentialField
  <2>2. "." \in Letters /\ ";" # "."
    BY DEF Letters
  <2>3. <<".">> \in Seq(Letters) /\ Without(<<".">>, ";") /\ First(<<".">>, ";") = "."
    BY <2>2, OneLetter
  <2> QED
    BY <1>2, <2>1, <2>3
<1> QED
  BY <1>1, <1>2

\* mongo_server_split_hash and mongo_server_hash_to_server find in a hash what
\* mongo_server_create_hash has put there.
LEMMA HashSplits ==
  ASSUME NEW d, NEW p, PlainServer(d, p)
  PROVE  /\ SplitHash(CreateHash(d, p)) = Parts(d, p)
         /\ HashToServer(CreateHash(d, p)) = d.host \o <<":">> \o d.port
<1> DEFINE x == ":"
           y == ";"
           z == "/"
           A == d.host
           B == d.port
           C == SetField(d)
           D == CredentialField(d, p)
           h == CreateHash(d, p)
           a == Len(A)
           b == a + 1 + Len(B)
           c == b + 1 + Len(C)
           e == c + 1 + Len(D)
<1>1. /\ A \in Seq(Letters) /\ B \in Seq(Letters) /\ C \in Seq(Letters) /\ D \in Seq(Letters)
      /\ p \in Seq(Letters)
      /\ Without(A, x) /\ Without(A, y) /\ Without(B, y) /\ Without(C, y) /\ Without(D, y)
      /\ First(C, y) # "-" <=> d.rs # Null
      /\ First(D, y) # "." <=> Credentialed(d)
  BY SetFieldPlain, CredentialFieldPlain DEF PlainServer
<1>2. x \in Letters /\ y \in Letters /\ z \in Letters /\ x # y
  BY DEF Letters
<1>3. h = Fields(A, x, B, y, C, D, p)
  BY HashFields
<1>4. /\ a = Len(A) /\ b = a + 1 + Len(B) /\ c = b + 1 + Len(C) /\ e = c + 1 + Len(D)
  OBVIOUS
<1>5. HashToServer(h) = Cut(h, 1, FirstFrom(h, 1, y) - 1)
  BY DEF HashToServer, Cut
<1>6. Credentialed(d) =>
        /\ D = Credentials(d.db, z, d.user, HashedPassword(p, d.pass, d.user))
        /\ d.db \in Seq(Letters) /\ d.user \in Seq(Letters) /\ Without(d.db, z) /\ Without(d.user, z)
        /\ HashedPassword(p, d.pass, d.user) \in Letters
  BY DEF CredentialField, PlainServer, PlainDb, PlainUser
<1>7. d.rs # Null => C = d.rs
  BY DEF SetField
<1>8. A = d.host /\ B = d.port
  OBVIOUS
<1> HIDE DEF x, y, z, A, B, C, D, h, a, b, c, e
<1>9. a \in Nat /\ b \in Nat /\ c \in Nat /\ e \in Nat
  <2>1. Len(A) \in Nat /\ Len(B) \in Nat /\ Len(C) \in Nat /\ Len(D) \in Nat
    BY <1>1
  <2> QED
    BY <1>4, <2>1
<1>10. Found(h, A, x, B, y, C, D, p, a, b, c, e)
  BY <1>1, <1>2, <1>3, <1>4, FieldsFound
<1>11. /\ FirstFrom(h, 1, x) = a + 1 /\ FirstFrom(h, a + 1, y) = b + 1
      /\ FirstFrom(h, b + 2, y) = c + 1 /\ FirstFrom(h, c + 2, y) = e + 1
      /\ FirstFrom(h, 1, y) = b + 1
      /\ Cut(h, 1, a) = A /\ Cut(h, a + 2, b) = B /\ Cut(h, b + 2, c) = C
      /\ Cut(h, e + 2, Len(h)) = p /\ Cut(h, 1, b) = A \o <<x>> \o B
      /\ h[b + 2] = First(C, y) /\ h[c + 2] = First(D, y)
  BY <1>10 DEF Found
<1>12. HashToServer(h) = d.host \o <<":">> \o d.port
  <2>1. b + 1 - 1 = b
    BY <1>9
  <2> DEFINE G == A \o <<x>> \o B
  <2>2. FirstFrom(h, 1, y) = b + 1 /\ Cut(h, 1, b) = G
    BY <1>11
  <2>3. G = d.host \o <<":">> \o d.port
    BY <1>8 DEF x
  <2> HIDE DEF G
  <2>4. FirstFrom(h, 1, y) - 1 = b
    BY <1>9, <2>1, <2>2
  <2>5. HashToServer(h) = G
    BY <1>5, <2>2, <2>4
  <2> QED
    BY <2>3, <2>5
<1> DEFINE s1 == FirstFrom(h, c + 2, z)
           s2 == FirstFrom(h, s1 + 1, z)
<1>13. SplitHash(h) =
         [host |-> Cut(h, 1, a), port |-> Cut(h, a + 2, b),
          rs   |-> IF h[b + 2] # "-" THEN Cut(h, b + 2, c) ELSE Null,
          db   |-> IF h[c + 2] # "." THEN Cut(h, c + 2, s1 - 1) ELSE Null,
          user |-> IF h[c + 2] # "." THEN Cut(h, s1 + 1, s2 - 1) ELSE Null,
          auth |-> IF h[c + 2] # "." THEN Cut(h, s2 + 1, e) ELSE Null,
          pid  |-> Cut(h, e + 2, Len(h))]
  <2>1. /\ (a + 1) - 1 = a /\ (a + 1) + 1 = a + 2 /\ (b + 1) + 1 = b + 2 /\ (b + 2) - 2 = b
        /\ (c + 1) + 1 = c + 2 /\ (c + 2) - 2 = c /\ (e + 1) - 1 = e /\ (e + 1) + 1 = e + 2
    BY <1>9
  <2> DEFINE k1 == a + 1
             k2 == b + 2
             k3 == c + 2
             k4 == e + 1
  <2>2. /\ FirstFrom(h, 1, ":") = k1 /\ FirstFrom(h, k1, ";") + 1 = k2
        /\ FirstFrom(h, k2, ";") + 1 = k3 /\ FirstFrom(h, k3, ";") = k4
    BY <1>11, <2>1 DEF x, y
  <2>3. FirstFrom(h, k3, "/") = s1 /\ FirstFrom(h, s1 + 1, "/") = s2
    BY DEF z
  <2>4. k1 - 1 = a /\ k1 + 1 = a + 2 /\ k2 - 2 = b /\ k3 - 2 = c /\ k4 - 1 = e /\ k4 + 1 = e + 2
    BY <2>1, <1>9
  <2> HIDE DEF k1, k2, k3, k4, s1, s2
  <2>5. SplitHash(h) = PartsAt(h, k1, k2, k3, s1, s2, k4)
    BY <2>2, <2>3 DEF SplitHash, PartsAt, Cut
  <2> QED
    BY <2>4, <2>5 DEF PartsAt, k2, k3
<1>14. Credentialed(d) =>
         Cut(h, c + 2, s1 - 1) = d.db /\ Cut(h, s1 + 1, s2 - 1) = d.user
         /\ Cut(h, s2 + 1, e) = <<HashedPassword(p, d.pass, d.user)>>
  <2> HAVE Credentialed(d)
  <2> DEFINE E == d.db
             U == d.user
             g == HashedPassword(p, d.pass, d.user)
             t1 == c + 2 + Len(E)
             t2 == t1 + 1 + Len(U)
  <2>1. h \in Seq(Letters) /\ Within(h, D, c + 1)
    <3>1. Laid(h, Letters, A, x, B, y, C, D, p, a, b, c, e)
      BY <1>1, <1>2, <1>3, <1>4, FieldsAt
    <3> QED
      BY <3>1 DEF Laid
  <2>2. t1 = c + 2 + Len(E) /\ t2 = t1 + 1 + Len(U)
    OBVIOUS
  <2>3. /\ D = Credentials(E, z, U, g) /\ E \in Seq(Letters) /\ U \in Seq(Letters)
        /\ Without(E, z) /\ Without(U, z) /\ g \in Letters
    BY <1>6
  <2> HIDE DEF E, U, g, t1, t2
  <2>4. FoundCredentials(h, D, E, z, U, g, c, t1, t2)
    BY <1>2, <1>9, <2>1, <2>2, <2>3, CredentialsFound
  <2>5. /\ FirstFrom(h, c + 2, z) = t1 /\ FirstFrom(h, t1 + 1, z) = t2
        /\ t1 \in Nat /\ t2 \in Nat /\ Len(D) = t2 + 1 - (c + 1)
        /\ Cut(h, c + 2, t1 - 1) = E /\ Cut(h, t1 + 1, t2 - 1) = U /\ Cut(h, t2 + 1, t2 + 1) = <<g>>
    BY <2>4 DEF FoundCredentials
  <2>6. s1 = t1 /\ s2 = t2
    BY <2>5
  <2>7. e = t2 + 1
    BY <1>4, <1>9, <2>5
  <2> QED
    BY <2>5, <2>6, <2>7 DEF E, U, g
<1> HIDE DEF s1, s2
<1>15. SplitHash(h) = Parts(d, p)
  <2>1. (h[b + 2] # "-") <=> d.rs # Null
    BY <1>1, <1>11
  <2>2. (h[c + 2] # ".") <=> Credentialed(d)
    BY <1>1, <1>11
  <2>3. (IF h[b + 2] # "-" THEN Cut(h, b + 2, c) ELSE Null) = d.rs
    BY <1>7, <1>11, <2>1
  <2>4. CASE Credentialed(d)
    BY <1>11, <1>13, <1>14, <1>8, <2>2, <2>3, <2>4 DEF Parts
  <2>5. CASE ~Credentialed(d)
    BY <1>11, <1>13, <1>8, <2>2, <2>3, <2>5 DEF Parts
  <2> QED
    BY <2>4, <2>5
<1> QED
  BY <1>12, <1>15 DEF h

\* A server whose fields are texts of letters of S, the separators among them.
TypedServer(S, d, p) ==
  /\ d.host \in Seq(S) /\ d.port \in Seq(S) /\ p \in Seq(S)
  /\ d.rs # Null => d.rs \in Seq(S)
  /\ Credentialed(d) => /\ d.db \in Seq(S) /\ d.user \in Seq(S)
                        /\ HashedPassword(p, d.pass, d.user) \in S
  /\ ":" \in S /\ ";" \in S /\ "/" \in S /\ "." \in S /\ "-" \in S

\* The length of the field of the set.
LEMMA SetFieldLength ==
  ASSUME NEW S, NEW d, NEW p, TypedServer(S, d, p)
  PROVE  /\ SetField(d) \in Seq(S) /\ Len(SetField(d)) \in Nat
         /\ Len(SetField(d)) = IF d.rs # Null THEN Len(d.rs) ELSE 1
<1>1. CASE d.rs # Null
  <2> DEFINE F == SetField(d)
  <2>1. F = d.rs /\ d.rs \in Seq(S)
    BY <1>1 DEF SetField, TypedServer
  <2> HIDE DEF F
  <2>2. F \in Seq(S) /\ Len(F) \in Nat /\ Len(F) = Len(d.rs)
    BY <2>1
  <2> QED
    BY <1>1, <2>2 DEF F
<1>2. CASE d.rs = Null
  <2> DEFINE x == "-"
  <2>1. x \in S /\ SetField(d) = <<x>>
    BY <1>2 DEF SetField, TypedServer
  <2> HIDE DEF x
  <2>2. <<x>> \in Seq(S) /\ Len(<<x>>) = 1
    BY <2>1
  <2> QED
    BY <1>2, <2>1, <2>2
<1> QED
  BY <1>1, <1>2

\* The length of the field of the credentials, whose digest is one letter here.
LEMMA CredentialFieldLength ==
  ASSUME NEW S, NEW d, NEW p, TypedServer(S, d, p)
  PROVE  /\ CredentialField(d, p) \in Seq(S) /\ Len(CredentialField(d, p)) \in Nat
         /\ Credentialed(d) => /\ Len(d.db) \in Nat /\ Len(d.user) \in Nat
                               /\ Len(CredentialField(d, p)) = Len(d.db) + Len(d.user) + 3
         /\ ~Credentialed(d) => Len(CredentialField(d, p)) = 1
<1>1. CASE Credentialed(d)
  <2> DEFINE g == HashedPassword(p, d.pass, d.user)
             z == "/"
             X == CredentialField(d, p)
             E == d.db
             U == d.user
             e == Len(E)
             u == e + 1 + Len(U)
  <2>1. X = Credentials(E, z, U, g) /\ E \in Seq(S) /\ U \in Seq(S) /\ g \in S /\ z \in S
    BY <1>1 DEF CredentialField, TypedServer
  <2>2. e = Len(E) /\ u = e + 1 + Len(U)
    OBVIOUS
  <2> HIDE DEF g, z, X, E, U, e, u
  <2>3. LaidOut(S, X, E, z, U, g, e, u)
    BY <2>1, <2>2, CredentialsAt
  <2>4. X \in Seq(S) /\ Len(X) = u + 2
    BY <2>3 DEF LaidOut
  <2>5. Len(E) \in Nat /\ Len(U) \in Nat
    BY <2>1
  <2>6. Len(X) = Len(E) + Len(U) + 3 /\ Len(X) \in Nat
    BY <2>2, <2>4, <2>5
  <2> QED
    BY <1>1, <2>4, <2>5, <2>6 DEF X, E, U
<1>2. CASE ~Credentialed(d)
  <2> DEFINE x == "."
  <2>1. x \in S /\ CredentialField(d, p) = <<x>>
    BY <1>2 DEF CredentialField, TypedServer
  <2> HIDE DEF x
  <2>2. <<x>> \in Seq(S) /\ Len(<<x>>) = 1
    BY <2>1
  <2> QED
    BY <1>2, <2>1, <2>2
<1> QED
  BY <1>1, <1>2

\* Len(CreateHash), field by field.
LEMMA HashLength ==
  ASSUME NEW S, NEW d, NEW p, TypedServer(S, d, p)
  PROVE  /\ Len(CreateHash(d, p)) = Len(d.host) + Len(d.port) + Len(SetField(d))
                                      + Len(CredentialField(d, p)) + Len(p) + 4
         /\ Len(d.host) \in Nat /\ Len(d.port) \in Nat /\ Len(p) \in Nat
<1> DEFINE x == ":"
           y == ";"
           A == d.host
           B == d.port
           C == SetField(d)
           D == CredentialField(d, p)
           h == CreateHash(d, p)
           a == Len(A)
           b == a + 1 + Len(B)
           c == b + 1 + Len(C)
           e == c + 1 + Len(D)
<1>1. A \in Seq(S) /\ B \in Seq(S) /\ C \in Seq(S) /\ D \in Seq(S) /\ p \in Seq(S)
  BY SetFieldLength, CredentialFieldLength DEF TypedServer
<1>2. x \in S /\ y \in S
  BY DEF TypedServer
<1>3. h = Fields(A, x, B, y, C, D, p)
  BY HashFields
<1>4. a = Len(A) /\ b = a + 1 + Len(B) /\ c = b + 1 + Len(C) /\ e = c + 1 + Len(D)
  OBVIOUS
<1> HIDE DEF x, y, A, B, C, D, h, a, b, c, e
<1>5. Laid(h, S, A, x, B, y, C, D, p, a, b, c, e)
  BY <1>1, <1>2, <1>3, <1>4, FieldsAt
<1>6. Len(h) = e + 1 + Len(p)
  BY <1>5 DEF Laid
<1>7. /\ Len(A) \in Nat /\ Len(B) \in Nat /\ Len(C) \in Nat /\ Len(D) \in Nat
      /\ Len(p) \in Nat
  BY <1>1
<1>8. Len(h) = Len(A) + Len(B) + Len(C) + Len(D) + Len(p) + 4
  BY <1>4, <1>6, <1>7
<1> QED
  BY <1>7, <1>8 DEF A, B, C, D, h

\* What is written runs over what is allocated by what the digits of port and pid
\* run over the room there is for them: everything else is counted.
LEMMA RunsOver ==
  ASSUME NEW S, NEW d, NEW p, TypedServer(S, d, p)
  PROVE  /\ Written(d, p) - Allocated(d) = Len(d.port) + Len(p) - DigitsRoom(d)
         /\ Written(d, p) \in Int /\ Allocated(d) \in Int
         /\ Len(d.port) \in Int /\ Len(p) \in Int /\ DigitsRoom(d) \in Int
<1> DEFINE A == Len(d.host)
           B == Len(d.port)
           C == Len(SetField(d))
           D == Len(CredentialField(d, p))
           P == Len(p)
           E == Len(d.db)
           U == Len(d.user)
           R == Len(d.rs)
           H == Len(CreateHash(d, p))
           yes == Credentialed(d)
           set == d.rs # Null
<1>1. H = A + B + C + D + P + 4 /\ A \in Nat /\ B \in Nat /\ P \in Nat
  BY HashLength
<1>2. C \in Nat /\ C = IF set THEN R ELSE 1
  BY SetFieldLength
<1>3. /\ D \in Nat
      /\ yes => E \in Nat /\ U \in Nat /\ D = E + U + 3
      /\ ~yes => D = 1
  BY CredentialFieldLength
<1>4. Written(d, p) = H + (IF yes THEN 31 ELSE 0) + 1
  BY DEF Written, DigestLength
<1>5. Allocated(d) = A + 1 + 5 + 1 + (IF set THEN R + 1 ELSE 0)
                       + (IF yes THEN E + 1 + U + 1 + 32 + 1 ELSE 0) + 10
  BY DEF Allocated, DigestLength
<1>6. DigitsRoom(d) = 10 + (IF set THEN 2 ELSE 0) + (IF yes THEN 2 ELSE 0)
  BY DEF DigitsRoom
<1> DEFINE w == Written(d, p)
           m == Allocated(d)
           r == DigitsRoom(d)
<1> HIDE DEF A, B, C, D, P, E, U, R, H, yes, set, w, m, r
<1>7. /\ w = H + (IF yes THEN 31 ELSE 0) + 1
      /\ m = A + 1 + 5 + 1 + (IF set THEN R + 1 ELSE 0)
               + (IF yes THEN E + 1 + U + 1 + 32 + 1 ELSE 0) + 10
      /\ r = 10 + (IF set THEN 2 ELSE 0) + (IF yes THEN 2 ELSE 0)
  BY <1>4, <1>5, <1>6 DEF w, m, r
<1>8. w - m = B + P - r /\ w \in Int /\ m \in Int /\ B \in Int /\ P \in Int /\ r \in Int
  <2>1. CASE yes /\ set
    <3>1. /\ m = A + 1 + 5 + 1 + (R + 1) + (E + 1 + U + 1 + 32 + 1) + 10
          /\ w = H + 31 + 1 /\ r = 10 + 2 + 2
      BY <1>7, <2>1
    <3>2. C = R /\ D = E + U + 3 /\ R \in Nat /\ E \in Nat /\ U \in Nat
      BY <1>2, <1>3, <2>1
    <3> QED
      BY <1>1, <3>1, <3>2
  <2>2. CASE yes /\ ~set
    <3>1. /\ m = A + 1 + 5 + 1 + 0 + (E + 1 + U + 1 + 32 + 1) + 10
          /\ w = H + 31 + 1 /\ r = 10 + 0 + 2
      BY <1>7, <2>2
    <3>2. C = 1 /\ D = E + U + 3 /\ E \in Nat /\ U \in Nat
      BY <1>2, <1>3, <2>2
    <3> QED
      BY <1>1, <3>1, <3>2
  <2>3. CASE ~yes /\ set
    <3>1. m = A + 1 + 5 + 1 + (R + 1) + 0 + 10 /\ w = H + 0 + 1 /\ r = 10 + 2 + 0
      BY <1>7, <2>3
    <3>2. C = R /\ D = 1 /\ R \in Nat
      BY <1>2, <1>3, <2>3
    <3> QED
      BY <1>1, <3>1, <3>2
  <2>4. CASE ~yes /\ ~set
    <3>1. m = A + 1 + 5 + 1 + 0 + 0 + 10 /\ w = H + 0 + 1 /\ r = 10 + 0 + 0
      BY <1>7, <2>4
    <3>2. C = 1 /\ D = 1
      BY <1>2, <1>3, <2>4
    <3> QED
      BY <1>1, <3>1, <3>2
  <2> QED
    BY <2>1, <2>2, <2>3, <2>4
<1> QED
  BY <1>8 DEF w, m, r, B, P
-----------------------------------------------------------------------------
(* The options of a client *)

\* What the sources hold.
Given == UrlOptions \cup ArrOptions
Texts == {o.text : o \in Given} \cup {s.user : s \in Specs} \cup {s.pass : s \in Specs}
           \cup {s.db : s \in Specs} \cup {Null, <<"admin">>}
HostsOf(s) == {s.hosts[k] : k \in 1..Len(s.hosts)}
GivenHosts == UNION {HostsOf(s) : s \in Specs}
HostTexts == {h.host : h \in GivenHosts}
PortTexts == ({h.port : h \in GivenHosts} \ {Null}) \cup {<<"2", "7", "0", "1", "7">>}

Words == {o.value : o \in Given}
           \cup {"STANDALONE", "MULTIPLE", "REPLSET", "mongodb", "primary", "secondaryPreferred"}

Defs == [host : HostTexts, port : PortTexts, user : Texts, pass : Texts, db : Texts,
         authdb : Texts, mech : AuthMechanisms, rs : Texts]

OptionValues ==
  [rs : Texts, type : Words, connectTimeoutMS : Int, socketTimeoutMS : Int, latency : Int,
   w : Int, wstring : Words \cup {Null}, wtimeout : Int, fsync : BOOLEAN, journal : BOOLEAN,
   ssl : BOOLEAN, gssapi : Words]

Settings ==
  [server : Seq(Defs), options : OptionValues, read_pref : [type : Words, tagsets : Nat]]
-----------------------------------------------------------------------------
(* mongo_store_option, seen from one server *)

\* replicaSet with a value that names no set.
NamesNoSet(o) == o.text \in {<<>>, <<"1">>}

\* What option o makes of the definition d.
Told(d, o) ==
  CASE o.name = "authMechanism" /\ o.value \in AuthMechanisms -> [d EXCEPT !.mech = o.value]
    [] o.name = "authSource" -> [d EXCEPT !.authdb = o.text]
    [] o.name = "db" -> [d EXCEPT !.db = o.text, !.authdb = IF d.db # Null THEN Null ELSE @]
    [] o.name = "password" -> [d EXCEPT !.pass = o.text]
    [] o.name = "replicaSet" /\ ~NamesNoSet(o) /\ o.text # Null -> [d EXCEPT !.rs = o.text]
    [] o.name = "username" ->
         [d EXCEPT !.user = o.text,
                   !.db = IF @ = Null THEN <<"admin">> ELSE @,
                   !.authdb = IF d.db = Null /\ @ = Null THEN <<"admin">> ELSE @]
    [] OTHER -> d

\* An option keeps a definition a definition, of the same host and port.
LEMMA ToldType ==
  ASSUME NEW d \in Defs, NEW o \in Given
  PROVE  Told(d, o) \in Defs /\ Told(d, o).host = d.host /\ Told(d, o).port = d.port
<1>1. o.text \in Texts /\ Null \in Texts /\ <<"admin">> \in Texts
  BY DEF Texts
<1> DEFINE T == Texts
           H == HostTexts
           P == PortTexts
           A == AuthMechanisms
           admin == <<"admin">>
<1>2. d \in [host : H, port : P, user : T, pass : T, db : T, authdb : T, mech : A, rs : T]
      /\ o.text \in T /\ Null \in T /\ admin \in T
  BY <1>1 DEF Defs
<1> HIDE DEF T, H, P, admin
<1>3. /\ Told(d, o) \in [host : H, port : P, user : T, pass : T, db : T, authdb : T, mech : A, rs : T]
      /\ Told(d, o).host = d.host /\ Told(d, o).port = d.port
  BY <1>2 DEF Told, admin
<1> QED
  BY <1>3 DEF Defs, T, H, P

\* The list of servers after option o.
ToldAll(s, o) == [k \in 1..Len(s.server) |-> Told(s.server[k], o)]

LEMMA ToldAllType ==
  ASSUME NEW s \in Settings, NEW o \in Given
  PROVE  /\ ToldAll(s, o) \in Seq(Defs) /\ Len(ToldAll(s, o)) = Len(s.server)
         /\ \A k \in 1..Len(s.server) : s.server[k] \in Defs /\ ToldAll(s, o)[k] = Told(s.server[k], o)
<1>1. s.server \in Seq(Defs)
  BY DEF Settings
<1>2. Len(s.server) \in Nat /\ \A k \in 1..Len(s.server) : s.server[k] \in Defs
  BY <1>1
<1>3. \A k \in 1..Len(s.server) : Told(s.server[k], o) \in Defs
  BY <1>2, ToldType
<1> HIDE DEF Told
<1> QED
  BY <1>2, <1>3 DEF ToldAll

\* Replacing the list of servers keeps everything else.
LEMMA ServerReplaced ==
  ASSUME NEW s \in Settings, NEW L \in Seq(Defs)
  PROVE  /\ [s EXCEPT !.server = L] \in Settings
         /\ [s EXCEPT !.server = L].server = L
         /\ [s EXCEPT !.server = L].options = s.options
         /\ [s EXCEPT !.server = L].read_pref = s.read_pref
BY DEF Settings

\* Replacing the options keeps everything else.
LEMMA OptionsReplaced ==
  ASSUME NEW s \in Settings, NEW v \in OptionValues
  PROVE  /\ [s EXCEPT !.options = v] \in Settings
         /\ [s EXCEPT !.options = v].server = s.server
         /\ [s EXCEPT !.options = v].options = v
         /\ [s EXCEPT !.options = v].read_pref = s.read_pref
BY DEF Settings

\* The options that loop over the servers.
LEMMA LoopedTold ==
  ASSUME NEW s \in Settings, NEW o \in Given,
         o.name \in {"authMechanism", "authSource", "db", "password", "username"}
  PROVE  \/ /\ StoreOption(s, o).s = [s EXCEPT !.server = ToldAll(s, o)]
            /\ StoreOption(s, o).code = 0
            /\ o.name = "authMechanism" => o.value \in AuthMechanisms
         \/ StoreOption(s, o).s = s /\ StoreOption(s, o).code = 3
              /\ \A k \in 1..Len(s.server) : Told(s.server[k], o) = s.server[k]
<1>1. CASE o.name = "authMechanism"
  BY <1>1 DEF StoreOption, Stored, Refused, EachServer, ToldAll, Told
<1>2. CASE o.name = "authSource"
  BY <1>2 DEF StoreOption, Stored, EachServer, ToldAll, Told
<1>3. CASE o.name = "db"
  BY <1>3 DEF StoreOption, Stored, StoreDb, EachServer, ToldAll, Told
<1>4. CASE o.name = "password"
  BY <1>4 DEF StoreOption, Stored, EachServer, ToldAll, Told
<1>5. CASE o.name = "username"
  BY <1>5 DEF StoreOption, Stored, StoreUsername, EachServer, ToldAll, Told
<1> QED
  BY <1>1, <1>2, <1>3, <1>4, <1>5

\* An option that is none of theirs leaves the servers alone.
LEMMA ToldNothing ==
  ASSUME NEW s \in Settings, NEW o \in Given,
         \A k \in 1..Len(s.server) : Told(s.server[k], o) = s.server[k]
  PROVE  ToldAll(s, o) = s.server
<1>1. s.server \in Seq(Defs)
  BY DEF Settings
<1> HIDE DEF Told
<1> QED
  BY <1>1 DEF ToldAll

\* What the write concern says: nothing, a number or a mode.
OneWriteConcern(v) == v.w >= 0 <=> v.wstring = Null
NoWriteConcern(v) == v.w = -1 /\ v.wstring = Null

\* The outcome of mongo_store_option.
Effect(s, o, r) ==
  /\ r.s \in Settings /\ r.code \in Int
  /\ r.s.server = ToldAll(s, o)
  /\ o.name = "authMechanism" => o.value \in AuthMechanisms \/ r.code > 0
  /\ r.s.options.rs = IF o.name # "replicaSet" THEN s.options.rs
                      ELSE IF NamesNoSet(o) THEN Null ELSE o.text
  /\ \/ r.s.options.w = s.options.w /\ r.s.options.wstring = s.options.wstring
     \/ r.code > 0 \/ OneWriteConcern(r.s.options)

\* replicaSet
LEMMA ReplicaSetEffect ==
  ASSUME NEW s \in Settings, NEW o \in Given, o.name = "replicaSet"
  PROVE  Effect(s, o, StoreOption(s, o))
<1> DEFINE name == IF NamesNoSet(o) THEN Null ELSE o.text
           kind == IF o.text = <<>> THEN s.options.type ELSE "REPLSET"
           v == [s.options EXCEPT !.rs = name, !.type = kind]
           t == [s EXCEPT !.options = v]
<1>1. s.options \in OptionValues
  BY DEF Settings
<1>2. name \in Texts /\ kind \in Words
  <2>1. o.text \in Texts /\ Null \in Texts
    BY DEF Texts
  <2>2. s.options.type \in Words /\ "REPLSET" \in Words
    BY <1>1 DEF OptionValues, Words
  <2>3. name \in Texts
    BY <2>1
  <2>4. kind \in Words
    BY <2>2
  <2> QED
    BY <2>3, <2>4
<1>3. [s EXCEPT !.options.rs = IF o.text \in {<<>>, <<"1">>} THEN Null ELSE o.text,
                !.options.type = IF o.text = <<>> THEN @ ELSE "REPLSET"] = t
  <2>1. name = IF o.text \in {<<>>, <<"1">>} THEN Null ELSE o.text
    BY DEF NamesNoSet
  <2>2. \A a : [s EXCEPT !.options.rs = a,
                        !.options.type = IF o.text = <<>> THEN @ ELSE "REPLSET"]
              = [s EXCEPT !.options = [s.options EXCEPT !.rs = a, !.type = kind]]
    BY <1>1 DEF Settings, OptionValues
  <2> QED
    BY <2>1, <2>2
<1>4. StoreReplicaSet(s, o) =
        IF t.options.rs = Null THEN t
        ELSE [t EXCEPT !.server = [k \in 1..Len(@) |-> [@[k] EXCEPT !.rs = o.text]]]
  <2> HIDE DEF name, kind, v, t
  <2> QED
    BY <1>3 DEF StoreReplicaSet, EachServer
<1> HIDE DEF name, kind
<1>5. v \in OptionValues /\ v.rs = name /\ v.w = s.options.w /\ v.wstring = s.options.wstring
  BY <1>1, <1>2 DEF OptionValues
<1>6. StoreOption(s, o) = Stored(StoreReplicaSet(s, o))
  BY DEF StoreOption
<1> HIDE DEF v
<1>7. t \in Settings /\ t.server = s.server /\ t.options = v
  BY <1>5, OptionsReplaced
<1> HIDE DEF t
<1>8. ToldAll(s, o) \in Seq(Defs)
  BY ToldAllType
<1>9. CASE name = Null
  <2>1. StoreReplicaSet(s, o) = t
    BY <1>5, <1>4, <1>7, <1>9
  <2>2. \A k \in 1..Len(s.server) : Told(s.server[k], o) = s.server[k]
    BY <1>9 DEF Told, name
  <2>3. ToldAll(s, o) = s.server
    BY <2>2, ToldNothing
  <2> QED
    BY <1>5, <1>6, <1>7, <2>1, <2>3 DEF Effect, Stored, name
<1>10. CASE name # Null
  <2>1. StoreReplicaSet(s, o) = [t EXCEPT !.server = [k \in 1..Len(@) |-> [@[k] EXCEPT !.rs = o.text]]]
    BY <1>5, <1>4, <1>7, <1>10
  <2>2. [k \in 1..Len(s.server) |-> [s.server[k] EXCEPT !.rs = o.text]] = ToldAll(s, o)
    BY <1>10 DEF ToldAll, Told, name
  <2>3. StoreReplicaSet(s, o) = [t EXCEPT !.server = ToldAll(s, o)]
    BY <1>7, <2>1, <2>2
  <2>4. /\ StoreReplicaSet(s, o) \in Settings /\ StoreReplicaSet(s, o).server = ToldAll(s, o)
        /\ StoreReplicaSet(s, o).options = v
    BY <1>7, <1>8, <2>3, ServerReplaced
  <2> QED
    BY <1>5, <1>6, <2>4 DEF Effect, Stored, name
<1> QED
  BY <1>9, <1>10

\* The options that set one value, and those that are refused.
LEMMA PlainEffect ==
  ASSUME NEW s \in Settings, NEW o \in Given,
         o.name \notin {"authMechanism", "authSource", "db", "password", "replicaSet", "username"}
  PROVE  Effect(s, o, StoreOption(s, o))
<1> DEFINE r == StoreOption(s, o)
<1> SUFFICES Effect(s, o, r)
  OBVIOUS
<1>0. o.name # "replicaSet" /\ o.name # "authMechanism"
  OBVIOUS
<1>1. /\ s.options \in OptionValues /\ s.read_pref \in [type : Words, tagsets : Nat]
      /\ s.server \in Seq(Defs)
      /\ s = [server |-> s.server, options |-> s.options, read_pref |-> s.read_pref]
  BY DEF Settings
<1>2. o.num \in Int /\ o.value \in Words /\ "secondaryPreferred" \in Words /\ o.value # Null
  BY ClientAssumption DEF Given, Words
<1>3. \A k \in 1..Len(s.server) : Told(s.server[k], o) = s.server[k]
  BY DEF Told
<1>4. ToldAll(s, o) = s.server
  BY <1>3, ToldNothing
<1>5. r.code \in Int
      /\ \/ \E p \in [type : Words, tagsets : Nat] : r.s = [s EXCEPT !.read_pref = p]
         \/ \E v \in OptionValues : r.s = [s EXCEPT !.options = v] /\ v.rs = s.options.rs
              /\ \/ v.w = s.options.w /\ v.wstring = s.options.wstring
                 \/ r.code > 0 \/ OneWriteConcern(v)
  <2>0. s = [s EXCEPT !.read_pref = s.read_pref]
    BY DEF Settings
  <2>1. CASE o.name = "readPreference"
    <3>1. r.code \in Int /\ r.s \in {s, [s EXCEPT !.read_pref.type = o.value]}
      BY <2>1 DEF StoreOption, Stored, Refused
    <3> DEFINE p == [s.read_pref EXCEPT !.type = o.value]
    <3>2. [s EXCEPT !.read_pref.type = o.value] = [s EXCEPT !.read_pref = p]
      OBVIOUS
    <3>3. p \in [type : Words, tagsets : Nat]
      BY <1>1, <1>2
    <3> HIDE DEF p, r
    <3> QED
      BY <1>1, <2>0, <3>1, <3>2, <3>3
  <2>2. CASE o.name = "readPreferenceTags"
    <3>1. r.code \in Int /\ r.s \in {s, [s EXCEPT !.read_pref.tagsets = @ + 1]}
      BY <2>2 DEF StoreOption, StoreTags, Stored, Refused
    <3> DEFINE p == [s.read_pref EXCEPT !.tagsets = @ + 1]
    <3>2. [s EXCEPT !.read_pref.tagsets = @ + 1] = [s EXCEPT !.read_pref = p]
      OBVIOUS
    <3>3. p \in [type : Words, tagsets : Nat]
      BY <1>1
    <3> HIDE DEF p, r
    <3> QED
      BY <1>1, <2>0, <3>1, <3>2, <3>3
  <2>3. CASE o.name = "slaveOkay"
    <3>1. r.code \in Int /\ r.s \in {s, [s EXCEPT !.read_pref.type = "secondaryPreferred"]}
      BY <2>3 DEF StoreOption, StoreSlaveOkay, Deprecated, Refused
    <3> DEFINE p == [s.read_pref EXCEPT !.type = "secondaryPreferred"]
    <3>2. [s EXCEPT !.read_pref.type = "secondaryPreferred"] = [s EXCEPT !.read_pref = p]
      OBVIOUS
    <3>3. p \in [type : Words, tagsets : Nat]
      BY <1>1, <1>2
    <3> HIDE DEF p, r
    <3> QED
      BY <1>1, <2>0, <3>1, <3>2, <3>3
  <2>4. CASE o.name = "w"
    <3> DEFINE mode == [s.options EXCEPT !.w = -1, !.wstring = o.value]
               count == [s.options EXCEPT !.w = o.num, !.wstring = Null]
    <3>1. [s EXCEPT !.options.w = o.num, !.options.wstring = Null] = [s EXCEPT !.options = count]
      BY <1>1 DEF Settings, OptionValues
    <3>2. [s EXCEPT !.options.w = -1, !.options.wstring = o.value] = [s EXCEPT !.options = mode]
      BY <1>1 DEF Settings, OptionValues
    <3>3. /\ r.code \in Int
          /\ \/ r.s = [s EXCEPT !.options = count] /\ (o.num < 0 => r.code > 0)
             \/ r.s = [s EXCEPT !.options = mode]
      <4>1. r = StoreW(s, o)
        BY <2>4 DEF StoreOption
      <4> QED
        BY <3>1, <3>2, <4>1 DEF StoreW, Stored
    <3>4. count \in OptionValues /\ count.rs = s.options.rs /\ count.w = o.num /\ count.wstring = Null
      BY <1>1, <1>2 DEF OptionValues
    <3>5. -1 \in Int /\ ~(-1 >= 0)
      OBVIOUS
    <3>6. mode \in OptionValues /\ mode.rs = s.options.rs /\ mode.w = -1 /\ mode.wstring = o.value
      BY <1>1, <1>2, <3>5 DEF OptionValues
    <3> HIDE DEF r, count, mode
    <3>7. OneWriteConcern(mode)
      BY <1>2, <3>5, <3>6 DEF OneWriteConcern
    <3>8. o.num < 0 \/ OneWriteConcern(count)
      BY <1>2, <3>4 DEF OneWriteConcern
    <3> QED
      BY <3>3, <3>4, <3>6, <3>7, <3>8
  <2>5. CASE o.name \notin {"readPreference", "readPreferenceTags", "slaveOkay", "w"}
    <3> DEFINE Same(v) == /\ v \in OptionValues /\ v.rs = s.options.rs
                          /\ v.w = s.options.w /\ v.wstring = s.options.wstring
    <3> SUFFICES r.code \in Int /\ \E v : r.s = [s EXCEPT !.options = v] /\ Same(v)
      BY DEF Same
    <3> DEFINE set(name, x) == [s.options EXCEPT ![name] = x]
    <3>0. s = [s EXCEPT !.options = s.options] /\ Same(s.options)
      BY <1>1 DEF Settings
    <3>1. \A b \in BOOLEAN : Same(set("fsync", b)) /\ Same(set("journal", b)) /\ Same(set("ssl", b))
      BY <1>1 DEF OptionValues
    <3>2. /\ Same(set("gssapi", o.value)) /\ Same(set("connectTimeoutMS", o.num))
          /\ Same(set("latency", o.num)) /\ Same(set("socketTimeoutMS", o.num))
          /\ Same(set("wtimeout", o.num))
      BY <1>1, <1>2 DEF OptionValues
    <3>3. IsTrue(o) \in BOOLEAN
      BY DEF IsTrue
    <3>4. CASE o.name = "ssl"
      <4>1. r = StoreSsl(s, o)
        BY <3>4 DEF StoreOption
      <4>2. r.code \in Int /\ r.s \in {s, [s EXCEPT !.options = set("ssl", IsTrue(o))]}
        BY <4>1 DEF StoreSsl, Stored, Refused
      <4> HIDE DEF r, Same, set
      <4> QED
        BY <3>0, <3>1, <3>3, <4>2
    <3>5. CASE o.name # "ssl"
      <4>1. r = StoreSetting(s, o)
        BY <2>5, <3>5 DEF StoreOption
      <4> DEFINE to(name, x) == [s EXCEPT !.options = set(name, x)]
      <4>2. /\ r.code \in Int
            /\ r.s \in {s, to("fsync", IsTrue(o)), to("journal", IsTrue(o)), to("gssapi", o.value),
                        to("connectTimeoutMS", o.num), to("latency", o.num),
                        to("socketTimeoutMS", o.num), to("wtimeout", o.num)}
        <5>1. /\ [s EXCEPT !.options.connectTimeoutMS = o.num] = to("connectTimeoutMS", o.num)
              /\ [s EXCEPT !.options.fsync = IsTrue(o)] = to("fsync", IsTrue(o))
              /\ [s EXCEPT !.options.journal = IsTrue(o)] = to("journal", IsTrue(o))
              /\ [s EXCEPT !.options.gssapi = o.value] = to("gssapi", o.value)
              /\ [s EXCEPT !.options.latency = o.num] = to("latency", o.num)
              /\ [s EXCEPT !.options.socketTimeoutMS = o.num] = to("socketTimeoutMS", o.num)
              /\ [s EXCEPT !.options.wtimeout = o.num] = to("wtimeout", o.num)
          OBVIOUS
        <5> HIDE DEF to, set, r
        <5> QED
          BY <4>1, <5>1 DEF StoreSetting, Stored, Refused, Deprecated
      <4>3. \A name, x : to(name, x) = [s EXCEPT !.options = set(name, x)]
        OBVIOUS
      <4> HIDE DEF r, Same, set, to
      <4> QED
        BY <3>0, <3>1, <3>2, <3>3, <4>2, <4>3
    <3> QED
      BY <3>4, <3>5
  <2> QED
    BY <2>1, <2>2, <2>3, <2>4, <2>5
<1>6. CASE \E p \in [type : Words, tagsets : Nat] : r.s = [s EXCEPT !.read_pref = p]
  <2>1. PICK p \in [type : Words, tagsets : Nat] : r.s = [s EXCEPT !.read_pref = p]
    BY <1>6
  <2>2. r.s \in Settings /\ r.s.server = s.server /\ r.s.options = s.options
    BY <2>1 DEF Settings
  <2> HIDE DEF r
  <2> QED
    BY <1>0, <1>4, <1>5, <2>2 DEF Effect
<1>7. CASE \E v \in OptionValues : r.s = [s EXCEPT !.options = v] /\ v.rs = s.options.rs
              /\ \/ v.w = s.options.w /\ v.wstring = s.options.wstring
                 \/ r.code > 0 \/ OneWriteConcern(v)
  <2>1. PICK v \in OptionValues : r.s = [s EXCEPT !.options = v] /\ v.rs = s.options.rs
              /\ \/ v.w = s.options.w /\ v.wstring = s.options.wstring
                 \/ r.code > 0 \/ OneWriteConcern(v)
    BY <1>7
  <2>2. r.s \in Settings /\ r.s.server = s.server /\ r.s.options = v
    BY <2>1, OptionsReplaced
  <2> HIDE DEF r
  <2> QED
    BY <1>0, <1>4, <1>5, <2>1, <2>2 DEF Effect
<1> QED
  BY <1>5, <1>6, <1>7

\* mongo_store_option, whatever the option.
LEMMA StoreEffect ==
  ASSUME NEW s \in Settings, NEW o \in Given
  PROVE  Effect(s, o, StoreOption(s, o))
<1>1. CASE o.name \in {"authMechanism", "authSource", "db", "password", "username"}
  <2> DEFINE r == StoreOption(s, o)
  <2> SUFFICES Effect(s, o, r)
    OBVIOUS
  <2>1. o.name # "replicaSet" /\ 3 \in Int /\ 3 > 0 /\ 0 \in Int
    BY <1>1
  <2>2. CASE /\ r.s = [s EXCEPT !.server = ToldAll(s, o)] /\ r.code = 0
             /\ o.name = "authMechanism" => o.value \in AuthMechanisms
    <3>1. r.s \in Settings /\ r.s.server = ToldAll(s, o) /\ r.s.options = s.options
      BY <2>2, ToldAllType, ServerReplaced
    <3> HIDE DEF r
    <3> QED
      BY <2>1, <2>2, <3>1 DEF Effect
  <2>3. CASE /\ r.s = s /\ r.code = 3
             /\ \A k \in 1..Len(s.server) : Told(s.server[k], o) = s.server[k]
    <3>1. ToldAll(s, o) = s.server
      BY <2>3, ToldNothing
    <3> HIDE DEF r
    <3> QED
      BY <2>1, <2>3, <3>1 DEF Effect
  <2> QED
    BY <1>1, <2>2, <2>3, LoopedTold
<1> QED
  BY <1>1, ReplicaSetEffect, PlainEffect
-----------------------------------------------------------------------------
(* All servers are told the same *)

\* Two definitions differ in host and port only.
Alike(d, e) ==
  /\ d.user = e.user /\ d.pass = e.pass /\ d.db = e.db /\ d.authdb = e.authdb
  /\ d.mech = e.mech /\ d.rs = e.rs

Agree(L) == \A j, k \in 1..Len(L) : Alike(L[j], L[k])

Stages == {"hosts", "url", "array", "connect", "done", "thrown"}

TypeInv ==
  /\ servers \in Settings /\ spec \in Specs /\ stage \in Stages
  /\ stage = "hosts" => servers = ParseInit

AgreeInv == TypeInv /\ Agree(servers.server)

\* An option treats definitions alike that are alike.
LEMMA ToldAlike ==
  ASSUME NEW d \in Defs, NEW e \in Defs, NEW o \in Given, Alike(d, e)
  PROVE  Alike(Told(d, o), Told(e, o))
BY DEF Alike, Told, Defs

\* An option keeps the servers in agreement.
LEMMA OptionAgree ==
  ASSUME NEW s \in Settings, Agree(s.server), NEW o \in Given, NEW r, Effect(s, o, r)
  PROVE  r.s \in Settings /\ Agree(r.s.server)
<1>1. r.s \in Settings /\ r.s.server = ToldAll(s, o)
  BY DEF Effect
<1>2. /\ Len(ToldAll(s, o)) = Len(s.server)
      /\ \A k \in 1..Len(s.server) : s.server[k] \in Defs /\ ToldAll(s, o)[k] = Told(s.server[k], o)
  BY ToldAllType
<1>3. Agree(ToldAll(s, o))
  BY <1>2, ToldAlike DEF Agree
<1> QED
  BY <1>1, <1>3

\* A definition without credentials and without a set.
Nameless(d) ==
  d.user = Null /\ d.db = Null /\ d.authdb = Null /\ d.rs = Null /\ d.mech = "MONGODB-CR"

\* The hosts of the string start out alike.
LEMMA HostsAgree ==
  ASSUME AgreeInv, ParseHosts
  PROVE  /\ AgreeInv' /\ stage' = "url"
         /\ servers'.options.rs = Null /\ NoWriteConcern(servers'.options)
         /\ \A k \in 1..Len(servers'.server) : Nameless(servers'.server[k])
<1> DEFINE L == [k \in 1..Len(spec.hosts) |-> ParsedServer(spec.hosts[k])]
           kind == IF Len(spec.hosts) = 1 THEN "STANDALONE" ELSE "MULTIPLE"
           v == [ParseInit.options EXCEPT !.type = kind]
<1>1. spec \in Specs /\ spec' = spec /\ stage' = "url" /\ servers = ParseInit
  BY DEF ParseHosts, AgreeInv, TypeInv
<1>2. Len(spec.hosts) \in Nat
  BY <1>1, ClientAssumption
<1>3. \A k \in 1..Len(spec.hosts) :
        ParsedServer(spec.hosts[k]) \in Defs /\ Nameless(ParsedServer(spec.hosts[k]))
  <2> SUFFICES ASSUME NEW k \in 1..Len(spec.hosts)
               PROVE  ParsedServer(spec.hosts[k]) \in Defs /\ Nameless(ParsedServer(spec.hosts[k]))
    OBVIOUS
  <2> DEFINE h == spec.hosts[k]
             port == IF h.port = Null THEN <<"2", "7", "0", "1", "7">> ELSE h.port
  <2>1. h.host \in HostTexts /\ port \in PortTexts
    <3>1. h \in HostsOf(spec)
      BY DEF HostsOf
    <3>2. h \in GivenHosts
      BY <1>1, <3>1 DEF GivenHosts
    <3> HIDE DEF h
    <3> QED
      BY <3>2 DEF HostTexts, PortTexts
  <2>2. Null \in Texts /\ "MONGODB-CR" \in AuthMechanisms
    BY DEF Texts, AuthMechanisms
  <2>3. ParsedServer(h) = [host |-> h.host, port |-> port, user |-> Null, pass |-> Null,
          db |-> Null, authdb |-> Null, mech |-> "MONGODB-CR", rs |-> Null]
    BY DEF ParsedServer
  <2> HIDE DEF h, port
  <2>4. ParsedServer(h) \in Defs /\ Nameless(ParsedServer(h))
    BY <2>1, <2>2, <2>3 DEF Defs, Nameless
  <2> QED
    BY <2>4 DEF h
<1>4. \A j, k \in 1..Len(spec.hosts) :
        Alike(ParsedServer(spec.hosts[j]), ParsedServer(spec.hosts[k]))
  BY DEF Alike, ParsedServer
<1>5. L \in Seq(Defs) /\ Len(L) = Len(spec.hosts)
      /\ \A k \in 1..Len(spec.hosts) : L[k] = ParsedServer(spec.hosts[k])
  <2> HIDE DEF ParsedServer
  <2> QED
    BY <1>2, <1>3
<1>6. servers' = [server |-> L, options |-> v, read_pref |-> ParseInit.read_pref]
  <2>1. servers' = [servers EXCEPT !.server = L, !.options.type = kind]
    BY DEF ParseHosts
  <2> DEFINE q == ParseInit.options
             p == ParseInit.read_pref
  <2>2. servers = [server |-> <<>>, options |-> q, read_pref |-> p]
    BY <1>1 DEF ParseInit
  <2> HIDE DEF L, kind, q, p
  <2>3. servers' = [server |-> L, options |-> [q EXCEPT !.type = kind], read_pref |-> p]
    BY <2>1, <2>2
  <2> QED
    BY <2>3 DEF q, p
<1>7. v \in OptionValues /\ v.rs = Null /\ NoWriteConcern(v)
  <2>1. kind \in Words /\ "STANDALONE" \in Words /\ "mongodb" \in Words /\ Null \in Texts
    BY DEF Words, Texts
  <2>2. -1 \in Int
    OBVIOUS
  <2> DEFINE q == ParseInit.options
  <2>3. q \in OptionValues /\ q.rs = Null /\ q.w = -1 /\ q.wstring = Null
    BY <2>1, <2>2 DEF ParseInit, OptionValues
  <2> HIDE DEF kind, q
  <2>4. [q EXCEPT !.type = kind] \in OptionValues /\ [q EXCEPT !.type = kind].rs = Null
        /\ NoWriteConcern([q EXCEPT !.type = kind])
    BY <2>1, <2>3 DEF OptionValues, NoWriteConcern
  <2> QED
    BY <2>4 DEF q
<1>8. ParseInit.read_pref \in [type : Words, tagsets : Nat]
  BY DEF ParseInit, Words
<1> HIDE DEF L, v
<1>9. servers' \in Settings /\ servers'.server = L /\ servers'.options = v
  BY <1>5, <1>6, <1>7, <1>8 DEF Settings
<1>10. Agree(L)
  BY <1>4, <1>5 DEF Agree
<1> QED
  BY <1>1, <1>3, <1>5, <1>7, <1>9, <1>10 DEF AgreeInv, TypeInv, Stages

\* The settings when the string has been parsed: the write concern has a value.
LEMMA UrlDoneSettings ==
  ASSUME AgreeInv, UrlDone
  PROVE  /\ servers' \in Settings /\ Len(servers'.server) = Len(servers.server)
         /\ \A k \in 1..Len(servers.server) :
              /\ servers.server[k] \in Defs
              /\ servers'.server[k] = [servers.server[k] EXCEPT
                   !.user = spec.user, !.pass = spec.pass, !.db = UrlDatabase(spec)]
         /\ servers'.options.rs = servers.options.rs
         /\ OneWriteConcern(servers.options) \/ NoWriteConcern(servers.options)
              => OneWriteConcern(servers'.options)
<1> DEFINE s == servers
           told(d) == [d EXCEPT !.user = spec.user, !.pass = spec.pass, !.db = UrlDatabase(spec)]
           L == [k \in 1..Len(s.server) |-> told(s.server[k])]
           t == [s EXCEPT !.server = L]
           one == [s.options EXCEPT !.w = 1]
<1>1. s \in Settings /\ spec \in Specs /\ s.server \in Seq(Defs) /\ s.options \in OptionValues
  BY DEF AgreeInv, TypeInv, Settings
<1>2. Len(s.server) \in Nat /\ \A k \in 1..Len(s.server) : s.server[k] \in Defs
  BY <1>1
<1>3. spec.user \in Texts /\ spec.pass \in Texts /\ UrlDatabase(spec) \in Texts
  BY <1>1 DEF Texts, UrlDatabase
<1>4. \A d \in Defs : told(d) \in Defs
  BY <1>3 DEF Defs
<1>5. servers' = IF t.options.w = -1 /\ t.options.wstring = Null THEN [t EXCEPT !.options.w = 1] ELSE t
  BY DEF UrlDone, EachServer
<1> HIDE DEF told
<1>6. L \in Seq(Defs) /\ Len(L) = Len(s.server) /\ \A k \in 1..Len(s.server) : L[k] = told(s.server[k])
  BY <1>2, <1>4
<1> HIDE DEF L
<1>7. t \in Settings /\ t.server = L /\ t.options = s.options
  BY <1>1, <1>6, ServerReplaced
<1>8. one \in OptionValues /\ one.rs = s.options.rs /\ one.w = 1 /\ one.wstring = s.options.wstring
  BY <1>1 DEF OptionValues
<1>9. CASE ~(t.options.w = -1 /\ t.options.wstring = Null)
  BY <1>2, <1>5, <1>6, <1>7, <1>9 DEF told, NoWriteConcern
<1>10. CASE t.options.w = -1 /\ t.options.wstring = Null
  <2>1. [t EXCEPT !.options.w = 1] = [t EXCEPT !.options = one]
    BY <1>7
  <2> HIDE DEF one, t
  <2>2. servers' \in Settings /\ servers'.server = L /\ servers'.options = one
    <3>1. servers' = [t EXCEPT !.options = one]
      BY <1>5, <1>10, <2>1
    <3> QED
      BY <1>7, <1>8, <3>1, OptionsReplaced
  <2>3. OneWriteConcern(one)
    BY <1>7, <1>8, <1>10 DEF OneWriteConcern
  <2> QED
    BY <1>2, <1>6, <1>8, <2>2, <2>3 DEF told
<1> QED
  BY <1>9, <1>10

\* Every step keeps the servers in agreement.
LEMMA NextAgree ==
  ASSUME AgreeInv, [Next]_vars
  PROVE  AgreeInv'
<1> USE DEF AgreeInv
<1>0. servers \in Settings /\ spec \in Specs /\ stage \in Stages
  BY DEF TypeInv
<1>1. CASE ParseHosts
  BY <1>1, HostsAgree
<1>2. ASSUME NEW o \in UrlOptions, UrlOption(o) PROVE AgreeInv'
  <2>1. o \in Given
    BY DEF Given
  <2>2. servers' = servers \/ servers' = StoreOption(servers, o).s
    BY <1>2 DEF UrlOption, Refused
  <2>3. servers' \in Settings /\ Agree(servers.server)'
    BY <1>0, <2>1, <2>2, StoreEffect, OptionAgree
  <2>4. spec' = spec /\ stage' \in {"url", "thrown"}
    BY <1>2 DEF UrlOption, Throw
  <2> QED
    BY <1>0, <2>3, <2>4 DEF TypeInv, Stages
<1>3. CASE UrlDone
  <2> DEFINE told(d) == [d EXCEPT !.user = spec.user, !.pass = spec.pass, !.db = UrlDatabase(spec)]
             L == servers.server
             M == servers'.server
  <2>1. /\ servers' \in Settings /\ Len(M) = Len(L)
        /\ \A k \in 1..Len(L) : L[k] \in Defs /\ M[k] = told(L[k])
    BY <1>3, UrlDoneSettings
  <2>2. \A d, e \in Defs : Alike(d, e) => Alike(told(d), told(e))
    BY DEF Alike, Defs
  <2>3. Agree(servers.server)'
    <3>1. Agree(L)
      OBVIOUS
    <3> SUFFICES Agree(M)
      OBVIOUS
    <3> HIDE DEF told, L, M
    <3> QED
      BY <2>1, <2>2, <3>1 DEF Agree
  <2>4. spec' = spec /\ stage' = "array"
    BY <1>3 DEF UrlDone
  <2> QED
    BY <1>0, <2>1, <2>3, <2>4 DEF TypeInv, Stages
<1>4. ASSUME NEW o \in ArrOptions, ArrayOption(o) PROVE AgreeInv'
  <2>1. o \in Given
    BY DEF Given
  <2>2. servers' = servers \/ servers' = StoreOption(servers, o).s
    BY <1>4 DEF ArrayOption
  <2>3. servers' \in Settings /\ Agree(servers.server)'
    BY <1>0, <2>1, <2>2, StoreEffect, OptionAgree
  <2>4. spec' = spec /\ stage' \in {"array", "thrown"}
    BY <1>4 DEF ArrayOption, Throw
  <2> QED
    BY <1>0, <2>3, <2>4 DEF TypeInv, Stages
<1>5. CASE ArrayDone
  BY <1>5 DEF ArrayDone, TypeInv, Stages
<1>6. CASE Connect
  BY <1>6 DEF Connect, Throw, TypeInv, Stages
<1>7. CASE UNCHANGED vars
  BY <1>7 DEF vars, TypeInv, Stages
<1> QED
  BY <1>1, <1>2, <1>3, <1>4, <1>5, <1>6, <1>7 DEF Next

\* The initial state: no servers yet.
LEMMA InitAgree == Init => AgreeInv
<1> SUFFICES ASSUME Init PROVE AgreeInv
  OBVIOUS
<1>1. servers = ParseInit /\ spec \in Specs /\ stage = "hosts"
  BY DEF Init
<1>2. /\ "STANDALONE" \in Words /\ "mongodb" \in Words /\ "primary" \in Words
      /\ Null \in Texts /\ -1 \in Int
  <2>1. "STANDALONE" \in Words /\ "mongodb" \in Words /\ "primary" \in Words
    BY DEF Words
  <2>2. Null \in Texts
    BY DEF Texts
  <2> QED
    BY <2>1, <2>2
<1>3. ParseInit.options \in OptionValues
  BY <1>2 DEF ParseInit, OptionValues
<1>4. ParseInit.read_pref \in [type : Words, tagsets : Nat]
  BY DEF ParseInit, Words
<1>5. ParseInit.server \in Seq(Defs) /\ Len(ParseInit.server) = 0
  BY DEF ParseInit
<1>6. ParseInit = [server |-> ParseInit.server, options |-> ParseInit.options,
                   read_pref |-> ParseInit.read_pref]
  BY DEF ParseInit
<1>7. ParseInit \in Settings
  BY <1>3, <1>4, <1>5, <1>6 DEF Settings
<1> QED
  BY <1>1, <1>5, <1>7 DEF AgreeInv, TypeInv, Stages, Agree

\* Whatever the options and their order, every loop of the parser over the
\* servers treats them alike: they differ in host and port only, in every state.
THEOREM ServersAlike == Spec => []ServersAgree
<1>1. AgreeInv => ServersAgree
  <2> SUFFICES ASSUME AgreeInv, NEW d \in Servers, NEW e \in Servers
               PROVE  [d EXCEPT !.host = e.host, !.port = e.port] = e
    BY DEF ServersAgree
  <2>1. servers.server \in Seq(Defs)
    BY DEF AgreeInv, TypeInv, Settings
  <2>2. d \in Defs /\ e \in Defs /\ Alike(d, e)
    BY <2>1 DEF Servers, AgreeInv, Agree
  <2> QED
    BY <2>2 DEF Defs, Alike
<1>2. AgreeInv /\ [Next]_vars => AgreeInv'
  BY NextAgree
<1> QED
  BY <1>1, <1>2, InitAgree, PTL DEF Spec
-----------------------------------------------------------------------------
(* What was given last *)

AskedValues ==
  [user : Texts, pass : Texts, db : Texts, source : Texts, mech : Words \cup {Null}, rs : Texts,
   name : Texts, early : SUBSET {"user", "pass", "db"}, overtaken : BOOLEAN]

\* The definition d authenticates against what was asked for, unless a database
\* came after it, or admin was put in for a user.
Source(d, a) ==
  \/ d.authdb = a.source
  \/ a.overtaken /\ d.authdb = Null
  \/ (a.overtaken \/ a.source = Null) /\ a.user # Null /\ d.authdb = <<"admin">>

\* It has what was asked for last: source, mechanism and set.
Follows(d, a) ==
  /\ Source(d, a)
  /\ d.mech = IF a.mech = Null THEN "MONGODB-CR" ELSE a.mech
  /\ d.rs = a.name

\* It has the user, the password and the database, or admin for want of one.
UserKept(a) == IF "user" \in a.early THEN Null ELSE a.user
PassKept(a) == IF "pass" \in a.early THEN Null ELSE a.pass
DbKept(a) == IF "db" \in a.early THEN Null ELSE a.db
Names(d, a) ==
  /\ d.user = UserKept(a) /\ d.pass = PassKept(a)
  /\ d.db = IF DbKept(a) # Null THEN DbKept(a) ELSE IF d.user # Null THEN <<"admin">> ELSE Null

\* Before the string is done, only its options have asked for anything.
OnlyEarly(a) ==
  /\ "user" \notin a.early => a.user = Null
  /\ "pass" \notin a.early => a.pass = Null
  /\ "db" \notin a.early => a.db = Null

Parsed == stage \in {"array", "connect", "done"}

AskedInv ==
  /\ asked \in AskedValues
  /\ connect \in BOOLEAN \cup {Null}
  /\ stage = "hosts" => asked = NothingAsked
  /\ stage = "url" \/ Parsed =>
       /\ \A k \in 1..Len(servers.server) : Follows(servers.server[k], asked)
       /\ servers.options.rs = asked.rs
       /\ OneWriteConcern(servers.options) \/ (stage = "url" /\ NoWriteConcern(servers.options))
  /\ stage = "url" => OnlyEarly(asked)
  /\ Parsed => \A k \in 1..Len(servers.server) : Names(servers.server[k], asked)
  /\ stage \notin {"done", "thrown"} => online = FALSE
  /\ stage = "done" /\ connect = FALSE => online = FALSE

GivenInv == AgreeInv /\ AskedInv

\* Asking for text, seen from each option.
LEMMA AskCases ==
  ASSUME NEW a \in AskedValues, NEW o \in Given
  PROVE  /\ Ask(a, o) \in AskedValues
         /\ Ask(a, o).user = IF o.name = "username" THEN o.text ELSE a.user
         /\ Ask(a, o).pass = IF o.name = "password" THEN o.text ELSE a.pass
         /\ Ask(a, o).db = IF o.name = "db" THEN o.text ELSE a.db
         /\ Ask(a, o).source = IF o.name = "authSource" THEN o.text ELSE a.source
         /\ Ask(a, o).mech = IF o.name = "authMechanism" THEN o.value ELSE a.mech
         /\ Ask(a, o).overtaken = IF o.name = "db" THEN TRUE
                                  ELSE IF o.name = "authSource" THEN FALSE ELSE a.overtaken
         /\ Ask(a, o).rs = IF o.name # "replicaSet" THEN a.rs
                           ELSE IF NamesNoSet(o) THEN Null ELSE o.text
         /\ Ask(a, o).name = IF o.name = "replicaSet" /\ ~NamesNoSet(o) /\ o.text # Null
                             THEN o.text ELSE a.name
         /\ Ask(a, o).early =
              IF o.name \notin {"username", "password", "db"} THEN a.early
              ELSE LET x == IF o.name = "username" THEN "user"
                            ELSE IF o.name = "password" THEN "pass" ELSE "db"
                   IN IF stage = "url" THEN a.early \cup {x} ELSE a.early \ {x}
<1> DEFINE T == Texts
           W == Words \cup {Null}
           N == {"user", "pass", "db"}
           none == NamesNoSet(o)
           text == o.text
           rs == IF none THEN Null ELSE text
           url == stage = "url"
           early(x) == IF url THEN a.early \cup {x} ELSE a.early \ {x}
<1>1. a \in [user : T, pass : T, db : T, source : T, mech : W, rs : T, name : T,
             early : SUBSET N, overtaken : BOOLEAN]
  BY DEF AskedValues
<1>2. text \in T /\ Null \in T /\ rs \in T /\ o.value \in W
  BY DEF Texts, Words
<1>3. Ask(a, o) =
        CASE o.name = "username" -> [a EXCEPT !.user = text, !.early = early("user")]
          [] o.name = "password" -> [a EXCEPT !.pass = text, !.early = early("pass")]
          [] o.name = "db" -> [a EXCEPT !.db = text, !.early = early("db"), !.overtaken = TRUE]
          [] o.name = "authSource" -> [a EXCEPT !.source = text, !.overtaken = FALSE]
          [] o.name = "authMechanism" -> [a EXCEPT !.mech = o.value]
          [] o.name = "replicaSet" -> [a EXCEPT !.rs = rs, !.name = IF rs = Null THEN @ ELSE rs]
          [] OTHER -> a
  BY DEF Ask, NamesNoSet
<1>4. rs = Null <=> none \/ text = Null
  OBVIOUS
<1>5. early("user") \in SUBSET N /\ early("pass") \in SUBSET N /\ early("db") \in SUBSET N
  BY <1>1
<1> DEFINE goal ==
      /\ Ask(a, o) \in [user : T, pass : T, db : T, source : T, mech : W, rs : T, name : T,
                        early : SUBSET N, overtaken : BOOLEAN]
      /\ Ask(a, o).user = IF o.name = "username" THEN text ELSE a.user
      /\ Ask(a, o).pass = IF o.name = "password" THEN text ELSE a.pass
      /\ Ask(a, o).db = IF o.name = "db" THEN text ELSE a.db
      /\ Ask(a, o).source = IF o.name = "authSource" THEN text ELSE a.source
      /\ Ask(a, o).mech = IF o.name = "authMechanism" THEN o.value ELSE a.mech
      /\ Ask(a, o).overtaken = IF o.name = "db" THEN TRUE
                               ELSE IF o.name = "authSource" THEN FALSE ELSE a.overtaken
      /\ Ask(a, o).rs = IF o.name # "replicaSet" THEN a.rs ELSE rs
      /\ Ask(a, o).name = IF o.name = "replicaSet" /\ rs # Null THEN rs ELSE a.name
      /\ Ask(a, o).early =
           IF o.name \notin {"username", "password", "db"} THEN a.early
           ELSE IF o.name = "username" THEN early("user")
                ELSE IF o.name = "password" THEN early("pass") ELSE early("db")
<1>6. goal
  <2> HIDE DEF T, W, N, text, rs, early
  <2>1. CASE o.name = "username"
    BY <1>1, <1>2, <1>3, <1>5, <2>1
  <2>2. CASE o.name = "password"
    BY <1>1, <1>2, <1>3, <1>5, <2>2
  <2>3. CASE o.name = "db"
    BY <1>1, <1>2, <1>3, <1>5, <2>3
  <2>4. CASE o.name = "authSource"
    BY <1>1, <1>2, <1>3, <2>4
  <2>5. CASE o.name = "authMechanism"
    BY <1>1, <1>2, <1>3, <2>5
  <2>6. CASE o.name = "replicaSet"
    BY <1>1, <1>2, <1>3, <2>6
  <2>7. CASE o.name \notin {"username", "password", "db", "authSource", "authMechanism", "replicaSet"}
    BY <1>1, <1>3, <2>7
  <2> QED
    BY <2>1, <2>2, <2>3, <2>4, <2>5, <2>6, <2>7
<1>7. Ask(a, o).name = IF o.name = "replicaSet" /\ ~none /\ text # Null THEN text ELSE a.name
  BY <1>4, <1>6
<1>8. Ask(a, o).early =
        IF o.name \notin {"username", "password", "db"} THEN a.early
        ELSE LET x == IF o.name = "username" THEN "user"
                      ELSE IF o.name = "password" THEN "pass" ELSE "db"
             IN IF url THEN a.early \cup {x} ELSE a.early \ {x}
  BY <1>6
<1> QED
  BY <1>6, <1>7, <1>8 DEF AskedValues

\* What an option makes of the fields of a definition.
LEMMA ToldCases ==
  ASSUME NEW d \in Defs, NEW o \in Given,
         o.name = "authMechanism" => o.value \in AuthMechanisms
  PROVE  /\ Told(d, o).user = IF o.name = "username" THEN o.text ELSE d.user
         /\ Told(d, o).pass = IF o.name = "password" THEN o.text ELSE d.pass
         /\ Told(d, o).db = IF o.name = "db" THEN o.text
                            ELSE IF o.name = "username" /\ d.db = Null THEN <<"admin">> ELSE d.db
         /\ Told(d, o).authdb =
              IF o.name = "authSource" THEN o.text
              ELSE IF o.name = "db" /\ d.db # Null THEN Null
              ELSE IF o.name = "username" /\ d.db = Null /\ d.authdb = Null THEN <<"admin">>
              ELSE d.authdb
         /\ Told(d, o).mech = IF o.name = "authMechanism" THEN o.value ELSE d.mech
         /\ Told(d, o).rs = IF o.name = "replicaSet" /\ ~NamesNoSet(o) /\ o.text # Null
                            THEN o.text ELSE d.rs
<1> DEFINE T == Texts
           H == HostTexts
           P == PortTexts
           none == NamesNoSet(o)
           text == o.text
           admin == <<"admin">>
<1>1. d \in [host : H, port : P, user : T, pass : T, db : T, authdb : T,
             mech : AuthMechanisms, rs : T]
  BY DEF Defs
<1>2. Told(d, o) =
        CASE o.name = "authMechanism" /\ o.value \in AuthMechanisms -> [d EXCEPT !.mech = o.value]
          [] o.name = "authSource" -> [d EXCEPT !.authdb = text]
          [] o.name = "db" -> [d EXCEPT !.db = text, !.authdb = IF d.db # Null THEN Null ELSE @]
          [] o.name = "password" -> [d EXCEPT !.pass = text]
          [] o.name = "replicaSet" /\ ~none /\ text # Null -> [d EXCEPT !.rs = text]
          [] o.name = "username" ->
               [d EXCEPT !.user = text,
                         !.db = IF @ = Null THEN admin ELSE @,
                         !.authdb = IF d.db = Null /\ @ = Null THEN admin ELSE @]
          [] OTHER -> d
  BY DEF Told
<1> HIDE DEF T, H, P, none, text, admin
<1> DEFINE goal ==
      /\ Told(d, o).user = IF o.name = "username" THEN text ELSE d.user
      /\ Told(d, o).pass = IF o.name = "password" THEN text ELSE d.pass
      /\ Told(d, o).db = IF o.name = "db" THEN text
                         ELSE IF o.name = "username" /\ d.db = Null THEN admin ELSE d.db
      /\ Told(d, o).authdb =
           IF o.name = "authSource" THEN text
           ELSE IF o.name = "db" /\ d.db # Null THEN Null
           ELSE IF o.name = "username" /\ d.db = Null /\ d.authdb = Null THEN admin
           ELSE d.authdb
      /\ Told(d, o).mech = IF o.name = "authMechanism" THEN o.value ELSE d.mech
      /\ Told(d, o).rs = IF o.name = "replicaSet" /\ ~none /\ text # Null THEN text ELSE d.rs
<1>3. goal
  <2>1. CASE o.name = "username"
    BY <1>1, <1>2, <2>1
  <2>2. CASE o.name = "password"
    BY <1>1, <1>2, <2>2
  <2>3. CASE o.name = "db"
    BY <1>1, <1>2, <2>3
  <2>4. CASE o.name = "authSource"
    BY <1>1, <1>2, <2>4
  <2>5. CASE o.name = "authMechanism"
    BY <1>1, <1>2, <2>5
  <2>6. CASE o.name = "replicaSet"
    BY <1>1, <1>2, <2>6
  <2>7. CASE o.name \notin {"username", "password", "db", "authSource", "authMechanism", "replicaSet"}
    BY <1>1, <1>2, <2>7
  <2> QED
    BY <2>1, <2>2, <2>3, <2>4, <2>5, <2>6, <2>7
<1> QED
  BY <1>3 DEF goal, none, text, admin

\* An option changes a definition the way it changes what has been asked for:
\* source, mechanism and set.
LEMMA ToldFollows ==
  ASSUME NEW d \in Defs, NEW a \in AskedValues, NEW o \in Given, Follows(d, a), o.text # Null,
         o.name = "authMechanism" => o.value \in AuthMechanisms
  PROVE  Follows(Told(d, o), Ask(a, o))
<1> DEFINE e == Told(d, o)
           b == Ask(a, o)
           admin == <<"admin">>
           sets == o.name = "replicaSet" /\ ~NamesNoSet(o) /\ o.text # Null
<1>1. Null # admin /\ (o.name = "authMechanism" => o.value # Null)
  BY ClientAssumption DEF Given
<1>2. /\ e.authdb = IF o.name = "authSource" THEN o.text
                    ELSE IF o.name = "db" /\ d.db # Null THEN Null
                    ELSE IF o.name = "username" /\ d.db = Null /\ d.authdb = Null THEN admin
                    ELSE d.authdb
      /\ e.mech = IF o.name = "authMechanism" THEN o.value ELSE d.mech
      /\ e.rs = IF sets THEN o.text ELSE d.rs
  BY ToldCases
<1>3. /\ b.user = IF o.name = "username" THEN o.text ELSE a.user
      /\ b.source = IF o.name = "authSource" THEN o.text ELSE a.source
      /\ b.mech = IF o.name = "authMechanism" THEN o.value ELSE a.mech
      /\ b.overtaken = IF o.name = "db" THEN TRUE
                       ELSE IF o.name = "authSource" THEN FALSE ELSE a.overtaken
      /\ b.name = IF sets THEN o.text ELSE a.name
  BY AskCases
<1>4. Follows(d, a)
  OBVIOUS
<1> HIDE DEF e, b, admin, sets
<1>5. e.mech = IF b.mech = Null THEN "MONGODB-CR" ELSE b.mech
  BY <1>1, <1>2, <1>3, <1>4 DEF Follows
<1>6. e.rs = b.name
  BY <1>2, <1>3, <1>4 DEF Follows
<1>7. \/ d.authdb = a.source
      \/ a.overtaken /\ d.authdb = Null
      \/ (a.overtaken \/ a.source = Null) /\ a.user # Null /\ d.authdb = admin
  BY <1>4 DEF Follows, Source, admin
<1>8. \/ e.authdb = b.source
      \/ b.overtaken /\ e.authdb = Null
      \/ (b.overtaken \/ b.source = Null) /\ b.user # Null /\ e.authdb = admin
  <2>1. CASE o.name = "authSource"
    BY <1>2, <1>3, <2>1
  <2>2. CASE o.name = "db"
    BY <1>2, <1>3, <1>7, <2>2
  <2>3. CASE o.name = "username"
    BY <1>1, <1>2, <1>3, <1>7, <2>3
  <2>4. CASE o.name \notin {"authSource", "db", "username"}
    BY <1>2, <1>3, <1>7, <2>4
  <2> QED
    BY <2>1, <2>2, <2>3, <2>4
<1>9. Source(e, b)
  BY <1>8 DEF Source, admin
<1> QED
  BY <1>5, <1>6, <1>9 DEF Follows, e, b

\* The same for user, password and database, of an option of the array.
LEMMA ToldNames ==
  ASSUME NEW d \in Defs, NEW a \in AskedValues, NEW o \in Given, o.text # Null, Names(d, a),
         stage = "array", o.name = "authMechanism" => o.value \in AuthMechanisms
  PROVE  Names(Told(d, o), Ask(a, o))
<1> DEFINE e == Told(d, o)
           b == Ask(a, o)
           admin == <<"admin">>
<1>1. /\ e.user = IF o.name = "username" THEN o.text ELSE d.user
      /\ e.pass = IF o.name = "password" THEN o.text ELSE d.pass
      /\ e.db = IF o.name = "db" THEN o.text
                ELSE IF o.name = "username" /\ d.db = Null THEN admin ELSE d.db
  BY ToldCases
<1>2. /\ b.user = IF o.name = "username" THEN o.text ELSE a.user
      /\ b.pass = IF o.name = "password" THEN o.text ELSE a.pass
      /\ b.db = IF o.name = "db" THEN o.text ELSE a.db
  BY AskCases
<1>3. b.early = IF o.name = "username" THEN a.early \ {"user"}
                ELSE IF o.name = "password" THEN a.early \ {"pass"}
                ELSE IF o.name = "db" THEN a.early \ {"db"} ELSE a.early
  BY AskCases
<1>4. /\ d.user = UserKept(a) /\ d.pass = PassKept(a)
      /\ d.db = IF DbKept(a) # Null THEN DbKept(a) ELSE IF d.user # Null THEN admin ELSE Null
  BY DEF Names
<1> HIDE DEF e, b, admin
<1>5. UserKept(b) = IF o.name = "username" THEN o.text ELSE UserKept(a)
  BY <1>2, <1>3 DEF UserKept
<1>6. PassKept(b) = IF o.name = "password" THEN o.text ELSE PassKept(a)
  BY <1>2, <1>3 DEF PassKept
<1>7. DbKept(b) = IF o.name = "db" THEN o.text ELSE DbKept(a)
  BY <1>2, <1>3 DEF DbKept
<1>8. e.db = IF DbKept(b) # Null THEN DbKept(b) ELSE IF e.user # Null THEN admin ELSE Null
  BY <1>1, <1>4, <1>7
<1> QED
  BY <1>1, <1>4, <1>5, <1>6, <1>8 DEF Names, e, b, admin

\* An option of the string is an early one.
LEMMA AskEarly ==
  ASSUME NEW a \in AskedValues, NEW o \in Given, OnlyEarly(a), stage = "url"
  PROVE  OnlyEarly(Ask(a, o))
<1> DEFINE b == Ask(a, o)
<1>1. /\ b.user = IF o.name = "username" THEN o.text ELSE a.user
      /\ b.pass = IF o.name = "password" THEN o.text ELSE a.pass
      /\ b.db = IF o.name = "db" THEN o.text ELSE a.db
  BY AskCases
<1>2. b.early = IF o.name = "username" THEN a.early \cup {"user"}
                ELSE IF o.name = "password" THEN a.early \cup {"pass"}
                ELSE IF o.name = "db" THEN a.early \cup {"db"} ELSE a.early
  BY AskCases
<1> HIDE DEF b
<1>3. OnlyEarly(b)
  BY <1>1, <1>2 DEF OnlyEarly
<1> QED
  BY <1>3 DEF b

\* What the string itself asks for, when only its options have asked before.
LEMMA StringAsked ==
  ASSUME NEW a \in AskedValues, OnlyEarly(a), NEW u \in Specs
  PROVE  LET b == AskString(a, u) IN
         /\ b \in AskedValues
         /\ b.source = a.source /\ b.mech = a.mech /\ b.rs = a.rs /\ b.name = a.name
         /\ b.overtaken = a.overtaken /\ (a.user # Null => b.user # Null)
         /\ UserKept(b) = u.user /\ PassKept(b) = u.pass /\ DbKept(b) = u.db
<1> DEFINE T == Texts
           W == Words \cup {Null}
           N == {"user", "pass", "db"}
           early == {x \in a.early : u[x] = Null}
           b == AskString(a, u)
<1>1. a \in [user : T, pass : T, db : T, source : T, mech : W, rs : T, name : T,
             early : SUBSET N, overtaken : BOOLEAN]
  BY DEF AskedValues
<1>2. u.user \in T /\ u.pass \in T /\ u.db \in T
  BY DEF Texts
<1>3. b = [a EXCEPT !.user = IF u.user = Null THEN @ ELSE u.user,
                    !.pass = IF u.pass = Null THEN @ ELSE u.pass,
                    !.db = IF u.db = Null THEN @ ELSE u.db,
                    !.early = early]
  BY DEF AskString
<1>4. /\ early \in SUBSET N
      /\ "user" \in early <=> "user" \in a.early /\ u.user = Null
      /\ "pass" \in early <=> "pass" \in a.early /\ u.pass = Null
      /\ "db" \in early <=> "db" \in a.early /\ u.db = Null
  BY <1>1
<1> HIDE DEF T, W, early, b
<1>5. /\ b \in [user : T, pass : T, db : T, source : T, mech : W, rs : T, name : T,
                early : SUBSET N, overtaken : BOOLEAN]
      /\ b.source = a.source /\ b.mech = a.mech /\ b.rs = a.rs /\ b.name = a.name
      /\ b.overtaken = a.overtaken /\ b.early = early
      /\ b.user = IF u.user = Null THEN a.user ELSE u.user
      /\ b.pass = IF u.pass = Null THEN a.pass ELSE u.pass
      /\ b.db = IF u.db = Null THEN a.db ELSE u.db
  BY <1>1, <1>2, <1>3, <1>4
<1>6. UserKept(b) = u.user
  BY <1>4, <1>5 DEF UserKept, OnlyEarly
<1>7. PassKept(b) = u.pass
  BY <1>4, <1>5 DEF PassKept, OnlyEarly
<1>8. DbKept(b) = u.db
  BY <1>4, <1>5 DEF DbKept, OnlyEarly
<1>9. b \in AskedValues /\ (a.user # Null => b.user # Null)
  BY <1>5 DEF AskedValues, T, W
<1> QED
  BY <1>5, <1>6, <1>7, <1>8, <1>9 DEF b

\* An option that is stored, of either source.
LEMMA StoredAsked ==
  ASSUME GivenInv, NEW o \in Given, stage \in {"url", "array"}, stage' = stage,
         o.text # Null, NEW r, Effect(servers, o, r), ~(r.code > 0),
         servers' = r.s, asked' = Ask(asked, o), UNCHANGED <<connect, online>>
  PROVE  AskedInv'
<1> USE DEF GivenInv
<1> DEFINE L == servers.server
           M == servers'.server
<1>1. servers \in Settings /\ asked \in AskedValues
  BY DEF AgreeInv, TypeInv, AskedInv
<1>2. /\ M = ToldAll(servers, o)
      /\ o.name = "authMechanism" => o.value \in AuthMechanisms
      /\ servers'.options.rs = IF o.name # "replicaSet" THEN servers.options.rs
                               ELSE IF NamesNoSet(o) THEN Null ELSE o.text
      /\ \/ servers'.options.w = servers.options.w
            /\ servers'.options.wstring = servers.options.wstring
         \/ OneWriteConcern(servers'.options)
  BY DEF Effect
<1>3. Len(M) = Len(L) /\ \A k \in 1..Len(L) : L[k] \in Defs /\ M[k] = Told(L[k], o)
  BY <1>1, <1>2, ToldAllType
<1>4. /\ asked' \in AskedValues
      /\ asked'.rs = IF o.name # "replicaSet" THEN asked.rs
                     ELSE IF NamesNoSet(o) THEN Null ELSE o.text
  BY <1>1, AskCases
<1>5. /\ \A k \in 1..Len(L) : Follows(L[k], asked)
      /\ servers.options.rs = asked.rs
      /\ OneWriteConcern(servers.options) \/ (stage = "url" /\ NoWriteConcern(servers.options))
      /\ stage = "url" => OnlyEarly(asked)
      /\ stage = "array" => \A k \in 1..Len(L) : Names(L[k], asked)
      /\ connect \in BOOLEAN \cup {Null} /\ online = FALSE
  BY DEF AskedInv, Parsed
<1>6. servers'.options.rs = asked'.rs
  BY <1>2, <1>4, <1>5
<1>7. OneWriteConcern(servers'.options) \/ (stage = "url" /\ NoWriteConcern(servers'.options))
  BY <1>2, <1>5 DEF OneWriteConcern, NoWriteConcern
<1> HIDE DEF L, M
<1>8. \A k \in 1..Len(M) : Follows(M[k], asked')
  BY <1>1, <1>2, <1>3, <1>5, ToldFollows
<1>9. stage = "array" => \A k \in 1..Len(M) : Names(M[k], asked')
  BY <1>1, <1>2, <1>3, <1>5, ToldNames
<1>10. stage = "url" => OnlyEarly(asked')
  BY <1>1, <1>5, AskEarly
<1> QED
  BY <1>4, <1>5, <1>6, <1>7, <1>8, <1>9, <1>10 DEF AskedInv, Parsed, L, M

\* A refused option: the constructor throws.
LEMMA ThrownAsked ==
  ASSUME AskedInv, stage' = "thrown", UNCHANGED <<asked, connect>>
  PROVE  AskedInv'
BY DEF AskedInv, Parsed

\* Every step keeps the settings as they were asked for.
LEMMA NextAsked ==
  ASSUME GivenInv, [Next]_vars
  PROVE  AskedInv'
<1> USE DEF GivenInv
<1>0. servers \in Settings /\ spec \in Specs /\ asked \in AskedValues
  BY DEF AgreeInv, TypeInv, AskedInv
<1>1. CASE ParseHosts
  <2>1. /\ stage = "hosts" /\ stage' = "url" /\ UNCHANGED <<asked, connect, online>>
        /\ servers'.options.rs = Null /\ NoWriteConcern(servers'.options)
        /\ \A k \in 1..Len(servers'.server) : Nameless(servers'.server[k])
    BY <1>1, HostsAgree DEF ParseHosts
  <2>2. asked = NothingAsked
    BY <2>1 DEF AskedInv
  <2>3. /\ asked.source = Null /\ asked.mech = Null /\ asked.rs = Null /\ asked.name = Null
        /\ asked.user = Null /\ asked.pass = Null /\ asked.db = Null
    BY <2>2 DEF NothingAsked
  <2>4. OnlyEarly(asked) /\ \A d : Nameless(d) => Follows(d, asked)
    BY <2>3 DEF OnlyEarly, Nameless, Follows, Source
  <2>5. connect \in BOOLEAN \cup {Null} /\ online = FALSE
    BY <2>1 DEF AskedInv
  <2> QED
    BY <1>0, <2>1, <2>3, <2>4, <2>5 DEF AskedInv, Parsed
<1>2. ASSUME NEW o \in UrlOptions, UrlOption(o) PROVE AskedInv'
  <2> DEFINE r == IF o.name = "" \/ o.text = Null THEN Refused(servers, 1) ELSE StoreOption(servers, o)
  <2>1. o \in Given
    BY DEF Given
  <2>2. /\ stage = "url" /\ servers' = r.s /\ UNCHANGED <<connect, online>>
        /\ IF r.code > 0 THEN Throw(20 + r.code) /\ UNCHANGED asked
                         ELSE asked' = Ask(asked, o) /\ UNCHANGED <<stage, error>>
    BY <1>2 DEF UrlOption
  <2>3. CASE r.code > 0
    BY <2>2, <2>3, ThrownAsked DEF Throw
  <2>4. CASE ~(r.code > 0)
    <3>1. o.text # Null /\ r = StoreOption(servers, o)
      <4> DEFINE bad == o.name = "" \/ o.text = Null
      <4>1. Refused(servers, 1).code > 0
        BY DEF Refused
      <4>2. ~bad
        <5> SUFFICES ASSUME bad PROVE r = Refused(servers, 1)
          BY <2>4, <4>1, Zenon
        <5> QED
          BY Zenon
      <4> QED
        BY <4>2, Zenon
    <3>2. Effect(servers, o, r)
      BY <1>0, <2>1, <3>1, StoreEffect
    <3> HIDE DEF r
    <3> QED
      BY <2>1, <2>2, <2>4, <3>1, <3>2, StoredAsked
  <2> QED
    BY <2>3, <2>4
<1>3. CASE UrlDone
  <2> DEFINE L == servers.server
             M == servers'.server
             told(d) == [d EXCEPT !.user = spec.user, !.pass = spec.pass, !.db = UrlDatabase(spec)]
  <2>1. /\ Len(M) = Len(L) /\ \A k \in 1..Len(L) : L[k] \in Defs /\ M[k] = told(L[k])
        /\ servers'.options.rs = servers.options.rs
        /\ OneWriteConcern(servers.options) \/ NoWriteConcern(servers.options)
             => OneWriteConcern(servers'.options)
    BY <1>3, UrlDoneSettings
  <2>2. /\ stage = "url" /\ stage' = "array" /\ UNCHANGED <<connect, online>>
        /\ asked' = AskString(asked, spec)
    BY <1>3 DEF UrlDone
  <2>3. /\ \A k \in 1..Len(L) : Follows(L[k], asked)
        /\ servers.options.rs = asked.rs /\ connect \in BOOLEAN \cup {Null} /\ online = FALSE
        /\ OneWriteConcern(servers.options) \/ NoWriteConcern(servers.options)
        /\ OnlyEarly(asked)
    BY <2>2 DEF AskedInv
  <2>4. spec.user = Null <=> spec.pass = Null
    BY <1>0, ClientAssumption, Zenon
  <2>5. /\ asked' \in AskedValues /\ asked'.source = asked.source /\ asked'.mech = asked.mech
        /\ asked'.rs = asked.rs /\ asked'.name = asked.name
        /\ asked'.overtaken = asked.overtaken /\ (asked.user # Null => asked'.user # Null)
        /\ UserKept(asked') = spec.user /\ PassKept(asked') = spec.pass
        /\ DbKept(asked') = spec.db
    BY <1>0, <2>2, <2>3, StringAsked
  <2>6. \A d \in Defs : /\ told(d).user = spec.user /\ told(d).pass = spec.pass
                        /\ told(d).db = UrlDatabase(spec) /\ told(d).authdb = d.authdb
                        /\ told(d).mech = d.mech /\ told(d).rs = d.rs
    BY DEF Defs
  <2> HIDE DEF told, L, M
  <2>7. \A k \in 1..Len(M) : Follows(M[k], asked')
    BY <2>1, <2>3, <2>5, <2>6 DEF Follows, Source
  <2>8. \A k \in 1..Len(M) : Names(M[k], asked')
    BY <2>1, <2>4, <2>5, <2>6, ClientAssumption DEF Names, UrlDatabase
  <2> QED
    BY <2>1, <2>2, <2>3, <2>5, <2>7, <2>8 DEF AskedInv, Parsed, M
<1>4. ASSUME NEW o \in ArrOptions, ArrayOption(o) PROVE AskedInv'
  <2> DEFINE r == StoreOption(servers, o)
  <2>1. o \in Given /\ o.text # Null
    BY ClientAssumption DEF Given
  <2>2. Effect(servers, o, r)
    BY <1>0, <2>1, StoreEffect
  <2>3. stage = "array" /\ online' = online
    BY <1>4 DEF ArrayOption
  <2>4. CASE o.name = "connect"
    <3>1. connect' = IsTrue(o) /\ UNCHANGED <<servers, stage, asked>>
      BY <1>4, <2>4 DEF ArrayOption
    <3>2. connect' \in BOOLEAN
      BY <3>1 DEF IsTrue
    <3> QED
      BY <2>3, <3>1, <3>2 DEF AskedInv, Parsed
  <2>5. CASE o.name = "0"
    <3>1. stage' = "thrown" /\ UNCHANGED <<connect, asked>>
      BY <1>4, <2>5 DEF ArrayOption, Throw
    <3> QED
      BY <3>1, ThrownAsked
  <2>6. CASE o.name \notin {"connect", "0"}
    <3>1. /\ servers' = r.s /\ UNCHANGED connect
          /\ IF r.code > 0 THEN Throw(20 + r.code) /\ UNCHANGED asked
                           ELSE asked' = Ask(asked, o) /\ UNCHANGED <<stage, error>>
      BY <1>4, <2>6 DEF ArrayOption
    <3> HIDE DEF r
    <3>2. CASE r.code > 0
      BY <3>1, <3>2, ThrownAsked DEF Throw
    <3>3. CASE ~(r.code > 0)
      BY <2>1, <2>2, <2>3, <3>1, <3>3, StoredAsked
    <3> QED
      BY <3>2, <3>3
  <2> QED
    BY <2>4, <2>5, <2>6
<1>5. CASE ArrayDone
  BY <1>5 DEF ArrayDone, AskedInv, Parsed
<1>6. CASE Connect
  <2>1. /\ stage = "connect" /\ stage' \in {"done", "thrown"} /\ online' \in MayConnect(connect)
        /\ UNCHANGED <<servers, connect, asked>>
    BY <1>6 DEF Connect, Throw
  <2>2. connect = FALSE => online' = FALSE
    BY <2>1, ClientAssumption DEF MayConnect
  <2> QED
    BY <2>1, <2>2 DEF AskedInv, Parsed
<1>7. CASE UNCHANGED vars
  BY <1>7 DEF vars, AskedInv, Parsed
<1> QED
  BY <1>1, <1>2, <1>3, <1>4, <1>5, <1>6, <1>7 DEF Next

\* parse.c stores the options of the string and then those of the array, one by
\* one.  Whatever the options and their order, every server of a built client has
\* what was given last, but for the users, passwords and databases that are only
\* options of the string and a source that a database came after, and has nothing
\* else; admin is the database of a user without one, a write concern is set, and
\* connect=false is honoured.
THEOREM LastWins == Spec => []LastGivenWins
<1>1. Init => AskedInv
  <2> SUFFICES ASSUME Init PROVE AskedInv
    OBVIOUS
  <2>1. stage = "hosts" /\ connect = Null /\ online = FALSE /\ asked = NothingAsked
    BY DEF Init
  <2>2. NothingAsked \in AskedValues
    BY DEF NothingAsked, AskedValues, Texts
  <2> QED
    BY <2>1, <2>2 DEF AskedInv, Parsed
<1>2. GivenInv /\ [Next]_vars => GivenInv'
  BY NextAgree, NextAsked DEF GivenInv
<1>3. ASSUME GivenInv PROVE LastGivenWins
  <2> SUFFICES ASSUME Built PROVE LastGivenWins!2
    BY DEF LastGivenWins
  <2>1. Parsed
    BY DEF Built, Parsed
  <2>2. /\ \A k \in 1..Len(servers.server) :
             Follows(servers.server[k], asked) /\ Names(servers.server[k], asked)
        /\ servers.options.rs = asked.rs /\ OneWriteConcern(servers.options)
    BY <1>3, <2>1 DEF GivenInv, AskedInv, Parsed
  <2>3. connect = FALSE => ~online
    BY <1>3 DEF GivenInv, AskedInv, Built
  <2>4. (servers.options.w >= 0) # (servers.options.wstring # Null)
    BY <2>2 DEF OneWriteConcern
  <2>5. ASSUME NEW d \in Servers PROVE Follows(d, asked) /\ Names(d, asked)
    BY <2>2 DEF Servers
  <2>6. UserKept(asked) = Kept("user") /\ PassKept(asked) = Kept("pass") /\ DbKept(asked) = Kept("db")
    BY DEF Kept, UserKept, PassKept, DbKept
  <2>7. servers.options.rs = asked.rs
    BY <2>2
  <2>8. ASSUME NEW d \in Servers
        PROVE  /\ d.user = Kept("user") /\ d.pass = Kept("pass")
               /\ d.db = IF Kept("db") # Null THEN Kept("db")
                         ELSE IF d.user # Null THEN <<"admin">> ELSE Null
    BY <2>5, <2>6 DEF Names
  <2>9. ASSUME NEW d \in Servers
        PROVE  /\ \/ d.authdb = asked.source
                  \/ asked.overtaken /\ d.authdb = Null
                  \/ /\ asked.overtaken \/ asked.source = Null
                     /\ asked.user # Null /\ d.authdb = <<"admin">>
               /\ d.mech = IF asked.mech = Null THEN "MONGODB-CR" ELSE asked.mech
               /\ d.rs = asked.name
    BY <2>5 DEF Follows, Source
  <2> QED
    BY <2>3, <2>4, <2>7, <2>8, <2>9
<1> QED
  BY <1>1, <1>2, <1>3, InitAgree, PTL DEF Spec, GivenInv
-----------------------------------------------------------------------------
(* The hash of a server *)

\* The texts that a hash can carry.  mongo_server_create_hash escapes nothing, so
\* a separator within a field is taken for the end of it.  Passwords may be
\* anything, for only their digest is in the hash.
TextsPlain ==
  /\ \A t \in HostTexts : Without(t, ":") /\ Without(t, ";")
  /\ \A t \in PortTexts : Without(t, ";")
  /\ \A s \in Specs : s.user # Null => PlainUser(s.user)
  /\ \A s \in Specs : s.db # Null => PlainDb(s.db)
  /\ \A o \in Given : o.text # Null =>
       /\ o.name = "username" => PlainUser(o.text)
       /\ o.name = "db" => PlainDb(o.text)
       /\ o.name = "replicaSet" => PlainSet(o.text)
  /\ \A p \in Pids, t, u \in Texts : HashedPassword(p, t, u) \in STRING \ {";"}

\* What an option may make of a definition.
PlainDef(d) ==
  /\ d.user # Null => PlainUser(d.user)
  /\ d.db # Null => PlainDb(d.db)
  /\ d.rs # Null => PlainSet(d.rs)

AllPlain(L) == \A k \in 1..Len(L) : PlainDef(L[k])
PlainInv == AgreeInv /\ AllPlain(servers.server)

\* The default database of credentials is one that a hash can carry.
LEMMA AdminPlain == PlainDb(<<"admin">>)
<1> DEFINE x == "admin"
           y == ";"
           z == "/"
<1>1. x \in Letters /\ y # x /\ z # x /\ x # "."
  BY DEF Letters
<1> HIDE DEF x, y, z
<1>2. <<x>> \in Seq(Letters) /\ Without(<<x>>, y)
  BY <1>1, OneLetter
<1>3. Without(<<x>>, z) /\ First(<<x>>, z) = x
  BY <1>1, OneLetter
<1> QED
  BY <1>1, <1>2, <1>3 DEF PlainDb, x, y, z

\* An option makes plain definitions of plain ones.
LEMMA ToldPlain ==
  ASSUME TextsPlain, NEW d \in Defs, PlainDef(d), NEW o \in Given
  PROVE  PlainDef(Told(d, o))
<1>1. o.text # Null =>
       /\ o.name = "username" => PlainUser(o.text)
       /\ o.name = "db" => PlainDb(o.text)
       /\ o.name = "replicaSet" => PlainSet(o.text)
  BY DEF TextsPlain
<1> DEFINE admin == <<"admin">>
<1>2. PlainDb(admin)
  BY AdminPlain
<1> DEFINE T == Texts
           H == HostTexts
           P == PortTexts
           e == Told(d, o)
<1>3. d \in [host : H, port : P, user : T, pass : T, db : T, authdb : T, mech : AuthMechanisms, rs : T]
  BY DEF Defs
<1> HIDE DEF T, H, P, admin
<1>4. e.user = d.user \/ (e.user = o.text /\ o.name = "username")
  BY <1>3 DEF Told
<1>5. e.db = d.db \/ (e.db = o.text /\ o.name = "db") \/ e.db = admin
  BY <1>3 DEF Told, admin
<1>6. e.rs = d.rs \/ (e.rs = o.text /\ o.name = "replicaSet")
  BY <1>3 DEF Told
<1> HIDE DEF e
<1>7. PlainDef(e)
  BY <1>1, <1>2, <1>4, <1>5, <1>6 DEF PlainDef
<1> QED
  BY <1>7 DEF e

\* An option makes plain servers of plain ones.
LEMMA OptionPlain ==
  ASSUME TextsPlain, NEW s \in Settings, AllPlain(s.server), NEW o \in Given
  PROVE  AllPlain(StoreOption(s, o).s.server)
<1>1. StoreOption(s, o).s.server = ToldAll(s, o)
  BY StoreEffect DEF Effect
<1>2. /\ Len(ToldAll(s, o)) = Len(s.server)
      /\ \A k \in 1..Len(s.server) : s.server[k] \in Defs /\ ToldAll(s, o)[k] = Told(s.server[k], o)
  BY ToldAllType
<1>3. AllPlain(ToldAll(s, o))
  BY <1>2, ToldPlain DEF AllPlain
<1> QED
  BY <1>1, <1>3

\* Every step keeps the servers plain.
LEMMA NextPlain ==
  ASSUME TextsPlain, PlainInv, [Next]_vars
  PROVE  PlainInv'
<1>0. servers \in Settings /\ spec \in Specs /\ AgreeInv' /\ AllPlain(servers.server)
  BY NextAgree DEF PlainInv, AgreeInv, TypeInv
<1> SUFFICES AllPlain(servers.server)'
  BY <1>0 DEF PlainInv
<1>1. CASE ParseHosts
  BY <1>1, HostsAgree DEF PlainInv, AllPlain, PlainDef, Nameless
<1>2. ASSUME NEW o \in UrlOptions, UrlOption(o) PROVE AllPlain(servers.server)'
  <2>1. o \in Given
    BY DEF Given
  <2>2. servers' = servers \/ servers' = StoreOption(servers, o).s
    BY <1>2 DEF UrlOption, Refused
  <2> QED
    BY <1>0, <2>1, <2>2, OptionPlain
<1>3. CASE UrlDone
  <2> DEFINE told(d) == [d EXCEPT !.user = spec.user, !.pass = spec.pass, !.db = UrlDatabase(spec)]
             L == servers.server
             M == servers'.server
  <2>1. Len(M) = Len(L) /\ \A k \in 1..Len(L) : L[k] \in Defs /\ M[k] = told(L[k])
    BY <1>3, UrlDoneSettings DEF PlainInv
  <2>2. /\ spec.user # Null => PlainUser(spec.user)
        /\ UrlDatabase(spec) # Null => PlainDb(UrlDatabase(spec))
    BY <1>0, AdminPlain DEF TextsPlain, UrlDatabase
  <2>3. \A d \in Defs : PlainDef(d) => PlainDef(told(d))
    BY <2>2 DEF PlainDef, Defs
  <2>4. AllPlain(L)
    BY <1>0
  <2> HIDE DEF told, L, M
  <2>5. AllPlain(M)
    BY <2>1, <2>3, <2>4 DEF AllPlain
  <2> QED
    BY <2>5 DEF M
<1>4. ASSUME NEW o \in ArrOptions, ArrayOption(o) PROVE AllPlain(servers.server)'
  <2>1. o \in Given
    BY DEF Given
  <2>2. servers' = servers \/ servers' = StoreOption(servers, o).s
    BY <1>4 DEF ArrayOption
  <2> QED
    BY <1>0, <2>1, <2>2, OptionPlain
<1>5. CASE ArrayDone
  BY <1>0, <1>5 DEF ArrayDone
<1>6. CASE Connect
  BY <1>0, <1>6 DEF Connect
<1>7. CASE UNCHANGED vars
  BY <1>0, <1>7 DEF vars
<1> QED
  BY <1>1, <1>2, <1>3, <1>4, <1>5, <1>6, <1>7 DEF Next

\* There are no servers to begin with.
LEMMA InitPlain == Init => PlainInv
<1>1. Init => Len(servers.server) = 0
  BY DEF Init, ParseInit
<1> QED
  BY <1>1, InitAgree DEF PlainInv, AllPlain

\* The port 27017 is a text without separators.
LEMMA DefaultPort ==
  <<"2", "7", "0", "1", "7">> \in Seq(Letters)
<1>1. "2" \in Letters /\ "7" \in Letters /\ "0" \in Letters /\ "1" \in Letters
  BY DEF Letters
<1> QED
  BY <1>1

\* More letters do not harm a text.
LEMMA MoreLetters ==
  ASSUME NEW S, NEW T, S \subseteq T, NEW t \in Seq(S)
  PROVE  t \in Seq(T)
<1>1. Len(t) \in Nat /\ t \in [1..Len(t) -> S]
  OBVIOUS
<1>2. t \in [1..Len(t) -> T]
  BY <1>1
<1> QED
  BY <1>1, <1>2

\* The texts of a definition.
LEMMA DefTexts ==
  ASSUME NEW d \in Defs, NEW p \in Pids
  PROVE  /\ d.host \in Seq(Letters) /\ d.port \in Seq(Letters) /\ p \in Seq(Letters)
         /\ \A t \in Texts : t = Null \/ t \in Seq(Letters)
<1>1. d.host \in HostTexts /\ d.port \in PortTexts
  BY DEF Defs
<1>2. d.host \in Seq(Letters)
  <2>1. PICK h \in GivenHosts : d.host = h.host
    BY <1>1 DEF HostTexts
  <2>2. PICK s \in Specs : h \in HostsOf(s)
    BY DEF GivenHosts
  <2>3. PICK k \in 1..Len(s.hosts) : h = s.hosts[k]
    BY <2>2 DEF HostsOf
  <2>4. IsText(s.hosts[k].host)
    BY ClientAssumption
  <2> QED
    BY <2>1, <2>3, <2>4, TextLetters
<1>3. d.port \in Seq(Letters)
  <2>1. CASE d.port = <<"2", "7", "0", "1", "7">>
    BY <2>1, DefaultPort
  <2>2. CASE d.port # <<"2", "7", "0", "1", "7">>
    <3>1. PICK h \in GivenHosts : d.port = h.port /\ d.port # Null
      BY <1>1, <2>2 DEF PortTexts
    <3>2. PICK s \in Specs : h \in HostsOf(s)
      BY DEF GivenHosts
    <3>3. PICK k \in 1..Len(s.hosts) : h = s.hosts[k]
      BY <3>2 DEF HostsOf
    <3>4. s.hosts[k].port = Null \/ IsText(s.hosts[k].port)
      BY ClientAssumption
    <3> QED
      BY <3>1, <3>3, <3>4, TextLetters
  <2> QED
    BY <2>1, <2>2
<1>4. p \in Seq(Letters)
  BY ClientAssumption, TextLetters
<1>5. ASSUME NEW t \in Texts, t # Null PROVE t \in Seq(Letters)
  <2>1. CASE t = <<"admin">>
    <3> DEFINE x == "admin"
    <3>1. x \in Letters /\ t = <<x>>
      BY <2>1 DEF Letters
    <3> HIDE DEF x
    <3> QED
      BY <3>1
  <2>2. CASE \E o \in Given : t = o.text
    BY <1>5, <2>2, ClientAssumption, TextLetters DEF Given
  <2>3. CASE \E s \in Specs : t \in {s.user, s.pass, s.db}
    <3>1. PICK s \in Specs : t \in {s.user, s.pass, s.db} \ {Null}
      BY <1>5, <2>3
    <3>2. IsText(t)
      BY <3>1, ClientAssumption
    <3> QED
      BY <3>2, TextLetters
  <2> QED
    BY <1>5, <2>1, <2>2, <2>3 DEF Texts
<1> QED
  BY <1>2, <1>3, <1>4, <1>5

\* The hash of a plain definition can be taken apart again.
LEMMA PlainSplits ==
  ASSUME TextsPlain, NEW d \in Defs, PlainDef(d), NEW p \in Pids
  PROVE  PlainServer(d, p)
<1>1. d.host \in HostTexts /\ d.port \in PortTexts /\ d.user \in Texts /\ d.pass \in Texts
  BY DEF Defs
<1>2. d.host \in Seq(Letters) /\ d.port \in Seq(Letters) /\ p \in Seq(Letters)
  BY DefTexts
<1>3. HashedPassword(p, d.pass, d.user) \in Letters \ {";"}
  <2>1. HashedPassword(p, d.pass, d.user) \in STRING \ {";"}
    BY <1>1 DEF TextsPlain
  <2> DEFINE g == HashedPassword(p, d.pass, d.user)
             S == STRING
  <2> HIDE DEF g
  <2>2. g \in S \ {";"} /\ S \subseteq Letters
    BY <2>1 DEF g, Letters
  <2> HIDE DEF S
  <2>3. g \in Letters \ {";"}
    BY <2>2
  <2> QED
    BY <2>3 DEF g
<1>4. Without(d.host, ":") /\ Without(d.host, ";") /\ Without(d.port, ";")
  BY <1>1 DEF TextsPlain
<1> QED
  BY <1>2, <1>3, <1>4 DEF PlainServer, PlainDef, Credentialed

\* The fields of any definition are texts, whatever their letters.
LEMMA DefTyped ==
  ASSUME NEW d \in Defs, NEW p \in Pids
  PROVE  TypedServer(Letters \cup {HashedPassword(p, d.pass, d.user)}, d, p)
<1> DEFINE g == HashedPassword(p, d.pass, d.user)
           S == Letters \cup {g}
<1>1. d.user \in Texts /\ d.db \in Texts /\ d.rs \in Texts
  BY DEF Defs
<1>2. /\ d.host \in Seq(Letters) /\ d.port \in Seq(Letters) /\ p \in Seq(Letters)
      /\ d.user # Null => d.user \in Seq(Letters)
      /\ d.db # Null => d.db \in Seq(Letters)
      /\ d.rs # Null => d.rs \in Seq(Letters)
  BY <1>1, DefTexts
<1>3. ":" \in Letters /\ ";" \in Letters /\ "/" \in Letters /\ "." \in Letters /\ "-" \in Letters
  BY DEF Letters
<1>4. Letters \subseteq S /\ g \in S
  OBVIOUS
<1> HIDE DEF S
<1>5. \A t \in Seq(Letters) : t \in Seq(S)
  BY <1>4, MoreLetters
<1>6. ":" \in S /\ ";" \in S /\ "/" \in S /\ "." \in S /\ "-" \in S
  BY <1>3, <1>4
<1>7. TypedServer(S, d, p)
  BY <1>2, <1>4, <1>5, <1>6 DEF TypedServer, Credentialed
<1> QED
  BY <1>7 DEF S

\* A copy with the credentials is the definition, one without names nobody.
LEMMA CopiesKept ==
  ASSUME NEW s \in Settings, NEW k \in 1..Len(CopyServers(s, TRUE).server)
  PROVE  /\ CopyServers(s, TRUE).server[k] = s.server[k]
         /\ ~Credentialed(CopyServers(s, FALSE).server[k])
         /\ CopyServers(s, FALSE).server[k].rs = s.server[k].rs
<1> DEFINE L == s.server
           K == [j \in 1..Len(L) |-> CopyServer(L[j], TRUE)]
           B == [j \in 1..Len(L) |-> CopyServer(L[j], FALSE)]
<1>1. L \in Seq(Defs) /\ Len(L) \in Nat
  BY DEF Settings
<1>2. CopyServers(s, TRUE).server = K /\ CopyServers(s, FALSE).server = B
  BY DEF CopyServers, Settings
<1>3. Len(K) = Len(L)
  BY <1>1
<1>4. k \in 1..Len(L)
  BY <1>2, <1>3
<1>5. L[k] \in Defs
  BY <1>1, <1>4
<1>6. K[k] = CopyServer(L[k], TRUE) /\ B[k] = CopyServer(L[k], FALSE)
  BY <1>4
<1>7. \A d \in Defs : /\ CopyServer(d, TRUE) = d
                       /\ CopyServer(d, FALSE).user = Null /\ CopyServer(d, FALSE).rs = d.rs
  BY DEF CopyServer, Defs
<1> HIDE DEF K, B, L
<1>8. K[k] = L[k] /\ ~Credentialed(B[k]) /\ B[k].rs = L[k].rs
  BY <1>5, <1>6, <1>7 DEF Credentialed
<1> QED
  BY <1>2, <1>8 DEF L

\* With texts that hold no separators the hash of every server of a client, after
\* any options in any order, gives back what went into it, and copies keep it.
THEOREM HashIdentity ==
  ASSUME TextsPlain
  PROVE  Spec => []HashIsIdentity
<1>1. PlainInv => HashIsIdentity
  <2> SUFFICES ASSUME PlainInv, NEW d \in Servers, NEW p \in Pids
               PROVE  /\ SplitHash(CreateHash(d, p)) = Parts(d, p)
                      /\ HashToServer(CreateHash(d, p)) = d.host \o <<":">> \o d.port
                      /\ \A k \in 1..Len(CopyServers(servers, TRUE).server) :
                           /\ CopyServers(servers, TRUE).server[k] = servers.server[k]
                           /\ ~Credentialed(CopyServers(servers, FALSE).server[k])
                           /\ CopyServers(servers, FALSE).server[k].rs = servers.server[k].rs
    BY DEF HashIsIdentity
  <2>1. servers \in Settings /\ servers.server \in Seq(Defs)
    BY DEF PlainInv, AgreeInv, TypeInv, Settings
  <2>2. d \in Defs /\ PlainDef(d)
    BY <2>1 DEF Servers, PlainInv, AllPlain
  <2>3. PlainServer(d, p)
    BY <2>2, PlainSplits
  <2>4. /\ SplitHash(CreateHash(d, p)) = Parts(d, p)
        /\ HashToServer(CreateHash(d, p)) = d.host \o <<":">> \o d.port
    BY <2>3, HashSplits
  <2> QED
    BY <2>1, <2>4, CopiesKept
<1>2. PlainInv /\ [Next]_vars => PlainInv'
  BY NextPlain
<1> QED
  BY <1>1, <1>2, InitPlain, PTL DEF Spec

\* utils.c:56-72: whatever the hosts, sets, users, databases and pids, and however
\* long, the hash of every server of a client is within its buffer exactly as long
\* as port and pid have ten digits together, twelve with a set or with credentials,
\* fourteen with both.
THEOREM HashInBounds == Spec => []HashRoom
<1>1. AgreeInv => HashRoom
  <2> SUFFICES ASSUME AgreeInv, NEW d \in Servers, NEW p \in Pids
               PROVE  Written(d, p) <= Allocated(d) <=> Len(d.port) + Len(p) <= DigitsRoom(d)
    BY DEF HashRoom
  <2>1. servers.server \in Seq(Defs)
    BY DEF AgreeInv, TypeInv, Settings
  <2>2. d \in Defs
    BY <2>1 DEF Servers
  <2> DEFINE w == Written(d, p)
             m == Allocated(d)
             r == DigitsRoom(d)
             B == Len(d.port)
             P == Len(p)
  <2>3. w - m = B + P - r /\ w \in Int /\ m \in Int /\ B \in Int /\ P \in Int /\ r \in Int
    BY <2>2, DefTyped, RunsOver
  <2> HIDE DEF w, m, r, B, P
  <2>4. w <= m <=> B + P <= r
    BY <2>3
  <2> QED
    BY <2>4 DEF w, m, r, B, P
<1>2. AgreeInv /\ [Next]_vars => AgreeInv'
  BY NextAgree
<1> QED
  BY <1>1, <1>2, InitAgree, PTL DEF Spec
=============================================================================
