----------------------------- MODULE MCMiniBson -----------------------------
(* Words, elements and replies for MiniBson. *)
EXTENDS MiniBson

Zeros(n) == [k \in 1..n |-> 0]
Of(type, name, value) == [type |-> type, name |-> name, value |-> value]

SmallWords == {<<>>, <<97, 98>>}

\* Two names, one a prefix of the other.
SmallNames == {<<97>>, <<97, 97>>}

Strings(t) == {<<>>, <<Of(t, <<48>>, <<97>>)>>,
               <<Of(t, <<48>>, <<97>>), Of(t, <<49>>, <<>>), Of(t, <<50>>, <<98, 97>>)>>}
Numbers == {[k \in 1..n |-> Of(Type.INT32, <<47 + k>>, <<k, 0, 0, 0>>)] : n \in {1, 5}}

\* The values of a type; a binary value holds a NUL, a string may.
Values(t) ==
  CASE t \in {Type.STRING, Type.JAVASCRIPT, Type.SYMBOL} -> {<<>>, <<98>>, <<97, 0, 97>>}
    [] t = Type.BINARY -> {<<>>, <<2, 97, 0>>}
    [] t \in {Type.DOCUMENT, Type.ARRAY} -> Strings(Type.STRING) \cup Numbers
    [] t = Type.BOOLEAN -> {<<0>>, <<1>>}
    [] t = Type.OBJECT_ID -> {Zeros(12)}
    [] t \in {Type.DOUBLE, Type.DATETIME, Type.TIMESTAMP, Type.INT64} -> {Zeros(8)}
    [] t = Type.INT32 -> {<<255, 255, 255, 255>>}
    [] t \in {Type.DBPOINTER, Type.REGEXP} -> {<<97>>}
    [] OTHER -> {<<>>}

\* The values of the reply's first element, of types whose reading this runs on.
AllTypes == {Type[t] : t \in DOMAIN Type}
ElementsOf(types, names) == UNION {{Of(t, n, v) : n \in names, v \in Values(t)} : t \in types}

\* Any element, then any of a type that is looked for.
Replies(types) ==
  {<<>>} \cup {<<a>> : a \in ElementsOf(types, SmallNames)}
    \cup {<<a, b>> : a \in ElementsOf(types, {<<97>>}),
                     b \in ElementsOf(types \cap Searchable, SmallNames)}

\* Elements of every type but regular expressions (MiniBsonAssumption).
PlainReplies == Replies(AllTypes \ {Type.REGEXP})
=============================================================================
