------------------------------- MODULE MiniBson -------------------------------
(***************************************************************************)
(* The driver's own BSON (mini_bson.c), byte by byte: how a command is put *)
(* together in a growing buffer (str.c, bson_helpers.c), and how a reply   *)
(* is searched and its arrays are walked.  A byte is 0..255, an address is *)
(* an index into the bytes of the reply and NULL is 0.                     *)
(***************************************************************************)
EXTENDS Integers, FiniteSetsExt, SequencesExt

CONSTANTS
  Words,      \* what is put into commands: C strings
  Documents,  \* what a server replies: sequences of elements [type, name, value]
  Prealloc,   \* MCON_STR_PREALLOC
  Absent      \* a NULL argument

VARIABLES
  pc,       \* "idle", "build", "sent", "got", "find", "found", "array", "walked"
  cmd,      \* the command: its namespace and its fields
  str,      \* the mcon_str: its bytes d and the size a that is allocated
  todo,     \* the pieces still to be added to it
  reply,    \* the document the server sent ...
  buf,      \* ... and its bytes
  walk      \* the search: ptr, name, type, result; of an array also data and list

vars == <<pc, cmd, str, todo, reply, buf, walk>>

NULL == 0

\* The type bytes.
Type ==
  [DOUBLE |-> 1, STRING |-> 2, DOCUMENT |-> 3, ARRAY |-> 4, BINARY |-> 5, UNDEFINED |-> 6,
   OBJECT_ID |-> 7, BOOLEAN |-> 8, DATETIME |-> 9, NULL |-> 10, REGEXP |-> 11,
   DBPOINTER |-> 12, JAVASCRIPT |-> 13, SYMBOL |-> 14, INT32 |-> 16, TIMESTAMP |-> 17,
   INT64 |-> 18, MIN_KEY |-> 255, MAX_KEY |-> 127]

Searchable == {Type.ARRAY, Type.DOCUMENT, Type.DOUBLE, Type.BOOLEAN, Type.INT32,
               Type.INT64, Type.STRING}

\* mcon_serialize_int and mcon_serialize_int32, as on a little-endian machine
SerializeInt(n) ==
  <<n % 256, (n \div 256) % 256, (n \div 65536) % 256, (n \div 16777216) % 256>>

\* mcon_serialize_int64
SerializeInt64(n) == SerializeInt(n) \o SerializeInt(IF n < 0 THEN -1 ELSE 0)
-----------------------------------------------------------------------------
(* What BSON is *)

CString(chars) == chars \o <<0>>
LengthAndString(chars) == SerializeInt(Len(chars) + 1) \o CString(chars)

\* The document of elements whose bytes are given, ...
Document(pieces) ==
  LET body == FlattenSeq(pieces) IN SerializeInt(Len(body) + 5) \o body \o <<0>>

\* ... and that of elements with the values V(e).
Element(e, value) == <<e.type>> \o CString(e.name) \o value
Doc(V(_), elements) ==
  Document([k \in DOMAIN elements |-> Element(elements[k], V(elements[k]))])

\* The value of an element that is not a document; of fixed width as it is.
Scalar(e) ==
  CASE e.type \in {Type.STRING, Type.JAVASCRIPT, Type.SYMBOL} -> LengthAndString(e.value)
    [] e.type = Type.BINARY    -> SerializeInt(Len(e.value)) \o <<0>> \o e.value
    [] e.type = Type.DBPOINTER -> LengthAndString(e.value) \o [k \in 1..12 |-> k]
    [] e.type = Type.REGEXP    -> CString(e.value) \o CString(e.value)
    [] OTHER -> e.value

Value(e) == IF e.type \in {Type.DOCUMENT, Type.ARRAY} THEN Doc(Scalar, e.value) ELSE Scalar(e)
Encoded(elements) == Doc(Value, elements)

\* The elements a server sends: scalars, of a fixed width or of a length that an int
\* holds, and documents of scalars.  No name holds a NUL, nor does a string within
\* a document or an array, which the driver copies as a C string.
Bytes == 0..255
Chars == 1..255
StringTypes == {Type.STRING, Type.JAVASCRIPT, Type.SYMBOL}
FixedTypes ==
  {Type.OBJECT_ID, Type.BOOLEAN, Type.DOUBLE, Type.DATETIME, Type.TIMESTAMP, Type.INT64,
   Type.INT32, Type.UNDEFINED, Type.NULL, Type.MIN_KEY, Type.MAX_KEY}
ScalarTypes == StringTypes \cup {Type.BINARY, Type.DBPOINTER} \cup FixedTypes
MaxInt32 == 2147483647

Width(t) ==
  CASE t = Type.OBJECT_ID -> 12
    [] t = Type.BOOLEAN -> 1
    [] t \in {Type.DOUBLE, Type.DATETIME, Type.TIMESTAMP, Type.INT64} -> 8
    [] t = Type.INT32 -> 4
    [] OTHER -> 0

Scalars ==
  {e \in [type : ScalarTypes, name : Seq(Chars), value : Seq(Bytes)] :
     IF e.type \in FixedTypes THEN Len(e.value) = Width(e.type) ELSE Len(e.value) < MaxInt32}
Nested == {e \in Scalars : e.type = Type.STRING => e.value \in Seq(Chars)}
Embedded ==
  {e \in [type : {Type.DOCUMENT, Type.ARRAY}, name : Seq(Chars), value : Seq(Nested)] :
     Len(Doc(Scalar, e.value)) <= MaxInt32}
Elements == Scalars \cup Embedded

\* A regular expression is two C strings and bson_next (mini_bson.c:357) skips
\* one, so replies with one are left out.
ASSUME MiniBsonAssumption ==
  /\ Prealloc \in Nat \ {0}
  /\ Words \subseteq Seq(Chars)
  /\ Documents \subseteq Seq(Elements)

\* Where element k of a document that starts at base is, and where its value is.
ElementAt(elements, base, k) ==
  base + Len(Encoded(SubSeq(elements, 1, k - 1))) - 1
ValueAt(elements, base, k) == ElementAt(elements, base, k) + Len(elements[k].name) + 2
-----------------------------------------------------------------------------
(* Building a command *)

\* mcon_str_addl
Addl(xs, bytes) ==
  [d |-> xs.d \o bytes,
   a |-> IF Len(xs.d) + Len(bytes) > xs.a - 1 THEN xs.a + Len(bytes) + Prealloc ELSE xs.a]

\* create_simple_header: length, request id, response to, OP_QUERY, flags, the
\* namespace, number to skip and to return.
SimpleHeader(ns) ==
  <<SerializeInt(0), SerializeInt(1), SerializeInt(0), SerializeInt(2004), SerializeInt(4),
    CString(ns), SerializeInt(0), SerializeInt(-1)>>

\* bson_add_int32, bson_add_long, bson_add_stringl
AddInt32(name, n)  == << <<Type.INT32>>, CString(name), SerializeInt(n)>>
AddLong(name, n)   == << <<Type.INT64>>, CString(name), SerializeInt64(n)>>
AddStringl(name, chars, len) ==
  << <<Type.STRING>>, CString(name), SerializeInt(len), chars, <<0>> >>

\* One field, as the functions below add it; the length of a string is the one
\* bson_add_string and the callers with a payload (io_stream.cpp) give.
AddField(f) ==
  CASE f.type = Type.INT32 -> AddInt32(f.name, f.n)
    [] f.type = Type.INT64 -> AddLong(f.name, f.n)
    [] OTHER -> AddStringl(f.name, f.value, Len(f.value) + 1)

LongField(name)       == [type |-> Type.INT64, name |-> name, n |-> 1, value |-> SerializeInt64(1)]
IntField(name, n)     == [type |-> Type.INT32, name |-> name, n |-> n, value |-> SerializeInt(n)]
StringField(name, v)  == [type |-> Type.STRING, name |-> name, n |-> 0, value |-> v]
OptionalField(name, v) == IF v = Absent THEN <<>> ELSE <<StringField(name, v)>>

\* The ping, isMaster, buildInfo, replSetGetStatus and getnonce packets differ in
\* the name w only; "admin" is the word <<1>>, ".$cmd" the byte 36.
SimpleCommand(w) == [ns |-> <<1, 36>>, fields |-> <<LongField(w)>>]

\* bson_create_authenticate_packet; nonce, key and mechanism may be NULL.
AuthenticateCommand(db, user, nonce, key, mechanism) ==
  [ns |-> db \o <<36>>,
   fields |-> <<LongField(<<2>>), StringField(<<3>>, user)>> \o OptionalField(<<4>>, nonce)
                \o OptionalField(<<5>>, key) \o OptionalField(<<6>>, mechanism)]

\* bson_create_saslstart_packet, which asks for the mechanisms without one
SaslStartCommand(db, mechanism, payload) ==
  [ns |-> db \o <<36>>,
   fields |-> <<LongField(<<7>>),
                StringField(<<6>>, IF mechanism = Absent THEN <<63, 63>> ELSE mechanism),
                StringField(<<8>>, IF mechanism = Absent THEN <<>> ELSE payload),
                LongField(<<9>>)>>]

\* bson_create_saslcontinue_packet
SaslContinueCommand(db, id, payload) ==
  [ns |-> db \o <<36>>,
   fields |-> <<LongField(<<10>>), IntField(<<11>>, id), StringField(<<8>>, payload)>>]

\* Command c is begun: mcon_str_ptr_init, and what is to be added.
Begin(c) ==
  /\ pc = "idle" /\ pc' = "build"
  /\ cmd' = c
  /\ str' = [d |-> <<>>, a |-> 0]
  /\ todo' = SimpleHeader(c.ns) \o <<SerializeInt(0)>>
               \o FlattenSeq([k \in DOMAIN c.fields |-> AddField(c.fields[k])]) \o << <<0>> >>
  /\ UNCHANGED <<reply, buf, walk>>

AddPiece ==
  /\ pc = "build" /\ todo # <<>>
  /\ str' = Addl(str, Head(todo)) /\ todo' = Tail(todo)
  /\ UNCHANGED <<pc, cmd, reply, buf, walk>>

\* Mutant of Lengths: the document's length does not count itself.
LengthsExclusive(d, hdr) ==
  SerializeInt(Len(d)) \o SubSeq(d, 5, hdr) \o SerializeInt(Len(d) - hdr - 4)
    \o SubSeq(d, hdr + 5, Len(d))

\* The two lengths are filled in: of the packet, and of the document at hdr.
Lengths(d, hdr) ==
  SerializeInt(Len(d)) \o SubSeq(d, 5, hdr) \o SerializeInt(Len(d) - hdr)
    \o SubSeq(d, hdr + 5, Len(d))

HeaderLength(ns) == Len(FlattenSeq(SimpleHeader(ns)))

Send ==
  /\ pc = "build" /\ todo = <<>> /\ pc' = "sent"
  /\ str' = [str EXCEPT !.d = Lengths(@, HeaderLength(cmd.ns))]
  /\ UNCHANGED <<cmd, todo, reply, buf, walk>>

\* The server replies; mongo_connect_send_packet has freed the packet.
Reply(doc) ==
  /\ pc = "sent" /\ pc' = "got"
  /\ reply' = doc /\ buf' = Encoded(doc)
  /\ str' = [d |-> <<>>, a |-> 0] /\ cmd' = SimpleCommand(<<>>)
  /\ UNCHANGED <<todo, walk>>
-----------------------------------------------------------------------------
(* Reading a reply *)

\* What lies beyond the reply is taken to be zeros.
ByteAt(k) == IF k \in DOMAIN buf THEN buf[k] ELSE 0
Signed(b) == IF b > 127 THEN b - 256 ELSE b

\* MONGO_32 of the four bytes at k
Int32At(k) ==
  ByteAt(k) + 256 * ByteAt(k + 1) + 65536 * ByteAt(k + 2) + 16777216 * Signed(ByteAt(k + 3))

\* strchr(data, '\0') + 1
AfterNul(k) == Min({j \in k..Len(buf) : buf[j] = 0} \cup {Len(buf) + 1}) + 1
SkipFieldName(k) == AfterNul(k)
CStringAt(k) == SubSeq(buf, k, AfterNul(k) - 2)

\* A string: its length, and the bytes with the NUL, which it counts.
StringSize(data) == 4 + Int32At(data)

\* The switch of bson_next: the address after the value at data; of a regular
\* expression only the first of the two strings is skipped.
Skipped(type, data) ==
  CASE type \in {Type.STRING, Type.JAVASCRIPT, Type.SYMBOL} -> data + StringSize(data)
    [] type \in {Type.DOCUMENT, Type.ARRAY} -> data + Int32At(data)
    [] type = Type.BINARY -> data + 4 + 1 + Int32At(data)
    [] type \in {Type.UNDEFINED, Type.NULL, Type.MIN_KEY, Type.MAX_KEY} -> data
    [] type = Type.OBJECT_ID -> data + 12
    [] type = Type.BOOLEAN -> data + 1
    [] type \in {Type.DOUBLE, Type.DATETIME, Type.TIMESTAMP, Type.INT64} -> data + 8
    [] type = Type.REGEXP -> AfterNul(data)
    [] type = Type.DBPOINTER -> data + StringSize(data) + 12
    [] type = Type.INT32 -> data + 4
    [] OTHER -> NULL

\* bson_next: the element after the one at k, or NULL at the end of the document.
BsonNext(k) == IF ByteAt(k) = 0 THEN NULL ELSE Skipped(ByteAt(k), SkipFieldName(k + 1))

\* bson_get_current: the type is a signed char there, the name starts after it,
\* and the skip begins at the type byte, which is not 0.
GetCurrent(k) ==
  IF ByteAt(k) = 0 THEN [type |-> 0, field |-> NULL, data |-> NULL]
  ELSE [type |-> Signed(ByteAt(k)), field |-> k + 1, data |-> SkipFieldName(k)]

\* Mutant of Matches: the type is not compared.
MatchesName(c, name, type) == c.field # NULL /\ CStringAt(c.field) = name

Matches(c, name, type) == c.field # NULL /\ CStringAt(c.field) = name /\ c.type = type

\* bson_find_field_as_*, for a field of the given type, after the length.
StartFind(name, type) ==
  /\ pc = "got" /\ pc' = "find"
  /\ walk' = [ptr |-> 5, name |-> name, type |-> type, result |-> NULL,
              data |-> NULL, field |-> NULL, list |-> <<>>]
  /\ UNCHANGED <<cmd, str, todo, reply, buf>>

\* Mutant of Advanced: the search goes on at the element it is at.
AdvancedNot(k) == k

\* Where the search goes on.
Advanced(k) == BsonNext(k)

\* One turn of bson_find_field: the element is the one, or it is the last, or the
\* search goes on.
FindStep ==
  LET c == GetCurrent(walk.ptr)
      next == Advanced(walk.ptr)
  IN /\ pc = "find"
     /\ \/ /\ Matches(c, walk.name, walk.type)
           /\ walk' = [walk EXCEPT !.result = c.data] /\ pc' = "found"
        \/ /\ ~Matches(c, walk.name, walk.type) /\ c.field # NULL /\ next # NULL
           /\ walk' = [walk EXCEPT !.ptr = next] /\ UNCHANGED pc
        \/ /\ ~Matches(c, walk.name, walk.type) /\ (c.field = NULL \/ next = NULL)
           /\ pc' = "found" /\ UNCHANGED walk
     /\ UNCHANGED <<cmd, str, todo, reply, buf>>

\* The array or document that was found.
Walked == LET k == CHOOSE k \in DOMAIN reply : ValueAt(reply, 1, k) = walk.result IN reply[k].value

\* The hosts, passives and versionArray arrays and the tags document are walked,
\* from after their length, for elements of the given type; the server puts only
\* such elements into them.
StartArray(type) ==
  /\ pc = "found" /\ pc' = "array"
  /\ walk.type \in {Type.ARRAY, Type.DOCUMENT} /\ walk.result # NULL
  /\ \A k \in DOMAIN Walked : Walked[k].type = type
  /\ walk' = [walk EXCEPT !.ptr = walk.result + 4, !.type = type]
  /\ UNCHANGED <<cmd, str, todo, reply, buf>>

\* Mutant of More: the walk ends at the last element.
MoreButLast(next) == next # NULL /\ ByteAt(next) # 0

\* bson_array_find_next_* returned 1.
More(next) == next # NULL

\* What the driver takes: a copy of the C string, or the number.
Taken(w) == IF w.type = Type.STRING THEN CStringAt(w.data) ELSE SubSeq(buf, w.data, w.data + 3)

\* bson_array_find_next_string or _int32 and the body of the caller's loop.  The
\* end, of type 0, leaves what the caller had; the driver asks for the numbers of
\* the version four times.
ArrayStep ==
  LET c == GetCurrent(walk.ptr)
      hit == c.type = walk.type
      next == BsonNext(walk.ptr)
      w == [walk EXCEPT !.data = IF ~hit THEN @
                                 ELSE IF walk.type = Type.STRING THEN c.data + 4 ELSE c.data,
                        !.field = IF hit THEN c.field ELSE @,
                        !.ptr = next]
  IN /\ pc = "array"
     /\ IF More(next)
        THEN /\ walk' = [w EXCEPT !.list = Append(@, <<CStringAt(w.field), Taken(w)>>)]
             /\ pc' = IF walk.type = Type.INT32 /\ Len(walk.list) = 3 THEN "walked" ELSE pc
        ELSE pc' = "walked" /\ walk' = [walk EXCEPT !.data = w.data, !.field = w.field]
     /\ UNCHANGED <<cmd, str, todo, reply, buf>>

\* The reply is freed.
Done ==
  /\ pc \in {"found", "walked"} /\ pc' = "idle"
  /\ reply' = <<>> /\ buf' = Encoded(<<>>)
  /\ walk' = [ptr |-> 5, name |-> <<>>, type |-> 0, result |-> NULL,
              data |-> NULL, field |-> NULL, list |-> <<>>]
  /\ UNCHANGED <<cmd, str, todo>>

Init ==
  /\ pc = "idle" /\ cmd = SimpleCommand(<<>>) /\ str = [d |-> <<>>, a |-> 0] /\ todo = <<>>
  /\ reply = <<>> /\ buf = Encoded(<<>>)
  /\ walk = [ptr |-> 5, name |-> <<>>, type |-> 0, result |-> NULL,
             data |-> NULL, field |-> NULL, list |-> <<>>]

Optional == Words \cup {Absent}

Command ==
  \E w \in Words : \E v, m \in Optional :
    \/ Begin(SimpleCommand(w))
    \/ \E u \in Words : Begin(AuthenticateCommand(w, u, v, v, m))
    \/ Begin(SaslStartCommand(w, m, <<1, 2, 3>>))
    \/ Begin(SaslContinueCommand(w, 300, w))

\* Fields that are there are looked for, of any type; and one that is not.
FieldNames == {reply[k].name : k \in DOMAIN reply} \cup {<<98, 98>>}

Next ==
  \/ Command \/ AddPiece \/ Send
  \/ \E d \in Documents : Reply(d)
  \/ \E n \in FieldNames, t \in Searchable : StartFind(n, t)
  \/ FindStep
  \/ \E t \in {Type.STRING, Type.INT32} : StartArray(t)
  \/ ArrayStep \/ Done

Spec == Init /\ [][Next]_vars /\ WF_vars(FindStep) /\ WF_vars(ArrayStep)
-----------------------------------------------------------------------------
(* Properties *)

\* After every piece there is room for the terminator that mcon_str_addl writes
\* behind the bytes, however the buffer grew.  A packet that is sent is one of the
\* protocol: its first number is its length, and from the end of the header it is
\* one whole document with the fields that were meant, in their order.
PacketWellFormed ==
  /\ str.d # <<>> => Len(str.d) + 1 <= str.a
  /\ pc = "sent" =>
       LET h == HeaderLength(cmd.ns)
       IN /\ SubSeq(str.d, 1, 4) = SerializeInt(Len(str.d))
          /\ SubSeq(str.d, h + 1, Len(str.d)) = Encoded(cmd.fields)

\* bson_find_field returns the value of the first element of that name and type,
\* also behind one of that name and another type, and NULL only without one.  On
\* its way bson_next stands on an element of the document or on its end, after
\* any number of elements of any type: never inside a value or behind the reply.
FindsFirst ==
  /\ pc = "find" => \E k \in 1..Len(reply) + 1 : walk.ptr = ElementAt(reply, 1, k)
  /\ pc = "found" =>
       LET at == {k \in DOMAIN reply : reply[k].name = walk.name /\ reply[k].type = walk.type}
       IN walk.result = IF at = {} THEN NULL ELSE ValueAt(reply, 1, Min(at))

\* Walking an array of strings (the hosts) or a document of strings (the tags)
\* goes from element to element and yields each of them once and in order; of the
\* numbers of a version the first four.
ArrayWhole ==
  /\ pc = "array" =>
       \E k \in 1..Len(Walked) + 1 : walk.ptr = ElementAt(Walked, walk.result, k)
  /\ pc = "walked" =>
       LET n == IF walk.type = Type.INT32 THEN Min({4, Len(Walked)}) ELSE Len(Walked)
       IN walk.list = [k \in 1..n |-> <<Walked[k].name, Walked[k].value>>]

\* Every search and every walk comes to an end.
WalkEnds == pc \in {"find", "array"} ~> pc \in {"found", "walked"}
=============================================================================
