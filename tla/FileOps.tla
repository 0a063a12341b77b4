------------------------------- MODULE FileOps -------------------------------
(***************************************************************************)
(* What is behind a stream over stored bytes: the memory and temp streams  *)
(* of memory.c, the plain files and pipes of plain_wrapper.c and streams   *)
(* written in PHP (userspace.c).  Such a stream also has                   *)
(*   kind   "memory", "file", "append" (a file opened with O_APPEND),      *)
(*          "pipe", "temp", "user" or "forward" (a user stream whose class *)
(*          has no stream_seek)                                            *)
(*   data, off  the bytes and the offset the system or the memory stream   *)
(*          keeps                                                          *)
(*   inner  of a temp stream, the memory stream or file it encloses        *)
(***************************************************************************)
EXTENDS Integers, Sequences

CONSTANTS
  Capacity,    \* bytes a file can hold before the device is full
  SpillAt,     \* smax: the memory a temp stream may use
  ChunkSize,   \* def_chunk_size
  PageSize,    \* a file is mapped from multiples of it only
  None

ASSUME FileOpsAssumption ==
  /\ Capacity \in Nat /\ SpillAt \in Nat
  /\ ChunkSize \in Nat \ {0} /\ PageSize \in Nat \ {0}

\* A stream as _php_stream_alloc and the openers leave it: memory and temp
\* streams are not buffered, pipes do not seek.
NewStream(kind, data) ==
  [kind |-> kind, data |-> data, off |-> 0, buf |-> <<>>, readpos |-> 0, cap |-> 0,
   position |-> 0, eof |-> FALSE, chunk |-> ChunkSize, nobuf |-> kind \in {"memory", "temp"},
   noseek |-> kind = "pipe", eol |-> "unix", plain |-> kind \in {"file", "append"},
   readfilters |-> <<>>, writefilters |-> <<>>, inner |-> None]

\* The bytes d with b written at offset at; a gap reads as zeros.
Overwrite(d, at, b) ==
  [k \in 1..(IF at + Len(b) > Len(d) THEN at + Len(b) ELSE Len(d)) |->
     IF k > at /\ k <= at + Len(b) THEN b[k - at]
     ELSE IF k <= Len(d) THEN d[k] ELSE "0"]

Resized(d, n) == [k \in 1..n |-> IF k <= Len(d) THEN d[k] ELSE "0"]
-----------------------------------------------------------------------------
(* memory.c: memory streams *)

\* php_stream_memory_read: the end is noticed by the read that reaches it.
MemoryRead(s, n) ==
  LET left == Len(s.data) - s.off
      k == IF n >= left THEN left ELSE n
  IN [s |-> [s EXCEPT !.off = @ + k, !.eof = @ \/ n >= left],
      got |-> SubSeq(s.data, s.off + 1, s.off + k)]

\* php_stream_memory_write
MemoryWrite(s, b) ==
  [s |-> [s EXCEPT !.data = Overwrite(@, s.off, b), !.off = @ + Len(b)], n |-> Len(b)]

\* php_stream_memory_seek: a place outside the bytes is refused, and leaves the
\* offset at the end nearer to it and the position of the stream at -1.
MemorySeek(s, offset, whence) ==
  LET size == Len(s.data)
      to == IF whence = "END" THEN size + offset ELSE offset
  IN IF to \in 0..size
     THEN [s |-> [s EXCEPT !.off = to, !.position = to, !.eof = FALSE], ret |-> 0]
     ELSE [s |-> [s EXCEPT !.position = -1,
                    !.off = IF whence = "END" /\ offset <= 0 THEN 0 ELSE size],
           ret |-> -1]

\* php_stream_memory_set_option, PHP_STREAM_TRUNCATE_SET_SIZE
MemoryTruncate(s, n) ==
  [s EXCEPT !.data = Resized(@, n), !.off = IF n < @ THEN n ELSE @]
-----------------------------------------------------------------------------
(* plain_wrapper.c: files and pipes, used through their descriptor *)

\* php_stdiop_read: the end is noticed by a read that returns nothing.
StdioRead(s, n) ==
  LET left == IF s.off < Len(s.data) THEN Len(s.data) - s.off ELSE 0
      k == IF n >= left THEN left ELSE n
  IN [s |-> [s EXCEPT !.off = @ + k, !.eof = k = 0], got |-> SubSeq(s.data, s.off + 1, s.off + k)]

\* php_stdiop_write: write(2) takes what the device still holds; an error is 0.
\* A pipe opened for reading takes nothing.
StdioWrite(s, b) ==
  LET at == IF s.kind = "append" THEN Len(s.data) ELSE s.off
      k == IF at >= Capacity THEN 0 ELSE IF at + Len(b) > Capacity THEN Capacity - at ELSE Len(b)
  IN IF s.kind = "pipe" \/ k = 0 THEN [s |-> s, n |-> 0]
     ELSE [s |-> [s EXCEPT !.data = Overwrite(@, at, SubSeq(b, 1, k)), !.off = at + k], n |-> k]

\* php_stdiop_seek: lseek(2) refuses what is before the start, and only that.
StdioSeek(s, offset, whence) ==
  LET to == IF whence = "END" THEN Len(s.data) + offset ELSE offset
  IN IF to < 0 THEN [s |-> s, ret |-> -1]
     ELSE [s |-> [s EXCEPT !.off = to, !.position = to], ret |-> 0]

\* php_stdiop_set_option: PHP_STREAM_TRUNCATE_SET_SIZE is ftruncate(2).
StdioTruncate(s, n) == [s EXCEPT !.data = Resized(@, n)]

\* How much is mapped.
MapLength(size, offset, length) ==
  LET l == IF length = 0 /\ offset > 0 /\ offset < size THEN size - offset ELSE length
  IN IF offset >= size THEN 0 ELSE IF l = 0 \/ l > size THEN size ELSE l

\* php_stdiop_set_option, PHP_STREAM_MMAP_MAP_RANGE: mmap(2) fails for no length
\* and for an offset that is not on a page.
StdioMmap(s, offset, length) ==
  LET n == MapLength(Len(s.data), offset, length)
      ok == s.kind # "pipe" /\ n > 0 /\ offset % PageSize = 0
  IN [ok |-> ok, got |-> IF ok THEN [k \in 1..n |-> IF offset + k <= Len(s.data)
                                                   THEN s.data[offset + k] ELSE "0"]
                         ELSE <<>>]
-----------------------------------------------------------------------------
(* userspace.c: streams of a PHP class that keeps its bytes and an offset *)

IsUser(s) == s.kind \in {"user", "forward"}

\* The class's stream_eof
UserAtEnd(s) == s.off >= Len(s.data)

\* php_userstreamop_read: stream_read, and then stream_eof, which can only set
\* the flag.
UserGot(s, r) == [s |-> [r.s EXCEPT !.eof = s.eof \/ UserAtEnd(r.s)], got |-> r.got]
UserRead(s, n) == UserGot(s, StdioRead(s, n))

\* php_userstreamop_write: what stream_write says it has written.
UserWrite(s, b) == StdioWrite(s, b)

\* php_userstreamop_seek: stream_seek and stream_tell; without stream_seek the
\* stream is from then on known not to seek.
UserSeek(s, offset, whence) ==
  IF s.kind = "forward" THEN [s |-> [s EXCEPT !.noseek = TRUE], ret |-> -1]
  ELSE StdioSeek(s, offset, whence)

\* php_userstreamop_set_option: stream_truncate
UserTruncate(s, n) == StdioTruncate(s, n)

\* php_userstreamop_set_option answers for the read buffer itself (with an error,
\* when the class has no stream_set_option), so the stream's flag is left alone.
UserReadBuffer(s, none) == s
-----------------------------------------------------------------------------
(* The operations of streams that enclose no other *)

InnerRead(s, n) ==
  CASE s.kind = "memory" -> MemoryRead(s, n)
    [] IsUser(s) -> UserRead(s, n)
    [] OTHER -> StdioRead(s, n)
InnerWrite(s, b) ==
  CASE s.kind = "memory" -> MemoryWrite(s, b)
    [] IsUser(s) -> UserWrite(s, b)
    [] OTHER -> StdioWrite(s, b)
InnerSeek(s, offset, whence) ==
  CASE s.kind = "memory" -> MemorySeek(s, offset, whence)
    [] IsUser(s) -> UserSeek(s, offset, whence)
    [] OTHER -> StdioSeek(s, offset, whence)
InnerMmap(s, offset, length) ==
  IF s.kind = "memory" \/ IsUser(s) THEN [ok |-> FALSE, got |-> <<>>]
  ELSE StdioMmap(s, offset, length)
InnerStat(s) == [size |-> Len(s.data), regular |-> s.kind # "pipe"]
InnerAlive(s) == IsUser(s) => ~UserAtEnd(s)
InnerTruncate(s, n) ==
  CASE s.kind = "memory" -> MemoryTruncate(s, n)
    [] IsUser(s) -> UserTruncate(s, n)
    [] OTHER -> StdioTruncate(s, n)

\* No filter is put on these streams here.
NoFilter(filter, bytes, flag) == [filter |-> filter, out |-> bytes, status |-> "PASS_ON"]

Inner == INSTANCE StreamLayer WITH
  OpRead <- InnerRead, OpWrite <- InnerWrite, OpSeek <- InnerSeek,
  OpMmap <- InnerMmap, OpStat <- InnerStat, OpAlive <- InnerAlive, OpFilter <- NoFilter,
  MaxTurns <- 0
-----------------------------------------------------------------------------
(* memory.c: temp streams *)

\* A temporary file with the bytes of the memory stream.
Spilled(inner) == Inner!Write(NewStream("file", <<>>), inner.data).s

\* php_stream_temp_write: when the bytes get too many, they move to a file, and
\* the new ones are written after them, wherever the memory stream was.
TempWrote(s, w) == [s |-> [s EXCEPT !.inner = w.s], n |-> w.n]
TempWrite(s, b) ==
  TempWrote(s, Inner!Write(
    IF s.inner.kind = "memory" /\ Len(s.inner.data) + Len(b) >= SpillAt
    THEN Spilled(s.inner) ELSE s.inner, b))

\* php_stream_temp_read
TempGot(s, r) == [s |-> [s EXCEPT !.inner = r.s, !.eof = r.s.eof], got |-> r.got]
TempRead(s, n) == TempGot(s, Inner!Read(s.inner, n))

\* php_stream_temp_seek
TempSought(s, r) ==
  [s |-> [s EXCEPT !.inner = r.s, !.position = r.s.position, !.eof = r.s.eof], ret |-> r.ret]
TempSeek(s, offset, whence) == TempSought(s, Inner!Seek(s.inner, offset, whence))

\* php_stream_temp_cast: memory is turned into a file at the same place.
TempCast(s) ==
  [s EXCEPT !.inner = Inner!SyncForCast(
     IF @.kind = "memory" THEN Inner!Seek(Spilled(@), @.position, "SET").s ELSE @)]
-----------------------------------------------------------------------------
(* The operations of any of these streams *)

OpRead(s, n)  == IF s.kind = "temp" THEN TempRead(s, n) ELSE InnerRead(s, n)
OpWrite(s, b) == IF s.kind = "temp" THEN TempWrite(s, b) ELSE InnerWrite(s, b)
OpSeek(s, offset, whence) ==
  IF s.kind = "temp" THEN TempSeek(s, offset, whence) ELSE InnerSeek(s, offset, whence)
OpMmap(s, offset, length) ==
  IF s.kind = "temp" THEN InnerMmap(s.inner, offset, length) ELSE InnerMmap(s, offset, length)
OpStat(s) == IF s.kind = "temp" THEN InnerStat(s.inner) ELSE InnerStat(s)
OpAlive(s) == InnerAlive(s)

INSTANCE StreamLayer WITH OpFilter <- NoFilter, MaxTurns <- 0

\* _php_stream_temp_create_ex and _php_stream_memory_create, plain files by
\* php_stream_fopen; bytes that are already there are those of an earlier life.
Opened(kind, data) ==
  IF kind = "temp"
  THEN [NewStream("temp", <<>>) EXCEPT !.inner = NewStream("memory", data)]
  ELSE NewStream(kind, data)

\* An option of a temp stream is one of the stream it encloses.
WithOption(s, F(_)) == IF s.kind = "temp" THEN [s EXCEPT !.inner = F(@)] ELSE F(s)

\* _php_stream_truncate_set_size
Truncate(s, n) == WithOption(s, LAMBDA x : InnerTruncate(x, n))

\* _php_stream_cast to a descriptor, which memory streams and user streams without
\* a stream_cast refuse; the buffer is synchronised in any case.
CastAsFd(s) == IF s.kind = "temp" THEN TempCast(SyncForCast(s)) ELSE SyncForCast(s)

Content(s) == IF s.kind = "temp" THEN s.inner.data ELSE s.data
=============================================================================
