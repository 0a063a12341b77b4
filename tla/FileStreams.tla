----------------------------- MODULE FileStreams -----------------------------
(***************************************************************************)
(* One open stream over a file, a pipe, memory, memory that turns into a   *)
(* file, or a PHP class, and everything its user may call, in any order.   *)
(***************************************************************************)
EXTENDS FileOps

CONSTANTS
  Kinds, Contents,   \* what is opened, and what is in it
  LineEnds,          \* "unix", or "detect" (auto_detect_line_endings)
  Texts,             \* what is written
  Counts,            \* how much is read or copied; the longest line or record
  Delims,            \* record delimiters; <<>> for none
  Offsets,           \* of seeks
  Sizes,             \* of truncations
  Chunks,            \* chunk sizes that may be set
  Rooms              \* what the destination of a copy takes

VARIABLES
  f,      \* the stream
  op,     \* the last call: its name, arguments and what it returned
  sound   \* nothing has happened that takes the stream and its bytes apart

vars == <<f, op, sound>>

\* More turns than any loop takes: every turn moves a byte or ends.
Bound == 2 * Capacity + 4

Call(name, arg, got) ==
  [name |-> name, arg |-> arg, bytes |-> <<>>, whence |-> "SET", got |-> got,
   len |-> Len(got), ok |-> TRUE]

\* Calls after which the stream no longer knows where it is in its bytes:
\* buffered bytes of a user stream are dropped, which cannot go back for them or,
\* having shown its end, does not take that back ...
DropTears == IsUser(f) /\ Avail(f) > 0 /\ (f.kind = "forward" \/ f.eof) /\ ~f.noseek

\* ... a write that moves a temp stream to a file from a place that is not its
\* end, that the system appends, or that a stream which does not seek does not
\* count ...
WriteTears(b) ==
  \/ /\ f.position # Len(Content(f))
     /\ \/ f.kind = "append"
        \/ f.kind = "temp" /\ f.inner.kind = "memory" /\ Len(f.inner.data) + Len(b) >= SpillAt
  \/ DropTears \/ (f.kind = "forward" /\ f.noseek)

\* ... a seek that fails: memory forgets the place, a file the unread bytes ...
SeekTears(ret) ==
  ret # 0 /\ f.kind # "forward" /\ (f.kind \in {"memory", "temp"} \/ Avail(f) > 0)

\* ... buffering turned on for the memory of a temp stream, which then seems to
\* end with its last fill (php_stream_temp_read takes over the flag as it is) ...
BufferTears(none) == f.kind = "temp" /\ f.inner.kind = "memory" /\ ~none

\* ... and a truncation of what is buffered or behind, or one that adds bytes
\* after the end has been seen.
TruncateTears(n) ==
  \/ n < (IF f.kind = "temp" THEN f.inner.off ELSE f.off)
       /\ (f.kind \in {"memory", "temp"} \/ Avail(f) > 0)
  \/ n > Len(Content(f)) /\ f.eof

DoRead(n) ==
  LET r == Read(f, n)
  IN f' = r.s /\ op' = Call("read", n, r.got) /\ UNCHANGED sound

DoLine(max) ==
  LET r == GetLine(f, max, Bound)
  IN f' = r.s /\ op' = Call("line", max, r.got) /\ UNCHANGED sound

DoRecord(max, delim) ==
  LET r == GetRecord(f, max, delim)
  IN /\ f' = r.s /\ UNCHANGED sound
     /\ op' = [Call("record", max, r.got) EXCEPT !.ok = r.ok, !.bytes = delim]

\* Memory is bounded by Capacity too.
DoWrite(b) ==
  LET w == Write(f, b)
  IN /\ f.kind \in {"memory", "temp"} => f.position + Len(b) <= Capacity
     /\ f' = w.s /\ op' = [Call("write", 0, <<>>) EXCEPT !.len = w.n, !.bytes = b]
     /\ sound' = ~WriteTears(b)

DoSeek(offset, whence) ==
  LET r == Seek(f, offset, whence)
  IN /\ r.s.position <= Capacity
     /\ f' = r.s /\ op' = [Call("seek", offset, <<>>) EXCEPT !.whence = whence, !.ok = r.ret = 0]
     /\ sound' = ~SeekTears(r.ret)

DoTruncate(n) ==
  /\ f.kind # "pipe"
  /\ f' = Truncate(f, n) /\ op' = Call("truncate", n, <<>>) /\ sound' = ~TruncateTears(n)

DoCast == f' = CastAsFd(f) /\ op' = Call("cast", 0, <<>>) /\ sound' = ~DropTears

DoChunkSize(n) ==
  /\ f' = WithOption(f, LAMBDA x : SetChunkSize(x, n))
  /\ op' = Call("option", n, <<>>) /\ UNCHANGED sound

DoReadBuffer(none) ==
  /\ f' = WithOption(f, LAMBDA x : IF IsUser(x) THEN UserReadBuffer(x, none)
                                  ELSE SetReadBuffer(x, none))
  /\ op' = Call("option", 0, <<>>) /\ sound' = ~BufferTears(none)

DoPassthru ==
  LET r == Passthru(f, 2, Bound)
  IN f' = r.s /\ op' = Call("copy", 0, r.got) /\ UNCHANGED sound

DoCopyToMem(max) ==
  LET r == CopyToMem(f, max, 2, Bound)
  IN f' = r.s /\ op' = Call("copy", max, r.got) /\ UNCHANGED sound

DoCopyToStream(max, room) ==
  LET r == CopyToStream(f, max, 2, Bound, room)
  IN /\ f' = r.s /\ UNCHANGED sound
     /\ op' = [Call("copy", max, r.got) EXCEPT !.len = r.len, !.ok = r.ok]

Init ==
  /\ \E k \in Kinds, d \in Contents, e \in LineEnds :
       f = [Opened(k, d) EXCEPT !.eol = e]
  /\ op = Call("open", 0, <<>>)
  /\ sound = TRUE

Next ==
  /\ sound
  /\ \/ \E n \in Counts : DoRead(n) \/ DoLine(n) \/ \E d \in Delims : DoRecord(n, d)
     \/ \E b \in Texts : DoWrite(b)
     \/ \E o \in Offsets, w \in {"SET", "CUR", "END"} : DoSeek(o, w)
     \/ \E n \in Sizes : DoTruncate(n)
     \/ \E n \in Chunks : DoChunkSize(n)
     \/ \E none \in BOOLEAN : DoReadBuffer(none)
     \/ \E n \in Counts \cup {0} : DoCopyToMem(n) \/ \E r \in Rooms : DoCopyToStream(n, r)
     \/ DoLine(0) \/ DoPassthru \/ DoCast

Spec == Init /\ [][Next]_vars
-----------------------------------------------------------------------------
(* Properties *)

\* The unread bytes of s are those of its file at its position, and the file is
\* at the place after them.
Agrees(s, off, data) ==
  /\ off = s.position + Avail(s)
  /\ Unread(s) = SubSeq(data, s.position + 1, s.position + Avail(s))

\* streams.c: as long as the stream is sound, its buffer shows what is in the
\* file, so that reads, writes, seeks and casts all agree on the place they are
\* at; through both layers of a temp stream.  The buffer never outgrows what was
\* allocated for it.
InSync ==
  /\ Len(f.buf) <= f.cap
  /\ sound =>
       IF f.kind = "temp"
       THEN /\ Agrees(f.inner, f.inner.off, f.inner.data)
            /\ Agrees(f, f.inner.position, f.inner.data)
       ELSE Agrees(f, f.off, f.data)

\* _php_stream_eof never says "end" while there are bytes to come: the flag of
\* the operations behind counts only once the buffer is empty, and every way of
\* going back clears it.  A copy of all of a stream, whichever way it goes
\* (mapped, read, through a buffer that is half consumed), ends there too.
EofHonest ==
  (sound /\ Eof(f)) \/ (op.name = "copy" /\ op.arg = 0 /\ op.ok) => f.position >= Len(Content(f))

\* What is left of the stream.
Remaining == SubSeq(Content(f), f.position + 1, Len(Content(f)))

\* How the first line of what is left really ends, when that is to be found out:
\* with a "\r" that no "\n" comes right after, or else with a "\n".
Ending ==
  LET u == Remaining
      cr == Index(u, "\r")
      lf == Index(u, "\n")
  IN CASE f.eol # "detect" -> f.eol
       [] cr # 0 /\ (lf = 0 \/ lf > cr + 1) -> "mac"
       [] OTHER -> IF lf # 0 THEN "unix" ELSE "detect"

\* The first line of what is left, up to and with its end, which may be cut.
Line(ending, max) ==
  LET at == Index(Remaining, IF ending = "mac" THEN "\r" ELSE "\n")
      n == IF at # 0 THEN at ELSE Len(Remaining)
  IN SubSeq(Remaining, 1, IF max > 0 THEN Least(n, max - 1) ELSE n)

\* The call has taken the "\r" of a "\r\n", the last byte that was in the buffer,
\* for a line end of its own: streams.c:861 looks for the "\n" in the buffer only.
SplitMistaken ==
  LET q == f'.position + Avail(f')
  IN /\ f.eol = "detect" /\ f'.eol = "mac"
     /\ q \in 1..Len(Content(f)) - 1 /\ SubSeq(Content(f), q, q + 1) = <<"\r", "\n">>

\* _php_stream_get_line returns exactly the first line of what is left, ended the
\* way the stream was set to or the bytes show, however it lies across fills and
\* whatever was buffered; and the way found out is the right one.  Except that a
\* "\r\n" that two fills split turns the stream to "\r".
LineIsOneLine ==
  [][op'.name = "line" =>
       IF SplitMistaken THEN op'.got = Line("mac", op'.arg)
       ELSE op'.got = Line(Ending, op'.arg) /\ f'.eol \in {f.eol, Ending}]_vars

\* php_stream_get_record: a record holds no delimiter, also not one that lay
\* across two fills, and is short only before a delimiter or at the end.
RecordHasNoDelim ==
  LET d == op.bytes
      n == Len(op.got)
  IN op.name = "record" /\ op.ok =>
       /\ d # <<>> => \A k \in 0..n - Len(d) : SubSeq(op.got, k + 1, k + Len(d)) # d
       /\ \/ n = op.arg \/ f.position >= Len(Content(f))
          \/ /\ d # <<>> /\ f.position >= n + Len(d)
             /\ SubSeq(Content(f), f.position - Len(d) + 1, f.position) = d

File == INSTANCE StreamFile WITH data <- Content(f), pos <- f.position,
                             room <- IF f.kind = "pipe" THEN 0 ELSE Capacity

\* Every call does to the bytes and the place in them what StreamFile says of that
\* call, with its arguments and its result, whatever is buffered, mapped or spilled:
\* no byte is skipped, repeated, half copied or written elsewhere.
Implements == File!Spec
=============================================================================
