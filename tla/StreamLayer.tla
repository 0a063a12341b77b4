----------------------------- MODULE StreamLayer -----------------------------
(***************************************************************************)
(* The generic operations on a PHP stream (streams.c), over the operations *)
(* of whatever is behind it and of its filters.  A stream is a record:     *)
(*   buf, readpos  readbuf up to writepos, and how much of it was consumed *)
(*   cap           readbuflen                                              *)
(*   position, eof, chunk (chunk_size)                                     *)
(*   nobuf, noseek the flags NO_BUFFER and NO_SEEK                         *)
(*   eol           "unix", "mac" or "detect": the line-ending flags        *)
(*   plain         wrapper = &php_plain_files_wrapper                      *)
(*   readfilters, writefilters  the chains, from head to tail              *)
(* and what the operations below keep in it.  An operation returns the     *)
(* stream s and what it got.                                               *)
(***************************************************************************)
EXTENDS Integers, Sequences, FiniteSetsExt

CONSTANTS
  OpRead(_, _),     \* ops->read(stream, count): [s, got]
  OpWrite(_, _),    \* ops->write(stream, bytes): [s, n]
  OpSeek(_, _, _),  \* ops->seek(stream, offset, whence): [s, ret]
  OpMmap(_, _, _),  \* MMAP_MAP_RANGE(stream, offset, length): [ok, got]
  OpStat(_),        \* ops->stat(stream): [size, regular]
  OpAlive(_),       \* ops->set_option(CHECK_LIVENESS) is not an error
  OpFilter(_, _, _),\* fops->filter(filter, bytes, flag): [filter, out, status]
  MaxTurns          \* more turns than a filling loop takes

\* n turns of a loop whose body leaves a finished state alone.
Loop(Body(_), st, n) ==
  LET turn[k \in 0..n] == IF k = 0 THEN st ELSE Body(turn[k - 1]) IN turn[n]

Avail(s)  == Len(s.buf) - s.readpos
Unread(s) == SubSeq(s.buf, s.readpos + 1, Len(s.buf))
Forget(s) == [s EXCEPT !.buf = <<>>, !.readpos = 0]
Consume(s, n) == [s EXCEPT !.readpos = @ + n]
Seekable(s) == ~s.noseek
Filtered(s) == s.readfilters # <<>> \/ s.writefilters # <<>>
Least(a, b) == Min({a, b})

\* The first place of c in t, or 0: memchr.
Index(t, c) ==
  LET at == {k \in 1..Len(t) : t[k] = c} IN IF at = {} THEN 0 ELSE Min(at)
-----------------------------------------------------------------------------
(* Filtering: a brigade of buckets is the bytes in it *)

\* What the k-th filter makes of the brigade p: r is what it returned.
Passed(p, k, r) ==
  [chain |-> [p.chain EXCEPT ![k] = r.filter], data |-> r.out, status |-> r.status]

PassOn(p, k, flag) ==
  IF p.status # "PASS_ON" THEN p ELSE Passed(p, k, OpFilter(p.chain[k], p.data, flag))

\* The loop over a chain of filters in php_stream_fill_read_buffer and in
\* _php_stream_write_filtered: what one filter passes on the next one is given,
\* and the first that does not pass on ends it.
Wind(chain, bytes, flag) ==
  LET step[k \in 0..Len(chain)] ==
        IF k = 0 THEN [chain |-> chain, data |-> bytes, status |-> "PASS_ON"]
        ELSE PassOn(step[k - 1], k, flag)
  IN step[Len(chain)]

\* Mutant of FillFlag: the filters are never told that the end was reached.
FillFlagNoClose(s, got) == IF got # <<>> THEN "NORMAL" ELSE "FLUSH_INC"

\* What the filters are told with the bytes just read.
FillFlag(s, got) ==
  IF got # <<>> THEN "NORMAL" ELSE IF s.eof THEN "FLUSH_CLOSE" ELSE "FLUSH_INC"

\* What came out of the filters is put at the end of the buffer, which grows.
Received(s, out) ==
  [s EXCEPT !.buf = @ \o out,
            !.cap = IF @ - Len(s.buf) < Len(out) THEN @ + Len(out) ELSE @]

\* The end of a turn that read r, of which the filters made w.
Filled(st, r, w) ==
  [st EXCEPT !.s = Received([r.s EXCEPT !.readfilters = w.chain],
                            IF w.status = "PASS_ON" THEN w.data ELSE <<>>),
             !.done = r.got = <<>> \/ w.status = "ERR_FATAL"]

FillThrough(st, r) ==
  Filled(st, r, Wind(st.s.readfilters, r.got, FillFlag(r.s, r.got)))

\* One turn of php_stream_fill_read_buffer through the read filters.  No turn is
\* taken once the end is known, and a turn that reads nothing is the last.
FillTurn(st) ==
  IF st.done \/ st.s.eof \/ Avail(st.s) >= st.size THEN [st EXCEPT !.done = TRUE]
  ELSE FillThrough(st, OpRead(st.s, st.s.chunk))

\* What is in the buffer is dropped before it is filled through filters.
FillFiltered(s, size) ==
  Loop(FillTurn, [s |-> Forget(s), size |-> size, done |-> FALSE], MaxTurns).s
-----------------------------------------------------------------------------
(* Reading *)

ShortOfRoom(s) == s.cap - Len(s.buf) < s.chunk
Compacted(s) ==
  IF s.cap > 0 /\ ShortOfRoom(s) THEN [s EXCEPT !.buf = Unread(s), !.readpos = 0] ELSE s
Grown(s) == IF ShortOfRoom(s) THEN [s EXCEPT !.cap = @ + s.chunk] ELSE s
Buffered(r) == [r.s EXCEPT !.buf = @ \o r.got]
FillRoom(s) == Buffered(OpRead(s, s.cap - Len(s.buf)))

\* php_stream_fill_read_buffer: the unread part moves to the front when room is
\* short, the buffer grows by a chunk when it is still short, and one read is
\* made for all the room there is.
FillReadBuffer(s, size) ==
  IF s.readfilters # <<>> THEN FillFiltered(s, size)
  ELSE IF Avail(s) >= size THEN s ELSE FillRoom(Grown(Compacted(s)))

\* Mutant of Drain: the consumed bytes are handed out again.
DrainFromStart(s, n) ==
  LET k == Least(Avail(s), n) IN [s |-> Consume(s, k), got |-> SubSeq(s.buf, 1, k)]

\* Up to n bytes of the buffer.
Drain(s, n) ==
  LET k == Least(Avail(s), n) IN [s |-> Consume(s, k), got |-> SubSeq(Unread(s), 1, k)]

\* r was read on top of what the loop has.
Counted(st, r) ==
  [st EXCEPT !.s = r.s, !.got = @ \o r.got, !.size = @ - Len(r.got), !.done = r.got = <<>>]

\* The read behind the buffer, when the buffer did not do.
ReadMore(s, n) ==
  IF s.readfilters = <<>> /\ (s.nobuf \/ s.chunk = 1) THEN OpRead(s, n)
  ELSE Drain(FillReadBuffer(s, n), n)
OnlyPlainAgain(st) == [st EXCEPT !.done = @ \/ ~st.s.plain]
ReadBehind(st) ==
  IF st.size = 0 THEN [st EXCEPT !.done = TRUE]
  ELSE OnlyPlainAgain(Counted(st, ReadMore(st.s, st.size)))

Advanced(st) == [s |-> [st.s EXCEPT !.position = @ + Len(st.got)], got |-> st.got]

\* One turn of the loop of _php_stream_read: the buffer first, then one read or
\* one fill.  Only plain files go round again.
ReadTurn(st) ==
  IF st.done \/ st.size = 0 THEN st ELSE ReadBehind(Counted(st, Drain(st.s, st.size)))

\* _php_stream_read (and _php_stream_getc)
Read(s, n) ==
  Advanced(Loop(ReadTurn, [s |-> s, got |-> <<>>, size |-> n, done |-> FALSE], n + 1))

\* Mutant of Eof: the flag alone decides.
EofByFlag(s) == s.eof

\* What _php_stream_eof returns, ...
Eof(s) == Avail(s) = 0 /\ (s.eof \/ ~OpAlive(s))

\* ... and the flag it leaves.
EofAsked(s) == [s EXCEPT !.eof = @ \/ Eof(s)]

\* php_stream_locate_eol: where the line in the buffer ends, and the line ending
\* that was found out on the way.
LocateEol(s) ==
  LET u == Unread(s)
      cr == Index(u, "\r")
      lf == Index(u, "\n")
  IN IF s.eol = "mac" THEN [at |-> cr, eol |-> "mac"]
     ELSE IF s.eol = "detect" /\ cr # 0 /\ lf # cr + 1 /\ ~(lf # 0 /\ lf < cr)
          THEN [at |-> cr, eol |-> "mac"]
     ELSE [at |-> lf, eol |-> IF lf # 0 THEN "unix" ELSE s.eol]

\* Mutant of LineLength: the line end stays in the buffer.
LineLengthShort(s, at) == IF at # 0 THEN at - 1 ELSE Avail(s)

\* How much of the buffer belongs to the line.
LineLength(s, at) == IF at # 0 THEN at ELSE Avail(s)

\* The part of the line that is in the buffer, which ends as e says, is taken as
\* far as there is room for it.
LineRoom(st) == st.max - Len(st.got) - 1
LineCut(st, at) == st.max > 0 /\ LineLength(st.s, at) >= LineRoom(st)
TakeBytes(st, n) ==
  [st EXCEPT !.s = [Consume(@, n) EXCEPT !.position = @ + n],
             !.got = @ \o SubSeq(Unread(st.s), 1, n)]
LineTaken(st, e) ==
  [TakeBytes(st, IF LineCut(st, e.at) THEN LineRoom(st) ELSE LineLength(st.s, e.at))
     EXCEPT !.s.eol = e.eol, !.done = e.at # 0 \/ LineCut(st, e.at)]
LineFilled(st, s) == [st EXCEPT !.s = s, !.done = Avail(s) = 0]

\* One turn of _php_stream_get_line; max is 0 when the line may be of any length.
LineTurn(st) ==
  IF st.done THEN st
  ELSE IF Avail(st.s) > 0 THEN LineTaken(st, LocateEol(st.s))
  ELSE IF st.s.eof THEN [st EXCEPT !.done = TRUE]
  ELSE LineFilled(st, FillReadBuffer(st.s, IF st.max > 0 THEN Least(LineRoom(st), st.s.chunk)
                                           ELSE st.s.chunk))

\* _php_stream_get_line; bound is at least twice the number of bytes there are.
GetLine(s, max, bound) ==
  Loop(LineTurn, [s |-> s, got |-> <<>>, max |-> max, done |-> FALSE], bound)

\* _php_stream_search_delim: the place before the delimiter, or -1.
SearchDelim(s, max, skip, delim) ==
  LET u == SubSeq(Unread(s), 1, Least(Avail(s), max))
      at == {k \in skip..Len(u) - Len(delim) : SubSeq(u, k + 1, k + Len(delim)) = delim}
  IN IF at = {} THEN -1 ELSE Min(at)

\* Mutant of Searched: bytes of an earlier turn are all skipped.
SearchedAll(len, delim) == len

\* The bytes no delimiter can begin in any more.
Searched(len, delim) == IF len >= Len(delim) - 1 THEN len - (Len(delim) - 1) ELSE 0

RecordFilled(st, s) ==
  IF Avail(s) = st.len THEN [st EXCEPT !.s = s, !.done = TRUE]
  ELSE [st EXCEPT !.s = s, !.len = Avail(s),
          !.found = IF st.delim = <<>> THEN -1 ELSE
                    SearchDelim(s, st.max, Searched(st.len, st.delim), st.delim)]

\* One turn of php_stream_get_record: fill, and search what is new and the part
\* of it a delimiter may begin in.
RecordTurn(st) ==
  IF st.found >= 0 \/ st.len >= st.max \/ st.done THEN st
  ELSE RecordFilled(st, FillReadBuffer(st.s, st.len + Least(st.max - st.len, st.s.chunk)))

\* Nothing is returned: no delimiter, and neither max bytes nor the end.
NoRecord(st, n) ==
  /\ st.found < 0 /\ ~(st.delim = <<>> /\ n >= st.max)
  /\ (n < st.max /\ ~st.s.eof) \/ (n = 0 /\ st.s.eof)

\* r has been read, and d bytes of delimiter are passed over.
RecordRead(r, d) ==
  [s |-> [Consume(r.s, d) EXCEPT !.position = @ + d], got |-> r.got, ok |-> TRUE]

RecordTaken(st) ==
  IF NoRecord(st, Avail(st.s)) THEN [s |-> st.s, got |-> <<>>, ok |-> FALSE]
  ELSE RecordRead(Read(st.s, IF st.found >= 0 THEN st.found ELSE Least(Avail(st.s), st.max)),
                  IF st.found >= 0 THEN Len(st.delim) ELSE 0)

\* php_stream_get_record: up to the delimiter, which is consumed too; or max
\* bytes; or the rest, when the end is known.  ok is FALSE for NULL.
GetRecord(s, max, delim) ==
  RecordTaken(Loop(RecordTurn,
    [s |-> s, max |-> max, delim |-> delim, len |-> Avail(s), done |-> FALSE,
     found |-> IF delim = <<>> THEN -1 ELSE SearchDelim(s, max, 0, delim)], max + 1))
-----------------------------------------------------------------------------
(* Writing, seeking and copying *)

\* w was written of what is left.
Written(st, w) ==
  IF w.n <= 0 THEN [st EXCEPT !.s = w.s, !.done = TRUE]
  ELSE [s |-> IF Seekable(w.s) THEN [w.s EXCEPT !.position = @ + w.n] ELSE w.s,
        left |-> SubSeq(st.left, w.n + 1, Len(st.left)), n |-> st.n + w.n, done |-> FALSE]

\* One turn of the loop of _php_stream_write_buffer: a chunk at most.
WriteTurn(st) ==
  IF st.done \/ st.left = <<>> THEN st
  ELSE Written(st, OpWrite(st.s, SubSeq(st.left, 1, Least(Len(st.left), st.s.chunk))))

\* Mutant of Rewind: the buffer is dropped but the file is not sought.
RewindBufferOnly(s) == Forget(s)

\* The first part of _php_stream_write_buffer: unread bytes are dropped and the
\* file is taken back to where the stream is.
Rewind(s) ==
  IF Seekable(s) /\ Avail(s) # 0 THEN OpSeek(Forget(s), s.position, "SET").s ELSE s

\* _php_stream_write_buffer
WriteBuffer(s, bytes) ==
  Loop(WriteTurn, [s |-> Rewind(s), left |-> bytes, n |-> 0, done |-> FALSE], Len(bytes) + 1)

\* _php_stream_write_filtered: whether what came out of the filters could be
\* written is not looked at; the first filter says what was consumed.
WriteWound(s, w) ==
  IF w.status # "PASS_ON" THEN [s EXCEPT !.writefilters = w.chain]
  ELSE WriteBuffer([s EXCEPT !.writefilters = w.chain], w.data).s
WriteFiltered(s, bytes, flag) ==
  [s |-> WriteWound(s, Wind(s.writefilters, bytes, flag)),
   n |-> IF OpFilter(s.writefilters[1], bytes, flag).status = "ERR_FATAL" THEN 0 ELSE Len(bytes)]

\* _php_stream_flush; the operations behind have nothing of their own to flush.
Flush(s, closing) ==
  IF s.writefilters = <<>> THEN s
  ELSE WriteFiltered(s, <<>>, IF closing THEN "FLUSH_CLOSE" ELSE "FLUSH_INC").s

\* _php_stream_write (and putc, puts, printf): [s, n]
Write(s, bytes) ==
  IF bytes = <<>> THEN [s |-> s, n |-> 0]
  ELSE IF s.writefilters # <<>> THEN WriteFiltered(s, bytes, "NORMAL")
  ELSE WriteBuffer(s, bytes)

\* Seeking forward by reading.
SeekRead(st, r) == [s |-> r.s, left |-> st.left - Len(r.got), failed |-> r.got = <<>>]
SeekTurn(st) ==
  IF st.left = 0 \/ st.failed THEN st ELSE SeekRead(st, Read(st.s, st.left))
SoughtForward(st) ==
  IF st.failed THEN [s |-> st.s, ret |-> -1] ELSE [s |-> [st.s EXCEPT !.eof = FALSE], ret |-> 0]
SeekForward(s, n) ==
  SoughtForward(Loop(SeekTurn, [s |-> s, left |-> n, failed |-> FALSE], n + 1))

SeekInBuffer(s, by) == [Consume(s, by) EXCEPT !.position = @ + by, !.eof = FALSE]

\* Seeking by the operation behind, which returned o.
SoughtBehind(o) ==
  [s |-> IF o.ret = 0 THEN [Forget(o.s) EXCEPT !.eof = FALSE]
         ELSE IF Seekable(o.s) THEN Forget(o.s) ELSE o.s,
   ret |-> o.ret]
SeekBehind(s, offset, whence) ==
  SoughtBehind(OpSeek(s, IF whence = "CUR" THEN s.position + offset ELSE offset,
                      IF whence = "CUR" THEN "SET" ELSE whence))

\* _php_stream_seek: within the buffer; or by the operation behind, after which
\* the buffer is dropped, failed or not; or forward by reading.
Seek(s, offset, whence) ==
  LET by == IF whence = "SET" THEN offset - s.position ELSE offset
  IN IF ~s.nobuf /\ whence \in {"SET", "CUR"} /\ by > 0 /\ by <= Avail(s)
     THEN [s |-> SeekInBuffer(s, by), ret |-> 0]
     ELSE IF Seekable(s) THEN SeekBehind(Flush(s, FALSE), offset, whence)
     ELSE IF whence = "CUR" /\ offset >= 0 THEN SeekForward(s, offset)
     ELSE [s |-> s, ret |-> -1]

\* The first part of _php_stream_cast: the file is taken to where the stream is.
SyncForCast(s) ==
  IF Seekable(s) THEN [Forget(OpSeek(s, s.position, "SET").s) EXCEPT !.position = s.position]
  ELSE s

\* The options _php_stream_set_option handles itself.
SetChunkSize(s, n) == [s EXCEPT !.chunk = n]
SetReadBuffer(s, none) == [s EXCEPT !.nobuf = none]

\* One turn of a loop that reads step bytes at a time until nothing comes.
Taken(st, r) == [st EXCEPT !.s = r.s, !.got = @ \o r.got, !.done = r.got = <<>>]
DrainTurn(st) == IF st.done THEN st ELSE Taken(st, Read(st.s, st.step))
DrainAll(s, step, bound) ==
  Loop(DrainTurn, [s |-> s, got |-> <<>>, step |-> step, done |-> FALSE], bound)

\* _php_stream_mmap_unmap_ex: the n mapped bytes count as read.
MmapUnmap(s, n) == Seek(s, n, "CUR").s

\* The range that is mapped; it fails for a stream with filters.
MmapRange(s, length) ==
  IF Filtered(s) THEN [ok |-> FALSE, got |-> <<>>] ELSE OpMmap(s, s.position, length)

\* _php_stream_passthru: the mapped file m, or all that can be read; step bytes
\* at a time.
PassthruMapped(s, m, step, bound) ==
  IF m.ok THEN [s |-> MmapUnmap(s, Len(m.got)), got |-> m.got] ELSE DrainAll(s, step, bound)
Passthru(s, step, bound) == PassthruMapped(s, MmapRange(s, 0), step, bound)

\* The bounded loop of _php_stream_copy_to_mem.
CopyTurn(st) ==
  IF st.done \/ Len(st.got) >= st.max THEN [st EXCEPT !.done = TRUE]
  ELSE IF Eof(st.s) THEN [st EXCEPT !.s = EofAsked(@), !.done = TRUE]
  ELSE Taken(st, Read(st.s, st.max - Len(st.got)))

\* _php_stream_copy_to_mem; max is 0 for PHP_STREAM_COPY_ALL.
CopyToMem(s, max, step, bound) ==
  IF max = 0 THEN DrainAll(s, step, bound)
  ELSE Loop(CopyTurn, [s |-> s, got |-> <<>>, max |-> max, done |-> FALSE], max + 1)

\* One turn of _php_stream_copy_to_stream_ex, with a destination that takes room
\* bytes: a chunk is read and written.  What a full destination does not take is
\* lost, and the length is then what was read less what was written of the chunk.
Moved(st, r) ==
  LET k == Least(st.room - Len(st.got), Len(r.got))
      read == st.read + Len(r.got)
      full == k < Len(r.got)
  IN [st EXCEPT !.s = r.s, !.got = @ \o SubSeq(r.got, 1, k), !.read = read,
        !.len = IF full THEN read - k ELSE read, !.failed = full,
        !.done = full \/ r.got = <<>> \/ (st.max > 0 /\ read = st.max)]
MoveTurn(st) ==
  IF st.done THEN st
  ELSE Moved(st, Read(st.s, IF st.max > 0 THEN Least(st.step, st.max - st.read) ELSE st.step))

\* _php_stream_copy_to_stream_ex: what got to the destination, the length it
\* reports, and SUCCESS.  An empty regular file is reported copied without being
\* read; a mapped one is written in one go.
CopyMapped(s, m, put) ==
  [s |-> MmapUnmap(s, Len(m.got)), got |-> put, len |-> Len(put), ok |-> put = m.got]
CopyEnded(st) ==
  [s |-> st.s, got |-> st.got, len |-> st.len, ok |-> ~st.failed /\ (st.read > 0 \/ st.s.eof)]
CopyRead(s, max, step, bound, room) ==
  CopyEnded(Loop(MoveTurn, [s |-> s, got |-> <<>>, max |-> max, step |-> step, room |-> room,
                            read |-> 0, len |-> 0, failed |-> FALSE, done |-> FALSE], bound))
CopyToStream(s, max, step, bound, room) ==
  LET st == OpStat(s)
      m == MmapRange(s, max)
  IN IF st.size = 0 /\ st.regular THEN [s |-> s, got |-> <<>>, len |-> 0, ok |-> TRUE]
     ELSE IF m.ok THEN CopyMapped(s, m, SubSeq(m.got, 1, Least(room, Len(m.got))))
     ELSE CopyRead(s, max, step, bound, room)
=============================================================================
