------------------------------- MODULE Filters -------------------------------
(***************************************************************************)
(* A stream over a connection with chains of filters on it (filter.c), and *)
(* the filtered paths of streams.c.  The stream is open for reading or for *)
(* writing.  Bytes are numbered in the order in which they arrive or are   *)
(* written, so that a lost, repeated or misplaced one shows.               *)
(***************************************************************************)
EXTENDS Integers, Sequences

CONSTANTS
  Modes,        \* "read", "write"
  FilterKinds,  \* which filters are put on the chains
  MaxFilters,   \* filters a chain has at most
  Arrivals,     \* bytes that arrive
  Writes,       \* bytes that are written
  Room,         \* bytes the connection takes
  ChunkSize,
  Counts, Delims

ASSUME FiltersAssumption ==
  /\ Modes \subseteq {"read", "write"}
  /\ FilterKinds \subseteq {"through", "pairs", "hoard", "refuse"}
  /\ {MaxFilters, Arrivals, Writes, Room} \subseteq Nat /\ ChunkSize \in Nat \ {0}
  /\ Counts \subseteq Nat /\ Delims \subseteq Seq(Nat)

VARIABLES
  s,          \* the stream
  mode,
  came,       \* how many bytes have arrived
  wrote,      \* how many bytes have been accepted from the writer
  delivered,  \* what the reader got
  sound,      \* nothing has happened that takes bytes out of their order
  open

vars == <<s, mode, came, wrote, delivered, sound, open>>

NoBytes == <<>>
Numbered(a, b) == [k \in 1..(b - a + 1) |-> a + k - 1]
-----------------------------------------------------------------------------
(* The connection behind the stream, and the filters *)

\* A read takes what is there.  The end is noticed by a read that finds nothing
\* or, of a stream that notices it early, by the one that takes the last byte.
OpRead(x, n) ==
  LET k == IF n < Len(x.arrived) THEN n ELSE Len(x.arrived)
  IN [s |-> [x EXCEPT !.arrived = SubSeq(@, k + 1, Len(@)),
               !.eof = x.ended /\ (k = 0 \/ (x.early /\ k = Len(x.arrived)))],
      got |-> SubSeq(x.arrived, 1, k)]

OpWrite(x, b) ==
  LET k == IF Len(x.out) + Len(b) > Room THEN Room - Len(x.out) ELSE Len(b)
  IN [s |-> [x EXCEPT !.out = @ \o SubSeq(b, 1, k)], n |-> k]

OpSeek(x, offset, whence)    == [s |-> x, ret |-> -1]
OpMmap(x, offset, length)    == [ok |-> FALSE, got |-> NoBytes]
OpStat(x)                    == [size |-> 1, regular |-> FALSE]
OpAlive(x)                   == TRUE

\* fops->filter: "through" passes everything on, "pairs" only whole pairs until
\* it is flushed, "hoard" nothing until the stream ends, and "refuse" fails.  A
\* filter keeps the buckets it does not pass on.
OpFilter(filter, bytes, flag) ==
  LET all == filter.held \o bytes
      n == CASE filter.kind = "through" -> Len(all)
             [] filter.kind = "pairs" -> IF flag = "NORMAL" THEN 2 * (Len(all) \div 2)
                                         ELSE Len(all)
             [] filter.kind = "hoard" -> IF flag = "FLUSH_CLOSE" THEN Len(all) ELSE 0
             [] OTHER -> 0
  IN IF filter.kind = "refuse" /\ bytes # NoBytes
     THEN [filter |-> filter, out |-> NoBytes, status |-> "ERR_FATAL"]
     ELSE [filter |-> [filter EXCEPT !.held = SubSeq(all, n + 1, Len(all))],
           out |-> SubSeq(all, 1, n),
           status |-> IF n > 0 \/ filter.kind = "through" THEN "PASS_ON" ELSE "FEED_ME"]

INSTANCE StreamLayer WITH MaxTurns <- Arrivals + 2
-----------------------------------------------------------------------------
(* filter.c: the chains; "which" is the field of the chain *)

\* _php_stream_filter_alloc
NewFilter(kind) == [kind |-> kind, held |-> NoBytes]

\* php_stream_filter_prepend_ex: what is in the buffer is not looked at.
PrependFilter(x, which, filter) == [x EXCEPT ![which] = <<filter>> \o @]

\* Mutant of AppendFilter: the buffer is kept although the filter holds it too.
AppendFilterKeepsBuffer(x, which, filter) ==
  LET r == OpFilter(filter, Unread(x), "NORMAL")
  IN IF which = "writefilters" \/ Avail(x) = 0 THEN [x EXCEPT ![which] = Append(@, filter)]
     ELSE IF r.status = "ERR_FATAL" THEN x
     ELSE IF r.status = "FEED_ME" THEN [x EXCEPT ![which] = Append(@, r.filter)]
     ELSE [Forget(x) EXCEPT ![which] = Append(@, r.filter), !.buf = r.out]

\* _php_stream_filter_append: what is in the read buffer is taken through the new
\* filter, whose output replaces it; a filter that fails is detached again.
AppendFilter(x, which, filter) ==
  LET r == OpFilter(filter, Unread(x), "NORMAL")
  IN IF which = "writefilters" \/ Avail(x) = 0 THEN [x EXCEPT ![which] = Append(@, filter)]
     ELSE IF r.status = "ERR_FATAL" THEN x
     ELSE [Forget(x) EXCEPT ![which] = Append(@, r.filter),
             !.buf = IF r.status = "PASS_ON" THEN r.out ELSE NoBytes,
             !.cap = IF @ < Len(r.out) THEN @ + Len(r.out) ELSE @]

\* The loop of _php_stream_filter_flush: one turn for every filter from the i-th
\* on, but it is the i-th that is called in each of them.
FlushTurns(chain, i, finish) ==
  LET turn[k \in 0..(Len(chain) - i + 1)] ==
        IF k = 0 THEN [filter |-> chain[i], out |-> NoBytes, status |-> "PASS_ON"]
        ELSE LET p == turn[k - 1]
             IN IF p.status # "PASS_ON" THEN p
                ELSE OpFilter(p.filter, p.out,
                       IF k > 1 THEN "NORMAL" ELSE IF finish THEN "FLUSH_CLOSE" ELSE "FLUSH_INC")
  IN turn[Len(chain) - i + 1]

\* "Back the buffer up": the unread bytes move to the front, but writepos stays.
BackUp(x) ==
  IF x.readpos = 0 THEN x
  ELSE [x EXCEPT !.buf = Unread(x) \o SubSeq(@, Avail(x) + 1, Len(@)), !.readpos = 0]

\* _php_stream_filter_flush: what comes out goes to the read buffer, or is
\* written without a look at what the write returns.
FilterFlush(x, which, i, finish) ==
  LET r == FlushTurns(x[which], i, finish)
      y == [x EXCEPT ![which][i] = r.filter]
  IN IF r.status # "PASS_ON" \/ r.out = NoBytes THEN y
     ELSE IF which = "readfilters" THEN [BackUp(y) EXCEPT !.buf = @ \o r.out]
     ELSE OpWrite(y, r.out).s

\* php_stream_filter_remove, with the destructor
RemoveFilter(x, which, i) ==
  [x EXCEPT ![which] = SubSeq(@, 1, i - 1) \o SubSeq(@, i + 1, Len(@))]
-----------------------------------------------------------------------------
Chain == IF mode = "read" THEN "readfilters" ELSE "writefilters"

\* The bytes a chain holds, the oldest first.
Held(chain) ==
  LET h[k \in 0..Len(chain)] == IF k = 0 THEN NoBytes ELSE chain[k].held \o h[k - 1]
  IN h[Len(chain)]

Refuses == \E k \in DOMAIN s[Chain] : s[Chain][k].kind = "refuse"

\* Calls after which bytes are missing, repeated or stuck: a filter fails with
\* bytes in hand ...
RefusedBy(t) ==
  Refuses /\ (t.arrived # s.arrived \/ Held(t[Chain]) # Held(s[Chain]))

\* ... a record is looked for and there are bytes in the buffer when it is filled,
\* at first or again because there were too few of them: filling drops them ...
RecordDrops(max, delim) ==
  LET few(x) == /\ Avail(x) < max
                /\ delim = NoBytes \/ SearchDelim(x, max, 0, delim) < 0
      f == FillReadBuffer(s, Avail(s) + Least(max - Avail(s), s.chunk))
  IN s.readfilters # <<>> /\ few(s) /\ (Avail(s) > 0 \/ (Avail(f) > 0 /\ few(f)))

\* ... a filter is flushed into a buffer of which something was read, or which
\* has to grow, for readbuflen is not told ...
FlushRepeats(i, finish) ==
  LET r == FlushTurns(s[Chain], i, finish)
  IN /\ mode = "read" /\ r.status = "PASS_ON" /\ r.out # NoBytes
     /\ s.readpos > 0 \/ Len(r.out) > s.cap - Len(s.buf)

\* ... a filter is put behind the end, which no turn of the filling loop reaches ...
AppendStrands == mode = "read" /\ s.eof

\* ... a filter goes with bytes in it, or at the end with bytes stuck behind it ...
RemoveLoses(i) == s[Chain][i].held # NoBytes \/ (s.eof /\ Held(s[Chain]) # NoBytes)

\* ... or the connection takes no more.
Full(t) == Len(t.out) = Room

Arrive ==
  /\ open /\ mode = "read" /\ came < Arrivals /\ ~s.ended
  /\ came' = came + 1 /\ s' = [s EXCEPT !.arrived = Append(@, came + 1)]
  /\ UNCHANGED <<mode, wrote, delivered, sound, open>>

End ==
  /\ open /\ mode = "read" /\ ~s.ended /\ s' = [s EXCEPT !.ended = TRUE]
  /\ UNCHANGED <<mode, came, wrote, delivered, sound, open>>

DoRead(n) ==
  LET r == Read(s, n)
  IN /\ open /\ mode = "read" /\ s' = r.s /\ delivered' = delivered \o r.got
     /\ sound' = ~RefusedBy(r.s)
     /\ UNCHANGED <<mode, came, wrote, open>>

DoRecord(max, delim) ==
  LET r == GetRecord(s, max, delim)
      cut == IF r.s.position - s.position > Len(r.got) THEN delim ELSE NoBytes
  IN /\ open /\ mode = "read" /\ s' = r.s /\ delivered' = delivered \o r.got \o cut
     /\ sound' = (~RefusedBy(r.s) /\ ~RecordDrops(max, delim))
     /\ UNCHANGED <<mode, came, wrote, open>>

DoWrite(n) ==
  LET w == Write(s, Numbered(wrote + 1, wrote + n))
  IN /\ open /\ mode = "write" /\ wrote + n <= Writes
     /\ s' = w.s /\ wrote' = wrote + n
     /\ sound' = (~Refuses /\ ~Full(w.s))
     /\ UNCHANGED <<mode, came, delivered, open>>

DoFlush ==
  /\ open /\ mode = "write" /\ s' = Flush(s, FALSE)
  /\ sound' = (~Full(s') /\ ~RefusedBy(s'))
  /\ UNCHANGED <<mode, came, wrote, delivered, open>>

DoPrepend(kind) ==
  /\ open /\ Len(s[Chain]) < MaxFilters
  /\ s' = PrependFilter(s, Chain, NewFilter(kind))
  /\ UNCHANGED <<mode, came, wrote, delivered, sound, open>>

DoAppend(kind) ==
  /\ open /\ Len(s[Chain]) < MaxFilters
  /\ s' = AppendFilter(s, Chain, NewFilter(kind)) /\ sound' = ~AppendStrands
  /\ UNCHANGED <<mode, came, wrote, delivered, open>>

DoFilterFlush(i, finish) ==
  /\ open /\ s' = FilterFlush(s, Chain, i, finish)
  /\ sound' = (~FlushRepeats(i, finish) /\ ~Full(s'))
  /\ UNCHANGED <<mode, came, wrote, delivered, open>>

DoRemove(i) ==
  /\ open /\ s' = RemoveFilter(s, Chain, i) /\ sound' = ~RemoveLoses(i)
  /\ UNCHANGED <<mode, came, wrote, delivered, open>>

\* _php_stream_free: a flush that says the stream closes, and the filters go.
DoClose ==
  /\ open /\ s' = [Flush(s, TRUE) EXCEPT !.readfilters = <<>>] /\ open' = FALSE
  /\ sound' = (~Full(s') /\ ~RefusedBy(s'))
  /\ UNCHANGED <<mode, came, wrote, delivered>>

Init ==
  /\ mode \in Modes
  /\ \E early \in BOOLEAN :
       s = [arrived |-> <<>>, ended |-> FALSE, early |-> early, out |-> <<>>,
            buf |-> <<>>, readpos |-> 0, cap |-> 0, position |-> 0, eof |-> FALSE,
            chunk |-> ChunkSize, nobuf |-> FALSE, noseek |-> TRUE, eol |-> "unix",
            plain |-> FALSE, readfilters |-> <<>>, writefilters |-> <<>>]
  /\ came = 0 /\ wrote = 0 /\ delivered = <<>> /\ sound = TRUE /\ open = TRUE

Call ==
  \/ Arrive \/ End \/ DoFlush \/ DoClose
  \/ \E n \in Counts : DoRead(n) \/ DoWrite(n)
  \/ \E n \in Counts, d \in Delims : DoRecord(n, d)
  \/ \E kind \in FilterKinds : DoPrepend(kind) \/ DoAppend(kind)
  \/ \E i \in 1..MaxFilters :
       /\ i \in DOMAIN s[Chain]
       /\ DoRemove(i) \/ \E finish \in BOOLEAN : DoFilterFlush(i, finish)

Next == sound /\ Call

Spec == Init /\ [][Next]_vars
-----------------------------------------------------------------------------
(* Properties *)

\* No byte is lost, repeated or overtaken.  Of a stream that is read, what was
\* delivered, what is buffered, what the filters hold (the last of them the
\* oldest) and what has not been read yet are the bytes that arrived; of one that
\* is written, what was sent and what the filters hold are the bytes written.  It
\* is what the buffer handling of fill, append, prepend, flush and remove is
\* about.
Conserved ==
  sound =>
    /\ mode = "read" /\ open =>
         delivered \o Unread(s) \o Held(s.readfilters) \o s.arrived = Numbered(1, came)
    /\ mode = "write" => s.out \o Held(s.writefilters) = Numbered(1, wrote)

\* No filter of the chain holds bytes but behind one that had nothing to pass on,
\* which ends the round.
Drained(chain) ==
  \A k \in DOMAIN chain :
    chain[k].held # NoBytes => \E j \in 1..(k - 1) : chain[j].kind # "through"

\* A reader that is told of the end has got everything, and when a stream has been
\* closed the connection has: the filters were told to give up what they hold.
\* The end that is noticed by a read that returned bytes is left out, for then
\* they never are.
EndIsWhole ==
  sound =>
    /\ mode = "read" /\ open /\ ~s.early /\ s.eof /\ Avail(s) = 0 => Drained(s.readfilters)
    /\ mode = "write" /\ ~open => Drained(s.writefilters)
=============================================================================
