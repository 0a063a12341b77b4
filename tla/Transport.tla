------------------------------ MODULE Transport ------------------------------
(***************************************************************************)
(* One connection to a server: the driver's stream transport               *)
(* (io_stream.cpp) and the exchange of a request and its reply             *)
(* (mongo_connect_send_packet), over a socket stream (xp_socket.c,         *)
(* transports.c) and the generic stream operations.  A message is a        *)
(* sequence of units <<n, k>>, the k-th of message n.                      *)
(***************************************************************************)
EXTENDS Integers, Sequences

CONSTANTS
  RequestLength, HeaderLength, BodyLength,  \* in units
  ReadMax,        \* units asked for at once (4096)
  ChunkSize,      \* units a fill of the read buffer asks for (8192)
  ConnectTimeouts, SocketTimeouts,   \* the options: negative, zero, positive
  DefaultTimeout, \* default_socket_timeout, in milliseconds
  Ssl,            \* values of the option ssl
  MaxRequests, MaxConnects

ASSUME TransportAssumption ==
  /\ {RequestLength, HeaderLength, BodyLength, ReadMax, ChunkSize} \subseteq Nat \ {0}
  /\ ConnectTimeouts \subseteq Int /\ SocketTimeouts \subseteq Int /\ DefaultTimeout \in Nat \ {0}
  /\ Ssl \subseteq BOOLEAN /\ MaxRequests \in Nat /\ MaxConnects \in Nat

VARIABLES
  opts,      \* connectTimeoutMS, socketTimeoutMS, ssl
  st,        \* the stream
  listed,    \* what the persistent list has: "none", "live", or "freed"
  con,       \* the connection object: "none", "new" or "connected"
  pc,        \* where the exchange is
  call,      \* the request, what was read of its reply, whether to revert the timeout
  srv,       \* the server: what it has got, what it has to send, whether it hung up
  connects,
  sound      \* no part of a reply has been taken for all of it

vars == <<opts, st, listed, con, pc, call, srv, connects, sound>>
-----------------------------------------------------------------------------
(* xp_socket.c *)

\* Values below zero mean to wait for ever.
Effective(t) == IF t < 0 THEN -1 ELSE t

\* php_stream_generic_socket_factory
SocketFactory ==
  [rx |-> <<>>, hungup |-> FALSE, timeout |-> DefaultTimeout, timeout_event |-> FALSE,
   buf |-> <<>>, readpos |-> 0, cap |-> 0, position |-> 0, eof |-> FALSE,
   chunk |-> ChunkSize, nobuf |-> FALSE, noseek |-> TRUE, eol |-> "unix", plain |-> FALSE,
   readfilters |-> <<>>, writefilters |-> <<>>]

\* php_sock_stream_wait_for_data: the poll ends because there is something to
\* read or the peer hung up, or else because the time is up.
WaitForData(s) == [s EXCEPT !.timeout_event = s.rx = <<>> /\ ~s.hungup]

\* php_sockop_read
SockRead(s, n) ==
  LET w == WaitForData(s)
      k == IF n < Len(w.rx) THEN n ELSE Len(w.rx)
  IN IF w.timeout_event THEN [s |-> w, got |-> <<>>]
     ELSE [s |-> [w EXCEPT !.rx = SubSeq(@, k + 1, Len(@)), !.eof = k = 0],
           got |-> SubSeq(w.rx, 1, k)]

\* php_sockop_set_option: PHP_STREAM_OPTION_READ_TIMEOUT
SetReadTimeout(s, t) == [s EXCEPT !.timeout = t, !.timeout_event = FALSE]

\* php_sockop_set_option: PHP_STREAM_OPTION_CHECK_LIVENESS, without waiting.  A
\* socket that has something to read is alive; the read buffer is not looked at.
IsAlive(s) == s.rx # <<>> \/ ~s.hungup

NoWrite(s, b)           == [s |-> s, n |-> 0]
NoSeek(s, o, whence)    == [s |-> s, ret |-> -1]
NoMmap(s, o, l)         == [ok |-> FALSE, got |-> <<>>]
NoStat(s)               == [size |-> 1, regular |-> FALSE]
NoFilter(filter, bytes, flag) == [filter |-> filter, out |-> bytes, status |-> "PASS_ON"]

INSTANCE StreamLayer WITH OpRead <- SockRead, OpWrite <- NoWrite, OpSeek <- NoSeek,
  OpMmap <- NoMmap, OpStat <- NoStat, OpAlive <- IsAlive, OpFilter <- NoFilter, MaxTurns <- 0
-----------------------------------------------------------------------------
(* The messages and the server *)

Request(n) == [k \in 1..RequestLength |-> <<n, k>>]
Reply(n)   == [k \in 1..(HeaderLength + BodyLength) |-> <<n, k>>]
Body(n)    == [k \in 1..BodyLength |-> <<n, HeaderLength + k>>]

Fresh == [in |-> <<>>, out |-> <<>>]
NoCall == [n |-> 0, got |-> <<>>, want |-> 0, revert |-> FALSE, answer |-> <<>>]

\* A whole request is answered; anything else makes the server hang up.
Serve ==
  /\ con # "none" /\ ~st.hungup /\ Len(srv.in) >= RequestLength
  /\ \E n \in 1..MaxRequests :
       IF SubSeq(srv.in, 1, RequestLength) = Request(n)
       THEN /\ srv' = [in |-> SubSeq(srv.in, RequestLength + 1, Len(srv.in)),
                       out |-> srv.out \o Reply(n)]
            /\ UNCHANGED st
       ELSE /\ \A m \in 1..MaxRequests : SubSeq(srv.in, 1, RequestLength) # Request(m)
            /\ srv' = Fresh /\ st' = [st EXCEPT !.hungup = TRUE]
  /\ UNCHANGED <<opts, listed, con, pc, call, connects, sound>>

\* A unit of a reply reaches the socket.
Deliver ==
  /\ con # "none" /\ srv.out # <<>>
  /\ st' = [st EXCEPT !.rx = Append(@, Head(srv.out))]
  /\ srv' = [srv EXCEPT !.out = Tail(@)]
  /\ UNCHANGED <<opts, listed, con, pc, call, connects, sound>>

\* The server, or the way to it, goes: what was on the way is lost.
HangUp ==
  /\ con # "none" /\ ~st.hungup
  /\ st' = [st EXCEPT !.hungup = TRUE] /\ srv' = Fresh
  /\ UNCHANGED <<opts, listed, con, pc, call, connects, sound>>
-----------------------------------------------------------------------------
(* Connecting and closing *)

\* php_stream_xport_create with the hash as persistent id: a listed stream is used
\* again if it is alive, otherwise closed; a new one is put on the list by the
\* factory, and taken off again when connecting fails.
XportReuses == listed = "live" /\ IsAlive(st)

\* php_mongo_io_stream_connect.  The socket transports know nothing of SSL: the
\* stream is then closed, and as this is not php_stream_pclose, stays listed.
Connect ==
  /\ con = "none" /\ pc = "idle" /\ connects < MaxConnects
  /\ connects' = connects + 1
  /\ \/ /\ ~XportReuses
        /\ listed' = "none" /\ srv' = Fresh /\ UNCHANGED <<st, con>>
     \/ LET s == IF XportReuses THEN st ELSE SocketFactory
        IN IF opts.ssl
           THEN listed' = "freed" /\ srv' = Fresh /\ UNCHANGED <<st, con>>
           ELSE /\ st' = IF opts.socket = 0 THEN s ELSE SetReadTimeout(s, Effective(opts.socket))
                /\ listed' = "live" /\ con' = "new"
                /\ srv' = IF XportReuses THEN srv ELSE Fresh
  /\ UNCHANGED <<opts, pc, call, sound>>

\* Mutant of CloseBroken: a broken connection keeps its stream for the next one.
CloseBrokenNot ==
  /\ pc = "failed"
  /\ con' = "none" /\ pc' = "idle" /\ call' = NoCall
  /\ UNCHANGED <<opts, st, listed, srv, connects, sound>>

\* php_mongo_io_stream_close with MONGO_CLOSE_BROKEN, by which the callers of
\* mongo_connect_send_packet answer a failure: the stream leaves the list too.
CloseBroken ==
  /\ pc = "failed"
  /\ listed' = "none" /\ con' = "none" /\ pc' = "idle" /\ call' = NoCall /\ srv' = Fresh
  /\ st' = SocketFactory
  /\ UNCHANGED <<opts, connects, sound>>

\* The same with MONGO_CLOSE_SHUTDOWN, and _php_mongo_io_stream_forget: nothing is
\* done to the stream.
CloseShutdown ==
  /\ pc = "idle" /\ con # "none"
  /\ con' = "none" /\ UNCHANGED <<opts, st, listed, pc, call, srv, connects, sound>>

\* The connection has been set up: from here on socketTimeoutMS is passed.
Connected ==
  /\ pc = "idle" /\ con = "new" /\ call.n > 0 /\ con' = "connected"
  /\ UNCHANGED <<opts, st, listed, pc, call, srv, connects, sound>>
-----------------------------------------------------------------------------
(* An exchange *)

\* The timeout mongo_connect_send_packet passes.
CallTimeout == IF con = "connected" THEN opts.socket ELSE opts.connect

\* What php_mongo_io_stream_read takes for the stream's own timeout when
\* socketTimeoutMS was not given: a minute, whatever default_socket_timeout is.
HardTimeout == 60000

\* The timeout a read compares its own with and puts back.
RevertTimeout ==
  IF opts.socket = 0 THEN HardTimeout ELSE Effective(opts.socket)

\* Mutant of BeginRead: the stream's timeout is set and not to be reverted.
BeginReadForGood(s, want) ==
  [s |-> IF CallTimeout # 0 THEN SetReadTimeout(s, Effective(CallTimeout)) ELSE s,
   call |-> [call EXCEPT !.got = <<>>, !.want = want, !.revert = FALSE]]

\* The first part of php_mongo_io_stream_read.
BeginRead(s, want) ==
  LET other == CallTimeout # 0 /\ Effective(CallTimeout) # RevertTimeout
  IN [s |-> IF other THEN SetReadTimeout(s, Effective(CallTimeout)) ELSE s,
      call |-> [call EXCEPT !.got = <<>>, !.want = want, !.revert = other]]

\* The last part of it.
EndRead(s) == IF call.revert THEN SetReadTimeout(s, RevertTimeout) ELSE s

\* php_mongo_io_stream_send, and the beginning of the read of the header.  Only
\* -1 is a failure, which php_stream_write never returns: a write that was cut
\* short, because of the timeout or of a peer that is gone, goes unnoticed.
Send ==
  /\ pc = "idle" /\ con # "none" /\ call.n < MaxRequests
  /\ \E k \in 0..RequestLength :
       /\ k < RequestLength => st.timeout >= 0 \/ st.hungup
       /\ srv' = IF st.hungup THEN srv
                 ELSE [srv EXCEPT !.in = @ \o SubSeq(Request(call.n + 1), 1, k)]
  /\ LET b == BeginRead([st EXCEPT !.timeout_event = FALSE], HeaderLength)
     IN st' = b.s /\ call' = [b.call EXCEPT !.n = @ + 1, !.answer = <<>>]
  /\ pc' = "header"
  /\ UNCHANGED <<opts, listed, con, connects, sound>>

\* How much the loop of php_mongo_io_stream_read asks for.
AskFor ==
  LET left == call.want - Len(call.got) IN IF ReadMax < left THEN ReadMax ELSE left

\* Mutant of WouldReturn: the poll is given no timeout.
WouldReturnWithData == Avail(st) >= AskFor \/ st.rx # <<>> \/ st.hungup

\* The poll of the socket comes to an end.
WouldReturn == Avail(st) >= AskFor \/ st.rx # <<>> \/ st.hungup \/ st.timeout >= 0

\* Whether the loop goes on: not after a read that returned nothing, be it that
\* the time was up or that the peer is gone.
MoreToRead(got) == got # <<>> /\ Len(call.got) + Len(got) < call.want

\* One php_stream_read of the loop of php_mongo_io_stream_read.
ReadStep ==
  /\ pc \in {"header", "body"} /\ WouldReturn
  /\ LET r == Read(st, AskFor)
     IN /\ call' = [call EXCEPT !.got = @ \o r.got]
        /\ IF MoreToRead(r.got) THEN st' = r.s /\ UNCHANGED pc
           ELSE /\ st' = EndRead(r.s)
                /\ pc' = IF pc = "header" THEN "gotheader" ELSE "gotbody"
  /\ UNCHANGED <<opts, listed, con, srv, connects, sound>>

\* read < MONGO_REPLY_HEADER_SIZE
HeaderShort == Len(call.got) < HeaderLength

\* The header has been read: the reply is refused when it is short or announces
\* more than the server's maximum, otherwise the body is read.
GotHeader ==
  /\ pc = "gotheader"
  /\ \/ /\ ~HeaderShort
        /\ LET b == BeginRead(st, BodyLength) IN st' = b.s /\ call' = b.call
        /\ pc' = "body"
     \/ pc' = "failed" /\ UNCHANGED <<st, call>>
  /\ UNCHANGED <<opts, listed, con, srv, connects, sound>>

\* The body has been read: nothing of it is a failure, and so is a reply that says
\* that the query failed.  A part of it is as good as all of it.
GotBody ==
  /\ pc = "gotbody"
  /\ \/ /\ call.got # <<>>
        /\ call' = [call EXCEPT !.answer = call.got] /\ pc' = "idle"
        /\ sound' = (Len(call.got) = BodyLength)
     \/ pc' = "failed" /\ UNCHANGED <<call, sound>>
  /\ UNCHANGED <<opts, st, listed, con, srv, connects>>

Init ==
  /\ opts \in [connect : ConnectTimeouts, socket : SocketTimeouts, ssl : Ssl]
  /\ st = SocketFactory /\ listed = "none" /\ con = "none" /\ pc = "idle"
  /\ call = NoCall /\ srv = Fresh /\ connects = 0 /\ sound = TRUE

Client ==
  Connect \/ CloseBroken \/ CloseShutdown \/ Connected \/ Send \/ ReadStep \/ GotHeader \/ GotBody

\* A listed stream that was freed must not be touched; a reply that was cut short
\* is where this model stops.
Next == sound /\ listed # "freed" /\ (Client \/ Serve \/ Deliver \/ HangUp)

Working == ReadStep \/ GotHeader \/ GotBody \/ CloseBroken

\* When a step of Working can be taken.
CanWork ==
  sound /\ (pc \in {"gotheader", "gotbody", "failed"} \/ (pc \in {"header", "body"} /\ WouldReturn))

\* Weak fairness of Working, with what enables it spelled out.
Spec == Init /\ [][Next]_vars /\ ([]<>~CanWork \/ []<><<Working>>_vars)
-----------------------------------------------------------------------------
(* Properties *)

\* An answer that mongo_connect_send_packet hands on is the whole body of the
\* reply to this very request, whatever was lost, late or cut short before, and
\* between two exchanges nothing of a reply is on the way, in the socket or in the
\* read buffer of a stream that will be used again.  There are no request ids, so
\* it hangs on every failure closing the stream.  No more is read than the buffer
\* for it holds.
AnswerIsMine ==
  /\ Len(call.got) <= call.want
  /\ sound /\ pc = "idle" =>
       /\ call.answer # <<>> => call.answer = Body(call.n)
       /\ listed = "live" => Avail(st) = 0 /\ st.rx = <<>> /\ srv = Fresh

\* What mongo_connect_send_packet says it does ("Returns 1 if it worked"): the
\* answer is whole.
AnswerIsWhole == call.answer # <<>> => call.answer = Body(call.n)

\* A timeout the stream may have between two reads: socketTimeoutMS when it was
\* given, otherwise the one it was opened with or, after a read that changed it, the
\* hard-coded minute, where io_stream.cpp:267 says "revert to default_socket_timeout".
OwnTimeout(t) ==
  IF opts.socket # 0 THEN t = Effective(opts.socket) ELSE t \in {DefaultTimeout, HardTimeout}

\* A read of php_mongo_io_stream_read waits for as long as its caller said, and
\* whatever that was and however the read ended, the stream does not keep it: a
\* given socketTimeoutMS is back after it.  Where none was given, a caller that
\* asks for exactly the hard-coded minute is taken to ask for nothing.
TimeoutRestored ==
  con # "none" =>
    IF pc \in {"header", "body"}
    THEN \/ CallTimeout = 0 \/ st.timeout = Effective(CallTimeout)
         \/ opts.socket = 0 /\ CallTimeout = HardTimeout
    ELSE OwnTimeout(st.timeout)

\* An exchange ends: when a timeout is set, no loss, late reply or unnoticed short
\* write leaves the caller waiting.
CallEnds ==
  (sound /\ pc # "idle" /\ opts.connect >= 0 /\ opts.socket >= 0) ~> (pc = "idle" \/ ~sound)
=============================================================================
