--------------------------- MODULE StreamLifecycle ---------------------------
(***************************************************************************)
(* How streams are allocated, listed, handed out and freed (streams.c),    *)
(* and who frees them: the script, the resource lists at the end of a      *)
(* request and of the process, an enclosing stream, a FILE the stream was  *)
(* cast to, the transports and the driver (io_stream.cpp).                 *)
(*                                                                         *)
(* _php_stream_free calls itself: through the destructors of the two       *)
(* lists, through the enclosing and the enclosed stream and through the    *)
(* FILE made with fopencookie.  The calls are frames on a stack and every  *)
(* frame goes through its steps one by one.                                *)
(***************************************************************************)
EXTENDS Integers, Sequences, FiniteSetsExt

CONSTANTS
  Slots,        \* the places of streams, numbers (emalloc)
  PSlots,       \* the places of persistent streams, other numbers (malloc)
  Contexts,     \* where a context can be
  Pids,         \* persistent ids
  MaxId,        \* bound: the resources of one request
  MaxRefs,      \* bound: the references to a resource
  MaxRequests,  \* bound: the requests
  None

ASSUME DistinctSlots == Slots \cup PSlots \subseteq Nat /\ Slots \cap PSlots = {}

\* Streams and contexts are places in a finite memory, and None is no place.
ASSUME LifecycleAssumption ==
  /\ IsFiniteSet(Slots \cup PSlots) /\ MaxId \in Nat
  /\ Contexts \cap (Slots \cup PSlots) = {} /\ None \notin Slots \cup PSlots \cup Contexts
  /\ None \notin [ptr : Slots \cup PSlots \cup Contexts, refcount : Nat]

VARIABLES
  alive,        \* the streams that are allocated
  stm,          \* what is in them
  regular,      \* EG(regular_list): resource id -> [ptr, refcount], or None
  nextId,       \* the next resource id
  persistent,   \* EG(persistent_list): persistent id -> stream, or None
  ctxs,         \* the resource ids of the contexts, 0 when there is none
  held,         \* the contexts the script holds
  stack,        \* the calls under way, the innermost first
  phase,        \* "request", "destroying", "between" or "down"
  requests      \* how many requests there were

vars == <<alive, stm, regular, nextId, persistent, ctxs, held, stack, phase, requests>>
lists == <<regular, nextId, persistent, ctxs, held>>

AllSlots == Slots \cup PSlots
CloseOpts == {"CALL_DTOR", "RELEASE_STREAM"}
Options == CloseOpts \cup {"PRESERVE_HANDLE", "RSRC_DTOR", "PERSISTENT", "IGNORE_ENCLOSING"}

\* A call of _php_stream_free about to start.
Free(s, opts) == [call |-> "free", s |-> s, opts |-> opts, pc |-> "enter", ctx |-> None]

\* A stream as _php_stream_alloc leaves it, but for its id.
Fresh(kind) ==
  [kind |-> kind, rsrc |-> 0, in_free |-> 0, enclosing |-> None, inner |-> None,
   cookie |-> FALSE, ctx |-> None, handle |-> kind \in {"plain", "socket"}, given |-> FALSE]

\* The allocator gives the lowest place that is free, so that places are used
\* again as soon as they can be.
Malloc(places) == Min(places \ alive)
Room2 == Cardinality(Slots \ alive) >= 2

Quiet == stack = <<>>
Client == Quiet /\ phase = "request"
Top == Head(stack)
Frame(pc) == stack # <<>> /\ Top.call = "free" /\ Top.pc = pc
Pop == Tail(stack)
Goto(pc) == <<[Top EXCEPT !.pc = pc]>> \o Pop
-----------------------------------------------------------------------------
(* The resource list *)

\* zend_list_insert
Listed(list, id, ptr) == [list EXCEPT ![id] = [ptr |-> ptr, refcount |-> 1]]
Room(n) == nextId + n - 1 <= MaxId

\* The reference about to be dropped is the last one.
LastRef(e) == e.refcount = 1

\* zend_list_addref of a context
Referenced(list, c) == [list EXCEPT ![ctxs[c]].refcount = @ + 1]

\* zend_list_delete, and so zend_hash_index_del: the entry is gone before its
\* destructor runs.  Only streams that are not persistent have one that frees
\* them; calls is what comes next.
Delete(list, id, calls) ==
  LET e == list[id]
      gone == LastRef(e)
  IN /\ regular' = [list EXCEPT ![id] = IF gone THEN None ELSE [e EXCEPT !.refcount = @ - 1]]
     /\ ctxs' = IF gone /\ e.ptr \in Contexts THEN [ctxs EXCEPT ![e.ptr] = 0] ELSE ctxs
     /\ stack' = IF gone /\ e.ptr \in Slots
                 THEN <<Free(e.ptr, CloseOpts \cup {"RSRC_DTOR"})>> \o calls ELSE calls
-----------------------------------------------------------------------------
(* _php_stream_free *)

\* A call for a stream that is being freed returns at once, unless it is the
\* one the enclosing stream makes after it was told to by this stream.
Recursive(s, opts) ==
  stm[s].in_free > 0
    /\ ~(stm[s].in_free = 1 /\ "IGNORE_ENCLOSING" \in opts /\ stm[s].enclosing = None)

\* The options after the flag the redirection took away is restored.
Restored(s, opts) == IF stm[s].in_free > 0 THEN opts \cup {"RSRC_DTOR"} ELSE opts

\* The destructor of an enclosed stream frees the enclosing one instead.
Redirected(s, opts) ==
  "RSRC_DTOR" \in opts /\ "IGNORE_ENCLOSING" \notin opts /\ stm[s].enclosing # None

\* The handle of a stream whose FILE was given away is not closed.
Preserve(opts) == "PRESERVE_HANDLE" \in opts

FreeReturns ==
  /\ Frame("enter") /\ Recursive(Top.s, Top.opts)
  /\ stack' = Pop
  /\ UNCHANGED <<alive, stm, lists, phase, requests>>

FreeRedirects ==
  LET s == Top.s
      opts == Restored(s, Top.opts)
  IN /\ Frame("enter") /\ ~Recursive(s, Top.opts)
     /\ Redirected(s, opts)
     /\ stm' = [stm EXCEPT ![s] = [stm[s] EXCEPT !.in_free = stm[s].in_free + 1, !.enclosing = None]]
     /\ stack' = <<Free(stm[s].enclosing, (opts \cup {"CALL_DTOR"}) \ {"RSRC_DTOR"})>> \o Pop
     /\ UNCHANGED <<alive, lists, phase, requests>>

\* A stream a FILE from fopencookie relies on is left as it is.
FreeKeepsCookie ==
  /\ Frame("enter") /\ ~Recursive(Top.s, Top.opts)
  /\ ~Redirected(Top.s, Restored(Top.s, Top.opts))
  /\ Preserve(Top.opts) /\ stm[Top.s].cookie
  /\ stack' = Pop
  /\ UNCHANGED <<alive, stm, lists, phase, requests>>

\* The context is only looked at while a request is active.
FreeBegins ==
  LET s == Top.s
      opts == Restored(s, Top.opts)
  IN /\ Frame("enter") /\ ~Recursive(s, Top.opts)
     /\ ~Redirected(s, opts)
     /\ ~(Preserve(opts) /\ stm[s].cookie)
     /\ stm' = [stm EXCEPT ![s].in_free = @ + 1]
     /\ stack' = <<[Top EXCEPT !.opts = opts,
                      !.ctx = IF phase = "request" THEN stm[s].ctx ELSE None,
                      !.pc = IF "RSRC_DTOR" \in opts THEN "dtor" ELSE "unlist"]>> \o Pop
     /\ UNCHANGED <<alive, lists, phase, requests>>

\* Mutant of Unlist: the references stay, so the loop never ends.
UnlistKeeps(id) == UNCHANGED <<regular, ctxs, stack>>

\* One turn of the loop that takes the stream off the resource list.
Unlist(id) == Delete(regular, id, stack)

IsListed(id) == id \in DOMAIN regular /\ regular[id] # None

FreeUnlists ==
  LET id == stm[Top.s].rsrc
  IN /\ Frame("unlist")
     /\ IF IsListed(id) THEN Unlist(id)
        ELSE stack' = Goto("dtor") /\ UNCHANGED <<regular, ctxs>>
     /\ UNCHANGED <<alive, stm, nextId, persistent, held, phase, requests>>

\* Mutant of CookieCloser: the handle behind the FILE is left open.
CookieCloserCasted == CloseOpts \cup {"PRESERVE_HANDLE"}

\* stream_cookie_closer closes the stream: php_stream_close.
CookieCloser == CloseOpts

\* fclose of the FILE the stream was cast to; the flag is taken away first.
FreeCloses ==
  /\ Frame("dtor")
  /\ stm[Top.s].cookie /\ ~Preserve(Top.opts)
  /\ stm' = [stm EXCEPT ![Top.s] = [stm[Top.s] EXCEPT !.in_free = 0, !.cookie = FALSE]]
  /\ stack' = <<Free(Top.s, CookieCloser)>> \o Pop
  /\ UNCHANGED <<alive, lists, phase, requests>>

\* _php_stream_free_enclosed
FreeEnclosed(s, opts) == Free(s, opts \cup {"IGNORE_ENCLOSING"})

\* ops->close: php_stdiop_close and php_sockop_close close the handle unless it
\* is to be preserved, php_stream_temp_close frees the enclosed stream.
FreeCallsClose ==
  LET s == Top.s
      t == stm[s]
      keep == IF Preserve(Top.opts) THEN {"PRESERVE_HANDLE"} ELSE {}
  IN /\ Frame("dtor")
     /\ ~(t.cookie /\ ~Preserve(Top.opts))
     /\ stm' = [stm EXCEPT ![s] = [t EXCEPT !.handle = t.handle /\ Preserve(Top.opts), !.inner = None]]
     /\ stack' = IF t.inner = None THEN Goto("release")
                 ELSE <<FreeEnclosed(t.inner, CloseOpts \cup keep)>> \o Goto("release")
     /\ UNCHANGED <<alive, lists, phase, requests>>

\* A persistent stream leaves the persistent list only when it is told to; the
\* destructor of that list comes back here.
FreeForgets ==
  LET s == Top.s
      of == {p \in Pids : persistent[p] = s}
      forget == s \in PSlots /\ "PERSISTENT" \in Top.opts /\ of # {}
  IN /\ Frame("release")
     /\ persistent' = IF forget THEN [p \in Pids |-> IF p \in of THEN None ELSE persistent[p]]
                      ELSE persistent
     /\ stack' = IF forget THEN <<Free(s, CloseOpts \cup {"RSRC_DTOR"})>> \o Goto("pefree")
                 ELSE Goto("pefree")
     /\ UNCHANGED <<alive, stm, regular, nextId, ctxs, held, phase, requests>>

FreeReleases ==
  /\ Frame("pefree")
  /\ alive' = alive \ {Top.s}
  /\ stm' = [stm EXCEPT ![Top.s] = [Fresh("none") EXCEPT !.handle = stm[Top.s].handle,
                                                        !.given = stm[Top.s].given]]
  /\ stack' = Goto("context")
  /\ UNCHANGED <<lists, phase, requests>>

FreeDropsContext ==
  /\ Frame("context")
  /\ IF Top.ctx = None THEN stack' = Pop /\ UNCHANGED <<regular, ctxs>>
     ELSE Delete(regular, ctxs[Top.ctx], Pop)
  /\ UNCHANGED <<alive, stm, nextId, persistent, held, phase, requests>>

FreeStep ==
  \/ FreeReturns \/ FreeRedirects \/ FreeKeepsCookie \/ FreeBegins \/ FreeUnlists
  \/ FreeCloses \/ FreeCallsClose \/ FreeForgets \/ FreeReleases
  \/ FreeDropsContext
-----------------------------------------------------------------------------
(* Opening *)

\* _php_stream_fopen: a plain file
Open(s) ==
  /\ Client /\ Room(1) /\ Slots \ alive # {} /\ s = Malloc(Slots)
  /\ alive' = alive \cup {s}
  /\ stm' = [stm EXCEPT ![s] = [Fresh("plain") EXCEPT !.rsrc = nextId]]
  /\ regular' = Listed(regular, nextId, s)
  /\ nextId' = nextId + 1
  /\ UNCHANGED <<persistent, ctxs, held, stack, phase, requests>>

\* Mutant of Encloses: the enclosed stream does not learn who encloses it.
EnclosesNot(t, s) == t

\* php_stream_encloses: t is enclosed by s.
Encloses(t, s) == [t EXCEPT !.enclosing = s]

\* A temporary stream s and the memory stream i in it, as
\* _php_stream_temp_create_ex makes them, given the first of two ids.
TempPair(f, s, i, id) ==
  [f EXCEPT ![s] = [Fresh("temp") EXCEPT !.rsrc = id, !.inner = i],
            ![i] = Encloses([Fresh("memory") EXCEPT !.rsrc = id + 1], s)]

OpenTemp(s, i) ==
  /\ Client /\ Room(2) /\ Room2 /\ s = Malloc(Slots) /\ i = Malloc(Slots \ {s})
  /\ alive' = alive \cup {s, i}
  /\ stm' = TempPair(stm, s, i, nextId)
  /\ regular' = Listed(Listed(regular, nextId, s), nextId + 1, i)
  /\ nextId' = nextId + 2
  /\ UNCHANGED <<persistent, ctxs, held, stack, phase, requests>>

\* php_stream_temp_write past the limit and php_stream_temp_cast: a file n takes
\* the place of the memory stream, which is freed.
Spill(s, n) ==
  /\ Client /\ Room(1) /\ s \in alive \cap Slots /\ Slots \ alive # {} /\ n = Malloc(Slots)
  /\ stm[s].inner # None /\ stm[stm[s].inner].kind = "memory"
  /\ alive' = alive \cup {n}
  /\ stm' = [stm EXCEPT ![s].inner = n,
                        ![n] = Encloses([Fresh("plain") EXCEPT !.rsrc = nextId], s)]
  /\ regular' = Listed(regular, nextId, n)
  /\ nextId' = nextId + 1
  /\ stack' = <<FreeEnclosed(stm[s].inner, CloseOpts)>>
  /\ UNCHANGED <<persistent, ctxs, held, phase, requests>>

\* _php_stream_make_seekable, of a stream that cannot seek: a temporary stream
\* takes its place, unless the copy fails.
MakeSeekable(s, t, i, copied) ==
  /\ Client /\ Room(2) /\ s \in alive \cap Slots /\ stm[s].kind = "plain"
  /\ stm[s].enclosing = None /\ Room2 /\ t = Malloc(Slots) /\ i = Malloc(Slots \ {t})
  /\ alive' = alive \cup {t, i}
  /\ stm' = TempPair(stm, t, i, nextId)
  /\ regular' = Listed(Listed(regular, nextId, t), nextId + 1, i)
  /\ nextId' = nextId + 2
  /\ stack' = <<Free(IF copied THEN s ELSE t, CloseOpts)>>
  /\ UNCHANGED <<persistent, ctxs, held, phase, requests>>

\* php_stream_from_persistent_id: the entry of the list the stream is in already,
\* if there is one; a new one otherwise.
FromPersistentId(s, at) == [stm EXCEPT ![s].rsrc = at]

\* The first entry of the resource list for the stream, or the next id.
EntryOf(s) ==
  LET at == {k \in DOMAIN regular : regular[k] # None /\ regular[k].ptr = s}
  IN IF at = {} THEN nextId ELSE Min(at)

\* _php_stream_xport_create with a persistent id: the stream of that id, when its
\* socket is alive; when it is dead the stream is freed and a new one is made.
XportFinds(p, works) ==
  LET s == persistent[p]
      at == EntryOf(s)
  IN /\ Client /\ Room(1) /\ s # None
     /\ at < nextId => regular[at].refcount < MaxRefs
     /\ stm' = FromPersistentId(s, at)
     /\ regular' = IF at = nextId THEN Listed(regular, at, s)
                   ELSE [regular EXCEPT ![at].refcount = @ + 1]
     /\ nextId' = IF at = nextId THEN nextId + 1 ELSE nextId
     /\ stack' = IF works THEN <<>>
                 ELSE <<Free(s, CloseOpts \cup {"PERSISTENT"}), [call |-> "create", pid |-> p]>>
     /\ UNCHANGED <<alive, persistent, ctxs, held, phase, requests>>

\* Mutant of FailedOpts: a connection that failed is not forgotten.
FailedOptsClose == CloseOpts

\* What a stream that could not be connected is freed with: php_stream_pclose.
FailedOpts == CloseOpts \cup {"PERSISTENT"}

\* The rest of _php_stream_xport_create: the factory makes a stream with a
\* context, and it is connected or freed.
XportMakes(p, s, c, works) ==
  /\ phase = "request" /\ Room(1) /\ PSlots \ alive # {} /\ s = Malloc(PSlots)
  /\ persistent[p] = None
  /\ \/ stack = <<>>
     \/ stack # <<>> /\ Top.call = "create" /\ Top.pid = p
  /\ c # None => ctxs[c] # 0 /\ c \in held /\ regular[ctxs[c]].refcount < MaxRefs
  /\ alive' = alive \cup {s}
  /\ stm' = [stm EXCEPT ![s] = [Fresh("socket") EXCEPT !.rsrc = nextId, !.ctx = c]]
  /\ persistent' = [persistent EXCEPT ![p] = s]
  /\ regular' = LET l == Listed(regular, nextId, s)
                IN IF c = None THEN l ELSE Referenced(l, c)
  /\ nextId' = nextId + 1
  /\ stack' = IF works THEN <<>> ELSE <<Free(s, FailedOpts)>>
  /\ UNCHANGED <<ctxs, held, phase, requests>>

\* The bound on resources is reached: the call is cut off here.
XportCut ==
  /\ stack # <<>> /\ Top.call = "create" /\ (~Room(1) \/ PSlots \subseteq alive)
  /\ stack' = Pop
  /\ UNCHANGED <<alive, stm, lists, phase, requests>>
-----------------------------------------------------------------------------
(* Using and closing *)

Outer(s) == s \in alive \cap Slots /\ stm[s].enclosing = None

\* php_stream_close
Close(s) ==
  /\ Client /\ Outer(s)
  /\ stack' = <<Free(s, CloseOpts)>>
  /\ UNCHANGED <<alive, stm, lists, phase, requests>>

\* The script takes or drops a reference to a stream.
AddRef(s) ==
  LET id == stm[s].rsrc
  IN /\ Client /\ Outer(s) /\ IsListed(id) /\ regular[id].refcount < MaxRefs
     /\ regular' = [regular EXCEPT ![id].refcount = @ + 1]
     /\ UNCHANGED <<alive, stm, nextId, persistent, ctxs, held, stack, phase, requests>>

DropRef(s) ==
  LET id == stm[s].rsrc
  IN /\ Client /\ Outer(s) /\ IsListed(id)
     /\ Delete(regular, id, <<>>)
     /\ UNCHANGED <<alive, stm, nextId, persistent, held, phase, requests>>

\* _php_stream_cast as STDIO: a plain file has a FILE of its own, any other
\* stream is given one by fopencookie.  With PHP_STREAM_CAST_RELEASE the stream
\* is freed but for its handle.
Cast(s, release) ==
  LET t == stm[s]
  IN /\ Client /\ Outer(s)
     /\ stm' = [stm EXCEPT ![s] = [t EXCEPT !.cookie = t.cookie \/ t.kind # "plain",
                                            !.given = release /\ t.kind = "plain"]]
     /\ stack' = IF release THEN <<Free(s, CloseOpts \cup {"PRESERVE_HANDLE"})>> ELSE <<>>
     /\ UNCHANGED <<alive, lists, phase, requests>>

\* Whoever has the FILE closes it: through stream_cookie_closer, or the handle a
\* released plain file left behind.
Fclose(s) ==
  /\ Client /\ s \in Slots
  /\ \/ /\ s \in alive /\ stm[s].cookie
        /\ stm' = [stm EXCEPT ![s].cookie = FALSE]
        /\ stack' = <<Free(s, CookieCloser)>>
     \/ /\ s \notin alive /\ stm[s].handle
        /\ stm' = [stm EXCEPT ![s] = Fresh("none")]
        /\ stack' = stack
  /\ UNCHANGED <<alive, lists, phase, requests>>

\* php_mongo_io_stream_close of a broken connection.  The driver's other way to drop
\* a stream, php_stream_close after a failed SSL handshake (io_stream.cpp:110, 128),
\* leaves a freed stream in the persistent list; it is an outcome of Connect in
\* Transport and left out here.
Broken(s) ==
  /\ Client /\ s \in alive \cap PSlots
  /\ stack' = <<Free(s, CloseOpts \cup {"PERSISTENT", "RSRC_DTOR"})>>
  /\ UNCHANGED <<alive, stm, lists, phase, requests>>

\* php_stream_context_alloc
ContextAlloc(c) ==
  /\ Client /\ Room(1) /\ ctxs[c] = 0
  /\ ctxs' = [ctxs EXCEPT ![c] = nextId]
  /\ held' = held \cup {c}
  /\ regular' = Listed(regular, nextId, c)
  /\ nextId' = nextId + 1
  /\ UNCHANGED <<alive, stm, persistent, stack, phase, requests>>

\* php_stream_context_set: the stream's old context is let go after the new one
\* was referenced.
ContextSet(s, c) ==
  LET old == stm[s].ctx
      list == Referenced(regular, c)
  IN /\ Client /\ Outer(s) /\ c \in held /\ regular[ctxs[c]].refcount < MaxRefs
     /\ stm' = [stm EXCEPT ![s].ctx = c]
     /\ IF old = None THEN regular' = list /\ UNCHANGED <<ctxs, stack>>
        ELSE Delete(list, ctxs[old], <<>>)
     /\ UNCHANGED <<alive, nextId, persistent, held, phase, requests>>

\* The script drops its reference.
ContextDrop(c) ==
  /\ Client /\ c \in held
  /\ held' = held \ {c}
  /\ Delete(regular, ctxs[c], <<>>)
  /\ UNCHANGED <<alive, stm, nextId, persistent, phase, requests>>
-----------------------------------------------------------------------------
(* The end of a request and of the process *)

\* forget_persistent_resource_id_numbers, of every persistent stream
Forgotten ==
  [s \in AllSlots |-> IF \E p \in Pids : persistent[p] = s
                      THEN [stm[s] EXCEPT !.rsrc = -1, !.ctx = None] ELSE stm[s]]

\* How many persistent streams have the context.
Holders(c) == Cardinality({s \in PSlots : stm[s].ctx = c /\ \E p \in Pids : persistent[p] = s})

\* RSHUTDOWN, after which nothing is active and the resources are destroyed.
\* The contexts of the persistent streams lose a reference each.
RequestShutdown ==
  /\ Client
  /\ phase' = "destroying"
  /\ held' = {}
  /\ stm' = Forgotten
  /\ regular' = [k \in DOMAIN regular |->
       LET e == regular[k] IN
       IF e = None \/ e.ptr \notin Contexts THEN e
       ELSE IF Holders(e.ptr) >= e.refcount THEN None
       ELSE [e EXCEPT !.refcount = @ - Holders(e.ptr)]]
  /\ ctxs' = [c \in Contexts |-> IF ctxs[c] # 0 /\ Holders(c) >= regular[ctxs[c]].refcount
                                 THEN 0 ELSE ctxs[c]]
  /\ UNCHANGED <<alive, nextId, persistent, stack, requests>>

\* The resources are destroyed one by one, the last first, whatever references
\* there are.
DestroyResource ==
  LET live == {k \in DOMAIN regular : regular[k] # None}
      e == regular[Max(live)]
  IN /\ Quiet /\ phase = "destroying" /\ live # {}
     /\ regular' = [regular EXCEPT ![Max(live)] = None]
     /\ ctxs' = IF e.ptr \in Contexts THEN [ctxs EXCEPT ![e.ptr] = 0] ELSE ctxs
     /\ stack' = IF e.ptr \in Slots THEN <<Free(e.ptr, CloseOpts \cup {"RSRC_DTOR"})>> ELSE <<>>
     /\ UNCHANGED <<alive, stm, nextId, persistent, held, phase, requests>>

RequestEnd ==
  /\ Quiet /\ phase = "destroying" /\ \A k \in DOMAIN regular : regular[k] = None
  /\ phase' = "between"
  /\ UNCHANGED <<alive, stm, lists, stack, requests>>

RequestStart ==
  /\ Quiet /\ phase = "between" /\ requests < MaxRequests
  /\ phase' = "request"
  /\ requests' = requests + 1
  /\ nextId' = 1
  /\ UNCHANGED <<alive, stm, regular, persistent, ctxs, held, stack>>

\* The end of the process destroys the persistent list.
Shutdown ==
  /\ Quiet /\ phase = "between"
  /\ phase' = "down"
  /\ UNCHANGED <<alive, stm, lists, stack, requests>>

DestroyPersistent(p) ==
  /\ Quiet /\ phase = "down" /\ persistent[p] # None
  /\ persistent' = [persistent EXCEPT ![p] = None]
  /\ stack' = <<Free(persistent[p], CloseOpts \cup {"RSRC_DTOR"})>>
  /\ UNCHANGED <<alive, stm, regular, nextId, ctxs, held, phase, requests>>
-----------------------------------------------------------------------------
Init ==
  /\ alive = {} /\ stm = [s \in AllSlots |-> Fresh("none")]
  /\ regular = [k \in 1..MaxId |-> None] /\ nextId = 1
  /\ persistent = [p \in Pids |-> None]
  /\ ctxs = [c \in Contexts |-> 0] /\ held = {}
  /\ stack = <<>> /\ phase = "request" /\ requests = 1

Next ==
  \/ FreeStep \/ XportCut
  \/ \E s \in Slots : Open(s) \/ Close(s) \/ AddRef(s) \/ DropRef(s) \/ Fclose(s)
  \/ \E s \in Slots, release \in BOOLEAN : Cast(s, release)
  \/ \E s, i \in Slots : OpenTemp(s, i) \/ Spill(s, i)
  \/ \E s, t, i \in Slots, copied \in BOOLEAN : MakeSeekable(s, t, i, copied)
  \/ \E p \in Pids, works \in BOOLEAN : XportFinds(p, works)
  \/ \E p \in Pids, s \in PSlots, c \in Contexts \cup {None}, works \in BOOLEAN :
       XportMakes(p, s, c, works)
  \/ \E s \in PSlots : Broken(s)
  \/ \E c \in Contexts : ContextAlloc(c) \/ ContextDrop(c)
  \/ \E s \in Slots, c \in Contexts : ContextSet(s, c)
  \/ RequestShutdown \/ DestroyResource \/ RequestEnd \/ RequestStart \/ Shutdown
  \/ \E p \in Pids : DestroyPersistent(p)

\* A step of a call that is under way.
CallStep ==
  \/ FreeStep \/ XportCut
  \/ stack # <<>> /\ \E p \in Pids, s \in PSlots, c \in Contexts \cup {None}, works \in BOOLEAN :
                       XportMakes(p, s, c, works)

\* The code is sequential: a call under way goes on.
Spec == Init /\ [][Next]_vars /\ WF_vars(CallStep)
-----------------------------------------------------------------------------
(* Properties *)

\* No call of _php_stream_free that is under way has to do with a stream or a
\* context that was freed, whatever the order in which the script, the FILE and
\* the lists free streams that enclose each other: nothing is freed twice.
NothingFreedTwice ==
  \A k \in 1..Len(stack) : LET f == stack[k] IN f.call = "free" =>
    /\ f.pc # "context" => f.s \in alive
    /\ f.ctx # None => ctxs[f.ctx] # 0

\* What is kept of a stream or a context does not outlive it: the persistent list,
\* where the next connection looks for a stream, has none that was freed; the
\* resource id of a stream is never that of something else, which freeing the
\* stream would then destroy; and while a request is active the context of a
\* stream is there.
NothingDangles ==
  /\ \A p \in Pids : persistent[p] # None => persistent[p] \in alive
  /\ \A s \in alive :
       /\ IsListed(stm[s].rsrc) => regular[stm[s].rsrc].ptr = s
       /\ Client /\ stm[s].ctx # None => ctxs[stm[s].ctx] # 0

\* Between two calls every stream is on a list, so that somebody frees it, and
\* after a request only the persistent ones are left.  The handle of a freed
\* stream is closed, unless the stream was given away as the FILE it is, which
\* only a plain file can be.
NoneLeaks ==
  /\ Quiet => \A s \in alive :
       \/ \E k \in DOMAIN regular : regular[k] # None /\ regular[k].ptr = s
       \/ \E p \in Pids : persistent[p] = s
  /\ \A s \in AllSlots : s \notin alive /\ stm[s].handle => stm[s].given

\* Every call of _php_stream_free returns, its calls of itself included, and so
\* does the opening that had to free a dead stream first.
CallsReturn == stack # <<>> ~> stack = <<>>
=============================================================================
