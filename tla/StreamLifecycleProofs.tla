------------------------- MODULE StreamLifecycleProofs -------------------------
(***************************************************************************)
(* Nothing is freed twice, nothing dangles and nothing leaks, whatever the *)
(* number of streams, contexts and requests and however the calls of       *)
(* _php_stream_free nest: StreamLifecycle's safety properties, by an       *)
(* inductive invariant about the lists, the enclosing streams and the      *)
(* stack of calls.                                                         *)
(***************************************************************************)
EXTENDS StreamLifecycle, FiniteSetTheorems, WellFoundedInduction, TLAPS

Kinds == {"none", "plain", "temp", "memory", "socket"}
Work == {"unlist", "dtor", "release", "pefree"}
Places == {"enter", "unlist", "dtor", "release", "pefree", "context"}

Streams ==
  [kind : Kinds, rsrc : Int, in_free : Nat, enclosing : Slots \cup {None},
   inner : Slots \cup {None}, cookie : BOOLEAN, ctx : Contexts \cup {None},
   handle : BOOLEAN, given : BOOLEAN]
Entries == [ptr : AllSlots \cup Contexts, refcount : Nat \ {0}]
Frees == [call : {"free"}, s : AllSlots, opts : SUBSET Options, pc : Places,
          ctx : Contexts \cup {None}]
Creates == [call : {"create"}, pid : Pids]
Frames == Frees \cup Creates

TypeInv ==
  /\ alive \subseteq AllSlots /\ stm \in [AllSlots -> Streams]
  /\ regular \in [1..MaxId -> Entries \cup {None}] /\ nextId \in Nat \ {0}
  /\ persistent \in [Pids -> PSlots \cup {None}]
  /\ ctxs \in [Contexts -> 0..MaxId] /\ held \subseteq Contexts
  /\ stack \in Seq(Frames)
  /\ phase \in {"request", "destroying", "between", "down"}
-----------------------------------------------------------------------------
(* The inductive invariant *)

\* A call past its beginning that has not yet released the stream.
Works(k) == stack[k].call = "free" /\ stack[k].pc \in Work
Freeing(s) == \E k \in 1..Len(stack) : Works(k) /\ stack[k].s = s

\* The innermost call is about to start, and comes from the enclosing stream.
Entering(s) == Frame("enter") /\ Top.s = s
Closing(s) == Entering(s) /\ "IGNORE_ENCLOSING" \in Top.opts

HasEntry(s) == \E k \in 1..MaxId : regular[k] # None /\ regular[k].ptr = s
IsInner(i) == \E t \in Slots : stm[t].inner = i
Kept(s) == \E p \in Pids : persistent[p] = s

\* The resource list and the ids that refer to it.
Resources ==
  /\ \A k \in 1..MaxId : regular[k] # None =>
       /\ k < nextId
       /\ regular[k].ptr \in Slots => regular[k].ptr \in alive /\ stm[regular[k].ptr].rsrc = k
       /\ regular[k].ptr \in Contexts => ctxs[regular[k].ptr] = k
  /\ \A s \in alive :
       /\ stm[s].rsrc < nextId
       /\ IsListed(stm[s].rsrc) => regular[stm[s].rsrc].ptr = s
  /\ \A c \in Contexts : ctxs[c] # 0 => regular[ctxs[c]] # None /\ regular[ctxs[c]].ptr = c

\* The persistent list names live streams, each once; nothing they remember of a
\* request survives it.
Keeping ==
  \A p \in Pids : persistent[p] # None =>
    /\ persistent[p] \in alive
    /\ \A q \in Pids : persistent[q] = persistent[p] => q = p
    /\ phase # "request" => stm[persistent[p]].rsrc = -1 /\ stm[persistent[p]].ctx = None

\* Nothing is left of a stream that was freed but a FILE that was given away.
Cleared ==
  \A s \in AllSlots \ alive :
    /\ stm[s].in_free = 0 /\ stm[s].enclosing = None /\ stm[s].inner = None
    /\ ~stm[s].cookie /\ stm[s].ctx = None /\ (stm[s].handle => stm[s].given)

\* An enclosing stream and the enclosed one know each other, except that the
\* enclosed one forgets when its destructor has redirected to the enclosing one.
Enclosing(s) ==
  /\ stm[s].cookie => stm[s].enclosing = None /\ ~IsInner(s)
  /\ stm[s].inner # None =>
       /\ stm[s].kind = "temp" /\ stm[s].inner \in alive
       /\ stm[stm[s].inner].inner = None /\ ~Freeing(stm[s].inner)
       /\ \/ stm[stm[s].inner].enclosing = s
          \/ stm[stm[s].inner].enclosing = None /\ stm[stm[s].inner].in_free > 0
       /\ \A t \in Slots : stm[t].inner = stm[s].inner => t = s
  /\ stm[s].enclosing # None =>
       stm[stm[s].enclosing].inner = s \/ Freeing(s) \/ Closing(s)

Enclosure ==
  /\ \A s \in PSlots : stm[s].enclosing = None /\ stm[s].inner = None /\ ~stm[s].cookie
  /\ \A s \in Slots : Enclosing(s)

\* Only the innermost call is at its beginning, at the handle or at the context.
Shape ==
  \A k \in 1..Len(stack) :
    /\ stack[k].call = "create" => k = Len(stack)
    /\ stack[k].call = "free" /\ stack[k].pc \in {"enter", "dtor", "context"} => k = 1

\* No two calls are working on the same stream.
Distinct ==
  \A k, m \in 1..Len(stack) : Works(k) /\ Works(m) /\ stack[k].s = stack[m].s => k = m

\* What a call of _php_stream_free relies on, up to the last step.
Fine(f) ==
  /\ f.ctx # None => phase = "request"
  /\ f.pc # "context" =>
       /\ f.s \in alive
       /\ f.pc = "enter" => f.ctx = None
       /\ f.pc # "enter" => stm[f.s].in_free > 0
       /\ f.ctx # None => stm[f.s].ctx = f.ctx
       /\ f.s \in Slots /\ ("RSRC_DTOR" \in f.opts \/ f.pc \in {"dtor", "release", "pefree"})
            => ~HasEntry(f.s)
       /\ f.s \in PSlots /\ ("PERSISTENT" \notin f.opts \/ f.pc = "pefree") => ~Kept(f.s)
       /\ "PRESERVE_HANDLE" \in f.opts =>
            IF f.pc = "enter" /\ stm[f.s].cookie THEN HasEntry(f.s)
            ELSE stm[f.s].kind # "temp" /\ (stm[f.s].handle => stm[f.s].given)
       /\ f.pc \in {"release", "pefree"} =>
            stm[f.s].inner = None /\ (stm[f.s].handle => stm[f.s].given)

Calls == \A k \in 1..Len(stack) : stack[k].call = "free" => Fine(stack[k])

\* What the innermost call relies on at its beginning.
Enters ==
  Frame("enter") =>
    /\ Freeing(Top.s) => "IGNORE_ENCLOSING" \notin Top.opts
    /\ "IGNORE_ENCLOSING" \in Top.opts => ~stm[Top.s].cookie
    /\ "RSRC_DTOR" \in Top.opts /\ "IGNORE_ENCLOSING" \notin Top.opts
         => /\ "PRESERVE_HANDLE" \notin Top.opts
            /\ Freeing(Top.s) \/ \A s \in AllSlots : ~Freeing(s)
    /\ "RSRC_DTOR" \notin Top.opts \/ "IGNORE_ENCLOSING" \in Top.opts => ~IsInner(Top.s)

\* The call f will come to free what its stream t encloses.
Closes(f, t) ==
  /\ f.call = "free" /\ f.s = t
  /\ \/ f.pc \in {"unlist", "dtor"}
     \/ /\ f.pc = "enter" /\ stm[t].in_free = 0
        /\ f.opts \cap {"RSRC_DTOR", "PRESERVE_HANDLE"} = {}
WillClose(t) == \E k \in 1..Len(stack) : Closes(stack[k], t)
Awaits(i) == \E t \in Slots : stm[t].inner = i /\ WillClose(t)

\* The destructor of s has redirected to the enclosing stream.
Redirecting(s) ==
  /\ s \in Slots /\ stm[s].in_free = 1 /\ stm[s].enclosing = None /\ ~HasEntry(s)
  /\ Awaits(s) \/ Closing(s)

InFree == \A s \in AllSlots : stm[s].in_free > 0 => Freeing(s) \/ Redirecting(s)

\* Somebody will free a stream that is alive.
Owned ==
  \A s \in alive :
    /\ s \in Slots => HasEntry(s) \/ stm[s].in_free > 0 \/ Entering(s)
    /\ s \in PSlots => Kept(s) \/ Freeing(s) \/ Entering(s)

\* Every user of a context has a reference to it.
Users(c) == {s \in AllSlots : stm[s].ctx = c}
Holds(c) == IF c \in held THEN 1 ELSE 0
Drops(c) == IF Frame("context") /\ Top.ctx = c THEN 1 ELSE 0
References(list, at) == IF at = 0 THEN 0 ELSE list[at].refcount
Counted ==
  phase = "request" =>
    \A c \in Contexts : Cardinality(Users(c)) + Holds(c) + Drops(c) <= References(regular, ctxs[c])

Phases ==
  /\ phase # "request" => held = {}
  /\ phase \in {"between", "down"} => \A k \in 1..MaxId : regular[k] = None

ListInv == Resources /\ Keeping /\ Counted /\ Phases
CallInv == Shape /\ Distinct /\ Calls /\ Enters
StreamInv == Cleared /\ Enclosure /\ InFree /\ Owned
FreeInv == TypeInv /\ ListInv /\ CallInv /\ StreamInv
-----------------------------------------------------------------------------
(* The stack *)

\* What a step makes of the stack: g takes the place of the innermost call,
\* h is called by what is innermost then, or the innermost call returns.
Replaced(g) ==
  /\ Len(stack') = Len(stack) /\ stack' # <<>> /\ Head(stack') = g /\ stack'[1] = g
  /\ \A k \in 2..Len(stack) : stack'[k] = stack[k]
Pushed(h, g) ==
  /\ Len(stack') = Len(stack) + 1 /\ stack' # <<>> /\ Head(stack') = h
  /\ stack'[1] = h /\ stack'[2] = g
  /\ \A k \in 2..Len(stack) : stack'[k + 1] = stack[k]
Returned ==
  /\ Len(stack') = Len(stack) - 1
  /\ \A k \in 2..Len(stack) : stack'[k - 1] = stack[k]
  /\ stack' # <<>> => Head(stack') = stack[2] /\ Len(stack) > 1

LEMMA StackTop ==
  ASSUME TypeInv, stack # <<>>
  PROVE  /\ Len(stack) \in Nat \ {0} /\ Top = stack[1] /\ Top \in Frames
         /\ Pop \in Seq(Frames) /\ Len(Pop) = Len(stack) - 1
         /\ \A k \in 1..Len(Pop) : Pop[k] = stack[k + 1]
         /\ \A k \in 1..Len(stack) : stack[k] \in Frames
<1>1. stack \in Seq(Frames) /\ stack # <<>>
  BY DEF TypeInv
<1> HIDE DEF Frames
<1>2. Len(stack) \in Nat \ {0} /\ \A k \in 1..Len(stack) : stack[k] \in Frames
  BY <1>1
<1>3. Top = stack[1] /\ Top \in Frames
  BY <1>1, <1>2 DEF Top
<1>4. /\ Pop \in Seq(Frames) /\ Len(Pop) = Len(stack) - 1
      /\ \A k \in 1..Len(Pop) : Pop[k] = stack[k + 1]
  BY <1>1, <1>2 DEF Pop
<1> QED
  BY <1>2, <1>3, <1>4

\* One more element in front.
InFront(u, h, t, S) ==
  /\ u \in Seq(S) /\ Len(u) = Len(t) + 1 /\ u[1] = h /\ u # <<>> /\ Head(u) = h
  /\ \A k \in 1..Len(t) : u[k + 1] = t[k]

LEMMA PutInFront ==
  ASSUME NEW S, NEW t \in Seq(S), NEW h \in S
  PROVE  InFront(<<h>> \o t, h, t, S)
<1> DEFINE u == <<h>> \o t
<1>1. u \in Seq(S) /\ Len(u) = Len(t) + 1 /\ u[1] = h /\ \A k \in 1..Len(t) : u[k + 1] = t[k]
  OBVIOUS
<1> HIDE DEF u
<1>2. u # <<>> /\ Head(u) = h
  BY <1>1
<1>3. InFront(u, h, t, S)
  BY <1>1, <1>2 DEF InFront
<1> QED
  BY <1>3 DEF u

LEMMA Replacing ==
  ASSUME TypeInv, stack # <<>>, NEW g \in Frames, stack' = <<g>> \o Pop
  PROVE  stack' \in Seq(Frames) /\ Replaced(g)
<1>1. /\ Len(stack) \in Nat \ {0} /\ Pop \in Seq(Frames) /\ Len(Pop) = Len(stack) - 1
      /\ \A k \in 1..Len(Pop) : Pop[k] = stack[k + 1]
  BY StackTop
<1> DEFINE p == Pop
<1>2. stack' = <<g>> \o p
  OBVIOUS
<1> HIDE DEF p, Frames
<1>3. InFront(stack', g, p, Frames)
  BY <1>1, <1>2, PutInFront DEF p
<1>5. \A k \in 2..Len(stack) : k - 1 \in 1..Len(p) /\ (k - 1) + 1 = k
  BY <1>1 DEF p
<1> QED
  BY <1>1, <1>3, <1>5 DEF p, Replaced, InFront

LEMMA Pushing ==
  ASSUME TypeInv, stack # <<>>, NEW h \in Frames, NEW g \in Frames,
         stack' = <<h>> \o (<<g>> \o Pop)
  PROVE  stack' \in Seq(Frames) /\ Pushed(h, g)
<1>1. /\ Len(stack) \in Nat \ {0} /\ Pop \in Seq(Frames) /\ Len(Pop) = Len(stack) - 1
      /\ \A k \in 1..Len(Pop) : Pop[k] = stack[k + 1]
  BY StackTop
<1> DEFINE p == Pop
           t == <<g>> \o p
<1>2. stack' = <<h>> \o t
  OBVIOUS
<1>a. t = <<g>> \o p
  OBVIOUS
<1> HIDE DEF p, t, Frames
<1>b. InFront(t, g, p, Frames)
  BY <1>1, <1>a, PutInFront DEF p
<1>3. InFront(stack', h, t, Frames)
  <2>1. t \in Seq(Frames)
    BY <1>b DEF InFront
  <2> QED
    BY <1>2, <2>1, PutInFront
<1>5. \A k \in 2..Len(stack) :
        k - 1 \in 1..Len(p) /\ (k - 1) + 1 = k /\ k \in 1..Len(t)
  BY <1>1, <1>b DEF p, InFront
<1>6. Len(t) = Len(stack) /\ 1 \in 1..Len(t)
  BY <1>1, <1>b DEF p, InFront
<1>7. \A k \in 2..Len(stack) : stack'[k + 1] = stack[k]
  <2> SUFFICES ASSUME NEW k \in 2..Len(stack) PROVE stack'[k + 1] = stack[k]
    OBVIOUS
  <2>1. stack'[k + 1] = t[k]
    BY <1>3, <1>5 DEF InFront
  <2>2. t[k] = p[k - 1]
    <3>1. k - 1 \in 1..Len(p) /\ (k - 1) + 1 = k
      BY <1>5
    <3>2. t[(k - 1) + 1] = p[k - 1]
      BY <1>b, <3>1 DEF InFront
    <3> QED
      BY <3>1, <3>2
  <2>3. p[k - 1] = stack[k]
    BY <1>1, <1>5 DEF p
  <2> QED
    BY <2>1, <2>2, <2>3
<1>8. stack'[2] = g
  BY <1>b, <1>3, <1>6 DEF InFront
<1> QED
  BY <1>3, <1>6, <1>7, <1>8 DEF Pushed, InFront

\* The call that pushes is not changed.
LEMMA PushingOn ==
  ASSUME TypeInv, stack # <<>>, NEW h \in Frames, stack' = <<h>> \o stack
  PROVE  stack' \in Seq(Frames) /\ Pushed(h, Top)
<1>1. Top \in Frames /\ stack \in Seq(Frames)
  BY StackTop DEF TypeInv
<1> HIDE DEF Frames
<1>2. stack = <<Top>> \o Pop
  BY <1>1 DEF Top, Pop
<1> QED
  BY <1>1, <1>2, Pushing

LEMMA Returning ==
  ASSUME TypeInv, stack # <<>>, stack' = Pop
  PROVE  stack' \in Seq(Frames) /\ Returned
<1>1. /\ Len(stack) \in Nat \ {0} /\ Pop \in Seq(Frames) /\ Len(Pop) = Len(stack) - 1
      /\ \A k \in 1..Len(Pop) : Pop[k] = stack[k + 1]
  BY StackTop
<1> DEFINE p == Pop
<1>2. stack' = p
  OBVIOUS
<1> HIDE DEF p, Frames
<1>3. stack' \in Seq(Frames) /\ Len(stack') = Len(stack) - 1
  BY <1>1, <1>2 DEF p
<1>4. \A k \in 2..Len(stack) : k - 1 \in 1..Len(p) /\ (k - 1) + 1 = k
  BY <1>1 DEF p
<1>5. \A k \in 2..Len(stack) : stack'[k - 1] = stack[k]
  BY <1>1, <1>2, <1>4 DEF p
<1>6. ASSUME stack' # <<>> PROVE Head(stack') = stack[2] /\ Len(stack) > 1
  <2>1. Len(stack') > 0 /\ Head(stack') = stack'[1]
    BY <1>3, <1>6
  <2>2. Len(stack) > 1 /\ 2 \in 2..Len(stack)
    BY <1>1, <1>3, <2>1
  <2> QED
    BY <1>5, <2>1, <2>2
<1> QED
  BY <1>3, <1>5, <1>6 DEF Returned
-----------------------------------------------------------------------------
(* The calls before and after a step *)

\* The calls below the innermost one.
Under(f) == \E k \in 2..Len(stack) : stack[k] = f
Below(s) == \E f \in Frees : Under(f) /\ f.pc \in Work /\ f.s = s
WaitsBelow(t) == \E f \in Frees : Under(f) /\ f.pc = "unlist" /\ f.s = t

\* The innermost call is f.
Before(f) ==
  /\ \A x : Freeing(x) <=> Below(x) \/ (f.pc \in Work /\ f.s = x)
  /\ \A t : WillClose(t) <=> WaitsBelow(t) \/ Closes(f, t)
  /\ \A u \in Frees : Under(u) => u.pc \in {"unlist", "release", "pefree"} /\ Fine(u)
  /\ f.pc \in Work => ~Below(f.s)
  /\ Fine(f)

\* After the step h is innermost, and the calls of W have taken the place of it.
After(h, W) ==
  /\ stack' # <<>> /\ Head(stack') = h
  /\ \A x : Freeing(x)' <=> Below(x) \/ \E g \in W : g.pc \in Work /\ g.s = x
  /\ \A t : WillClose(t)' <=> WaitsBelow(t) \/ \E g \in W : Closes(g, t)'
  /\ (\A u \in Frees : Under(u) => Fine(u)') /\ (\A g \in W : Fine(g)') => Calls'

\* The innermost call has returned.
AfterReturn ==
  /\ ~Frame("enter")' /\ ~Frame("context")'
  /\ \A x : Freeing(x)' <=> Below(x)
  /\ \A t : WillClose(t)' <=> WaitsBelow(t)
  /\ (\A u \in Frees : Under(u) => Fine(u)') => Calls'

LEMMA FrameKinds ==
  ASSUME NEW f \in Frames
  PROVE  /\ f.call \in {"free", "create"}
         /\ f \in Frees <=> f.call = "free"
BY DEF Frames, Frees, Creates

LEMMA UnderWorks ==
  ASSUME TypeInv, Shape, stack # <<>>, NEW u \in Frees, Under(u)
  PROVE  u.call = "free" /\ u.pc \in {"unlist", "release", "pefree"} /\ u.s \in AllSlots
<1>1. PICK k \in 2..Len(stack) : stack[k] = u
  BY DEF Under
<1>2. Len(stack) \in Nat
  BY StackTop
<1>3. k \in 1..Len(stack) /\ k # 1
  BY <1>1, <1>2
<1>4. u.call = "free" /\ u.pc \in Places /\ u.s \in AllSlots
  BY DEF Frees
<1> QED
  BY <1>1, <1>3, <1>4 DEF Shape, Places

LEMMA BeforeStep ==
  ASSUME TypeInv, CallInv, stack # <<>>, NEW f \in Frees, f = Top
  PROVE  Before(f)
<1>1. /\ Len(stack) \in Nat \ {0} /\ stack[1] = f
      /\ \A k \in 1..Len(stack) : stack[k] \in Frames
  BY StackTop
<1>2. \A k \in 1..Len(stack) : k = 1 \/ k \in 2..Len(stack)
  BY <1>1
<1>3. \A k \in 2..Len(stack) : k \in 1..Len(stack) /\ k # 1
  BY <1>1
<1>4. f.call = "free"
  BY DEF Frees
<1>5. \A k \in 2..Len(stack) : stack[k].call = "free" => stack[k] \in Frees /\ Under(stack[k])
  BY <1>1, <1>3, FrameKinds DEF Under
<1>6. \A u \in Frees : Under(u) => u.call = "free" /\ u.pc \in {"unlist", "release", "pefree"} /\ Fine(u)
  <2> SUFFICES ASSUME NEW u \in Frees, Under(u)
               PROVE  u.call = "free" /\ u.pc \in {"unlist", "release", "pefree"} /\ Fine(u)
    OBVIOUS
  <2>1. u.call = "free" /\ u.pc \in {"unlist", "release", "pefree"}
    BY UnderWorks DEF CallInv
  <2>2. PICK k \in 2..Len(stack) : stack[k] = u
    BY DEF Under
  <2> QED
    BY <1>3, <2>1, <2>2 DEF CallInv, Calls
<1>7. ASSUME NEW x PROVE Freeing(x) <=> Below(x) \/ (f.pc \in Work /\ f.s = x)
  <2>1. Freeing(x) => Below(x) \/ (f.pc \in Work /\ f.s = x)
    BY <1>1, <1>2, <1>5 DEF Freeing, Works, Below
  <2>2. Below(x) => Freeing(x)
    BY <1>3, <1>6 DEF Freeing, Works, Below, Under
  <2>3. f.pc \in Work /\ f.s = x => Freeing(x)
    BY <1>1, <1>4 DEF Freeing, Works
  <2> QED
    BY <2>1, <2>2, <2>3
<1>8. ASSUME NEW t PROVE WillClose(t) <=> WaitsBelow(t) \/ Closes(f, t)
  <2>1. \A u \in Frees : Under(u) => (Closes(u, t) <=> u.pc = "unlist" /\ u.s = t)
    BY <1>6 DEF Closes
  <2>2. WillClose(t) => WaitsBelow(t) \/ Closes(f, t)
    <3> SUFFICES ASSUME NEW k \in 1..Len(stack), Closes(stack[k], t)
                 PROVE  WaitsBelow(t) \/ Closes(f, t)
      BY DEF WillClose
    <3>1. CASE k = 1
      BY <1>1, <3>1
    <3>2. CASE k \in 2..Len(stack)
      <4>1. stack[k].call = "free"
        BY DEF Closes
      <4> QED
        BY <1>5, <2>1, <3>2, <4>1 DEF WaitsBelow
    <3> QED
      BY <1>2, <3>1, <3>2
  <2>3. WaitsBelow(t) => WillClose(t)
    BY <1>3, <2>1 DEF WaitsBelow, WillClose, Under
  <2>4. Closes(f, t) => WillClose(t)
    BY <1>1 DEF WillClose
  <2> QED
    BY <2>2, <2>3, <2>4
<1>9. f.pc \in Work => ~Below(f.s)
  <2> SUFFICES ASSUME f.pc \in Work, NEW u \in Frees, Under(u), u.pc \in Work, u.s = f.s PROVE FALSE
    BY DEF Below
  <2>1. PICK k \in 2..Len(stack) : stack[k] = u
    BY DEF Under
  <2>2. Works(k) /\ Works(1) /\ k # 1 /\ k \in 1..Len(stack) /\ 1 \in 1..Len(stack)
    BY <1>1, <1>3, <1>4, <1>6, <2>1 DEF Works
  <2> QED
    BY <1>1, <2>1, <2>2 DEF CallInv, Distinct
<1>10. Fine(f)
  BY <1>1, <1>4 DEF CallInv, Calls
<1> QED
  BY <1>6, <1>7, <1>8, <1>9, <1>10 DEF Before

\* What is under the innermost call after a step that keeps it.
LEMMA AfterReplacing ==
  ASSUME TypeInv, CallInv, stack # <<>>, NEW g \in Frees, stack' = <<g>> \o Pop,
         g.pc \in Work => ~Below(g.s)
  PROVE  stack' \in Seq(Frames) /\ Shape' /\ Distinct' /\ After(g, {g})
<1>0. g \in Frames /\ g.call = "free"
  BY DEF Frames, Frees
<1>1. stack' \in Seq(Frames) /\ Replaced(g)
  BY <1>0, Replacing
<1>2. /\ Len(stack) \in Nat \ {0} /\ \A k \in 1..Len(stack) : stack[k] \in Frames
      /\ \A k \in 2..Len(stack) : k \in 1..Len(stack) /\ k # 1
      /\ \A k \in 1..Len(stack) : k = 1 \/ k \in 2..Len(stack)
  BY StackTop
<1>3. /\ Len(stack') = Len(stack) /\ stack' # <<>> /\ Head(stack') = g /\ stack'[1] = g
      /\ \A k \in 2..Len(stack) : stack'[k] = stack[k]
  BY <1>1 DEF Replaced
<1>4. \A k \in 2..Len(stack) :
        /\ stack[k].call = "create" => k = Len(stack)
        /\ stack[k].call = "free" => /\ stack[k] \in Frees /\ Under(stack[k])
                                     /\ stack[k].pc \in {"unlist", "release", "pefree"}
  BY <1>2, FrameKinds, UnderWorks DEF CallInv, Shape, Under
<1>5. \A u \in Frees : Under(u) =>
        u.call = "free" /\ u.pc \in {"unlist", "release", "pefree"}
  BY UnderWorks DEF CallInv, Frames
<1>6. Shape'
  BY <1>0, <1>2, <1>3, <1>4 DEF Shape
<1>7. Distinct'
  <2> SUFFICES ASSUME NEW k \in 1..Len(stack), NEW m \in 1..Len(stack),
                      Works(k)', Works(m)', stack'[k].s = stack'[m].s
               PROVE  k = m
    BY <1>3 DEF Distinct
  <2>1. CASE k = 1 /\ m \in 2..Len(stack)
    BY <1>3, <1>4, <2>1 DEF Works, Below
  <2>2. CASE m = 1 /\ k \in 2..Len(stack)
    BY <1>3, <1>4, <2>2 DEF Works, Below
  <2>3. CASE k \in 2..Len(stack) /\ m \in 2..Len(stack)
    BY <1>2, <1>3, <2>3 DEF Works, CallInv, Distinct
  <2> QED
    BY <1>2, <2>1, <2>2, <2>3
<1>8. ASSUME NEW x PROVE Freeing(x)' <=> Below(x) \/ (g.pc \in Work /\ g.s = x)
  <2>1. Freeing(x)' => Below(x) \/ (g.pc \in Work /\ g.s = x)
    BY <1>2, <1>3, <1>4 DEF Freeing, Works, Below
  <2>2. Below(x) => Freeing(x)'
    BY <1>2, <1>3, <1>5 DEF Freeing, Works, Below, Under
  <2>3. g.pc \in Work /\ g.s = x => Freeing(x)'
    BY <1>0, <1>2, <1>3 DEF Freeing, Works
  <2> QED
    BY <2>1, <2>2, <2>3
<1>9. ASSUME NEW t PROVE WillClose(t)' <=> WaitsBelow(t) \/ Closes(g, t)'
  <2>1. \A u \in Frees : Under(u) => (Closes(u, t)' <=> u.pc = "unlist" /\ u.s = t)
    BY <1>5 DEF Closes
  <2>2. WillClose(t)' => WaitsBelow(t) \/ Closes(g, t)'
    <3> SUFFICES ASSUME NEW k \in 1..Len(stack), NEW u, u = stack'[k], Closes(u, t)'
                 PROVE  WaitsBelow(t) \/ Closes(g, t)'
      BY <1>3 DEF WillClose
    <3>1. CASE k = 1
      BY <1>3, <3>1
    <3>2. CASE k \in 2..Len(stack)
      <4>1. u.call = "free" /\ u = stack[k]
        BY <1>3, <3>2 DEF Closes
      <4> QED
        BY <1>4, <2>1, <3>2, <4>1 DEF WaitsBelow
    <3> QED
      BY <1>2, <3>1, <3>2
  <2>3. ASSUME WaitsBelow(t) PROVE WillClose(t)'
    <3>1. PICK u \in Frees : Under(u) /\ u.pc = "unlist" /\ u.s = t
      BY <2>3 DEF WaitsBelow
    <3>2. PICK k \in 2..Len(stack) : stack[k] = u
      BY <3>1 DEF Under
    <3> QED
      BY <1>2, <1>3, <2>1, <3>1, <3>2 DEF WillClose
  <2>4. Closes(g, t)' => WillClose(t)'
    BY <1>2, <1>3 DEF WillClose
  <2> QED
    BY <2>2, <2>3, <2>4
<1>10. ASSUME \A u \in Frees : Under(u) => Fine(u)', Fine(g)' PROVE Calls'
  <2> SUFFICES ASSUME NEW k \in 1..Len(stack), NEW u, u = stack'[k], u.call = "free"
               PROVE  Fine(u)'
    BY <1>3 DEF Calls
  <2>1. CASE k = 1
    BY <1>3, <1>10, <2>1
  <2>2. CASE k \in 2..Len(stack)
    BY <1>3, <1>4, <1>10, <2>2
  <2> QED
    BY <1>2, <2>1, <2>2
<1>11. After(g, {g})
  <2>1. \A x : Freeing(x)' <=> Below(x) \/ \E u \in {g} : u.pc \in Work /\ u.s = x
    BY <1>8
  <2>2. \A t : WillClose(t)' <=> WaitsBelow(t) \/ \E u \in {g} : Closes(u, t)'
    BY <1>9
  <2>3. (\A u \in Frees : Under(u) => Fine(u)') /\ (\A u \in {g} : Fine(u)') => Calls'
    BY <1>10
  <2> QED
    BY <1>3, <2>1, <2>2, <2>3 DEF After
<1> QED
  BY <1>1, <1>6, <1>7, <1>11

LEMMA AfterPushing ==
  ASSUME TypeInv, CallInv, stack # <<>>, NEW g \in Frees, NEW h \in Frees,
         stack' = <<h>> \o (<<g>> \o Pop), h.pc = "enter",
         g.pc \in {"unlist", "release", "pefree"}, ~Below(g.s)
  PROVE  stack' \in Seq(Frames) /\ Shape' /\ Distinct' /\ After(h, {g, h})
<1>0. /\ g \in Frames /\ g.call = "free" /\ g.pc \in Work
      /\ h \in Frames /\ h.call = "free" /\ h.pc \notin Work
  BY DEF Frames, Frees, Work
<1>1. stack' \in Seq(Frames) /\ Pushed(h, g)
  BY <1>0, Pushing
<1>2. /\ Len(stack) \in Nat \ {0} /\ \A k \in 1..Len(stack) : stack[k] \in Frames
      /\ \A k \in 2..Len(stack) : k \in 1..Len(stack) /\ k # 1
  BY StackTop
<1>a. /\ \A k \in 1..Len(stack) + 1 :
           k = 1 \/ k = 2 \/ \E j \in 2..Len(stack) : k = j + 1
      /\ 1 \in 1..Len(stack) + 1 /\ 2 \in 1..Len(stack) + 1
      /\ \A j \in 2..Len(stack) : j + 1 \in 1..Len(stack) + 1
  <2>1. \A k \in 1..Len(stack) + 1 : k = 1 \/ k = 2 \/ (k - 1 \in 2..Len(stack) /\ k = (k - 1) + 1)
    BY <1>2
  <2> QED
    BY <1>2, <2>1
<1>3. /\ Len(stack') = Len(stack) + 1 /\ stack' # <<>> /\ Head(stack') = h
      /\ stack'[1] = h /\ stack'[2] = g
      /\ \A k \in 2..Len(stack) : stack'[k + 1] = stack[k]
  BY <1>1 DEF Pushed
<1>4. \A k \in 2..Len(stack) :
        /\ stack[k].call = "create" => k = Len(stack)
        /\ stack[k].call = "free" => /\ stack[k] \in Frees /\ Under(stack[k])
                                     /\ stack[k].pc \in {"unlist", "release", "pefree"}
  BY <1>2, FrameKinds, UnderWorks DEF CallInv, Shape, Under
<1>5. \A u \in Frees : Under(u) =>
        u.call = "free" /\ u.pc \in {"unlist", "release", "pefree"}
  BY UnderWorks DEF CallInv, Frames
<1>6. Shape'
  <2> SUFFICES ASSUME NEW k \in 1..Len(stack) + 1
               PROVE  /\ stack'[k].call = "create" => k = Len(stack) + 1
                      /\ stack'[k].call = "free" /\ stack'[k].pc \in {"enter", "dtor", "context"}
                           => k = 1
    BY <1>3 DEF Shape
  <2>1. CASE \E j \in 2..Len(stack) : k = j + 1
    BY <1>3, <1>4, <2>1
  <2>2. CASE k = 1 \/ k = 2
    BY <1>0, <1>3, <2>2
  <2> QED
    BY <1>a, <2>1, <2>2
<1>7. Distinct'
  <2> SUFFICES ASSUME NEW k \in 1..Len(stack) + 1, NEW m \in 1..Len(stack) + 1,
                      Works(k)', Works(m)', stack'[k].s = stack'[m].s
               PROVE  k = m
    BY <1>3 DEF Distinct
  <2>1. k # 1 /\ m # 1
    BY <1>0, <1>3 DEF Works
  <2>2. CASE k = 2 /\ \E j \in 2..Len(stack) : m = j + 1
    BY <1>3, <1>4, <2>2 DEF Works, Below
  <2>3. CASE m = 2 /\ \E j \in 2..Len(stack) : k = j + 1
    BY <1>3, <1>4, <2>3 DEF Works, Below
  <2>4. ASSUME NEW i \in 2..Len(stack), NEW j \in 2..Len(stack), k = i + 1, m = j + 1 PROVE k = m
    <3>1. Works(i) /\ Works(j) /\ stack[i].s = stack[j].s
      BY <1>3, <2>4 DEF Works
    <3>2. i = j
      BY <1>2, <3>1 DEF CallInv, Distinct
    <3> QED
      BY <2>4, <3>2
  <2> QED
    BY <1>a, <2>1, <2>2, <2>3, <2>4
<1>8. ASSUME NEW x PROVE Freeing(x)' <=> Below(x) \/ g.s = x
  <2>1. ASSUME NEW k \in 1..Len(stack) + 1, Works(k)', stack'[k].s = x PROVE Below(x) \/ g.s = x
    <3>1. CASE k = 1
      BY <1>0, <1>3, <2>1, <3>1 DEF Works
    <3>2. CASE k = 2
      BY <1>3, <2>1, <3>2
    <3>3. CASE \E j \in 2..Len(stack) : k = j + 1
      BY <1>3, <1>4, <2>1, <3>3 DEF Works, Below
    <3> QED
      BY <1>a, <3>1, <3>2, <3>3
  <2>2. ASSUME NEW u \in Frees, Under(u), u.s = x PROVE Freeing(x)'
    <3>1. PICK j \in 2..Len(stack) : stack[j] = u
      BY <2>2 DEF Under
    <3>2. stack'[j + 1] = u /\ j + 1 \in 1..Len(stack')
      BY <1>3, <1>a, <3>1
    <3> QED
      BY <1>5, <2>2, <3>2 DEF Freeing, Works, Work
  <2>3. g.s = x => Freeing(x)'
    BY <1>0, <1>a, <1>3 DEF Freeing, Works
  <2> QED
    BY <1>3, <2>1, <2>2, <2>3 DEF Freeing, Below
<1>9. ASSUME NEW t PROVE WillClose(t)' <=> WaitsBelow(t) \/ Closes(g, t)' \/ Closes(h, t)'
  <2>1. \A u \in Frees : Under(u) => (Closes(u, t)' <=> u.pc = "unlist" /\ u.s = t)
    BY <1>5 DEF Closes
  <2>2. ASSUME NEW k \in 1..Len(stack) + 1, NEW u, u = stack'[k], Closes(u, t)'
        PROVE  WaitsBelow(t) \/ Closes(g, t)' \/ Closes(h, t)'
    <3>1. CASE k = 1 \/ k = 2
      BY <1>3, <2>2, <3>1
    <3>2. CASE \E j \in 2..Len(stack) : k = j + 1
      <4>1. PICK j \in 2..Len(stack) : u = stack[j]
        BY <1>3, <2>2, <3>2
      <4>2. u.call = "free"
        BY <2>2 DEF Closes
      <4> QED
        BY <1>4, <2>1, <2>2, <4>1, <4>2 DEF WaitsBelow
    <3> QED
      BY <1>a, <3>1, <3>2
  <2>3. ASSUME WaitsBelow(t) PROVE WillClose(t)'
    <3>1. PICK u \in Frees : Under(u) /\ u.pc = "unlist" /\ u.s = t
      BY <2>3 DEF WaitsBelow
    <3>2. PICK j \in 2..Len(stack) : stack[j] = u
      BY <3>1 DEF Under
    <3>3. stack'[j + 1] = u /\ j + 1 \in 1..Len(stack')
      BY <1>3, <1>a, <3>2
    <3> QED
      BY <2>1, <3>1, <3>3 DEF WillClose
  <2>4. Closes(g, t)' \/ Closes(h, t)' => WillClose(t)'
    BY <1>a, <1>3 DEF WillClose
  <2> QED
    BY <1>3, <2>2, <2>3, <2>4 DEF WillClose
<1>10. ASSUME \A u \in Frees : Under(u) => Fine(u)', Fine(g)', Fine(h)' PROVE Calls'
  <2> SUFFICES ASSUME NEW k \in 1..Len(stack) + 1, NEW u, u = stack'[k], u.call = "free"
               PROVE  Fine(u)'
    BY <1>3 DEF Calls
  <2>1. CASE k = 1 \/ k = 2
    BY <1>3, <1>10, <2>1
  <2>2. CASE \E j \in 2..Len(stack) : k = j + 1
    BY <1>3, <1>4, <1>10, <2>2
  <2> QED
    BY <1>a, <2>1, <2>2
<1>11. After(h, {g, h})
  <2>1. \A x : Freeing(x)' <=> Below(x) \/ \E u \in {g, h} : u.pc \in Work /\ u.s = x
    BY <1>0, <1>8
  <2>2. \A t : WillClose(t)' <=> WaitsBelow(t) \/ \E u \in {g, h} : Closes(u, t)'
    BY <1>9
  <2>3. (\A u \in Frees : Under(u) => Fine(u)') /\ (\A u \in {g, h} : Fine(u)') => Calls'
    BY <1>10
  <2> QED
    BY <1>3, <2>1, <2>2, <2>3 DEF After
<1> QED
  BY <1>1, <1>6, <1>7, <1>11

LEMMA AfterReturning ==
  ASSUME TypeInv, CallInv, stack # <<>>, stack' = Pop
  PROVE  stack' \in Seq(Frames) /\ Shape' /\ Distinct' /\ AfterReturn
<1>1. stack' \in Seq(Frames) /\ Returned
  BY Returning
<1>2. /\ Len(stack) \in Nat \ {0} /\ \A k \in 1..Len(stack) : stack[k] \in Frames
      /\ \A k \in 2..Len(stack) : k \in 1..Len(stack) /\ k # 1
  BY StackTop
<1>3. /\ Len(stack') = Len(stack) - 1
      /\ \A k \in 2..Len(stack) : stack'[k - 1] = stack[k]
      /\ stack' # <<>> => Head(stack') = stack[2] /\ Len(stack) > 1
  BY <1>1 DEF Returned
<1>a. /\ \A k \in 1..Len(stack) - 1 : k + 1 \in 2..Len(stack) /\ stack'[k] = stack[k + 1]
      /\ \A j \in 2..Len(stack) : j - 1 \in 1..Len(stack) - 1
  <2>1. \A k \in 1..Len(stack) - 1 : k + 1 \in 2..Len(stack) /\ (k + 1) - 1 = k
    BY <1>2
  <2>2. \A j \in 2..Len(stack) : j - 1 \in 1..Len(stack) - 1
    BY <1>2
  <2>3. \A k \in 1..Len(stack) - 1 : stack'[(k + 1) - 1] = stack[k + 1]
    BY <1>3, <2>1
  <2> QED
    BY <2>1, <2>2, <2>3
<1>4. \A k \in 2..Len(stack) :
        /\ stack[k].call = "create" => k = Len(stack)
        /\ stack[k].call = "free" => /\ stack[k] \in Frees /\ Under(stack[k])
                                     /\ stack[k].pc \in {"unlist", "release", "pefree"}
  BY <1>2, FrameKinds, UnderWorks DEF CallInv, Shape, Under
<1>5. \A u \in Frees : Under(u) =>
        u.call = "free" /\ u.pc \in {"unlist", "release", "pefree"}
  BY UnderWorks DEF CallInv, Frames
<1>6. Shape'
  <2> SUFFICES ASSUME NEW k \in 1..Len(stack) - 1
               PROVE  /\ stack'[k].call = "create" => k = Len(stack) - 1
                      /\ stack'[k].call = "free" => stack'[k].pc \notin {"enter", "dtor", "context"}
    BY <1>3 DEF Shape
  <2>1. k + 1 \in 2..Len(stack) /\ stack'[k] = stack[k + 1]
    BY <1>a
  <2> QED
    BY <1>2, <1>4, <2>1
<1>7. Distinct'
  <2> SUFFICES ASSUME NEW k \in 1..Len(stack) - 1, NEW m \in 1..Len(stack) - 1,
                      Works(k)', Works(m)', stack'[k].s = stack'[m].s
               PROVE  k = m
    BY <1>3 DEF Distinct
  <2>1. k + 1 \in 1..Len(stack) /\ stack'[k] = stack[k + 1]
    BY <1>2, <1>a
  <2>2. m + 1 \in 1..Len(stack) /\ stack'[m] = stack[m + 1]
    BY <1>2, <1>a
  <2>3. k + 1 = m + 1
    BY <2>1, <2>2 DEF Works, CallInv, Distinct
  <2> QED
    BY <2>3
<1>8. ASSUME NEW x PROVE Freeing(x)' <=> Below(x)
  <2>1. ASSUME NEW k \in 1..Len(stack) - 1, Works(k)', stack'[k].s = x PROVE Below(x)
    <3>1. k + 1 \in 2..Len(stack) /\ stack'[k] = stack[k + 1]
      BY <1>a
    <3> QED
      BY <1>4, <2>1, <3>1 DEF Works, Below
  <2>2. ASSUME NEW u \in Frees, Under(u), u.s = x PROVE Freeing(x)'
    <3>1. PICK j \in 2..Len(stack) : stack[j] = u
      BY <2>2 DEF Under
    <3>2. stack'[j - 1] = u /\ j - 1 \in 1..Len(stack')
      BY <1>3, <1>a, <3>1
    <3> QED
      BY <1>5, <2>2, <3>2 DEF Freeing, Works, Work
  <2> QED
    BY <1>3, <2>1, <2>2 DEF Freeing, Below
<1>9. ASSUME NEW t PROVE WillClose(t)' <=> WaitsBelow(t)
  <2>1. \A u \in Frees : Under(u) => (Closes(u, t)' <=> u.pc = "unlist" /\ u.s = t)
    BY <1>5 DEF Closes
  <2>2. ASSUME NEW k \in 1..Len(stack) - 1, NEW u, u = stack'[k], Closes(u, t)' PROVE WaitsBelow(t)
    <3>1. k + 1 \in 2..Len(stack) /\ u = stack[k + 1]
      BY <1>a, <2>2
    <3>2. u.call = "free"
      BY <2>2 DEF Closes
    <3> QED
      BY <1>4, <2>1, <2>2, <3>1, <3>2 DEF WaitsBelow
  <2>3. ASSUME WaitsBelow(t) PROVE WillClose(t)'
    <3>1. PICK u \in Frees : Under(u) /\ u.pc = "unlist" /\ u.s = t
      BY <2>3 DEF WaitsBelow
    <3>2. PICK j \in 2..Len(stack) : stack[j] = u
      BY <3>1 DEF Under
    <3>3. stack'[j - 1] = u /\ j - 1 \in 1..Len(stack')
      BY <1>3, <1>a, <3>2
    <3> QED
      BY <2>1, <3>1, <3>3 DEF WillClose
  <2> QED
    BY <1>3, <2>2, <2>3 DEF WillClose
<1>10. ASSUME \A u \in Frees : Under(u) => Fine(u)' PROVE Calls'
  <2> SUFFICES ASSUME NEW k \in 1..Len(stack) - 1, NEW u, u = stack'[k], u.call = "free"
               PROVE  Fine(u)'
    BY <1>3 DEF Calls
  <2>1. k + 1 \in 2..Len(stack) /\ u = stack[k + 1]
    BY <1>a
  <2> QED
    BY <1>4, <1>10, <2>1
<1>11. ~Frame("enter")' /\ ~Frame("context")'
  <2> SUFFICES ASSUME stack' # <<>>, stack[2].call = "free"
               PROVE  stack[2].pc \notin {"enter", "context"}
    BY <1>3 DEF Frame, Top
  <2>1. 2 \in 2..Len(stack)
    BY <1>2, <1>3
  <2> QED
    BY <1>4, <2>1
<1> QED
  BY <1>1, <1>6, <1>7, <1>8, <1>9, <1>10, <1>11 DEF AfterReturn

\* Between two calls nothing is being freed.
Idle ==
  /\ \A x : ~Freeing(x)
  /\ \A t : ~WillClose(t)
  /\ ~Frame("enter") /\ ~Frame("context")
Started(h) ==
  /\ stack' # <<>> /\ Head(stack') = h
  /\ \A x : ~Freeing(x)'
  /\ \A t : WillClose(t)' <=> Closes(h, t)'
  /\ Fine(h)' => Calls'

LEMMA IdleBetween ==
  ASSUME stack = <<>>
  PROVE  Idle /\ CallInv
<1>1. Len(stack) = 0
  OBVIOUS
<1>2. \A k : k \notin 1..Len(stack)
  BY <1>1
<1>3. Shape /\ Distinct /\ Calls
  BY <1>2 DEF Shape, Distinct, Calls
<1>4. \A x : ~Freeing(x)
  BY <1>2 DEF Freeing
<1>5. \A t : ~WillClose(t)
  BY <1>2 DEF WillClose
<1>6. \A pc : ~Frame(pc)
  BY DEF Frame
<1> QED
  BY <1>3, <1>4, <1>5, <1>6 DEF Idle, CallInv, Enters

LEMMA IdleFree ==
  ASSUME InFree, Idle
  PROVE  \A s \in AllSlots : stm[s].in_free > 0 => FALSE
BY DEF InFree, Idle, Redirecting, Awaits, Closing, Entering

LEMMA StillIdle ==
  ASSUME stack' = <<>>
  PROVE  stack' \in Seq(Frames) /\ Idle' /\ CallInv'
<1>1. Len(stack') = 0 /\ stack' \in Seq(Frames)
  OBVIOUS
<1>2. \A k : k \notin 1..Len(stack')
  BY <1>1
<1>3. Shape' /\ Distinct' /\ Calls'
  BY <1>2 DEF Shape, Distinct, Calls
<1>4. \A x : ~Freeing(x)'
  BY <1>2 DEF Freeing
<1>5. \A t : ~WillClose(t)'
  BY <1>2 DEF WillClose
<1>6. ~Frame("enter")' /\ ~Frame("context")'
  BY DEF Frame
<1> QED
  BY <1>1, <1>3, <1>4, <1>5, <1>6 DEF Idle, CallInv, Enters

LEMMA Starting ==
  ASSUME NEW h \in Frees, h.pc = "enter",
         \/ stack' = <<h>>
         \/ \E r \in Creates : stack' = <<h, r>>
  PROVE  stack' \in Seq(Frames) /\ Shape' /\ Distinct' /\ Started(h)
<1>1. h \in Frames /\ h.call = "free" /\ h.pc \notin Work
  BY DEF Frames, Frees, Work
<1>2. /\ stack' \in Seq(Frames) /\ stack' # <<>> /\ Head(stack') = h
      /\ \A k \in 1..Len(stack') : \/ k = 1 /\ stack'[k] = h
                                   \/ k = Len(stack') /\ stack'[k].call = "create"
      /\ 1 \in 1..Len(stack') /\ stack'[1] = h
  <2>1. CASE stack' = <<h>>
    BY <1>1, <2>1
  <2>2. CASE \E r \in Creates : stack' = <<h, r>>
    <3>1. PICK r \in Creates : stack' = <<h, r>>
      BY <2>2
    <3>2. r \in Frames /\ r.call = "create"
      BY DEF Frames, Creates
    <3> HIDE DEF Frames
    <3> QED
      BY <1>1, <3>1, <3>2
  <2> QED
    BY <2>1, <2>2
<1>3. Shape'
  BY <1>1, <1>2 DEF Shape
<1>4. \A k \in 1..Len(stack') : ~Works(k)'
  BY <1>1, <1>2 DEF Works
<1>5. Distinct' /\ \A x : ~Freeing(x)'
  BY <1>4 DEF Distinct, Freeing
<1>6. ASSUME NEW t PROVE WillClose(t)' <=> Closes(h, t)'
  <2>1. ASSUME NEW k \in 1..Len(stack'), NEW u, u = stack'[k], Closes(u, t)' PROVE Closes(h, t)'
    <3>1. u.call = "free"
      BY <2>1 DEF Closes
    <3>2. u = h
      BY <1>2, <2>1, <3>1
    <3> QED
      BY <2>1, <3>2
  <2>2. Closes(h, t)' => WillClose(t)'
    BY <1>2 DEF WillClose
  <2> QED
    BY <2>1, <2>2 DEF WillClose
<1>7. ASSUME Fine(h)' PROVE Calls'
  <2> SUFFICES ASSUME NEW k \in 1..Len(stack'), NEW u, u = stack'[k], u.call = "free" PROVE Fine(u)'
    BY DEF Calls
  <2>1. u = h
    BY <1>2
  <2> QED
    BY <1>7, <2>1
<1> QED
  BY <1>2, <1>3, <1>5, <1>6, <1>7 DEF Started
-----------------------------------------------------------------------------
(* The resource list *)

\* The entries of the list, whatever the references.
SameEntries(list) ==
  /\ list \in [1..MaxId -> Entries \cup {None}]
  /\ \A k \in 1..MaxId : (list[k] = None <=> regular[k] = None)
                           /\ (list[k] # None => list[k].ptr = regular[k].ptr)

\* What dropping a reference to e does.
Dropped(list, e) ==
  /\ regular' \in [1..MaxId -> Entries \cup {None}] /\ ctxs' \in [Contexts -> 0..MaxId]
  /\ Resources'
  /\ \A x \in Slots : HasEntry(x)' => HasEntry(x)
  /\ \A x \in Slots : HasEntry(x) => HasEntry(x)' \/ (x = e.ptr /\ LastRef(e))
  /\ LastRef(e) /\ e.ptr \in Slots => ~HasEntry(e.ptr)'
  /\ \A c \in Contexts :
       References(regular', ctxs'[c]) = References(list, ctxs[c]) - (IF c = e.ptr THEN 1 ELSE 0)
  /\ \A k \in 1..MaxId : regular[k] = None => regular'[k] = None

LEMMA EntryFacts ==
  ASSUME NEW e \in Entries
  PROVE  e # None /\ e.ptr \in AllSlots \cup Contexts /\ e.refcount \in Nat \ {0}
<1>1. e \in [ptr : Slots \cup PSlots \cup Contexts, refcount : Nat]
  BY DEF Entries, AllSlots
<1>2. e # None
  BY <1>1, LifecycleAssumption
<1> QED
  BY <1>2 DEF Entries

LEMMA Deleting ==
  ASSUME TypeInv, Resources, NEW list, SameEntries(list), NEW id \in 1..MaxId, list[id] # None,
         NEW calls, Delete(list, id, calls), UNCHANGED <<alive, nextId>>,
         \A x \in alive : stm'[x].rsrc = stm[x].rsrc
  PROVE  Dropped(list, list[id])
<1> DEFINE e == list[id]
           left == IF LastRef(e) THEN None ELSE [e EXCEPT !.refcount = @ - 1]
<1>1. e \in Entries /\ e.ptr \in AllSlots \cup Contexts /\ e.refcount \in Nat \ {0}
  BY EntryFacts DEF SameEntries
<1>2. ~LastRef(e) => left \in Entries /\ left.ptr = e.ptr /\ left.refcount = e.refcount - 1 /\ left # None
  <2>1. ~LastRef(e) => left \in Entries /\ left.ptr = e.ptr /\ left.refcount = e.refcount - 1
    BY <1>1 DEF LastRef, Entries
  <2> QED
    BY <2>1, EntryFacts
<1>3. /\ regular' = [list EXCEPT ![id] = left]
      /\ ctxs' = IF LastRef(e) /\ e.ptr \in Contexts THEN [ctxs EXCEPT ![e.ptr] = 0] ELSE ctxs
  BY DEF Delete
<1>4. LastRef(e) => left = None
  OBVIOUS
<1>a. e = list[id]
  OBVIOUS
<1> HIDE DEF left, e
<1>5. /\ regular' \in [1..MaxId -> Entries \cup {None}]
      /\ regular'[id] = left /\ \A k \in 1..MaxId : k # id => regular'[k] = list[k]
  BY <1>2, <1>3, <1>4 DEF SameEntries
<1>6. ctxs' \in [Contexts -> 0..MaxId]
  BY <1>3, LifecycleAssumption DEF TypeInv
<1>7. \A k \in 1..MaxId : regular'[k] # None => regular[k] # None /\ regular'[k].ptr = regular[k].ptr
  BY <1>2, <1>4, <1>5, <1>a DEF SameEntries
<1>8. regular[id] # None /\ regular[id].ptr = e.ptr
  BY <1>a DEF SameEntries
<1>9. \A c \in Contexts : ctxs'[c] = IF LastRef(e) /\ c = e.ptr THEN 0 ELSE ctxs[c]
  BY <1>3 DEF TypeInv
<1>10. Resources'
  <2>1. ASSUME NEW k \in 1..MaxId, regular'[k] # None
        PROVE  /\ k < nextId
               /\ regular'[k].ptr \in Slots => regular'[k].ptr \in alive /\ stm'[regular'[k].ptr].rsrc = k
               /\ regular'[k].ptr \in Contexts => ctxs'[regular'[k].ptr] = k
    <3>1. regular[k] # None /\ regular'[k].ptr = regular[k].ptr
      BY <1>7, <2>1
    <3>2. LastRef(e) /\ regular[k].ptr \in Contexts => regular[k].ptr # e.ptr
      BY <1>4, <1>5, <1>8, <2>1, <3>1 DEF Resources
    <3> QED
      BY <1>9, <3>1, <3>2 DEF Resources
  <2>2. ASSUME NEW x \in alive, IsListed(stm[x].rsrc)' PROVE regular'[stm'[x].rsrc].ptr = x
    <3>0. stm'[x].rsrc = stm[x].rsrc
      OBVIOUS
    <3>1. stm[x].rsrc \in 1..MaxId /\ regular'[stm[x].rsrc] # None
      BY <1>5, <2>2, <3>0 DEF IsListed
    <3>2. regular[stm[x].rsrc] # None /\ regular'[stm[x].rsrc].ptr = regular[stm[x].rsrc].ptr
      BY <1>7, <3>1
    <3>3. IsListed(stm[x].rsrc)
      BY <3>1, <3>2 DEF IsListed, TypeInv
    <3> QED
      BY <3>0, <3>2, <3>3 DEF Resources
  <2>3. ASSUME NEW c \in Contexts, ctxs'[c] # 0 PROVE regular'[ctxs'[c]] # None /\ regular'[ctxs'[c]].ptr = c
    <3>1. ctxs'[c] = ctxs[c] /\ ~(LastRef(e) /\ c = e.ptr) /\ ctxs[c] \in 1..MaxId
      BY <1>9, <2>3, LifecycleAssumption DEF TypeInv
    <3>2. regular[ctxs[c]] # None /\ regular[ctxs[c]].ptr = c
      BY <3>1, <2>3 DEF Resources
    <3>3. ctxs[c] = id => ~LastRef(e)
      BY <1>8, <3>1, <3>2
    <3>4. regular'[ctxs[c]] # None
      BY <1>2, <1>5, <3>1, <3>2, <3>3 DEF SameEntries
    <3> QED
      BY <1>7, <3>1, <3>2, <3>4
  <2> QED
    BY <2>1, <2>2, <2>3 DEF Resources
<1>11. \A x \in Slots : HasEntry(x)' => HasEntry(x)
  BY <1>7 DEF HasEntry
<1>12. \A x \in Slots : HasEntry(x) => HasEntry(x)' \/ (x = e.ptr /\ LastRef(e))
  <2> SUFFICES ASSUME NEW x \in Slots, NEW k \in 1..MaxId, regular[k] # None, regular[k].ptr = x,
                      ~(x = e.ptr /\ LastRef(e))
               PROVE  HasEntry(x)'
    BY DEF HasEntry
  <2>1. k = id => ~LastRef(e)
    BY <1>8
  <2>2. regular'[k] # None
    BY <1>2, <1>5, <2>1 DEF SameEntries
  <2> QED
    BY <1>7, <2>2 DEF HasEntry
<1>13. LastRef(e) /\ e.ptr \in Slots => ~HasEntry(e.ptr)'
  <2> SUFFICES ASSUME LastRef(e), e.ptr \in Slots, NEW k \in 1..MaxId, regular'[k] # None, regular'[k].ptr = e.ptr
               PROVE  FALSE
    BY DEF HasEntry
  <2>1. regular[k] # None /\ regular[k].ptr = e.ptr /\ k # id
    BY <1>4, <1>5, <1>7
  <2> QED
    BY <1>8, <2>1 DEF Resources
<1>14. ASSUME NEW c \in Contexts
       PROVE  References(regular', ctxs'[c]) = References(list, ctxs[c]) - (IF c = e.ptr THEN 1 ELSE 0)
  <2>1. ctxs[c] \in 0..MaxId
    BY DEF TypeInv
  <2>2. CASE c = e.ptr
    <3>1. ctxs[c] = id /\ id # 0
      BY <1>8, <2>2 DEF Resources
    <3>2. References(list, ctxs[c]) = e.refcount
      BY <1>a, <3>1 DEF References
    <3>3. CASE LastRef(e)
      BY <1>9, <2>2, <3>2, <3>3 DEF References, LastRef
    <3>4. CASE ~LastRef(e)
      BY <1>2, <1>5, <1>9, <2>2, <3>1, <3>2, <3>4 DEF References
    <3> QED
      BY <3>3, <3>4
  <2>3. CASE c # e.ptr
    <3>1. ctxs'[c] = ctxs[c] /\ ctxs[c] # id
      BY <1>8, <1>9, <2>3 DEF Resources
    <3>2. References(regular', ctxs'[c]) = References(list, ctxs[c])
      BY <1>5, <2>1, <3>1, LifecycleAssumption DEF References
    <3>3. References(list, ctxs[c]) \in Nat
      BY <2>1, EntryFacts DEF References, SameEntries, Resources
    <3> QED
      BY <2>3, <3>2, <3>3
  <2> QED
    BY <2>2, <2>3
<1>15. \A k \in 1..MaxId : regular[k] = None => regular'[k] = None
  BY <1>7
<1>16. Dropped(list, e)
  BY <1>5, <1>6, <1>10, <1>11, <1>12, <1>13, <1>14, <1>15 DEF Dropped
<1> QED
  BY <1>16 DEF e
-----------------------------------------------------------------------------
(* What a step leaves as it was *)

LEMMA FreeType ==
  ASSUME NEW f \in Frees
  PROVE  /\ f \in Frames /\ f.call = "free" /\ f.s \in AllSlots /\ f.opts \subseteq Options
         /\ f.pc \in Places /\ f.ctx \in Contexts \cup {None}
         /\ \A pc \in Places : [f EXCEPT !.pc = pc] \in Frees
         /\ \A pc \in Places, opts \in SUBSET Options, c \in Contexts \cup {None} :
              [f EXCEPT !.opts = opts, !.ctx = c, !.pc = pc] \in Frees
BY DEF Frees, Frames

LEMMA NewCall ==
  ASSUME NEW s \in AllSlots, NEW opts \in SUBSET Options
  PROVE  /\ Free(s, opts) \in Frees /\ Free(s, opts).call = "free" /\ Free(s, opts).s = s
         /\ Free(s, opts).opts = opts /\ Free(s, opts).pc = "enter" /\ Free(s, opts).ctx = None
BY DEF Free, Frees, Places

LEMMA StreamTypes ==
  ASSUME TypeInv, NEW x \in AllSlots
  PROVE  /\ stm[x] \in Streams
         /\ stm[x].kind \in Kinds /\ stm[x].rsrc \in Int /\ stm[x].in_free \in Nat
         /\ stm[x].enclosing \in Slots \cup {None} /\ stm[x].inner \in Slots \cup {None}
         /\ stm[x].cookie \in BOOLEAN /\ stm[x].ctx \in Contexts \cup {None}
         /\ stm[x].handle \in BOOLEAN /\ stm[x].given \in BOOLEAN
<1>1. stm[x] \in Streams
  BY DEF TypeInv
<1> QED
  BY <1>1 DEF Streams

LEMMA UsersFinite ==
  ASSUME NEW c
  PROVE  IsFiniteSet(Users(c)) /\ Cardinality(Users(c)) \in Nat
<1>1. Users(c) \subseteq AllSlots /\ IsFiniteSet(AllSlots)
  BY LifecycleAssumption DEF Users, AllSlots
<1> QED
  BY <1>1, FS_Subset, FS_CardinalityType

LEMMA FreshStream ==
  ASSUME NEW kind \in Kinds
  PROVE  /\ Fresh(kind) \in Streams /\ Fresh(kind).kind = kind /\ Fresh(kind).rsrc = 0
         /\ Fresh(kind).in_free = 0 /\ Fresh(kind).enclosing = None /\ Fresh(kind).inner = None
         /\ ~Fresh(kind).cookie /\ Fresh(kind).ctx = None
         /\ (kind \in {"none", "temp", "memory"} => ~Fresh(kind).handle) /\ ~Fresh(kind).given
<1>1. ASSUME NEW b \in BOOLEAN, b = (kind \in {"plain", "socket"}),
             NEW r, r = [kind |-> kind, rsrc |-> 0, in_free |-> 0, enclosing |-> None, inner |-> None,
                         cookie |-> FALSE, ctx |-> None, handle |-> b, given |-> FALSE]
      PROVE  /\ r \in Streams /\ r.kind = kind /\ r.rsrc = 0 /\ r.in_free = 0
             /\ r.enclosing = None /\ r.inner = None /\ ~r.cookie /\ r.ctx = None
             /\ r.handle = b /\ ~r.given
  BY <1>1 DEF Streams
<1>2. kind \in {"none", "temp", "memory"} => ~(kind \in {"plain", "socket"})
  OBVIOUS
<1>a. (kind \in {"plain", "socket"}) \in BOOLEAN
  OBVIOUS
<1>3. PICK b \in BOOLEAN : b = (kind \in {"plain", "socket"})
  BY <1>a
<1>4. PICK r : r = [kind |-> kind, rsrc |-> 0, in_free |-> 0, enclosing |-> None, inner |-> None,
                    cookie |-> FALSE, ctx |-> None, handle |-> b, given |-> FALSE]
  OBVIOUS
<1>5. Fresh(kind) = r
  BY <1>3, <1>4, Zenon DEF Fresh
<1>6. /\ r \in Streams /\ r.kind = kind /\ r.rsrc = 0 /\ r.in_free = 0
      /\ r.enclosing = None /\ r.inner = None /\ ~r.cookie /\ r.ctx = None
      /\ r.handle = b /\ ~r.given
  BY <1>1, <1>3, <1>4
<1>7. kind \in {"none", "temp", "memory"} => ~r.handle
  BY <1>2, <1>3, <1>6, Zenon
<1> QED
  BY <1>5, <1>6, <1>7

\* A step that changes one stream.
Updates(s, r) ==
  /\ stm' \in [AllSlots -> Streams] /\ stm'[s] = r
  /\ \A x \in AllSlots : x # s => stm'[x] = stm[x]

LEMMA StreamUpdate ==
  ASSUME TypeInv, NEW s \in AllSlots, NEW r \in Streams, stm' = [stm EXCEPT ![s] = r]
  PROVE  Updates(s, r)
BY DEF TypeInv, Updates

SameIds ==
  \A x \in AllSlots : (x \in alive => stm'[x].rsrc = stm[x].rsrc) /\ stm'[x].ctx = stm[x].ctx
\* A step that leaves the lists and the ids alone.
LEMMA ListsKept ==
  ASSUME TypeInv, ListInv, UNCHANGED <<alive, regular, nextId, persistent, ctxs, held, phase>>,
         SameIds, ~Frame("context")'
  PROVE  ListInv'
<1>1. alive \subseteq AllSlots /\ PSlots \subseteq AllSlots /\ Slots \subseteq AllSlots
  BY DEF TypeInv, AllSlots
<1>2. Resources'
  BY <1>1 DEF ListInv, Resources, SameIds, IsListed
<1>3. Keeping'
  BY <1>1 DEF ListInv, Keeping, SameIds
<1>4. Counted'
  <2> SUFFICES ASSUME phase = "request", NEW c \in Contexts
               PROVE  Cardinality(Users(c)') + Holds(c)' + Drops(c)' <= References(regular', ctxs'[c])
    BY DEF Counted
  <2>1. Users(c)' = Users(c)
    BY DEF Users, SameIds
  <2>2. Holds(c)' = Holds(c) /\ Drops(c)' = 0 /\ Drops(c) \in {0, 1} /\ Holds(c) \in {0, 1}
    BY DEF Holds, Drops
  <2>3. Cardinality(Users(c)) + Holds(c) + Drops(c) <= References(regular, ctxs[c])
    BY DEF ListInv, Counted
  <2>4. Cardinality(Users(c)) \in Nat
    BY UsersFinite
  <2>5. References(regular, ctxs[c]) \in Nat
    BY EntryFacts, LifecycleAssumption DEF References, TypeInv, ListInv, Resources
  <2> QED
    BY <2>1, <2>2, <2>3, <2>4, <2>5
<1>5. Phases'
  BY DEF ListInv, Phases
<1> QED
  BY <1>2, <1>3, <1>4, <1>5 DEF ListInv

\* A call that works stays fine as long as nobody touches its stream.
LEMMA FineKept ==
  ASSUME NEW u \in Frees, u.pc \in Work, Fine(u),
         phase' = phase, u.s \in alive',
         stm'[u.s].in_free = stm[u.s].in_free, stm'[u.s].ctx = stm[u.s].ctx,
         stm'[u.s].kind = stm[u.s].kind, stm'[u.s].inner = stm[u.s].inner,
         stm'[u.s].handle => stm[u.s].handle, stm[u.s].given => stm'[u.s].given,
         u.s \in Slots /\ HasEntry(u.s)' => HasEntry(u.s),
         Kept(u.s)' => Kept(u.s)
  PROVE  Fine(u)'
BY DEF Fine, Work

LEMMA SameTests ==
  /\ UNCHANGED regular => \A x : HasEntry(x)' <=> HasEntry(x)
  /\ UNCHANGED persistent => \A x : Kept(x)' <=> Kept(x)
<1>1. ASSUME UNCHANGED regular, NEW x PROVE HasEntry(x)' <=> HasEntry(x)
  BY <1>1 DEF HasEntry
<1>2. ASSUME UNCHANGED persistent, NEW x PROVE Kept(x)' <=> Kept(x)
  BY <1>2 DEF Kept
<1> QED
  BY <1>1, <1>2

LEMMA TopFree ==
  ASSUME TypeInv, stack # <<>>, Top.call = "free"
  PROVE  Top \in Frees /\ stack = <<Top>> \o Pop
<1>1. Top \in Frames
  BY StackTop
<1>2. Top \in Frees
  BY <1>1, FrameKinds
<1>3. stack \in Seq(Frames)
  BY DEF TypeInv
<1> HIDE DEF Frames
<1> QED
  BY <1>2, <1>3 DEF Top, Pop

\* A call is at work on a stream only while the stream says so.
LEMMA FreeingFlag ==
  ASSUME TypeInv, CallInv, NEW x, Freeing(x)
  PROVE  stm[x].in_free > 0 /\ x \in alive
<1>1. PICK k \in 1..Len(stack) : Works(k) /\ stack[k].s = x
  BY DEF Freeing
<1> QED
  BY <1>1 DEF CallInv, Calls, Fine, Works, Work
-----------------------------------------------------------------------------
(* The steps of _php_stream_free *)

\* What every step finds.
LEMMA AtTop ==
  ASSUME FreeInv, stack # <<>>, Top.call = "free", NEW f, f = Top
  PROVE  /\ f \in Frees /\ stack = <<f>> \o Pop /\ Before(f)
         /\ f.s \in AllSlots /\ f.opts \subseteq Options /\ f.ctx \in Contexts \cup {None}
         /\ f.pc \in Places /\ f.call = "free"
         /\ \A p : Frame(p) <=> f.pc = p
         /\ \A x : Entering(x) <=> f.pc = "enter" /\ f.s = x
         /\ \A x : Closing(x) <=> f.pc = "enter" /\ f.s = x /\ "IGNORE_ENCLOSING" \in f.opts
<1>1. f \in Frees /\ stack = <<f>> \o Pop
  BY TopFree DEF FreeInv
<1>2. Before(f)
  BY <1>1, BeforeStep DEF FreeInv
<1>3. \A p : Frame(p) <=> f.pc = p
  BY DEF Frame
<1> QED
  BY <1>1, <1>2, <1>3, FreeType DEF Entering, Closing

\* A call that returns at its beginning leaves nothing undone.
LEMMA ReturnKeeps ==
  ASSUME FreeInv, Frame("enter"), NEW f, f = Top, stack' = Pop,
         UNCHANGED <<alive, stm, lists, phase, requests>>,
         \A t : ~Closes(f, t),
         Closing(f.s) => Freeing(f.s),
         f.s \in alive => stm[f.s].in_free > 0 \/ (f.s \in Slots /\ HasEntry(f.s))
  PROVE  FreeInv'
<1>1. stack # <<>> /\ Top.call = "free" /\ f.pc = "enter"
  BY DEF Frame
<1>2. /\ f \in Frees /\ Before(f) /\ f.s \in AllSlots
      /\ \A x : Entering(x) => f.s = x
      /\ \A x : Closing(x) => f.s = x
  BY <1>1, AtTop
<1>3. stack' \in Seq(Frames) /\ Shape' /\ Distinct' /\ AfterReturn
  BY <1>1, AfterReturning DEF FreeInv
<1>4. TypeInv'
  BY <1>3 DEF FreeInv, TypeInv, lists
<1>5. /\ \A x : Freeing(x)' <=> Freeing(x)
      /\ \A t : WillClose(t)' <=> WillClose(t)
  BY <1>1, <1>2, <1>3 DEF Before, AfterReturn, Work
<1>6. \A x : ~Entering(x)' /\ ~Closing(x)'
  BY <1>3 DEF AfterReturn, Entering, Closing
<1>7. \A x : (HasEntry(x)' <=> HasEntry(x)) /\ (Kept(x)' <=> Kept(x))
  BY SameTests DEF lists
<1>8. ListInv'
  <2>1. SameIds
    BY DEF SameIds
  <2> QED
    BY <1>3, <2>1, ListsKept DEF FreeInv, AfterReturn, lists
<1>9. CallInv'
  <2>1. ASSUME NEW u \in Frees, Under(u) PROVE Fine(u)'
    <3>1. u.pc \in Work /\ Fine(u) /\ u.s \in alive
      BY <1>2, <2>1 DEF Before, Work, Fine
    <3> QED
      BY <1>7, <3>1, FineKept
  <2>2. Calls'
    BY <1>3, <2>1 DEF AfterReturn
  <2>3. Enters'
    BY <1>3 DEF AfterReturn, Enters
  <2> QED
    BY <1>3, <2>2, <2>3 DEF CallInv
<1>10. StreamInv'
  <2>1. Cleared'
    BY DEF FreeInv, StreamInv, Cleared
  <2>2. Enclosure'
    <3>1. ASSUME NEW x \in Slots PROVE Enclosing(x)'
      <4>1. Enclosing(x)
        BY DEF FreeInv, StreamInv, Enclosure
      <4> QED
        BY <1>2, <1>5, <4>1 DEF Enclosing, IsInner
    <3> QED
      BY <3>1 DEF FreeInv, StreamInv, Enclosure
  <2>3. InFree'
    <3> SUFFICES ASSUME NEW x \in AllSlots, stm[x].in_free > 0, ~Freeing(x) PROVE Redirecting(x)'
      BY <1>5 DEF InFree
    <3>1. Redirecting(x)
      BY DEF FreeInv, StreamInv, InFree
    <3> QED
      BY <1>2, <1>5, <1>7, <3>1 DEF Redirecting, Awaits
  <2>4. Owned'
    <3> SUFFICES ASSUME NEW x \in alive
                 PROVE  /\ x \in Slots => HasEntry(x) \/ stm[x].in_free > 0
                        /\ x \in PSlots => Kept(x) \/ Freeing(x)
      BY <1>5, <1>7 DEF Owned
    <3>1. x \in AllSlots
      BY DEF FreeInv, TypeInv
    <3>2. x \in PSlots /\ stm[x].in_free > 0 => Freeing(x)
      BY <3>1, DistinctSlots DEF FreeInv, StreamInv, InFree, Redirecting
    <3> QED
      BY <1>2, <3>1, <3>2, DistinctSlots DEF FreeInv, StreamInv, Owned
  <2> QED
    BY <2>1, <2>2, <2>3, <2>4 DEF StreamInv
<1> QED
  BY <1>4, <1>8, <1>9, <1>10 DEF FreeInv

LEMMA FreeReturnsInv ==
  ASSUME FreeInv, FreeReturns
  PROVE  FreeInv'
<1> DEFINE s == Top.s
<1>1. /\ Frame("enter") /\ stack # <<>> /\ Top.call = "free" /\ Top.pc = "enter" /\ Recursive(s, Top.opts)
      /\ stack' = Pop /\ UNCHANGED <<alive, stm, lists, phase, requests>>
  BY DEF FreeReturns, Frame
<1>2. s \in AllSlots
  BY <1>1, AtTop
<1>3. stm[s].in_free > 0 /\ ~(stm[s].in_free = 1 /\ "IGNORE_ENCLOSING" \in Top.opts /\ stm[s].enclosing = None)
  BY <1>1 DEF Recursive
<1>4. \A t : ~Closes(Top, t)
  <2>1. stm[s].in_free \in Nat
    BY <1>2, StreamTypes DEF FreeInv
  <2> QED
    BY <1>1, <1>3, <2>1 DEF Closes
<1>5. ASSUME Closing(s) PROVE Freeing(s)
  <2>1. Freeing(s) \/ Redirecting(s)
    BY <1>2, <1>3 DEF FreeInv, StreamInv, InFree
  <2>2. "IGNORE_ENCLOSING" \in Top.opts
    BY <1>5 DEF Closing
  <2> QED
    BY <1>3, <2>1, <2>2 DEF Redirecting
<1> QED
  BY <1>1, <1>3, <1>4, <1>5, ReturnKeeps

LEMMA FreeKeepsCookieInv ==
  ASSUME FreeInv, FreeKeepsCookie
  PROVE  FreeInv'
<1> DEFINE s == Top.s
<1>1. /\ Frame("enter") /\ stack # <<>> /\ Top.call = "free" /\ Top.pc = "enter" /\ ~Recursive(s, Top.opts)
      /\ "PRESERVE_HANDLE" \in Top.opts /\ stm[s].cookie
      /\ stack' = Pop /\ UNCHANGED <<alive, stm, lists, phase, requests>>
  BY DEF FreeKeepsCookie, Frame, Preserve
<1>2. s \in AllSlots /\ Before(Top)
  BY <1>1, AtTop
<1>3. \A t : ~Closes(Top, t)
  BY <1>1 DEF Closes
<1>4. ~Closing(s)
  BY <1>1 DEF Closing, FreeInv, CallInv, Enters
<1>5. s \in Slots
  BY <1>1, <1>2 DEF FreeInv, StreamInv, Enclosure, AllSlots
<1>6. HasEntry(s)
  BY <1>1, <1>2 DEF Before, Fine
<1> QED
  BY <1>1, <1>3, <1>4, <1>5, <1>6, ReturnKeeps
LEMMA FreeRedirectsInv ==
  ASSUME FreeInv, FreeRedirects
  PROVE  FreeInv'
<1>1. PICK f, s, t, opts, h :
        /\ f = Top /\ s = f.s /\ t = stm[s].enclosing /\ opts = Restored(s, f.opts)
        /\ h = Free(t, (opts \cup {"CALL_DTOR"}) \ {"RSRC_DTOR"})
  OBVIOUS
<1>2. /\ stack # <<>> /\ Top.call = "free" /\ f.pc = "enter" /\ ~Recursive(s, f.opts) /\ Redirected(s, opts)
      /\ stm' = [stm EXCEPT ![s] = [stm[s] EXCEPT !.in_free = stm[s].in_free + 1, !.enclosing = None]]
      /\ stack' = <<h>> \o Pop
      /\ UNCHANGED <<alive, lists, phase, requests>>
  BY <1>1, Zenon DEF FreeRedirects, Frame
<1>3. /\ f \in Frees /\ Before(f) /\ s \in AllSlots /\ f.opts \subseteq Options
      /\ \A p : Frame(p) <=> f.pc = p
      /\ \A x : Closing(x) <=> f.pc = "enter" /\ f.s = x /\ "IGNORE_ENCLOSING" \in f.opts
  BY <1>1, <1>2, AtTop
<1>4. TypeInv /\ ListInv /\ CallInv /\ StreamInv
  BY DEF FreeInv
<1>5. stm[s].in_free = 0 /\ opts = f.opts /\ "RSRC_DTOR" \in f.opts /\ "IGNORE_ENCLOSING" \notin f.opts
  <2>1. "IGNORE_ENCLOSING" \notin f.opts /\ t # None
    BY <1>1, <1>2 DEF Redirected, Restored
  <2>2. stm[s].in_free \in Nat /\ stm[s].in_free = 0
    BY <1>2, <1>3, <1>4, <2>1, StreamTypes DEF Recursive
  <2> QED
    BY <1>1, <1>2, <2>1, <2>2 DEF Redirected, Restored
<1>6. \A x \in AllSlots : ~Freeing(x)
  <2>1. ~Freeing(s)
    BY <1>4, <1>5, FreeingFlag
  <2> QED
    BY <1>1, <1>2, <1>3, <1>4, <1>5, <2>1 DEF CallInv, Enters
<1>7. "PRESERVE_HANDLE" \notin f.opts
  BY <1>1, <1>2, <1>3, <1>4, <1>5 DEF CallInv, Enters
<1>8. s \in Slots /\ t \in Slots /\ stm[t].inner = s /\ s \in alive /\ ~HasEntry(s)
  <2>1. s \in Slots /\ t # None
    BY <1>1, <1>2, <1>3, <1>4 DEF Redirected, StreamInv, Enclosure, AllSlots
  <2>2. t \in Slots
    BY <1>1, <1>3, <1>4, <2>1, StreamTypes
  <2>3. Enclosing(s)
    BY <1>4, <2>1 DEF StreamInv, Enclosure
  <2>4. stm[t].inner = s
    BY <1>1, <1>3, <1>5, <1>6, <2>1, <2>3 DEF Enclosing
  <2>5. Fine(f)
    BY <1>3 DEF Before
  <2> QED
    BY <1>1, <1>2, <1>5, <2>1, <2>2, <2>4, <2>5 DEF Fine
<1>9. /\ t \in alive /\ stm[s].inner = None /\ s # t /\ ~IsInner(t) /\ ~stm[s].cookie
      /\ \A x \in Slots : stm[x].inner = s => x = t
  <2>0. s # None /\ t # None
    BY <1>8, LifecycleAssumption
  <2>1. t \in alive
    BY <1>4, <1>8, <2>0 DEF StreamInv, Cleared, AllSlots
  <2>2. \A x \in Slots : Enclosing(x)
    BY <1>4 DEF StreamInv, Enclosure
  <2>3. stm[s].inner = None /\ \A x \in Slots : stm[x].inner = s => x = t
    BY <1>8, <2>0, <2>2 DEF Enclosing
  <2>4. ~IsInner(t)
    BY <1>8, <2>0, <2>2 DEF Enclosing, IsInner
  <2>5. ~stm[s].cookie
    BY <1>8, <2>2 DEF Enclosing, IsInner
  <2> QED
    BY <1>8, <2>0, <2>1, <2>3, <2>4, <2>5
<1>10. \A x \in AllSlots : stm[x].in_free = 0
  <2> SUFFICES ASSUME NEW x \in AllSlots, stm[x].in_free > 0 PROVE FALSE
    BY <1>4, StreamTypes
  <2>1. Redirecting(x)
    BY <1>4, <1>6 DEF StreamInv, InFree
  <2>2. ~Closing(x)
    BY <1>3, <1>5
  <2>3. PICK u \in Slots : stm[u].inner = x /\ WillClose(u)
    BY <2>1, <2>2 DEF Redirecting, Awaits
  <2>4. ~Closes(f, u)
    BY <1>2, <1>5 DEF Closes
  <2>5. WaitsBelow(u)
    BY <1>3, <2>3, <2>4 DEF Before
  <2>6. Freeing(u)
    BY <1>3, <2>5 DEF Before, WaitsBelow, Below, Work
  <2> QED
    BY <1>6, <2>6 DEF AllSlots
<1>11. \A u \in Frees : ~Under(u)
  <2> SUFFICES ASSUME NEW u \in Frees, Under(u) PROVE FALSE
    OBVIOUS
  <2>1. u.pc \in Work /\ u.s \in AllSlots
    BY <1>3, FreeType DEF Before, Work
  <2>2. Freeing(u.s)
    BY <1>3, <2>1 DEF Before, Below
  <2> QED
    BY <1>6, <2>1, <2>2
<1>12. /\ h \in Frees /\ h.call = "free" /\ h.s = t /\ h.pc = "enter" /\ h.ctx = None
       /\ h.opts = (f.opts \cup {"CALL_DTOR"}) \ {"RSRC_DTOR"}
  <2>1. t \in AllSlots /\ (f.opts \cup {"CALL_DTOR"}) \ {"RSRC_DTOR"} \in SUBSET Options
    BY <1>3, <1>8 DEF AllSlots, Options, CloseOpts
  <2> QED
    BY <1>1, <1>5, <2>1, NewCall
<1>13. stack' \in Seq(Frames) /\ Shape' /\ Distinct' /\ After(h, {h})
  <2>1. h.pc \notin Work
    BY <1>12 DEF Work
  <2> QED
    BY <1>2, <1>4, <1>12, <2>1, AfterReplacing
<1>14. /\ stm'[s].in_free = 1 /\ stm'[s].enclosing = None /\ SameIds
       /\ \A x \in AllSlots : /\ stm'[x].inner = stm[x].inner /\ stm'[x].cookie = stm[x].cookie
                              /\ stm'[x].kind = stm[x].kind /\ stm'[x].handle = stm[x].handle
                              /\ stm'[x].given = stm[x].given
                              /\ x # s => stm'[x] = stm[x]
       /\ stm' \in [AllSlots -> Streams]
  <2>1. PICK r : r = [stm[s] EXCEPT !.in_free = stm[s].in_free + 1, !.enclosing = None]
    OBVIOUS
  <2>2. stm[s] \in Streams
    BY <1>3, <1>4, StreamTypes
  <2>3. /\ r \in Streams /\ r.in_free = 1 /\ r.enclosing = None
        /\ r.rsrc = stm[s].rsrc /\ r.ctx = stm[s].ctx /\ r.inner = stm[s].inner
        /\ r.cookie = stm[s].cookie /\ r.kind = stm[s].kind /\ r.handle = stm[s].handle
        /\ r.given = stm[s].given
    <3>1. PICK z : z = stm[s]
      OBVIOUS
    <3>2. z \in Streams /\ z.in_free = 0 /\ r = [z EXCEPT !.in_free = 1, !.enclosing = None]
      BY <1>5, <2>1, <2>2, <3>1
    <3> QED
      BY <3>1, <3>2 DEF Streams
  <2>a. stm' = [stm EXCEPT ![s] = r]
    BY <1>2, <2>1
  <2>4. Updates(s, r)
    BY <1>3, <1>4, <2>3, <2>a, StreamUpdate
  <2> QED
    BY <2>3, <2>4 DEF Updates, SameIds
<1>15. /\ \A x \in AllSlots : ~Freeing(x)'
       /\ \A x : Closes(h, x)' => WillClose(x)'
       /\ Top' = h /\ Frame("enter")' /\ ~Frame("context")'
       /\ \A x : Entering(x)' <=> x = t
       /\ \A x : ~Closing(x)'
  <2>1. Top' = h /\ stack' # <<>> /\ \A x : Closes(h, x)' => WillClose(x)'
    BY <1>13 DEF After, Top
  <2>2. \A x : ~Below(x)
    BY <1>11 DEF Below
  <2>3. \A x \in AllSlots : ~Freeing(x)'
    BY <1>12, <1>13, <2>2 DEF After, Work
  <2>4. Frame("enter")' /\ ~Frame("context")'
    BY <1>12, <2>1 DEF Frame
  <2>5. \A x : Entering(x)' <=> x = t
    BY <1>12, <2>1, <2>4 DEF Entering
  <2>6. \A x : ~Closing(x)'
    BY <1>5, <1>12, <2>1 DEF Closing
  <2> QED
    BY <2>1, <2>3, <2>4, <2>5, <2>6
<1>16. \A x : (HasEntry(x)' <=> HasEntry(x)) /\ (Kept(x)' <=> Kept(x))
  BY <1>2, SameTests DEF lists
<1>17. TypeInv'
  BY <1>2, <1>4, <1>13, <1>14 DEF TypeInv, lists
<1>18. ListInv'
  BY <1>2, <1>4, <1>14, <1>15, ListsKept DEF lists
<1>19. CallInv'
  <2>1. Fine(h)'
    <3>1. h.s = t /\ h.pc = "enter" /\ h.ctx = None /\ "RSRC_DTOR" \notin h.opts /\ "PRESERVE_HANDLE" \notin h.opts
      BY <1>7, <1>12
    <3>2. t \in alive' /\ t \notin PSlots
      BY <1>2, <1>8, <1>9, DistinctSlots
    <3> QED
      BY <3>1, <3>2 DEF Fine
  <2>2. Calls'
    BY <1>11, <1>13, <2>1 DEF After
  <2>3. Enters'
    <3>1. ~IsInner(t)'
      BY <1>9, <1>14 DEF IsInner, AllSlots
    <3>2. "RSRC_DTOR" \notin h.opts /\ "IGNORE_ENCLOSING" \notin h.opts /\ h.s = t
      BY <1>5, <1>12
    <3> QED
      BY <1>15, <3>1, <3>2 DEF Enters
  <2> QED
    BY <1>13, <2>2, <2>3 DEF CallInv
<1>20. StreamInv'
  <2>1. Cleared'
    BY <1>2, <1>4, <1>8, <1>14 DEF StreamInv, Cleared, SameIds
  <2>2. Enclosure'
    <3>1. ASSUME NEW x \in Slots PROVE Enclosing(x)'
      <4>1. Enclosing(x) /\ x \in AllSlots
        BY <1>4 DEF StreamInv, Enclosure, AllSlots
      <4>2. IsInner(x)' => IsInner(x)
        BY <1>14 DEF IsInner, AllSlots
      <4>3. stm'[x].enclosing # None => stm'[x].enclosing = stm[x].enclosing
        BY <1>14, <4>1
      <4>4. stm[x].inner # None => stm[x].inner \in AllSlots
        BY <4>1, <1>4, StreamTypes DEF AllSlots
      <4>5. stm[x].enclosing # None => stm[x].enclosing \in AllSlots
        BY <4>1, <1>4, StreamTypes DEF AllSlots
      <4>6. stm'[x].cookie => stm'[x].enclosing = None /\ ~IsInner(x)'
        BY <1>14, <4>1, <4>2, <4>3 DEF Enclosing
      <4>7. ASSUME stm[x].inner # None
            PROVE  /\ stm'[stm[x].inner].inner = None
                   /\ \/ stm'[stm[x].inner].enclosing = x
                      \/ stm'[stm[x].inner].enclosing = None /\ stm'[stm[x].inner].in_free > 0
        BY <1>14, <4>1, <4>4, <4>7 DEF Enclosing
      <4>8. stm'[x].enclosing # None => stm'[stm'[x].enclosing].inner = x
        BY <1>3, <1>5, <1>6, <1>14, <4>1, <4>3, <4>5 DEF Enclosing
      <4>9. \A y \in Slots : stm'[y].inner = stm[y].inner
        BY <1>14 DEF AllSlots
      <4>10. stm'[x].inner # None => ~Freeing(stm[x].inner)'
        <5>1. PICK i : i = stm'[x].inner
          OBVIOUS
        <5>2. i # None => i \in AllSlots
          BY <4>1, <4>4, <4>9, <5>1
        <5>3. i # None => ~Freeing(i)'
          BY <1>15, <5>2
        <5> QED
          BY <5>1, <5>3
      <4>11. stm'[x].inner = stm[x].inner /\ stm'[x].kind = stm[x].kind /\ alive' = alive
        BY <1>2, <1>14, <4>1
      <4>12. stm'[x].inner # None =>
               /\ stm'[x].kind = "temp" /\ stm'[x].inner \in alive'
               /\ \A y \in Slots : stm'[y].inner = stm'[x].inner => y = x
        BY <4>1, <4>9, <4>11 DEF Enclosing
      <4> QED
        BY <4>6, <4>7, <4>8, <4>10, <4>11, <4>12 DEF Enclosing
    <3>2. \A x \in PSlots : stm'[x].enclosing = None /\ stm'[x].inner = None /\ ~stm'[x].cookie
      BY <1>4, <1>8, <1>14, DistinctSlots DEF StreamInv, Enclosure, AllSlots
    <3> QED
      BY <3>1, <3>2 DEF Enclosure
  <2>3. InFree'
    <3>1. Redirecting(s)'
      <4>1. Closes(h, t)'
        <5>1. stm'[t].in_free = 0
          BY <1>8, <1>9, <1>10, <1>14 DEF AllSlots
        <5> QED
          BY <1>7, <1>12, <5>1 DEF Closes
      <4>2. stm'[t].inner = s
        BY <1>8, <1>14 DEF AllSlots
      <4> QED
        BY <1>8, <1>14, <1>15, <1>16, <4>1, <4>2 DEF Redirecting, Awaits
    <3> QED
      BY <1>10, <1>14, <3>1 DEF InFree
  <2>4. Owned'
    <3> SUFFICES ASSUME NEW x \in alive
                 PROVE  /\ x \in Slots => HasEntry(x) \/ stm'[x].in_free > 0 \/ x = t
                        /\ x \in PSlots => Kept(x)
      BY <1>2, <1>15, <1>16 DEF Owned
    <3>1. Entering(x) => x = s
      BY <1>1 DEF Entering
    <3>2. x \in AllSlots
      BY <1>4 DEF TypeInv
    <3> QED
      BY <1>4, <1>6, <1>8, <1>10, <1>14, <3>1, <3>2, DistinctSlots DEF StreamInv, Owned
  <2> QED
    BY <2>1, <2>2, <2>3, <2>4 DEF StreamInv
<1> QED
  BY <1>17, <1>18, <1>19, <1>20 DEF FreeInv
-----------------------------------------------------------------------------
(* Between two calls *)

\* No stream is being freed, except that x was left to the call about to start.
Linked(s, x, loose) ==
  /\ stm[s].cookie => stm[s].enclosing = None /\ ~IsInner(s)
  /\ stm[s].inner # None =>
       /\ stm[s].kind = "temp" /\ stm[s].inner \in alive
       /\ stm[stm[s].inner].inner = None /\ stm[stm[s].inner].enclosing = s
  /\ stm[s].enclosing # None => stm[stm[s].enclosing].inner = s \/ (s = x /\ loose)

Resting(x, loose) ==
  /\ Cleared
  /\ \A s \in AllSlots : stm[s].in_free = 0
  /\ \A s \in PSlots : stm[s].enclosing = None /\ stm[s].inner = None /\ ~stm[s].cookie
  /\ \A s \in Slots : Linked(s, x, loose)
  /\ \A s \in alive : (s \in Slots => HasEntry(s) \/ s = x) /\ (s \in PSlots => Kept(s) \/ s = x)

\* What the only call under way relies on at its beginning.
Begins(h) ==
  /\ "IGNORE_ENCLOSING" \in h.opts => ~stm[h.s].cookie
  /\ "RSRC_DTOR" \in h.opts /\ "IGNORE_ENCLOSING" \notin h.opts => "PRESERVE_HANDLE" \notin h.opts
  /\ "RSRC_DTOR" \notin h.opts \/ "IGNORE_ENCLOSING" \in h.opts => ~IsInner(h.s)

LEMMA Rests ==
  ASSUME TypeInv, StreamInv, Idle
  PROVE  Resting(None, FALSE)
<1>1. \A s \in AllSlots : stm[s].in_free = 0
  BY IdleFree, StreamTypes DEF StreamInv
<1>2. \A s \in Slots : Linked(s, None, FALSE)
  <2> SUFFICES ASSUME NEW s \in Slots PROVE Linked(s, None, FALSE)
    OBVIOUS
  <2>1. Enclosing(s)
    BY DEF StreamInv, Enclosure
  <2>2. ~Freeing(s) /\ ~Closing(s)
    BY DEF Idle, Closing, Entering
  <2>3. stm[s].inner # None => stm[stm[s].inner].in_free = 0
    <3>1. stm[s].inner # None => stm[s].inner \in AllSlots
      BY StreamTypes DEF AllSlots
    <3> QED
      BY <1>1, <3>1
  <2> QED
    BY <2>1, <2>2, <2>3 DEF Linked, Enclosing
<1>3. \A s \in alive : (s \in Slots => HasEntry(s)) /\ (s \in PSlots => Kept(s))
  <2> SUFFICES ASSUME NEW s \in alive PROVE (s \in Slots => HasEntry(s)) /\ (s \in PSlots => Kept(s))
    OBVIOUS
  <2>1. stm[s].in_free = 0 /\ ~Freeing(s) /\ ~Entering(s)
    BY <1>1 DEF Idle, Entering, TypeInv
  <2> QED
    BY <2>1 DEF StreamInv, Owned
<1> QED
  BY <1>1, <1>2, <1>3 DEF Resting, StreamInv, Enclosure

\* A step that leaves the streams and the lists alone.
LEMMA RestsOn ==
  ASSUME TypeInv, Resting(None, FALSE), UNCHANGED <<alive, stm, regular, persistent>>,
         NEW x, NEW loose
  PROVE  Resting(x, loose)'
<1>1. \A s : (HasEntry(s)' <=> HasEntry(s)) /\ (Kept(s)' <=> Kept(s)) /\ (IsInner(s)' <=> IsInner(s))
  BY SameTests DEF IsInner
<1>2. \A s \in Slots : Linked(s, x, loose)'
  BY <1>1 DEF Resting, Linked
<1>3. \A s \in alive : (s \in Slots => HasEntry(s)) /\ (s \in PSlots => Kept(s))
  BY LifecycleAssumption DEF Resting, TypeInv, AllSlots
<1>4. Cleared'
  BY DEF Resting, Cleared
<1> QED
  BY <1>1, <1>2, <1>3, <1>4 DEF Resting

\* No two streams enclose the same one.
LEMMA OneEncloser ==
  ASSUME NEW x, NEW loose, Resting(x, loose)', NEW s \in Slots, NEW t \in Slots,
         stm'[s].inner # None, stm'[t].inner = stm'[s].inner
  PROVE  t = s
BY DEF Resting, Linked

LEMMA RestInv ==
  ASSUME stack' = <<>>, stack' \in Seq(Frames) => TypeInv', ListInv', Resting(None, FALSE)'
  PROVE  FreeInv'
<1>1. TypeInv' /\ Idle' /\ CallInv'
  BY StillIdle
<1>2. \A s \in Slots : Enclosing(s)'
  <2> SUFFICES ASSUME NEW s \in Slots PROVE Enclosing(s)'
    OBVIOUS
  <2>1. Linked(s, None, FALSE)'
    BY DEF Resting
  <2>2. stm'[s].inner # None => ~Freeing(stm[s].inner)'
    <3>1. PICK i : i = stm'[s].inner
      OBVIOUS
    <3>2. ~Freeing(i)'
      BY <1>1 DEF Idle
    <3> QED
      BY <3>1, <3>2
  <2>3. stm'[s].inner # None => \A t \in Slots : stm'[t].inner = stm'[s].inner => t = s
    BY OneEncloser
  <2> QED
    BY <2>1, <2>2, <2>3 DEF Enclosing, Linked
<1>3. InFree'
  BY DEF InFree, Resting
<1>4. Owned'
  BY <1>1, LifecycleAssumption DEF Owned, Resting, TypeInv, AllSlots
<1> QED
  BY <1>1, <1>2, <1>3, <1>4 DEF FreeInv, StreamInv, Enclosure, Resting

LEMMA StartInv ==
  ASSUME NEW h \in Frees, h.pc = "enter",
         \/ stack' = <<h>>
         \/ \E r \in Creates : stack' = <<h, r>>,
         stack' \in Seq(Frames) => TypeInv', ListInv',
         Resting(h.s, "IGNORE_ENCLOSING" \in h.opts)', Fine(h)', Begins(h)'
  PROVE  FreeInv'
<1>1. TypeInv' /\ Shape' /\ Distinct' /\ Started(h)
  BY Starting
<1>2. h.call = "free"
  BY DEF Frees
<1>3. /\ stack' # <<>> /\ Head(stack') = h /\ Calls'
      /\ \A x : ~Freeing(x)'
  BY <1>1 DEF Started
<1>4. Top' = h /\ Frame("enter")' /\ Entering(h.s)'
  BY <1>2, <1>3 DEF Top, Frame, Entering
<1>5. "IGNORE_ENCLOSING" \in h.opts => Closing(h.s)'
  BY <1>4 DEF Closing
<1>6. Enters'
  <2>1. Begins(h)'
    OBVIOUS
  <2> QED
    BY <1>3, <1>4, <2>1 DEF Enters, Begins
<1>7. \A s \in Slots : Enclosing(s)'
  <2> SUFFICES ASSUME NEW s \in Slots PROVE Enclosing(s)'
    OBVIOUS
  <2>1. Linked(s, h.s, "IGNORE_ENCLOSING" \in h.opts)'
    BY DEF Resting
  <2>2. stm'[s].inner # None => ~Freeing(stm[s].inner)'
    <3>1. PICK i : i = stm'[s].inner
      OBVIOUS
    <3>2. ~Freeing(i)'
      BY <1>3
    <3> QED
      BY <3>1, <3>2
  <2>3. stm'[s].inner # None => \A t \in Slots : stm'[t].inner = stm'[s].inner => t = s
    BY OneEncloser
  <2> QED
    BY <1>5, <2>1, <2>2, <2>3 DEF Enclosing, Linked
<1>8. InFree'
  BY DEF InFree, Resting
<1>9. Owned'
  BY <1>4 DEF Owned, Resting
<1> QED
  BY <1>1, <1>3, <1>6, <1>7, <1>8, <1>9 DEF FreeInv, CallInv, StreamInv, Enclosure, Resting
LEMMA Standing ==
  ASSUME FreeInv, stack = <<>>
  PROVE  TypeInv /\ ListInv /\ Idle /\ Resting(None, FALSE)
<1>1. Idle
  BY IdleBetween
<1> QED
  BY <1>1, Rests DEF FreeInv

LEMMA NotContext ==
  ASSUME stack' # <<>> => Head(stack').pc = "enter"
  PROVE  ~Frame("context")'
BY DEF Frame, Top

\* Nothing encloses a stream that does not know it.
LEMMA NotInner ==
  ASSUME TypeInv, NEW x, NEW loose, Resting(x, loose), NEW s \in AllSlots, stm[s].enclosing = None
  PROVE  ~IsInner(s)
<1>1. s # None
  BY LifecycleAssumption DEF AllSlots
<1>2. \A t \in Slots : stm[t].inner = s => t = None
  BY <1>1 DEF Resting, Linked
<1> QED
  BY <1>2, LifecycleAssumption DEF IsInner

\* A call that comes from outside.
LEMMA FreeAlone ==
  ASSUME FreeInv, stack = <<>>, NEW s \in AllSlots, NEW opts \in SUBSET Options,
         NEW h, h = Free(s, opts), Fine(h), Begins(h),
         \/ stack' = <<h>>
         \/ \E r \in Creates : stack' = <<h, r>>,
         UNCHANGED <<alive, stm, lists, phase, requests>>
  PROVE  FreeInv'
<1>1. TypeInv /\ ListInv /\ Idle /\ Resting(None, FALSE)
  BY Standing
<1>2. h \in Frees /\ h.pc = "enter"
  BY NewCall
<1>3. Resting(h.s, "IGNORE_ENCLOSING" \in h.opts)'
  BY <1>1, RestsOn DEF lists
<1>4. ~Frame("context")'
  BY <1>2, NotContext
<1>5. SameIds
  BY DEF SameIds
<1>6. ListInv'
  BY <1>1, <1>4, <1>5, ListsKept DEF lists
<1>7. \A x : (HasEntry(x)' <=> HasEntry(x)) /\ (Kept(x)' <=> Kept(x)) /\ (IsInner(x)' <=> IsInner(x))
  BY SameTests DEF lists, IsInner
<1>8. Fine(h)'
  BY <1>7 DEF Fine
<1>9. Begins(h)'
  BY <1>7 DEF Begins
<1>10. stack' \in Seq(Frames) => TypeInv'
  BY <1>1 DEF TypeInv, lists
<1> QED
  BY <1>2, <1>3, <1>6, <1>8, <1>9, <1>10, StartInv

LEMMA CloseInv ==
  ASSUME FreeInv, NEW s \in Slots, Close(s)
  PROVE  FreeInv'
<1>1. PICK h : h = Free(s, CloseOpts)
  OBVIOUS
<1>2. /\ stack = <<>> /\ s \in alive /\ stm[s].enclosing = None
      /\ stack' = <<h>> /\ UNCHANGED <<alive, stm, lists, phase, requests>>
  BY <1>1 DEF Close, Client, Quiet, Outer
<1>3. s \in AllSlots /\ CloseOpts \in SUBSET Options
  BY DEF AllSlots, Options, CloseOpts
<1>4. ~IsInner(s)
  BY <1>2, <1>3, Standing, NotInner
<1>5. /\ h.s = s /\ h.pc = "enter" /\ h.ctx = None
      /\ "RSRC_DTOR" \notin h.opts /\ "PRESERVE_HANDLE" \notin h.opts /\ "IGNORE_ENCLOSING" \notin h.opts
  BY <1>1, <1>3, NewCall DEF CloseOpts
<1>6. Fine(h)
  BY <1>2, <1>5, DistinctSlots DEF Fine
<1>7. Begins(h)
  BY <1>4, <1>5 DEF Begins
<1> QED
  BY <1>1, <1>2, <1>3, <1>6, <1>7, FreeAlone

LEMMA BrokenInv ==
  ASSUME FreeInv, NEW s \in PSlots, Broken(s)
  PROVE  FreeInv'
<1> DEFINE opts == CloseOpts \cup {"PERSISTENT", "RSRC_DTOR"}
<1>1. PICK h : h = Free(s, opts)
  OBVIOUS
<1>2. /\ stack = <<>> /\ s \in alive
      /\ stack' = <<h>> /\ UNCHANGED <<alive, stm, lists, phase, requests>>
  BY <1>1 DEF Broken, Client, Quiet
<1>3. s \in AllSlots /\ opts \in SUBSET Options
  BY DEF AllSlots, Options, CloseOpts
<1>5. /\ h.s = s /\ h.pc = "enter" /\ h.ctx = None /\ "PERSISTENT" \in h.opts
      /\ "RSRC_DTOR" \in h.opts /\ "PRESERVE_HANDLE" \notin h.opts /\ "IGNORE_ENCLOSING" \notin h.opts
  BY <1>1, <1>3, NewCall DEF CloseOpts
<1>6. Fine(h)
  BY <1>2, <1>5, DistinctSlots DEF Fine
<1>7. Begins(h)
  BY <1>5 DEF Begins
<1> QED
  BY <1>1, <1>2, <1>3, <1>6, <1>7, FreeAlone

\* A step that changes the FILE of one stream.
LEMMA CastInv ==
  ASSUME FreeInv, NEW s \in Slots, NEW release \in BOOLEAN, Cast(s, release)
  PROVE  FreeInv'
<1> DEFINE opts == CloseOpts \cup {"PRESERVE_HANDLE"}
<1>1. PICK h, t, r : /\ h = Free(s, opts) /\ t = stm[s]
                     /\ r = [t EXCEPT !.cookie = t.cookie \/ t.kind # "plain",
                                      !.given = release /\ t.kind = "plain"]
  OBVIOUS
<1>2. /\ stack = <<>> /\ s \in alive /\ t.enclosing = None
      /\ stm' = [stm EXCEPT ![s] = r] /\ stack' = IF release THEN <<h>> ELSE <<>>
      /\ UNCHANGED <<alive, lists, phase, requests>>
  BY <1>1 DEF Cast, Client, Quiet, Outer
<1>3. TypeInv /\ ListInv /\ Idle /\ Resting(None, FALSE)
  BY <1>2, Standing
<1>4. s \in AllSlots /\ t \in Streams /\ opts \in SUBSET Options
  BY <1>1, <1>3, StreamTypes DEF AllSlots, Options, CloseOpts
<1>5. /\ r \in Streams /\ r.kind = t.kind /\ r.rsrc = t.rsrc /\ r.in_free = t.in_free
      /\ r.enclosing = None /\ r.inner = t.inner /\ r.ctx = t.ctx /\ r.handle = t.handle
      /\ r.cookie = (t.cookie \/ t.kind # "plain") /\ r.given = (release /\ t.kind = "plain")
  <2>1. PICK b, d : b = (t.cookie \/ t.kind # "plain") /\ d = (release /\ t.kind = "plain")
    OBVIOUS
  <2>2. b \in BOOLEAN /\ d \in BOOLEAN
    BY <2>1
  <2>3. r = [t EXCEPT !.cookie = b, !.given = d]
    BY <1>1, <2>1
  <2>4. /\ r \in Streams /\ r.kind = t.kind /\ r.rsrc = t.rsrc /\ r.in_free = t.in_free
        /\ r.enclosing = t.enclosing /\ r.inner = t.inner /\ r.ctx = t.ctx /\ r.handle = t.handle
        /\ r.cookie = b /\ r.given = d
    BY <1>4, <2>2, <2>3 DEF Streams
  <2> QED
    BY <1>2, <2>1, <2>4
<1>6. Updates(s, r)
  BY <1>2, <1>3, <1>4, <1>5, StreamUpdate
<1>7. /\ \A x \in AllSlots : /\ stm'[x].inner = stm[x].inner /\ stm'[x].enclosing = stm[x].enclosing
                             /\ stm'[x].kind = stm[x].kind /\ stm'[x].in_free = stm[x].in_free
                             /\ stm'[x].ctx = stm[x].ctx /\ stm'[x].rsrc = stm[x].rsrc
                             /\ x # s => stm'[x] = stm[x]
      /\ stm'[s] = r /\ stm' \in [AllSlots -> Streams]
  BY <1>1, <1>2, <1>5, <1>6 DEF Updates
<1>8. ~IsInner(s)
  BY <1>1, <1>2, <1>3, <1>4, NotInner
<1>9. /\ h \in Frees /\ h.s = s /\ h.opts = opts /\ h.pc = "enter" /\ h.ctx = None
  BY <1>1, <1>4, NewCall
<1>10. ~Frame("context")'
  BY <1>2, <1>9, NotContext
<1>11. ListInv'
  BY <1>2, <1>3, <1>7, <1>10, ListsKept DEF lists, SameIds
<1>12. \A x : /\ (HasEntry(x)' <=> HasEntry(x)) /\ (Kept(x)' <=> Kept(x))
              /\ (IsInner(x)' <=> IsInner(x))
  BY <1>2, <1>7, SameTests DEF lists, IsInner, AllSlots
<1>13. ASSUME NEW x, NEW loose PROVE Resting(x, loose)'
  <2>1. \A y \in Slots : Linked(y, x, loose)'
    <3> SUFFICES ASSUME NEW y \in Slots PROVE Linked(y, x, loose)'
      OBVIOUS
    <3>1. Linked(y, None, FALSE) /\ y \in AllSlots
      BY <1>3 DEF Resting, AllSlots
    <3>2. /\ stm[y].inner # None => stm[y].inner \in AllSlots
          /\ stm[y].enclosing # None => stm[y].enclosing \in AllSlots
      BY <1>3, <3>1, StreamTypes DEF AllSlots
    <3>3. stm'[y].cookie => stm[y].cookie \/ y = s
      BY <1>7, <3>1
    <3> QED
      BY <1>1, <1>2, <1>7, <1>8, <1>12, <3>1, <3>2, <3>3 DEF Linked
  <2>2. \A y \in alive : (y \in Slots => HasEntry(y)) /\ (y \in PSlots => Kept(y))
    BY <1>3, LifecycleAssumption DEF Resting, TypeInv, AllSlots
  <2>3. Cleared'
    BY <1>2, <1>3, <1>7 DEF Resting, Cleared
  <2>4. \A y \in PSlots : y \in AllSlots /\ y # s
    BY DistinctSlots DEF AllSlots
  <2>5. \A y \in PSlots : stm'[y].enclosing = None /\ stm'[y].inner = None /\ ~stm'[y].cookie
    BY <1>3, <1>7, <2>4 DEF Resting
  <2>6. \A y \in AllSlots : stm'[y].in_free = 0
    BY <1>3, <1>7 DEF Resting
  <2> QED
    BY <1>2, <1>12, <2>1, <2>2, <2>3, <2>5, <2>6 DEF Resting
<1>14. stack' \in Seq(Frames) => TypeInv'
  BY <1>2, <1>3, <1>7 DEF TypeInv, lists
<1>15. CASE ~release
  BY <1>2, <1>11, <1>13, <1>14, <1>15, RestInv
<1>16. CASE release
  <2>1. Fine(h)'
    <3>1. HasEntry(s)'
      BY <1>2, <1>3, <1>12, LifecycleAssumption DEF Resting
    <3>2. stm'[s].cookie \/ (stm'[s].kind = "plain" /\ stm'[s].given)
      BY <1>5, <1>7, <1>16
    <3>3. s \in alive' /\ s \notin PSlots /\ "RSRC_DTOR" \notin opts
      BY <1>2, DistinctSlots DEF CloseOpts
    <3> QED
      BY <1>9, <3>1, <3>2, <3>3 DEF Fine
  <2>2. Begins(h)'
    BY <1>8, <1>9, <1>12 DEF Begins, CloseOpts
  <2> QED
    BY <1>2, <1>9, <1>11, <1>13, <1>14, <1>16, <2>1, <2>2, StartInv
<1> QED
  BY <1>15, <1>16
\* A step that changes a stream's ids, its handle or its FILE at most, or
\* clears what is not alive, and may drop the entry of x.
LEMMA RestsBut ==
  ASSUME TypeInv, Resting(None, FALSE), UNCHANGED alive, NEW x, NEW loose,
         \A y \in alive :
           /\ stm'[y].in_free = stm[y].in_free /\ stm'[y].kind = stm[y].kind
           /\ stm'[y].enclosing = stm[y].enclosing /\ stm'[y].inner = stm[y].inner
           /\ stm'[y].cookie => stm[y].cookie
           /\ y \in Slots /\ HasEntry(y) => HasEntry(y)' \/ y = x
           /\ y \in PSlots /\ Kept(y) => Kept(y)' \/ y = x,
         \A y \in AllSlots \ alive :
           /\ stm'[y].in_free = 0 /\ stm'[y].enclosing = None /\ stm'[y].inner = None
           /\ ~stm'[y].cookie /\ stm'[y].ctx = None /\ (stm'[y].handle => stm'[y].given)
  PROVE  Resting(x, loose)'
<1>1. \A y \in AllSlots :
        /\ stm'[y].in_free = 0
        /\ stm'[y].enclosing = stm[y].enclosing /\ stm'[y].inner = stm[y].inner
        /\ stm'[y].cookie => stm[y].cookie
  BY DEF Resting, Cleared
<1>2. \A y \in Slots : Linked(y, x, loose)'
  <2> SUFFICES ASSUME NEW y \in Slots PROVE Linked(y, x, loose)'
    OBVIOUS
  <2>1. Linked(y, None, FALSE) /\ y \in AllSlots
    BY DEF Resting, AllSlots
  <2>2. /\ stm[y].inner # None => stm[y].inner \in AllSlots
        /\ stm[y].enclosing # None => stm[y].enclosing \in AllSlots
    BY <2>1, StreamTypes DEF AllSlots
  <2>3. stm[y].inner # None => y \in alive
    BY <2>1 DEF Resting, Cleared
  <2>4. IsInner(y)' => IsInner(y)
    BY <1>1 DEF IsInner, AllSlots
  <2> QED
    BY <1>1, <2>1, <2>2, <2>3, <2>4, LifecycleAssumption DEF Linked
<1>3. \A y \in alive : (y \in Slots => HasEntry(y)) /\ (y \in PSlots => Kept(y))
  BY LifecycleAssumption DEF Resting, TypeInv, AllSlots
<1>4. Cleared'
  BY DEF Cleared
<1>5. \A y \in PSlots : stm'[y].enclosing = None /\ stm'[y].inner = None /\ ~stm'[y].cookie
  BY <1>1 DEF Resting, AllSlots
<1> QED
  BY <1>1, <1>2, <1>3, <1>4, <1>5 DEF Resting

LEMMA FcloseInv ==
  ASSUME FreeInv, NEW s \in Slots, Fclose(s)
  PROVE  FreeInv'
<1>1. PICK h, r1, r2 : h = Free(s, CloseOpts) /\ r1 = [stm[s] EXCEPT !.cookie = FALSE] /\ r2 = Fresh("none")
  OBVIOUS
<1>2. /\ stack = <<>>
      /\ \/ /\ s \in alive /\ stm[s].cookie
            /\ stm' = [stm EXCEPT ![s] = r1] /\ stack' = <<h>>
         \/ /\ s \notin alive
            /\ stm' = [stm EXCEPT ![s] = r2] /\ stack' = <<>>
      /\ UNCHANGED <<alive, lists, phase, requests>>
  BY <1>1 DEF Fclose, Client, Quiet, CookieCloser
<1>3. TypeInv /\ ListInv /\ Idle /\ Resting(None, FALSE)
  BY <1>2, Standing
<1>4. s \in AllSlots /\ stm[s] \in Streams /\ CloseOpts \in SUBSET Options
  BY <1>3, StreamTypes DEF AllSlots, Options, CloseOpts
<1>5. /\ r1 \in Streams /\ r1.kind = stm[s].kind /\ r1.rsrc = stm[s].rsrc /\ r1.in_free = stm[s].in_free
      /\ r1.enclosing = stm[s].enclosing /\ r1.inner = stm[s].inner /\ r1.ctx = stm[s].ctx
      /\ r1.cookie = FALSE
  BY <1>1, <1>4 DEF Streams
<1>6. /\ r2 \in Streams /\ r2.in_free = 0 /\ r2.enclosing = None /\ r2.inner = None
      /\ ~r2.cookie /\ r2.ctx = None /\ ~r2.handle
  BY <1>1, FreshStream DEF Kinds
<1>7. /\ h \in Frees /\ h.s = s /\ h.opts = CloseOpts /\ h.pc = "enter" /\ h.ctx = None
  BY <1>1, <1>4, NewCall
<1>8. ~Frame("context")'
  BY <1>2, <1>7, NotContext
<1>9. \A x : (HasEntry(x)' <=> HasEntry(x)) /\ (Kept(x)' <=> Kept(x))
  BY <1>2, SameTests DEF lists
<1>10. CASE s \in alive /\ stm[s].cookie /\ stm' = [stm EXCEPT ![s] = r1] /\ stack' = <<h>>
  <2>1. Updates(s, r1)
    BY <1>3, <1>4, <1>5, <1>10, StreamUpdate
  <2>2. SameIds
    BY <1>5, <2>1 DEF Updates, SameIds
  <2>3. ListInv'
    BY <1>2, <1>3, <1>8, <2>2, ListsKept DEF lists
  <2>4. Resting(h.s, "IGNORE_ENCLOSING" \in h.opts)'
    <3>1. \A y \in alive : y \in AllSlots
      BY <1>3 DEF TypeInv
    <3>2. \A y \in AllSlots \ alive : stm'[y] = stm[y]
      BY <1>10, <2>1 DEF Updates
    <3>3. Cleared
      BY <1>3 DEF Resting
    <3> QED
      BY <1>2, <1>3, <1>5, <1>9, <2>1, <3>1, <3>2, <3>3, RestsBut DEF Updates, Cleared
  <2>5. ~IsInner(s)'
    <3>1. ~IsInner(s)
      BY <1>3, <1>10 DEF Resting, Linked
    <3> QED
      BY <1>5, <2>1, <3>1 DEF IsInner, Updates, AllSlots
  <2>6. Fine(h)'
    BY <1>2, <1>7, <1>10, DistinctSlots DEF Fine, CloseOpts
  <2>7. Begins(h)'
    BY <1>7, <2>5 DEF Begins, CloseOpts
  <2>8. stack' \in Seq(Frames) => TypeInv'
    BY <1>2, <1>3, <2>1 DEF TypeInv, lists, Updates
  <2> QED
    BY <1>7, <1>10, <2>3, <2>4, <2>6, <2>7, <2>8, StartInv
<1>11. CASE s \notin alive /\ stm' = [stm EXCEPT ![s] = r2] /\ stack' = <<>>
  <2>1. Updates(s, r2)
    BY <1>3, <1>4, <1>6, <1>11, StreamUpdate
  <2>2. SameIds
    <3>1. stm[s].ctx = None
      BY <1>3, <1>4, <1>11 DEF Resting, Cleared
    <3> QED
      BY <1>6, <1>11, <2>1, <3>1 DEF Updates, SameIds
  <2>3. ListInv'
    BY <1>2, <1>3, <1>8, <2>2, ListsKept DEF lists
  <2>4. Resting(None, FALSE)'
    <3>1. \A y \in alive : y \in AllSlots /\ y # s
      BY <1>3, <1>11 DEF TypeInv
    <3>2. Cleared
      BY <1>3 DEF Resting
    <3>3. \A y \in AllSlots \ alive : stm'[y] = stm[y] \/ stm'[y] = r2
      BY <2>1 DEF Updates
    <3>4. \A y \in alive : stm'[y] = stm[y]
      BY <2>1, <3>1 DEF Updates
    <3>5. \A y \in AllSlots \ alive :
            /\ stm'[y].in_free = 0 /\ stm'[y].enclosing = None /\ stm'[y].inner = None
            /\ ~stm'[y].cookie /\ stm'[y].ctx = None /\ (stm'[y].handle => stm'[y].given)
      BY <1>6, <3>2, <3>3 DEF Cleared
    <3>6. alive' = alive
      BY <1>2
    <3> QED
      BY <1>3, <1>9, <3>4, <3>5, <3>6, RestsBut
  <2>5. stack' \in Seq(Frames) => TypeInv'
    BY <1>2, <1>3, <2>1 DEF TypeInv, lists, Updates
  <2> QED
    BY <1>11, <2>3, <2>4, <2>5, RestInv
<1> QED
  BY <1>2, <1>10, <1>11

\* The connection that is to be made anew waits alone.
LEMMA Waiting ==
  ASSUME FreeInv, stack # <<>>, Top.call = "create"
  PROVE  Pop = <<>> /\ TypeInv /\ ListInv /\ Idle /\ Resting(None, FALSE)
<1>1. /\ Len(stack) \in Nat \ {0} /\ Top = stack[1] /\ Pop \in Seq(Frames) /\ Len(Pop) = Len(stack) - 1
  BY StackTop DEF FreeInv
<1>2. 1 = Len(stack)
  BY <1>1 DEF FreeInv, CallInv, Shape
<1>a. \A k \in 1..Len(stack) : k = 1
  BY <1>1, <1>2
<1>3. \A k \in 1..Len(stack) : stack[k].call = "create"
  BY <1>1, <1>a
<1>4. Idle
  <2>1. \A k \in 1..Len(stack) : ~Works(k) /\ \A t : ~Closes(stack[k], t)
    BY <1>3 DEF Works, Closes
  <2> QED
    BY <2>1 DEF Idle, Freeing, WillClose, Frame
<1>5. Pop = <<>>
  <2>1. PICK p : p = Pop
    OBVIOUS
  <2>2. p \in Seq(Frames) /\ Len(p) = Len(stack) - 1
    BY <1>1, <2>1
  <2>3. Len(p) = 0
    BY <1>2, <2>2
  <2>4. p = <<>>
    BY <2>2, <2>3
  <2> QED
    BY <2>1, <2>4
<1> QED
  BY <1>4, <1>5, Rests DEF FreeInv

LEMMA XportCutInv ==
  ASSUME FreeInv, XportCut
  PROVE  FreeInv'
<1>1. /\ stack # <<>> /\ Top.call = "create" /\ stack' = Pop
      /\ UNCHANGED <<alive, stm, lists, phase, requests>>
  BY DEF XportCut
<1>2. stack' = <<>> /\ TypeInv /\ ListInv /\ Idle /\ Resting(None, FALSE)
  BY <1>1, Waiting
<1>3. ~Frame("context")'
  BY <1>2, NotContext
<1>4. ListInv'
  BY <1>1, <1>2, <1>3, ListsKept DEF lists, SameIds
<1>5. Resting(None, FALSE)'
  BY <1>1, <1>2, RestsOn DEF lists
<1>6. stack' \in Seq(Frames) => TypeInv'
  BY <1>1, <1>2 DEF TypeInv, lists
<1> QED
  BY <1>2, <1>4, <1>5, <1>6, RestInv

\* The resources are gone, or the last request is over.
LEMMA ShutdownInv ==
  ASSUME FreeInv, Shutdown \/ RequestEnd
  PROVE  FreeInv'
<1>1. /\ stack = <<>> /\ phase # "request" /\ phase' \in {"between", "down"} /\ stack' = stack
      /\ \A k \in 1..MaxId : regular[k] = None
      /\ UNCHANGED <<alive, stm, lists>>
  <2>1. FreeInv => DOMAIN regular = 1..MaxId
    BY DEF FreeInv, TypeInv
  <2> QED
    BY <2>1 DEF Shutdown, RequestEnd, Quiet, FreeInv, ListInv, Phases, lists
<1>2. TypeInv /\ ListInv /\ Idle /\ Resting(None, FALSE)
  BY <1>1, Standing
<1>3. ListInv'
  <2>1. Resources'
    BY <1>1, <1>2 DEF ListInv, Resources, IsListed, lists
  <2>2. Keeping' /\ Counted' /\ Phases'
    BY <1>1, <1>2 DEF ListInv, Keeping, Counted, Phases, lists
  <2> QED
    BY <2>1, <2>2 DEF ListInv
<1>4. Resting(None, FALSE)'
  BY <1>1, <1>2, RestsOn DEF lists
<1>5. stack' \in Seq(Frames) => TypeInv'
  BY <1>1, <1>2 DEF TypeInv, lists
<1> QED
  BY <1>1, <1>3, <1>4, <1>5, RestInv

\* Nothing is left of the last request when the next one begins.
LEMMA RequestStartInv ==
  ASSUME FreeInv, RequestStart
  PROVE  FreeInv'
<1>1. /\ stack = <<>> /\ phase = "between" /\ phase' = "request" /\ nextId' = 1 /\ stack' = stack
      /\ UNCHANGED <<alive, stm, regular, persistent, ctxs, held>>
  BY DEF RequestStart, Quiet
<1>2. TypeInv /\ ListInv /\ Idle /\ Resting(None, FALSE)
  BY <1>1, Standing
<1>3. \A k \in 1..MaxId : regular[k] = None
  BY <1>1, <1>2 DEF ListInv, Phases
<1>4. \A s \in alive : s \in PSlots /\ Kept(s)
  <2> SUFFICES ASSUME NEW s \in alive PROVE s \in PSlots /\ Kept(s)
    OBVIOUS
  <2>1. s \in AllSlots /\ s # None
    BY <1>2, LifecycleAssumption DEF TypeInv, AllSlots
  <2>2. ~HasEntry(s)
    BY <1>3 DEF HasEntry
  <2> QED
    BY <1>2, <2>1, <2>2 DEF Resting, AllSlots
<1>5. \A s \in alive : stm[s].rsrc = -1 /\ stm[s].ctx = None
  <2> SUFFICES ASSUME NEW s \in alive PROVE stm[s].rsrc = -1 /\ stm[s].ctx = None
    OBVIOUS
  <2>1. PICK p \in Pids : persistent[p] = s
    BY <1>4 DEF Kept
  <2>2. s # None
    BY <1>2, LifecycleAssumption DEF TypeInv, AllSlots
  <2> QED
    BY <1>1, <1>2, <2>1, <2>2 DEF ListInv, Keeping
<1>6. \A c \in Contexts : Users(c) = {} /\ ctxs[c] = 0
  <2>1. \A s \in AllSlots : stm[s].ctx = None
    BY <1>2, <1>5 DEF Resting, Cleared
  <2>2. \A c \in Contexts : ctxs[c] = 0
    BY <1>2, <1>3 DEF ListInv, Resources, TypeInv
  <2> QED
    BY <2>1, <2>2, LifecycleAssumption DEF Users
<1>7. ListInv'
  <2>1. Resources'
    <3>1. DOMAIN regular = 1..MaxId /\ \A s \in alive : stm[s].rsrc < 1
      BY <1>2, <1>5 DEF TypeInv
    <3> QED
      BY <1>1, <1>3, <1>6, <3>1 DEF Resources, IsListed
  <2>2. Keeping'
    BY <1>1, <1>2 DEF ListInv, Keeping
  <2>3. Counted'
    <3> SUFFICES ASSUME NEW c \in Contexts
                 PROVE  Cardinality(Users(c)') + Holds(c)' + Drops(c)' <= References(regular', ctxs'[c])
      BY DEF Counted
    <3>1. Users(c)' = {} /\ Holds(c)' = 0 /\ Drops(c)' = 0 /\ References(regular', ctxs'[c]) = 0
      BY <1>1, <1>2, <1>6 DEF Users, Holds, Drops, References, Frame, ListInv, Phases
    <3> QED
      BY <3>1, FS_EmptySet
  <2>4. Phases'
    BY <1>1 DEF Phases
  <2> QED
    BY <2>1, <2>2, <2>3, <2>4 DEF ListInv
<1>8. Resting(None, FALSE)'
  BY <1>1, <1>2, RestsOn
<1>9. stack' \in Seq(Frames) => TypeInv'
  BY <1>1, <1>2 DEF TypeInv
<1> QED
  BY <1>1, <1>7, <1>8, <1>9, RestInv
-----------------------------------------------------------------------------
(* References *)

LEMMA Least ==
  ASSUME NEW T, T \subseteq Nat, T # {}
  PROVE  Min(T) \in T /\ \A m \in T : Min(T) <= m
<1> DEFINE R == OpToRel(<, Nat)
<1>1. IsWellFoundedOn(R, Nat)
  BY NatLessThanWellFounded
<1>2. \A x, y \in Nat : x < y => <<x, y>> \in R
  BY DEF OpToRel
<1> HIDE DEF R
<1>3. PICK n \in T : \A m \in T : ~(<<m, n>> \in R)
  BY <1>1, WFMin
<1>4. \A m \in T : ~(m < n)
  BY <1>2, <1>3
<1>5. \A m \in T : n <= m
  BY <1>3, <1>4
<1> QED
  BY <1>3, <1>5 DEF Min

LEMMA Greatest ==
  ASSUME NEW n \in Nat, NEW T, T \subseteq 1..n, T # {}
  PROVE  Max(T) \in T /\ \A m \in T : m <= Max(T)
<1> DEFINE D == {n - x : x \in T}
<1>1. D \subseteq Nat /\ D # {}
  <2>1. \A x \in T : n - x \in Nat
    OBVIOUS
  <2>2. PICK x \in T : TRUE
    OBVIOUS
  <2>3. n - x \in D
    OBVIOUS
  <2> QED
    BY <2>1, <2>3
<1>2. Min(D) \in D /\ \A d \in D : Min(D) <= d
  BY <1>1, Least
<1>3. PICK x \in T : n - x = Min(D)
  BY <1>2
<1>4. \A m \in T : n - x <= n - m
  BY <1>2, <1>3
<1>5. \A m \in T : x >= m
  BY <1>4
<1>6. \E y \in T : \A m \in T : y >= m
  BY <1>5
<1>7. Max(T) \in T /\ \A m \in T : Max(T) >= m
  BY <1>6 DEF Max
<1> QED
  BY <1>7

LEMMA EntriesKept ==
  ASSUME TypeInv, Resources, SameEntries(regular'), UNCHANGED <<alive, nextId, ctxs>>,
         \A x \in alive :
           \/ stm'[x].rsrc = stm[x].rsrc
           \/ /\ x \notin Slots /\ stm'[x].rsrc \in 1..MaxId
              /\ regular[stm'[x].rsrc] # None /\ regular[stm'[x].rsrc].ptr = x
  PROVE  Resources' /\ \A x : HasEntry(x)' <=> HasEntry(x)
<1>1. \A k \in 1..MaxId : (regular'[k] = None <=> regular[k] = None)
                            /\ (regular'[k] # None => regular'[k].ptr = regular[k].ptr)
  BY DEF SameEntries
<1>2. DOMAIN regular' = 1..MaxId /\ DOMAIN regular = 1..MaxId
  BY DEF SameEntries, TypeInv
<1>3. \A x : HasEntry(x)' <=> HasEntry(x)
  BY <1>1 DEF HasEntry
<1>4. \A k \in 1..MaxId : regular'[k] # None =>
       /\ k < nextId
       /\ regular'[k].ptr \in Slots => regular'[k].ptr \in alive /\ stm'[regular'[k].ptr].rsrc = k
       /\ regular'[k].ptr \in Contexts => ctxs[regular'[k].ptr] = k
  BY <1>1 DEF Resources
<1>5. \A x \in alive : /\ stm'[x].rsrc < nextId
                       /\ IsListed(stm[x].rsrc)' => regular'[stm'[x].rsrc].ptr = x
  BY <1>1, <1>2 DEF Resources, IsListed
<1>6. \A c \in Contexts : ctxs[c] # 0 => regular'[ctxs[c]] # None /\ regular'[ctxs[c]].ptr = c
  BY <1>1, LifecycleAssumption DEF Resources, TypeInv
<1> QED
  BY <1>3, <1>4, <1>5, <1>6 DEF Resources

\* One more reference to the entry at id.
Bumped(list, id) == [list EXCEPT ![id].refcount = @ + 1]
OneRefMore(l, list, id) ==
  /\ l \in [1..MaxId -> Entries \cup {None}]
  /\ l[id].refcount = list[id].refcount + 1 /\ l[id].ptr = list[id].ptr /\ l[id] # None
  /\ \A k \in 1..MaxId : k # id => l[k] = list[k]

LEMMA OneMore ==
  ASSUME NEW list \in [1..MaxId -> Entries \cup {None}], NEW id \in 1..MaxId, list[id] # None
  PROVE  OneRefMore(Bumped(list, id), list, id)
<1> DEFINE l == Bumped(list, id)
<1>1. PICK e, d : e = list[id] /\ d = [e EXCEPT !.refcount = @ + 1]
  OBVIOUS
<1>2. e \in Entries
  BY <1>1
<1>3. d \in Entries /\ d.ptr = e.ptr /\ d.refcount = e.refcount + 1
  BY <1>1, <1>2 DEF Entries
<1>4. d # None
  BY <1>3, EntryFacts
<1>5. l = [list EXCEPT ![id] = d]
  BY <1>1 DEF Bumped
<1> HIDE DEF l
<1>6. OneRefMore(l, list, id)
  BY <1>1, <1>3, <1>4, <1>5 DEF OneRefMore
<1> QED
  BY <1>6 DEF l

LEMMA CountTypes ==
  ASSUME TypeInv, Resources, NEW c \in Contexts
  PROVE  /\ Cardinality(Users(c)) \in Nat /\ Holds(c) \in {0, 1} /\ Drops(c) \in {0, 1}
         /\ ctxs[c] # 0 => /\ ctxs[c] \in 1..MaxId /\ regular[ctxs[c]] # None
                           /\ regular[ctxs[c]].ptr = c /\ regular[ctxs[c]] \in Entries
         /\ References(regular, ctxs[c]) \in Nat
<1>1. Cardinality(Users(c)) \in Nat /\ Holds(c) \in {0, 1} /\ Drops(c) \in {0, 1}
  BY UsersFinite DEF Holds, Drops
<1>2. ctxs[c] # 0 => /\ ctxs[c] \in 1..MaxId /\ regular[ctxs[c]] # None
                     /\ regular[ctxs[c]].ptr = c /\ regular[ctxs[c]] \in Entries
  <2>1. ctxs[c] \in 0..MaxId
    BY DEF TypeInv
  <2>2. ctxs[c] # 0 => ctxs[c] \in 1..MaxId
    BY <2>1, LifecycleAssumption
  <2> QED
    BY <2>2 DEF Resources, TypeInv
<1>3. References(regular, ctxs[c]) \in Nat
  BY <1>2, EntryFacts DEF References
<1> QED
  BY <1>1, <1>2, <1>3

\* A context that is held or used is there.
LEMMA ContextThere ==
  ASSUME TypeInv, Resources, Counted, phase = "request", NEW c \in Contexts,
         c \in held \/ (\E s \in AllSlots : stm[s].ctx = c) \/ Drops(c) = 1
  PROVE  /\ ctxs[c] \in 1..MaxId /\ regular[ctxs[c]] # None
         /\ regular[ctxs[c]].ptr = c /\ regular[ctxs[c]] \in Entries
<1>1. Cardinality(Users(c)) + Holds(c) + Drops(c) <= References(regular, ctxs[c])
  BY DEF Counted
<1>2. Cardinality(Users(c)) \in Nat /\ Holds(c) \in {0, 1} /\ Drops(c) \in {0, 1}
  BY CountTypes
<1>3. Cardinality(Users(c)) > 0 \/ Holds(c) = 1 \/ Drops(c) = 1
  <2>1. CASE c \in held
    BY <2>1 DEF Holds
  <2>2. CASE \E s \in AllSlots : stm[s].ctx = c
    <3>1. Users(c) # {} /\ IsFiniteSet(Users(c))
      BY <2>2, UsersFinite DEF Users
    <3>2. Cardinality(Users(c)) # 0
      BY <3>1, FS_EmptySet
    <3> QED
      BY <1>2, <3>2
  <2> QED
    BY <2>1, <2>2
<1>4. References(regular, ctxs[c]) # 0
  <2>1. References(regular, ctxs[c]) \in Nat
    BY CountTypes
  <2> QED
    BY <1>1, <1>2, <1>3, <2>1
<1>5. ctxs[c] # 0
  BY <1>4 DEF References
<1> QED
  BY <1>5, CountTypes
LEMMA AddRefInv ==
  ASSUME FreeInv, NEW s \in Slots, AddRef(s)
  PROVE  FreeInv'
<1>1. PICK id : id = stm[s].rsrc
  OBVIOUS
<1>2. /\ stack = <<>> /\ stack' = stack /\ phase = "request" /\ IsListed(id)
      /\ regular' = [regular EXCEPT ![id].refcount = @ + 1]
      /\ UNCHANGED <<alive, stm, nextId, persistent, ctxs, held, phase, requests>>
  BY <1>1 DEF AddRef, Client, Quiet
<1>3. TypeInv /\ ListInv /\ Idle /\ Resting(None, FALSE)
  BY <1>2, Standing
<1>4. id \in 1..MaxId /\ regular[id] # None /\ regular \in [1..MaxId -> Entries \cup {None}]
  BY <1>2, <1>3 DEF IsListed, TypeInv
<1>5. /\ regular' \in [1..MaxId -> Entries \cup {None}]
      /\ regular'[id].refcount = regular[id].refcount + 1
      /\ regular'[id].ptr = regular[id].ptr /\ regular'[id] # None
      /\ \A k \in 1..MaxId : k # id => regular'[k] = regular[k]
  <2>1. OneRefMore(Bumped(regular, id), regular, id)
    BY <1>4, OneMore
  <2>2. regular' = Bumped(regular, id)
    BY <1>2 DEF Bumped
  <2> QED
    BY <2>1, <2>2 DEF OneRefMore
<1>6. SameEntries(regular')
  BY <1>4, <1>5 DEF SameEntries
<1>7. Resources' /\ \A x : HasEntry(x)' <=> HasEntry(x)
  BY <1>2, <1>3, <1>6, EntriesKept DEF ListInv
<1>8. Counted'
  <2> SUFFICES ASSUME NEW c \in Contexts
               PROVE  Cardinality(Users(c)') + Holds(c)' + Drops(c)' <= References(regular', ctxs'[c])
    BY DEF Counted
  <2>1. Users(c)' = Users(c) /\ Holds(c)' = Holds(c) /\ Drops(c)' = Drops(c)
    BY <1>2 DEF Users, Holds, Drops, Frame, Top
  <2>2. Cardinality(Users(c)) + Holds(c) + Drops(c) <= References(regular, ctxs[c])
    BY <1>2, <1>3 DEF ListInv, Counted
  <2>3. /\ Cardinality(Users(c)) \in Nat /\ Holds(c) \in {0, 1} /\ Drops(c) \in {0, 1}
        /\ ctxs[c] # 0 => ctxs[c] \in 1..MaxId /\ regular[ctxs[c]] # None /\ regular[ctxs[c]] \in Entries
        /\ References(regular, ctxs[c]) \in Nat
    BY <1>3, CountTypes DEF ListInv
  <2>4. References(regular', ctxs[c]) >= References(regular, ctxs[c])
    <3>1. CASE ctxs[c] = id
      BY <1>4, <1>5, <2>3, <3>1, EntryFacts DEF References
    <3>2. CASE ctxs[c] # id
      <4>1. References(regular', ctxs[c]) = References(regular, ctxs[c])
        BY <1>5, <2>3, <3>2 DEF References
      <4> QED
        BY <2>3, <4>1
    <3> QED
      BY <3>1, <3>2
  <2>5. References(regular', ctxs[c]) \in Nat
    <3>1. ctxs[c] # 0 => regular'[ctxs[c]] # None /\ regular'[ctxs[c]] \in Entries
      BY <1>6, <2>3 DEF SameEntries
    <3> QED
      BY <3>1, EntryFacts DEF References
  <2> QED
    BY <1>2, <2>1, <2>2, <2>3, <2>4, <2>5
<1>9. ListInv'
  <2>1. Keeping' /\ Phases'
    BY <1>2, <1>3 DEF ListInv, Keeping, Phases
  <2> QED
    BY <1>7, <1>8, <2>1 DEF ListInv
<1>10. Resting(None, FALSE)'
  <2>1. \A y \in alive : y \in AllSlots
    BY <1>3 DEF TypeInv
  <2>2. \A y : Kept(y)' <=> Kept(y)
    BY <1>2, SameTests
  <2>3. Cleared
    BY <1>3 DEF Resting
  <2> QED
    BY <1>2, <1>3, <1>7, <2>1, <2>2, <2>3, RestsBut DEF Cleared
<1>11. stack' \in Seq(Frames) => TypeInv'
  BY <1>2, <1>3, <1>5 DEF TypeInv
<1> QED
  BY <1>2, <1>9, <1>10, <1>11, RestInv

\* A step from outside that drops the reference at id, and frees the stream
\* there when it was the last one.
LEMMA DropAlone ==
  ASSUME FreeInv, stack = <<>>, NEW list, SameEntries(list), NEW id \in 1..MaxId, list[id] # None,
         Delete(list, id, <<>>), UNCHANGED <<alive, nextId, persistent, phase, requests>>,
         stm' \in [AllSlots -> Streams], held' \subseteq Contexts,
         \A x \in alive :
           /\ stm'[x].in_free = stm[x].in_free /\ stm'[x].kind = stm[x].kind
           /\ stm'[x].enclosing = stm[x].enclosing /\ stm'[x].inner = stm[x].inner
           /\ stm'[x].cookie = stm[x].cookie /\ stm'[x].rsrc = stm[x].rsrc,
         \A x \in AllSlots \ alive : stm'[x] = stm[x],
         phase # "request" => UNCHANGED <<stm, held>>,
         Dropped(list, list[id]) /\ ~Frame("context")' => Counted'
  PROVE  FreeInv'
<1>1. TypeInv /\ ListInv /\ Idle /\ Resting(None, FALSE)
  BY Standing
<1>2. PICK e, s, opts, h : /\ e = list[id] /\ s = e.ptr /\ opts = CloseOpts \cup {"RSRC_DTOR"}
                           /\ h = Free(s, opts)
  OBVIOUS
<1>3. Dropped(list, e)
  BY <1>1, <1>2, Deleting DEF ListInv
<1>4. stack' = IF LastRef(e) /\ s \in Slots THEN <<h>> \o <<>> ELSE <<>>
  BY <1>2 DEF Delete
<1>5. <<h>> \o <<>> = <<h>>
  OBVIOUS
<1>6. opts \in SUBSET Options
  BY <1>2 DEF Options, CloseOpts
<1>7. s \in Slots => /\ h \in Frees /\ h.s = s /\ h.opts = opts /\ h.pc = "enter" /\ h.ctx = None
                     /\ s \in AllSlots
  BY <1>2, <1>6, NewCall DEF AllSlots
<1>8. ~Frame("context")'
  BY <1>4, <1>5, <1>7, NotContext
<1>9. ListInv'
  <2>1. Resources' /\ Counted'
    BY <1>2, <1>3, <1>8 DEF Dropped
  <2>2. Keeping'
    BY <1>1 DEF ListInv, Keeping
  <2>3. Phases'
    BY <1>1, <1>3 DEF ListInv, Phases, Dropped
  <2> QED
    BY <2>1, <2>2, <2>3 DEF ListInv
<1>10. ASSUME NEW x, NEW loose, LastRef(e) /\ s \in Slots => x = s PROVE Resting(x, loose)'
  <2>1. \A y \in alive : y \in Slots /\ HasEntry(y) => HasEntry(y)' \/ y = x
    BY <1>2, <1>3, <1>10 DEF Dropped
  <2>2. \A y : Kept(y)' <=> Kept(y)
    BY SameTests
  <2>3. Cleared
    BY <1>1 DEF Resting
  <2> QED
    BY <1>1, <2>1, <2>2, <2>3, RestsBut DEF Cleared
<1>11. stack' \in Seq(Frames) => TypeInv'
  BY <1>1, <1>3 DEF TypeInv, Dropped
<1>12. CASE LastRef(e) /\ s \in Slots
  <2>1. Resting(h.s, "IGNORE_ENCLOSING" \in h.opts)'
    BY <1>7, <1>10, <1>12
  <2>2. s \in alive /\ ~HasEntry(s)'
    <3>1. regular[id] # None /\ regular[id].ptr = s
      BY <1>2 DEF SameEntries
    <3> QED
      BY <1>1, <1>2, <1>3, <1>12, <3>1 DEF Dropped, ListInv, Resources
  <2>3. "PRESERVE_HANDLE" \notin opts /\ "IGNORE_ENCLOSING" \notin opts /\ "RSRC_DTOR" \in opts
    BY <1>2 DEF CloseOpts
  <2>4. Fine(h)'
    BY <1>7, <1>12, <2>2, <2>3, DistinctSlots DEF Fine
  <2>5. Begins(h)'
    BY <1>7, <1>12, <2>3 DEF Begins
  <2> QED
    BY <1>4, <1>5, <1>7, <1>9, <1>11, <1>12, <2>1, <2>4, <2>5, StartInv
<1>13. CASE ~(LastRef(e) /\ s \in Slots)
  <2>1. Resting(None, FALSE)' /\ stack' = <<>>
    BY <1>4, <1>10, <1>13
  <2> QED
    BY <1>9, <1>11, <2>1, RestInv
<1> QED
  BY <1>12, <1>13

LEMMA SameList ==
  ASSUME TypeInv
  PROVE  SameEntries(regular)
BY DEF TypeInv, SameEntries

LEMMA DropRefInv ==
  ASSUME FreeInv, NEW s \in Slots, DropRef(s)
  PROVE  FreeInv'
<1>1. PICK id : id = stm[s].rsrc
  OBVIOUS
<1>2. /\ stack = <<>> /\ phase = "request" /\ IsListed(id) /\ s \in alive
      /\ Delete(regular, id, <<>>)
      /\ UNCHANGED <<alive, stm, nextId, persistent, held, phase, requests>>
  BY <1>1 DEF DropRef, Client, Quiet, Outer
<1>3. TypeInv /\ ListInv
  BY <1>2, Standing
<1>4. /\ id \in 1..MaxId /\ regular[id] # None /\ SameEntries(regular) /\ regular[id].ptr = s
  BY <1>1, <1>2, <1>3, SameList DEF IsListed, TypeInv, ListInv, Resources
<1>5. ASSUME Dropped(regular, regular[id]), ~Frame("context")' PROVE Counted'
  <2> SUFFICES ASSUME NEW c \in Contexts
               PROVE  Cardinality(Users(c)') + Holds(c)' + Drops(c)' <= References(regular', ctxs'[c])
    BY DEF Counted
  <2>1. Users(c)' = Users(c) /\ Holds(c)' = Holds(c) /\ Drops(c)' = 0
    BY <1>2, <1>5 DEF Users, Holds, Drops
  <2>2. Cardinality(Users(c)) + Holds(c) + Drops(c) <= References(regular, ctxs[c])
    BY <1>2, <1>3 DEF ListInv, Counted
  <2>3. /\ Cardinality(Users(c)) \in Nat /\ Holds(c) \in {0, 1} /\ Drops(c) \in {0, 1}
        /\ References(regular, ctxs[c]) \in Nat
    BY <1>3, CountTypes DEF ListInv
  <2>4. References(regular', ctxs'[c]) = References(regular, ctxs[c])
    <3>1. c # s
      BY LifecycleAssumption
    <3>2. References(regular', ctxs'[c]) = References(regular, ctxs[c]) - 0
      BY <1>4, <1>5, <3>1 DEF Dropped
    <3> QED
      BY <2>3, <3>2
  <2> QED
    BY <2>1, <2>2, <2>3, <2>4
<1>6. stm' \in [AllSlots -> Streams] /\ held' \subseteq Contexts
  BY <1>2, <1>3 DEF TypeInv
<1> QED
  BY <1>2, <1>4, <1>5, <1>6, DropAlone

LEMMA ContextDropInv ==
  ASSUME FreeInv, NEW c \in Contexts, ContextDrop(c)
  PROVE  FreeInv'
<1>1. /\ stack = <<>> /\ phase = "request" /\ c \in held /\ held' = held \ {c}
      /\ Delete(regular, ctxs[c], <<>>)
      /\ UNCHANGED <<alive, stm, nextId, persistent, phase, requests>>
  BY DEF ContextDrop, Client, Quiet
<1>2. TypeInv /\ ListInv
  BY <1>1, Standing
<1>3. PICK id : id = ctxs[c]
  OBVIOUS
<1>4. id \in 1..MaxId /\ regular[id] # None /\ regular[id].ptr = c /\ SameEntries(regular)
  BY <1>1, <1>2, <1>3, ContextThere, SameList DEF ListInv
<1>5. ASSUME Dropped(regular, regular[id]), ~Frame("context")' PROVE Counted'
  <2> SUFFICES ASSUME NEW d \in Contexts
               PROVE  Cardinality(Users(d)') + Holds(d)' + Drops(d)' <= References(regular', ctxs'[d])
    BY DEF Counted
  <2>1. Users(d)' = Users(d) /\ Drops(d)' = 0
    BY <1>1, <1>5 DEF Users, Drops
  <2>2. Cardinality(Users(d)) + Holds(d) + Drops(d) <= References(regular, ctxs[d])
    BY <1>1, <1>2 DEF ListInv, Counted
  <2>3. /\ Cardinality(Users(d)) \in Nat /\ Holds(d) \in {0, 1} /\ Drops(d) \in {0, 1}
        /\ References(regular, ctxs[d]) \in Nat
    BY <1>2, CountTypes DEF ListInv
  <2>4. References(regular', ctxs'[d]) = References(regular, ctxs[d]) - (IF d = c THEN 1 ELSE 0)
    BY <1>4, <1>5 DEF Dropped
  <2>5. CASE d = c
    <3>1. Holds(d) = 1 /\ Holds(d)' = 0
      BY <1>1, <2>5 DEF Holds
    <3>2. References(regular', ctxs'[d]) = References(regular, ctxs[d]) - 1
      BY <2>4, <2>5
    <3> QED
      BY <2>1, <2>2, <2>3, <3>1, <3>2
  <2>6. CASE d # c
    <3>1. Holds(d)' = Holds(d)
      BY <1>1, <2>6 DEF Holds
    <3>2. References(regular', ctxs'[d]) = References(regular, ctxs[d]) - 0
      BY <2>4, <2>6
    <3> QED
      BY <2>1, <2>2, <2>3, <3>1, <3>2
  <2> QED
    BY <2>5, <2>6
<1>6. stm' \in [AllSlots -> Streams] /\ held' \subseteq Contexts
  BY <1>1, <1>2 DEF TypeInv
<1> QED
  BY <1>1, <1>3, <1>4, <1>5, <1>6, DropAlone
\* One more reference to the context c.
LEMMA Refer ==
  ASSUME TypeInv, Resources, NEW c \in Contexts, ctxs[c] \in 1..MaxId, regular[ctxs[c]] # None,
         regular[ctxs[c]].ptr = c, NEW list, list = Referenced(regular, c)
  PROVE  /\ SameEntries(list)
         /\ \A d \in Contexts : References(list, ctxs[d]) = References(regular, ctxs[d])
                                                              + (IF d = c THEN 1 ELSE 0)
<1>1. PICK id : id = ctxs[c]
  OBVIOUS
<1>2. regular \in [1..MaxId -> Entries \cup {None}] /\ id \in 1..MaxId /\ regular[id] # None
  BY <1>1 DEF TypeInv
<1>3. list = Bumped(regular, id)
  BY <1>1 DEF Referenced, Bumped
<1>4. /\ list \in [1..MaxId -> Entries \cup {None}]
      /\ list[id].refcount = regular[id].refcount + 1 /\ list[id].ptr = regular[id].ptr /\ list[id] # None
      /\ \A k \in 1..MaxId : k # id => list[k] = regular[k]
  <2>1. OneRefMore(Bumped(regular, id), regular, id)
    BY <1>2, OneMore
  <2> QED
    BY <1>3, <2>1 DEF OneRefMore
<1>5. SameEntries(list)
  BY <1>2, <1>4 DEF SameEntries
<1>6. ASSUME NEW d \in Contexts
      PROVE  References(list, ctxs[d]) = References(regular, ctxs[d]) + (IF d = c THEN 1 ELSE 0)
  <2>1. /\ References(regular, ctxs[d]) \in Nat
        /\ ctxs[d] # 0 => ctxs[d] \in 1..MaxId /\ regular[ctxs[d]].ptr = d
    BY CountTypes
  <2>2. CASE d = c
    BY <1>1, <1>2, <1>4, <2>2 DEF References
  <2>3. CASE d # c
    <3>1. ctxs[d] # 0 => ctxs[d] # id
      BY <1>1, <2>1, <2>3
    <3>2. References(list, ctxs[d]) = References(regular, ctxs[d])
      BY <1>4, <2>1, <3>1 DEF References
    <3> QED
      BY <2>1, <2>3, <3>2
  <2> QED
    BY <2>2, <2>3
<1> QED
  BY <1>5, <1>6

LEMMA ContextSetInv ==
  ASSUME FreeInv, NEW s \in Slots, NEW c \in Contexts, ContextSet(s, c)
  PROVE  FreeInv'
<1>1. PICK old, list, r : old = stm[s].ctx /\ list = Referenced(regular, c) /\ r = [stm[s] EXCEPT !.ctx = c]
  OBVIOUS
<1>2. /\ stack = <<>> /\ phase = "request" /\ s \in alive /\ c \in held
      /\ stm' = [stm EXCEPT ![s] = r]
      /\ IF old = None THEN regular' = list /\ UNCHANGED <<ctxs, stack>>
         ELSE Delete(list, ctxs[old], <<>>)
      /\ UNCHANGED <<alive, nextId, persistent, held, phase, requests>>
  BY <1>1 DEF ContextSet, Client, Quiet, Outer
<1>3. TypeInv /\ ListInv /\ Idle /\ Resting(None, FALSE)
  BY <1>2, Standing
<1>4. s \in AllSlots /\ stm[s] \in Streams
  BY <1>3, StreamTypes DEF AllSlots
<1>5. /\ r \in Streams /\ r.ctx = c /\ r.kind = stm[s].kind /\ r.rsrc = stm[s].rsrc
      /\ r.in_free = stm[s].in_free /\ r.enclosing = stm[s].enclosing /\ r.inner = stm[s].inner
      /\ r.cookie = stm[s].cookie
  BY <1>1, <1>4 DEF Streams
<1>6. Updates(s, r)
  BY <1>2, <1>3, <1>4, <1>5, StreamUpdate
<1>7. /\ \A x \in alive :
           /\ stm'[x].in_free = stm[x].in_free /\ stm'[x].kind = stm[x].kind
           /\ stm'[x].enclosing = stm[x].enclosing /\ stm'[x].inner = stm[x].inner
           /\ stm'[x].cookie = stm[x].cookie /\ stm'[x].rsrc = stm[x].rsrc
      /\ \A x \in AllSlots \ alive : stm'[x] = stm[x]
      /\ stm' \in [AllSlots -> Streams]
  BY <1>2, <1>3, <1>5, <1>6 DEF Updates, TypeInv
<1>8. /\ SameEntries(list)
      /\ \A d \in Contexts : References(list, ctxs[d]) = References(regular, ctxs[d])
                                                           + (IF d = c THEN 1 ELSE 0)
  <2>1. ctxs[c] \in 1..MaxId /\ regular[ctxs[c]] # None /\ regular[ctxs[c]].ptr = c
    BY <1>2, <1>3, ContextThere DEF ListInv
  <2> QED
    BY <1>1, <1>3, <2>1, Refer DEF ListInv
<1>9. ASSUME NEW d \in Contexts
      PROVE  /\ Cardinality(Users(d)') <= Cardinality(Users(d)) + (IF d = c THEN 1 ELSE 0)
                                            - (IF d = old THEN 1 ELSE 0)
             /\ Cardinality(Users(d)) \in Nat /\ Cardinality(Users(d)') \in Nat
  <2>0. IsFiniteSet(Users(d)) /\ Cardinality(Users(d)) \in Nat
    BY UsersFinite
  <2>1. Users(d) \ {s} \subseteq Users(d)' /\ Users(d)' \subseteq Users(d) \cup {s}
    BY <1>4, <1>6 DEF Users, Updates
  <2>2. /\ s \in Users(d)' <=> d = c
        /\ s \in Users(d) <=> d = old
    BY <1>1, <1>4, <1>5, <1>6 DEF Users, Updates
  <2>3. CASE (d = c <=> d = old)
    <3>1. Users(d)' = Users(d)
      BY <2>1, <2>2, <2>3
    <3> QED
      BY <2>0, <2>3, <3>1
  <2>4. CASE d = c /\ d # old
    <3>1. Users(d)' = Users(d) \cup {s} /\ s \notin Users(d)
      BY <2>1, <2>2, <2>4
    <3>2. Cardinality(Users(d)') = Cardinality(Users(d)) + 1
      BY <2>0, <3>1, FS_AddElement
    <3> QED
      BY <2>0, <2>4, <3>2
  <2>5. CASE d # c /\ d = old
    <3>1. Users(d)' = Users(d) \ {s} /\ s \in Users(d)
      BY <2>1, <2>2, <2>5
    <3>2. Cardinality(Users(d)') = Cardinality(Users(d)) - 1 /\ Cardinality(Users(d)') \in Nat
      BY <2>0, <3>1, FS_RemoveElement, FS_CardinalityType
    <3> QED
      BY <2>0, <2>5, <3>2
  <2> QED
    BY <2>3, <2>4, <2>5
<1>10. ASSUME NEW d \in Contexts
       PROVE  /\ Holds(d)' = Holds(d) /\ Holds(d) \in {0, 1} /\ Drops(d) = 0
              /\ Cardinality(Users(d)) + Holds(d) <= References(regular, ctxs[d])
              /\ References(regular, ctxs[d]) \in Nat
  <2>1. Drops(d) = 0 /\ Holds(d)' = Holds(d)
    BY <1>2, <1>3 DEF Idle, Drops, Holds
  <2>2. Cardinality(Users(d)) + Holds(d) + Drops(d) <= References(regular, ctxs[d])
    BY <1>2, <1>3 DEF ListInv, Counted
  <2>3. /\ References(regular, ctxs[d]) \in Nat /\ Holds(d) \in {0, 1}
        /\ Cardinality(Users(d)) \in Nat
    BY <1>3, CountTypes DEF ListInv
  <2> QED
    BY <2>1, <2>2, <2>3
<1>11. CASE old = None
  <2>0. /\ regular' = list /\ UNCHANGED <<ctxs, stack>>
    BY <1>2, <1>11
  <2>1. Resources' /\ \A x : HasEntry(x)' <=> HasEntry(x)
    BY <1>2, <1>3, <1>7, <1>8, <2>0, EntriesKept DEF ListInv
  <2>2. ~Frame("context")'
    BY <1>2, <2>0, NotContext
  <2>3. Counted'
    <3> SUFFICES ASSUME NEW d \in Contexts
                 PROVE  Cardinality(Users(d)') + Holds(d)' + Drops(d)' <= References(regular', ctxs'[d])
      BY DEF Counted
    <3>1. Drops(d)' = 0 /\ d # old
      BY <1>11, <2>2, LifecycleAssumption DEF Drops
    <3>2. References(regular', ctxs'[d]) = References(regular, ctxs[d]) + (IF d = c THEN 1 ELSE 0)
      BY <1>8, <2>0
    <3>3. Cardinality(Users(d)') <= Cardinality(Users(d)) + (IF d = c THEN 1 ELSE 0)
      BY <1>9, <3>1
    <3>4. /\ Cardinality(Users(d)) \in Nat /\ Cardinality(Users(d)') \in Nat
          /\ Holds(d)' = Holds(d) /\ Holds(d) \in {0, 1} /\ References(regular, ctxs[d]) \in Nat
          /\ Cardinality(Users(d)) + Holds(d) <= References(regular, ctxs[d])
      BY <1>9, <1>10
    <3>5. CASE d = c
      BY <3>1, <3>2, <3>3, <3>4, <3>5
    <3>6. CASE d # c
      BY <3>1, <3>2, <3>3, <3>4, <3>6
    <3> QED
      BY <3>5, <3>6
  <2>4. ListInv'
    <3>1. Keeping' /\ Phases'
      BY <1>2, <1>3 DEF ListInv, Keeping, Phases
    <3> QED
      BY <2>1, <2>3, <3>1 DEF ListInv
  <2>5. Resting(None, FALSE)'
    <3>1. \A y : Kept(y)' <=> Kept(y)
      BY <1>2, SameTests
    <3>2. Cleared
      BY <1>3 DEF Resting
    <3>3. \A y \in AllSlots \ alive :
            /\ stm'[y].in_free = 0 /\ stm'[y].enclosing = None /\ stm'[y].inner = None
            /\ ~stm'[y].cookie /\ stm'[y].ctx = None /\ (stm'[y].handle => stm'[y].given)
      BY <1>7, <3>2 DEF Cleared
    <3>4. alive' = alive
      BY <1>2
    <3> QED
      BY <1>3, <1>7, <2>1, <3>1, <3>3, <3>4, RestsBut
  <2>6. stack' \in Seq(Frames) => TypeInv'
    BY <1>2, <1>3, <1>7, <1>8, <2>0 DEF TypeInv, SameEntries
  <2> QED
    BY <1>2, <2>0, <2>4, <2>5, <2>6, RestInv
<1>12. CASE old # None
  <2>0. Delete(list, ctxs[old], <<>>) /\ old \in Contexts
    BY <1>1, <1>2, <1>3, <1>4, <1>12, StreamTypes
  <2>1. PICK id : id = ctxs[old]
    OBVIOUS
  <2>2. id \in 1..MaxId /\ list[id] # None /\ list[id].ptr = old
    <3>1. id \in 1..MaxId /\ regular[id] # None /\ regular[id].ptr = old
      BY <1>1, <1>2, <1>3, <1>4, <2>0, <2>1, ContextThere DEF ListInv
    <3> QED
      BY <1>8, <3>1 DEF SameEntries
  <2>3. ASSUME Dropped(list, list[id]), ~Frame("context")' PROVE Counted'
    <3> SUFFICES ASSUME NEW d \in Contexts
                 PROVE  Cardinality(Users(d)') + Holds(d)' + Drops(d)' <= References(regular', ctxs'[d])
      BY DEF Counted
    <3>1. Drops(d)' = 0
      BY <2>3 DEF Drops
    <3>2. References(regular', ctxs'[d]) = References(list, ctxs[d]) - (IF d = old THEN 1 ELSE 0)
      BY <2>2, <2>3 DEF Dropped
    <3>3. References(list, ctxs[d]) = References(regular, ctxs[d]) + (IF d = c THEN 1 ELSE 0)
      BY <1>8
    <3> QED
      BY <1>9, <1>10, <3>1, <3>2, <3>3
  <2>4. held' \subseteq Contexts
    BY <1>2, <1>3 DEF TypeInv
  <2>5. FreeInv /\ stack = <<>> /\ Delete(list, id, <<>>)
    BY <1>2, <2>0, <2>1
  <2> QED
    BY <1>2, <1>7, <1>8, <2>2, <2>3, <2>4, <2>5, DropAlone
<1> QED
  BY <1>11, <1>12

LEMMA DestroyResourceInv ==
  ASSUME FreeInv, DestroyResource
  PROVE  FreeInv'
<1>1. PICK live, id : live = {k \in DOMAIN regular : regular[k] # None} /\ id = Max(live)
  OBVIOUS
<1>2. /\ stack = <<>> /\ phase = "destroying" /\ live # {}
      /\ regular' = [regular EXCEPT ![id] = None]
      /\ ctxs' = IF regular[id].ptr \in Contexts THEN [ctxs EXCEPT ![regular[id].ptr] = 0] ELSE ctxs
      /\ stack' = IF regular[id].ptr \in Slots
                  THEN <<Free(regular[id].ptr, CloseOpts \cup {"RSRC_DTOR"})>> ELSE <<>>
      /\ UNCHANGED <<alive, stm, nextId, persistent, held, phase, requests>>
  BY <1>1 DEF DestroyResource, Quiet
<1>3. TypeInv /\ ListInv
  BY <1>2, Standing
<1>4. id \in 1..MaxId /\ regular[id] # None
  <2>1. DOMAIN regular = 1..MaxId /\ MaxId \in Nat
    BY <1>3, LifecycleAssumption DEF TypeInv
  <2>2. live \subseteq 1..MaxId
    BY <1>1, <2>1
  <2>3. id \in live
    BY <1>1, <1>2, <2>1, <2>2, Greatest
  <2> QED
    BY <1>1, <2>2, <2>3
<1>5. PICK e, d, list : /\ e = regular[id] /\ d = [e EXCEPT !.refcount = 1]
                        /\ list = [regular EXCEPT ![id] = d]
  OBVIOUS
<1>6. e \in Entries /\ d \in Entries /\ d.ptr = e.ptr /\ d.refcount = 1 /\ d # None
  <2>1. e \in Entries
    BY <1>3, <1>4, <1>5 DEF TypeInv
  <2>2. d \in Entries /\ d.ptr = e.ptr /\ d.refcount = 1
    BY <1>5, <2>1 DEF Entries
  <2> QED
    BY <2>1, <2>2, EntryFacts
<1>7. SameEntries(list) /\ list[id] = d
  BY <1>3, <1>4, <1>5, <1>6 DEF SameEntries, TypeInv
<1>8. Delete(list, id, <<>>)
  <2>1. LastRef(list[id])
    BY <1>6, <1>7 DEF LastRef
  <2>2. regular' = [list EXCEPT ![id] = None]
    BY <1>2, <1>3, <1>4, <1>5, <1>7 DEF TypeInv, SameEntries
  <2>3. list[id].ptr = regular[id].ptr
    BY <1>5, <1>6, <1>7
  <2>4. \A h : <<h>> \o <<>> = <<h>>
    OBVIOUS
  <2> QED
    BY <1>2, <2>1, <2>2, <2>3, <2>4 DEF Delete
<1>9. Counted'
  BY <1>2 DEF Counted
<1>10. stm' \in [AllSlots -> Streams] /\ held' \subseteq Contexts
  BY <1>2, <1>3 DEF TypeInv
<1> QED
  BY <1>2, <1>4, <1>6, <1>7, <1>8, <1>9, <1>10, DropAlone

LEMMA DestroyPersistentInv ==
  ASSUME FreeInv, NEW p \in Pids, DestroyPersistent(p)
  PROVE  FreeInv'
<1> DEFINE opts == CloseOpts \cup {"RSRC_DTOR"}
<1>1. PICK s, h : s = persistent[p] /\ h = Free(s, opts)
  OBVIOUS
<1>2. /\ stack = <<>> /\ phase = "down" /\ s # None /\ stack' = <<h>>
      /\ persistent' = [persistent EXCEPT ![p] = None]
      /\ UNCHANGED <<alive, stm, regular, nextId, ctxs, held, phase, requests>>
  BY <1>1 DEF DestroyPersistent, Quiet
<1>3. TypeInv /\ ListInv /\ Idle /\ Resting(None, FALSE)
  BY <1>2, Standing
<1>4. s \in PSlots /\ s \in AllSlots /\ s \in alive /\ opts \in SUBSET Options
  BY <1>1, <1>2, <1>3 DEF AllSlots, TypeInv, Options, CloseOpts, ListInv, Keeping
<1>5. h \in Frees /\ h.s = s /\ h.opts = opts /\ h.pc = "enter" /\ h.ctx = None
  BY <1>1, <1>4, NewCall
<1>6. /\ \A q \in Pids : persistent'[q] = IF q = p THEN None ELSE persistent[q]
      /\ persistent' \in [Pids -> PSlots \cup {None}]
  BY <1>2, <1>3 DEF TypeInv
<1>7. ~Kept(s)' /\ \A x : Kept(x) => Kept(x)' \/ x = s
  BY <1>1, <1>2, <1>3, <1>6 DEF Kept, ListInv, Keeping
<1>8. ListInv'
  BY <1>2, <1>3, <1>6 DEF ListInv, Resources, Keeping, Counted, Phases, IsListed
<1>9. Resting(h.s, "IGNORE_ENCLOSING" \in h.opts)'
  <2>1. Cleared
    BY <1>3 DEF Resting
  <2>2. \A x : HasEntry(x)' <=> HasEntry(x)
    BY <1>2, SameTests
  <2> QED
    BY <1>2, <1>3, <1>5, <1>7, <2>1, <2>2, RestsBut DEF Cleared
<1>10. Fine(h)'
  <2>1. s \in alive' /\ s \notin Slots
    BY <1>2, <1>4, DistinctSlots
  <2>2. "PRESERVE_HANDLE" \notin opts
    BY DEF CloseOpts
  <2> QED
    BY <1>5, <1>7, <2>1, <2>2 DEF Fine
<1>11. Begins(h)'
  BY <1>5 DEF Begins, CloseOpts
<1>12. stack' \in Seq(Frames) => TypeInv'
  BY <1>2, <1>3, <1>6 DEF TypeInv
<1> QED
  BY <1>2, <1>5, <1>8, <1>9, <1>10, <1>11, <1>12, StartInv
-----------------------------------------------------------------------------
(* New streams and contexts *)

\* l is the list with an entry for ptr at id.
WithEntry(l, list, id, ptr) ==
  /\ l \in [1..MaxId -> Entries \cup {None}]
  /\ l[id] # None /\ l[id].ptr = ptr /\ l[id].refcount = 1
  /\ \A k \in 1..MaxId : k # id => l[k] = list[k]

LEMMA Listing ==
  ASSUME NEW list, list \in [1..MaxId -> Entries \cup {None}], NEW id \in 1..MaxId,
         NEW ptr \in AllSlots \cup Contexts
  PROVE  WithEntry(Listed(list, id, ptr), list, id, ptr)
<1> DEFINE l == Listed(list, id, ptr)
<1>1. PICK e : e = [ptr |-> ptr, refcount |-> 1]
  OBVIOUS
<1>2. e \in Entries /\ e.ptr = ptr /\ e.refcount = 1
  BY <1>1 DEF Entries
<1>3. e # None
  BY <1>2, EntryFacts
<1>4. l = [list EXCEPT ![id] = e]
  BY <1>1 DEF Listed
<1> HIDE DEF l
<1>5. WithEntry(l, list, id, ptr)
  BY <1>2, <1>3, <1>4 DEF WithEntry
<1> QED
  BY <1>5 DEF l

\* The ids of new are given out.
Added(new) ==
  /\ regular' \in [1..MaxId -> Entries \cup {None}]
  /\ \A k \in 1..MaxId : k \notin new =>
       /\ regular'[k] = None <=> regular[k] = None
       /\ regular'[k] # None => regular'[k].ptr = regular[k].ptr
  /\ \A k \in new :
       /\ k \in 1..MaxId /\ nextId <= k /\ k < nextId' /\ regular'[k] # None
       /\ regular'[k].ptr \in Slots =>
            regular'[k].ptr \in alive' \ alive /\ stm'[regular'[k].ptr].rsrc = k
       /\ regular'[k].ptr \in Contexts => ctxs[regular'[k].ptr] = 0 /\ ctxs'[regular'[k].ptr] = k

\* The new streams and contexts know their ids, the others keep theirs.
AddedIds(new) ==
  /\ \A x \in alive :
       /\ x \in alive'
       /\ \/ stm'[x].rsrc = stm[x].rsrc
          \/ x \notin Slots /\ stm'[x].rsrc \in new /\ regular'[stm'[x].rsrc].ptr = x
  /\ \A x \in alive' \ alive : stm'[x].rsrc \in new /\ regular'[stm'[x].rsrc].ptr = x
  /\ \A c \in Contexts : \/ ctxs'[c] = ctxs[c]
                         \/ ctxs[c] = 0 /\ ctxs'[c] \in new /\ regular'[ctxs'[c]].ptr = c

AddedEntries(new) ==
  \A x : HasEntry(x)' <=> HasEntry(x) \/ \E k \in new : regular'[k].ptr = x

LEMMA Adding ==
  ASSUME TypeInv, Resources, NEW new, Added(new), AddedIds(new), nextId' \in Nat, nextId <= nextId'
  PROVE  Resources' /\ AddedEntries(new)
<1>1. \A k \in 1..MaxId : regular[k] # None => k < nextId
  BY DEF Resources
<1>2. nextId \in Nat /\ \A k \in new : k \in 1..MaxId /\ ~(k < nextId)
  BY DEF TypeInv, Added
<1>3. \A k \in 1..MaxId : regular[k] # None => k \notin new /\ regular'[k] # None /\ regular'[k].ptr = regular[k].ptr
  BY <1>1, <1>2 DEF Added
<1>4. \A k \in 1..MaxId : regular'[k] # None =>
        k \in new \/ (regular[k] # None /\ regular'[k].ptr = regular[k].ptr)
  BY DEF Added
<1>5. ASSUME NEW k \in 1..MaxId, regular'[k] # None
      PROVE  /\ k < nextId'
             /\ regular'[k].ptr \in Slots => regular'[k].ptr \in alive' /\ stm'[regular'[k].ptr].rsrc = k
             /\ regular'[k].ptr \in Contexts => ctxs'[regular'[k].ptr] = k
  <2>1. CASE k \in new
    BY <2>1 DEF Added
  <2>2. CASE k \notin new
    <3>1. regular[k] # None /\ regular'[k].ptr = regular[k].ptr /\ k < nextId
      BY <1>1, <1>4, <1>5, <2>2
    <3>2. k < nextId'
      BY <1>2, <3>1
    <3>3. regular[k].ptr \in Slots => regular[k].ptr \in alive' /\ stm'[regular[k].ptr].rsrc = k
      BY <3>1 DEF Resources, AddedIds
    <3>4. regular[k].ptr \in Contexts => ctxs'[regular[k].ptr] = k
      <4>1. regular[k].ptr \in Contexts => ctxs[regular[k].ptr] = k /\ k # 0
        BY <3>1 DEF Resources
      <4> QED
        BY <4>1 DEF AddedIds
    <3> QED
      BY <3>1, <3>2, <3>3, <3>4
  <2> QED
    BY <2>1, <2>2
<1>6. ASSUME NEW x \in alive'
      PROVE  /\ stm'[x].rsrc < nextId'
             /\ IsListed(stm[x].rsrc)' => regular'[stm'[x].rsrc].ptr = x
  <2>1. CASE x \notin alive \/ stm'[x].rsrc # stm[x].rsrc
    BY <2>1 DEF Added, AddedIds
  <2>2. CASE x \in alive /\ stm'[x].rsrc = stm[x].rsrc
    <3>1. stm'[x].rsrc = stm[x].rsrc /\ stm[x].rsrc < nextId /\ stm[x].rsrc \in Int
      BY <2>2, StreamTypes DEF AddedIds, Resources, TypeInv
    <3>2. stm[x].rsrc < nextId'
      BY <1>2, <3>1
    <3>3. ASSUME IsListed(stm[x].rsrc)' PROVE regular'[stm'[x].rsrc].ptr = x
      <4>1. stm[x].rsrc \in 1..MaxId /\ regular'[stm[x].rsrc] # None
        BY <3>1, <3>3 DEF IsListed, Added
      <4>2. stm[x].rsrc \notin new
        BY <1>2, <3>1
      <4>3. regular[stm[x].rsrc] # None /\ regular'[stm[x].rsrc].ptr = regular[stm[x].rsrc].ptr
        BY <1>4, <4>1, <4>2
      <4>4. IsListed(stm[x].rsrc)
        BY <4>1, <4>3 DEF IsListed, TypeInv
      <4> QED
        BY <2>2, <3>1, <4>3, <4>4 DEF Resources
    <3> QED
      BY <3>1, <3>2, <3>3
  <2> QED
    BY <2>1, <2>2
<1>7. ASSUME NEW c \in Contexts, ctxs'[c] # 0 PROVE regular'[ctxs'[c]] # None /\ regular'[ctxs'[c]].ptr = c
  <2>1. CASE ctxs'[c] = ctxs[c]
    <3>1. ctxs[c] \in 1..MaxId /\ regular[ctxs[c]] # None /\ regular[ctxs[c]].ptr = c
      BY <1>7, <2>1, CountTypes
    <3> QED
      BY <1>3, <2>1, <3>1
  <2>2. CASE ctxs'[c] # ctxs[c]
    BY <2>2 DEF Added, AddedIds
  <2> QED
    BY <2>1, <2>2
<1>8. Resources'
  BY <1>5, <1>6, <1>7 DEF Resources
<1>9. AddedEntries(new)
  <2> SUFFICES ASSUME NEW x PROVE HasEntry(x)' <=> HasEntry(x) \/ \E k \in new : regular'[k].ptr = x
    BY DEF AddedEntries
  <2>1. HasEntry(x)' => HasEntry(x) \/ \E k \in new : regular'[k].ptr = x
    BY <1>4 DEF HasEntry
  <2>2. HasEntry(x) => HasEntry(x)'
    BY <1>3 DEF HasEntry
  <2>3. (\E k \in new : regular'[k].ptr = x) => HasEntry(x)'
    BY DEF HasEntry, Added
  <2> QED
    BY <2>1, <2>2, <2>3
<1> QED
  BY <1>8, <1>9

\* New entries are no references to a context that is there.
LEMMA CountsKept ==
  ASSUME TypeInv, Resources, Counted, UNCHANGED <<held, phase, ctxs>>, ~Frame("context")',
         \A x \in AllSlots : stm'[x].ctx = stm[x].ctx,
         \A k \in 1..MaxId : regular[k] # None /\ regular[k].ptr \in Contexts => regular'[k] = regular[k]
  PROVE  Counted'
<1> SUFFICES ASSUME phase = "request", NEW c \in Contexts
             PROVE  Cardinality(Users(c)') + Holds(c)' + Drops(c)' <= References(regular', ctxs'[c])
  BY DEF Counted
<1>1. Users(c)' = Users(c) /\ Holds(c)' = Holds(c) /\ Drops(c)' = 0
  BY DEF Users, Holds, Drops
<1>2. Cardinality(Users(c)) + Holds(c) + Drops(c) <= References(regular, ctxs[c])
  BY DEF Counted
<1>3. /\ Cardinality(Users(c)) \in Nat /\ Holds(c) \in {0, 1} /\ Drops(c) \in {0, 1}
      /\ References(regular, ctxs[c]) \in Nat
      /\ ctxs[c] # 0 => ctxs[c] \in 1..MaxId /\ regular[ctxs[c]] # None /\ regular[ctxs[c]].ptr = c
  BY CountTypes
<1>4. References(regular', ctxs'[c]) = References(regular, ctxs[c])
  BY <1>3 DEF References
<1> QED
  BY <1>1, <1>2, <1>3, <1>4

LEMMA Allocated ==
  ASSUME NEW places, places \subseteq AllSlots, places \ alive # {}, NEW s, s = Malloc(places)
  PROVE  s \in places \ alive
<1>1. places \ alive \subseteq Nat
  BY DistinctSlots DEF AllSlots
<1> QED
  BY <1>1, Least DEF Malloc

LEMMA Another ==
  ASSUME Room2, NEW s
  PROVE  Slots \ alive # {} /\ (Slots \ {s}) \ alive # {}
<1>1. IsFiniteSet(Slots \ alive)
  <2>1. Slots \ alive \subseteq Slots \cup PSlots
    OBVIOUS
  <2> QED
    BY <2>1, FS_Subset, LifecycleAssumption
<1>2. Cardinality(Slots \ alive) \in Nat /\ Cardinality(Slots \ alive) >= 2
  BY <1>1, FS_CardinalityType DEF Room2
<1>3. Slots \ alive # {}
  BY <1>2, FS_EmptySet
<1>4. ASSUME (Slots \ {s}) \ alive = {} PROVE FALSE
  <2>1. Slots \ alive = {s}
    BY <1>3, <1>4
  <2>2. Cardinality({s}) = 1
    BY FS_Singleton
  <2> QED
    BY <1>2, <2>1, <2>2
<1> QED
  BY <1>3, <1>4

\* A step that makes the streams of N.
LEMMA RestsMore ==
  ASSUME TypeInv, Resting(None, FALSE), NEW N, N \subseteq AllSlots \ alive, alive' = alive \cup N,
         \A y \in AllSlots \ N : stm'[y] = stm[y],
         \A y \in N : stm'[y].in_free = 0 /\ stm'[y].inner \in N \cup {None},
         \A y \in N \cap PSlots :
           stm'[y].enclosing = None /\ stm'[y].inner = None /\ ~stm'[y].cookie /\ Kept(y)',
         \A y : HasEntry(y) => HasEntry(y)', \A y \in alive : Kept(y) => Kept(y)',
         NEW x, NEW loose,
         \A y \in N \cap Slots : HasEntry(y)' /\ Linked(y, x, loose)'
  PROVE  Resting(x, loose)'
<1>1. ASSUME NEW y \in Slots \ N PROVE Linked(y, x, loose)'
  <2>1. Linked(y, None, FALSE) /\ y \in AllSlots /\ stm'[y] = stm[y] /\ y # None
    BY LifecycleAssumption DEF Resting, AllSlots
  <2>2. y \notin alive => stm[y].enclosing = None /\ stm[y].inner = None /\ ~stm[y].cookie
    BY <2>1 DEF Resting, Cleared
  <2>3. stm[y].inner # None => stm[y].inner \in AllSlots \ N
    <3>1. stm[y].inner # None => stm[y].inner \in alive
      BY <2>1 DEF Linked
    <3> QED
      BY <3>1 DEF TypeInv
  <2>4. stm[y].enclosing # None => stm[y].enclosing \in AllSlots \ N
    <3>1. stm[y].enclosing # None => stm[y].enclosing \in AllSlots /\ stm[stm[y].enclosing].inner = y
      BY <2>1, StreamTypes DEF Linked, AllSlots
    <3> QED
      BY <2>1, <3>1 DEF Resting, Cleared
  <2>5. y \in alive /\ IsInner(y)' => IsInner(y)
    <3> SUFFICES ASSUME y \in alive, NEW t \in Slots, stm'[t].inner = y PROVE IsInner(y)
      BY DEF IsInner
    <3>1. t \notin N
      BY <2>1
    <3>2. stm'[t] = stm[t]
      BY <3>1 DEF AllSlots
    <3> QED
      BY <3>2 DEF IsInner
  <2> QED
    BY <2>1, <2>2, <2>3, <2>4, <2>5 DEF Linked
<1>2. \A y \in Slots : Linked(y, x, loose)'
  BY <1>1
<1>3. \A y \in alive : (y \in Slots => HasEntry(y)) /\ (y \in PSlots => Kept(y))
  BY LifecycleAssumption DEF Resting, TypeInv, AllSlots
<1>4. Cleared'
  BY DEF Resting, Cleared
<1>5. \A y \in PSlots : stm'[y].enclosing = None /\ stm'[y].inner = None /\ ~stm'[y].cookie
  BY DEF Resting, AllSlots
<1>6. \A y \in AllSlots : stm'[y].in_free = 0
  BY DEF Resting
<1> QED
  BY <1>2, <1>3, <1>4, <1>5, <1>6 DEF Resting
LEMMA ContextAllocInv ==
  ASSUME FreeInv, NEW c \in Contexts, ContextAlloc(c)
  PROVE  FreeInv'
<1>1. /\ stack = <<>> /\ stack' = stack /\ phase = "request" /\ nextId <= MaxId /\ ctxs[c] = 0
      /\ ctxs' = [ctxs EXCEPT ![c] = nextId] /\ held' = held \cup {c}
      /\ regular' = Listed(regular, nextId, c) /\ nextId' = nextId + 1
      /\ UNCHANGED <<alive, stm, persistent, phase, requests>>
  <2>1. FreeInv => nextId \in Nat /\ MaxId \in Nat
    BY LifecycleAssumption DEF FreeInv, TypeInv
  <2>2. Room(1) <=> nextId + 1 - 1 <= MaxId
    BY DEF Room
  <2>3. Room(1) => nextId <= MaxId
    BY <2>1, <2>2
  <2> QED
    BY <2>3 DEF ContextAlloc, Client, Quiet
<1>2. TypeInv /\ ListInv /\ Idle /\ Resting(None, FALSE)
  BY <1>1, Standing
<1>3. /\ nextId \in 1..MaxId /\ regular \in [1..MaxId -> Entries \cup {None}] /\ regular[nextId] = None
      /\ nextId \in Nat
  <2>1. nextId \in 1..MaxId /\ nextId \in Nat /\ regular \in [1..MaxId -> Entries \cup {None}]
    BY <1>1, <1>2, LifecycleAssumption DEF TypeInv
  <2> QED
    BY <1>2, <2>1 DEF ListInv, Resources
<1>4. WithEntry(regular', regular, nextId, c)
  BY <1>1, <1>3, Listing
<1>5. \A d \in Contexts : ctxs'[d] = IF d = c THEN nextId ELSE ctxs[d]
  BY <1>1, <1>2 DEF TypeInv
<1>6. Resources' /\ AddedEntries({nextId})
  <2>1. c \notin Slots
    BY LifecycleAssumption
  <2>2. Added({nextId})
    BY <1>1, <1>3, <1>4, <1>5, <2>1 DEF Added, WithEntry
  <2>3. AddedIds({nextId})
    BY <1>1, <1>4, <1>5 DEF AddedIds, WithEntry
  <2> QED
    BY <1>1, <1>2, <1>3, <2>2, <2>3, Adding DEF ListInv
<1>7. Counted'
  <2> SUFFICES ASSUME NEW d \in Contexts
               PROVE  Cardinality(Users(d)') + Holds(d)' + Drops(d)' <= References(regular', ctxs'[d])
    BY DEF Counted
  <2>1. Users(d)' = Users(d) /\ Drops(d)' = 0
    BY <1>1, <1>2 DEF Users, Drops, Idle, Frame
  <2>2. Cardinality(Users(d)) + Holds(d) + Drops(d) <= References(regular, ctxs[d])
    BY <1>1, <1>2 DEF ListInv, Counted
  <2>3. /\ Cardinality(Users(d)) \in Nat /\ Holds(d) \in {0, 1} /\ Drops(d) \in {0, 1}
        /\ References(regular, ctxs[d]) \in Nat
        /\ ctxs[d] # 0 => ctxs[d] \in 1..MaxId /\ regular[ctxs[d]] # None
    BY <1>2, CountTypes DEF ListInv
  <2>4. CASE d = c
    <3>1. References(regular, ctxs[d]) = 0
      BY <1>1, <2>4 DEF References
    <3>2. Holds(d)' = 1 /\ References(regular', ctxs'[d]) = 1
      BY <1>1, <1>3, <1>4, <1>5, <2>4 DEF Holds, References, WithEntry
    <3> QED
      BY <2>1, <2>2, <2>3, <3>1, <3>2
  <2>5. CASE d # c
    <3>1. ctxs'[d] = ctxs[d] /\ Holds(d)' = Holds(d)
      BY <1>1, <1>5, <2>5 DEF Holds
    <3>2. References(regular', ctxs'[d]) = References(regular, ctxs[d])
      BY <1>3, <1>4, <2>3, <3>1 DEF References, WithEntry
    <3> QED
      BY <2>1, <2>2, <2>3, <3>1, <3>2
  <2> QED
    BY <2>4, <2>5
<1>8. ListInv'
  <2>1. Keeping' /\ Phases'
    BY <1>1, <1>2 DEF ListInv, Keeping, Phases
  <2> QED
    BY <1>6, <1>7, <2>1 DEF ListInv
<1>9. Resting(None, FALSE)'
  <2>1. \A y : Kept(y)' <=> Kept(y)
    BY <1>1, SameTests
  <2>2. \A y : HasEntry(y) => HasEntry(y)'
    BY <1>6 DEF AddedEntries
  <2>3. Cleared
    BY <1>2 DEF Resting
  <2>4. \A y \in alive : y \in AllSlots
    BY <1>2 DEF TypeInv
  <2> QED
    BY <1>1, <1>2, <2>1, <2>2, <2>3, <2>4, RestsBut DEF Cleared
<1>10. ctxs' \in [Contexts -> 0..MaxId]
  <2>1. nextId \in 0..MaxId
    BY <1>3
  <2> QED
    BY <1>1, <1>2, <2>1 DEF TypeInv
<1>11. stack' \in Seq(Frames) => TypeInv'
  <2>1. nextId' \in Nat \ {0}
    BY <1>1, <1>3
  <2>2. held' \subseteq Contexts
    BY <1>1, <1>2 DEF TypeInv
  <2> QED
    BY <1>1, <1>2, <1>4, <1>10, <2>1, <2>2 DEF TypeInv, WithEntry
<1> QED
  BY <1>1, <1>8, <1>9, <1>11, RestInv

LEMMA OpenInv ==
  ASSUME FreeInv, NEW s \in Slots, Open(s)
  PROVE  FreeInv'
<1>1. PICK r : r = [Fresh("plain") EXCEPT !.rsrc = nextId]
  OBVIOUS
<1>2. /\ stack = <<>> /\ stack' = stack /\ phase = "request" /\ Room(1) /\ Slots \ alive # {} /\ s = Malloc(Slots)
      /\ alive' = alive \cup {s} /\ stm' = [stm EXCEPT ![s] = r]
      /\ regular' = Listed(regular, nextId, s) /\ nextId' = nextId + 1
      /\ UNCHANGED <<persistent, ctxs, held, phase, requests>>
  BY <1>1 DEF Open, Client, Quiet
<1>3. TypeInv /\ ListInv /\ Idle /\ Resting(None, FALSE)
  BY <1>2, Standing
<1>4. /\ nextId \in 1..MaxId /\ regular \in [1..MaxId -> Entries \cup {None}] /\ regular[nextId] = None
      /\ nextId \in Nat
  <2>1. nextId \in 1..MaxId /\ nextId \in Nat /\ regular \in [1..MaxId -> Entries \cup {None}]
    BY <1>2, <1>3, LifecycleAssumption DEF TypeInv, Room
  <2> QED
    BY <1>3, <2>1 DEF ListInv, Resources
<1>5. s \in Slots \ alive /\ s \in AllSlots /\ s \notin Contexts /\ s \notin PSlots
  <2>1. s \in Slots \ alive
    BY <1>2, Allocated DEF AllSlots
  <2> QED
    BY <2>1, LifecycleAssumption, DistinctSlots DEF AllSlots
<1>6. WithEntry(regular', regular, nextId, s)
  BY <1>2, <1>4, <1>5, Listing
<1>7. /\ r \in Streams /\ r.rsrc = nextId /\ r.in_free = 0 /\ r.enclosing = None /\ r.inner = None
      /\ ~r.cookie /\ r.ctx = None
  <2>1. PICK f : f = Fresh("plain")
    OBVIOUS
  <2>2. /\ f \in Streams /\ f.in_free = 0 /\ f.enclosing = None /\ f.inner = None
        /\ ~f.cookie /\ f.ctx = None
    BY <2>1, FreshStream DEF Kinds
  <2>3. r = [f EXCEPT !.rsrc = nextId]
    BY <1>1, <2>1
  <2> QED
    BY <1>4, <2>2, <2>3 DEF Streams
<1>8. Updates(s, r)
  BY <1>2, <1>3, <1>5, <1>7, StreamUpdate
<1>9. Resources' /\ AddedEntries({nextId})
  <2>1. \A x \in alive : x # s /\ x \in AllSlots
    BY <1>3, <1>5 DEF TypeInv
  <2>2. Added({nextId})
    BY <1>2, <1>4, <1>5, <1>6, <1>7, <1>8 DEF Added, WithEntry, Updates
  <2>3. AddedIds({nextId})
    BY <1>2, <1>5, <1>6, <1>7, <1>8, <2>1 DEF AddedIds, WithEntry, Updates
  <2> QED
    BY <1>2, <1>3, <1>4, <2>2, <2>3, Adding DEF ListInv
<1>10. ListInv'
  <2>1. \A x \in AllSlots : stm'[x].ctx = stm[x].ctx
    BY <1>3, <1>5, <1>7, <1>8 DEF Updates, Resting, Cleared
  <2>2. \A k \in 1..MaxId : regular[k] # None => regular'[k] = regular[k]
    BY <1>4, <1>6 DEF WithEntry
  <2>3. ~Frame("context")'
    BY <1>2, NotContext
  <2>4. Counted'
    BY <1>2, <1>3, <2>1, <2>2, <2>3, CountsKept DEF ListInv
  <2>5. Keeping' /\ Phases'
    BY <1>2, <1>3 DEF ListInv, Keeping, Phases
  <2> QED
    BY <1>9, <2>4, <2>5 DEF ListInv
<1>11. Resting(None, FALSE)'
  <2>1. \A y : (Kept(y)' <=> Kept(y)) /\ (HasEntry(y) => HasEntry(y)') /\ HasEntry(s)'
    BY <1>2, <1>6, <1>9, SameTests DEF AddedEntries, WithEntry
  <2>2. Linked(s, None, FALSE)'
    BY <1>7, <1>8 DEF Linked, Updates
  <2>3. PICK N : N = {s}
    OBVIOUS
  <2>4. N \subseteq AllSlots \ alive /\ alive' = alive \cup N /\ N \cap PSlots = {}
    BY <1>2, <1>5, <2>3
  <2>5. /\ \A y \in AllSlots \ N : stm'[y] = stm[y]
        /\ \A y \in N : stm'[y].in_free = 0 /\ stm'[y].inner \in N \cup {None}
    BY <1>7, <1>8, <2>3 DEF Updates
  <2>6. \A y \in N \cap Slots : HasEntry(y)' /\ Linked(y, None, FALSE)'
    BY <2>1, <2>2, <2>3
  <2> QED
    BY <1>3, <2>1, <2>4, <2>5, <2>6, RestsMore
<1>12. stack' \in Seq(Frames) => TypeInv'
  <2>1. nextId' \in Nat \ {0} /\ alive' \subseteq AllSlots
    BY <1>2, <1>3, <1>4, <1>5 DEF TypeInv
  <2> QED
    BY <1>2, <1>3, <1>6, <1>8, <2>1 DEF TypeInv, WithEntry, Updates
<1> QED
  BY <1>2, <1>10, <1>11, <1>12, RestInv
LEMMA NotInnerThen ==
  ASSUME NEW x, NEW loose, Resting(x, loose)', NEW s \in AllSlots, stm'[s].enclosing = None
  PROVE  ~IsInner(s)'
<1>1. s # None
  BY LifecycleAssumption DEF AllSlots
<1>2. \A t \in Slots : stm'[t].inner = s => t = None
  BY <1>1 DEF Resting, Linked
<1> QED
  BY <1>2, LifecycleAssumption DEF IsInner

\* A temporary stream s and the memory stream i in it.
LEMMA NewPair ==
  ASSUME FreeInv, stack = <<>>, phase = "request", Room(2), Room2,
         NEW s, NEW i, s = Malloc(Slots), i = Malloc(Slots \ {s}),
         alive' = alive \cup {s, i}, stm' = TempPair(stm, s, i, nextId),
         regular' = Listed(Listed(regular, nextId, s), nextId + 1, i), nextId' = nextId + 2,
         UNCHANGED <<persistent, ctxs, held, phase, requests>>, ~Frame("context")'
  PROVE  /\ s \in Slots \ alive /\ ListInv' /\ (stack' \in Seq(Frames) => TypeInv')
         /\ \A x, loose : Resting(x, loose)'
         /\ stm'[s].enclosing = None /\ \A y \in alive : stm'[y] = stm[y]
<1>1. TypeInv /\ ListInv /\ Idle /\ Resting(None, FALSE)
  BY Standing
<1>2. /\ s \in Slots \ alive /\ i \in Slots \ alive /\ s # i /\ s \in AllSlots /\ i \in AllSlots
      /\ s \notin Contexts /\ i \notin Contexts /\ s \notin PSlots /\ i \notin PSlots
      /\ s # None /\ i # None
  <2>1. s \in Slots \ alive
    BY Allocated, Another DEF AllSlots
  <2>2. i \in (Slots \ {s}) \ alive
    BY Allocated, Another DEF AllSlots
  <2> QED
    BY <2>1, <2>2, LifecycleAssumption, DistinctSlots DEF AllSlots
<1>3. PICK m, n : m = nextId /\ n = nextId + 1
  OBVIOUS
<1>4. /\ m \in 1..MaxId /\ n \in 1..MaxId /\ m # n /\ m \in Nat /\ n \in Nat /\ n = m + 1
      /\ regular \in [1..MaxId -> Entries \cup {None}]
      /\ regular[m] = None /\ regular[n] = None /\ nextId' = m + 2
  <2>1. /\ m \in 1..MaxId /\ n \in 1..MaxId /\ m # n /\ m \in Nat /\ n \in Nat /\ n = m + 1
    BY <1>1, <1>3, LifecycleAssumption DEF TypeInv, Room
  <2>2. regular \in [1..MaxId -> Entries \cup {None}] /\ nextId' = m + 2
    BY <1>1, <1>3 DEF TypeInv
  <2> QED
    BY <1>1, <1>3, <2>1, <2>2 DEF ListInv, Resources
<1>5. PICK l : l = Listed(regular, m, s)
  OBVIOUS
<1>6. WithEntry(l, regular, m, s)
  BY <1>2, <1>4, <1>5, Listing
<1>7. WithEntry(regular', l, n, i)
  <2>1. l \in [1..MaxId -> Entries \cup {None}]
    BY <1>6 DEF WithEntry
  <2>2. regular' = Listed(l, n, i)
    BY <1>3, <1>5
  <2> QED
    BY <1>2, <1>4, <2>1, <2>2, Listing
<1>8. /\ regular' \in [1..MaxId -> Entries \cup {None}]
      /\ regular'[m] # None /\ regular'[m].ptr = s /\ regular'[n] # None /\ regular'[n].ptr = i
      /\ \A k \in 1..MaxId : k # m /\ k # n => regular'[k] = regular[k]
  BY <1>4, <1>6, <1>7 DEF WithEntry
<1>9. PICK fs, fi, rs, ri :
        /\ fs = Fresh("temp") /\ fi = Fresh("memory")
        /\ rs = [fs EXCEPT !.rsrc = m, !.inner = i]
        /\ ri = [[fi EXCEPT !.rsrc = n] EXCEPT !.enclosing = s]
  OBVIOUS
<1>10. /\ rs \in Streams /\ rs.kind = "temp" /\ rs.rsrc = m /\ rs.in_free = 0 /\ rs.enclosing = None
       /\ rs.inner = i /\ ~rs.cookie /\ rs.ctx = None
  <2>1. /\ fs \in Streams /\ fs.kind = "temp" /\ fs.in_free = 0 /\ fs.enclosing = None
        /\ ~fs.cookie /\ fs.ctx = None
    BY <1>9, FreshStream DEF Kinds
  <2>2. PICK f : f = [fs EXCEPT !.rsrc = m]
    OBVIOUS
  <2>3. /\ f \in Streams /\ f.kind = "temp" /\ f.in_free = 0 /\ f.enclosing = None /\ f.rsrc = m
        /\ ~f.cookie /\ f.ctx = None
    BY <1>4, <2>1, <2>2 DEF Streams
  <2>4. rs = [f EXCEPT !.inner = i]
    BY <1>9, <2>2
  <2> QED
    BY <1>2, <2>3, <2>4 DEF Streams
<1>11. /\ ri \in Streams /\ ri.rsrc = n /\ ri.in_free = 0 /\ ri.enclosing = s
       /\ ri.inner = None /\ ~ri.cookie /\ ri.ctx = None
  <2>1. /\ fi \in Streams /\ fi.in_free = 0 /\ fi.inner = None /\ ~fi.cookie /\ fi.ctx = None
    BY <1>9, FreshStream DEF Kinds
  <2>2. PICK f : f = [fi EXCEPT !.rsrc = n]
    OBVIOUS
  <2>3. /\ f \in Streams /\ f.in_free = 0 /\ f.inner = None /\ ~f.cookie /\ f.ctx = None /\ f.rsrc = n
    BY <1>4, <2>1, <2>2 DEF Streams
  <2>4. ri = [f EXCEPT !.enclosing = s]
    BY <1>9, <2>2
  <2> QED
    BY <1>2, <2>3, <2>4 DEF Streams
<1>12. /\ stm' \in [AllSlots -> Streams] /\ stm'[s] = rs /\ stm'[i] = ri
       /\ \A y \in AllSlots : y # s /\ y # i => stm'[y] = stm[y]
  <2>1. stm' = [stm EXCEPT ![s] = rs, ![i] = ri]
    BY <1>3, <1>9 DEF TempPair, Encloses
  <2>2. PICK u : u = [stm EXCEPT ![s] = rs]
    OBVIOUS
  <2>3. u \in [AllSlots -> Streams] /\ u[s] = rs /\ \A y \in AllSlots : y # s => u[y] = stm[y]
    BY <1>1, <1>2, <1>10, <2>2 DEF TypeInv
  <2>4. stm' = [u EXCEPT ![i] = ri]
    BY <2>1, <2>2
  <2> QED
    BY <1>2, <1>11, <2>3, <2>4
<1>13. PICK new : new = {m, n}
  OBVIOUS
<1>14. \A x \in alive : x # s /\ x # i /\ x \in AllSlots
  BY <1>1, <1>2 DEF TypeInv
<1>15. Resources' /\ AddedEntries(new)
  <2>1. Added(new)
    <3>1. \A k \in 1..MaxId : k \notin new => regular'[k] = regular[k]
      BY <1>8, <1>13
    <3>2. \A k \in new : /\ k \in 1..MaxId /\ nextId <= k /\ k < nextId' /\ regular'[k] # None
      BY <1>3, <1>4, <1>8, <1>13
    <3>3. \A k \in new : /\ regular'[k].ptr \in alive' \ alive /\ stm'[regular'[k].ptr].rsrc = k
                         /\ regular'[k].ptr \notin Contexts
      <4>1. /\ s \in alive' \ alive /\ stm'[s].rsrc = m /\ s \notin Contexts
            /\ i \in alive' \ alive /\ stm'[i].rsrc = n /\ i \notin Contexts
        BY <1>2, <1>10, <1>11, <1>12
      <4>2. \A k \in new : k = m \/ k = n
        BY <1>13
      <4> QED
        BY <1>8, <4>1, <4>2
    <3> QED
      BY <1>8, <3>1, <3>2, <3>3 DEF Added
  <2>2. AddedIds(new)
    <3>1. \A x \in alive : x \in alive' /\ stm'[x].rsrc = stm[x].rsrc
      BY <1>12, <1>14
    <3>2. \A x \in alive' \ alive : x = s \/ x = i
      OBVIOUS
    <3>3. \A x \in alive' \ alive : stm'[x].rsrc \in new /\ regular'[stm'[x].rsrc].ptr = x
      BY <1>8, <1>10, <1>11, <1>12, <1>13, <3>2
    <3> QED
      BY <3>1, <3>3 DEF AddedIds
  <2>3. nextId' \in Nat /\ nextId <= nextId'
    BY <1>3, <1>4
  <2> QED
    BY <1>1, <2>1, <2>2, <2>3, Adding DEF ListInv
<1>16. ListInv'
  <2>1. \A x \in AllSlots : stm'[x].ctx = stm[x].ctx
    BY <1>1, <1>2, <1>10, <1>11, <1>12 DEF Resting, Cleared
  <2>2. \A k \in 1..MaxId : regular[k] # None => regular'[k] = regular[k]
    BY <1>4, <1>8
  <2>4. Counted'
    BY <1>1, <2>1, <2>2, CountsKept DEF ListInv
  <2>5. Keeping' /\ Phases'
    BY <1>1 DEF ListInv, Keeping, Phases
  <2> QED
    BY <1>15, <2>4, <2>5 DEF ListInv
<1>17. ASSUME NEW x, NEW loose PROVE Resting(x, loose)'
  <2>1. \A y : (Kept(y)' <=> Kept(y)) /\ (HasEntry(y) => HasEntry(y)')
    BY <1>15, SameTests DEF AddedEntries
  <2>2. HasEntry(s)' /\ HasEntry(i)'
    BY <1>4, <1>8 DEF HasEntry
  <2>3. Linked(s, x, loose)'
    BY <1>2, <1>10, <1>11, <1>12 DEF Linked
  <2>4. Linked(i, x, loose)'
    BY <1>2, <1>10, <1>11, <1>12 DEF Linked
  <2>5. PICK N : N = {s, i}
    OBVIOUS
  <2>6. N \subseteq AllSlots \ alive /\ alive' = alive \cup N /\ N \cap PSlots = {}
    BY <1>2, <2>5
  <2>7. /\ \A y \in AllSlots \ N : stm'[y] = stm[y]
        /\ \A y \in N : stm'[y].in_free = 0 /\ stm'[y].inner \in N \cup {None}
    BY <1>10, <1>11, <1>12, <2>5
  <2>8. \A y \in N \cap Slots : HasEntry(y)' /\ Linked(y, x, loose)'
    BY <2>2, <2>3, <2>4, <2>5
  <2> QED
    BY <1>1, <2>1, <2>6, <2>7, <2>8, RestsMore
<1>18. stack' \in Seq(Frames) => TypeInv'
  <2>1. nextId' \in Nat \ {0} /\ alive' \subseteq AllSlots
    BY <1>1, <1>2, <1>4 DEF TypeInv
  <2> QED
    BY <1>1, <1>8, <1>12, <2>1 DEF TypeInv
<1>19. stm'[s].enclosing = None /\ \A y \in alive : stm'[y] = stm[y]
  BY <1>10, <1>12, <1>14
<1> QED
  BY <1>2, <1>16, <1>17, <1>18, <1>19

LEMMA OpenTempInv ==
  ASSUME FreeInv, NEW s \in Slots, NEW i \in Slots, OpenTemp(s, i)
  PROVE  FreeInv'
<1>1. /\ stack = <<>> /\ stack' = <<>> /\ phase = "request" /\ Room(2) /\ Room2
      /\ s = Malloc(Slots) /\ i = Malloc(Slots \ {s})
      /\ alive' = alive \cup {s, i} /\ stm' = TempPair(stm, s, i, nextId)
      /\ regular' = Listed(Listed(regular, nextId, s), nextId + 1, i) /\ nextId' = nextId + 2
      /\ UNCHANGED <<persistent, ctxs, held, phase, requests>>
  BY DEF OpenTemp, Client, Quiet
<1>2. ~Frame("context")'
  BY <1>1, NotContext
<1>3. /\ ListInv' /\ (stack' \in Seq(Frames) => TypeInv')
      /\ \A x, loose : Resting(x, loose)'
  BY <1>1, <1>2, NewPair
<1>4. Resting(None, FALSE)'
  BY <1>3
<1> QED
  BY <1>1, <1>3, <1>4, RestInv

LEMMA MakeSeekableInv ==
  ASSUME FreeInv, NEW s \in Slots, NEW t \in Slots, NEW i \in Slots, NEW copied \in BOOLEAN,
         MakeSeekable(s, t, i, copied)
  PROVE  FreeInv'
<1>1. PICK x, h : x = (IF copied THEN s ELSE t) /\ h = Free(x, CloseOpts)
  OBVIOUS
<1>2. /\ stack = <<>> /\ stack' = <<h>> /\ phase = "request" /\ Room(2) /\ Room2
      /\ s \in alive /\ stm[s].enclosing = None
      /\ t = Malloc(Slots) /\ i = Malloc(Slots \ {t})
      /\ alive' = alive \cup {t, i} /\ stm' = TempPair(stm, t, i, nextId)
      /\ regular' = Listed(Listed(regular, nextId, t), nextId + 1, i) /\ nextId' = nextId + 2
      /\ UNCHANGED <<persistent, ctxs, held, phase, requests>>
  BY <1>1 DEF MakeSeekable, Client, Quiet
<1>3. x \in Slots /\ x \in AllSlots /\ x \notin PSlots /\ CloseOpts \in SUBSET Options
  BY <1>1, DistinctSlots DEF AllSlots, Options, CloseOpts
<1>4. h \in Frees /\ h.s = x /\ h.opts = CloseOpts /\ h.pc = "enter" /\ h.ctx = None
  BY <1>1, <1>3, NewCall
<1>5. ~Frame("context")'
  BY <1>2, <1>4, NotContext
<1>6. /\ t \in Slots \ alive /\ ListInv' /\ (stack' \in Seq(Frames) => TypeInv')
      /\ \A y, loose : Resting(y, loose)'
      /\ stm'[t].enclosing = None /\ \A y \in alive : stm'[y] = stm[y]
  BY <1>2, <1>5, NewPair
<1>7. x \in alive' /\ stm'[x].enclosing = None
  BY <1>1, <1>2, <1>6
<1>8. Resting(h.s, "IGNORE_ENCLOSING" \in h.opts)'
  BY <1>6
<1>9. ~IsInner(x)'
  BY <1>3, <1>7, <1>8, NotInnerThen
<1>10. Fine(h)'
  BY <1>3, <1>4, <1>7 DEF Fine, CloseOpts
<1>11. Begins(h)'
  BY <1>4, <1>9 DEF Begins, CloseOpts
<1> QED
  BY <1>2, <1>4, <1>6, <1>8, <1>10, <1>11, StartInv
\* A file takes the place of the memory stream in a temporary stream.
LEMMA SpillInv ==
  ASSUME FreeInv, NEW s \in Slots, NEW n \in Slots, Spill(s, n)
  PROVE  FreeInv'
<1>1. PICK i, h, f, g, r, q, opts :
        /\ i = stm[s].inner /\ opts = CloseOpts \cup {"IGNORE_ENCLOSING"} /\ h = Free(i, opts)
        /\ f = Fresh("plain") /\ g = [f EXCEPT !.rsrc = nextId]
        /\ q = [g EXCEPT !.enclosing = s] /\ r = [stm[s] EXCEPT !.inner = n]
  OBVIOUS
<1>2. /\ stack = <<>> /\ stack' = <<h>> /\ phase = "request" /\ Room(1) /\ Slots \ alive # {} /\ n = Malloc(Slots)
      /\ s \in alive /\ i # None /\ alive' = alive \cup {n}
      /\ stm' = [stm EXCEPT ![s].inner = n, ![n] = q]
      /\ regular' = Listed(regular, nextId, n) /\ nextId' = nextId + 1
      /\ UNCHANGED <<persistent, ctxs, held, phase, requests>>
  BY <1>1 DEF Spill, Client, Quiet, FreeEnclosed, Encloses
<1>3. TypeInv /\ ListInv /\ Idle /\ Resting(None, FALSE)
  BY <1>2, Standing
<1>4. /\ nextId \in 1..MaxId /\ regular \in [1..MaxId -> Entries \cup {None}] /\ regular[nextId] = None
      /\ nextId \in Nat
  <2>1. nextId \in 1..MaxId /\ nextId \in Nat /\ regular \in [1..MaxId -> Entries \cup {None}]
    BY <1>2, <1>3, LifecycleAssumption DEF TypeInv, Room
  <2> QED
    BY <1>3, <2>1 DEF ListInv, Resources
<1>5. /\ n \in Slots \ alive /\ n \in AllSlots /\ n \notin Contexts /\ n \notin PSlots /\ n # s /\ n # None
      /\ s \in AllSlots /\ s # None /\ s \notin PSlots
  <2>1. n \in Slots \ alive
    BY <1>2, Allocated DEF AllSlots
  <2> QED
    BY <1>2, <2>1, LifecycleAssumption, DistinctSlots DEF AllSlots
<1>6. WithEntry(regular', regular, nextId, n)
  BY <1>2, <1>4, <1>5, Listing
<1>7. /\ q \in Streams /\ q.rsrc = nextId /\ q.in_free = 0 /\ q.enclosing = s /\ q.inner = None
      /\ ~q.cookie /\ q.ctx = None
  <2>1. /\ f \in Streams /\ f.in_free = 0 /\ f.inner = None /\ ~f.cookie /\ f.ctx = None
    BY <1>1, FreshStream DEF Kinds
  <2>2. /\ g \in Streams /\ g.in_free = 0 /\ g.inner = None /\ ~g.cookie /\ g.ctx = None /\ g.rsrc = nextId
    BY <1>1, <1>4, <2>1 DEF Streams
  <2> QED
    BY <1>1, <2>2 DEF Streams
<1>8. /\ r \in Streams /\ r.rsrc = stm[s].rsrc /\ r.in_free = stm[s].in_free /\ r.kind = stm[s].kind
      /\ r.enclosing = stm[s].enclosing /\ r.inner = n /\ r.cookie = stm[s].cookie /\ r.ctx = stm[s].ctx
  <2>1. PICK z : z = stm[s]
    OBVIOUS
  <2>2. z \in Streams /\ r = [z EXCEPT !.inner = n]
    BY <1>1, <1>3, <1>5, <2>1, StreamTypes
  <2> QED
    BY <2>1, <2>2 DEF Streams
<1>9. /\ stm' \in [AllSlots -> Streams] /\ stm'[s] = r /\ stm'[n] = q
      /\ \A y \in AllSlots : y # s /\ y # n => stm'[y] = stm[y]
  <2>1. PICK u : u = [stm EXCEPT ![s] = r]
    OBVIOUS
  <2>2. u \in [AllSlots -> Streams] /\ u[s] = r /\ \A y \in AllSlots : y # s => u[y] = stm[y]
    BY <1>3, <1>5, <1>8, <2>1 DEF TypeInv
  <2>3. stm' = [u EXCEPT ![n] = q]
    BY <1>1, <1>2, <2>1
  <2> QED
    BY <1>5, <1>7, <2>2, <2>3
<1>10. /\ stm[s].kind = "temp" /\ i \in alive /\ i \in Slots /\ stm[i].inner = None /\ stm[i].enclosing = s
       /\ i # s /\ i # n /\ stm[s].enclosing = None /\ ~stm[i].cookie
  <2>1. Linked(s, None, FALSE) /\ i \in Slots
    BY <1>1, <1>2, <1>3, <1>5, StreamTypes DEF Resting
  <2>2. stm[s].kind = "temp" /\ i \in alive /\ stm[i].inner = None /\ stm[i].enclosing = s
    BY <1>1, <1>2, <2>1 DEF Linked
  <2>3. i # s /\ i # n
    BY <1>1, <1>2, <1>5, <2>2
  <2>4. Linked(i, None, FALSE)
    BY <1>3, <2>1 DEF Resting
  <2>5. ~stm[i].cookie
    BY <1>5, <2>2, <2>4 DEF Linked
  <2>6. ASSUME stm[s].enclosing # None PROVE FALSE
    <3>1. PICK e : e = stm[s].enclosing
      OBVIOUS
    <3>2. e \in Slots /\ stm[e].inner = s
      BY <1>3, <1>5, <2>1, <2>6, <3>1, StreamTypes DEF Linked
    <3>3. Linked(e, None, FALSE)
      BY <1>3, <3>2 DEF Resting
    <3> QED
      BY <1>1, <1>2, <1>5, <3>2, <3>3 DEF Linked
  <2> QED
    BY <2>1, <2>2, <2>3, <2>5, <2>6
<1>11. \A x \in alive : x # n /\ x \in AllSlots
  BY <1>3, <1>5 DEF TypeInv
<1>12. Resources' /\ AddedEntries({nextId})
  <2>2. Added({nextId})
    BY <1>2, <1>4, <1>5, <1>6, <1>7, <1>9 DEF Added, WithEntry
  <2>3. AddedIds({nextId})
    <3>1. \A x \in alive : x \in alive' /\ stm'[x].rsrc = stm[x].rsrc
      BY <1>2, <1>8, <1>9, <1>11
    <3>2. \A x \in alive' \ alive : stm'[x].rsrc \in {nextId} /\ regular'[stm'[x].rsrc].ptr = x
      BY <1>2, <1>6, <1>7, <1>9 DEF WithEntry
    <3>3. UNCHANGED ctxs
      BY <1>2
    <3> QED
      BY <3>1, <3>2, <3>3 DEF AddedIds
  <2> QED
    BY <1>2, <1>3, <1>4, <2>2, <2>3, Adding DEF ListInv
<1>13. /\ h \in Frees /\ h.s = i /\ h.opts = opts /\ h.pc = "enter" /\ h.ctx = None
       /\ opts = {"CALL_DTOR", "RELEASE_STREAM", "IGNORE_ENCLOSING"}
  <2>1. opts = {"CALL_DTOR", "RELEASE_STREAM", "IGNORE_ENCLOSING"} /\ opts \in SUBSET Options
    BY <1>1 DEF CloseOpts, Options
  <2>2. i \in AllSlots
    BY <1>10 DEF AllSlots
  <2> QED
    BY <1>1, <2>1, <2>2, NewCall
<1>14. ListInv'
  <2>1. \A x \in AllSlots : stm'[x].ctx = stm[x].ctx
    BY <1>3, <1>5, <1>7, <1>8, <1>9 DEF Resting, Cleared
  <2>2. \A k \in 1..MaxId : regular[k] # None => regular'[k] = regular[k]
    BY <1>4, <1>6 DEF WithEntry
  <2>3. ~Frame("context")'
    BY <1>2, <1>13, NotContext
  <2>4. Counted'
    BY <1>2, <1>3, <2>1, <2>2, <2>3, CountsKept DEF ListInv
  <2>5. Keeping' /\ Phases'
    BY <1>2, <1>3 DEF ListInv, Keeping, Phases
  <2> QED
    BY <1>12, <2>4, <2>5 DEF ListInv
<1>15. /\ \A t \in Slots : /\ t # s /\ t # n => stm'[t].inner = stm[t].inner
                           /\ stm'[t].inner = i => FALSE
                           /\ stm'[t].inner = s => FALSE
       /\ stm'[s].inner = n /\ stm'[n].inner = None
  <2>1. \A t \in Slots : t # s /\ t # n => stm'[t].inner = stm[t].inner
    BY <1>9 DEF AllSlots
  <2>2. stm'[s].inner = n /\ stm'[n].inner = None
    BY <1>7, <1>8, <1>9
  <2>3. i # None
    BY <1>2
  <2>4. ASSUME NEW t \in Slots, t # s PROVE stm[t].inner # i /\ stm[t].inner # s
    <3>1. Linked(t, None, FALSE)
      BY <1>3 DEF Resting
    <3> QED
      BY <1>5, <1>10, <2>3, <2>4, <3>1, LifecycleAssumption DEF Linked
  <2> QED
    BY <1>5, <1>10, <2>1, <2>2, <2>3, <2>4
<1>16. ASSUME NEW y \in Slots PROVE Linked(y, i, TRUE)'
  <2>1. CASE y = s
    <3>1. ~IsInner(s)'
      BY <1>15 DEF IsInner
    <3>2. /\ stm'[s].enclosing = None /\ stm'[s].kind = "temp" /\ stm'[s].inner = n
          /\ stm'[n].inner = None /\ stm'[n].enclosing = s /\ n \in alive'
      BY <1>2, <1>7, <1>8, <1>9, <1>10
    <3> QED
      BY <2>1, <3>1, <3>2 DEF Linked
  <2>2. CASE y = n
    <3>1. ~stm'[n].cookie /\ stm'[n].inner = None /\ stm'[n].enclosing = s /\ stm'[s].inner = n
      BY <1>7, <1>9, <1>15
    <3> QED
      BY <2>2, <3>1 DEF Linked
  <2>3. CASE y = i
    <3>1. stm'[i] = stm[i]
      BY <1>9, <1>10 DEF AllSlots
    <3> QED
      BY <1>10, <2>3, <3>1 DEF Linked
  <2>4. CASE y # s /\ y # n /\ y # i
    <3>1. stm'[y] = stm[y] /\ Linked(y, None, FALSE) /\ y # None /\ y \in AllSlots
      BY <1>3, <1>9, <2>4, LifecycleAssumption DEF Resting, AllSlots
    <3>2. IsInner(y)' => IsInner(y)
      <4> SUFFICES ASSUME NEW t \in Slots, stm'[t].inner = y PROVE stm[t].inner = y
        BY DEF IsInner
      <4> QED
        BY <1>15, <2>4, <3>1
    <3>3. ASSUME stm[y].inner # None
          PROVE  /\ stm[y].inner \in alive' /\ stm'[stm[y].inner] = stm[stm[y].inner]
      <4>1. stm[y].inner \in alive /\ stm[stm[y].inner].enclosing = y
        BY <3>1, <3>3 DEF Linked
      <4>2. stm[y].inner # s
        BY <1>10, <3>1, <4>1
      <4> QED
        BY <1>2, <1>9, <1>11, <4>1, <4>2
    <3>4. ASSUME stm[y].enclosing # None
          PROVE  stm'[stm[y].enclosing].inner = y
      <4>1. stm[y].enclosing \in Slots /\ stm[stm[y].enclosing].inner = y
        BY <1>3, <3>1, <3>4, StreamTypes DEF Linked
      <4>2. stm[y].enclosing # s /\ stm[y].enclosing # n
        BY <1>1, <1>3, <1>5, <2>4, <3>1, <4>1 DEF Resting, Cleared
      <4> QED
        BY <1>15, <4>1, <4>2
    <3> QED
      BY <3>1, <3>2, <3>3, <3>4 DEF Linked
  <2> QED
    BY <2>1, <2>2, <2>3, <2>4
<1>17. Resting(h.s, "IGNORE_ENCLOSING" \in h.opts)'
  <2>1. Cleared'
    BY <1>2, <1>3, <1>5, <1>9 DEF Resting, Cleared
  <2>2. \A y \in AllSlots : stm'[y].in_free = 0
    BY <1>3, <1>5, <1>7, <1>8, <1>9 DEF Resting
  <2>3. \A y \in PSlots : stm'[y].enclosing = None /\ stm'[y].inner = None /\ ~stm'[y].cookie
    BY <1>3, <1>5, <1>9 DEF Resting, AllSlots
  <2>4. \A y : (Kept(y)' <=> Kept(y)) /\ (HasEntry(y) => HasEntry(y)')
    BY <1>2, <1>12, SameTests DEF AddedEntries
  <2>5. HasEntry(n)'
    BY <1>4, <1>6 DEF HasEntry, WithEntry
  <2>6. \A y \in alive' : (y \in Slots => HasEntry(y)') /\ (y \in PSlots => Kept(y)')
    <3>1. \A y \in alive : y # None
      BY <1>11, LifecycleAssumption DEF AllSlots
    <3> QED
      BY <1>2, <1>3, <1>5, <2>4, <2>5, <3>1 DEF Resting
  <2>7. h.s = i /\ "IGNORE_ENCLOSING" \in h.opts
    BY <1>13
  <2>8. \A x, loose : x = i /\ loose = TRUE => Resting(x, loose)'
    BY <1>16, <2>1, <2>2, <2>3, <2>6 DEF Resting
  <2> QED
    BY <2>7, <2>8
<1>18. Fine(h)'
  BY <1>2, <1>10, <1>13, DistinctSlots DEF Fine
<1>19. Begins(h)'
  <2>1. ~IsInner(i)'
    BY <1>15 DEF IsInner
  <2>2. ~stm'[i].cookie
    BY <1>9, <1>10 DEF AllSlots
  <2> QED
    BY <1>13, <2>1, <2>2 DEF Begins
<1>20. stack' \in Seq(Frames) => TypeInv'
  <2>1. nextId' \in Nat \ {0} /\ alive' \subseteq AllSlots
    BY <1>2, <1>3, <1>4, <1>5 DEF TypeInv
  <2> QED
    BY <1>2, <1>3, <1>6, <1>9, <2>1 DEF TypeInv, WithEntry
<1> QED
  BY <1>2, <1>13, <1>14, <1>17, <1>18, <1>19, <1>20, StartInv
LEMMA XportFindsInv ==
  ASSUME FreeInv, NEW p \in Pids, NEW works \in BOOLEAN, XportFinds(p, works)
  PROVE  FreeInv'
<1>1. PICK s, at, T, h, opts, r, rec :
        /\ s = persistent[p] /\ at = EntryOf(s)
        /\ T = {k \in DOMAIN regular : regular[k] # None /\ regular[k].ptr = s}
        /\ opts = CloseOpts \cup {"PERSISTENT"} /\ h = Free(s, opts)
        /\ r = [stm[s] EXCEPT !.rsrc = at] /\ rec = [call |-> "create", pid |-> p]
  OBVIOUS
<1>2. /\ stack = <<>> /\ phase = "request" /\ Room(1) /\ s # None
      /\ stm' = [stm EXCEPT ![s].rsrc = at]
      /\ regular' = IF at = nextId THEN Listed(regular, at, s)
                    ELSE [regular EXCEPT ![at].refcount = @ + 1]
      /\ nextId' = IF at = nextId THEN nextId + 1 ELSE nextId
      /\ stack' = IF works THEN <<>> ELSE <<h, rec>>
      /\ UNCHANGED <<alive, persistent, ctxs, held, phase, requests>>
  BY <1>1 DEF XportFinds, Client, Quiet, FromPersistentId
<1>a. at = IF T = {} THEN nextId ELSE Min(T)
  BY <1>1 DEF EntryOf
<1>3. TypeInv /\ ListInv /\ Idle /\ Resting(None, FALSE)
  BY <1>2, Standing
<1>4. s \in PSlots /\ s \in AllSlots /\ s \in alive /\ s \notin Slots /\ s \notin Contexts
  BY <1>1, <1>2, <1>3, DistinctSlots, LifecycleAssumption DEF AllSlots, TypeInv, ListInv, Keeping
<1>5. /\ nextId \in 1..MaxId /\ regular \in [1..MaxId -> Entries \cup {None}] /\ regular[nextId] = None
      /\ nextId \in Nat
  <2>1. nextId \in 1..MaxId /\ nextId \in Nat /\ regular \in [1..MaxId -> Entries \cup {None}]
    BY <1>2, <1>3, LifecycleAssumption DEF TypeInv, Room
  <2> QED
    BY <1>3, <2>1 DEF ListInv, Resources
<1>6. T # {} => /\ at \in 1..MaxId /\ regular[at] # None /\ regular[at].ptr = s /\ at # nextId
  <2> SUFFICES ASSUME T # {}
               PROVE  at \in 1..MaxId /\ regular[at] # None /\ regular[at].ptr = s /\ at # nextId
    OBVIOUS
  <2>1. T \subseteq 1..MaxId /\ T \subseteq Nat
    BY <1>1, <1>5
  <2>2. at \in T
    BY <1>a, <2>1, Least
  <2> QED
    BY <1>1, <1>5, <2>1, <2>2
<1>7. /\ r \in Streams /\ r.rsrc = at /\ r.kind = stm[s].kind /\ r.in_free = stm[s].in_free
      /\ r.enclosing = stm[s].enclosing /\ r.inner = stm[s].inner /\ r.ctx = stm[s].ctx
      /\ r.cookie = stm[s].cookie
  <2>1. at \in Int
    BY <1>5, <1>6, <1>a
  <2>2. stm[s] \in Streams
    BY <1>3, <1>4, StreamTypes
  <2> QED
    BY <1>1, <2>1, <2>2 DEF Streams
<1>8. Updates(s, r)
  <2>1. stm' = [stm EXCEPT ![s] = r]
    BY <1>1, <1>2
  <2> QED
    BY <1>3, <1>4, <1>7, <2>1, StreamUpdate
<1>9. /\ h \in Frees /\ h.s = s /\ h.opts = opts /\ h.pc = "enter" /\ h.ctx = None
      /\ opts = {"CALL_DTOR", "RELEASE_STREAM", "PERSISTENT"}
  <2>1. opts = {"CALL_DTOR", "RELEASE_STREAM", "PERSISTENT"} /\ opts \in SUBSET Options
    BY <1>1 DEF CloseOpts, Options
  <2> QED
    BY <1>1, <1>4, <2>1, NewCall
<1>10. ~Frame("context")'
  BY <1>2, <1>9, NotContext
<1>11. \A x \in alive : x \in AllSlots
  BY <1>3 DEF TypeInv
<1>12. /\ Resources' /\ Counted'
       /\ \A x : HasEntry(x) => HasEntry(x)'
       /\ regular' \in [1..MaxId -> Entries \cup {None}] /\ nextId' \in Nat \ {0}
  <2>0. \A x \in AllSlots : stm'[x].ctx = stm[x].ctx
    BY <1>7, <1>8 DEF Updates
  <2>1. CASE T = {}
    <3>1. at = nextId /\ regular' = Listed(regular, nextId, s) /\ nextId' = nextId + 1
      BY <1>2, <1>a, <2>1
    <3>2. WithEntry(regular', regular, nextId, s)
      BY <1>4, <1>5, <3>1, Listing
    <3>3. Added({nextId})
      BY <1>4, <1>5, <3>1, <3>2 DEF Added, WithEntry
    <3>4. AddedIds({nextId})
      BY <1>2, <1>4, <1>7, <1>8, <1>11, <3>1, <3>2 DEF AddedIds, WithEntry, Updates
    <3>5. Resources' /\ AddedEntries({nextId})
      BY <1>3, <1>5, <3>1, <3>3, <3>4, Adding DEF ListInv
    <3>6. \A k \in 1..MaxId : regular[k] # None => regular'[k] = regular[k]
      BY <1>5, <3>2 DEF WithEntry
    <3>7. Counted'
      BY <1>2, <1>3, <1>10, <2>0, <3>6, CountsKept DEF ListInv
    <3> QED
      BY <1>5, <3>1, <3>2, <3>5, <3>7 DEF AddedEntries, WithEntry
  <2>2. CASE T # {}
    <3>1. regular' = Bumped(regular, at) /\ nextId' = nextId
      BY <1>2, <1>6, <2>2 DEF Bumped
    <3>2. OneRefMore(regular', regular, at)
      BY <1>5, <1>6, <2>2, <3>1, OneMore
    <3>3. SameEntries(regular')
      BY <1>6, <2>2, <3>2 DEF OneRefMore, SameEntries
    <3>4. Resources' /\ \A x : HasEntry(x)' <=> HasEntry(x)
      BY <1>2, <1>3, <1>4, <1>6, <1>7, <1>8, <1>11, <2>2, <3>1, <3>3, EntriesKept DEF ListInv, Updates
    <3>5. \A k \in 1..MaxId : regular[k] # None /\ regular[k].ptr \in Contexts => regular'[k] = regular[k]
      BY <1>4, <1>6, <2>2, <3>2 DEF OneRefMore
    <3>6. Counted'
      BY <1>2, <1>3, <1>10, <2>0, <3>5, CountsKept DEF ListInv
    <3> QED
      BY <1>5, <3>1, <3>2, <3>4, <3>6 DEF OneRefMore
  <2> QED
    BY <2>1, <2>2
<1>13. ListInv'
  <2>1. Keeping' /\ Phases'
    BY <1>2, <1>3 DEF ListInv, Keeping, Phases
  <2> QED
    BY <1>12, <2>1 DEF ListInv
<1>14. ASSUME NEW x, NEW loose PROVE Resting(x, loose)'
  <2>1. Cleared /\ \A y \in AllSlots \ alive : stm'[y] = stm[y]
    BY <1>3, <1>4, <1>8 DEF Resting, Updates
  <2>2. \A y : Kept(y)' <=> Kept(y)
    BY <1>2, SameTests
  <2>3. \A y \in alive : /\ stm'[y].in_free = stm[y].in_free /\ stm'[y].kind = stm[y].kind
                         /\ stm'[y].enclosing = stm[y].enclosing /\ stm'[y].inner = stm[y].inner
                         /\ stm'[y].cookie => stm[y].cookie
    BY <1>7, <1>8, <1>11 DEF Updates
  <2> QED
    BY <1>2, <1>3, <1>12, <2>1, <2>2, <2>3, RestsBut DEF Cleared
<1>15. stack' \in Seq(Frames) => TypeInv'
  BY <1>2, <1>3, <1>8, <1>12 DEF TypeInv, Updates
<1>16. CASE works
  <2>1. stack' = <<>> /\ Resting(None, FALSE)'
    BY <1>2, <1>14, <1>16
  <2> QED
    BY <1>13, <1>15, <2>1, RestInv
<1>17. CASE ~works
  <2>1. stack' = <<h, rec>> /\ rec \in Creates
    BY <1>1, <1>2, <1>17 DEF Creates
  <2>2. Resting(h.s, "IGNORE_ENCLOSING" \in h.opts)'
    BY <1>14
  <2>3. Fine(h)'
    BY <1>2, <1>4, <1>9 DEF Fine
  <2>4. ~IsInner(s)'
    <3>1. \A t \in Slots : stm[t].inner \in Slots \cup {None}
      BY <1>3, StreamTypes DEF AllSlots
    <3>2. \A t \in Slots : stm'[t].inner = stm[t].inner
      BY <1>4, <1>8 DEF Updates, AllSlots
    <3>3. \A t \in Slots : stm'[t].inner # s
      BY <1>2, <1>4, <3>1, <3>2
    <3> QED
      BY <3>3 DEF IsInner
  <2>5. Begins(h)'
    BY <1>9, <2>4 DEF Begins
  <2> QED
    BY <1>9, <1>13, <1>15, <2>1, <2>2, <2>3, <2>5, StartInv
<1> QED
  BY <1>16, <1>17
\* A new connection, alone or after the dead one was freed.
LEMMA XportMakesInv ==
  ASSUME FreeInv, NEW p \in Pids, NEW s \in PSlots, NEW c \in Contexts \cup {None}, NEW works \in BOOLEAN,
         XportMakes(p, s, c, works)
  PROVE  FreeInv'
<1>1. PICK l, h, f, g, r : /\ l = Listed(regular, nextId, s) /\ h = Free(s, FailedOpts)
                           /\ f = Fresh("socket") /\ g = [f EXCEPT !.rsrc = nextId]
                           /\ r = [g EXCEPT !.ctx = c]
  OBVIOUS
<1>2. /\ phase = "request" /\ Room(1) /\ PSlots \ alive # {} /\ s = Malloc(PSlots)
      /\ persistent[p] = None /\ (stack = <<>> \/ (stack # <<>> /\ Top.call = "create"))
      /\ c # None => ctxs[c] # 0
      /\ alive' = alive \cup {s} /\ stm' = [stm EXCEPT ![s] = r]
      /\ persistent' = [persistent EXCEPT ![p] = s]
      /\ regular' = IF c = None THEN l ELSE Referenced(l, c)
      /\ nextId' = nextId + 1 /\ stack' = IF works THEN <<>> ELSE <<h>>
      /\ UNCHANGED <<ctxs, held, phase, requests>>
  BY <1>1 DEF XportMakes
<1>3. TypeInv /\ ListInv /\ Idle /\ Resting(None, FALSE)
  BY <1>2, Standing, Waiting
<1>4. /\ nextId \in 1..MaxId /\ regular \in [1..MaxId -> Entries \cup {None}] /\ regular[nextId] = None
      /\ nextId \in Nat
  <2>1. nextId \in 1..MaxId /\ nextId \in Nat /\ regular \in [1..MaxId -> Entries \cup {None}]
    BY <1>2, <1>3, LifecycleAssumption DEF TypeInv, Room
  <2> QED
    BY <1>3, <2>1 DEF ListInv, Resources
<1>5. /\ s \notin alive /\ s \in AllSlots /\ s \notin Contexts /\ s \notin Slots /\ s # None
      /\ \A x \in alive : x # s /\ x \in AllSlots
  <2>1. s \in PSlots \ alive
    BY <1>2, Allocated DEF AllSlots
  <2> QED
    BY <1>3, <2>1, LifecycleAssumption, DistinctSlots DEF AllSlots, TypeInv
<1>6. WithEntry(l, regular, nextId, s)
  BY <1>1, <1>4, <1>5, Listing
<1>7. c # None => /\ c \in Contexts /\ ctxs[c] \in 1..MaxId /\ ctxs[c] # nextId
                  /\ regular[ctxs[c]] # None /\ regular[ctxs[c]] \in Entries
                  /\ OneRefMore(regular', l, ctxs[c])
  <2> SUFFICES ASSUME c # None
               PROVE  /\ c \in Contexts /\ ctxs[c] \in 1..MaxId /\ ctxs[c] # nextId
                      /\ regular[ctxs[c]] # None /\ regular[ctxs[c]] \in Entries
                      /\ OneRefMore(regular', l, ctxs[c])
    OBVIOUS
  <2>1. c \in Contexts
    OBVIOUS
  <2>2. ctxs[c] \in 1..MaxId /\ regular[ctxs[c]] # None /\ regular[ctxs[c]] \in Entries
    BY <1>2, <1>3, <2>1, CountTypes DEF ListInv
  <2>3. ctxs[c] # nextId
    BY <1>4, <2>2
  <2>4. l \in [1..MaxId -> Entries \cup {None}] /\ l[ctxs[c]] # None
    BY <1>6, <2>2, <2>3 DEF WithEntry
  <2>5. regular' = Bumped(l, ctxs[c])
    BY <1>2 DEF Referenced, Bumped
  <2>6. OneRefMore(regular', l, ctxs[c])
    BY <2>2, <2>4, <2>5, OneMore
  <2> QED
    BY <2>1, <2>2, <2>3, <2>6
<1>8. /\ regular' \in [1..MaxId -> Entries \cup {None}]
      /\ regular'[nextId] # None /\ regular'[nextId].ptr = s
      /\ \A k \in 1..MaxId : k # nextId =>
           /\ regular'[k] = None <=> regular[k] = None
           /\ regular'[k] # None => regular'[k].ptr = regular[k].ptr
      /\ \A k \in 1..MaxId : k # nextId /\ (c # None => k # ctxs[c]) => regular'[k] = regular[k]
  <2>1. CASE c = None
    <3>1. regular' = l
      BY <1>2, <2>1
    <3> QED
      BY <1>4, <1>6, <3>1 DEF WithEntry
  <2>2. CASE c # None
    BY <1>4, <1>6, <1>7, <2>2 DEF WithEntry, OneRefMore
  <2> QED
    BY <2>1, <2>2
<1>9. ASSUME NEW d \in Contexts
      PROVE  References(regular', ctxs[d]) = References(regular, ctxs[d]) + (IF d = c THEN 1 ELSE 0)
  <2>1. /\ References(regular, ctxs[d]) \in Nat
        /\ ctxs[d] # 0 => ctxs[d] \in 1..MaxId /\ regular[ctxs[d]] # None /\ regular[ctxs[d]].ptr = d
    BY <1>3, CountTypes DEF ListInv
  <2>2. ctxs[d] # nextId
    BY <1>4, <2>1
  <2>3. CASE d = c
    <3>1. c # None /\ ctxs[d] \in 1..MaxId
      BY <1>7, <2>3, LifecycleAssumption
    <3>2. regular'[ctxs[d]].refcount = l[ctxs[d]].refcount + 1
      BY <1>7, <2>3, <3>1 DEF OneRefMore
    <3>3. l[ctxs[d]] = regular[ctxs[d]]
      BY <1>6, <2>2, <3>1 DEF WithEntry
    <3>4. ctxs[d] # 0
      BY <3>1
    <3>5. References(regular', ctxs[d]) = References(regular, ctxs[d]) + 1
      BY <3>2, <3>3, <3>4 DEF References
    <3> QED
      BY <2>3, <3>5
  <2>4. CASE d # c
    <3>1. c # None /\ ctxs[d] # 0 => ctxs[d] # ctxs[c]
      <4>1. c # None => regular[ctxs[c]].ptr = c
        BY <1>2, <1>3, <1>7, CountTypes DEF ListInv
      <4> QED
        BY <2>1, <2>4, <4>1
    <3>2. ctxs[d] # 0 => regular'[ctxs[d]] = regular[ctxs[d]]
      BY <1>8, <2>1, <2>2, <3>1
    <3>3. References(regular', ctxs[d]) = References(regular, ctxs[d])
      BY <3>2 DEF References
    <3> QED
      BY <2>1, <2>4, <3>3
  <2> QED
    BY <2>3, <2>4
<1>10. /\ r \in Streams /\ r.rsrc = nextId /\ r.in_free = 0 /\ r.enclosing = None /\ r.inner = None
       /\ ~r.cookie /\ r.ctx = c
  <2>1. /\ f \in Streams /\ f.in_free = 0 /\ f.enclosing = None /\ f.inner = None /\ ~f.cookie
    BY <1>1, FreshStream DEF Kinds
  <2>2. /\ g \in Streams /\ g.in_free = 0 /\ g.enclosing = None /\ g.inner = None /\ ~g.cookie
        /\ g.rsrc = nextId
    BY <1>1, <1>4, <2>1 DEF Streams
  <2> QED
    BY <1>1, <2>2 DEF Streams
<1>11. Updates(s, r)
  BY <1>2, <1>3, <1>5, <1>10, StreamUpdate
<1>12. /\ FailedOpts = {"CALL_DTOR", "RELEASE_STREAM", "PERSISTENT"}
       /\ h \in Frees /\ h.s = s /\ h.opts = FailedOpts /\ h.pc = "enter" /\ h.ctx = None
  <2>1. FailedOpts = {"CALL_DTOR", "RELEASE_STREAM", "PERSISTENT"} /\ FailedOpts \in SUBSET Options
    BY DEF FailedOpts, CloseOpts, Options
  <2> QED
    BY <1>1, <1>5, <2>1, NewCall
<1>13. ~Frame("context")'
  BY <1>2, <1>12, NotContext
<1>14. Resources' /\ AddedEntries({nextId})
  <2>1. Added({nextId})
    BY <1>2, <1>4, <1>5, <1>8 DEF Added
  <2>2. AddedIds({nextId})
    <3>1. \A x \in alive : x \in alive' /\ stm'[x].rsrc = stm[x].rsrc
      BY <1>2, <1>5, <1>11 DEF Updates
    <3>2. \A x \in alive' \ alive : stm'[x].rsrc \in {nextId} /\ regular'[stm'[x].rsrc].ptr = x
      BY <1>2, <1>8, <1>10, <1>11 DEF Updates
    <3> QED
      BY <1>2, <3>1, <3>2 DEF AddedIds
  <2> QED
    BY <1>2, <1>3, <1>4, <2>1, <2>2, Adding DEF ListInv
<1>15. Counted'
  <2> SUFFICES ASSUME NEW d \in Contexts
               PROVE  Cardinality(Users(d)') + Holds(d)' + Drops(d)' <= References(regular', ctxs'[d])
    BY DEF Counted
  <2>1. Holds(d)' = Holds(d) /\ Drops(d)' = 0
    BY <1>2, <1>13 DEF Holds, Drops
  <2>2. Cardinality(Users(d)) + Holds(d) + Drops(d) <= References(regular, ctxs[d])
    BY <1>2, <1>3 DEF ListInv, Counted
  <2>3. /\ Cardinality(Users(d)) \in Nat /\ Holds(d) \in {0, 1} /\ Drops(d) \in {0, 1}
        /\ References(regular, ctxs[d]) \in Nat /\ IsFiniteSet(Users(d))
    BY <1>3, CountTypes, UsersFinite DEF ListInv
  <2>4. s \notin Users(d)
    BY <1>3, <1>5, LifecycleAssumption DEF Users, Resting, Cleared
  <2>5. References(regular', ctxs'[d]) = References(regular, ctxs[d]) + (IF d = c THEN 1 ELSE 0)
    BY <1>2, <1>9
  <2>6. CASE d = c
    <3>1. Users(d)' = Users(d) \cup {s}
      BY <1>5, <1>10, <1>11, <2>6 DEF Users, Updates
    <3>2. Cardinality(Users(d)') = Cardinality(Users(d)) + 1
      BY <2>3, <2>4, <3>1, FS_AddElement
    <3> QED
      BY <2>1, <2>2, <2>3, <2>5, <2>6, <3>2
  <2>7. CASE d # c
    <3>1. Users(d)' = Users(d)
      BY <1>5, <1>10, <1>11, <2>4, <2>7 DEF Users, Updates
    <3> QED
      BY <2>1, <2>2, <2>3, <2>5, <2>7, <3>1
  <2> QED
    BY <2>6, <2>7
<1>16. /\ \A q \in Pids : persistent'[q] = IF q = p THEN s ELSE persistent[q]
       /\ persistent' \in [Pids -> PSlots \cup {None}]
  BY <1>2, <1>3 DEF TypeInv
<1>17. ListInv'
  <2>1. Keeping'
    BY <1>2, <1>3, <1>5, <1>16 DEF ListInv, Keeping
  <2>2. Phases'
    BY <1>2 DEF Phases
  <2> QED
    BY <1>14, <1>15, <2>1, <2>2 DEF ListInv
<1>18. ASSUME NEW x, NEW loose PROVE Resting(x, loose)'
  <2>1. PICK N : N = {s}
    OBVIOUS
  <2>2. N \subseteq AllSlots \ alive /\ alive' = alive \cup N /\ N \cap Slots = {}
    BY <1>2, <1>5, <2>1
  <2>3. /\ \A y \in AllSlots \ N : stm'[y] = stm[y]
        /\ \A y \in N : stm'[y].in_free = 0 /\ stm'[y].inner \in N \cup {None}
    BY <1>10, <1>11, <2>1 DEF Updates
  <2>4. Kept(s)' /\ \A y \in alive : Kept(y) => Kept(y)'
    <3>1. Kept(s)'
      BY <1>16 DEF Kept
    <3>2. \A y \in alive : y # None
      BY <1>5, LifecycleAssumption DEF AllSlots
    <3> QED
      BY <1>2, <1>16, <3>1, <3>2 DEF Kept
  <2>5. \A y \in N \cap PSlots :
          stm'[y].enclosing = None /\ stm'[y].inner = None /\ ~stm'[y].cookie /\ Kept(y)'
    BY <1>10, <1>11, <2>1, <2>4 DEF Updates
  <2>6. \A y : HasEntry(y) => HasEntry(y)'
    BY <1>14 DEF AddedEntries
  <2>7. \A y \in N \cap Slots : HasEntry(y)' /\ Linked(y, x, loose)'
    BY <2>2
  <2> QED
    BY <1>3, <2>2, <2>3, <2>4, <2>5, <2>6, <2>7, RestsMore
<1>19. stack' \in Seq(Frames) => TypeInv'
  <2>1. nextId' \in Nat \ {0} /\ alive' \subseteq AllSlots
    BY <1>2, <1>3, <1>4, <1>5 DEF TypeInv
  <2> QED
    BY <1>2, <1>3, <1>8, <1>11, <1>16, <2>1 DEF TypeInv, Updates
<1>20. CASE works
  <2>1. stack' = <<>> /\ Resting(None, FALSE)'
    BY <1>2, <1>18, <1>20
  <2> QED
    BY <1>17, <1>19, <2>1, RestInv
<1>21. CASE ~works
  <2>1. stack' = <<h>> /\ Resting(h.s, "IGNORE_ENCLOSING" \in h.opts)'
    BY <1>2, <1>18, <1>21
  <2>2. Fine(h)'
    BY <1>2, <1>5, <1>12 DEF Fine
  <2>3. ~IsInner(s)'
    <3>1. \A t \in Slots : stm'[t].inner \in Slots \cup {None}
      <4>1. stm' \in [AllSlots -> Streams]
        BY <1>11 DEF Updates
      <4> QED
        BY <4>1 DEF Streams, AllSlots
    <3> QED
      BY <1>5, <3>1 DEF IsInner
  <2>4. Begins(h)'
    BY <1>12, <2>3 DEF Begins
  <2> QED
    BY <1>12, <1>17, <1>19, <2>1, <2>2, <2>4, StartInv
<1> QED
  BY <1>20, <1>21
\* Persistent streams outlive the request without their ids and contexts.
LEMMA RequestShutdownInv ==
  ASSUME FreeInv, RequestShutdown
  PROVE  FreeInv'
<1>1. /\ stack = <<>> /\ stack' = <<>> /\ phase = "request" /\ phase' = "destroying" /\ held' = {}
      /\ stm' = Forgotten
      /\ regular' = [k \in DOMAIN regular |->
           LET e == regular[k] IN
           IF e = None \/ e.ptr \notin Contexts THEN e
           ELSE IF Holders(e.ptr) >= e.refcount THEN None
           ELSE [e EXCEPT !.refcount = @ - Holders(e.ptr)]]
      /\ ctxs' = [c \in Contexts |-> IF ctxs[c] # 0 /\ Holders(c) >= regular[ctxs[c]].refcount
                                     THEN 0 ELSE ctxs[c]]
      /\ UNCHANGED <<alive, nextId, persistent>>
  BY DEF RequestShutdown, Client, Quiet
<1>2. TypeInv /\ ListInv /\ Idle /\ Resting(None, FALSE)
  BY <1>1, Standing
<1>3. regular \in [1..MaxId -> Entries \cup {None}] /\ DOMAIN regular = 1..MaxId
  BY <1>2 DEF TypeInv
<1>4. \A c \in Contexts : Holders(c) \in Nat
  <2> SUFFICES ASSUME NEW c \in Contexts PROVE Holders(c) \in Nat
    OBVIOUS
  <2>1. {s \in PSlots : stm[s].ctx = c /\ \E p \in Pids : persistent[p] = s} \subseteq Slots \cup PSlots
    OBVIOUS
  <2> QED
    BY <2>1, FS_Subset, FS_CardinalityType, LifecycleAssumption DEF Holders
<1>5. ASSUME NEW k \in 1..MaxId
      PROVE  /\ regular'[k] \in Entries \cup {None}
             /\ regular'[k] # None => regular[k] # None /\ regular'[k].ptr = regular[k].ptr
             /\ regular[k] # None /\ regular[k].ptr \notin Contexts => regular'[k] = regular[k]
             /\ regular[k] # None /\ regular[k].ptr \in Contexts =>
                  (regular'[k] = None <=> Holders(regular[k].ptr) >= regular[k].refcount)
  <2>1. PICK e, n, d : e = regular[k] /\ n = Holders(e.ptr) /\ d = [e EXCEPT !.refcount = @ - n]
    OBVIOUS
  <2>2. regular'[k] = IF e = None \/ e.ptr \notin Contexts THEN e
                      ELSE IF n >= e.refcount THEN None ELSE d
    BY <1>1, <1>3, <2>1
  <2>3. CASE e = None \/ e.ptr \notin Contexts
    <3>1. e \in Entries \cup {None}
      BY <1>3, <2>1
    <3> QED
      BY <2>1, <2>2, <2>3, <3>1
  <2>4. CASE ~(e = None \/ e.ptr \notin Contexts)
    <3>1. e \in Entries /\ e.refcount \in Nat \ {0} /\ n \in Nat
      BY <1>3, <1>4, <2>1, <2>4, EntryFacts
    <3>2. n < e.refcount => d \in Entries /\ d.ptr = e.ptr
      BY <2>1, <3>1 DEF Entries
    <3>3. n < e.refcount => d # None
      BY <3>2, EntryFacts
    <3>4. ~(n >= e.refcount) <=> n < e.refcount
      BY <3>1
    <3> QED
      BY <2>1, <2>2, <2>4, <3>2, <3>3, <3>4
  <2> QED
    BY <2>3, <2>4
<1>6. \A c \in Contexts :
        ctxs'[c] = IF ctxs[c] # 0 /\ Holders(c) >= regular[ctxs[c]].refcount THEN 0 ELSE ctxs[c]
  BY <1>1
<1>7. ASSUME NEW x \in AllSlots
      PROVE  /\ stm'[x] \in Streams
             /\ stm'[x].in_free = stm[x].in_free /\ stm'[x].kind = stm[x].kind
             /\ stm'[x].enclosing = stm[x].enclosing /\ stm'[x].inner = stm[x].inner
             /\ stm'[x].cookie = stm[x].cookie
             /\ stm'[x].handle = stm[x].handle /\ stm'[x].given = stm[x].given
             /\ Kept(x) => stm'[x].rsrc = -1 /\ stm'[x].ctx = None
             /\ ~Kept(x) => stm'[x] = stm[x]
  <2>1. PICK z, d, g : z = stm[x] /\ d = [z EXCEPT !.rsrc = -1] /\ g = [d EXCEPT !.ctx = None]
    OBVIOUS
  <2>2. stm'[x] = IF Kept(x) THEN g ELSE z
    BY <1>1, <2>1 DEF Forgotten, Kept
  <2>3. z \in Streams
    BY <1>2, <2>1, StreamTypes
  <2>4. /\ d \in Streams /\ d.rsrc = -1 /\ d.in_free = z.in_free /\ d.kind = z.kind
        /\ d.enclosing = z.enclosing /\ d.inner = z.inner /\ d.cookie = z.cookie
        /\ d.handle = z.handle /\ d.given = z.given
    BY <2>1, <2>3 DEF Streams
  <2>5. /\ g \in Streams /\ g.rsrc = -1 /\ g.in_free = z.in_free /\ g.kind = z.kind
        /\ g.enclosing = z.enclosing /\ g.inner = z.inner /\ g.cookie = z.cookie
        /\ g.handle = z.handle /\ g.given = z.given /\ g.ctx = None
    BY <2>1, <2>4 DEF Streams
  <2> QED
    BY <2>1, <2>2, <2>3, <2>5
<1>8. \A x \in Slots : x \in AllSlots /\ ~Kept(x)
  <2>1. \A x \in Slots : x \in AllSlots /\ x # None /\ x \notin PSlots
    BY DistinctSlots, LifecycleAssumption DEF AllSlots
  <2> QED
    BY <1>2, <2>1 DEF Kept, TypeInv
<1>9. \A x \in alive : x \in AllSlots /\ x # None
  BY <1>2, LifecycleAssumption DEF TypeInv, AllSlots
<1>10. Resources'
  <2>1. ASSUME NEW k \in 1..MaxId, regular'[k] # None
        PROVE  /\ k < nextId
               /\ regular'[k].ptr \in Slots => regular'[k].ptr \in alive /\ stm'[regular'[k].ptr].rsrc = k
               /\ regular'[k].ptr \in Contexts => ctxs'[regular'[k].ptr] = k
    <3>1. regular[k] # None /\ regular'[k].ptr = regular[k].ptr
      BY <1>5, <2>1
    <3>2. /\ k < nextId
          /\ regular[k].ptr \in Slots => regular[k].ptr \in alive /\ stm[regular[k].ptr].rsrc = k
          /\ regular[k].ptr \in Contexts => ctxs[regular[k].ptr] = k
      BY <1>2, <3>1 DEF ListInv, Resources
    <3>3. regular[k].ptr \in Contexts => ~(Holders(regular[k].ptr) >= regular[k].refcount)
      BY <1>5, <2>1, <3>1
    <3>4. regular[k].ptr \in Contexts => ctxs'[regular[k].ptr] = k
      BY <1>6, <3>2, <3>3
    <3>5. regular[k].ptr \in Slots => stm'[regular[k].ptr].rsrc = k
      BY <1>7, <1>8, <3>2
    <3> QED
      BY <3>1, <3>2, <3>4, <3>5
  <2>2. ASSUME NEW x \in alive
        PROVE  /\ stm'[x].rsrc < nextId
               /\ IsListed(stm[x].rsrc)' => regular'[stm'[x].rsrc].ptr = x
    <3>1. CASE Kept(x)
      <4>1. stm'[x].rsrc = -1 /\ nextId \in Nat
        BY <1>2, <1>7, <1>9, <3>1 DEF TypeInv
      <4>2. DOMAIN regular' = 1..MaxId
        BY <1>1, <1>3
      <4>3. ~IsListed(stm[x].rsrc)'
        BY <4>1, <4>2 DEF IsListed
      <4> QED
        BY <4>1, <4>3
    <3>2. CASE ~Kept(x)
      <4>1. PICK k : k = stm[x].rsrc
        OBVIOUS
      <4>2. stm'[x].rsrc = k /\ k < nextId
        BY <1>2, <1>7, <1>9, <3>2, <4>1 DEF ListInv, Resources
      <4>3. ASSUME IsListed(stm[x].rsrc)' PROVE regular'[k].ptr = x
        <5>1. k \in 1..MaxId /\ regular'[k] # None
          BY <1>1, <1>3, <4>2, <4>3 DEF IsListed
        <5>2. regular[k] # None /\ regular'[k].ptr = regular[k].ptr
          BY <1>5, <5>1
        <5> QED
          BY <1>2, <1>3, <4>1, <5>1, <5>2 DEF ListInv, Resources, IsListed
      <4> QED
        BY <4>2, <4>3
    <3> QED
      BY <3>1, <3>2
  <2>3. ASSUME NEW c \in Contexts, ctxs'[c] # 0
        PROVE  regular'[ctxs'[c]] # None /\ regular'[ctxs'[c]].ptr = c
    <3>1. ctxs'[c] = ctxs[c] /\ ctxs[c] # 0 /\ ~(Holders(c) >= regular[ctxs[c]].refcount)
      BY <1>6, <2>3
    <3>2. ctxs[c] \in 1..MaxId /\ regular[ctxs[c]] # None /\ regular[ctxs[c]].ptr = c
      BY <1>2, <3>1, CountTypes DEF ListInv
    <3> QED
      BY <1>5, <3>1, <3>2
  <2>4. alive' = alive /\ nextId' = nextId
    BY <1>1
  <2> QED
    BY <2>1, <2>2, <2>3, <2>4 DEF Resources
<1>11. Keeping'
  <2> SUFFICES ASSUME NEW p \in Pids, persistent[p] # None
               PROVE  /\ persistent[p] \in alive
                      /\ \A q \in Pids : persistent[q] = persistent[p] => q = p
                      /\ stm'[persistent[p]].rsrc = -1 /\ stm'[persistent[p]].ctx = None
    BY <1>1 DEF Keeping
  <2>1. persistent[p] \in alive /\ \A q \in Pids : persistent[q] = persistent[p] => q = p
    BY <1>2 DEF ListInv, Keeping
  <2>2. Kept(persistent[p])
    BY DEF Kept
  <2> QED
    BY <1>7, <1>9, <2>1, <2>2
<1>12. ListInv'
  <2>1. Counted' /\ Phases'
    BY <1>1 DEF Counted, Phases
  <2> QED
    BY <1>10, <1>11, <2>1 DEF ListInv
<1>13. Resting(None, FALSE)'
  <2>1. \A y \in Slots : HasEntry(y) => HasEntry(y)'
    <3> SUFFICES ASSUME NEW y \in Slots, NEW k \in 1..MaxId, regular[k] # None, regular[k].ptr = y
                 PROVE  regular'[k] = regular[k]
      BY DEF HasEntry
    <3>1. y \notin Contexts
      BY LifecycleAssumption
    <3> QED
      BY <1>5, <3>1
  <2>2. \A y : Kept(y)' <=> Kept(y)
    BY <1>1, SameTests
  <2>3. \A y \in AllSlots \ alive :
          /\ stm'[y].in_free = 0 /\ stm'[y].enclosing = None /\ stm'[y].inner = None
          /\ ~stm'[y].cookie /\ stm'[y].ctx = None /\ (stm'[y].handle => stm'[y].given)
    <3>1. Cleared
      BY <1>2 DEF Resting
    <3> QED
      BY <1>7, <3>1 DEF Cleared
  <2>4. \A y \in alive :
          /\ stm'[y].in_free = stm[y].in_free /\ stm'[y].kind = stm[y].kind
          /\ stm'[y].enclosing = stm[y].enclosing /\ stm'[y].inner = stm[y].inner
          /\ stm'[y].cookie => stm[y].cookie
    BY <1>7, <1>9
  <2> QED
    BY <1>1, <1>2, <2>1, <2>2, <2>3, <2>4, RestsBut
<1>14. stack' \in Seq(Frames) => TypeInv'
  <2>1. regular' \in [1..MaxId -> Entries \cup {None}]
    BY <1>1, <1>3, <1>5
  <2>2. ctxs' \in [Contexts -> 0..MaxId]
    BY <1>1, <1>2, LifecycleAssumption DEF TypeInv
  <2>3. stm' \in [AllSlots -> Streams]
    BY <1>1, <1>7 DEF Forgotten
  <2> QED
    BY <1>1, <1>2, <2>1, <2>2, <2>3 DEF TypeInv
<1> QED
  BY <1>1, <1>12, <1>13, <1>14, RestInv
-----------------------------------------------------------------------------
(* The work of _php_stream_free *)

LEMMA FreeBeginsInv ==
  ASSUME FreeInv, FreeBegins
  PROVE  FreeInv'
<1>1. PICK f, s, opts, c, pc, g, r :
        /\ f = Top /\ s = f.s /\ opts = Restored(s, f.opts)
        /\ c = (IF phase = "request" THEN stm[s].ctx ELSE None)
        /\ pc = (IF "RSRC_DTOR" \in opts THEN "dtor" ELSE "unlist")
        /\ g = [f EXCEPT !.opts = opts, !.ctx = c, !.pc = pc]
        /\ r = [stm[s] EXCEPT !.in_free = stm[s].in_free + 1]
  OBVIOUS
<1>2. /\ stack # <<>> /\ Top.call = "free" /\ f.pc = "enter" /\ ~Recursive(s, f.opts) /\ ~Redirected(s, opts)
      /\ ~("PRESERVE_HANDLE" \in opts /\ stm[s].cookie)
      /\ stm' = [stm EXCEPT ![s] = r]
      /\ stack' = <<g>> \o Pop
      /\ UNCHANGED <<alive, lists, phase, requests>>
  BY <1>1, Zenon DEF FreeBegins, Frame, Preserve
<1>3. /\ f \in Frees /\ Before(f) /\ s \in AllSlots /\ f.opts \subseteq Options
      /\ \A x : Entering(x) <=> f.pc = "enter" /\ f.s = x
      /\ \A x : Closing(x) <=> f.pc = "enter" /\ f.s = x /\ "IGNORE_ENCLOSING" \in f.opts
  BY <1>1, <1>2, AtTop
<1>4. TypeInv /\ ListInv /\ CallInv /\ StreamInv
  BY DEF FreeInv
<1>5. stm[s] \in Streams /\ stm[s].in_free \in Nat /\ stm[s].ctx \in Contexts \cup {None}
  BY <1>3, <1>4, StreamTypes
<1>6. stm[s].in_free = 0 \/ (stm[s].in_free = 1 /\ "IGNORE_ENCLOSING" \in f.opts)
  BY <1>2, <1>5 DEF Recursive
<1>7. ~Freeing(s)
  <2>1. CASE stm[s].in_free = 0
    BY <1>4, <2>1, FreeingFlag
  <2>2. CASE "IGNORE_ENCLOSING" \in f.opts
    BY <1>1, <1>2, <1>4, <2>2 DEF CallInv, Enters, Frame
  <2> QED
    BY <1>6, <2>1, <2>2
<1>8. opts \subseteq Options /\ f.opts \subseteq opts /\ opts \subseteq f.opts \cup {"RSRC_DTOR"}
  BY <1>1, <1>3 DEF Restored, Options
<1>9. ~IsInner(s)
  <2>1. CASE "RSRC_DTOR" \notin f.opts \/ "IGNORE_ENCLOSING" \in f.opts
    BY <1>1, <1>2, <1>4, <2>1 DEF CallInv, Enters, Frame
  <2>2. CASE "RSRC_DTOR" \in f.opts /\ "IGNORE_ENCLOSING" \notin f.opts
    <3>1. stm[s].in_free = 0 /\ stm[s].enclosing = None
      BY <1>2, <1>6, <1>8, <2>2 DEF Redirected
    <3> SUFFICES ASSUME NEW t \in Slots, stm[t].inner = s PROVE FALSE
      BY DEF IsInner
    <3>2. s # None /\ t # None
      BY <1>3, LifecycleAssumption DEF AllSlots
    <3> QED
      BY <1>4, <3>1, <3>2 DEF StreamInv, Enclosure, Enclosing
  <2> QED
    BY <2>1, <2>2
<1>10. /\ g \in Frees /\ g.call = "free" /\ g.s = s /\ g.opts = opts /\ g.ctx = c /\ g.pc = pc
       /\ pc \in {"unlist", "dtor"} /\ (pc = "dtor" <=> "RSRC_DTOR" \in opts)
  <2>1. pc \in {"unlist", "dtor"} /\ (pc = "dtor" <=> "RSRC_DTOR" \in opts)
    BY <1>1
  <2>2. c \in Contexts \cup {None} /\ pc \in Places /\ opts \in SUBSET Options
    BY <1>1, <1>5, <1>8, <2>1 DEF Places
  <2>3. g \in Frees
    BY <1>1, <1>3, <2>2, FreeType
  <2>4. g.call = "free" /\ g.s = s /\ g.opts = opts /\ g.ctx = c /\ g.pc = pc
    BY <1>1, <1>3 DEF Frees
  <2> QED
    BY <2>1, <2>3, <2>4
<1>11. ~Below(s)
  BY <1>3, <1>7 DEF Before
<1>12. stack' \in Seq(Frames) /\ Shape' /\ Distinct' /\ After(g, {g})
  BY <1>2, <1>4, <1>10, <1>11, AfterReplacing
<1>13. /\ r \in Streams /\ r.in_free = stm[s].in_free + 1
       /\ r.rsrc = stm[s].rsrc /\ r.ctx = stm[s].ctx /\ r.inner = stm[s].inner
       /\ r.cookie = stm[s].cookie /\ r.kind = stm[s].kind /\ r.handle = stm[s].handle
       /\ r.given = stm[s].given /\ r.enclosing = stm[s].enclosing
  <2>1. PICK z, n : z = stm[s] /\ n = stm[s].in_free + 1
    OBVIOUS
  <2>2. z \in Streams /\ n \in Nat /\ r = [z EXCEPT !.in_free = n]
    BY <1>1, <1>5, <2>1
  <2> QED
    BY <2>1, <2>2 DEF Streams
<1>14. /\ stm'[s].in_free > 0 /\ SameIds
       /\ \A x \in AllSlots : /\ stm'[x].inner = stm[x].inner /\ stm'[x].cookie = stm[x].cookie
                              /\ stm'[x].kind = stm[x].kind /\ stm'[x].handle = stm[x].handle
                              /\ stm'[x].given = stm[x].given /\ stm'[x].enclosing = stm[x].enclosing
                              /\ x # s => stm'[x] = stm[x]
       /\ stm' \in [AllSlots -> Streams]
  <2>1. Updates(s, r)
    BY <1>2, <1>3, <1>4, <1>13, StreamUpdate
  <2> QED
    BY <1>5, <1>13, <2>1 DEF Updates, SameIds
<1>15. /\ \A x : Freeing(x)' <=> Freeing(x) \/ x = s
       /\ \A t : WillClose(t) => WillClose(t)'
       /\ ~Frame("enter")' /\ ~Frame("context")'
       /\ \A x : ~Closing(x)' /\ ~Entering(x)'
  <2>1. \A x : Freeing(x)' <=> Freeing(x) \/ x = s
    BY <1>2, <1>3, <1>10, <1>12 DEF Before, After, Work
  <2>2. \A t : WillClose(t) => WillClose(t)'
    <3> SUFFICES ASSUME NEW t, WillClose(t) PROVE WillClose(t)'
      OBVIOUS
    <3>1. WaitsBelow(t) \/ t = s
      BY <1>1, <1>3 DEF Before, Closes
    <3>2. t = s => Closes(g, t)'
      BY <1>10 DEF Closes
    <3> QED
      BY <1>12, <3>1, <3>2 DEF After
  <2>3. ~Frame("enter")' /\ ~Frame("context")'
    BY <1>10, <1>12 DEF After, Frame, Top
  <2> QED
    BY <2>1, <2>2, <2>3 DEF Closing, Entering
<1>16. \A x : (HasEntry(x)' <=> HasEntry(x)) /\ (Kept(x)' <=> Kept(x))
  BY <1>2, SameTests DEF lists
<1>17. Fine(f) /\ s \in alive /\ alive' = alive /\ phase' = phase
  BY <1>1, <1>2, <1>3 DEF Before, Fine
<1>18. TypeInv'
  BY <1>2, <1>4, <1>12, <1>14 DEF TypeInv, lists
<1>19. ListInv'
  BY <1>2, <1>4, <1>14, <1>15, ListsKept DEF lists
<1>20. CallInv'
  <2>1. Fine(g)'
    <3>1. c # None => phase = "request" /\ stm'[s].ctx = c
      BY <1>1, <1>3, <1>14 DEF SameIds
    <3>2. ASSUME s \in Slots, "RSRC_DTOR" \in opts PROVE ~HasEntry(s)
      <4>1. CASE "RSRC_DTOR" \in f.opts
        BY <1>1, <1>2, <1>17, <3>2, <4>1 DEF Fine
      <4>2. CASE stm[s].in_free > 0
        BY <1>3, <1>4, <1>7, <4>2 DEF StreamInv, InFree, Redirecting
      <4> QED
        BY <1>1, <3>2, <4>1, <4>2 DEF Restored
    <3>3. s \in PSlots /\ "PERSISTENT" \notin opts => ~Kept(s)
      BY <1>1, <1>2, <1>8, <1>17 DEF Fine
    <3>4. "PRESERVE_HANDLE" \in opts => stm'[s].kind # "temp" /\ (stm'[s].handle => stm'[s].given)
      <4>1. "PRESERVE_HANDLE" \in opts => "PRESERVE_HANDLE" \in f.opts /\ ~stm[s].cookie
        BY <1>2, <1>8
      <4> QED
        BY <1>1, <1>2, <1>3, <1>14, <1>17, <4>1 DEF Fine
    <3> QED
      BY <1>10, <1>14, <1>16, <1>17, <3>1, <3>2, <3>3, <3>4 DEF Fine
  <2>2. ASSUME NEW u \in Frees, Under(u) PROVE Fine(u)'
    <3>1. u.pc \in Work /\ Fine(u) /\ u.s \in alive /\ u.s \in AllSlots
      BY <1>3, <2>2, FreeType DEF Before, Work, Fine
    <3>2. u.s # s
      BY <1>11, <2>2, <3>1 DEF Below
    <3> QED
      BY <1>14, <1>16, <1>17, <3>1, <3>2, FineKept
  <2>3. Calls'
    BY <1>12, <2>1, <2>2 DEF After
  <2>4. Enters'
    BY <1>15 DEF Enters
  <2> QED
    BY <1>12, <2>3, <2>4 DEF CallInv
<1>21. StreamInv'
  <2>1. Cleared'
    BY <1>4, <1>14, <1>17 DEF StreamInv, Cleared, SameIds
  <2>2. Enclosure'
    <3>1. ASSUME NEW x \in Slots PROVE Enclosing(x)'
      <4>1. Enclosing(x) /\ x \in AllSlots
        BY <1>4 DEF StreamInv, Enclosure, AllSlots
      <4>2. IsInner(x)' <=> IsInner(x)
        BY <1>14 DEF IsInner, AllSlots
      <4>3. PICK i, e : i = stm[x].inner /\ e = stm[x].enclosing
        OBVIOUS
      <4>4. stm'[x].inner = i /\ stm'[x].enclosing = e /\ stm'[x].kind = stm[x].kind
        BY <1>14, <4>1, <4>3
      <4>5. ASSUME i # None
            PROVE  /\ stm'[i].inner = None /\ ~Freeing(i)' /\ stm'[i].enclosing = stm[i].enclosing
                   /\ stm[i].in_free > 0 => stm'[i].in_free > 0
        <5>1. i # s /\ i \in AllSlots
          BY <1>4, <1>9, <4>1, <4>3, <4>5, StreamTypes DEF IsInner, AllSlots
        <5> QED
          BY <1>14, <1>15, <4>1, <4>3, <4>5, <5>1 DEF Enclosing
      <4>6. e # None => stm'[e].inner = x \/ Freeing(x)'
        <5>1. e # None => e \in AllSlots
          BY <1>4, <4>1, <4>3, StreamTypes DEF AllSlots
        <5>2. Closing(x) => x = s
          BY <1>1, <1>3
        <5> QED
          BY <1>14, <1>15, <4>1, <4>3, <5>1, <5>2 DEF Enclosing
      <4>7. \A t \in Slots : stm'[t].inner = stm[t].inner
        BY <1>14 DEF AllSlots
      <4>8. stm'[x].cookie => e = None /\ ~IsInner(x)'
        BY <1>14, <4>1, <4>2, <4>3 DEF Enclosing
      <4>9. i # None => /\ stm[x].kind = "temp" /\ i \in alive'
                        /\ stm[i].enclosing = x \/ (stm[i].enclosing = None /\ stm[i].in_free > 0)
                        /\ \A t \in Slots : stm'[t].inner = i => t = x
        BY <1>17, <4>1, <4>3, <4>7 DEF Enclosing
      <4>10. stm'[x].inner # None => ~Freeing(stm[x].inner)'
        BY <4>4, <4>5
      <4> QED
        BY <4>4, <4>5, <4>6, <4>8, <4>9, <4>10 DEF Enclosing
    <3>2. \A x \in PSlots : stm'[x].enclosing = None /\ stm'[x].inner = None /\ ~stm'[x].cookie
      BY <1>4, <1>14 DEF StreamInv, Enclosure, AllSlots
    <3> QED
      BY <3>1, <3>2 DEF Enclosure
  <2>3. InFree'
    <3> SUFFICES ASSUME NEW x \in AllSlots, x # s, stm[x].in_free > 0, ~Freeing(x) PROVE Redirecting(x)'
      BY <1>14, <1>15 DEF InFree
    <3>1. Redirecting(x) /\ ~Closing(x)
      BY <1>1, <1>3, <1>4 DEF StreamInv, InFree
    <3>2. PICK t \in Slots : stm[t].inner = x /\ WillClose(t)
      BY <3>1 DEF Redirecting, Awaits
    <3>3. stm'[t].inner = x /\ WillClose(t)'
      BY <1>14, <1>15, <3>2 DEF AllSlots
    <3> QED
      BY <1>14, <1>16, <3>1, <3>3 DEF Redirecting, Awaits
  <2>4. Owned'
    <3> SUFFICES ASSUME NEW x \in alive
                 PROVE  /\ x \in Slots => HasEntry(x)' \/ stm'[x].in_free > 0
                        /\ x \in PSlots => Kept(x)' \/ Freeing(x)'
      BY <1>17 DEF Owned
    <3>1. x \in AllSlots /\ (Entering(x) => x = s)
      BY <1>1, <1>3, <1>4 DEF TypeInv
    <3> QED
      BY <1>4, <1>14, <1>15, <1>16, <3>1 DEF StreamInv, Owned
  <2> QED
    BY <2>1, <2>2, <2>3, <2>4 DEF StreamInv
<1> QED
  BY <1>18, <1>19, <1>20, <1>21 DEF FreeInv
\* A step between the beginning and the end of a call that leaves the streams alone.
LEMMA StreamsKept ==
  ASSUME TypeInv, StreamInv, UNCHANGED <<alive, stm>>, ~Frame("enter"),
         \A x : Freeing(x)' <=> Freeing(x), \A t : WillClose(t) => WillClose(t)',
         \A x \in Slots : HasEntry(x)' => HasEntry(x),
         \A x \in Slots : HasEntry(x) => HasEntry(x)' \/ stm[x].in_free > 0,
         \A x \in PSlots : Kept(x) => Kept(x)' \/ Freeing(x)
  PROVE  StreamInv'
<1>1. \A x : ~Entering(x) /\ ~Closing(x)
  BY DEF Entering, Closing
<1>2. Cleared'
  BY DEF StreamInv, Cleared
<1>3. Enclosure'
  <2>1. ASSUME NEW x \in Slots PROVE Enclosing(x)'
    <3>1. Enclosing(x)
      BY DEF StreamInv, Enclosure
    <3>2. IsInner(x)' <=> IsInner(x)
      BY DEF IsInner
    <3>3. ~Freeing(stm[x].inner) => ~Freeing(stm[x].inner)'
      <4>1. PICK i : i = stm[x].inner
        OBVIOUS
      <4>2. ~Freeing(i) => ~Freeing(i)'
        OBVIOUS
      <4> QED
        BY <4>1, <4>2
    <3> QED
      BY <1>1, <3>1, <3>2, <3>3 DEF Enclosing
  <2> QED
    BY <2>1 DEF StreamInv, Enclosure
<1>4. InFree'
  <2> SUFFICES ASSUME NEW x \in AllSlots, stm[x].in_free > 0, ~Freeing(x) PROVE Redirecting(x)'
    BY DEF InFree
  <2>1. Redirecting(x)
    BY DEF StreamInv, InFree
  <2> QED
    BY <1>1, <2>1 DEF Redirecting, Awaits
<1>5. Owned'
  <2> SUFFICES ASSUME NEW x \in alive
               PROVE  /\ x \in Slots => HasEntry(x)' \/ stm[x].in_free > 0
                      /\ x \in PSlots => Kept(x)' \/ Freeing(x)'
    BY DEF Owned
  <2> QED
    BY <1>1 DEF StreamInv, Owned
<1> QED
  BY <1>2, <1>3, <1>4, <1>5 DEF StreamInv

\* The calls below the innermost one do not notice such a step.
LEMMA UnderKept ==
  ASSUME NEW f \in Frees, Before(f), UNCHANGED <<alive, stm, phase>>,
         \A x \in Slots : HasEntry(x)' => HasEntry(x), \A x \in AllSlots : Kept(x)' => Kept(x)
  PROVE  \A u \in Frees : Under(u) => Fine(u)'
<1> SUFFICES ASSUME NEW u \in Frees, Under(u) PROVE Fine(u)'
  OBVIOUS
<1>1. u.pc \in Work /\ Fine(u) /\ u.s \in alive /\ u.s \in AllSlots
  BY FreeType DEF Before, Work, Fine
<1> QED
  BY <1>1, FineKept

\* A reference is dropped to a stream, or to the context a call is done with.
LEMMA DroppedLists ==
  ASSUME TypeInv, ListInv, NEW e, Dropped(regular, e),
         UNCHANGED <<alive, stm, nextId, persistent, held, phase>>, ~Frame("context")',
         phase = "request" /\ e.ptr \in Contexts => Drops(e.ptr) = 1
  PROVE  ListInv'
<1>1. Resources' /\ \A k \in 1..MaxId : regular[k] = None => regular'[k] = None
  BY DEF Dropped
<1>2. Keeping' /\ Phases'
  BY <1>1 DEF ListInv, Keeping, Phases
<1>3. Counted'
  <2> SUFFICES ASSUME phase = "request", NEW c \in Contexts
               PROVE  Cardinality(Users(c)') + Holds(c)' + Drops(c)' <= References(regular', ctxs'[c])
    BY DEF Counted
  <2>1. Users(c)' = Users(c) /\ Holds(c)' = Holds(c) /\ Drops(c)' = 0
    BY DEF Users, Holds, Drops
  <2>2. Cardinality(Users(c)) + Holds(c) + Drops(c) <= References(regular, ctxs[c])
    BY DEF ListInv, Counted
  <2>3. /\ Cardinality(Users(c)) \in Nat /\ Holds(c) \in {0, 1} /\ Drops(c) \in {0, 1}
        /\ References(regular, ctxs[c]) \in Nat
    BY CountTypes DEF ListInv
  <2>4. References(regular', ctxs'[c]) = References(regular, ctxs[c]) - (IF c = e.ptr THEN 1 ELSE 0)
    BY DEF Dropped
  <2>5. c = e.ptr => Drops(c) = 1
    OBVIOUS
  <2> QED
    BY <2>1, <2>2, <2>3, <2>4, <2>5
<1> QED
  BY <1>1, <1>2, <1>3 DEF ListInv

LEMMA FreeUnlistsInv ==
  ASSUME FreeInv, FreeUnlists
  PROVE  FreeInv'
<1>1. PICK f, s, id, g, h, opts :
        /\ f = Top /\ s = f.s /\ id = stm[s].rsrc /\ g = [f EXCEPT !.pc = "dtor"]
        /\ opts = CloseOpts \cup {"RSRC_DTOR"} /\ h = Free(s, opts)
  OBVIOUS
<1>2. /\ stack # <<>> /\ Top.call = "free" /\ f.pc = "unlist"
      /\ IF IsListed(id) THEN Delete(regular, id, stack)
         ELSE stack' = <<g>> \o Pop /\ UNCHANGED <<regular, ctxs>>
      /\ UNCHANGED <<alive, stm, nextId, persistent, held, phase, requests>>
  BY <1>1 DEF FreeUnlists, Frame, Unlist, Goto
<1>3. /\ f \in Frees /\ Before(f) /\ s \in AllSlots /\ stack = <<f>> \o Pop
      /\ \A p : Frame(p) <=> f.pc = p
  BY <1>1, <1>2, AtTop
<1>4. TypeInv /\ ListInv /\ CallInv /\ StreamInv
  BY DEF FreeInv
<1>5. Fine(f) /\ s \in alive /\ stm[s].in_free > 0 /\ ~Below(s) /\ ~Frame("enter")
  BY <1>1, <1>2, <1>3 DEF Before, Fine, Work
<1>6. \A x : Kept(x)' <=> Kept(x)
  BY <1>2, SameTests
<1>7. CASE IsListed(id)
  <2>1. PICK e : e = regular[id]
    OBVIOUS
  <2>2. id \in 1..MaxId /\ e # None /\ e.ptr = s /\ SameEntries(regular)
    BY <1>1, <1>4, <1>5, <1>7, <2>1, SameList DEF IsListed, TypeInv, ListInv, Resources
  <2>3. Dropped(regular, e)
    BY <1>2, <1>4, <1>7, <2>1, <2>2, Deleting DEF ListInv
  <2>4. stack' = IF LastRef(e) /\ s \in Slots THEN <<h>> \o (<<f>> \o Pop) ELSE <<f>> \o Pop
    BY <1>1, <1>2, <1>3, <1>7, <2>1, <2>2 DEF Delete
  <2>5. /\ h \in Frees /\ h.call = "free" /\ h.s = s /\ h.opts = opts /\ h.pc = "enter" /\ h.ctx = None
        /\ opts = {"CALL_DTOR", "RELEASE_STREAM", "RSRC_DTOR"}
    <3>1. opts = {"CALL_DTOR", "RELEASE_STREAM", "RSRC_DTOR"} /\ opts \in SUBSET Options
      BY <1>1 DEF CloseOpts, Options
    <3> QED
      BY <1>1, <1>3, <3>1, NewCall
  <2>6. \A x \in Slots : HasEntry(x)' => HasEntry(x)
    BY <2>3 DEF Dropped
  <2>7. \A u \in Frees : Under(u) => Fine(u)'
    BY <1>2, <1>3, <1>6, <2>6, UnderKept
  <2>8. Fine(f)'
    <3>1. f.pc = "unlist" /\ f.s = s /\ alive' = alive /\ stm' = stm /\ phase' = phase
      BY <1>1, <1>2
    <3>2. f.pc \in Work /\ f.s \in AllSlots /\ f.s \in alive' /\ stm'[f.s] = stm[f.s]
      BY <1>3, <1>5, <3>1 DEF Work
    <3> QED
      BY <1>3, <1>5, <1>6, <2>6, <3>1, <3>2, FineKept
  <2>9. \A x \in Slots : HasEntry(x) => HasEntry(x)' \/ stm[x].in_free > 0
    BY <1>5, <2>2, <2>3 DEF Dropped
  <2>10. s \notin Contexts
    BY <1>3, LifecycleAssumption DEF AllSlots
  <2>11. CASE LastRef(e) /\ s \in Slots
    <3>1. stack' \in Seq(Frames) /\ Shape' /\ Distinct' /\ After(h, {f, h})
      BY <1>1, <1>2, <1>3, <1>4, <1>5, <2>4, <2>5, <2>11, AfterPushing
    <3>2. Top' = h /\ stack' # <<>> /\ Frame("enter")' /\ ~Frame("context")'
      BY <2>5, <3>1 DEF After, Frame, Top
    <3>3. \A x : Freeing(x)' <=> Freeing(x)
      BY <1>2, <1>3, <2>5, <3>1 DEF Before, After, Work
    <3>4. \A t : WillClose(t) => WillClose(t)'
      <4>1. \A t : Closes(f, t) => Closes(f, t)'
        BY <1>2 DEF Closes
      <4> QED
        BY <1>3, <3>1, <4>1 DEF Before, After
    <3>5. Freeing(s)'
      BY <1>1, <1>2, <1>3, <3>3 DEF Before, Work
    <3>6. Fine(h)'
      <4>1. ~HasEntry(s)' /\ s \notin PSlots /\ s \in alive'
        BY <1>2, <1>5, <2>2, <2>3, <2>11, DistinctSlots DEF Dropped
      <4> QED
        BY <2>5, <4>1 DEF Fine
    <3>7. CallInv'
      <4>1. Calls'
        BY <2>7, <2>8, <3>1, <3>6 DEF After
      <4>2. Enters'
        <5>1. /\ "IGNORE_ENCLOSING" \notin h.opts /\ "RSRC_DTOR" \in h.opts
              /\ "PRESERVE_HANDLE" \notin h.opts /\ h.s = s
          BY <2>5
        <5> QED
          BY <3>2, <3>5, <5>1 DEF Enters
      <4> QED
        BY <3>1, <4>1, <4>2 DEF CallInv
    <3>8. ListInv'
      BY <1>2, <1>4, <2>2, <2>3, <2>10, <3>2, DroppedLists
    <3>9. StreamInv'
      BY <1>2, <1>4, <1>5, <1>6, <2>6, <2>9, <3>3, <3>4, StreamsKept
    <3>10. TypeInv'
      BY <1>2, <1>4, <2>3, <3>1 DEF TypeInv, Dropped
    <3> QED
      BY <3>7, <3>8, <3>9, <3>10 DEF FreeInv
  <2>12. CASE ~(LastRef(e) /\ s \in Slots)
    <3>1. stack' \in Seq(Frames) /\ Shape' /\ Distinct' /\ After(f, {f})
      BY <1>1, <1>2, <1>3, <1>4, <1>5, <2>4, <2>12, AfterReplacing
    <3>2. ~Frame("enter")' /\ ~Frame("context")'
      BY <1>2, <3>1 DEF After, Frame, Top
    <3>3. \A x : Freeing(x)' <=> Freeing(x)
      BY <1>2, <1>3, <3>1 DEF Before, After, Work
    <3>4. \A t : WillClose(t) => WillClose(t)'
      <4>1. \A t : Closes(f, t) => Closes(f, t)'
        BY <1>2 DEF Closes
      <4> QED
        BY <1>3, <3>1, <4>1 DEF Before, After
    <3>7. CallInv'
      <4>1. Calls'
        BY <2>7, <2>8, <3>1 DEF After
      <4>2. Enters'
        BY <3>2 DEF Enters
      <4> QED
        BY <3>1, <4>1, <4>2 DEF CallInv
    <3>8. ListInv'
      BY <1>2, <1>4, <2>2, <2>3, <2>10, <3>2, DroppedLists
    <3>9. StreamInv'
      BY <1>2, <1>4, <1>5, <1>6, <2>6, <2>9, <3>3, <3>4, StreamsKept
    <3>10. TypeInv'
      BY <1>2, <1>4, <2>3, <3>1 DEF TypeInv, Dropped
    <3> QED
      BY <3>7, <3>8, <3>9, <3>10 DEF FreeInv
  <2> QED
    BY <2>11, <2>12
<1>8. CASE ~IsListed(id)
  <2>1. stack' = <<g>> \o Pop /\ UNCHANGED <<regular, ctxs>>
    BY <1>2, <1>8
  <2>2. /\ g \in Frees /\ g.call = "free" /\ g.s = s /\ g.pc = "dtor" /\ g.opts = f.opts /\ g.ctx = f.ctx
    <3>1. g \in Frees
      BY <1>1, <1>3, FreeType DEF Places
    <3> QED
      BY <1>1, <1>3, <3>1 DEF Frees
  <2>3. stack' \in Seq(Frames) /\ Shape' /\ Distinct' /\ After(g, {g})
    BY <1>2, <1>4, <1>5, <2>1, <2>2, AfterReplacing
  <2>4. ~Frame("enter")' /\ ~Frame("context")'
    BY <2>2, <2>3 DEF After, Frame, Top
  <2>5. \A x : Freeing(x)' <=> Freeing(x)
    BY <1>1, <1>2, <1>3, <2>2, <2>3 DEF Before, After, Work
  <2>6. \A t : WillClose(t) => WillClose(t)'
    <3>1. \A t : Closes(f, t) => Closes(g, t)'
      BY <1>1, <1>2, <2>2 DEF Closes
    <3> QED
      BY <1>3, <2>3, <3>1 DEF Before, After
  <2>7. \A x : HasEntry(x)' <=> HasEntry(x)
    BY <2>1, SameTests
  <2>8. s \in Slots => ~HasEntry(s)
    <3> SUFFICES ASSUME s \in Slots, NEW k \in 1..MaxId, regular[k] # None, regular[k].ptr = s PROVE FALSE
      BY DEF HasEntry
    <3>1. id = k /\ DOMAIN regular = 1..MaxId
      BY <1>1, <1>4 DEF ListInv, Resources, TypeInv
    <3> QED
      BY <1>8, <3>1 DEF IsListed
  <2>9. Fine(g)'
    BY <1>1, <1>2, <1>5, <1>6, <2>2, <2>7, <2>8 DEF Fine
  <2>10. \A u \in Frees : Under(u) => Fine(u)'
    BY <1>2, <1>3, <1>6, <2>7, UnderKept
  <2>11. CallInv'
    <3>1. Calls'
      BY <2>3, <2>9, <2>10 DEF After
    <3>2. Enters'
      BY <2>4 DEF Enters
    <3> QED
      BY <2>3, <3>1, <3>2 DEF CallInv
  <2>12. ListInv'
    BY <1>2, <1>4, <2>1, <2>4, ListsKept DEF SameIds
  <2>13. StreamInv'
    BY <1>2, <1>4, <1>5, <1>6, <2>5, <2>6, <2>7, StreamsKept
  <2>14. TypeInv'
    BY <1>2, <1>4, <2>1, <2>3 DEF TypeInv
  <2> QED
    BY <2>11, <2>12, <2>13, <2>14 DEF FreeInv
<1> QED
  BY <1>7, <1>8
LEMMA FreeClosesInv ==
  ASSUME FreeInv, FreeCloses
  PROVE  FreeInv'
<1>1. PICK f, s, r, h :
        /\ f = Top /\ s = f.s /\ h = Free(s, CloseOpts)
        /\ r = [stm[s] EXCEPT !.in_free = 0, !.cookie = FALSE]
  OBVIOUS
<1>2. /\ stack # <<>> /\ Top.call = "free" /\ f.pc = "dtor" /\ stm[s].cookie
      /\ stm' = [stm EXCEPT ![s] = r]
      /\ stack' = <<h>> \o Pop
      /\ UNCHANGED <<alive, lists, phase, requests>>
  BY <1>1, Zenon DEF FreeCloses, Frame, CookieCloser
<1>3. /\ f \in Frees /\ Before(f) /\ s \in AllSlots
      /\ \A x : ~Entering(x) /\ ~Closing(x)
  BY <1>1, <1>2, AtTop
<1>4. TypeInv /\ ListInv /\ CallInv /\ StreamInv
  BY DEF FreeInv
<1>5. Fine(f) /\ s \in alive /\ ~Below(s) /\ alive' = alive
  BY <1>1, <1>2, <1>3 DEF Before, Fine, Work
<1>6. s \in Slots /\ stm[s].enclosing = None /\ ~IsInner(s)
  <2>1. s \in Slots
    BY <1>2, <1>3, <1>4 DEF StreamInv, Enclosure, AllSlots
  <2> QED
    BY <1>2, <1>4, <2>1 DEF StreamInv, Enclosure, Enclosing
<1>7. /\ h \in Frees /\ h.call = "free" /\ h.s = s /\ h.pc = "enter" /\ h.ctx = None
      /\ "RSRC_DTOR" \notin h.opts /\ "IGNORE_ENCLOSING" \notin h.opts /\ "PRESERVE_HANDLE" \notin h.opts
  <2>1. CloseOpts \in SUBSET Options
    BY DEF CloseOpts, Options
  <2> QED
    BY <1>1, <1>3, <2>1, NewCall DEF CloseOpts
<1>8. stack' \in Seq(Frames) /\ Shape' /\ Distinct' /\ After(h, {h})
  <2>1. h.pc \notin Work
    BY <1>7 DEF Work
  <2> QED
    BY <1>2, <1>4, <1>7, <2>1, AfterReplacing
<1>9. /\ r \in Streams /\ r.in_free = 0 /\ ~r.cookie /\ r.enclosing = stm[s].enclosing
      /\ r.rsrc = stm[s].rsrc /\ r.ctx = stm[s].ctx /\ r.inner = stm[s].inner
      /\ r.kind = stm[s].kind
  <2>1. PICK z : z = stm[s]
    OBVIOUS
  <2>2. z \in Streams /\ r = [z EXCEPT !.in_free = 0, !.cookie = FALSE]
    BY <1>1, <1>3, <1>4, <2>1, StreamTypes
  <2> QED
    BY <2>1, <2>2 DEF Streams
<1>10. /\ stm'[s].in_free = 0 /\ ~stm'[s].cookie /\ SameIds
       /\ \A x \in AllSlots : /\ stm'[x].inner = stm[x].inner /\ stm'[x].enclosing = stm[x].enclosing
                              /\ stm'[x].kind = stm[x].kind
                              /\ x # s => stm'[x] = stm[x]
       /\ stm' \in [AllSlots -> Streams]
  <2>1. Updates(s, r)
    BY <1>2, <1>3, <1>4, <1>9, StreamUpdate
  <2> QED
    BY <1>9, <2>1 DEF Updates, SameIds
<1>11. /\ \A x : Freeing(x)' <=> Freeing(x) /\ x # s
       /\ \A t : WillClose(t) => WillClose(t)'
       /\ Top' = h /\ Frame("enter")' /\ ~Frame("context")' /\ Entering(s)'
  <2>1. \A x : Freeing(x)' <=> Below(x)
    BY <1>7, <1>8 DEF After, Work
  <2>2. \A x : Freeing(x) <=> Below(x) \/ x = s
    BY <1>1, <1>2, <1>3 DEF Before, Work
  <2>3. \A t : WillClose(t) => WillClose(t)'
    <3> SUFFICES ASSUME NEW t, WillClose(t) PROVE WillClose(t)'
      OBVIOUS
    <3>1. WaitsBelow(t) \/ t = s
      BY <1>1, <1>3 DEF Before, Closes
    <3>2. t = s => Closes(h, t)'
      BY <1>7, <1>10 DEF Closes
    <3> QED
      BY <1>8, <3>1, <3>2 DEF After
  <2>4. Top' = h /\ Frame("enter")' /\ ~Frame("context")' /\ Entering(s)'
    BY <1>7, <1>8 DEF After, Frame, Top, Entering
  <2> QED
    BY <1>5, <2>1, <2>2, <2>3, <2>4
<1>12. \A x : (HasEntry(x)' <=> HasEntry(x)) /\ (Kept(x)' <=> Kept(x))
  BY <1>2, SameTests DEF lists
<1>13. TypeInv'
  BY <1>2, <1>4, <1>8, <1>10 DEF TypeInv, lists
<1>14. ListInv'
  BY <1>2, <1>4, <1>10, <1>11, ListsKept DEF lists
<1>15. CallInv'
  <2>1. Fine(h)'
    BY <1>5, <1>6, <1>7, DistinctSlots DEF Fine
  <2>2. ASSUME NEW u \in Frees, Under(u) PROVE Fine(u)'
    <3>1. u.pc \in Work /\ Fine(u) /\ u.s \in alive /\ u.s \in AllSlots
      BY <1>3, <2>2, FreeType DEF Before, Work, Fine
    <3>2. u.s # s
      BY <1>5, <2>2, <3>1 DEF Below
    <3>3. stm'[u.s] = stm[u.s] /\ phase' = phase
      BY <1>2, <1>10, <3>1, <3>2
    <3> QED
      BY <1>5, <1>12, <3>1, <3>3, FineKept
  <2>3. Calls'
    BY <1>8, <2>1, <2>2 DEF After
  <2>4. Enters'
    <3>1. ~IsInner(s)'
      BY <1>6, <1>10 DEF IsInner, AllSlots
    <3> QED
      BY <1>7, <1>11, <3>1 DEF Enters
  <2> QED
    BY <1>8, <2>3, <2>4 DEF CallInv
<1>16. StreamInv'
  <2>1. Cleared'
    BY <1>4, <1>5, <1>10 DEF StreamInv, Cleared
  <2>2. Enclosure'
    <3>1. ASSUME NEW x \in Slots PROVE Enclosing(x)'
      <4>1. Enclosing(x) /\ x \in AllSlots
        BY <1>4 DEF StreamInv, Enclosure, AllSlots
      <4>2. PICK i, e : i = stm[x].inner /\ e = stm[x].enclosing
        OBVIOUS
      <4>3. stm'[x].inner = i /\ stm'[x].enclosing = e
        BY <1>10, <4>1, <4>2
      <4>4. \A t \in Slots : stm'[t].inner = stm[t].inner
        BY <1>10 DEF AllSlots
      <4>5. IsInner(x)' <=> IsInner(x)
        BY <4>4 DEF IsInner
      <4>6. stm'[x].cookie => e = None /\ ~IsInner(x)'
        BY <1>10, <4>1, <4>2, <4>5 DEF Enclosing
      <4>7. ASSUME i # None
            PROVE  /\ stm'[i].inner = None /\ ~Freeing(i)' /\ stm'[i] = stm[i] /\ i \in alive'
                   /\ stm[i].enclosing = x \/ (stm[i].enclosing = None /\ stm[i].in_free > 0)
                   /\ \A t \in Slots : stm'[t].inner = i => t = x
                   /\ stm'[x].kind = "temp"
        <5>1. i # s /\ i \in AllSlots
          BY <1>4, <1>6, <4>1, <4>2, <4>7, StreamTypes DEF IsInner, AllSlots
        <5>2. stm'[i] = stm[i] /\ ~Freeing(i)'
          BY <1>10, <1>11, <4>1, <4>2, <4>7, <5>1 DEF Enclosing
        <5>3. stm'[x].kind = stm[x].kind
          BY <1>10, <4>1
        <5> QED
          BY <1>5, <4>1, <4>2, <4>4, <4>7, <5>2, <5>3 DEF Enclosing
      <4>8. e # None => stm'[e].inner = x \/ Freeing(x)'
        <5>1. e # None => e \in AllSlots /\ x # s
          BY <1>4, <1>6, <4>1, <4>2, StreamTypes DEF AllSlots
        <5> QED
          BY <1>3, <1>10, <1>11, <4>1, <4>2, <5>1 DEF Enclosing
      <4>9. stm'[x].inner # None => ~Freeing(stm[x].inner)'
        BY <4>3, <4>7
      <4> QED
        BY <4>3, <4>6, <4>7, <4>8, <4>9 DEF Enclosing
    <3>2. \A x \in PSlots : stm'[x].enclosing = None /\ stm'[x].inner = None /\ ~stm'[x].cookie
      BY <1>4, <1>10 DEF StreamInv, Enclosure, AllSlots
    <3> QED
      BY <3>1, <3>2 DEF Enclosure
  <2>3. InFree'
    <3> SUFFICES ASSUME NEW x \in AllSlots, x # s, stm[x].in_free > 0, ~Freeing(x) PROVE Redirecting(x)'
      BY <1>10, <1>11 DEF InFree
    <3>1. Redirecting(x) /\ ~Closing(x)
      BY <1>3, <1>4 DEF StreamInv, InFree
    <3>2. PICK t \in Slots : stm[t].inner = x /\ WillClose(t)
      BY <3>1 DEF Redirecting, Awaits
    <3>3. stm'[t].inner = x /\ WillClose(t)'
      BY <1>10, <1>11, <3>2 DEF AllSlots
    <3> QED
      BY <1>10, <1>12, <3>1, <3>3 DEF Redirecting, Awaits
  <2>4. Owned'
    <3> SUFFICES ASSUME NEW x \in alive
                 PROVE  /\ x \in Slots => HasEntry(x)' \/ stm'[x].in_free > 0 \/ Entering(x)'
                        /\ x \in PSlots => Kept(x)' \/ Freeing(x)' \/ Entering(x)'
      BY <1>5 DEF Owned
    <3>1. x \in AllSlots
      BY <1>4 DEF TypeInv
    <3> QED
      BY <1>3, <1>4, <1>10, <1>11, <1>12, <3>1 DEF StreamInv, Owned
  <2> QED
    BY <2>1, <2>2, <2>3, <2>4 DEF StreamInv
<1> QED
  BY <1>13, <1>14, <1>15, <1>16 DEF FreeInv
LEMMA FreeCallsCloseInv ==
  ASSUME FreeInv, FreeCallsClose
  PROVE  FreeInv'
<1>1. PICK f, s, i, b, r, g, opts, h :
        /\ f = Top /\ s = f.s /\ i = stm[s].inner
        /\ b = (stm[s].handle /\ Preserve(f.opts))
        /\ r = [stm[s] EXCEPT !.handle = b, !.inner = None]
        /\ g = [f EXCEPT !.pc = "release"]
        /\ opts = (CloseOpts \cup (IF Preserve(f.opts) THEN {"PRESERVE_HANDLE"} ELSE {}))
                    \cup {"IGNORE_ENCLOSING"}
        /\ h = Free(i, opts)
  OBVIOUS
<1>2. /\ stack # <<>> /\ Top.call = "free" /\ f.pc = "dtor"
      /\ stm' = [stm EXCEPT ![s] = r]
      /\ stack' = IF i = None THEN <<g>> \o Pop ELSE <<h>> \o (<<g>> \o Pop)
      /\ UNCHANGED <<alive, lists, phase, requests>>
  BY <1>1, Zenon DEF FreeCallsClose, Frame, Goto, FreeEnclosed
<1>3. /\ f \in Frees /\ Before(f) /\ s \in AllSlots
      /\ \A x : ~Entering(x) /\ ~Closing(x)
  BY <1>1, <1>2, AtTop
<1>4. TypeInv /\ ListInv /\ CallInv /\ StreamInv
  BY DEF FreeInv
<1>5. Fine(f) /\ s \in alive /\ ~Below(s) /\ alive' = alive /\ phase' = phase
  BY <1>1, <1>2, <1>3 DEF Before, Fine, Work
<1>6. Freeing(s) /\ stm[s].in_free > 0
  BY <1>1, <1>2, <1>3, <1>5 DEF Before, Work, Fine
<1>7. /\ g \in Frees /\ g.call = "free" /\ g.s = s /\ g.pc = "release" /\ g.opts = f.opts /\ g.ctx = f.ctx
  <2>1. g \in Frees
    BY <1>1, <1>3, FreeType DEF Places
  <2> QED
    BY <1>1, <1>3, <2>1 DEF Frees
<1>8. /\ r \in Streams /\ r.inner = None /\ r.enclosing = stm[s].enclosing
      /\ r.rsrc = stm[s].rsrc /\ r.ctx = stm[s].ctx /\ r.kind = stm[s].kind
      /\ r.cookie = stm[s].cookie /\ r.in_free = stm[s].in_free /\ r.given = stm[s].given
      /\ r.handle = b
  <2>1. PICK z : z = stm[s]
    OBVIOUS
  <2>2. z \in Streams /\ r = [z EXCEPT !.handle = b, !.inner = None]
    BY <1>1, <1>3, <1>4, <2>1, StreamTypes
  <2>3. b \in BOOLEAN
    BY <1>1
  <2> QED
    BY <2>1, <2>2, <2>3 DEF Streams
<1>9. r.handle => stm[s].handle /\ "PRESERVE_HANDLE" \in f.opts
  <2>1. b => stm[s].handle /\ "PRESERVE_HANDLE" \in f.opts
    BY <1>1, Zenon DEF Preserve
  <2> QED
    BY <1>8, <2>1, Zenon
<1>10. /\ stm'[s] = r /\ SameIds
       /\ \A x \in AllSlots : /\ stm'[x].enclosing = stm[x].enclosing /\ stm'[x].cookie = stm[x].cookie
                              /\ stm'[x].kind = stm[x].kind /\ stm'[x].in_free = stm[x].in_free
                              /\ x # s => stm'[x] = stm[x]
       /\ stm' \in [AllSlots -> Streams]
  <2>1. Updates(s, r)
    BY <1>2, <1>3, <1>4, <1>8, StreamUpdate
  <2> QED
    BY <1>8, <2>1 DEF Updates, SameIds
<1>11. \A x : (HasEntry(x)' <=> HasEntry(x)) /\ (Kept(x)' <=> Kept(x))
  BY <1>2, SameTests DEF lists
<1>12. Fine(g)'
  <2>1. f.ctx # None => phase = "request" /\ stm'[s].ctx = f.ctx
    BY <1>1, <1>2, <1>5, <1>8, <1>10 DEF Fine
  <2>2. "PRESERVE_HANDLE" \in f.opts => stm[s].kind # "temp" /\ (stm[s].handle => stm[s].given)
    BY <1>1, <1>2, <1>5 DEF Fine
  <2>3. /\ stm'[s].in_free > 0 /\ stm'[s].inner = None /\ (stm'[s].handle => stm'[s].given)
        /\ "PRESERVE_HANDLE" \in f.opts => stm'[s].kind # "temp"
    <3>1. r.handle => r.given
      BY <1>8, <1>9, <2>2, Zenon
    <3> QED
      BY <1>6, <1>8, <1>10, <2>2, <3>1
  <2>4. /\ s \in Slots => ~HasEntry(s)
        /\ s \in PSlots /\ "PERSISTENT" \notin f.opts => ~Kept(s)
    BY <1>1, <1>2, <1>5 DEF Fine
  <2> QED
    BY <1>5, <1>7, <1>11, <2>1, <2>3, <2>4 DEF Fine
<1>13. ASSUME NEW u \in Frees, Under(u) PROVE Fine(u)'
  <2>1. u.pc \in Work /\ Fine(u) /\ u.s \in alive /\ u.s \in AllSlots
    BY <1>3, <1>13, FreeType DEF Before, Work, Fine
  <2>2. u.s # s
    BY <1>5, <1>13, <2>1 DEF Below
  <2>3. stm'[u.s] = stm[u.s]
    BY <1>10, <2>1, <2>2
  <2> QED
    BY <1>5, <1>11, <2>1, <2>3, FineKept
\* What the stream encloses is about to be freed.
<1>14. ASSUME i # None
       PROVE  /\ s \in Slots /\ i \in Slots /\ i \in alive /\ i # s /\ ~Freeing(i) /\ ~stm[i].cookie
              /\ stm[s].kind = "temp" /\ \A t \in Slots : stm[t].inner = i => t = s
  <2>1. s \in Slots /\ i \in Slots
    BY <1>1, <1>3, <1>4, <1>14, StreamTypes DEF StreamInv, Enclosure, AllSlots
  <2>2. Enclosing(s) /\ Enclosing(i)
    BY <1>4, <2>1 DEF StreamInv, Enclosure
  <2>3. IsInner(i)
    BY <1>1, <2>1 DEF IsInner
  <2>4. /\ i \in alive /\ ~Freeing(i) /\ stm[s].kind = "temp"
        /\ \A t \in Slots : stm[t].inner = i => t = s
    BY <1>1, <1>14, <2>2 DEF Enclosing
  <2> QED
    BY <1>6, <2>1, <2>2, <2>3, <2>4 DEF Enclosing
<1>15. /\ stack' \in Seq(Frames) /\ Shape' /\ Distinct' /\ Calls' /\ Enters'
       /\ ~Frame("context")'
       /\ \A x : Freeing(x)' <=> Freeing(x)
       /\ \A t : WillClose(t) /\ t # s => WillClose(t)'
       /\ i # None => Closing(i)'
  <2>1. CASE i = None
    <3>1. stack' \in Seq(Frames) /\ Shape' /\ Distinct' /\ After(g, {g})
      BY <1>2, <1>4, <1>5, <1>7, <2>1, AfterReplacing
    <3>2. ~Frame("enter")' /\ ~Frame("context")'
      BY <1>7, <3>1 DEF After, Frame, Top
    <3>3. Calls' /\ Enters'
      BY <1>12, <1>13, <3>1, <3>2 DEF After, Enters
    <3>4. \A x : Freeing(x)' <=> Freeing(x)
      BY <1>1, <1>2, <1>3, <1>7, <3>1 DEF Before, After, Work
    <3>5. \A t : WillClose(t) /\ t # s => WillClose(t)'
      BY <1>1, <1>3, <3>1 DEF Before, After, Closes
    <3> QED
      BY <2>1, <3>1, <3>2, <3>3, <3>4, <3>5
  <2>2. CASE i # None
    <3>1. opts = {"CALL_DTOR", "RELEASE_STREAM", "IGNORE_ENCLOSING"}
      <4>1. "PRESERVE_HANDLE" \notin f.opts
        BY <1>1, <1>2, <1>5, <1>14, <2>2 DEF Fine
      <4> QED
        BY <1>1, <4>1 DEF Preserve, CloseOpts
    <3>2. h \in Frees /\ h.call = "free" /\ h.s = i /\ h.opts = opts /\ h.pc = "enter" /\ h.ctx = None
      <4>1. opts \in SUBSET Options /\ i \in AllSlots
        BY <1>14, <2>2, <3>1 DEF Options, CloseOpts, AllSlots
      <4> QED
        BY <1>1, <4>1, NewCall
    <3>3. stack' \in Seq(Frames) /\ Shape' /\ Distinct' /\ After(h, {g, h})
      <4>1. ~Below(g.s) /\ stack' = <<h>> \o (<<g>> \o Pop)
        BY <1>2, <1>5, <1>7, <2>2
      <4> QED
        BY <1>2, <1>4, <1>7, <3>2, <4>1, AfterPushing
    <3>4. Top' = h /\ stack' # <<>> /\ Frame("enter")' /\ ~Frame("context")'
      BY <3>2, <3>3 DEF After, Frame, Top
    <3>5. Closing(i)'
      BY <3>1, <3>2, <3>4 DEF Closing, Entering
    <3>6. \A x : Freeing(x)' <=> Freeing(x)
      <4>1. \A x : Freeing(x) <=> Below(x) \/ x = s
        BY <1>1, <1>2, <1>3 DEF Before, Work
      <4>2. \A x : Freeing(x)' <=> Below(x) \/ \E w \in {g, h} : w.pc \in Work /\ w.s = x
        BY <3>3 DEF After
      <4>3. g.pc \in Work /\ g.s = s /\ h.pc \notin Work
        BY <1>7, <3>2 DEF Work
      <4> QED
        BY <4>1, <4>2, <4>3
    <3>7. \A t : WillClose(t) /\ t # s => WillClose(t)'
      BY <1>1, <1>3, <3>3 DEF Before, After, Closes
    <3>8. Fine(h)'
      <4>1. i \in alive' /\ i \notin PSlots
        BY <1>5, <1>14, <2>2, DistinctSlots
      <4> QED
        BY <3>1, <3>2, <4>1 DEF Fine
    <3>9. Calls'
      BY <1>12, <1>13, <3>3, <3>8 DEF After
    <3>10. Enters'
      <4>1. ~Freeing(i)' /\ ~stm'[i].cookie
        BY <1>10, <1>14, <2>2, <3>6 DEF AllSlots
      <4>2. ~IsInner(i)'
        BY <1>8, <1>10, <1>14, <2>2 DEF IsInner, AllSlots
      <4>3. "IGNORE_ENCLOSING" \in h.opts /\ h.s = i
        BY <3>1, <3>2
      <4> QED
        BY <3>4, <4>1, <4>2, <4>3 DEF Enters
    <3> QED
      BY <3>3, <3>4, <3>5, <3>6, <3>7, <3>9, <3>10
  <2> QED
    BY <2>1, <2>2
<1>16. TypeInv'
  BY <1>2, <1>4, <1>10, <1>15 DEF TypeInv, lists
<1>17. ListInv'
  BY <1>2, <1>4, <1>10, <1>15, ListsKept DEF lists
<1>18. StreamInv'
  <2>1. Cleared'
    BY <1>4, <1>5, <1>10 DEF StreamInv, Cleared
  <2>2. Enclosure'
    <3>1. ASSUME NEW x \in Slots PROVE Enclosing(x)'
      <4>1. Enclosing(x) /\ x \in AllSlots
        BY <1>4 DEF StreamInv, Enclosure, AllSlots
      <4>2. PICK j, e : j = stm'[x].inner /\ e = stm[x].enclosing
        OBVIOUS
      <4>3. \A t \in Slots : stm'[t].inner = None \/ stm'[t].inner = stm[t].inner
        BY <1>8, <1>10 DEF AllSlots
      <4>4. stm'[x].enclosing = e /\ stm'[x].kind = stm[x].kind /\ stm'[x].cookie = stm[x].cookie
        BY <1>10, <4>1, <4>2
      <4>5. stm'[x].cookie => e = None /\ ~IsInner(x)'
        <5>1. x # None
          BY LifecycleAssumption
        <5> QED
          BY <4>1, <4>2, <4>3, <4>4, <5>1 DEF Enclosing, IsInner
      <4>6. ASSUME j # None
            PROVE  /\ stm'[j].inner = None /\ ~Freeing(j)' /\ stm'[j] = stm[j] /\ j \in alive'
                   /\ stm[j].enclosing = x \/ (stm[j].enclosing = None /\ stm[j].in_free > 0)
                   /\ \A t \in Slots : stm'[t].inner = j => t = x
                   /\ stm[x].kind = "temp"
        <5>1. stm[x].inner = j
          BY <4>2, <4>3, <4>6
        <5>2. ~Freeing(j) /\ j # s
          BY <1>6, <4>1, <4>6, <5>1 DEF Enclosing
        <5>3. j \in AllSlots
          BY <1>4, <4>1, <4>6, <5>1, StreamTypes DEF AllSlots
        <5>4. stm'[j] = stm[j] /\ ~Freeing(j)'
          BY <1>10, <1>15, <5>2, <5>3
        <5>5. \A t \in Slots : stm'[t].inner = j => t = x
          BY <4>1, <4>3, <4>6, <5>1 DEF Enclosing
        <5> QED
          BY <1>5, <4>1, <4>6, <5>1, <5>4, <5>5 DEF Enclosing
      <4>7. e # None => stm'[e].inner = x \/ Freeing(x)' \/ Closing(x)'
        <5>1. e # None => e \in AllSlots
          BY <1>4, <4>1, <4>2, StreamTypes DEF AllSlots
        <5>2. x # None
          BY LifecycleAssumption
        <5>3. e # None => stm[e].inner = x \/ Freeing(x)
          BY <1>3, <4>1, <4>2 DEF Enclosing
        <5>4. e = s /\ stm[e].inner = x => Closing(x)'
          BY <1>1, <1>15, <5>2
        <5>5. e # None /\ e # s => stm'[e] = stm[e]
          BY <1>10, <5>1
        <5> QED
          BY <1>15, <5>3, <5>4, <5>5
      <4>8. stm'[x].inner # None => ~Freeing(stm[x].inner)'
        BY <4>2, <4>6
      <4> QED
        BY <4>2, <4>4, <4>5, <4>6, <4>7, <4>8 DEF Enclosing
    <3>2. \A x \in PSlots : stm'[x].enclosing = None /\ stm'[x].inner = None /\ ~stm'[x].cookie
      BY <1>4, <1>8, <1>10 DEF StreamInv, Enclosure, AllSlots
    <3> QED
      BY <3>1, <3>2 DEF Enclosure
  <2>3. InFree'
    <3> SUFFICES ASSUME NEW x \in AllSlots, stm[x].in_free > 0, ~Freeing(x) PROVE Redirecting(x)'
      BY <1>10, <1>15 DEF InFree
    <3>1. Redirecting(x) /\ ~Closing(x)
      BY <1>3, <1>4 DEF StreamInv, InFree
    <3>2. PICK t \in Slots : stm[t].inner = x /\ WillClose(t)
      BY <3>1 DEF Redirecting, Awaits
    <3>3. CASE t = s
      <4>1. x = i /\ i # None
        BY <1>1, <3>1, <3>2, <3>3, LifecycleAssumption DEF Redirecting
      <4>2. Closing(x)'
        BY <1>15, <4>1
      <4> QED
        BY <1>10, <1>11, <3>1, <4>2 DEF Redirecting
    <3>4. CASE t # s
      <4>1. stm'[t].inner = x /\ WillClose(t)'
        BY <1>10, <1>15, <3>2, <3>4 DEF AllSlots
      <4> QED
        BY <1>10, <1>11, <3>1, <4>1 DEF Redirecting, Awaits
    <3> QED
      BY <3>3, <3>4
  <2>4. Owned'
    <3> SUFFICES ASSUME NEW x \in alive
                 PROVE  /\ x \in Slots => HasEntry(x)' \/ stm'[x].in_free > 0
                        /\ x \in PSlots => Kept(x)' \/ Freeing(x)'
      BY <1>5 DEF Owned
    <3>1. x \in AllSlots
      BY <1>4 DEF TypeInv
    <3> QED
      BY <1>3, <1>4, <1>10, <1>11, <1>15, <3>1 DEF StreamInv, Owned
  <2> QED
    BY <2>1, <2>2, <2>3, <2>4 DEF StreamInv
<1> QED
  BY <1>4, <1>15, <1>16, <1>17, <1>18 DEF FreeInv, CallInv
\* A step that leaves the lists and the ids alone but takes streams off the
\* persistent list.
LEMMA ListsForget ==
  ASSUME TypeInv, ListInv, UNCHANGED <<alive, stm, regular, nextId, ctxs, held, phase>>,
         \A p \in Pids : persistent'[p] = None \/ persistent'[p] = persistent[p],
         ~Frame("context")'
  PROVE  ListInv'
<1>1. Resources' /\ Phases'
  BY DEF ListInv, Resources, IsListed, Phases
<1>2. Keeping'
  BY DEF ListInv, Keeping
<1>3. Counted'
  <2> SUFFICES ASSUME phase = "request", NEW c \in Contexts
               PROVE  Cardinality(Users(c)') + Holds(c)' + Drops(c)' <= References(regular', ctxs'[c])
    BY DEF Counted
  <2>1. Users(c)' = Users(c) /\ Holds(c)' = Holds(c) /\ Drops(c)' = 0
    BY DEF Users, Holds, Drops
  <2>2. Cardinality(Users(c)) + Holds(c) + Drops(c) <= References(regular, ctxs[c])
    BY DEF ListInv, Counted
  <2>3. /\ Cardinality(Users(c)) \in Nat /\ Holds(c) \in {0, 1} /\ Drops(c) \in {0, 1}
        /\ References(regular, ctxs[c]) \in Nat
    BY CountTypes DEF ListInv
  <2>4. References(regular', ctxs'[c]) = References(regular, ctxs[c])
    BY DEF References
  <2> QED
    BY <2>1, <2>2, <2>3, <2>4
<1> QED
  BY <1>1, <1>2, <1>3 DEF ListInv

LEMMA FreeForgetsInv ==
  ASSUME FreeInv, FreeForgets
  PROVE  FreeInv'
<1>1. PICK f, s, of, forget, opts, g, h :
        /\ f = Top /\ s = f.s /\ of = {p \in Pids : persistent[p] = s}
        /\ forget = (s \in PSlots /\ "PERSISTENT" \in f.opts /\ of # {})
        /\ opts = CloseOpts \cup {"RSRC_DTOR"}
        /\ g = [f EXCEPT !.pc = "pefree"] /\ h = Free(s, opts)
  OBVIOUS
<1>2. /\ stack # <<>> /\ Top.call = "free" /\ f.pc = "release"
      /\ persistent' = IF forget THEN [p \in Pids |-> IF p \in of THEN None ELSE persistent[p]]
                       ELSE persistent
      /\ stack' = IF forget THEN <<h>> \o (<<g>> \o Pop) ELSE <<g>> \o Pop
      /\ UNCHANGED <<alive, stm, regular, nextId, ctxs, held, phase, requests>>
  BY <1>1, Zenon DEF FreeForgets, Frame, Goto
<1>3. /\ f \in Frees /\ Before(f) /\ s \in AllSlots /\ ~Frame("enter")
  BY <1>1, <1>2, AtTop
<1>4. TypeInv /\ ListInv /\ CallInv /\ StreamInv
  BY DEF FreeInv
<1>5. Fine(f) /\ s \in alive /\ ~Below(s)
  BY <1>1, <1>2, <1>3 DEF Before, Fine, Work
<1>6. \A x : Freeing(x) <=> Below(x) \/ x = s
  BY <1>1, <1>2, <1>3 DEF Before, Work
<1>7. /\ g \in Frees /\ g.call = "free" /\ g.s = s /\ g.pc = "pefree" /\ g.opts = f.opts /\ g.ctx = f.ctx
  <2>1. g \in Frees
    BY <1>1, <1>3, FreeType DEF Places
  <2> QED
    BY <1>1, <1>3, <2>1 DEF Frees
<1>8. /\ persistent' \in [Pids -> PSlots \cup {None}]
      /\ \A p \in Pids : persistent'[p] = None \/ persistent'[p] = persistent[p]
      /\ \A p \in Pids : persistent[p] # s => persistent'[p] = persistent[p]
      /\ forget => \A p \in Pids : persistent'[p] # s
  <2>1. CASE forget
    <3>1. s # None
      BY <1>3, LifecycleAssumption DEF AllSlots
    <3> QED
      BY <1>1, <1>2, <1>4, <2>1, <3>1 DEF TypeInv
  <2>2. CASE ~forget
    BY <1>2, <1>4, <2>2 DEF TypeInv
  <2> QED
    BY <2>1, <2>2
<1>9. /\ \A x : HasEntry(x)' <=> HasEntry(x)
      /\ \A x \in AllSlots : Kept(x)' => Kept(x)
      /\ \A x \in PSlots : Kept(x) => Kept(x)' \/ x = s
      /\ s \in PSlots => ~Kept(s)'
  <2>1. \A x : HasEntry(x)' <=> HasEntry(x)
    BY <1>2, SameTests
  <2>2. \A x \in AllSlots : Kept(x)' => Kept(x)
    BY <1>8, LifecycleAssumption DEF Kept, AllSlots
  <2>3. \A x : Kept(x) => Kept(x)' \/ x = s
    BY <1>8 DEF Kept
  <2>4. ASSUME s \in PSlots PROVE ~Kept(s)'
    <3>1. CASE forget
      BY <1>8, <3>1 DEF Kept
    <3>2. CASE ~forget
      <4>1. "PERSISTENT" \notin f.opts \/ of = {}
        BY <1>1, <2>4, <3>2
      <4>2. of = {} => ~Kept(s)
        BY <1>1 DEF Kept
      <4>3. "PERSISTENT" \notin f.opts => ~Kept(s)
        BY <1>1, <1>2, <1>5, <2>4 DEF Fine
      <4> QED
        BY <1>3, <2>2, <4>1, <4>2, <4>3
    <3> QED
      BY <3>1, <3>2
  <2> QED
    BY <2>1, <2>2, <2>3, <2>4
<1>10. Fine(g)'
  <2>1. f.ctx # None => phase = "request" /\ stm[s].ctx = f.ctx
    BY <1>1, <1>2, <1>5 DEF Fine
  <2>2. /\ stm[s].in_free > 0 /\ stm[s].inner = None /\ (stm[s].handle => stm[s].given)
        /\ "PRESERVE_HANDLE" \in f.opts => stm[s].kind # "temp"
    BY <1>1, <1>2, <1>5 DEF Fine
  <2>3. s \in Slots => ~HasEntry(s)
    BY <1>1, <1>2, <1>5 DEF Fine
  <2>4. stm' = stm /\ alive' = alive /\ phase' = phase
    BY <1>2
  <2> QED
    BY <1>5, <1>7, <1>9, <2>1, <2>2, <2>3, <2>4 DEF Fine
<1>11. \A u \in Frees : Under(u) => Fine(u)'
  <2>1. UNCHANGED <<alive, stm, phase>>
    BY <1>2
  <2> QED
    BY <1>3, <1>9, <2>1, UnderKept
<1>12. /\ stack' \in Seq(Frames) /\ Shape' /\ Distinct' /\ Calls' /\ Enters'
       /\ ~Frame("context")'
       /\ \A x : Freeing(x)' <=> Freeing(x)
       /\ \A t : WillClose(t) => WillClose(t)'
  <2>1. \A t : WillClose(t) => WaitsBelow(t)
    BY <1>2, <1>3 DEF Before, Closes
  <2>2. CASE ~forget
    <3>1. stack' \in Seq(Frames) /\ Shape' /\ Distinct' /\ After(g, {g})
      BY <1>2, <1>4, <1>5, <1>7, <2>2, AfterReplacing
    <3>2. ~Frame("enter")' /\ ~Frame("context")'
      BY <1>7, <3>1 DEF After, Frame, Top
    <3>3. Calls' /\ Enters'
      BY <1>10, <1>11, <3>1, <3>2 DEF After, Enters
    <3>4. \A x : Freeing(x)' <=> Freeing(x)
      BY <1>6, <1>7, <3>1 DEF After, Work
    <3>5. \A t : WillClose(t) => WillClose(t)'
      BY <2>1, <3>1 DEF After
    <3> QED
      BY <3>1, <3>2, <3>3, <3>4, <3>5
  <2>3. CASE forget
    <3>1. opts = {"CALL_DTOR", "RELEASE_STREAM", "RSRC_DTOR"} /\ opts \in SUBSET Options
      BY <1>1 DEF CloseOpts, Options
    <3>2. h \in Frees /\ h.call = "free" /\ h.s = s /\ h.opts = opts /\ h.pc = "enter" /\ h.ctx = None
      BY <1>1, <1>3, <3>1, NewCall
    <3>3. stack' \in Seq(Frames) /\ Shape' /\ Distinct' /\ After(h, {g, h})
      <4>1. ~Below(g.s) /\ stack' = <<h>> \o (<<g>> \o Pop)
        BY <1>2, <1>5, <1>7, <2>3
      <4> QED
        BY <1>2, <1>4, <1>7, <3>2, <4>1, AfterPushing
    <3>4. Top' = h /\ stack' # <<>> /\ Frame("enter")' /\ ~Frame("context")'
      BY <3>2, <3>3 DEF After, Frame, Top
    <3>5. \A x : Freeing(x)' <=> Freeing(x)
      <4>1. \A x : Freeing(x)' <=> Below(x) \/ \E w \in {g, h} : w.pc \in Work /\ w.s = x
        BY <3>3 DEF After
      <4>2. g.pc \in Work /\ g.s = s /\ h.pc \notin Work
        BY <1>7, <3>2 DEF Work
      <4> QED
        BY <1>6, <4>1, <4>2
    <3>6. \A t : WillClose(t) => WillClose(t)'
      BY <2>1, <3>3 DEF After
    <3>7. Fine(h)'
      <4>1. s \in PSlots /\ s \notin Slots /\ s \in alive'
        BY <1>1, <1>2, <1>5, <2>3, DistinctSlots
      <4> QED
        BY <1>9, <3>1, <3>2, <4>1 DEF Fine
    <3>8. Calls'
      BY <1>10, <1>11, <3>3, <3>7 DEF After
    <3>9. Enters'
      <4>1. Freeing(s)'
        BY <1>6, <3>5
      <4>2. /\ "IGNORE_ENCLOSING" \notin h.opts /\ "RSRC_DTOR" \in h.opts
            /\ "PRESERVE_HANDLE" \notin h.opts /\ h.s = s
        BY <3>1, <3>2
      <4> QED
        BY <3>4, <4>1, <4>2 DEF Enters
    <3> QED
      BY <3>3, <3>4, <3>5, <3>6, <3>8, <3>9
  <2> QED
    BY <2>2, <2>3
<1>13. TypeInv'
  BY <1>2, <1>4, <1>8, <1>12 DEF TypeInv
<1>14. ListInv'
  <2>1. UNCHANGED <<alive, stm, regular, nextId, ctxs, held, phase>>
    BY <1>2
  <2> QED
    BY <1>4, <1>8, <1>12, <2>1, ListsForget
<1>15. StreamInv'
  <2>1. UNCHANGED <<alive, stm>>
    BY <1>2
  <2> QED
    BY <1>3, <1>4, <1>6, <1>9, <1>12, <2>1, StreamsKept
<1> QED
  BY <1>12, <1>13, <1>14, <1>15 DEF FreeInv, CallInv
LEMMA FreeReleasesInv ==
  ASSUME FreeInv, FreeReleases
  PROVE  FreeInv'
<1>1. PICK f, s, b, d, r, g :
        /\ f = Top /\ s = f.s /\ b = stm[s].handle /\ d = stm[s].given
        /\ r = [Fresh("none") EXCEPT !.handle = b, !.given = d]
        /\ g = [f EXCEPT !.pc = "context"]
  OBVIOUS
<1>2. /\ stack # <<>> /\ Top.call = "free" /\ f.pc = "pefree"
      /\ alive' = alive \ {s}
      /\ stm' = [stm EXCEPT ![s] = r]
      /\ stack' = <<g>> \o Pop
      /\ UNCHANGED <<lists, phase, requests>>
  BY <1>1, Zenon DEF FreeReleases, Frame, Goto
<1>3. /\ f \in Frees /\ Before(f) /\ s \in AllSlots /\ ~Frame("context")
      /\ f.ctx \in Contexts \cup {None}
      /\ \A x : ~Entering(x) /\ ~Closing(x)
  BY <1>1, <1>2, AtTop
<1>4. TypeInv /\ ListInv /\ CallInv /\ StreamInv
  BY DEF FreeInv
<1>5. Fine(f) /\ s \in alive /\ ~Below(s) /\ phase' = phase
  BY <1>1, <1>2, <1>3 DEF Before, Fine, Work
<1>6. /\ s \in Slots => ~HasEntry(s)
      /\ s \in PSlots => ~Kept(s)
      /\ stm[s].inner = None /\ (b => d)
      /\ f.ctx # None => phase = "request" /\ stm[s].ctx = f.ctx
  BY <1>1, <1>2, <1>5 DEF Fine
<1>7. /\ g \in Frees /\ g.call = "free" /\ g.s = s /\ g.pc = "context" /\ g.ctx = f.ctx
  <2>1. g \in Frees
    BY <1>1, <1>3, FreeType DEF Places
  <2> QED
    BY <1>1, <1>3, <2>1 DEF Frees
<1>8. /\ r \in Streams /\ r.in_free = 0 /\ r.enclosing = None /\ r.inner = None
      /\ ~r.cookie /\ r.ctx = None /\ r.handle = b /\ r.given = d
  <2>1. PICK z : z = Fresh("none")
    OBVIOUS
  <2>2. /\ z \in Streams /\ z.in_free = 0 /\ z.enclosing = None /\ z.inner = None
        /\ ~z.cookie /\ z.ctx = None
    <3>1. "none" \in Kinds
      BY DEF Kinds
    <3> QED
      BY <2>1, <3>1, FreshStream
  <2>3. r = [z EXCEPT !.handle = b, !.given = d] /\ b \in BOOLEAN /\ d \in BOOLEAN
    BY <1>1, <1>3, <1>4, <2>1, StreamTypes
  <2> QED
    BY <2>2, <2>3 DEF Streams
<1>9. /\ stm'[s] = r /\ stm' \in [AllSlots -> Streams]
      /\ \A x \in AllSlots : x # s => stm'[x] = stm[x]
  <2>1. Updates(s, r)
    BY <1>2, <1>3, <1>4, <1>8, StreamUpdate
  <2> QED
    BY <2>1 DEF Updates
<1>10. stack' \in Seq(Frames) /\ Shape' /\ Distinct' /\ After(g, {g})
  <2>1. g.pc \notin Work
    BY <1>7 DEF Work
  <2> QED
    BY <1>2, <1>4, <1>7, <2>1, AfterReplacing
<1>11. /\ \A x : Freeing(x)' <=> Freeing(x) /\ x # s
       /\ \A t : WillClose(t) => WillClose(t)'
       /\ Top' = g /\ Frame("context")' /\ ~Frame("enter")'
       /\ \A x : ~Entering(x)' /\ ~Closing(x)'
  <2>1. \A x : Freeing(x)' <=> Below(x)
    BY <1>7, <1>10 DEF After, Work
  <2>2. \A x : Freeing(x) <=> Below(x) \/ x = s
    BY <1>1, <1>2, <1>3 DEF Before, Work
  <2>3. \A t : WillClose(t) => WillClose(t)'
    BY <1>2, <1>3, <1>10 DEF Before, After, Closes
  <2>4. Top' = g /\ Frame("context")' /\ ~Frame("enter")'
    BY <1>7, <1>10 DEF After, Frame, Top
  <2> QED
    BY <1>5, <2>1, <2>2, <2>3, <2>4 DEF Entering, Closing
<1>12. \A x : (HasEntry(x)' <=> HasEntry(x)) /\ (Kept(x)' <=> Kept(x))
  BY <1>2, SameTests DEF lists
<1>13. TypeInv'
  BY <1>2, <1>4, <1>9, <1>10 DEF TypeInv, lists
<1>14. ListInv'
  <2>1. Resources'
    <3>1. \A k \in 1..MaxId : regular[k] # None /\ regular[k].ptr \in Slots => regular[k].ptr # s
      BY <1>6 DEF HasEntry
    <3>2. \A x \in alive' : x \in alive /\ stm'[x] = stm[x]
      BY <1>2, <1>4, <1>9 DEF TypeInv
    <3>3. /\ regular' = regular /\ nextId' = nextId /\ ctxs' = ctxs
          /\ \A x \in alive : x # s => x \in alive'
      BY <1>2 DEF lists
    <3> QED
      BY <1>4, <3>1, <3>2, <3>3 DEF ListInv, Resources, IsListed
  <2>2. Keeping'
    <3>1. \A p \in Pids : persistent[p] # None => persistent[p] \in AllSlots /\ persistent[p] # s
      BY <1>4, <1>6 DEF TypeInv, Kept, AllSlots
    <3>2. persistent' = persistent /\ \A x \in alive : x # s => x \in alive'
      BY <1>2 DEF lists
    <3> QED
      BY <1>4, <1>5, <1>9, <3>1, <3>2 DEF ListInv, Keeping
  <2>3. Counted'
    <3> SUFFICES ASSUME phase = "request", NEW c \in Contexts
                 PROVE  Cardinality(Users(c)') + Holds(c)' + Drops(c)' <= References(regular', ctxs'[c])
      BY <1>5 DEF Counted
    <3>1. Users(c)' = Users(c) \ {s}
      <4>1. c # None
        BY LifecycleAssumption
      <4> QED
        BY <1>8, <1>9, <4>1 DEF Users
    <3>2. /\ Holds(c)' = Holds(c) /\ Drops(c) = 0 /\ Drops(c)' = (IF f.ctx = c THEN 1 ELSE 0)
          /\ References(regular', ctxs'[c]) = References(regular, ctxs[c])
      BY <1>2, <1>3, <1>7, <1>11 DEF Holds, Drops, References, lists
    <3>3. f.ctx = c => s \in Users(c)
      BY <1>3, <1>6, LifecycleAssumption DEF Users
    <3>4. /\ IsFiniteSet(Users(c)) /\ Cardinality(Users(c)) \in Nat
          /\ Cardinality(Users(c) \ {s}) = IF s \in Users(c) THEN Cardinality(Users(c)) - 1
                                           ELSE Cardinality(Users(c))
      BY UsersFinite, FS_RemoveElement
    <3>5. Cardinality(Users(c)) + Holds(c) + Drops(c) <= References(regular, ctxs[c])
      BY <1>4 DEF ListInv, Counted
    <3>6. Holds(c) \in {0, 1} /\ References(regular, ctxs[c]) \in Nat
      BY <1>4, CountTypes DEF ListInv
    <3> QED
      BY <3>1, <3>2, <3>3, <3>4, <3>5, <3>6
  <2>4. Phases'
    BY <1>2, <1>4 DEF ListInv, Phases, lists
  <2> QED
    BY <2>1, <2>2, <2>3, <2>4 DEF ListInv
<1>15. CallInv'
  <2>1. Fine(g)'
    BY <1>5, <1>6, <1>7 DEF Fine
  <2>2. ASSUME NEW u \in Frees, Under(u) PROVE Fine(u)'
    <3>1. u.pc \in Work /\ Fine(u) /\ u.s \in alive /\ u.s \in AllSlots
      BY <1>3, <2>2, FreeType DEF Before, Work, Fine
    <3>2. u.s # s
      BY <1>5, <2>2, <3>1 DEF Below
    <3>3. stm'[u.s] = stm[u.s] /\ u.s \in alive'
      BY <1>2, <1>9, <3>1, <3>2
    <3> QED
      BY <1>5, <1>12, <3>1, <3>3, FineKept
  <2>3. Calls'
    BY <1>10, <2>1, <2>2 DEF After
  <2>4. Enters'
    BY <1>11 DEF Enters
  <2> QED
    BY <1>10, <2>3, <2>4 DEF CallInv
<1>16. StreamInv'
  <2>1. Cleared'
    <3>1. r.handle => r.given
      BY <1>6, <1>8, Zenon
    <3>2. \A x \in AllSlots \ alive' : x = s \/ (x \in AllSlots \ alive /\ stm'[x] = stm[x])
      BY <1>2, <1>9
    <3> QED
      BY <1>4, <1>8, <1>9, <3>1, <3>2 DEF StreamInv, Cleared
  <2>2. Enclosure'
    <3>1. ASSUME NEW x \in Slots PROVE Enclosing(x)'
      <4>1. Enclosing(x) /\ x \in AllSlots /\ x # None
        BY <1>4, LifecycleAssumption DEF StreamInv, Enclosure, AllSlots
      <4>2. CASE x = s
        BY <1>8, <1>9, <4>2 DEF Enclosing
      <4>3. CASE x # s
        <5>1. PICK i, e : i = stm[x].inner /\ e = stm[x].enclosing
          OBVIOUS
        <5>2. stm'[x] = stm[x]
          BY <1>9, <4>1, <4>3
        <5>3. \A t \in Slots : stm'[t].inner = None \/ stm'[t].inner = stm[t].inner
          BY <1>8, <1>9 DEF AllSlots
        <5>4. stm'[x].cookie => e = None /\ ~IsInner(x)'
          BY <4>1, <5>1, <5>2, <5>3 DEF Enclosing, IsInner
        <5>5. ASSUME i # None
              PROVE  /\ stm'[i] = stm[i] /\ ~Freeing(i)' /\ i \in alive'
                     /\ \A t \in Slots : stm'[t].inner = i => t = x
          <6>1. ~Freeing(i) /\ i \in alive
            BY <4>1, <5>1, <5>5 DEF Enclosing
          <6>2. i # s
            BY <1>1, <1>2, <1>3, <6>1 DEF Before, Work
          <6>3. stm'[i] = stm[i] /\ ~Freeing(i)' /\ i \in alive'
            BY <1>2, <1>4, <1>9, <1>11, <6>1, <6>2 DEF TypeInv
          <6>4. \A t \in Slots : stm'[t].inner = i => t = x
            BY <4>1, <5>1, <5>3, <5>5 DEF Enclosing
          <6> QED
            BY <6>3, <6>4
        <5>6. e # None => stm'[e].inner = x \/ Freeing(x)'
          <6>1. e # None => e \in AllSlots
            BY <1>4, <4>1, <5>1, StreamTypes DEF AllSlots
          <6>2. e # None => stm[e].inner = x \/ Freeing(x)
            BY <1>3, <4>1, <5>1 DEF Enclosing
          <6> QED
            BY <1>6, <1>9, <1>11, <4>1, <4>3, <6>1, <6>2
        <5>7. stm'[x].inner # None => ~Freeing(stm[x].inner)'
          BY <5>1, <5>2, <5>5
        <5>8. i # None => /\ stm[x].kind = "temp" /\ stm[i].inner = None
                          /\ stm[i].enclosing = x \/ (stm[i].enclosing = None /\ stm[i].in_free > 0)
          BY <4>1, <5>1 DEF Enclosing
        <5> QED
          BY <5>1, <5>2, <5>4, <5>5, <5>6, <5>7, <5>8 DEF Enclosing
      <4> QED
        BY <4>2, <4>3
    <3>2. \A x \in PSlots : stm'[x].enclosing = None /\ stm'[x].inner = None /\ ~stm'[x].cookie
      BY <1>4, <1>8, <1>9 DEF StreamInv, Enclosure, AllSlots
    <3> QED
      BY <3>1, <3>2 DEF Enclosure
  <2>3. InFree'
    <3> SUFFICES ASSUME NEW x \in AllSlots, x # s, stm[x].in_free > 0, ~Freeing(x) PROVE Redirecting(x)'
      BY <1>8, <1>9, <1>11 DEF InFree
    <3>1. Redirecting(x) /\ ~Closing(x)
      BY <1>3, <1>4 DEF StreamInv, InFree
    <3>2. PICK t \in Slots : stm[t].inner = x /\ WillClose(t)
      BY <3>1 DEF Redirecting, Awaits
    <3>3. t # s
      BY <1>6, <3>1, <3>2, LifecycleAssumption DEF Redirecting
    <3>4. stm'[t].inner = x /\ WillClose(t)'
      BY <1>9, <1>11, <3>2, <3>3 DEF AllSlots
    <3> QED
      BY <1>9, <1>12, <3>1, <3>4 DEF Redirecting, Awaits
  <2>4. Owned'
    <3> SUFFICES ASSUME NEW x \in alive, x # s
                 PROVE  /\ x \in Slots => HasEntry(x)' \/ stm'[x].in_free > 0
                        /\ x \in PSlots => Kept(x)' \/ Freeing(x)'
      BY <1>2 DEF Owned
    <3>1. stm'[x] = stm[x]
      BY <1>4, <1>9 DEF TypeInv
    <3> QED
      BY <1>3, <1>4, <1>11, <1>12, <3>1 DEF StreamInv, Owned
  <2> QED
    BY <2>1, <2>2, <2>3, <2>4 DEF StreamInv
<1> QED
  BY <1>13, <1>14, <1>15, <1>16 DEF FreeInv
LEMMA FreeDropsContextInv ==
  ASSUME FreeInv, FreeDropsContext
  PROVE  FreeInv'
<1>1. PICK f, c : f = Top /\ c = f.ctx
  OBVIOUS
<1>2. /\ stack # <<>> /\ Top.call = "free" /\ f.pc = "context"
      /\ IF c = None THEN stack' = Pop /\ UNCHANGED <<regular, ctxs>>
         ELSE Delete(regular, ctxs[c], Pop)
      /\ UNCHANGED <<alive, stm, nextId, persistent, held, phase, requests>>
  BY <1>1, Zenon DEF FreeDropsContext, Frame
<1>3. /\ f \in Frees /\ Before(f) /\ c \in Contexts \cup {None} /\ ~Frame("enter") /\ Frame("context")
  BY <1>1, <1>2, AtTop
<1>4. TypeInv /\ ListInv /\ CallInv /\ StreamInv
  BY DEF FreeInv
<1>5. UNCHANGED <<alive, stm, nextId, persistent, held, phase>>
  BY <1>2
<1>6. \A x : Kept(x)' <=> Kept(x)
  BY <1>5, SameTests
\* Whatever becomes of the list, the call returns.
<1>7. ASSUME stack' = Pop, regular' \in [1..MaxId -> Entries \cup {None}],
             ctxs' \in [Contexts -> 0..MaxId], ~Frame("context")' => ListInv',
             \A x \in Slots : HasEntry(x)' <=> HasEntry(x)
      PROVE  FreeInv'
  <2>1. stack' \in Seq(Frames) /\ Shape' /\ Distinct' /\ AfterReturn
    BY <1>2, <1>4, <1>7, AfterReturning
  <2>2. /\ ~Frame("enter")' /\ ~Frame("context")'
        /\ \A x : Freeing(x)' <=> Freeing(x)
        /\ \A t : WillClose(t) => WillClose(t)'
    <3>1. \A x : Freeing(x) <=> Below(x)
      BY <1>2, <1>3 DEF Before, Work
    <3>2. \A t : WillClose(t) <=> WaitsBelow(t)
      BY <1>2, <1>3 DEF Before, Closes
    <3> QED
      BY <2>1, <3>1, <3>2 DEF AfterReturn
  <2>3. CallInv'
    <3>1. \A u \in Frees : Under(u) => Fine(u)'
      BY <1>3, <1>5, <1>6, <1>7, UnderKept
    <3>2. Calls' /\ Enters'
      BY <2>1, <2>2, <3>1 DEF AfterReturn, Enters
    <3> QED
      BY <2>1, <3>2 DEF CallInv
  <2>4. StreamInv'
    BY <1>3, <1>4, <1>5, <1>6, <1>7, <2>2, StreamsKept
  <2>5. TypeInv'
    BY <1>4, <1>5, <1>7, <2>1 DEF TypeInv
  <2> QED
    BY <1>7, <2>2, <2>3, <2>4, <2>5 DEF FreeInv
<1>8. CASE c = None
  <2>1. stack' = Pop /\ UNCHANGED <<regular, ctxs>>
    BY <1>2, <1>8
  <2>2. SameIds /\ \A x : HasEntry(x)' <=> HasEntry(x)
    BY <1>5, <2>1, SameTests DEF SameIds
  <2>3. ~Frame("context")' => ListInv'
    BY <1>4, <1>5, <2>1, <2>2, ListsKept
  <2>4. regular' \in [1..MaxId -> Entries \cup {None}] /\ ctxs' \in [Contexts -> 0..MaxId]
    BY <1>4, <2>1 DEF TypeInv
  <2> QED
    BY <1>7, <2>1, <2>2, <2>3, <2>4
<1>9. CASE c # None
  <2>1. c \in Contexts /\ c \notin Slots /\ phase = "request" /\ Drops(c) = 1
    <3>1. c \in Contexts /\ c \notin Slots
      BY <1>3, <1>9, LifecycleAssumption
    <3>2. phase = "request"
      BY <1>1, <1>3, <1>9 DEF Before, Fine
    <3>3. Drops(c) = 1
      BY <1>1, <1>3 DEF Drops
    <3> QED
      BY <3>1, <3>2, <3>3
  <2>2. PICK id, e : id = ctxs[c] /\ e = regular[id]
    OBVIOUS
  <2>3. id \in 1..MaxId /\ e # None /\ e.ptr = c /\ SameEntries(regular)
    BY <1>4, <2>1, <2>2, ContextThere, SameList DEF ListInv
  <2>4. Delete(regular, id, Pop)
    BY <1>2, <1>9, <2>2
  <2>5. Dropped(regular, e)
    BY <1>4, <1>5, <2>2, <2>3, <2>4, Deleting DEF ListInv
  <2>6. stack' = Pop
    <3>1. e.ptr \notin Slots
      BY <2>1, <2>3
    <3> QED
      BY <2>2, <2>4, <3>1 DEF Delete
  <2>7. \A x \in Slots : HasEntry(x)' <=> HasEntry(x)
    BY <2>1, <2>3, <2>5 DEF Dropped
  <2>8. ~Frame("context")' => ListInv'
    BY <1>4, <1>5, <2>1, <2>3, <2>5, DroppedLists
  <2>9. regular' \in [1..MaxId -> Entries \cup {None}] /\ ctxs' \in [Contexts -> 0..MaxId]
    BY <2>5 DEF Dropped
  <2> QED
    BY <1>7, <2>6, <2>7, <2>8, <2>9
<1> QED
  BY <1>8, <1>9
-----------------------------------------------------------------------------
(* The invariant, and what it says *)

LEMMA InitInv ==
  ASSUME Init
  PROVE  FreeInv
<1>1. /\ alive = {} /\ stm = [s \in AllSlots |-> Fresh("none")]
      /\ regular = [k \in 1..MaxId |-> None] /\ nextId = 1
      /\ persistent = [p \in Pids |-> None]
      /\ ctxs = [c \in Contexts |-> 0] /\ held = {}
      /\ stack = <<>> /\ phase = "request"
  BY DEF Init
<1>2. CallInv /\ Idle
  BY <1>1, IdleBetween
<1>3. PICK z : z = Fresh("none")
  OBVIOUS
<1>4. /\ z \in Streams /\ z.in_free = 0 /\ z.enclosing = None /\ z.inner = None
      /\ ~z.cookie /\ z.ctx = None /\ ~z.handle
  <2>1. "none" \in Kinds
    BY DEF Kinds
  <2> QED
    BY <1>3, <2>1, FreshStream
<1>5. \A s \in AllSlots : stm[s] = z
  BY <1>1, <1>3
<1>6. \A k \in 1..MaxId : regular[k] = None
  BY <1>1
<1>7. TypeInv
  <2>1. stm \in [AllSlots -> Streams]
    BY <1>1, <1>3, <1>4
  <2>2. ctxs \in [Contexts -> 0..MaxId]
    BY <1>1, LifecycleAssumption
  <2>3. stack \in Seq(Frames)
    BY <1>1
  <2> QED
    BY <1>1, <2>1, <2>2, <2>3 DEF TypeInv
<1>8. ListInv
  <2>1. Resources /\ Keeping /\ Phases
    BY <1>1, <1>6 DEF Resources, Keeping, Phases
  <2>2. Counted
    <3> SUFFICES ASSUME NEW c \in Contexts
                 PROVE  Cardinality(Users(c)) + Holds(c) + Drops(c) <= References(regular, ctxs[c])
      BY DEF Counted
    <3>1. Users(c) = {}
      BY <1>4, <1>5, LifecycleAssumption DEF Users
    <3>2. Cardinality(Users(c)) = 0
      BY <3>1, FS_EmptySet
    <3>3. Holds(c) = 0 /\ Drops(c) = 0 /\ References(regular, ctxs[c]) = 0
      BY <1>1, <1>2 DEF Holds, Drops, References, Idle
    <3> QED
      BY <3>2, <3>3
  <2> QED
    BY <2>1, <2>2 DEF ListInv
<1>9. StreamInv
  <2>1. Cleared
    BY <1>4, <1>5 DEF Cleared
  <2>2. Enclosure
    BY <1>4, <1>5 DEF Enclosure, Enclosing, AllSlots
  <2>3. InFree
    BY <1>4, <1>5 DEF InFree
  <2>4. Owned
    BY <1>1 DEF Owned
  <2> QED
    BY <2>1, <2>2, <2>3, <2>4 DEF StreamInv
<1> QED
  BY <1>2, <1>7, <1>8, <1>9 DEF FreeInv

LEMMA StutterInv ==
  ASSUME FreeInv, UNCHANGED vars
  PROVE  FreeInv'
<1>1. UNCHANGED <<alive, stm, regular, nextId, persistent, ctxs, held, stack, phase>>
  BY DEF vars
<1>2. \A x : /\ Freeing(x)' <=> Freeing(x)
             /\ WillClose(x)' <=> WillClose(x)
             /\ Entering(x)' <=> Entering(x)
             /\ Closing(x)' <=> Closing(x)
             /\ IsInner(x)' <=> IsInner(x)
             /\ HasEntry(x)' <=> HasEntry(x)
             /\ Kept(x)' <=> Kept(x)
  BY <1>1 DEF Freeing, Works, WillClose, Closes, Entering, Closing, Frame, Top, IsInner, HasEntry, Kept
<1>3. TypeInv'
  BY <1>1 DEF FreeInv, TypeInv
<1>4. ListInv'
  <2>1. Resources' /\ Keeping' /\ Phases'
    BY <1>1 DEF FreeInv, ListInv, Resources, Keeping, Phases, IsListed
  <2>2. Counted'
    <3>1. \A c : Users(c)' = Users(c) /\ Holds(c)' = Holds(c) /\ Drops(c)' = Drops(c)
      BY <1>1 DEF Users, Holds, Drops, Frame, Top
    <3> QED
      BY <1>1, <3>1 DEF FreeInv, ListInv, Counted, References
  <2> QED
    BY <2>1, <2>2 DEF ListInv
<1>5. CallInv'
  <2>1. Shape' /\ Distinct' /\ Enters'
    BY <1>1, <1>2 DEF FreeInv, CallInv, Shape, Distinct, Works, Enters, Frame, Top
  <2>2. Calls'
    BY <1>1, <1>2 DEF FreeInv, CallInv, Calls, Fine
  <2> QED
    BY <2>1, <2>2 DEF CallInv
<1>6. StreamInv'
  <2>1. Cleared' /\ Enclosure'
    BY <1>1, <1>2 DEF FreeInv, StreamInv, Cleared, Enclosure, Enclosing, IsInner, Freeing, Works
  <2>2. InFree' /\ Owned'
    BY <1>1, <1>2 DEF FreeInv, StreamInv, InFree, Redirecting, Awaits, Owned
  <2> QED
    BY <2>1, <2>2 DEF StreamInv
<1> QED
  BY <1>3, <1>4, <1>5, <1>6 DEF FreeInv

LEMMA NextInv ==
  ASSUME FreeInv, [Next]_vars
  PROVE  FreeInv'
<1>1. CASE FreeStep
  <2>1. CASE FreeReturns
    BY <2>1, FreeReturnsInv
  <2>2. CASE FreeRedirects
    BY <2>2, FreeRedirectsInv
  <2>3. CASE FreeKeepsCookie
    BY <2>3, FreeKeepsCookieInv
  <2>4. CASE FreeBegins
    BY <2>4, FreeBeginsInv
  <2>5. CASE FreeUnlists
    BY <2>5, FreeUnlistsInv
  <2>6. CASE FreeCloses
    BY <2>6, FreeClosesInv
  <2>7. CASE FreeCallsClose
    BY <2>7, FreeCallsCloseInv
  <2>8. CASE FreeForgets
    BY <2>8, FreeForgetsInv
  <2>9. CASE FreeReleases
    BY <2>9, FreeReleasesInv
  <2>10. CASE FreeDropsContext
    BY <2>10, FreeDropsContextInv
  <2> QED
    BY <1>1, <2>1, <2>2, <2>3, <2>4, <2>5, <2>6, <2>7, <2>8, <2>9, <2>10 DEF FreeStep
<1>2. CASE XportCut
  BY <1>2, XportCutInv
<1>3. ASSUME NEW s \in Slots, Open(s) \/ Close(s) \/ AddRef(s) \/ DropRef(s) \/ Fclose(s)
      PROVE  FreeInv'
  BY <1>3, OpenInv, CloseInv, AddRefInv, DropRefInv, FcloseInv
<1>4. ASSUME NEW s \in Slots, NEW release \in BOOLEAN, Cast(s, release)
      PROVE  FreeInv'
  BY <1>4, CastInv
<1>5. ASSUME NEW s \in Slots, NEW i \in Slots, OpenTemp(s, i) \/ Spill(s, i)
      PROVE  FreeInv'
  BY <1>5, OpenTempInv, SpillInv
<1>6. ASSUME NEW s \in Slots, NEW t \in Slots, NEW i \in Slots, NEW copied \in BOOLEAN,
             MakeSeekable(s, t, i, copied)
      PROVE  FreeInv'
  BY <1>6, MakeSeekableInv
<1>7. ASSUME NEW p \in Pids, NEW works \in BOOLEAN, XportFinds(p, works)
      PROVE  FreeInv'
  BY <1>7, XportFindsInv
<1>8. ASSUME NEW p \in Pids, NEW s \in PSlots, NEW c \in Contexts \cup {None}, NEW works \in BOOLEAN,
             XportMakes(p, s, c, works)
      PROVE  FreeInv'
  BY <1>8, XportMakesInv
<1>9. ASSUME NEW s \in PSlots, Broken(s) PROVE FreeInv'
  BY <1>9, BrokenInv
<1>10. ASSUME NEW c \in Contexts, ContextAlloc(c) \/ ContextDrop(c) PROVE FreeInv'
  BY <1>10, ContextAllocInv, ContextDropInv
<1>11. ASSUME NEW s \in Slots, NEW c \in Contexts, ContextSet(s, c) PROVE FreeInv'
  BY <1>11, ContextSetInv
<1>12. CASE RequestShutdown \/ DestroyResource \/ RequestEnd \/ RequestStart \/ Shutdown
  BY <1>12, RequestShutdownInv, DestroyResourceInv, ShutdownInv, RequestStartInv
<1>13. ASSUME NEW p \in Pids, DestroyPersistent(p) PROVE FreeInv'
  BY <1>13, DestroyPersistentInv
<1>14. CASE UNCHANGED vars
  BY <1>14, StutterInv
<1> QED
  BY <1>1, <1>2, <1>3, <1>4, <1>5, <1>6, <1>7, <1>8, <1>9, <1>10, <1>11, <1>12, <1>13, <1>14 DEF Next

LEMMA Invariant ==
  Spec => []FreeInv
<1>1. Init => FreeInv
  BY InitInv
<1>2. FreeInv /\ [Next]_vars => FreeInv'
  BY NextInv
<1> QED
  BY <1>1, <1>2, PTL DEF Spec

\* A call that works on a stream finds it alive, and the context it will let go
\* has at least the reference that is about to be dropped.
LEMMA FreedOnce ==
  ASSUME FreeInv
  PROVE  NothingFreedTwice
<1> SUFFICES ASSUME NEW k \in 1..Len(stack), NEW f, f = stack[k], f.call = "free"
             PROVE  (f.pc # "context" => f.s \in alive) /\ (f.ctx # None => ctxs[f.ctx] # 0)
  BY DEF NothingFreedTwice
<1>1. TypeInv /\ ListInv /\ CallInv
  BY DEF FreeInv
<1>2. Fine(f)
  BY <1>1 DEF CallInv, Calls
<1>3. stack # <<>>
  <2>1. stack = <<>> => Len(stack) = 0
    OBVIOUS
  <2> QED
    BY <1>1, <2>1 DEF TypeInv
<1>4. f \in Frees /\ stack[1] = Top
  BY <1>1, <1>3, StackTop, FrameKinds
<1>5. ASSUME f.ctx # None PROVE ctxs[f.ctx] # 0
  <2>1. PICK c : c = f.ctx
    OBVIOUS
  <2>2. c \in Contexts /\ phase = "request"
    BY <1>2, <1>4, <1>5, <2>1, FreeType DEF Fine
  <2>3. (\E s \in AllSlots : stm[s].ctx = c) \/ Drops(c) = 1
    <3>1. CASE f.pc = "context"
      <4>1. f = Top
        BY <1>1, <1>4, <3>1 DEF CallInv, Shape
      <4> QED
        BY <1>3, <2>1, <3>1, <4>1 DEF Drops, Frame
    <3>2. CASE f.pc # "context"
      BY <1>2, <1>4, <1>5, <2>1, <3>2, FreeType DEF Fine
    <3> QED
      BY <3>1, <3>2
  <2>4. ctxs[c] \in 1..MaxId
    BY <1>1, <2>2, <2>3, ContextThere DEF ListInv
  <2> QED
    BY <2>1, <2>4, LifecycleAssumption
<1> QED
  BY <1>2, <1>5 DEF Fine

LEMMA Undangling ==
  ASSUME FreeInv
  PROVE  NothingDangles
<1>1. TypeInv /\ ListInv
  BY DEF FreeInv
<1>2. ASSUME NEW s \in alive, phase = "request", stm[s].ctx # None PROVE ctxs[stm[s].ctx] # 0
  <2>1. PICK c : c = stm[s].ctx
    OBVIOUS
  <2>2. c \in Contexts /\ s \in AllSlots
    BY <1>1, <1>2, <2>1, StreamTypes DEF TypeInv
  <2>3. ctxs[c] \in 1..MaxId
    BY <1>1, <1>2, <2>1, <2>2, ContextThere DEF ListInv
  <2> QED
    BY <2>1, <2>3, LifecycleAssumption
<1> QED
  BY <1>1, <1>2 DEF NothingDangles, ListInv, Resources, Keeping, Client

LEMMA Leakless ==
  ASSUME FreeInv
  PROVE  NoneLeaks
<1>1. TypeInv /\ Cleared
  BY DEF FreeInv, StreamInv
<1>2. ASSUME Quiet, NEW s \in alive
      PROVE  \/ \E k \in DOMAIN regular : regular[k] # None /\ regular[k].ptr = s
             \/ \E p \in Pids : persistent[p] = s
  <2>1. Resting(None, FALSE)
    BY <1>2, Standing DEF Quiet
  <2>2. s \in AllSlots /\ s # None
    BY <1>1, LifecycleAssumption DEF TypeInv, AllSlots
  <2>3. HasEntry(s) \/ Kept(s)
    BY <2>1, <2>2 DEF Resting, AllSlots
  <2> QED
    BY <1>1, <2>3 DEF HasEntry, Kept, TypeInv
<1> QED
  BY <1>1, <1>2 DEF NoneLeaks, Cleared

\* Every variable keeps its type, and a frame of the stack is always a call of
\* _php_stream_free or of _php_stream_xport_create.
THEOREM TypeCorrect == Spec => []TypeInv
<1>1. FreeInv => TypeInv
  BY DEF FreeInv
<1> QED
  BY <1>1, Invariant, PTL

\* However _php_stream_free calls itself, through the lists, the enclosing and the
\* enclosed stream and the FILE, no call has to do with a stream or a context that
\* was freed.
THEOREM FreedOnlyOnce == Spec => []NothingFreedTwice
<1>1. FreeInv => NothingFreedTwice
  BY FreedOnce
<1> QED
  BY <1>1, Invariant, PTL

\* What the persistent list, the ids of the streams and their contexts name is
\* still there.
THEOREM DanglesNever == Spec => []NothingDangles
<1>1. FreeInv => NothingDangles
  BY Undangling
<1> QED
  BY <1>1, Invariant, PTL

\* Between two calls every stream is on a list that will free it, and the handle
\* of a stream that was freed is closed unless it was given away.
THEOREM LeaksNever == Spec => []NoneLeaks
<1>1. FreeInv => NoneLeaks
  BY Leakless
<1> QED
  BY <1>1, Invariant, PTL
=============================================================================
