----------------------------- MODULE ConnCache -----------------------------
(***************************************************************************)
(* What the connection manager promises its callers, whatever happens on   *)
(* the network: each hash is absent, live or refused.  A hash is made live *)
(* or refused only from absent, so there is never a second connection for  *)
(* it and a live one is never refused; a refused hash stays refused for a  *)
(* whole ping interval before anything else can happen to it.              *)
(***************************************************************************)
EXTENDS Naturals

CONSTANTS Hashes, PingInterval

VARIABLES state,  \* "absent", "live" or "refused"
          age     \* how long ago a refused hash was refused

cacheVars == <<state, age>>

Init ==
  /\ state = [h \in Hashes |-> "absent"]
  /\ age = [h \in Hashes |-> 0]

Move(h, from, to) ==
  /\ state[h] = from
  /\ state' = [state EXCEPT ![h] = to]
  /\ age' = [age EXCEPT ![h] = 0]

Add(h)    == Move(h, "absent", "live")
Drop(h)   == Move(h, "live", "absent")
Refuse(h) == Move(h, "absent", "refused")
Retry(h)  == age[h] = PingInterval /\ Move(h, "refused", "absent")

Tick ==
  /\ age' = [h \in Hashes |-> IF state[h] = "refused" /\ age[h] < PingInterval
                              THEN age[h] + 1 ELSE age[h]]
  /\ UNCHANGED state

Shutdown == state' = [h \in Hashes |-> "absent"] /\ age' = [h \in Hashes |-> 0]

Next ==
  \/ \E h \in Hashes : Add(h) \/ Drop(h) \/ Refuse(h) \/ Retry(h)
  \/ Tick \/ Shutdown

Spec == Init /\ [][Next]_cacheVars
=============================================================================
