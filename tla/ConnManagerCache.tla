-------------------------- MODULE ConnManagerCache --------------------------
(* The connection manager implements the abstract cache of ConnCache. *)
EXTENDS ConnManager

\* Refinement mapping: a registered hash is live, a blacklisted one refused.
CacheState == [h \in Hashes |-> IF HasHash(connections, h) THEN "live"
                                ELSE IF HasHash(blacklist, h) THEN "refused"
                                ELSE "absent"]
CacheAge == [h \in Hashes |-> IF ~HasHash(connections, h) /\ HasHash(blacklist, h)
                              THEN FindByHash(blacklist, h) ELSE 0]

Cache == INSTANCE ConnCache WITH state <- CacheState, age <- CacheAge

\* Registering, deregistering, blacklisting and un-blacklisting, in all their
\* interleavings with failures, timeouts, forks and shutdown, never do more to
\* a hash than the abstract cache allows.
ImplementsCache == Cache!Spec
=============================================================================
