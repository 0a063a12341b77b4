-------------------------- MODULE MCStreamLifecycle --------------------------
(* Three streams, a persistent one and a context in two requests. *)
EXTENDS StreamLifecycle
CONSTANTS c1, a
=============================================================================
