----------------------------- MODULE MCTransport -----------------------------
(* Timeouts for Transport: none, two that differ, and the hard-coded minute. *)
EXTENDS Transport

SomeTimeouts == {-5, 0, 1, HardTimeout}
=============================================================================
