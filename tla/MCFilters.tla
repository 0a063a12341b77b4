------------------------------ MODULE MCFilters ------------------------------
(* Calls for Filters. *)
EXTENDS Filters

SmallDelims == {<<>>, <<2>>}
=============================================================================
