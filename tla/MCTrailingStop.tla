--------------------------- MODULE MCTrailingStop ----------------------------
(* TrailingStop with two positions, one after the other or both at a time.   *)
EXTENDS TrailingStop
=============================================================================
