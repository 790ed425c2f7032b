--------------------------- MODULE MCAsyncStream ---------------------------
(* A small stream for TLC.  Liveness is checked, so no symmetry is used.   *)
EXTENDS AsyncStream
=============================================================================
