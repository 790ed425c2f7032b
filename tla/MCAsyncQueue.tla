---------------------------- MODULE MCAsyncQueue ----------------------------
(* A small queue for TLC.  Liveness is checked, so no symmetry is used.    *)
EXTENDS AsyncQueue
=============================================================================
