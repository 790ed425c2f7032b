----------------------------- MODULE MCThrottle -----------------------------
(* A small throttle with a short clock for TLC.  Liveness is checked, so   *)
(* no symmetry is used.                                                    *)
EXTENDS Throttle
=============================================================================
