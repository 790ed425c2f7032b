------------------------------- MODULE MCRetry -------------------------------
(* Retry over timeout for TLC: up to three attempts.                       *)
EXTENDS Retry

MCCalls == 1..(Limit + 1)
=============================================================================
