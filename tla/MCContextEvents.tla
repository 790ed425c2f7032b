--------------------------- MODULE MCContextEvents ---------------------------
(* A small bus for TLC.  Subscribers are not interchangeable: some are in  *)
(* the scope's group and some may be cancelled, as each .cfg says.         *)
EXTENDS ContextEvents
=============================================================================
