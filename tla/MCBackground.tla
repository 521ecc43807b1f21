---------------------------- MODULE MCBackground ----------------------------
(* One room, so that a rule, its removal and a revocation fit in the log.  *)
EXTENDS Background
=============================================================================
