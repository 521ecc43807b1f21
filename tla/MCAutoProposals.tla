-------------------------- MODULE MCAutoProposals --------------------------
(* Two findings, so that one can be left behind while the other is offered. *)
EXTENDS AutoProposals
=============================================================================
