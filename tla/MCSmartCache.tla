---------------------------- MODULE MCSmartCache ----------------------------
(* SmartCache for TLC: two files, a quota of one that the phone may change *)
(* to two.                                                                 *)
EXTENDS SmartCache

MCUsage == [p \in Paths |-> p]
Quota(n) == [quota |-> n, pinned |-> {}, excluded |-> {}]
MCFirst == Quota(1)
MCTwo == {Quota(1), Quota(2)}
=============================================================================
