---------------------------- MODULE MCDelegation ----------------------------
(* Small sets of commands and workers for TLC.                             *)
EXTENDS Delegation, TLC
CONSTANTS c1, c2, w1, w2

\* Spec treats all workers alike (Tick matters to Fairness only), so the
\* invariant runs use symmetry.
WorkerSymmetry == Permutations(Worker)
=============================================================================
