---------------------------- MODULE MCTransfers ----------------------------
EXTENDS Transfers

\* Two versions of one size, one that is too large and an empty one.
MCSizeOf == <<1, 1, 2, 0>>
=============================================================================
