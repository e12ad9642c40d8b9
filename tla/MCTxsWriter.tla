---------------------------- MODULE MCTxsWriter ----------------------------
(* Pool accounts, one-shot accounts, and transactions of several sizes.    *)
EXTENDS TxsWriter, TLC

CONSTANTS a1, a2, u1

MCAddr     == {a1, a2, u1}
MCTracked  == {a1, a2}
MCGas      == {1, 2, 4}
MCSymmetry == Permutations(MCTracked)
=============================================================================
