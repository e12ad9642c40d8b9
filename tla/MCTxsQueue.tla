---------------------------- MODULE MCTxsQueue ----------------------------
(* A small instance of TxsQueue: two pool accounts and a one-shot account. *)
EXTENDS TxsQueue, TLC

CONSTANTS a1, a2, u1

MCAddr    == {a1, a2, u1}
MCTracked == {a1, a2}

\* The pool accounts are interchangeable; the one-shot account is not.
MCSymmetry == Permutations(MCTracked)
=============================================================================
