-------------------------- MODULE MCShardedSender --------------------------
(* Small instances of ShardedSender: pool accounts and a one-shot account. *)
EXTENDS ShardedSender, TLC

CONSTANTS a1, a2, u1, t1, t2, t3

MCPair     == {a1, a2}
MCPool     == {a1}
MCWithNew  == {a1, u1}
MCAll      == {a1, a2, u1}
MCTasks2   == {t1, t2}
MCTasks3   == {t1, t2, t3}
MCAtZero   == {0}
MCAnyStart == {0, 1}

\* Pool accounts are interchangeable, and so are the goroutines.
MCSymmetry == Permutations(MCPair) \cup Permutations(MCTasks3)
MCTaskSymmetry == Permutations(MCTasks2)
=============================================================================
