---------------------------- MODULE MCStatistics ----------------------------
(***************************************************************************)
(* Short runs: one with enough sends to trim both histories and fill several *)
(* windows, one with enough heads to do that for the blocks, out of order    *)
(* too, and one whose latency tracker is given blocks of every kind of        *)
(* transaction: stamped, of no value, from the future (40), and funding       *)
(* batches that wrap: a second too late for a Time (50), a negative int64     *)
(* (100), and more than a word (130).                                         *)
(***************************************************************************)
EXTENDS Statistics

CONSTANTS s1, s2

MCScenarios == {s1, s2}
MCSymmetry  == Permutations(MCScenarios)
MCOneScenario == {s1}

MCHeaders == {[number |-> 1, gas |-> 1], [number |-> 2, gas |-> 3], [number |-> 1, gas |-> 7]}

MCValues == {0, 1, 2, 3, 40, 50, 100, 130}
MCBlocks == [time : {1, 3}, values : BoundedSeq(MCValues, 3)]

Sends  == [txs |-> 3, heads |-> 0, polls |-> 0, tracked |-> FALSE, prewarm |-> TRUE]
Heads  == [txs |-> 0, heads |-> 4, polls |-> 0, tracked |-> TRUE,  prewarm |-> FALSE]
Both   == [txs |-> 1, heads |-> 2, polls |-> 0, tracked |-> TRUE,  prewarm |-> FALSE]
Polls  == [txs |-> 0, heads |-> 0, polls |-> 1, tracked |-> FALSE, prewarm |-> FALSE]
MCPlans == {Sends, Heads, Both, Polls}
MCSendsOnly == {Sends}
=============================================================================
