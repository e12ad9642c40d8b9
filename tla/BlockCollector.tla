---------------------------- MODULE BlockCollector ----------------------------
(***************************************************************************)
(* stats/block_collector.go: what the collector keeps of the heads it sees.  *)
(* The collector is a record and each method an operator on it, for a run    *)
(* has two of them, one that the logger reads and resets (Statistics) and    *)
(* one that the ramper does (Ramper); a method is one critical section.      *)
(* A header is a block number and the gas the block used.                    *)
(***************************************************************************)
\* An operator Op_Variant is a faulty variant of Op: the properties are tested
\* against it, no specification uses it.
EXTENDS Naturals, Sequences, FiniteSets, Quantile

CONSTANT BlockHistory  \* entries kept in each list, 1000 in the code

ASSUME BlockHistoryAssumption == BlockHistory \in Nat \ {0}

\* The zero time.Time, for which IsZero holds; clocks start after it.
ZeroTime == 0

\* NewBlockCollector.
NoBlocks ==
  [maxBlockNum |-> 0, lastBlockTime |-> ZeroTime,
   allBlockTimes |-> <<>>, allGasUsed |-> <<>>,
   windowBlockTimes |-> <<>>, windowGasUsed |-> <<>>]

\* The last BlockHistory entries.
Kept(entries) ==
  SubSeq(entries, 1 + (IF Len(entries) > BlockHistory THEN Len(entries) - BlockHistory ELSE 0),
         Len(entries))

\* processNewBlock: the time since the head before, of which the first has none.
ProcessNewBlock_Skips(blocks, header, t) ==
  LET times == IF header.number <= blocks.maxBlockNum \/ blocks.lastBlockTime = ZeroTime
                 THEN <<>> ELSE <<t - blocks.lastBlockTime>>
  IN [blocks EXCEPT !.maxBlockNum      = Greatest(@, header.number),
                    !.lastBlockTime    = t,
                    !.allBlockTimes    = Kept(@ \o times),
                    !.windowBlockTimes = Kept(@ \o times),
                    !.allGasUsed       = Kept(Append(@, header.gas)),
                    !.windowGasUsed    = Kept(Append(@, header.gas))]
ProcessNewBlock(blocks, header, t) ==
  LET times == IF blocks.lastBlockTime = ZeroTime THEN <<>> ELSE <<t - blocks.lastBlockTime>>
  IN [blocks EXCEPT !.maxBlockNum      = Greatest(@, header.number),
                    !.lastBlockTime    = t,
                    !.allBlockTimes    = Kept(@ \o times),
                    !.windowBlockTimes = Kept(@ \o times),
                    !.allGasUsed       = Kept(Append(@, header.gas)),
                    !.windowGasUsed    = Kept(Append(@, header.gas))]

\* BlockStats, 0 for what there is no sample of.
StatsOf(maxBlockNum, times, gas) ==
  [maxBlockNumber |-> maxBlockNum, sampleCount |-> Len(times),
   p50BlockTime |-> Percentile(50, times), p99BlockTime |-> Percentile(99, times),
   maxBlockTime |-> Largest(times),
   p50GasUsed |-> GasPercentile(50, gas), p99GasUsed |-> GasPercentile(99, gas),
   maxGasUsed |-> Largest(gas)]

GetBlockStats(blocks) ==
  StatsOf(blocks.maxBlockNum, blocks.allBlockTimes, blocks.allGasUsed)
GetWindowBlockStats(blocks) ==
  StatsOf(blocks.maxBlockNum, blocks.windowBlockTimes, blocks.windowGasUsed)

GetWindowBlockTimePercentile(p, blocks) == Percentile(p, blocks.windowBlockTimes)

\* ResetWindowStats: the cumulative lists stay, and so does the time of the last
\* head, from which the first block time of the new window is measured.
WindowReset_GasOnly(blocks) == [blocks EXCEPT !.windowGasUsed = <<>>]
WindowReset(blocks) == [blocks EXCEPT !.windowBlockTimes = <<>>, !.windowGasUsed = <<>>]
=============================================================================
