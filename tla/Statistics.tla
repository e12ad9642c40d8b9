----------------------------- MODULE Statistics -----------------------------
(***************************************************************************)
(* stats/collector.go, stats/logger.go, stats/run_summary.go and the two     *)
(* collectors they report of: what a run says about itself.  Every send,      *)
(* accepted or not, is recorded by the goroutine that made it, every head by   *)
(* the block collector's; a logger reads the statistics at its ticks, prints   *)
(* them and then resets the reporting windows of the transactions and of the   *)
(* blocks; the user latency tracker reads the chain on its own; main prints     *)
(* the final report and emits the totals when everybody has joined.             *)
(* The collector is behind one lock and the block collector behind another:      *)
(* each critical section is one action, and sends and heads come in between.      *)
(*                                                                                *)
(* Rates are kept as the counts they are quotients of; cumulativeMaxTPS, a        *)
(* quotient by the age of the window, is left out.                                *)
(***************************************************************************)
\* An operator Op_Variant is a faulty variant of Op: the properties are tested
\* against it, no specification uses it.
EXTENDS Naturals, Sequences, FiniteSets, SequencesExt, FiniteSetsExt, BlockCollector, UserLatency

CONSTANTS
  Scenario,   \* names of the profile's scenarios
  Prewarm,    \* scenarios.Prewarm, the name of the prewarm transactions
  Latency,    \* latencies a send may have
  History,    \* Collector.maxLatencyHistory
  TpsWindow,  \* length of the sliding window, 10s in the code
  Header,     \* heads the chain may announce
  Block,      \* external: blocks the latency tracker may be given
  Plan,       \* bounds on a run: its sends, its heads, its polls, whether blocks
              \* are tracked, and whether accounts are prewarmed
  MaxTime     \* bound on the clock

\* What the latency tracker may be given: a block of a time, since 1970, that a
\* Duration can tell, and of any values.
BlockOfValues == [time : 0 .. MaxDuration - 1, values : Seq(Nat)]

\* time.Since of a round trip to a node is positive: recordWindowStats takes 0
\* for "no minimum yet".
ASSUME LatencyAssumption == Latency \subseteq Nat \ {0}
ASSUME BoundAssumption   ==
  /\ IsFiniteSet(Scenario) /\ Prewarm \notin Scenario
  /\ Header \subseteq [number : Nat, gas : Nat]
  /\ \A block \in Block : block \in BlockOfValues
  /\ History \in Nat \ {0} /\ TpsWindow \in Nat \ {0} /\ MaxTime \in Nat
  /\ Plan \subseteq [txs : Nat, heads : Nat, polls : Nat, tracked : BOOLEAN, prewarm : BOOLEAN]

VARIABLES
  plan,         \* what this run is bound to do
  now,          \* external: the clock
  txCounts,     \* Collector.txCounts
  totalTxs,     \* Collector.totalTxs
  latencies,    \* Collector.latencies
  timestamps,   \* TPSWindow.timestamps
  maxTps,       \* TPSWindow.maxTPS, times TpsWindow
  windowStats,  \* Collector.windowStats
  blocks,       \* the block collector that SetBlockCollector gave
  logger,       \* where the logger is, and the statistics it read
  tracker,      \* the user latency tracker: its polls, and the last line it logged
  run,          \* main: "running", "joined", "logged", "reported"
  final,        \* what LogFinalStats printed
  accepted,     \* run_txs_accepted_total
  log,          \* history: every send recorded, in order
  blockLog,     \* history: every head recorded, in order
  reported      \* history: what the windows reported that were closed, and what
                \* had been recorded when the open ones were opened

collectorVars == <<txCounts, totalTxs, latencies, timestamps, maxTps, windowStats>>
history == <<log, blockLog, reported>>
vars == <<plan, now, collectorVars, blocks, logger, tracker, run, final, accepted, history>>

EmptyWindow(cumulative) ==
  [txCount |-> 0, sum |-> 0, max |-> 0, min |-> 0, cumulativeMax |-> cumulative]

NotPrinted == [totalTxs |-> 0]

Init ==
  /\ plan \in Plan
  /\ now = 1
  /\ txCounts = [s \in Scenario \cup {Prewarm} |-> 0]
  /\ totalTxs = 0
  /\ latencies = <<>> /\ timestamps = <<>>
  /\ maxTps = 0
  /\ windowStats = EmptyWindow(0)
  /\ blocks = NoBlocks
  /\ logger = [pc |-> "off", txs |-> 0, blocks |-> 0]
  /\ tracker = [polls |-> 0, line |-> NoLine, of |-> [time |-> 0, values |-> <<>>]]
  /\ run = "running"
  /\ final = NotPrinted
  /\ accepted = 0
  /\ log = <<>> /\ blockLog = <<>>
  /\ reported = [txs |-> 0, blocks |-> 0, opened |-> 0, blocksOpened |-> 0]

-----------------------------------------------------------------------------
(* Recording a send.                                                       *)

\* recordLatency: the last History latencies are kept.
Recent_Oldest(ls) == IF Len(ls) > History THEN SubSeq(ls, 1, History) ELSE ls
Recent(ls) == IF Len(ls) > History THEN SubSeq(ls, Len(ls) - History + 1, Len(ls)) ELSE ls

\* recordTPS: what comes before the first timestamp in the window goes.
InWindow(t) == t + TpsWindow > now
Trimmed(ts) == SubSeq(ts, Min({i \in DOMAIN ts : InWindow(ts[i])}), Len(ts))

\* recordWindowStats.
Widened_Plain(w, l) ==
  [w EXCEPT !.txCount = @ + 1, !.sum = @ + l, !.max = Greatest(@, l),
            !.min = Least(@, l), !.cumulativeMax = Greatest(@, l)]
Widened(w, l) ==
  [w EXCEPT !.txCount = @ + 1, !.sum = @ + l, !.max = Greatest(@, l),
            !.min = IF @ = 0 THEN l ELSE Least(@, l),
            !.cumulativeMax = Greatest(@, l)]

\* RecordTransaction, called by ethClient.Send for every attempt.
RecordTransaction(s, l, ok) ==
  /\ run = "running"
  /\ totalTxs < plan.txs
  /\ txCounts' = [txCounts EXCEPT ![s] = @ + 1]
  /\ totalTxs' = totalTxs + 1
  /\ latencies' = IF ok THEN Recent(Append(latencies, l)) ELSE latencies
  /\ timestamps' = Trimmed(Append(timestamps, now))
  /\ maxTps' = Greatest(maxTps, Len(timestamps'))
  /\ windowStats' = Widened(windowStats, l)
  /\ log' = Append(log, [at |-> now, scenario |-> s, latency |-> l, ok |-> ok,
                         late |-> logger.pc = "reset"])
  /\ UNCHANGED <<plan, now, blocks, logger, tracker, run, final, accepted, blockLog, reported>>

\* The prewarm transactions are sent before the logger is started, those of the
\* generator after.
Send(l, ok) ==
  \/ plan.prewarm /\ logger.pc = "off" /\ RecordTransaction(Prewarm, l, ok)
  \/ logger.pc # "off" /\ \E s \in Scenario : RecordTransaction(s, l, ok)

\* BlockCollector.Run hands a head to processNewBlock.
RecordBlock(header) ==
  /\ plan.tracked
  /\ run = "running"
  /\ Len(blockLog) < plan.heads
  /\ blocks' = ProcessNewBlock(blocks, header, now)
  /\ blockLog' = Append(blockLog, [at |-> now, number |-> header.number, gas |-> header.gas,
                                   late |-> logger.pc \in {"reset", "resetBlocks"}])
  /\ UNCHANGED <<plan, now, collectorVars, logger, tracker, run, final, accepted, log, reported>>

-----------------------------------------------------------------------------
(* The logger.                                                             *)

StartLogger ==
  /\ logger.pc = "off" /\ run = "running"
  /\ logger' = [logger EXCEPT !.pc = "wait"]
  /\ UNCHANGED <<plan, now, collectorVars, blocks, tracker, run, final, accepted, history>>

\* A tick of Run: logCurrentStats begins with GetStats, which reads the block
\* collector as well.
GetStats ==
  /\ logger.pc = "wait"
  /\ run = "running"
  /\ logger' = [pc |-> "reset", txs |-> windowStats.txCount,
                blocks |-> Len(blocks.windowGasUsed)]
  /\ UNCHANGED <<plan, now, collectorVars, blocks, tracker, run, final, accepted, history>>

\* Collector.ResetWindowStats: the cumulative maximum survives.  Without a block
\* collector that is all.
ResetWindowStats ==
  /\ logger.pc = "reset"
  /\ logger' = [logger EXCEPT !.pc = IF plan.tracked THEN "resetBlocks" ELSE "wait"]
  /\ windowStats' = EmptyWindow(windowStats.cumulativeMax)
  /\ reported' = [reported EXCEPT !.txs = @ + logger.txs, !.opened = Len(log)]
  /\ UNCHANGED <<plan, now, txCounts, totalTxs, latencies, timestamps, maxTps, blocks, tracker,
                 run, final, accepted, log, blockLog>>

\* BlockCollector.ResetWindowStats.
ResetBlocks_Keeps ==
  /\ logger.pc = "resetBlocks"
  /\ logger' = [logger EXCEPT !.pc = "wait"]
  /\ reported' = [reported EXCEPT !.blocks = @ + logger.blocks, !.blocksOpened = Len(blockLog)]
  /\ UNCHANGED <<plan, now, collectorVars, blocks, tracker, run, final, accepted, log, blockLog>>
ResetBlocks ==
  /\ logger.pc = "resetBlocks"
  /\ logger' = [logger EXCEPT !.pc = "wait"]
  /\ blocks' = WindowReset(blocks)
  /\ reported' = [reported EXCEPT !.blocks = @ + logger.blocks, !.blocksOpened = Len(blockLog)]
  /\ UNCHANGED <<plan, now, collectorVars, tracker, run, final, accepted, log, blockLog>>

-----------------------------------------------------------------------------
(* The user latency tracker.                                               *)

\* A tick: the block is fetched and its line logged.  A fetch that fails is
\* logged and the tracker goes on.
PollLatency(block) ==
  /\ run = "running"
  /\ tracker.polls < plan.polls
  /\ \/ tracker' = [polls |-> tracker.polls + 1, line |-> TrackLatency(block), of |-> block]
     \/ tracker' = [tracker EXCEPT !.polls = @ + 1]
  /\ UNCHANGED <<plan, now, collectorVars, blocks, logger, run, final, accepted, history>>

-----------------------------------------------------------------------------
(* The end of the run.                                                     *)

\* scope.Run returns: the sender's tasks, the collectors and the logger have.
Join ==
  /\ run = "running"
  /\ logger.pc \in {"off", "wait"}
  /\ run' = "joined"
  /\ UNCHANGED <<plan, now, collectorVars, blocks, logger, tracker, final, accepted, history>>

\* A section of the report about blocks is printed if it has a block time.
Printed(stats) == IF plan.tracked /\ stats.sampleCount > 0 THEN {stats} ELSE {}

\* BuildFinalStats: the totals, the windows as the last tick left them, and the
\* cumulative statistics of the blocks.
FinalStats ==
  [totalTxs |-> totalTxs, scenarioDistribution |-> txCounts,
   latencyP50 |-> Percentile(50, latencies), latencyP99 |-> Percentile(99, latencies),
   sampleCount |-> Len(latencies),
   current |-> Cardinality({i \in DOMAIN timestamps : InWindow(timestamps[i])}), max |-> maxTps,
   window |-> windowStats,
   blockStatistics |-> Printed(GetWindowBlockStats(blocks)),
   gasStatistics   |-> Printed(GetBlockStats(blocks))]

\* LogFinalStats: a report file that cannot be written is logged.
LogFinalStats ==
  /\ run = "joined"
  /\ run' = "logged"
  /\ final' = FinalStats
  /\ UNCHANGED <<plan, now, collectorVars, blocks, logger, tracker, accepted, history>>

\* EmitRunSummary.
EmitRunSummary ==
  /\ run = "logged"
  /\ run' = "reported"
  /\ accepted' = totalTxs
  /\ UNCHANGED <<plan, now, collectorVars, blocks, logger, tracker, final, history>>

\* external: the clock.
Tick ==
  /\ now < MaxTime
  /\ now' = now + 1
  /\ UNCHANGED <<plan, collectorVars, blocks, logger, tracker, run, final, accepted, history>>

Next ==
  \/ \E l \in Latency, ok \in BOOLEAN : Send(l, ok)
  \/ \E header \in Header : RecordBlock(header)
  \/ StartLogger \/ GetStats \/ ResetWindowStats \/ ResetBlocks
  \/ \E block \in Block : PollLatency(block)
  \/ Join \/ LogFinalStats \/ EmitRunSummary
  \/ Tick

Spec == Init /\ [][Next]_vars

-----------------------------------------------------------------------------
(* Properties.                                                             *)

\* Types of the collectors' state; every history is bounded.
TypeOK ==
  /\ plan \in Plan /\ now \in Nat
  /\ txCounts \in [Scenario \cup {Prewarm} -> Nat]
  /\ totalTxs \in Nat
  /\ latencies \in Seq(Latency) /\ Len(latencies) <= History
  /\ timestamps \in Seq(Nat)
  /\ maxTps \in Nat
  /\ windowStats \in [txCount : Nat, sum : Nat, max : Nat, min : Nat, cumulativeMax : Nat]
  /\ \A f \in {"allBlockTimes", "allGasUsed", "windowBlockTimes", "windowGasUsed"} :
       blocks[f] \in Seq(Nat) /\ Len(blocks[f]) <= BlockHistory
  /\ logger \in [pc : {"off", "wait", "reset", "resetBlocks"}, txs : Nat, blocks : Nat]
  /\ run \in {"running", "joined", "logged", "reported"}
  /\ accepted \in Nat

Late(entries) == Cardinality({i \in DOMAIN entries : entries[i].late})

\* The reporting windows partition the run, but for what was recorded between
\* the logger's reading of a window and its reset: exactly those sends and
\* blocks are in no report, and none is in two; a window past its capacity
\* reports its last blocks.
WindowsPartition ==
  /\ logger.pc # "reset" => Len(log) = reported.txs + windowStats.txCount + Late(log)
  /\ logger.pc \in {"off", "wait"} /\ plan.heads <= BlockHistory
       => Len(blockLog) = reported.blocks + Len(blocks.windowGasUsed) + Late(blockLog)

Field(f, entries) == [i \in DOMAIN entries |-> entries[i][f]]

\* The figures of the open window are those of the sends recorded in it, and
\* the cumulative maximum that of the whole run, across all resets.
WindowIsExact ==
  LET in == {i \in DOMAIN log : i > reported.opened}
  IN /\ windowStats.txCount = Cardinality(in)
     /\ in # {} => /\ windowStats.max = Max({log[i].latency : i \in in})
                   /\ windowStats.min = Min({log[i].latency : i \in in})
     /\ windowStats.sum = SumFunctionOnSet(Field("latency", log), in)
     /\ log # <<>> => windowStats.cumulativeMax = Max({log[i].latency : i \in DOMAIN log})

\* The collector's invariant for its reporting window.
WindowInv == TypeOK /\ WindowIsExact

\* The sends recorded in the window of length TpsWindow that ends at t, up to
\* the n-th one.
Rate(t, n) == Cardinality({i \in 1 .. n : log[i].at + TpsWindow > t})

\* The current rate is that of the last TpsWindow, and the maximum the highest
\* there was at any send, although old timestamps are dropped at sends only.
RatesAreExact ==
  /\ Cardinality({i \in DOMAIN timestamps : timestamps[i] + TpsWindow > now}) = Rate(now, Len(log))
  /\ log # <<>> => maxTps = Max({Rate(log[n].at, n) : n \in DOMAIN log})

\* The sends that were accepted, and the last History of them.
Successes == {i \in DOMAIN log : log[i].ok}
Remembered == {i \in Successes : Cardinality({j \in Successes : j > i}) < History}

\* A reported percentile is a quantile of the last History accepted sends.
PercentilesAreQuantiles ==
  latencies # <<>> => \A p \in {50, 99} :
    IsQuantile(Percentile(p, latencies), p, [i \in Remembered |-> log[i].latency])

\* The figures of a report are those of the sends they claim to describe.
FiguresAreExact == RatesAreExact /\ PercentilesAreQuantiles

LastOf(n, entries) == SubSeq(entries, 1 + Len(entries) - Least(n, Len(entries)), Len(entries))

\* The times between the heads recorded from index first on, and the one before
\* the first.
TimesFrom(first) ==
  LET from == Greatest(first, 2)
  IN [i \in 1 .. Len(blockLog) - from + 1 |-> blockLog[from + i - 1].at - blockLog[from + i - 2].at]

\* stats describes the heads recorded from index first on: their highest times
\* and gas, the quantiles of their last BlockHistory times, and of their gas a
\* percentile that leaves out the highest sample.
Describes(stats, first) ==
  LET times == LastOf(BlockHistory, TimesFrom(first))
      gas   == LastOf(BlockHistory, Field("gas", SubSeq(blockLog, first, Len(blockLog))))
  IN /\ stats.maxBlockNumber = Max({0} \cup {blockLog[i].number : i \in DOMAIN blockLog})
     /\ stats.sampleCount = Len(times)
     /\ times # <<>> => /\ stats.maxBlockTime = Max({times[i] : i \in DOMAIN times})
                        /\ IsQuantile(stats.p50BlockTime, 50, times)
                        /\ IsQuantile(stats.p99BlockTime, 99, times)
     /\ gas # <<>> =>
          /\ stats.maxGasUsed = Max({gas[i] : i \in DOMAIN gas})
          /\ \A v \in {<<50, stats.p50GasUsed>>, <<99, stats.p99GasUsed>>} :
               /\ 100 * Below(v[2], gas) <= v[1] * (Len(gas) - 1)
               /\ 100 * AtMost(v[2], gas) > v[1] * (Len(gas) - 1)

\* The final report adds up and describes what it names: the totals every send
\* of the run, the prewarm's too, the block section the heads since the last
\* tick and the gas section those of the whole run, whatever was reset.
FinalIsExact ==
  run \in {"logged", "reported"} =>
    /\ final.totalTxs = Len(log)
    /\ final.totalTxs = SumFunction(final.scenarioDistribution)
    /\ \A s \in Scenario \cup {Prewarm} :
         final.scenarioDistribution[s] = Cardinality({i \in DOMAIN log : log[i].scenario = s})
    /\ \A stats \in final.blockStatistics : Describes(stats, reported.blocksOpened + 1)
    /\ \A stats \in final.gasStatistics   : Describes(stats, 1)
    /\ plan.tracked /\ Len(blockLog) > 1 => final.gasStatistics # {}

\* Of the values the transactions of a block carry, those that name a second up
\* to the block's; and those of about 2^63 wei or more whose low word does, or
\* wraps to a second before 1970: as an int64 it is negative, or too late for a
\* Time.
Stamps(block)  == {v \in Range(block.values) : v > 0 /\ v <= block.time}
Past(v)        == 2 * ((v % Word) + UnixToInternal) >= Word
Wrapped(block) ==
  {v \in Range(block.values) :
     2 * (v + UnixToInternal) >= Word /\ (Past(v) \/ v % Word <= block.time)}

\* The line about a block reports the transactions stamped with a second that is
\* not after it, and of the others only those whose value wraps (a funding batch
\* may): if to a second before 1970, as slower than anything stamped since.
LatencyOfStamped ==
  LET block  == tracker.of
      counts == {i \in DOMAIN block.values : block.values[i] \in Stamps(block) \cup Wrapped(block)}
      line   == tracker.line
  IN /\ line.txs = Cardinality(counts)
     /\ Stamps(block) # {} /\ (\A v \in Wrapped(block) : Past(v)) =>
          line.min = block.time - Max(Stamps(block))
     /\ Stamps(block) # {} /\ Wrapped(block) = {} =>
          /\ line.max = block.time - Min(Stamps(block))
          /\ line.p50 \in {block.time - v : v \in Stamps(block)}
     /\ (\E v \in Wrapped(block) : Past(v)) => line.max > block.time

\* run_txs_accepted_total: "Total transactions accepted by endpoints over this
\* run".
AcceptedIsAccepted == run = "reported" => accepted = Cardinality(Successes)
=============================================================================
