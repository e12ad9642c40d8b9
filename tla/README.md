# A TLA+ model of seiload

seiload is a load generator for Sei's EVM. It deploys the contracts of a
profile, funds a pool of accounts, keeps a stream of transactions with correct
nonces going from every account, follows the chain's heads to measure inclusion,
raises the load step by step, and reports what it saw. This directory holds TLA+
modules that model that program, the TLC configurations that check them, and
TLAPS proofs of what the queue, the sender, the transaction writer, the inclusion
tracker, the scopes of a run, the startup, the workload, the ramp and the statistics
promise. `src/...` paths and line numbers refer to the repository; `PROJECT.json` maps
every definition to its lines.

## 1. Inventory

| component | source | state it keeps | operations | hard behaviour | what makes it correct |
|---|---|---|---|---|---|
| transaction queue | `sender/txs_queue.go` | per account a window of nonces and a ready flag; a map of transactions; a FIFO of ready accounts | Push, PopReady, PopSent, Reset, WaitUntilEmpty, Nonce | blocking calls, wake-ups skipped for speed, accounts forgotten while in use | both maps and the FIFO agree, capacity, no lost wake-up |
| `utils.Watch` | `utils/mutex.go` | a mutex and a wait channel that Updated replaces | Wait, WaitUntil, Updated | a waiter that misses its update | every update wakes all waiters |
| sharded sender | `sender/sharded_sender.go` | the queue, a semaphore, a limiter; one goroutine per transaction in flight | Run (dispatcher and tasks), Send, Flush, getNonce | failed sends resynchronise nonces while the queue grows; shutdown in the middle of a send | one task per account on the head of its window, no account stranded, agreement with the chain |
| generator | `generator/generator.go` | the weighted scenario list, a cursor | createScenarios, deployAll, mockDeployAll, build, Prewarm, Run | reads a nonce in one critical section and pushes in another | consecutive nonces, turns as weighted |
| account pools | `types/account_pool.go` | accounts, an index | NextAccount | minted accounts are used once, pools are shared | senders are funded |
| RPC client | `sender/eth_client.go` | one client per endpoint | Send, Nonce | a lost reply | recorded in the statistics |
| transaction writer | `sender/writer.go` | a block buffer, per-account nonces, next height | Send, Flush, Nonce | a failing flush, limits | files replay; nothing is lost |
| inclusion tracker | `stats/inclusion_tracker.go` | the in-flight registry, counters, last head seen | Register, head loop, reap loop, Summary | bodies fetched outside the lock; heads lost, repeated, reordered; reaping races matching | conservation, cap, no miscount, a final summary |
| block collector | `stats/block_collector.go` | block times and gas, cumulative and per window | processNewBlock, GetBlockStats, GetWindowBlockStats, percentiles, ResetWindowStats | one reader resets the window another reports; lists are trimmed; a percentile over whatever is there | every figure is of the heads it names; a verdict rests on recent blocks |
| collector, logger, summary | `stats/collector.go`, `logger.go`, `run_summary.go` | counts, latencies, TPS window, reporting window | RecordTransaction, GetStats, resets, EmitRunSummary | sends between a report and its reset | windows partition the run, figures are exact, the final report adds up |
| user latency tracker | `stats/user_latency_tracker.go` | none | a tick: the latest block, the line logged | any value is read as a second | only what is stamped is counted |
| ramper | `sender/ramper.go` | a step curve, the shared limiter | Run, WatchSLO, UpdateTPS | two goroutines, three tickers, a channel closed on cancel | the limit is on schedule, a violation ends the ramp |
| scope | `utils/scope/start.go` | a context, an error, two wait groups | Run, Spawn, SpawnBg, Cancel | errors race cancellations, nested scopes | everything is joined, failures surface |
| run lifecycle | `main.go` | the wiring, the exit status | runLoadTest, endedOnRunContext | signal, deadline and failure at once | stop is success, failure is failure |
| deployment, funder, budgets | `generator/scenarios/base.go`, `funder/*.go`, `utils/budget.go` | deployed flags, the underfunded list; on the chain a nonce stream | Deploy, Attach, FundAccounts, WithinBudget | a transaction accepted and never mined, reverted, or mined after the run gave up | one nonce stream, funded at most once, an end in any case |
| configuration | `config/*`, `main.go` | the profile, the settings | loadConfig, Validate, ValidateFunding, LoadSettings, ResolveSettings, limitEndpoints | flag, file and default; a value checked here and used there; widths that wrap | no panic that validation could have refused; senders are funded |
| scenarios | `generator/scenarios/*`, `config/{operation,distribution,gas}.go` | the id of an ERC721 | CreateTransaction, Picker.Select, SampleIndex, GenerateGas | ranges off by one, gas limits against the price of call data and writes | draws in range and as weighted; the chain takes and executes what is built |
| offline transactions, observability, bindings | `generator/offline/*`, `observability/*`, `stats/metrics.go`, `generator/bindings` | data | - | - | - |

How they interact. `main.go` opens a scope whose body resolves the deployer,
deploys (or attaches to nothing, when deployment is mocked), starts the block
collectors, the tracker and the ramper as background tasks, funds the pool, starts the sender (a scope of its own: a dispatcher, and
one task per transaction), prewarms through the sender, and starts the logger
and the generator. The generator pushes into the queue; the dispatcher pops; a
send task calls the chain, records the send in the collector, registers it in
the tracker, and hands the account back to the queue. The shared limiter is
written by the ramper and waited for by the sender. A signal, the duration or
the error of any task ends the scope, whose `Run` joins everybody; only then are
the statistics read and the exit status decided.

## 2. Modules

    TxsQueue ----> ShardedSender ----> SenderStream ----> MCAccountStream
                                           | AccountStream (INSTANCE)
                                           `---> ShardedSenderProofs
    Scope ------> RunLifecycle ---> RunLifecycleProofs
    InclusionTracker ---> InclusionTrackerProofs
    Quantile ---> BlockCollector ---> Ramper
        \---> UserLatency ---\    \
                              `----> Statistics
    BlockCollectorProofs ---> RamperProofs, StatisticsProofs
    Scenarios, Settings ---> Workload ---> Startup ---> StartupProofs
    TxsWriter ---> TxsWriterProofs

* `TxsQueue` - every method of the queue as one action (the code holds the
  Watch's mutex throughout). `byAddr`, `firstNonce`, `nextNonce`, `flagged` are
  the `accState`s, `txs` is the key set of the transaction map, `ready` the FIFO.
  A call that blocks joins `parked`; `Updated` empties it, as the code closes the
  channel everybody waits on. A parked call is evaluated again when woken, or
  gives up when its context ends. `Tracked` accounts belong to a pool; the others
  are minted for one transaction and forgotten.
* `ShardedSender` - EXTENDS TxsQueue. The generator (prewarm, flush, run; a nonce
  read and the push that follows are two actions), the dispatcher, and `Task`, the
  goroutines: sign under a permit, limiter, send, register, then PopSent; or, after
  a failed send, limiter, nonce lookup, Reset. A send is accepted, refused, or
  accepted with its reply lost. `senderDone` is the context of the sender's scope,
  `runDone` that of the run. The chain takes exactly the next nonce of an account;
  `ChainMoves`, bounded by `MaxDrift`, changes one behind the sender's back.
* `AccountStream` - what the sender promises of one account, with no queue, list,
  task or chain: a window of consecutive nonces whose oldest element is attempted by
  one party at a time, and each attempt drops it, restarts the window, or is given
  up while the sender closes. `SenderStream` has the refinement mapping: an account is
  busy when a goroutine works on it, and abandoned when it has transactions but neither a
  goroutine nor a place in the ready list.
* `InclusionTracker` - the registry with Register, the head loop (receive, fetch,
  match), the reaper (tick, sweep) and Summary, and the joins main relies on. Heads
  may be lost, repeated and reordered; a fetch takes up to `FetchTimeout` and may fail.
  Time passes only while both loops are idle or a fetch is under way: a sweep that is due
  and a head that is at hand are dealt with in their unit of the clock.
* `Scope` - the tasks of nested scopes: `TaskReturn` runs the deferred `Done`,
  `Report` is the later call of Cancel, `MainDone` and `AllDone` are the two waits
  of Run. `RunLifecycle` puts the scopes of `main.go` together with the signal, the
  duration and the exit status. One loop stands for every component that is one
  loop, the tracker for every component that follows heads.
* `TxsWriter` - Send, Flush and flush under Prewarm and Run, with a write that may
  fail before or after the file exists.
* `BlockCollector` - a collector as a record and its methods as operators: the two lists
  since the beginning and the two of the window, each trimmed to `BlockHistory`, and the
  statistics read from them. A run has two collectors, the logger's and the ramper's, and
  both modules below take it. `Quantile` has the percentiles: n*p/100 of times and
  latencies, (n-1)*p/100 of gas.
* `Ramper` - Run and UpdateTPS, WatchSLO's goroutine with its two tickers, the channel
  between them, and the collector it judges and resets.
* `UserLatency` - one tick of the latency tracker over a block of values, with the
  conversion of a value to an int64, the wrap of time.Unix, which counts from the year 1,
  and the subtraction that saturates. The latencies are
  kept by the transactions they are of: the code sorts its list.
* `Statistics` - the collector, the logger's read and its two resets, the heads and the
  latency tracker beside it, the final report and the emitted total.
* `Scenarios` - for each of the nine scenarios a record of what it sets (contract or not,
  operation, receiver, value, gas, fees in gwei), the draws, the transactions it may build,
  and `Executes`: whether the call has the gas that the price of its data and its writes
  demand, and the value the contract requires. Weights and picked gas are words of `Word`
  values, so that sums and widths wrap as uint64 does. A random draw is any value the
  sampler can return; the zipfian sampler keeps its branches and its clamp. A nil pointer is
  the empty set.
* `Settings` - viper's precedence (a flag that was set, else a value of the file that is
  not zero, else the default), and what main decides from the settings: dry run, mocked
  deployment, funding, files, the loops with a ticker.
* `Workload` - EXTENDS both: which profiles the load accepts, the scenario instances with
  their own or the shared pool, the round-robin (`Slots`, one per unit of weight, and their
  `Shuffles`), the rotation of a pool, and the turns in which transactions are generated.
* `Startup` - EXTENDS Workload: the load of the profile, `Deployer` (the root key or a key
  of the run), createScenarios, deployAll or `Attach`, build, `OpenWriter` or `OpenSender`,
  FundAccounts and the first transactions as one goroutine over a chain that accepts,
  reverts, delays or ignores; each wait may exceed its budget; a ticker may panic meanwhile;
  a run that failed may be started again with the same key and new accounts. The wait of a
  transaction and its receipt are `Send` and `Succeeded`, shared by its three users as in
  the code; a deployment that reverted ends in `FailedDeployment`.

Each module with variables has one type invariant, `TypeOK` (`QueueTypeOK`,
`WorkTypeOK`). It is checked as a conjunct of the module's first invariant (`QueueIsExact`,
`SenderStateOK`, `RegistryInv`, `ScopesInv`, `WriterInv`, `LimitInv`, `WindowInv`,
`OneNonceStream`).

An operator `Op_Variant` beside `Op` is a faulty variant of it. No specification
uses one; a property is tested by putting the variant in the place of `Op`, and
`PROJECT.json` ("mutants") lists which property must then fail.

## 3. Runs

| run | bounds | what it shows |
|---|---|---|
| `txs_queue` | 2 pool accounts, 1 minted, 3 places, nonces below 3 | `QueueIsExact` (maps, ready list, capacity, forgotten accounts) and no lost wake-up, under calls in any order by anybody, including calls the sender would not make |
| `sharded_sender` | the same accounts, 3 tasks, 2 places, 1 permit, one move of the chain | one task per account and it holds the head, no stranded account, Flush means idle, `SenderStateOK` (permits), agreement with the chain |
| `stream` | 1 pool account, 1 minted, 2 tasks | the refinement of AccountStream with its progress: every queued transaction is served; Prewarm ends, shutdown joins |
| `tracker` | 2 transactions, a cap of 1, 3 blocks, clock to 3, ReapAfter 1, FetchTimeout 1 | `RegistryInv` (cap, conservation, stamps), no miscount and how late a stamp may be, gaps, eviction neither early nor late, final summary |
| `lifecycle` | a sending run with duration and rate limit; a tracked timed run that writes | `ScopesInv` (joining, errors surface), the sender's scope keeps its cause, success and failure have theirs, a stop exits |
| `lifecycle_late` | the first of these profiles | a violation, see section 6 |
| `lifecycle_lost` | a sending run that tracks, without a duration | a violation, see section 6 |
| `writer` | 3 accounts, gas 1, 2 and 4 against blocks of 3, 2 blocks, 6 transactions | `WriterInv` (nothing lost), files replay, `BlocksLimited` (block gas, block count) |
| `ramper` | phases of 2, windows of 3, lists of 2, clock to 9 (two cycles) | `LimitInv` (the limit is the curve's, and stays down after a failure), passed steps were driven and their cycles are over (`PassedWasDriven`), a violation ends the ramp, a verdict rests on blocks of the last two windows |
| `statistics` | 3 sends with a prewarm, or 4 heads, or 1 send and 2 heads, or one block of 3 values; histories, windows and lists of 2, clock to 3 | windows partition the run but for what falls between a report and its reset, `WindowInv` (exact figures), rates, quantiles, the final report (`FinalIsExact`), the latency line (`LatencyOfStamped`), with values that wrap: in time.Unix, to a negative int64, and to a second of the past |
| `statistics_accepted` | 2 scenarios, sends only | a violation, see section 6 |
| `startup` | 60 profiles (218 starts), 3 accounts at most, batches of 1 and 2, words of 16 bits, 6 transactions, 2 runs | `OneNonceStream` (distinct nonces, each transaction awaited), ready means ready, paid once, only paid accounts send, `EndHasReason` (a stop was asked for, a panic is one of five known ones), startup ends, `OffersAsConfigured` (weights and ranges), `OffersExecute` |

Why these bounds are enough. A race in the queue or the sender needs an account
with at least two transactions, a second account that competes for the FIFO, a
minted one that is forgotten, and a full queue: all are there. Two places keep at
most two tasks busy, who compete for one permit; a third task is there to be wrong
(started twice for an account, say). The tracker's races are between one
transaction, a match and a sweep; the second transaction meets the cap, and three
blocks leave a gap and a head out of order. The clock is long enough for the whole
life of an entry (2 x ReapAfter) and its eviction, and for a head that waits behind the
fetch of another. The ramp's window (3) is out of
step with its phases (2), so all offsets occur within two cycles. Statistics need
one send (or head) more than the histories hold, and one in each of report, gap and next
window; plans keep them apart, for the two collectors share nothing but the logger. The
values of a block are 0, seconds before and after it, and some past half of the word.
Two runs are what it takes to have a pending transaction of an earlier one. The profiles differ in what the code decides on: funded, mocked or written to files, own,
shared, minting or empty pools, weights 0 to 2, every scenario, sampler and picker with its
edge, the flags and settings, and one profile for each check that refuses one. A word of
16 bits holds every gas limit a picker is given there. Six transactions are two cycles of
the longest round-robin.

Bounds are `MaxNonce`, `MaxDrift`, `MaxTime`, `MaxBlock(s)`, `MaxHeads`, `MaxTxs`,
`MaxRuns`, `MaxOffers`, `Plan`; each is named where it is declared and stands in a guard.
`History`, `BlockHistory`, `TpsWindow`, `ReapAfter` and `FetchTimeout` are parameters of the code. Symmetry is used where no
liveness is checked. Deadlock is checked except where a run really ends: the
tracker, the ramper, the statistics and the startup stop when they are done or at
the bound of their clock. `ShardedSender`, `TxsWriter` and `RunLifecycle` say with
an explicit self-loop that the process is over, so that any other stop is an error.

Fairness. Go schedules every runnable goroutine, hence WF of the generator, the
dispatcher, each task, Run's loop, each scope step and `Exit`. The semaphore and
the limiter serve waiters in order, hence SF of `TaskAcquire`. SF of `TaskNonceOk`
is the code's own assumption ("Nonce lookup is expected to succeed eventually",
`sharded_sender.go`). `select` picks at random among ready branches, hence SF of
the ramper's branches. Tasks return when their context has ended (all of them
select on it). In `Startup` WF of `Program` says that RPC calls are answered and
that budgets expire; the chain need not mine, the context need not end. The
funder's sends and balance checks have no budget of their own in the code, so
there the answer is an assumption. No liveness property assumes anything about
signatures, send outcomes, the chain's nonces, or that a run is ever stopped.

## 4. Proofs

Every theorem is about the specification the runs check, for every value of the
constants that satisfies the ASSUMEs named in the modules.

`ShardedSenderProofs` begins with the queue alone (`QueueCorrect`, `QueueExact`,
`QueueNoLostWakeup`): for any set of accounts, capacity and nonces, `QueueSpec` keeps `QueueIsExact` and `NoLostWakeup`. The
conjunction `QueueInv` of their parts is inductive:
the capacity needs the maps to agree (Push tests the size of one and extends the
other), the ready list needs the windows (a flagged account must have something to
pop), the wake-ups need both (Push may skip Updated for an account with a non-empty
window because PopReady cannot have been waiting for it). There is one lemma per
method, stated for a single action and not for the queue's specification, so that
the sender can cite it.

On it rests the sender (`SenderStateCorrect`, `SenderOneTaskPerAccount`,
`SenderTaskHoldsHead`, `SenderNoStrandedAccount`, `SenderDrainedMeansIdle`): for any
number of accounts, tasks and permits and a chain that does what it likes (any
`MaxDrift`). The inductive invariant is
`SenderInv == SenderTypes /\ QueueInv /\ Ownership /\ PermitsConserved`. `Ownership` (one
task per account, on the head of its window, and no account without either a task or a
place in the ready list) is inductive only as a whole: that PopReady hands an account
to one task needs that a task's account is not flagged, and that nobody is stranded
needs that a task that ends puts its account back. The lemmas sort the steps by what
they do to ownership: those that move a task or push (`OwnershipFrame`), spawn
(`OwnershipSpawn`), pop (`OwnershipPopSent`), reset (`OwnershipReset`) and abandon
(`OwnershipReturn`). `DrainedMeansIdle` follows from `TaskHoldsHead` and `MapsAgree`.

The same module has `SenderHeadMatchesChain`: under the hypothesis
`StartNonces \subseteq {0}` (accounts the chain has not seen; others are out of step until
their first send fails). `ChainAgrees` says for each step of a task what the chain expects:
the head before the send, the one after it once it was accepted, and what was looked up
when the task resets; an account nobody works on agrees. It needs `SenderInv`, for a
lookup stays right only because no other task sends for the account meanwhile.

And `SenderImplementsStream`, the safety half of the refinement,
`SafeSpec => Stream!SafeSpec`. Every step of the sender is a step of one account or a
stutter, by cases on the methods: a pop with the spawn is `Dispatch`, PopSent is `Finish`,
Reset is `Restart`, a task that returns with its transaction is `Abandon`. Beside
`SenderInv` it needs that nonces keep to their bound (`Restart` takes one of `Nonce`) and
that only accounts of a pool are reset.

`InclusionTrackerProofs` (`TrackerRegistry`, `TrackerNeverMiscounts`,
`TrackerSummaryIsFinal`, `TrackerHeadsAccounted`, `TrackerReapsOnTime`): for any
transactions, cap, ReapAfter and FetchTimeout, however the chain, the heads and the clock
behave. `TrackerInv` has six parts. `Registry` is `RegistryInv` with the times of its
entries. `Joins` says what the two joins leave nobody to do, hence the final summary.
`ReapTiming` bounds the age of an entry by the time of the last sweep, hence the eviction
within 2 x ReapAfter. `HeadsTaken` counts fetched blocks and gaps from the first head on.
`Lateness`: a head that waits is in the channel, and the head loop is ready again
(`Horizon`) no later than the fetches of the blocks before it may take (`Slack`); with it
`NeverMiscounted` is inductive. That nothing is reaped early is a property of each step.

`RunLifecycleProofs` (`RunJoinsAndSurfaces`, `RunKeepsCause`, `RunExitHasCause`): for any
profiles and every interleaving of tasks, errors, cancellations, signal and deadline.
`RunInv` adds to the types what a scope's phase says of its tasks (`Joining`) and its error
of their results (`Errors`), and what may have cancelled a context: while the run's context
lives, a component's scope ends by an error of its own, or when no task is left to be told
(`OwnCause`); the body's context ends before its time only by a component's failure
(`BodyRuns`, `BodyEnds`). A sentinel in the run's error has then a signal, the duration or
the body's own failure behind it, which is `ExitHasCause`. The assumption on the
constants is the wiring of `main.go` (`ComponentsAssumption`).

`TxsWriterProofs` (`WriterCorrect`, `WriterReplays`, `WriterWithinLimits`): for any
accounts, gas, limits, first height and number of blocks, with writes that fail before or
after the file exists. `WriterIInv` has three parts beside the types and `BlocksLimited`.
`NothingLost` says that the files and the buffer are what was sent, or, once the run has
stopped, that the files are a prefix of it. `Numbered` says of the nonces, without a fold:
each transaction sent has as many before it of its account as its nonce says, and the
writer's counters are these numbers at the end. A prefix inherits the first half, so the
files can be replayed. `WithinLimits` carries the limits over to the buffer, which the next
flush makes a block, and to a writer that goes on. The two folds, `GasOf` and the
concatenation of the files, are unrolled by the greatest position.

`StartupProofs` (`StreamIsOne`, `ReadyIsReady`, `FundingPaysOnce`, `EndsHaveReasons`,
`PaidSend`): for any profiles, accounts, batch size, number of runs and transactions, and
a chain that mines, reverts or ignores. `StartupInv` has six parts beside the two
invariants that are inductive with it. `Stream`: a nonce is below the number its key has sent, and of
this run's transactions only the one a wait is for may be unsettled; the next nonce is
free only for that reason, in later runs too. `DeployedSoFar` ties the loop's index to the
contracts on the chain. `Ledger`: a balance is what the account started with and the amount
if a batch with it succeeded, and batches are disjoint from each other and from the
accounts still to be paid; without the disjointness nothing says that a second batch does
not pay again. `Coverage`: an account of the generator has the amount, is to be paid, or
is in a batch; with `Ledger` it gives the balances at "ready". `Known` is what the program
has tested by the time it is at a point, hence the five panics. `GeneratorOK` has the types;
that a round-robin has an entry and every entry is a configured scenario is a lemma about
finite unions.

The same module has the workload (`OffersFollowProfile`, `OffersSucceed`): for any profile
that the parser can produce (`WorkloadAssumption`, `ScenarioTypes`), whatever its gas, weights (not negative)
and mixes, in words of any number of values. On top of `StartupInv`, `OffersInv` says that the
round-robin is one of the orders of `Slots`, that the i-th turn is its entry at
(i-1) modulo its length, and that the last transaction is as its scenario asks. The rest is
arithmetic. `Slots` has as many elements as the weights add up to (`CycleFacts`), and each
scenario as many as its weight (`RoundRobinCounts`); a window of a cycle's length contains
every remainder once, so where it begins does not matter (`WindowCount`, by moving it one
turn at a time). The totals of a mix do not wrap once validation has accepted it
(`MixTotals`), so Select takes an operation for exactly its weight of the draws
(`SelectCounts`). For each kind of scenario the gas limit is compared with the price of
the largest call data that validation admits (`BuiltExecutes`); a storage call pays the
floor of every pad because the limit is taken from the padded length.

`RamperProofs` (`RamperLimit`, `RamperPassed`, `RamperVerdict`): for any curve, window and
clock. `RamperInv` has `Curve` (the step is that of the last update and every one before
it was driven, which needs that an update happens in each unit of the clock and
that a quotient grows by at most one when its dividend does), `Collected` (without a slow
head no sample of the window is above the SLO: a percentile is one of the samples, so
the collector's bound carries over to it), and `Window` (the watcher's window is opened on
the grid of its ticker). A verdict is about a recent head only by the last two together.

`BlockCollectorProofs` (`PercentileIsQuantile`, `GasPercentileIsSample`): for samples of any
length, the percentile that is reported is one of the samples, and a quantile of them; and
the lists of the collector are the ends of what was recorded.

`StatisticsProofs` (`ReportsPartition`, `WindowDescribesSends`, `FiguresDescribeSends`,
`ReportDescribesRun`, `LineDescribesBlock`): for any latencies, heads, histories, windows and plans, sends and
heads coming in at any point of the logger's cycle. `StatisticsInv` says of each thing the
collectors keep what part of the recorded history it stands for. `Partition` extends
`WindowsPartition` to the states between reading a window and resetting it, where the
logger's copy takes the window's place. `OpenWindow` gives the sum, the maximum and the
minimum for the sends since `reported.opened` (an empty window has 0 for a minimum, which
is why latencies are positive). `SendRates`: the timestamps are the end of the log, and what
was dropped has left the sliding window for good. `KeptLatencies`: the latencies kept are
in order those of the last accepted sends. `KeptBlocks` is the same for the four lists of
the block collector, `Totals` for the counters. The figures follow in each state from these:
the percentiles because a quantile does not depend on how samples are numbered, the
report because the end of the end of a list is its end. `Recorded` (times in order, none
in the future, the logger out of its report once the run is joined) is what they all need.
`LineDescribesBlock` is about any block of the years a Duration can tell: what a value
gives as a latency (`SinceFacts`), and that the first and the last of sorted samples are the
least and the greatest, whatever they are numbered by (`RankedOfSome`). The proof is why
`Wrapped` has two parts: a value of 2^64 or more may wrap to a second of the past, and is
then counted like a stamp; what wraps to a second before 1970, in the int64 or in
time.Unix (`UnixOfInt64`), is slower than every stamp.

The provers cannot instantiate an induction theorem, but a least counterexample is as good:
the numbers (lengths, cardinalities) for which a fact fails are a set with a least
element (`LeastNumber`), and the fact holds for the one before. So are proved that a
finite set of samples has a largest and a ranked one, and that a sum over a set does
not depend on the order in which `SumFunctionOnSet` takes its elements (`SumAdds`).

Every invariant and every safety property that a passing run checks is proved. Only
model-checked is all liveness (fairness and ENABLED are out of the prover's reach): the progress half of
the refinement, `PrewarmEnds`, `ShutdownCompletes`, `StopExits`, `ViolationEndsRamp` and
`StartupEnds`.

## 5. What the checks say

The sender's protocol holds: the only thing that stops an account from being served
is a sender that closes, and a Reset with a nonce that was read before other steps
came in between is still right, as long as nothing but the sender moves the account's
nonce. If something does, `HeadMatchesChain` says nothing, and the resynchronisation
after the next failed send repairs the window; all other properties still hold.

The registry conserves its entries under every interleaving of Register, match and
sweep, and the summary balances because main reads it after both joins. Writing never
reorders or loses a transaction that was not in the buffer of a failed flush. Startup
leaves at most one transaction of a run unsettled, so that the next run with that key
reads a pending nonce behind it. Time adds up: a head waits at most as long as the
fetches before it, and the ramp is judged on blocks of the last two windows only, although
its collector never stops. What validation refuses, the pools, the weights and the
funded set fit together: a funded run never sends from an account without a balance,
also when a pool belongs to one scenario or a scenario has no weight. The gas limit of a
storage call pays for every pad it may carry.

## 6. Where the code and its words differ

Checked by a run that shows the difference:

* `lifecycle_late` - with `--duration` and `--tps`, the limiter refuses a reservation
  past the deadline with an error that wraps no context sentinel, so a run that merely
  reached its duration may exit as a failure. `main.go:404`: "endedOnRunContext reports
  whether err is just the run finishing: its duration elapsed, or the operator
  signalled it. Both are success."
* `lifecycle_lost` - the body's return with an error is a `main.Done` before it is an
  error: a background task may see the cancelled context and report
  `context.Canceled` first. The block collectors and trackers are started before the
  accounts are funded (`main.go:281`, `main.go:315`), so funding that fails in a tracked
  run may exit 0.
* `statistics_accepted` - `run_txs_accepted_total` ("Total transactions accepted by
  endpoints over this run", `stats/metrics.go:46`) is `totalTxs`, which counts refused
  attempts too (`stats/collector.go:63`, `run_summary.go:58`).

Seen while modelling, and stated in the models as the code has it:

* `scope.Run`'s "Returns the first error returned by any task"
  (`scope/start.go:146`) is the first error recorded, for the reason above.
* InclusionTime is the time the head loop receives a head
  (`inclusion_tracker.go:181`); a head that waits behind a slow fetch is stamped late,
  where `sender/doc.go:112` says "header-arrival wall clock". `NeverMiscounted` bounds by how much.
* The writer compares before it counts: it writes one block more than the flag's
  "Number of blocks to write" (`writer.go:122`, `main.go:72`). `BlocksBounded` states
  the bound that holds.
* WatchSLO closes its channel when the context ends, and Run's `select` may take the
  closed channel as a violation (`ramper.go:125`).
* "Highest Passed TPS" (`ramper.go:198`) may name a step in which the SLO was violated: the
  violation counts when Run receives it, and a `select` with both branches ready may take
  the ticker first and enter the next step (`ramper.go:124`). `PassedWasDriven` therefore
  says that the step was driven and its cycle is over, and nothing of violations.
* A chain that produces no block never violates the SLO, because the percentile of an
  empty window is 0 (`ramper.go:94`); the SLO is judged over whatever window is there,
  not over "the back half of the ramp time" (`ramper.go:17`).
* WatchSLO's goroutine belongs to no scope and may write `lastWindowStats` while main
  reads it (`ramper.go:107`, `main.go:377`).
* `Scenario.Validate` is there for what "would otherwise surface as a hot-path panic"
  (`config.go:195`), and five kinds of profile it accepts panic: an unknown scenario name
  (`factory.go:35`), a mocked contract whose endpoint cannot be dialled (`base.go:163`), a
  pool whose count is 0 (`account_pool.go:26`), a random gas or fee range of full width
  (`gas.go:80`), and a statistics interval that is not positive (`logger.go:234`,
  `user_latency_tracker.go:30`). `PanicsAreKnown` says there is no sixth. A range
  that is empty, and a profile whose weights are all 0, fail only after the contracts
  were deployed.
* The calls of three scenarios can never succeed as they are built: `erc721` and
  `erc20conflict` have 22460 gas, less than the slots they write cost, and `disperse` sends
  no value where its contract requires 100 wei. They are included as failures and counted
  as load (`OffersExecute`, `Doomed`).
* A 0 (or false) in the settings object of the file is dropped by `omitempty` when
  LoadSettings marshals it, and the default stands: `maxInFlight: 0` is 10000, not refused.
* `mockDeploy` in a file with endpoints and without a dry run sends calls to addresses that
  hold no code.
* "Start logger (after prewarming to capture only main load test metrics)" (`main.go:336`):
  the prewarm transactions are in every total and in the first window all the same.
* The report's "Block Statistics" (`logger.go:108`) describes the heads since the last tick;
  only "Overall Gas Statistics" describes the run.
* The user latency of a value of 2^63 or more (a funding batch may carry one) is counted
  from the second its low word names, as a rule a negative one (`user_latency_tracker.go:73`).
  A value up to 62135596800 below 2^63 is too late for a Time and wraps to before the year
  1. Both count as slower than any stamp, as a rule with the longest Duration there is.
* A root key file that cannot be read fails the run; the environment is asked only if no
  file is named (`deployer.go:48`).
* `RunSummary.ArrivalModel` is always closed_loop (`main.go:379`), while the tracker takes the
  setting (`main.go:278`); `--buffer-size`, "Sender queue size", is logged and used nowhere.
* A transaction takes two accounts of its pool in a row, so in a pool of even size whose
  users mint nothing every second account only receives (`generator.go:186`).
* "between 0 and 1 MiB" (`config.go:167`, and the error at line 204) is a cap of 128 KiB.
* The gas percentiles use (n-1)*p/100 (`block_collector.go:234`), the latencies
  n*p/100: of two samples, the P99 is the smaller gas figure and the larger latency.

## 7. Not modelled

Parsing and flag definitions; the frequencies of a random draw, its order in the random
stream and ResolveSeed; metrics, traces, the text of reports and their JSON;
`cumulativeMaxTPS`; instruments and routing by clientID in the RPC client. The offline
package is a library nothing in the repository calls, and builds transactions from a seed;
observability sets exporters up; the bindings are generated, and of them `Scenarios` keeps the
length of the call data and what the contract does. The subscription is the head that
arrives, is lost or repeated; a subscription whose error channel nobody drains stalls like
one that loses heads. `lastWindowStats` is printed only, so the race on it (section 6) is in
no model. The network is what the code can observe of it: answers, refusals and silence.

## 8. Plan

1. Done: all components but those of section 7; refinement of `AccountStream`; proofs of
   all safety properties, the safety half of the refinement included.
2. More of the system: a composition of sender and tracker, for the conservation
   `sender/doc.go` states over both; the order of draws in the one random stream, which
   a replay rests on.
