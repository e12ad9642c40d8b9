--------------------------- MODULE StatisticsProofs ---------------------------
(***************************************************************************)
(* Proofs about Statistics, for any scenarios, latencies, heads, histories   *)
(* and plans: what the reports, the rates, the percentiles and the totals     *)
(* say is so; and, for any block, what the latency tracker says of it.        *)
(***************************************************************************)
EXTENDS Statistics, BlockCollectorProofs

-----------------------------------------------------------------------------
(* Sums over finite sets.  SumFunctionOnSet takes the elements in an order   *)
(* CHOOSE determines; a sum does not depend on it.                            *)

\* The element that is taken first.
First(s) == CHOOSE x \in s : TRUE

\* h holds the sums of f over the sets of D, which has the rest of each of them.
Sums(h, f, D) == h = [s \in D |-> IF s = {} THEN 0 ELSE f[First(s)] + h[s \ {First(s)}]]

\* h holds the sums of f over the subsets of T.
SumsUp(h, f, T) ==
  \A s \in SUBSET T : h[s] = IF s = {} THEN 0 ELSE f[First(s)] + h[s \ {First(s)}]

\* f and g have the same values on T.
Agree(f, g, T) == \A x \in T : f[x] = g[x]

\* The first element of a set is one of it.
LEMMA FirstIsIn == ASSUME NEW s, s # {} PROVE First(s) \in s
BY DEF First

\* The sums over the subsets of a finite set exist.
LEMMA SumsExist ==
  ASSUME NEW T, IsFiniteSet(T), NEW f
  PROVE  \E h : Sums(h, f, SUBSET T)
<1> DEFINE D(n) == {s \in SUBSET T : Cardinality(s) <= n}
           Bad == {n \in Nat : ~ \E h : Sums(h, f, D(n))}
<1>1. \A s \in SUBSET T : IsFiniteSet(s) /\ Cardinality(s) \in Nat /\ Cardinality(s) <= Cardinality(T)
  BY FS_Subset, FS_CardinalityType
<1>2. ASSUME NEW m \in Nat, m \in Bad, \A x \in Bad : m <= x PROVE FALSE
  <2>1. CASE m = 0
    <3>1. D(0) = {{}}
      <4>1. \A s \in SUBSET T : Cardinality(s) <= 0 <=> s = {}
        BY <1>1, FS_EmptySet
      <4>. QED BY <4>1
    <3>2. Sums([s \in D(0) |-> 0], f, D(0))
      BY <3>1 DEF Sums
    <3>. QED BY <3>2, <2>1, <1>2
  <2>2. CASE m # 0
    <3>1. PICK n \in Nat : m = n + 1
      BY <2>2
    <3>2. n \notin Bad
      <4>1. ~(m <= n)
        BY <3>1
      <4>. HIDE DEF Bad
      <4>. QED BY <4>1, <1>2
    <3>3. PICK h : Sums(h, f, D(n))
      BY <3>1, <3>2
    <3> DEFINE g == [s \in D(m) |-> IF s = {} THEN 0 ELSE f[First(s)] + h[s \ {First(s)}]]
    <3>4. \A s \in D(n) : s \in D(m) /\ g[s] = h[s]
      <4>1. \A s \in D(n) : s \in D(m)
        BY <3>1, <1>1
      <4>2. \A s \in D(n) : h[s] = IF s = {} THEN 0 ELSE f[First(s)] + h[s \ {First(s)}]
        BY <3>3, Zenon DEF Sums
      <4>. QED BY <4>1, <4>2
    <3>5. \A s \in D(m) : s # {} => s \ {First(s)} \in D(n)
      <4>1. ASSUME NEW s \in SUBSET T, Cardinality(s) <= m, s # {}
            PROVE  s \ {First(s)} \in SUBSET T /\ Cardinality(s \ {First(s)}) <= n
        <5>1. Cardinality(s \ {First(s)}) = Cardinality(s) - 1
          BY <4>1, <1>1, FirstIsIn, FS_RemoveElement
        <5>. QED BY <5>1, <4>1, <3>1, <1>1
      <4>. QED BY <4>1
    <3>. HIDE DEF D
    <3>6. \A s \in D(m) : g[s] = IF s = {} THEN 0 ELSE f[First(s)] + h[s \ {First(s)}]
      OBVIOUS
    <3>7. \A s \in D(m) : s # {} => g[s \ {First(s)}] = h[s \ {First(s)}]
      BY <3>4, <3>5
    <3>8. g = [s \in D(m) |-> IF s = {} THEN 0 ELSE f[First(s)] + g[s \ {First(s)}]]
      <4>1. \A s \in D(m) : (IF s = {} THEN 0 ELSE f[First(s)] + h[s \ {First(s)}])
                              = (IF s = {} THEN 0 ELSE f[First(s)] + g[s \ {First(s)}])
        BY <3>7
      <4>. QED BY <4>1
    <3>. HIDE DEF g
    <3>9. Sums(g, f, D(m))
      BY <3>8 DEF Sums
    <3>. QED BY <3>9, <1>2
  <2>. QED BY <2>1, <2>2
<1>3. Bad = {}
  <2>1. SUFFICES ASSUME Bad # {} PROVE FALSE
    OBVIOUS
  <2>2. Bad \subseteq Nat
    OBVIOUS
  <2>. HIDE DEF Bad
  <2>3. PICK m \in Bad : \A x \in Bad : m <= x
    BY <2>1, <2>2, LeastNumber
  <2>. QED BY <2>2, <2>3, <1>2
<1>4. D(Cardinality(T)) = SUBSET T
  BY <1>1
<1>5. Cardinality(T) \in Nat
  BY FS_CardinalityType
<1>. QED BY <1>3, <1>4, <1>5

\* A sum is the first element's value and the sum of the rest.
LEMMA SumUnfolds ==
  ASSUME NEW T, IsFiniteSet(T), NEW f
  PROVE  \E h : SumsUp(h, f, T) /\ SumFunctionOnSet(f, T) = h[T]
<1>1. PICK h : h = CHOOSE g : Sums(g, f, SUBSET T)
  OBVIOUS
<1>2. Sums(h, f, SUBSET T)
  BY <1>1, SumsExist
<1>3. SumFunctionOnSet(f, T) = h[T]
  BY <1>1 DEF SumFunctionOnSet, FoldFunctionOnSet, MapThenFoldSet, Sums, First
<1>4. SumsUp(h, f, T)
  BY <1>2, Zenon DEF Sums, SumsUp
<1>. QED BY <1>3, <1>4

\* Sums of functions that agree on a set agree, whatever sets they were built for.
LEMMA SumsAgree ==
  ASSUME NEW T, IsFiniteSet(T), NEW f, NEW g, Agree(f, g, T),
         NEW h, NEW k, NEW U, T \subseteq U, SumsUp(h, f, T), SumsUp(k, g, U)
  PROVE  h[T] = k[T]
<1> DEFINE Bad == {n \in Nat : \E s \in SUBSET T : Cardinality(s) = n /\ h[s] # k[s]}
<1>1. \A s \in SUBSET T : IsFiniteSet(s) /\ Cardinality(s) \in Nat
  BY FS_Subset, FS_CardinalityType
<1>2. ASSUME NEW m \in Nat, m \in Bad, \A x \in Bad : m <= x PROVE FALSE
  <2>1. PICK s \in SUBSET T : Cardinality(s) = m /\ h[s] # k[s]
    BY <1>2
  <2>2. s # {}
    BY <2>1 DEF SumsUp
  <2>3. PICK r \in SUBSET T : r = s \ {First(s)}
    OBVIOUS
  <2>4. Cardinality(r) = m - 1 /\ m - 1 \in Nat
    <3>1. Cardinality(r) = Cardinality(s) - 1
      BY <2>2, <2>3, <1>1, FirstIsIn, FS_RemoveElement
    <3>. QED BY <3>1, <2>1, <1>1
  <2>5. h[r] = k[r]
    BY <2>4, <1>2
  <2>6. h[s] = f[First(s)] + h[r] /\ k[s] = g[First(s)] + k[r]
    BY <2>2, <2>3 DEF SumsUp
  <2>7. f[First(s)] = g[First(s)]
    BY <2>2, FirstIsIn DEF Agree
  <2>. QED BY <2>1, <2>5, <2>6, <2>7
<1>3. Bad = {}
  <2>1. SUFFICES ASSUME Bad # {} PROVE FALSE
    OBVIOUS
  <2>2. Bad \subseteq Nat
    OBVIOUS
  <2>. HIDE DEF Bad
  <2>3. PICK m \in Bad : \A x \in Bad : m <= x
    BY <2>1, <2>2, LeastNumber
  <2>. QED BY <2>2, <2>3, <1>2
<1>4. \A s \in SUBSET T : h[s] = k[s]
  BY <1>1, <1>3
<1>. QED BY <1>4

\* Functions that agree on a finite set have the same sum over it.
LEMMA SumSame ==
  ASSUME NEW T, IsFiniteSet(T), NEW f, NEW g, \A x \in T : f[x] = g[x]
  PROVE  SumFunctionOnSet(f, T) = SumFunctionOnSet(g, T)
<1>1. PICK h : SumsUp(h, f, T) /\ SumFunctionOnSet(f, T) = h[T]
  BY SumUnfolds
<1>2. PICK k : SumsUp(k, g, T) /\ SumFunctionOnSet(g, T) = k[T]
  BY SumUnfolds
<1>3. h[T] = k[T]
  <2>1. T \subseteq T /\ Agree(f, g, T)
    BY DEF Agree
  <2>. QED BY <2>1, <1>1, <1>2, SumsAgree
<1>. QED BY <1>1, <1>2, <1>3

\* A sum of natural numbers is one, and any element may be taken first.
LEMMA SumOfAll ==
  ASSUME NEW T, IsFiniteSet(T), NEW f, \A x \in T : f[x] \in Nat
  PROVE  /\ SumFunctionOnSet(f, T) \in Nat
         /\ T = {} => SumFunctionOnSet(f, T) = 0
         /\ \A x \in T : SumFunctionOnSet(f, T) = f[x] + SumFunctionOnSet(f, T \ {x})
<1>1. PICK h : SumsUp(h, f, T) /\ SumFunctionOnSet(f, T) = h[T]
  BY SumUnfolds
<1> DEFINE Good(s) == h[s] \in Nat /\ \A x \in s : h[s] = f[x] + h[s \ {x}]
           Bad == {n \in Nat : \E s \in SUBSET T : Cardinality(s) = n /\ ~Good(s)}
<1>2. \A s \in SUBSET T : IsFiniteSet(s) /\ Cardinality(s) \in Nat
  BY FS_Subset, FS_CardinalityType
<1>3. ASSUME NEW m \in Nat, m \in Bad, \A x \in Bad : m <= x PROVE FALSE
  <2>1. PICK s \in SUBSET T : Cardinality(s) = m /\ ~Good(s)
    BY <1>3
  <2>2. ASSUME NEW t \in SUBSET s, NEW y \in s, y \notin t PROVE Good(t)
    <3>1. t \in SUBSET T /\ t \in SUBSET (s \ {y})
      BY <2>2
    <3>2. Cardinality(s \ {y}) = m - 1 /\ IsFiniteSet(s \ {y})
      BY <2>1, <2>2, <1>2, FS_RemoveElement
    <3>3. Cardinality(t) <= m - 1 /\ Cardinality(t) \in Nat
      BY <3>1, <3>2, <1>2, FS_Subset
    <3>4. Cardinality(t) \notin Bad
      BY <3>3, <1>3
    <3>. QED BY <3>1, <3>3, <3>4
  <2>3. CASE s = {}
    <3>1. h[s] = 0
      BY <2>3, <1>1 DEF SumsUp
    <3>. QED BY <2>1, <2>3, <3>1
  <2>4. CASE s # {}
    <3>1. PICK y \in s : y = First(s)
      BY <2>4, FirstIsIn
    <3>2. h[s] = f[y] + h[s \ {y}]
      BY <3>1, <2>4, <1>1 DEF SumsUp
    <3>3. Good(s \ {y}) /\ f[y] \in Nat
      BY <2>2
    <3>4. h[s] \in Nat
      BY <3>2, <3>3
    <3>5. ASSUME NEW x \in s, x # y PROVE h[s] = f[x] + h[s \ {x}]
      <4>1. Good(s \ {x}) /\ Good(s \ {x, y}) /\ f[x] \in Nat
        <5>1. Good(s \ {x})
          BY <2>2
        <5>2. Good(s \ {x, y})
          BY <2>2
        <5>. QED BY <5>1, <5>2
      <4>2. PICK r : r = s \ {x, y}
        OBVIOUS
      <4>3. x \in s \ {y} /\ y \in s \ {x} /\ (s \ {y}) \ {x} = r /\ (s \ {x}) \ {y} = r
        BY <3>5, <4>2
      <4>4. h[s \ {y}] = f[x] + h[r] /\ h[s \ {x}] = f[y] + h[r]
        BY <4>1, <4>3, <3>3
      <4>5. h[r] \in Nat
        BY <4>1, <4>2
      <4>. QED BY <4>1, <4>4, <4>5, <3>2, <3>3
    <3>6. Good(s)
      BY <3>1, <3>2, <3>4, <3>5
    <3>. QED BY <3>6, <2>1
  <2>. QED BY <2>3, <2>4
<1>4. Bad = {}
  <2>1. SUFFICES ASSUME Bad # {} PROVE FALSE
    OBVIOUS
  <2>2. Bad \subseteq Nat
    OBVIOUS
  <2>. HIDE DEF Bad
  <2>3. PICK m \in Bad : \A x \in Bad : m <= x
    BY <2>1, <2>2, LeastNumber
  <2>. QED BY <2>2, <2>3, <1>3
<1>5. Good(T)
  BY <1>2, <1>4
<1>6. ASSUME NEW x \in T PROVE SumFunctionOnSet(f, T \ {x}) = h[T \ {x}]
  <2>1. IsFiniteSet(T \ {x})
    BY FS_RemoveElement
  <2>2. PICK k : SumsUp(k, f, T \ {x}) /\ SumFunctionOnSet(f, T \ {x}) = k[T \ {x}]
    BY <2>1, SumUnfolds
  <2>3. k[T \ {x}] = h[T \ {x}]
    <3>1. T \ {x} \subseteq T /\ Agree(f, f, T \ {x})
      BY DEF Agree
    <3>. QED BY <3>1, <2>1, <2>2, <1>1, SumsAgree
  <2>. QED BY <2>2, <2>3
<1>7. T = {} => h[T] = 0
  BY <1>1 DEF SumsUp
<1>. QED BY <1>1, <1>5, <1>6, <1>7

\* What a new element adds.
LEMMA SumAdds ==
  ASSUME NEW T, IsFiniteSet(T), NEW f, \A y \in T : f[y] \in Nat,
         NEW x, x \notin T, NEW g, \A y \in T : g[y] = f[y], g[x] \in Nat
  PROVE  SumFunctionOnSet(g, T \cup {x}) = SumFunctionOnSet(f, T) + g[x]
<1>1. IsFiniteSet(T \cup {x}) /\ (T \cup {x}) \ {x} = T /\ \A y \in T \cup {x} : g[y] \in Nat
  BY FS_AddElement
<1>2. SumFunctionOnSet(g, T \cup {x}) = g[x] + SumFunctionOnSet(g, T)
  BY <1>1, SumOfAll
<1>3. SumFunctionOnSet(g, T) = SumFunctionOnSet(f, T) /\ SumFunctionOnSet(f, T) \in Nat
  BY SumSame, SumOfAll
<1>. QED BY <1>2, <1>3

\* Counting one up adds one to the sum.
LEMMA SumCountsUp ==
  ASSUME NEW T, IsFiniteSet(T), NEW f \in [T -> Nat], NEW x \in T,
         NEW g, g = [f EXCEPT ![x] = @ + 1]
  PROVE  SumFunction(g) = SumFunction(f) + 1
<1>1. DOMAIN f = T /\ DOMAIN g = T /\ g[x] = f[x] + 1 /\ \A y \in T \ {x} : g[y] = f[y]
  OBVIOUS
<1>2. IsFiniteSet(T \ {x})
  BY FS_RemoveElement
<1>3. SumFunctionOnSet(g, T \ {x}) = SumFunctionOnSet(f, T \ {x})
  BY <1>1, <1>2, SumSame
<1>4. \A y \in T : f[y] \in Nat /\ g[y] \in Nat
  OBVIOUS
<1>5. /\ SumFunctionOnSet(g, T) = g[x] + SumFunctionOnSet(g, T \ {x})
      /\ SumFunctionOnSet(f, T) = f[x] + SumFunctionOnSet(f, T \ {x})
  BY <1>4, SumOfAll
<1>6. SumFunctionOnSet(f, T \ {x}) \in Nat
  BY <1>2, <1>4, SumOfAll
<1>. QED BY <1>1, <1>3, <1>4, <1>5, <1>6 DEF SumFunction


-----------------------------------------------------------------------------
(* The invariant.                                                          *)

Names == Scenario \cup {Prewarm}
SendRecord == [at : Nat, scenario : Names, latency : Latency, ok : BOOLEAN, late : BOOLEAN]
HeadRecord == [at : Nat, number : Nat, gas : Nat, late : BOOLEAN]

\* Entries are recorded in the order of their times, none of them in the future.
InOrder(entries, t) ==
  /\ \A i \in 1 .. Len(entries) : 0 < entries[i].at /\ entries[i].at <= t
  /\ \A i, j \in 1 .. Len(entries) : i <= j => entries[i].at <= entries[j].at

\* What the histories are.
Recorded ==
  /\ log \in Seq(SendRecord) /\ blockLog \in Seq(HeadRecord) /\ now > 0
  /\ InOrder(log, now) /\ InOrder(blockLog, now)
  /\ blocks \in BlockState
  /\ reported \in [txs : Nat, blocks : Nat, opened : Nat, blocksOpened : Nat]
  /\ reported.opened <= Len(log) /\ reported.blocksOpened <= Len(blockLog)
  /\ Len(blockLog) <= plan.heads
  /\ plan.tracked \/ blockLog = <<>>
  /\ run = "running" \/ logger.pc \in {"off", "wait"}

\* What was reported, what the logger has read and is about to report, what is
\* in the open window and what came too late for one is all there is.
Partition ==
  /\ logger.pc # "reset" => Len(log) = reported.txs + windowStats.txCount + Late(log)
  /\ logger.pc = "reset" => Len(log) = reported.txs + logger.txs + Late(log)
  /\ plan.heads <= BlockHistory =>
       /\ logger.pc \in {"off", "wait"} =>
            Len(blockLog) = reported.blocks + Len(blocks.windowGasUsed) + Late(blockLog)
       /\ logger.pc \in {"reset", "resetBlocks"} =>
            Len(blockLog) = reported.blocks + logger.blocks + Late(blockLog)

\* v is the highest, and the lowest, latency of the sends after the first n.
Highest(v, sends, n) == /\ \E i \in n + 1 .. Len(sends) : sends[i].latency = v
                        /\ \A i \in n + 1 .. Len(sends) : sends[i].latency <= v
Lowest(v, sends, n)  == /\ \E i \in n + 1 .. Len(sends) : sends[i].latency = v
                        /\ \A i \in n + 1 .. Len(sends) : sends[i].latency >= v

\* The open window is that of the sends after the first reported.opened; an
\* empty one has no figures.
OpenWindow ==
  /\ windowStats.txCount = Len(log) - reported.opened
  /\ windowStats.sum = SumFunctionOnSet(Field("latency", log), reported.opened + 1 .. Len(log))
  /\ reported.opened = Len(log) => windowStats.max = 0 /\ windowStats.min = 0
  /\ reported.opened < Len(log) =>
       /\ Highest(windowStats.max, log, reported.opened)
       /\ Lowest(windowStats.min, log, reported.opened)
  /\ log = <<>> => windowStats.cumulativeMax = 0
  /\ log # <<>> => Highest(windowStats.cumulativeMax, log, 0)

\* The timestamps are those of the last sends, the others are out of the sliding
\* window, and maxTps is the highest rate.
Dropped == Len(log) - Len(timestamps)
SendRates ==
  /\ Dropped \in Nat
  /\ \A i \in 1 .. Len(timestamps) : timestamps[i] = log[Dropped + i].at
  /\ \A i \in 1 .. Dropped : log[i].at + TpsWindow <= now
  /\ \A n \in 1 .. Len(log) : Rate(log[n].at, n) <= maxTps
  /\ log = <<>> => maxTps = 0
  /\ log # <<>> => \E n \in 1 .. Len(log) : maxTps = Rate(log[n].at, n)

\* list is the bounded history of the last count values of f.
IsEnd(list, count, f) ==
  /\ list \in Seq(Nat) /\ count \in Nat /\ count <= Len(f)
  /\ Len(list) = Least(count, BlockHistory)
  /\ \A i \in 1 .. Len(list) : list[i] = f[Len(f) - Len(list) + i]

\* The times between heads, and 0 for the first.
BlockTimes ==
  [i \in 1 .. Len(blockLog) |-> IF i = 1 THEN 0 ELSE blockLog[i].at - blockLog[i - 1].at]

\* Of the heads after the first n, the number that have one before them.
Timed(n) == IF blockLog = <<>> THEN 0 ELSE Len(blockLog) - Greatest(n, 1)

\* What the block collector keeps is the end of what was recorded.
KeptBlocks ==
  /\ IsEnd(blocks.allGasUsed, Len(blockLog), Field("gas", blockLog))
  /\ IsEnd(blocks.windowGasUsed, Len(blockLog) - reported.blocksOpened, Field("gas", blockLog))
  /\ IsEnd(blocks.allBlockTimes, Timed(0), BlockTimes)
  /\ IsEnd(blocks.windowBlockTimes, Timed(reported.blocksOpened), BlockTimes)
  /\ blockLog = <<>> => blocks.lastBlockTime = ZeroTime /\ blocks.maxBlockNum = 0
  /\ blockLog # <<>> => blocks.lastBlockTime = blockLog[Len(blockLog)].at
  /\ \A i \in 1 .. Len(blockLog) : blockLog[i].number <= blocks.maxBlockNum
  /\ blocks.maxBlockNum = 0 \/ \E i \in 1 .. Len(blockLog) : blockLog[i].number = blocks.maxBlockNum

\* The counters count the sends.
Totals ==
  /\ totalTxs = Len(log)
  /\ SumFunction(txCounts) = totalTxs
  /\ \A s \in Names : txCounts[s] = Cardinality({i \in DOMAIN log : log[i].scenario = s})

\* f takes the latencies kept to the sends they are of, in order: no accepted
\* send is left out, but for older ones when the history is full.
Traces(f) ==
  /\ f \in [1 .. Len(latencies) -> Successes]
  /\ \A i, j \in 1 .. Len(latencies) : i < j => f[i] < f[j]
  /\ \A i \in 1 .. Len(latencies) : latencies[i] = log[f[i]].latency
  /\ \A n \in Successes : \/ \E i \in 1 .. Len(latencies) : f[i] = n
                          \/ /\ Len(latencies) = History
                             /\ \A i \in 1 .. Len(latencies) : n < f[i]
KeptLatencies == \E f \in [1 .. Len(latencies) -> Successes] : Traces(f)

StatisticsInv ==
  /\ TypeOK /\ Recorded /\ Partition /\ OpenWindow /\ SendRates
  /\ KeptBlocks /\ Totals /\ KeptLatencies /\ FinalIsExact

-----------------------------------------------------------------------------
(* The steps.                                                              *)

\* A step records a send or a head, resets a window, prints the report, or
\* leaves everything that is recorded and collected as it was.
Quiet ==
  /\ UNCHANGED <<plan, txCounts, totalTxs, latencies, timestamps, maxTps, windowStats, blocks, final,
                 log, blockLog, reported>>
  /\ now' \in Nat /\ now <= now'
  /\ logger' \in [pc : {"off", "wait", "reset", "resetBlocks"}, txs : Nat, blocks : Nat]
  /\ \/ logger' = logger
     \/ logger.pc = "off" /\ logger' = [logger EXCEPT !.pc = "wait"] /\ run = "running"
     \/ /\ logger.pc = "wait" /\ run = "running"
        /\ logger' = [pc |-> "reset", txs |-> windowStats.txCount, blocks |-> Len(blocks.windowGasUsed)]
  /\ \/ run' = run
     \/ run = "running" /\ run' = "joined" /\ logger' = logger /\ logger.pc \in {"off", "wait"}
     \/ run = "logged" /\ run' = "reported" /\ logger' = logger
  /\ accepted' \in Nat

\* Every step is one of these.
LEMMA Steps ==
  ASSUME TypeOK, Recorded, [Next]_vars
  PROVE  \/ \E s \in Names, l \in Latency, ok \in BOOLEAN : RecordTransaction(s, l, ok)
         \/ \E header \in Header : RecordBlock(header)
         \/ ResetWindowStats
         \/ ResetBlocks
         \/ LogFinalStats
         \/ Quiet
<1>1. /\ now \in Nat /\ accepted \in Nat /\ totalTxs \in Nat /\ windowStats.txCount \in Nat
      /\ logger \in [pc : {"off", "wait", "reset", "resetBlocks"}, txs : Nat, blocks : Nat]
  BY DEF TypeOK
<1>2. Len(blocks.windowGasUsed) \in Nat
  <2>1. blocks.windowGasUsed \in Seq(Nat)
    BY DEF Recorded, BlockState
  <2>. QED BY <2>1, LenProperties
<1>3. ASSUME NEW l \in Latency, NEW ok \in BOOLEAN, Send(l, ok)
      PROVE  \E s \in Names : RecordTransaction(s, l, ok)
  BY <1>3 DEF Send, Names
<1>4. ASSUME StartLogger PROVE Quiet
  <2>1. logger' \in [pc : {"off", "wait", "reset", "resetBlocks"}, txs : Nat, blocks : Nat]
    BY <1>1, <1>4 DEF StartLogger
  <2>2. now' = now /\ now <= now
    BY <1>1, <1>4 DEF StartLogger
  <2>. QED BY <2>1, <2>2, <1>1, <1>4 DEF StartLogger, Quiet, collectorVars, history
<1>5. ASSUME GetStats PROVE Quiet
  <2>1. logger' \in [pc : {"off", "wait", "reset", "resetBlocks"}, txs : Nat, blocks : Nat]
    BY <1>1, <1>2, <1>5 DEF GetStats
  <2>2. now' = now /\ now <= now
    BY <1>1, <1>5 DEF GetStats
  <2>. QED BY <2>1, <2>2, <1>1, <1>5 DEF GetStats, Quiet, collectorVars, history
<1>6. ASSUME NEW block \in Block, PollLatency(block) PROVE Quiet
  <2>1. now' = now /\ now <= now
    BY <1>1, <1>6 DEF PollLatency
  <2>. QED BY <2>1, <1>1, <1>6 DEF PollLatency, Quiet, collectorVars, history
<1>7. ASSUME Join PROVE Quiet
  <2>1. now' = now /\ now <= now
    BY <1>1, <1>7 DEF Join
  <2>. QED BY <2>1, <1>1, <1>7 DEF Join, Quiet, collectorVars, history
<1>8. ASSUME EmitRunSummary PROVE Quiet
  <2>1. now' = now /\ now <= now
    BY <1>1, <1>8 DEF EmitRunSummary
  <2>. QED BY <2>1, <1>1, <1>8 DEF EmitRunSummary, Quiet, collectorVars, history
<1>9. ASSUME Tick PROVE Quiet
  <2>1. now' = now + 1 /\ now <= now + 1 /\ now + 1 \in Nat
    BY <1>1, <1>9 DEF Tick
  <2>. QED BY <2>1, <1>1, <1>9 DEF Tick, Quiet, collectorVars, history
<1>10. ASSUME UNCHANGED vars PROVE Quiet
  <2>1. now' = now /\ now <= now
    BY <1>1, <1>10 DEF vars
  <2>. QED BY <2>1, <1>1, <1>10 DEF vars, Quiet, collectorVars, history
<1>. QED BY <1>3, <1>4, <1>5, <1>6, <1>7, <1>8, <1>9, <1>10 DEF Next

\* A send is recorded behind the others.
LEMMA SendRecorded ==
  ASSUME TypeOK, Recorded, NEW s \in Names, NEW l \in Latency, NEW ok \in BOOLEAN,
         RecordTransaction(s, l, ok)
  PROVE  /\ Len(log) \in Nat /\ log' \in Seq(SendRecord) /\ Len(log') = Len(log) + 1
         /\ \A i \in 1 .. Len(log) : log'[i] = log[i] /\ log[i] \in SendRecord
         /\ log'[Len(log) + 1].at = now /\ log'[Len(log) + 1].scenario = s
         /\ log'[Len(log) + 1].latency = l /\ log'[Len(log) + 1].ok = ok
         /\ log'[Len(log) + 1].late <=> logger.pc = "reset"
<1>1. log \in Seq(SendRecord) /\ now \in Nat
  BY DEF TypeOK, Recorded
<1>2. PICK e : e = [at |-> now, scenario |-> s, latency |-> l, ok |-> ok, late |-> logger.pc = "reset"]
  OBVIOUS
<1>3. e \in SendRecord
  BY <1>1, <1>2 DEF SendRecord
<1>4. log' = Append(log, e)
  BY <1>2 DEF RecordTransaction
<1>5. log' \in Seq(SendRecord) /\ Len(log') = Len(log) + 1 /\ log'[Len(log) + 1] = e
      /\ \A i \in 1 .. Len(log) : log'[i] = log[i]
  BY <1>1, <1>3, <1>4, AppendProperties
<1>6. Len(log) \in Nat /\ \A i \in 1 .. Len(log) : log[i] \in SendRecord
  BY <1>1, LenProperties, ElementOfSeq
<1>7. e.at = now /\ e.scenario = s /\ e.latency = l /\ e.ok = ok
  BY <1>2
<1>8. e.late <=> logger.pc = "reset"
  BY <1>2, Zenon
<1>. QED BY <1>5, <1>6, <1>7, <1>8

\* A head is recorded behind the others.
LEMMA HeadRecorded ==
  ASSUME TypeOK, Recorded, NEW header \in Header, RecordBlock(header)
  PROVE  /\ header.number \in Nat /\ header.gas \in Nat
         /\ Len(blockLog) \in Nat /\ blockLog' \in Seq(HeadRecord) /\ Len(blockLog') = Len(blockLog) + 1
         /\ \A i \in 1 .. Len(blockLog) : blockLog'[i] = blockLog[i] /\ blockLog[i] \in HeadRecord
         /\ blockLog'[Len(blockLog) + 1].at = now
         /\ blockLog'[Len(blockLog) + 1].number = header.number
         /\ blockLog'[Len(blockLog) + 1].gas = header.gas
         /\ blockLog'[Len(blockLog) + 1].late <=> logger.pc \in {"reset", "resetBlocks"}
<1>1. blockLog \in Seq(HeadRecord) /\ now \in Nat /\ header \in [number : Nat, gas : Nat]
  BY BoundAssumption DEF TypeOK, Recorded
<1>2. PICK e : e = [at |-> now, number |-> header.number, gas |-> header.gas,
                    late |-> logger.pc \in {"reset", "resetBlocks"}]
  OBVIOUS
<1>3. e \in HeadRecord
  BY <1>1, <1>2 DEF HeadRecord
<1>4. blockLog' = Append(blockLog, e)
  BY <1>2 DEF RecordBlock
<1>5. blockLog' \in Seq(HeadRecord) /\ Len(blockLog') = Len(blockLog) + 1
      /\ blockLog'[Len(blockLog) + 1] = e
      /\ \A i \in 1 .. Len(blockLog) : blockLog'[i] = blockLog[i]
  BY <1>1, <1>3, <1>4, AppendProperties
<1>6. Len(blockLog) \in Nat /\ \A i \in 1 .. Len(blockLog) : blockLog[i] \in HeadRecord
  BY <1>1, LenProperties, ElementOfSeq
<1>7. e.at = now /\ e.number = header.number /\ e.gas = header.gas
  BY <1>2
<1>8. e.late <=> logger.pc \in {"reset", "resetBlocks"}
  BY <1>2, Zenon
<1>. QED BY <1>1, <1>5, <1>6, <1>7, <1>8

\* A later entry keeps the order.
LEMMA StaysInOrder ==
  ASSUME NEW entries, Len(entries) \in Nat, NEW t \in Nat, t > 0, InOrder(entries, t),
         NEW r, Len(r) = Len(entries) + 1, \A i \in 1 .. Len(entries) : r[i] = entries[i],
         r[Len(entries) + 1].at = t, \A i \in 1 .. Len(entries) : entries[i].at \in Nat
  PROVE  InOrder(r, t)
<1>1. PICK n \in Nat : n = Len(entries)
  OBVIOUS
<1>2. \A i \in 1 .. n + 1 : i \in 1 .. n \/ i = n + 1
  OBVIOUS
<1>3. ASSUME NEW i \in 1 .. n + 1 PROVE 0 < r[i].at /\ r[i].at <= t
  BY <1>1, <1>2 DEF InOrder
<1>4. ASSUME NEW i \in 1 .. n + 1, NEW j \in 1 .. n + 1, i <= j PROVE r[i].at <= r[j].at
  <2>1. CASE j = n + 1
    BY <2>1, <1>1, <1>3
  <2>2. CASE j \in 1 .. n
    <3>1. i \in 1 .. n
      BY <2>2, <1>4
    <3>. QED BY <3>1, <2>2, <1>1, <1>4 DEF InOrder
  <2>. QED BY <1>2, <2>1, <2>2
<1>. QED BY <1>1, <1>3, <1>4 DEF InOrder

\* Time passing keeps it, too.
LEMMA OrderLasts ==
  ASSUME NEW entries, NEW t \in Nat, NEW u \in Nat, t <= u, InOrder(entries, t),
         \A i \in 1 .. Len(entries) : entries[i].at \in Nat
  PROVE  InOrder(entries, u)
BY DEF InOrder

\* The block collector keeps its types.
LEMMA BlocksTyped ==
  ASSUME TypeOK, Recorded, KeptBlocks, NEW header \in Header, RecordBlock(header)
  PROVE  blocks' \in BlockState /\ blocks.lastBlockTime <= now
<1>1. /\ now \in Nat /\ blocks \in BlockState /\ header \in [number : Nat, gas : Nat]
      /\ blocks' = ProcessNewBlock(blocks, header, now)
  BY BoundAssumption DEF TypeOK, Recorded, RecordBlock
<1>2. blocks.lastBlockTime <= now
  <2>1. CASE blockLog = <<>>
    BY <2>1, <1>1 DEF KeptBlocks, ZeroTime
  <2>2. CASE blockLog # <<>>
    <3>1. Len(blockLog) \in 1 .. Len(blockLog)
      <4>1. blockLog \in Seq(HeadRecord)
        BY DEF Recorded
      <4>. QED BY <4>1, <2>2, LenProperties, EmptySeq
    <3>2. InOrder(blockLog, now)
      BY DEF Recorded
    <3>3. blockLog[Len(blockLog)].at <= now
      BY <3>1, <3>2 DEF InOrder
    <3>. QED BY <3>3, <2>2 DEF KeptBlocks
  <2>. QED BY <2>1, <2>2
<1>3. blocks' \in BlockState
  BY ONLY <1>1, <1>2, NewBlockFacts
<1>. QED BY <1>2, <1>3

\* The histories stay typed and in the order of their times: the clock never goes
\* back, and the logger has left its report when the run is joined.
LEMMA RecordedStep ==
  ASSUME TypeOK, Recorded, KeptBlocks, [Next]_vars
  PROVE  Recorded'
<1>1. /\ now \in Nat /\ now > 0 /\ plan \in [txs : Nat, heads : Nat, polls : Nat, tracked : BOOLEAN,
                                             prewarm : BOOLEAN]
      /\ logger \in [pc : {"off", "wait", "reset", "resetBlocks"}, txs : Nat, blocks : Nat]
  BY BoundAssumption DEF TypeOK, Recorded
<1>2. /\ log \in Seq(SendRecord) /\ blockLog \in Seq(HeadRecord)
      /\ InOrder(log, now) /\ InOrder(blockLog, now) /\ blocks \in BlockState
      /\ reported \in [txs : Nat, blocks : Nat, opened : Nat, blocksOpened : Nat]
      /\ reported.opened <= Len(log) /\ reported.blocksOpened <= Len(blockLog)
      /\ Len(blockLog) <= plan.heads /\ (plan.tracked \/ blockLog = <<>>)
      /\ (run = "running" \/ logger.pc \in {"off", "wait"})
  BY DEF Recorded
<1>3. /\ Len(log) \in Nat /\ \A i \in 1 .. Len(log) : log[i] \in SendRecord
      /\ Len(blockLog) \in Nat /\ \A i \in 1 .. Len(blockLog) : blockLog[i] \in HeadRecord
  BY <1>2, LenProperties, ElementOfSeq
<1>4. /\ \A i \in 1 .. Len(log) : log[i].at \in Nat
      /\ \A i \in 1 .. Len(blockLog) : blockLog[i].at \in Nat
  BY <1>3 DEF SendRecord, HeadRecord
<1>5. ASSUME NEW s \in Names, NEW l \in Latency, NEW ok \in BOOLEAN, RecordTransaction(s, l, ok)
      PROVE  Recorded'
  <2>1. /\ log' \in Seq(SendRecord) /\ Len(log') = Len(log) + 1
        /\ \A i \in 1 .. Len(log) : log'[i] = log[i]
        /\ log'[Len(log) + 1].at = now
    BY <1>5, SendRecorded
  <2>2. InOrder(log', now)
    BY ONLY <2>1, <1>1, <1>2, <1>3, <1>4, StaysInOrder
  <2>3. reported.opened <= Len(log')
    <3>1. PICK o \in Nat : o = reported.opened
      BY <1>2
    <3>. QED BY <3>1, <2>1, <1>2, <1>3
  <2>. QED BY <2>1, <2>2, <2>3, <1>1, <1>2, <1>5 DEF RecordTransaction, Recorded
<1>6. ASSUME NEW header \in Header, RecordBlock(header)
      PROVE  Recorded'
  <2>1. /\ blockLog' \in Seq(HeadRecord) /\ Len(blockLog') = Len(blockLog) + 1
        /\ \A i \in 1 .. Len(blockLog) : blockLog'[i] = blockLog[i]
        /\ blockLog'[Len(blockLog) + 1].at = now
    BY <1>6, HeadRecorded
  <2>2. InOrder(blockLog', now)
    BY ONLY <2>1, <1>1, <1>2, <1>3, <1>4, StaysInOrder
  <2>3. reported.blocksOpened <= Len(blockLog') /\ Len(blockLog') <= plan.heads
    <3>1. PICK o \in Nat : o = reported.blocksOpened
      BY <1>2
    <3>2. PICK h \in Nat : h = plan.heads
      BY <1>1
    <3>3. Len(blockLog) < h
      BY <3>2, <1>6 DEF RecordBlock
    <3>. QED BY <3>1, <3>2, <3>3, <2>1, <1>2, <1>3
  <2>4. blocks' \in BlockState
    BY <1>6, BlocksTyped
  <2>. QED BY <2>1, <2>2, <2>3, <2>4, <1>1, <1>2, <1>6 DEF RecordBlock, Recorded, collectorVars
<1>7. CASE ResetWindowStats
  <2>1. /\ reported' \in [txs : Nat, blocks : Nat, opened : Nat, blocksOpened : Nat]
        /\ reported'.opened = Len(log) /\ reported'.blocksOpened = reported.blocksOpened
    <3>1. PICK x \in Nat : x = reported.txs + logger.txs
      <4>1. reported.txs \in Nat /\ logger.txs \in Nat
        BY <1>1, <1>2
      <4>. QED BY <4>1
    <3>2. reported' = [reported EXCEPT !.txs = x, !.opened = Len(log)]
      BY <3>1, <1>7 DEF ResetWindowStats
    <3>. QED BY <3>2, <1>2, <1>3
  <2>2. run' = run /\ run = "running"
    BY <1>2, <1>7 DEF ResetWindowStats
  <2>3. Len(log) <= Len(log)
    BY <1>3
  <2>. QED BY <2>1, <2>2, <2>3, <1>1, <1>2, <1>7 DEF ResetWindowStats, Recorded
<1>8. CASE ResetBlocks
  <2>1. /\ reported' \in [txs : Nat, blocks : Nat, opened : Nat, blocksOpened : Nat]
        /\ reported'.opened = reported.opened /\ reported'.blocksOpened = Len(blockLog)
    <3>1. PICK x \in Nat : x = reported.blocks + logger.blocks
      <4>1. reported.blocks \in Nat /\ logger.blocks \in Nat
        BY <1>1, <1>2
      <4>. QED BY <4>1
    <3>2. reported' = [reported EXCEPT !.blocks = x, !.blocksOpened = Len(blockLog)]
      BY <3>1, <1>8 DEF ResetBlocks
    <3>. QED BY <3>2, <1>2, <1>3
  <2>2. run' = run /\ run = "running"
    BY <1>2, <1>8 DEF ResetBlocks
  <2>3. Len(blockLog) <= Len(blockLog)
    BY <1>3
  <2>4. blocks' \in BlockState
    <3>1. << >> \in Seq(Nat)
      BY EmptySeq
    <3>2. blocks' = WindowReset(blocks)
      BY <1>8 DEF ResetBlocks
    <3>. QED BY <3>1, <3>2, <1>2 DEF WindowReset, BlockState
  <2>. QED BY <2>1, <2>2, <2>3, <2>4, <1>1, <1>2, <1>8 DEF ResetBlocks, Recorded, collectorVars
<1>9. CASE LogFinalStats
  BY <1>1, <1>2, <1>9 DEF LogFinalStats, Recorded, collectorVars, history
<1>10. CASE Quiet
  <2>1. now' \in Nat /\ now <= now' /\ now' > 0
    BY <1>1, <1>10 DEF Quiet
  <2>2. InOrder(log, now') /\ InOrder(blockLog, now')
    BY <2>1, <1>1, <1>2, <1>4, OrderLasts
  <2>3. run' = "running" \/ logger'.pc \in {"off", "wait"}
    BY <1>1, <1>2, <1>10 DEF Quiet
  <2>. QED BY <2>1, <2>2, <2>3, <1>1, <1>2, <1>10 DEF Quiet, Recorded
<1>. QED BY <1>5, <1>6, <1>7, <1>8, <1>9, <1>10, Steps

\* Entries that came too late for a window are counted one by one.
LEMMA LateCounts ==
  ASSUME NEW S, NEW entries \in Seq(S),
         NEW r \in Seq(S), Len(r) = Len(entries) + 1, \A i \in 1 .. Len(entries) : r[i] = entries[i]
  PROVE  /\ Late(entries) \in Nat
         /\ r[Len(entries) + 1].late => Late(r) = Late(entries) + 1
         /\ ~r[Len(entries) + 1].late => Late(r) = Late(entries)
<1>1. PICK n \in Nat : n = Len(entries)
  BY LenProperties
<1>2. DOMAIN entries = 1 .. n /\ DOMAIN r = 1 .. n + 1
  BY <1>1, LenProperties
<1>3. PICK L : L = {i \in DOMAIN entries : entries[i].late}
  OBVIOUS
<1>4. IsFiniteSet(L) /\ Cardinality(L) \in Nat
  <2>1. IsFiniteSet(1 .. n)
    BY FS_Interval
  <2>2. L \in SUBSET (1 .. n)
    BY <1>2, <1>3
  <2>. QED BY <2>1, <2>2, FS_Subset, FS_CardinalityType
<1>5. \A i : i \in 1 .. n + 1 <=> i \in 1 .. n \/ i = n + 1
  OBVIOUS
<1>6. \A i \in 1 .. n : r[i] = entries[i]
  BY <1>1
<1>7. r[n + 1].late => {i \in DOMAIN r : r[i].late} = L \cup {n + 1}
  BY <1>2, <1>3, <1>5, <1>6, Zenon
<1>8. ~r[n + 1].late => {i \in DOMAIN r : r[i].late} = L
  BY <1>2, <1>3, <1>5, <1>6, Zenon
<1>9. Cardinality(L \cup {n + 1}) = Cardinality(L) + 1
  <2>1. ~(n + 1 <= n)
    OBVIOUS
  <2>2. n + 1 \notin L
    BY <2>1, <1>2, <1>3
  <2>. QED BY <2>2, <1>4, FS_AddElement
<1>. QED BY <1>1, <1>3, <1>4, <1>7, <1>8, <1>9 DEF Late

\* A history that is not full has everything.
LEMMA EndLength ==
  ASSUME NEW list, NEW count \in Nat, NEW f, IsEnd(list, count, f), count <= BlockHistory
  PROVE  Len(list) = count
<1>1. BlockHistory \in Nat /\ Len(list) = Least(count, BlockHistory)
  BY BlockHistoryAssumption DEF IsEnd
<1>. QED BY <1>1 DEF Least

\* Each window's report and reset move what the logger has read from the window
\* to what is reported, and what came between them counts as late.
LEMMA PartitionStep ==
  ASSUME TypeOK, Recorded, Recorded', Partition, KeptBlocks, KeptBlocks', [Next]_vars
  PROVE  Partition'
<1>1. /\ plan \in [txs : Nat, heads : Nat, polls : Nat, tracked : BOOLEAN, prewarm : BOOLEAN]
      /\ logger \in [pc : {"off", "wait", "reset", "resetBlocks"}, txs : Nat, blocks : Nat]
      /\ windowStats \in [txCount : Nat, sum : Nat, max : Nat, min : Nat, cumulativeMax : Nat]
      /\ reported \in [txs : Nat, blocks : Nat, opened : Nat, blocksOpened : Nat]
      /\ log \in Seq(SendRecord) /\ blockLog \in Seq(HeadRecord)
  BY BoundAssumption DEF TypeOK, Recorded
<1>2. /\ Len(log) \in Nat /\ Len(blockLog) \in Nat /\ windowStats.txCount \in Nat
      /\ reported.txs \in Nat /\ reported.blocks \in Nat /\ reported.blocksOpened \in Nat
      /\ logger.txs \in Nat /\ logger.blocks \in Nat /\ plan.heads \in Nat
  BY <1>1, LenProperties
<1>3. Late(log) \in Nat /\ Late(blockLog) \in Nat
  <2>1. ASSUME NEW S, NEW entries \in Seq(S) PROVE Late(entries) \in Nat
    <3>1. DOMAIN entries = 1 .. Len(entries) /\ Len(entries) \in Nat
      BY LenProperties
    <3>2. IsFiniteSet(1 .. Len(entries))
      BY <3>1, FS_Interval
    <3>3. {i \in DOMAIN entries : entries[i].late} \in SUBSET (1 .. Len(entries))
      BY <3>1
    <3>4. IsFiniteSet({i \in DOMAIN entries : entries[i].late})
      BY <3>2, <3>3, FS_Subset
    <3>. QED BY <3>4, FS_CardinalityType DEF Late
  <2>. QED BY <2>1, <1>1
<1>4. Len(blocks.windowGasUsed) \in Nat
  <2>1. blocks.windowGasUsed \in Seq(Nat)
    BY DEF Recorded, BlockState
  <2>. QED BY <2>1, LenProperties
<1>5. ASSUME NEW s \in Names, NEW l \in Latency, NEW ok \in BOOLEAN, RecordTransaction(s, l, ok)
      PROVE  Partition'
  <2>1. /\ log' \in Seq(SendRecord) /\ Len(log') = Len(log) + 1
        /\ \A i \in 1 .. Len(log) : log'[i] = log[i]
    BY <1>5, SendRecorded
  <2>2. log'[Len(log) + 1].late <=> logger.pc = "reset"
    BY <1>5, SendRecorded
  <2>3. /\ logger.pc = "reset" => Late(log') = Late(log) + 1
        /\ logger.pc # "reset" => Late(log') = Late(log)
    <3>1. /\ log'[Len(log) + 1].late => Late(log') = Late(log) + 1
          /\ ~log'[Len(log) + 1].late => Late(log') = Late(log)
      BY ONLY <2>1, <1>1, LateCounts
    <3>. QED BY <3>1, <2>2
  <2>4. windowStats'.txCount = windowStats.txCount + 1
    BY <1>1, <1>5 DEF RecordTransaction, Widened
  <2>5. UNCHANGED <<plan, blocks, logger, blockLog, reported>>
    BY <1>5 DEF RecordTransaction
  <2>6. ASSUME logger.pc # "reset"
        PROVE  Len(log') = reported.txs + windowStats'.txCount + Late(log')
    <3>1. Len(log) = reported.txs + windowStats.txCount + Late(log) /\ Late(log') = Late(log)
      BY <2>3, <2>6 DEF Partition
    <3>. QED BY <3>1, <2>1, <2>4, <1>2, <1>3
  <2>7. ASSUME logger.pc = "reset"
        PROVE  Len(log') = reported.txs + logger.txs + Late(log')
    <3>1. Len(log) = reported.txs + logger.txs + Late(log) /\ Late(log') = Late(log) + 1
      BY <2>3, <2>7 DEF Partition
    <3>2. Len(log') = Len(log) + 1
      BY <2>1
    <3>3. PICK c \in Nat : c = reported.txs + logger.txs
      <4>1. reported.txs \in Nat /\ logger.txs \in Nat
        BY <1>2
      <4>. QED BY <4>1
    <3>4. Len(log) = c + Late(log) /\ Len(log) \in Nat /\ Late(log) \in Nat
      BY <3>1, <3>3, <1>2, <1>3
    <3>5. Len(log') = c + Late(log')
      BY <3>1, <3>2, <3>4
    <3>. QED BY <3>3, <3>5
  <2>. QED BY <2>5, <2>6, <2>7 DEF Partition
<1>6. ASSUME NEW header \in Header, RecordBlock(header)
      PROVE  Partition'
  <2>1. /\ blockLog' \in Seq(HeadRecord) /\ Len(blockLog') = Len(blockLog) + 1
        /\ \A i \in 1 .. Len(blockLog) : blockLog'[i] = blockLog[i]
    BY <1>6, HeadRecorded
  <2>2. blockLog'[Len(blockLog) + 1].late <=> logger.pc \in {"reset", "resetBlocks"}
    BY <1>6, HeadRecorded
  <2>3. /\ logger.pc \in {"reset", "resetBlocks"} => Late(blockLog') = Late(blockLog) + 1
        /\ logger.pc \notin {"reset", "resetBlocks"} => Late(blockLog') = Late(blockLog)
    <3>1. /\ blockLog'[Len(blockLog) + 1].late => Late(blockLog') = Late(blockLog) + 1
          /\ ~blockLog'[Len(blockLog) + 1].late => Late(blockLog') = Late(blockLog)
      BY ONLY <2>1, <1>1, LateCounts
    <3>. QED BY <3>1, <2>2
  <2>4. UNCHANGED <<plan, windowStats, logger, log, reported>>
    BY <1>6 DEF RecordBlock, collectorVars
  <2>5. ASSUME plan.heads <= BlockHistory
        PROVE  Len(blocks'.windowGasUsed) = Len(blocks.windowGasUsed) + 1
    <3>1. PICK o \in Nat : o = reported.blocksOpened
      BY <1>2
    <3>2. PICK m \in Nat : m = Len(blockLog)
      BY <1>2
    <3>3. PICK h \in Nat : h = BlockHistory
      BY BlockHistoryAssumption
    <3>4. o <= m /\ m + 1 <= h
      <4>1. Len(blockLog') <= plan'.heads /\ reported.blocksOpened <= Len(blockLog)
        BY DEF Recorded
      <4>. QED BY <4>1, <3>1, <3>2, <3>3, <2>1, <2>4, <2>5, <1>2
    <3>5. IsEnd(blocks.windowGasUsed, m - o, Field("gas", blockLog))
      BY <3>1, <3>2 DEF KeptBlocks
    <3>6. IsEnd(blocks'.windowGasUsed, (m + 1) - o, Field("gas", blockLog'))
      BY <3>1, <3>2, <2>1, <2>4 DEF KeptBlocks
    <3>7. m - o \in Nat /\ m - o <= h /\ (m + 1) - o \in Nat /\ (m + 1) - o <= h
          /\ (m + 1) - o = (m - o) + 1
      BY <3>4
    <3>8. Len(blocks.windowGasUsed) = m - o
      BY <3>3, <3>5, <3>7, EndLength
    <3>9. Len(blocks'.windowGasUsed) = (m + 1) - o
      BY <3>3, <3>6, <3>7, EndLength
    <3>. QED BY <3>7, <3>8, <3>9
  <2>6. ASSUME plan.heads <= BlockHistory, logger.pc \in {"off", "wait"}
        PROVE  Len(blockLog') = reported.blocks + Len(blocks'.windowGasUsed) + Late(blockLog')
    <3>1. Len(blockLog) = reported.blocks + Len(blocks.windowGasUsed) + Late(blockLog)
      BY <2>6 DEF Partition
    <3>2. Late(blockLog') = Late(blockLog)
      <4>1. logger.pc \notin {"reset", "resetBlocks"}
        BY <2>6
      <4>. QED BY <4>1, <2>3
    <3>3. /\ Len(blockLog') = Len(blockLog) + 1
          /\ Len(blocks'.windowGasUsed) = Len(blocks.windowGasUsed) + 1
      BY <2>1, <2>5, <2>6
    <3>4. PICK b \in Nat : b = reported.blocks
      BY <1>2
    <3>5. PICK c \in Nat : c = Len(blocks.windowGasUsed)
      BY <1>4
    <3>6. PICK d \in Nat : d = Late(blockLog)
      BY <1>3
    <3>7. Len(blockLog) = b + c + d
      BY <3>1, <3>4, <3>5, <3>6
    <3>8. Len(blockLog') = b + (c + 1) + d
      BY <3>3, <3>7
    <3>. QED BY <3>2, <3>3, <3>4, <3>5, <3>6, <3>8
  <2>7. ASSUME plan.heads <= BlockHistory, logger.pc \in {"reset", "resetBlocks"}
        PROVE  Len(blockLog') = reported.blocks + logger.blocks + Late(blockLog')
    <3>1. Len(blockLog) = reported.blocks + logger.blocks + Late(blockLog)
      BY <2>7 DEF Partition
    <3>2. Late(blockLog') = Late(blockLog) + 1 /\ Len(blockLog') = Len(blockLog) + 1
      BY <2>1, <2>3, <2>7
    <3>3. PICK b \in Nat : b = reported.blocks
      BY <1>2
    <3>4. PICK c \in Nat : c = logger.blocks
      BY <1>2
    <3>5. PICK d \in Nat : d = Late(blockLog)
      BY <1>3
    <3>6. Len(blockLog') = (b + c + d) + 1 /\ Late(blockLog') = d + 1
      BY <3>1, <3>2, <3>3, <3>4, <3>5
    <3>7. (b + c + d) + 1 = b + c + (d + 1)
      OBVIOUS
    <3>. QED BY <3>3, <3>4, <3>6, <3>7
  <2>. QED BY <2>4, <2>6, <2>7 DEF Partition
<1>7. CASE ResetWindowStats
  <2>1. /\ logger.pc = "reset" /\ logger'.pc = IF plan.tracked THEN "resetBlocks" ELSE "wait"
        /\ logger'.blocks = logger.blocks
    BY <1>1, <1>7 DEF ResetWindowStats
  <2>2. UNCHANGED <<plan, log, blockLog, blocks>>
    BY <1>7 DEF ResetWindowStats
  <2>3. windowStats'.txCount = 0
    BY <1>7 DEF ResetWindowStats, EmptyWindow
  <2>4. reported'.txs = reported.txs + logger.txs /\ reported'.blocks = reported.blocks
    BY <1>1, <1>7 DEF ResetWindowStats
  <2>5. Len(log) = reported'.txs + windowStats'.txCount + Late(log)
    BY <2>1, <2>3, <2>4, <1>2, <1>3 DEF Partition
  <2>6. ASSUME plan.heads <= BlockHistory
        PROVE  Len(blockLog) = reported.blocks + logger.blocks + Late(blockLog)
    BY <2>1, <2>6 DEF Partition
  <2>7. ASSUME plan.heads <= BlockHistory, ~plan.tracked
        PROVE  Len(blockLog) = reported.blocks + Len(blocks.windowGasUsed) + Late(blockLog)
    <3>1. blockLog = <<>>
      BY <2>7 DEF Recorded
    <3>2. Len(blockLog) = 0
      BY <3>1
    <3>3. reported.blocks = 0 /\ Late(blockLog) = 0
      BY <3>2, <2>6, <2>7, <1>2, <1>3
    <3>4. Len(blockLog) - reported.blocksOpened = 0
      BY <3>2, <1>2 DEF Recorded
    <3>5. IsEnd(blocks.windowGasUsed, 0, Field("gas", blockLog))
      BY <3>4 DEF KeptBlocks
    <3>6. 0 <= BlockHistory
      BY BlockHistoryAssumption
    <3>7. Len(blocks.windowGasUsed) = 0
      BY <3>5, <3>6, EndLength
    <3>. QED BY <3>2, <3>3, <3>7
  <2>. QED BY <2>1, <2>2, <2>4, <2>5, <2>6, <2>7 DEF Partition
<1>8. CASE ResetBlocks
  <2>1. logger.pc = "resetBlocks" /\ logger'.pc = "wait"
    BY <1>1, <1>8 DEF ResetBlocks
  <2>2. UNCHANGED <<plan, log, blockLog, windowStats>>
    BY <1>8 DEF ResetBlocks, collectorVars
  <2>3. Len(blocks'.windowGasUsed) = 0
    <3>1. blocks' = WindowReset(blocks) /\ blocks \in BlockState
      BY <1>8 DEF ResetBlocks, Recorded
    <3>. QED BY <3>1 DEF WindowReset, BlockState
  <2>4. reported'.txs = reported.txs /\ reported'.blocks = reported.blocks + logger.blocks
    BY <1>1, <1>8 DEF ResetBlocks
  <2>5. Len(log) = reported.txs + windowStats.txCount + Late(log)
    BY <2>1 DEF Partition
  <2>6. ASSUME plan.heads <= BlockHistory
        PROVE  Len(blockLog) = reported'.blocks + Len(blocks'.windowGasUsed) + Late(blockLog)
    <3>1. Len(blockLog) = reported.blocks + logger.blocks + Late(blockLog)
      BY <2>1, <2>6 DEF Partition
    <3>. QED BY <3>1, <2>3, <2>4, <1>2, <1>3
  <2>. QED BY <2>1, <2>2, <2>4, <2>5, <2>6 DEF Partition
<1>9. CASE LogFinalStats
  BY <1>9 DEF LogFinalStats, Partition, collectorVars, history
<1>10. CASE Quiet
  <2>1. UNCHANGED <<plan, log, blockLog, windowStats, reported, blocks>>
    BY <1>10 DEF Quiet
  <2>2. CASE logger' = logger
    BY <2>1, <2>2 DEF Partition
  <2>3. CASE logger.pc = "off" /\ logger' = [logger EXCEPT !.pc = "wait"]
    <3>1. logger'.pc = "wait"
      BY <2>3, <1>1
    <3>. QED BY <3>1, <2>1, <2>3 DEF Partition
  <2>4. CASE /\ logger.pc = "wait"
             /\ logger' = [pc |-> "reset", txs |-> windowStats.txCount,
                           blocks |-> Len(blocks.windowGasUsed)]
    <3>1. logger'.pc = "reset" /\ logger'.txs = windowStats.txCount
          /\ logger'.blocks = Len(blocks.windowGasUsed)
      BY <2>4
    <3>. QED BY <3>1, <2>1, <2>4 DEF Partition
  <2>. QED BY <2>2, <2>3, <2>4, <1>10 DEF Quiet
<1>. QED BY <1>5, <1>6, <1>7, <1>8, <1>9, <1>10, Steps

-----------------------------------------------------------------------------
(* The open window.                                                        *)

\* r is the n sends and a next one of latency l.
Longer(r, sends, n, l) ==
  /\ n = Len(sends) /\ Len(r) = n + 1 /\ r[n + 1].latency = l
  /\ \A i \in 1 .. n : r[i] = sends[i] /\ sends[i].latency \in Nat /\ sends[i].latency > 0

\* The higher of the highest and the next one is the highest.
LEMMA HighestNext ==
  ASSUME NEW sends, NEW n \in Nat, NEW l \in Nat, NEW r, Longer(r, sends, n, l),
         NEW o \in Nat, o <= n, NEW v \in Nat, (o = n /\ v = 0) \/ Highest(v, sends, o)
  PROVE  Highest(Greatest(v, l), r, o)
<1>1. Len(sends) = n /\ Len(r) = n + 1 /\ r[n + 1].latency = l
  BY DEF Longer
<1>2. \A i \in 1 .. n : r[i] = sends[i] /\ sends[i].latency \in Nat /\ sends[i].latency > 0
  BY DEF Longer
<1>3. \A i \in o + 1 .. n + 1 : (i \in o + 1 .. n /\ i \in 1 .. n) \/ i = n + 1
  OBVIOUS
<1>4. n + 1 \in o + 1 .. n + 1
  OBVIOUS
<1>5. CASE o = n /\ v = 0
  <2>1. Greatest(v, l) = l
    BY <1>5 DEF Greatest
  <2>2. \A i \in o + 1 .. n + 1 : i = n + 1
    BY <1>5
  <2>. QED BY <2>1, <2>2, <1>4, <1>1 DEF Highest
<1>6. CASE Highest(v, sends, o)
  <2>1. PICK i \in o + 1 .. n : sends[i].latency = v
    BY <1>6, <1>1 DEF Highest
  <2>2. i \in o + 1 .. n + 1 /\ i \in 1 .. n
    OBVIOUS
  <2>3. r[i].latency = v
    BY <2>1, <2>2, <1>2
  <2>4. \E j \in o + 1 .. n + 1 : r[j].latency = Greatest(v, l)
    BY <2>2, <2>3, <1>4, <1>1 DEF Greatest
  <2>5. ASSUME NEW j \in o + 1 .. n + 1 PROVE r[j].latency <= Greatest(v, l)
    <3>1. CASE j \in o + 1 .. n /\ j \in 1 .. n
      <4>1. r[j].latency <= v /\ r[j].latency \in Nat
        BY <3>1, <1>6, <1>2, <1>1 DEF Highest
      <4>. QED BY <4>1 DEF Greatest
    <3>2. CASE j = n + 1
      BY <3>2, <1>1 DEF Greatest
    <3>. QED BY <1>3, <3>1, <3>2
  <2>. QED BY <2>4, <2>5, <1>1 DEF Highest
<1>. QED BY <1>5, <1>6

\* The lower of the lowest and the next one is the lowest; 0 stands for none.
LEMMA LowestNext ==
  ASSUME NEW sends, NEW n \in Nat, NEW l \in Nat, NEW r, Longer(r, sends, n, l),
         NEW o \in Nat, o <= n, NEW v \in Nat, (o = n /\ v = 0) \/ Lowest(v, sends, o),
         NEW w, v = 0 => w = l, v # 0 => w = Least(v, l)
  PROVE  Lowest(w, r, o)
<1>1. Len(sends) = n /\ Len(r) = n + 1 /\ r[n + 1].latency = l
  BY DEF Longer
<1>2. \A i \in 1 .. n : r[i] = sends[i] /\ sends[i].latency \in Nat /\ sends[i].latency > 0
  BY DEF Longer
<1>3. \A i \in o + 1 .. n + 1 : (i \in o + 1 .. n /\ i \in 1 .. n) \/ i = n + 1
  OBVIOUS
<1>4. n + 1 \in o + 1 .. n + 1
  OBVIOUS
<1>5. CASE o = n /\ v = 0
  <2>1. w = l
    BY <1>5
  <2>2. \A i \in o + 1 .. n + 1 : i = n + 1
    BY <1>5
  <2>. QED BY <2>1, <2>2, <1>4, <1>1 DEF Lowest
<1>6. CASE Lowest(v, sends, o)
  <2>1. PICK i \in o + 1 .. n : sends[i].latency = v
    BY <1>6, <1>1 DEF Lowest
  <2>2. i \in o + 1 .. n + 1 /\ i \in 1 .. n
    OBVIOUS
  <2>3. r[i].latency = v /\ v > 0
    BY <2>1, <2>2, <1>2
  <2>4. w \in {v, l} /\ w <= v /\ w <= l /\ w \in Nat
    BY <2>3 DEF Least
  <2>5. \E j \in o + 1 .. n + 1 : r[j].latency = w
    BY <2>2, <2>3, <2>4, <1>4, <1>1
  <2>6. ASSUME NEW j \in o + 1 .. n + 1 PROVE r[j].latency >= w
    <3>1. CASE j \in o + 1 .. n /\ j \in 1 .. n
      <4>1. r[j].latency >= v /\ r[j].latency \in Nat
        BY <3>1, <1>6, <1>2, <1>1 DEF Lowest
      <4>. QED BY <4>1, <2>4
    <3>2. CASE j = n + 1
      BY <3>2, <2>4, <1>1
    <3>. QED BY <1>3, <3>1, <3>2
  <2>. QED BY <2>5, <2>6, <1>1 DEF Lowest
<1>. QED BY <1>5, <1>6

\* A send widens the open window to itself, a reset opens one after the last send,
\* and no other step touches it.
LEMMA OpenWindowStep ==
  ASSUME TypeOK, Recorded, OpenWindow, [Next]_vars
  PROVE  OpenWindow'
<1>1. /\ windowStats \in [txCount : Nat, sum : Nat, max : Nat, min : Nat, cumulativeMax : Nat]
      /\ reported \in [txs : Nat, blocks : Nat, opened : Nat, blocksOpened : Nat]
      /\ log \in Seq(SendRecord) /\ reported.opened <= Len(log) /\ Latency \subseteq Nat \ {0}
  BY LatencyAssumption DEF TypeOK, Recorded
<1>2. PICK n \in Nat : n = Len(log)
  BY <1>1, LenProperties
<1>3. PICK o \in Nat : o = reported.opened
  BY <1>1
<1>4. o <= n /\ DOMAIN log = 1 .. n
  BY <1>1, <1>2, <1>3, LenProperties
<1>5. \A i \in 1 .. n : log[i].latency \in Nat /\ log[i].latency > 0
  <2>1. \A i \in 1 .. n : log[i] \in SendRecord
    BY <1>1, <1>2, ElementOfSeq
  <2>2. \A l \in Latency : l \in Nat /\ l > 0
    BY <1>1
  <2>. QED BY <2>1, <2>2 DEF SendRecord
<1>6. n = 0 <=> log = <<>>
  BY <1>1, <1>2, EmptySeq
<1>7. ASSUME NEW s \in Names, NEW l \in Latency, NEW ok \in BOOLEAN, RecordTransaction(s, l, ok)
      PROVE  OpenWindow'
  <2>1. /\ log' \in Seq(SendRecord) /\ Len(log') = n + 1
        /\ \A i \in 1 .. n : log'[i] = log[i]
        /\ log'[n + 1].latency = l
    BY <1>2, <1>7, SendRecorded
  <2>2. l \in Nat /\ l > 0
    BY <1>1
  <2>3. /\ windowStats'.txCount = windowStats.txCount + 1
        /\ windowStats'.sum = windowStats.sum + l
        /\ windowStats'.max = Greatest(windowStats.max, l)
        /\ windowStats'.min = (IF windowStats.min = 0 THEN l ELSE Least(windowStats.min, l))
        /\ windowStats'.cumulativeMax = Greatest(windowStats.cumulativeMax, l)
    BY <1>1, <1>7 DEF RecordTransaction, Widened
  <2>4. reported' = reported
    BY <1>7 DEF RecordTransaction
  <2>5. windowStats'.txCount = Len(log') - o
    <3>1. windowStats.txCount = n - o
      BY <1>2, <1>3 DEF OpenWindow
    <3>. QED BY <3>1, <2>1, <2>3, <1>4
  <2>6. windowStats'.sum = SumFunctionOnSet(Field("latency", log'), o + 1 .. n + 1)
    <3>1. PICK f : f = Field("latency", log)
      OBVIOUS
    <3>2. PICK g : g = Field("latency", log')
      OBVIOUS
    <3>3. DOMAIN log' = 1 .. n + 1
      BY <2>1, LenProperties
    <3>4. /\ \A i \in 1 .. n : f[i] = log[i].latency
          /\ \A i \in 1 .. n + 1 : g[i] = log'[i].latency
      BY <3>1, <3>2, <3>3, <1>4 DEF Field
    <3>5. PICK T : T = o + 1 .. n
      OBVIOUS
    <3>6. IsFiniteSet(T) /\ T \cup {n + 1} = o + 1 .. n + 1 /\ n + 1 \notin T
      <4>1. IsFiniteSet(T)
        BY <3>5, FS_Interval
      <4>2. T \cup {n + 1} = o + 1 .. n + 1
        BY <3>5, <1>4
      <4>3. n + 1 \notin T
        BY <3>5
      <4>. QED BY <4>1, <4>2, <4>3
    <3>7. \A y \in T : y \in 1 .. n /\ y \in 1 .. n + 1
      BY <3>5
    <3>8. n + 1 \in 1 .. n + 1
      OBVIOUS
    <3>9. (\A y \in T : f[y] \in Nat) /\ (\A y \in T : g[y] = f[y]) /\ g[n + 1] = l
      BY <3>4, <3>7, <3>8, <2>1, <1>5
    <3>10. SumFunctionOnSet(g, T \cup {n + 1}) = SumFunctionOnSet(f, T) + g[n + 1]
      BY <3>6, <3>9, <2>2, SumAdds
    <3>11. windowStats.sum = SumFunctionOnSet(f, T)
      BY <3>1, <3>5, <1>2, <1>3 DEF OpenWindow
    <3>. QED BY <3>2, <3>6, <3>9, <3>10, <3>11, <2>3
  <2>7. Longer(log', log, n, l)
    BY <2>1, <1>2, <1>5 DEF Longer
  <2>8. Highest(windowStats'.max, log', o) /\ Lowest(windowStats'.min, log', o)
    <3>1. windowStats.max \in Nat /\ windowStats.min \in Nat
      BY <1>1
    <3>2. /\ (o = n /\ windowStats.max = 0) \/ Highest(windowStats.max, log, o)
          /\ (o = n /\ windowStats.min = 0) \/ Lowest(windowStats.min, log, o)
      <4>1. o = n => windowStats.max = 0 /\ windowStats.min = 0
        BY <1>2, <1>3 DEF OpenWindow
      <4>2. o < n => Highest(windowStats.max, log, o) /\ Lowest(windowStats.min, log, o)
        BY <1>2, <1>3 DEF OpenWindow
      <4>. QED BY <4>1, <4>2, <1>4
    <3>3. Highest(Greatest(windowStats.max, l), log', o)
      BY ONLY <3>1, <3>2, <2>2, <2>7, <1>4, HighestNext
    <3>4. PICK v \in Nat : v = windowStats.min
      BY <3>1
    <3>5. PICK w : w = windowStats'.min
      OBVIOUS
    <3>6. (v = 0 => w = l) /\ (v # 0 => w = Least(v, l))
      BY <3>4, <3>5, <2>3
    <3>7. (o = n /\ v = 0) \/ Lowest(v, log, o)
      BY <3>2, <3>4
    <3>8. Lowest(w, log', o)
      BY ONLY <3>6, <3>7, <2>2, <2>7, <1>4, LowestNext
    <3>. QED BY <3>3, <3>5, <3>8, <2>3
  <2>9. Highest(windowStats'.cumulativeMax, log', 0)
    <3>1. windowStats.cumulativeMax \in Nat
      BY <1>1
    <3>2. (0 = n /\ windowStats.cumulativeMax = 0) \/ Highest(windowStats.cumulativeMax, log, 0)
      BY <1>6 DEF OpenWindow
    <3>3. 0 \in Nat /\ 0 <= n
      OBVIOUS
    <3>4. Highest(Greatest(windowStats.cumulativeMax, l), log', 0)
      BY ONLY <3>1, <3>2, <3>3, <2>2, <2>7, HighestNext
    <3>. QED BY <3>4, <2>3
  <2>10. log' # <<>> /\ ~(o = n + 1)
    BY <2>1, <1>4
  <2>. QED BY <2>1, <2>4, <2>5, <2>6, <2>8, <2>9, <2>10, <1>3 DEF OpenWindow
<1>8. CASE ResetWindowStats
  <2>1. log' = log /\ windowStats' = EmptyWindow(windowStats.cumulativeMax)
    BY <1>8 DEF ResetWindowStats
  <2>2. /\ windowStats'.txCount = 0 /\ windowStats'.sum = 0 /\ windowStats'.max = 0
        /\ windowStats'.min = 0 /\ windowStats'.cumulativeMax = windowStats.cumulativeMax
    BY <2>1 DEF EmptyWindow
  <2>3. reported'.opened = n
    BY <1>1, <1>2, <1>8 DEF ResetWindowStats
  <2>4. SumFunctionOnSet(Field("latency", log), n + 1 .. n) = 0
    <3>1. PICK f : f = Field("latency", log)
      OBVIOUS
    <3>2. n + 1 .. n = {} /\ IsFiniteSet({})
      BY FS_EmptySet
    <3>3. \A x \in {} : f[x] \in Nat
      OBVIOUS
    <3>4. SumFunctionOnSet(f, {}) = 0
      BY <3>2, <3>3, SumOfAll
    <3>. QED BY <3>1, <3>2, <3>4
  <2>5. n - n = 0 /\ ~(n < n)
    OBVIOUS
  <2>. QED BY <2>1, <2>2, <2>3, <2>4, <2>5, <1>2 DEF OpenWindow
<1>9. ASSUME UNCHANGED <<log, windowStats>>, reported'.opened = reported.opened
      PROVE  OpenWindow'
  BY <1>9 DEF OpenWindow
<1>10. ASSUME NEW header \in Header, RecordBlock(header) PROVE OpenWindow'
  BY <1>9, <1>10 DEF RecordBlock, collectorVars
<1>11. CASE ResetBlocks
  BY <1>1, <1>9, <1>11 DEF ResetBlocks, collectorVars
<1>12. CASE LogFinalStats
  BY <1>9, <1>12 DEF LogFinalStats, collectorVars, history
<1>13. CASE Quiet
  BY <1>9, <1>13 DEF Quiet
<1>. QED BY <1>7, <1>8, <1>10, <1>11, <1>12, <1>13, Steps

-----------------------------------------------------------------------------
(* The rates.                                                              *)

\* recordTPS cuts the list before the first timestamp in the window.
LEMMA TrimmedIsEnd ==
  ASSUME NEW ts \in Seq(Nat), NEW n \in Nat, n = Len(ts), n > 0, InWindow(ts[n]),
         NEW k, k = Trimmed(ts)
  PROVE  \E m \in 1 .. n :
           /\ k \in Seq(Nat) /\ Len(k) = n - m + 1
           /\ \A i \in 1 .. n - m + 1 : k[i] = ts[m + i - 1]
           /\ InWindow(ts[m]) /\ \A i \in 1 .. n : i < m => ~InWindow(ts[i])
<1> DEFINE S == {i \in DOMAIN ts : InWindow(ts[i])}
<1>1. DOMAIN ts = 1 .. n /\ \A i \in 1 .. n : ts[i] \in Nat
  BY LenProperties, ElementOfSeq
<1>2. S \subseteq Nat /\ S # {}
  <2>1. n \in 1 .. n
    OBVIOUS
  <2>. QED BY <2>1, <1>1
<1>3. \E m \in S : \A x \in S : m <= x
  <2>. HIDE DEF S
  <2>. QED BY <1>2, LeastNumber
<1>4. Min(S) \in S /\ \A x \in S : Min(S) <= x
  <2>. HIDE DEF S
  <2>. QED BY <1>3, Zenon DEF Min
<1>5. PICK m \in S : m = Min(S) /\ \A x \in S : m <= x
  BY <1>4
<1>6. m \in 1 .. n /\ InWindow(ts[m])
  BY <1>1
<1>7. k = SubSeq(ts, m, n)
  BY <1>5 DEF Trimmed
<1>8. /\ k \in Seq(Nat) /\ Len(k) = (IF m <= n THEN n - m + 1 ELSE 0)
      /\ \A i \in 1 .. n - m + 1 : k[i] = ts[m + i - 1]
  <2>1. m \in Int /\ n \in Int /\ \A i \in m .. n : ts[i] \in Nat
    BY <1>1, <1>6
  <2>. QED BY ONLY <2>1, <1>7, SubSeqProperties
<1>9. ASSUME NEW i \in 1 .. n, i < m PROVE ~InWindow(ts[i])
  <2>1. ~(m <= i)
    BY <1>6, <1>9
  <2>2. i \notin S
    <3>. HIDE DEF S
    <3>. QED BY <2>1, <1>5
  <2>. QED BY <2>2, <1>1
<1>10. Len(k) = n - m + 1
  BY <1>6, <1>8
<1>. HIDE DEF S
<1>. QED BY <1>6, <1>8, <1>9, <1>10

\* The sends of the window that ends now are those from its first one on.
LEMMA WindowIsInterval ==
  ASSUME NEW sends, NEW n \in Nat, n = Len(sends), NEW t \in Nat, NEW d \in Nat, d <= n,
         \A i \in 1 .. n : sends[i].at \in Nat,
         \A i, j \in 1 .. n : i <= j => sends[i].at <= sends[j].at,
         \A i \in 1 .. n : i <= d => ~(sends[i].at + TpsWindow > t),
         d < n => sends[d + 1].at + TpsWindow > t
  PROVE  {i \in 1 .. n : sends[i].at + TpsWindow > t} = d + 1 .. n
<1>1. TpsWindow \in Nat
  BY BoundAssumption
<1>2. ASSUME NEW i \in 1 .. n, i \in d + 1 .. n PROVE sends[i].at + TpsWindow > t
  <2>1. d < n /\ d + 1 \in 1 .. n /\ d + 1 <= i
    BY <1>2
  <2>2. sends[d + 1].at <= sends[i].at /\ sends[d + 1].at \in Nat /\ sends[i].at \in Nat
    BY <2>1
  <2>3. sends[d + 1].at + TpsWindow > t
    BY <2>1
  <2>. QED BY <2>2, <2>3, <1>1
<1>3. ASSUME NEW i \in 1 .. n, i \notin d + 1 .. n PROVE ~(sends[i].at + TpsWindow > t)
  <2>1. i <= d
    BY <1>3
  <2>. QED BY <2>1
<1>4. \A i \in d + 1 .. n : i \in 1 .. n
  OBVIOUS
<1>. QED BY <1>2, <1>3, <1>4

\* The timestamps stay the end of the log: what a send drops has left the sliding
\* window for good, for the clock only goes on.
LEMMA SendRatesStep ==
  ASSUME TypeOK, Recorded, Recorded', SendRates, [Next]_vars
  PROVE  SendRates'
<1>1. /\ log \in Seq(SendRecord) /\ timestamps \in Seq(Nat) /\ now \in Nat /\ maxTps \in Nat
      /\ InOrder(log, now) /\ TpsWindow \in Nat /\ TpsWindow > 0
  BY BoundAssumption DEF TypeOK, Recorded
<1>2. PICK n \in Nat : n = Len(log)
  BY <1>1, LenProperties
<1>3. PICK k \in Nat : k = Len(timestamps)
  BY <1>1, LenProperties
<1>4. PICK d \in Nat : d = Dropped /\ d = n - k
  BY <1>2, <1>3 DEF SendRates, Dropped
<1>5. /\ \A i \in 1 .. k : timestamps[i] = log[d + i].at
      /\ \A i \in 1 .. d : log[i].at + TpsWindow <= now
  BY <1>3, <1>4 DEF SendRates
<1>6. \A i \in 1 .. n : log[i].at \in Nat
  <2>1. \A i \in 1 .. n : log[i] \in SendRecord
    BY <1>1, <1>2, ElementOfSeq
  <2>. QED BY <2>1 DEF SendRecord
<1>7. ASSUME NEW s \in Names, NEW l \in Latency, NEW ok \in BOOLEAN, RecordTransaction(s, l, ok)
      PROVE  SendRates'
  <2>1. /\ log' \in Seq(SendRecord) /\ Len(log') = n + 1
        /\ \A i \in 1 .. n : log'[i] = log[i]
        /\ log'[n + 1].at = now
    BY <1>2, <1>7, SendRecorded
  <2>2. /\ now' = now /\ timestamps' = Trimmed(Append(timestamps, now))
        /\ maxTps' = Greatest(maxTps, Len(timestamps'))
    BY <1>7 DEF RecordTransaction
  <2>3. PICK u : u = Append(timestamps, now)
    OBVIOUS
  <2>4. u \in Seq(Nat) /\ Len(u) = k + 1 /\ u[k + 1] = now /\ \A i \in 1 .. k : u[i] = timestamps[i]
    BY <2>3, <1>1, <1>3, AppendProperties
  <2>5. ASSUME NEW i \in 1 .. k + 1 PROVE u[i] = log'[d + i].at /\ d + i \in 1 .. n + 1
    <3>1. CASE i \in 1 .. k
      <4>1. d + i \in 1 .. n
        BY <3>1, <1>4
      <4>2. d + i \in 1 .. n + 1
        BY <4>1
      <4>3. u[i] = log[d + i].at
        BY <3>1, <2>4, <1>5
      <4>. QED BY <4>1, <4>2, <4>3, <2>1
    <3>2. CASE i = k + 1
      BY <3>2, <2>1, <2>4, <1>4
    <3>. QED BY <3>1, <3>2
  <2>6. PICK m \in 1 .. k + 1 :
          /\ timestamps' \in Seq(Nat) /\ Len(timestamps') = (k + 1) - m + 1
          /\ \A i \in 1 .. (k + 1) - m + 1 : (timestamps')[i] = u[m + i - 1]
          /\ InWindow(u[m]) /\ \A i \in 1 .. k + 1 : i < m => ~InWindow(u[i])
    <3>1. InWindow(u[k + 1])
      BY <2>4, <1>1 DEF InWindow
    <3>2. PICK z \in Nat : z = k + 1 /\ z > 0
      OBVIOUS
    <3>3. PICK w : w = timestamps' /\ w = Trimmed(u)
      BY <2>2, <2>3
    <3>4. u \in Seq(Nat) /\ z = Len(u) /\ InWindow(u[z])
      BY <3>1, <3>2, <2>4
    <3>5. \E m \in 1 .. z :
            /\ w \in Seq(Nat) /\ Len(w) = z - m + 1
            /\ \A i \in 1 .. z - m + 1 : w[i] = u[m + i - 1]
            /\ InWindow(u[m]) /\ \A i \in 1 .. z : i < m => ~InWindow(u[i])
      BY ONLY <3>2, <3>3, <3>4, TrimmedIsEnd
    <3>. QED BY <3>2, <3>3, <3>5
  <2>7. PICK e \in Nat : e = d + m - 1
    OBVIOUS
  <2>8. e <= n /\ Len(timestamps') = (n + 1) - e /\ (k + 1) - m + 1 = (n + 1) - e
    <3>1. e <= n /\ (k + 1) - m + 1 = (n + 1) - e
      BY <2>7, <1>4
    <3>. QED BY <3>1, <2>6
  <2>9. Dropped' = e
    <3>1. (n + 1) - ((n + 1) - e) = e
      BY <2>7
    <3>. QED BY <3>1, <2>1, <2>8 DEF Dropped
  <2>10. ASSUME NEW i \in 1 .. Len(timestamps') PROVE (timestamps')[i] = log'[e + i].at
    <3>1. i \in 1 .. (k + 1) - m + 1 /\ m + i - 1 \in 1 .. k + 1 /\ d + (m + i - 1) = e + i
      BY <2>6, <2>7
    <3>. QED BY <3>1, <2>5, <2>6
  <2>11. ASSUME NEW i \in 1 .. n + 1, i <= e PROVE ~(log'[i].at + TpsWindow > now)
    <3>1. CASE i <= d
      <4>1. i \in 1 .. d /\ i \in 1 .. n
        BY <3>1, <1>4
      <4>2. log[i].at + TpsWindow <= now /\ log[i].at \in Nat /\ log'[i] = log[i]
        BY <4>1, <1>5, <1>6, <2>1
      <4>. QED BY <4>2, <1>1
    <3>2. CASE ~(i <= d)
      <4>1. PICK j \in 1 .. k + 1 : j = i - d /\ j < m /\ d + j = i
        BY <3>2, <2>7, <2>11, <1>4
      <4>2. ~InWindow(u[j]) /\ u[j] = log'[i].at
        BY <4>1, <2>5, <2>6
      <4>. QED BY <4>2 DEF InWindow
    <3>. QED BY <3>1, <3>2
  <2>12. /\ \A i \in 1 .. n + 1 : log'[i].at \in Nat
         /\ \A i, j \in 1 .. n + 1 : i <= j => log'[i].at <= log'[j].at
    <3>1. \A i \in 1 .. n + 1 : log'[i] \in SendRecord
      BY <2>1, ElementOfSeq
    <3>2. InOrder(log', now')
      BY DEF Recorded
    <3>. QED BY <3>1, <3>2, <2>1 DEF SendRecord, InOrder
  <2>13. {i \in 1 .. n + 1 : log'[i].at + TpsWindow > now} = e + 1 .. n + 1
    <3>1. log'[e + 1].at + TpsWindow > now
      <4>1. d + m = e + 1
        BY <2>7
      <4>2. u[m] = log'[e + 1].at
        BY <4>1, <2>5
      <4>. QED BY <4>2, <2>6 DEF InWindow
    <3>2. PICK z \in Nat : z = n + 1 /\ e <= z
      BY <2>8
    <3>3. PICK w : w = log'
      OBVIOUS
    <3>4. /\ z = Len(w) /\ \A i \in 1 .. z : w[i].at \in Nat
          /\ \A i, j \in 1 .. z : i <= j => w[i].at <= w[j].at
          /\ \A i \in 1 .. z : i <= e => ~(w[i].at + TpsWindow > now)
          /\ e < z => w[e + 1].at + TpsWindow > now
      BY <3>1, <3>2, <3>3, <2>1, <2>11, <2>12
    <3>5. {i \in 1 .. z : w[i].at + TpsWindow > now} = e + 1 .. z
      <4>1. z \in Nat /\ e \in Nat /\ e <= z /\ now \in Nat
        BY <3>2, <1>1
      <4>. QED BY ONLY <4>1, <3>4, WindowIsInterval
    <3>. QED BY <3>2, <3>3, <3>5
  <2>14. Cardinality({i \in 1 .. n + 1 : log'[i].at + TpsWindow > now}) = Len(timestamps')
    <3>1. Cardinality(e + 1 .. n + 1) = (n + 1) - e
      <4>1. e + 1 \in Int /\ n + 1 \in Int /\ ~(e + 1 > n + 1) /\ (n + 1) - (e + 1) + 1 = (n + 1) - e
        BY <2>8
      <4>2. Cardinality(e + 1 .. n + 1) = (IF e + 1 > n + 1 THEN 0 ELSE (n + 1) - (e + 1) + 1)
        BY <4>1, FS_Interval
      <4>. QED BY <4>1, <4>2
    <3>. QED BY <3>1, <2>8, <2>13
  <2>15. Rate(log[n + 1].at, n + 1)' = Len(timestamps')
    BY <2>1, <2>14 DEF Rate
  <2>16. ASSUME NEW i \in 1 .. n PROVE Rate(log[i].at, i)' = Rate(log[i].at, i)
    <3>1. \A j \in 1 .. i : j \in 1 .. n
      OBVIOUS
    <3>2. {j \in 1 .. i : log'[j].at + TpsWindow > log'[i].at}
            = {j \in 1 .. i : log[j].at + TpsWindow > log[i].at}
      BY <3>1, <2>1
    <3>. QED BY <3>2 DEF Rate
  <2>17. ASSUME NEW i \in 1 .. n PROVE Rate(log[i].at, i) \in Nat
    <3>1. {j \in 1 .. i : log[j].at + TpsWindow > log[i].at} \in SUBSET (1 .. i)
      OBVIOUS
    <3>2. IsFiniteSet(1 .. i)
      BY FS_Interval
    <3>. QED BY <3>1, <3>2, FS_Subset, FS_CardinalityType DEF Rate
  <2>18. PICK x \in Nat : x = Len(timestamps')
    BY <2>6, LenProperties
  <2>19. /\ maxTps' \in {maxTps, x} /\ maxTps <= maxTps' /\ x <= maxTps' /\ maxTps' \in Nat
         /\ maxTps' = maxTps => x <= maxTps
    BY <2>2, <2>18, <1>1 DEF Greatest
  <2>20. ASSUME NEW i \in 1 .. n + 1 PROVE Rate(log[i].at, i)' <= maxTps'
    <3>1. CASE i \in 1 .. n
      <4>1. Rate(log[i].at, i) <= maxTps
        BY <3>1, <1>2 DEF SendRates
      <4>2. PICK y \in Nat : y = Rate(log[i].at, i)
        BY <3>1, <2>17
      <4>3. y <= maxTps'
        BY <4>1, <4>2, <2>19, <1>1
      <4>. QED BY <4>2, <4>3, <3>1, <2>16
    <3>2. CASE i = n + 1
      BY <3>2, <2>15, <2>18, <2>19
    <3>. QED BY <3>1, <3>2
  <2>21. \E i \in 1 .. n + 1 : maxTps' = Rate(log[i].at, i)'
    <3>1. CASE maxTps' = x
      <4>1. n + 1 \in 1 .. n + 1
        OBVIOUS
      <4>. QED BY <3>1, <4>1, <2>15, <2>18
    <3>2. CASE maxTps' = maxTps /\ n # 0
      <4>1. log # <<>>
        BY <3>2, <1>2
      <4>2. PICK i \in 1 .. n : maxTps = Rate(log[i].at, i)
        BY <4>1, <1>2 DEF SendRates
      <4>3. i \in 1 .. n + 1
        OBVIOUS
      <4>. QED BY <3>2, <4>2, <4>3, <2>16
    <3>3. CASE maxTps' = maxTps /\ n = 0
      <4>1. log = <<>>
        BY <3>3, <1>1, <1>2, EmptySeq
      <4>2. maxTps = 0
        BY <4>1 DEF SendRates
      <4>3. maxTps' = x
        BY <3>3, <4>2, <2>19
      <4>. QED BY <4>3, <3>1
    <3>. QED BY <3>1, <3>2, <3>3, <2>19
  <2>22. ASSUME NEW i \in 1 .. e PROVE log'[i].at + TpsWindow <= now
    <3>1. i \in 1 .. n + 1 /\ i <= e
      BY <2>8
    <3>2. log'[i].at \in Nat /\ ~(log'[i].at + TpsWindow > now)
      BY <3>1, <2>11, <2>12
    <3>. QED BY <3>2, <1>1
  <2>23. log' # <<>>
    BY <2>1
  <2>. QED BY <2>1, <2>2, <2>9, <2>10, <2>20, <2>21, <2>22, <2>23 DEF SendRates
<1>8. ASSUME UNCHANGED <<log, timestamps, maxTps>>, now' \in Nat, now <= now'
      PROVE  SendRates'
  <2>1. Dropped' = Dropped /\ \A t, m : Rate(t, m)' = Rate(t, m)
    BY <1>8 DEF Dropped, Rate
  <2>2. ASSUME NEW i \in 1 .. d PROVE log[i].at + TpsWindow <= now'
    <3>1. i \in 1 .. n
      BY <1>4
    <3>2. log[i].at \in Nat /\ log[i].at + TpsWindow <= now
      BY <3>1, <1>5, <1>6
    <3>. QED BY <3>2, <1>1, <1>8
  <2>. QED BY <2>1, <2>2, <1>4, <1>8 DEF SendRates, Rate, Dropped
<1>9. ASSUME UNCHANGED <<log, timestamps, maxTps, now>> PROVE SendRates'
  BY <1>1, <1>8, <1>9
<1>10. ASSUME NEW header \in Header, RecordBlock(header) PROVE SendRates'
  BY <1>9, <1>10 DEF RecordBlock, collectorVars
<1>11. CASE ResetBlocks
  BY <1>9, <1>11 DEF ResetBlocks, collectorVars
<1>12. CASE LogFinalStats
  BY <1>9, <1>12 DEF LogFinalStats, collectorVars, history
<1>13. CASE ResetWindowStats
  BY <1>9, <1>13 DEF ResetWindowStats
<1>14. CASE Quiet
  BY <1>8, <1>14 DEF Quiet
<1>. QED BY <1>7, <1>10, <1>11, <1>12, <1>13, <1>14, Steps

-----------------------------------------------------------------------------
(* The block collector.                                                    *)

\* No values are the end of anything.
LEMMA NoEnd ==
  ASSUME NEW f, Len(f) \in Nat
  PROVE  IsEnd(<<>>, 0, f)
<1>1. BlockHistory \in Nat /\ BlockHistory > 0
  BY BlockHistoryAssumption
<1>2. Least(0, BlockHistory) = 0
  BY <1>1 DEF Least
<1>3. << >> \in Seq(Nat) /\ Len(<< >>) = 0
  BY EmptySeq
<1>. QED BY <1>2, <1>3 DEF IsEnd

\* A bounded history that is given the next value is that of one more.
LEMMA EndNext ==
  ASSUME NEW f, NEW n \in Nat, Len(f) = n,
         NEW g, Len(g) = n + 1, \A i \in 1 .. n : g[i] = f[i],
         NEW v \in Nat, g[n + 1] = v,
         NEW list, NEW count, IsEnd(list, count, f),
         NEW k, k = Kept(Append(list, v))
  PROVE  IsEnd(k, count + 1, g)
<1>1. PICK h \in Nat : h = BlockHistory /\ h > 0
  BY BlockHistoryAssumption
<1>2. list \in Seq(Nat) /\ count \in Nat /\ count <= n /\ Len(list) = Least(count, h)
  BY <1>1 DEF IsEnd
<1>3. PICK a \in Nat : a = Len(list)
  BY <1>2, LenProperties
<1>4. a <= count /\ a = Least(count, h)
  BY <1>2, <1>3 DEF Least
<1>5. \A i \in 1 .. a : list[i] = f[n - a + i]
  BY <1>3 DEF IsEnd
<1>6. PICK s : s = Append(list, v)
  OBVIOUS
<1>7. s \in Seq(Nat) /\ Len(s) = a + 1 /\ s[a + 1] = v /\ \A i \in 1 .. a : s[i] = list[i]
  BY <1>2, <1>3, <1>6, AppendProperties
<1>8. /\ k \in Seq(Nat) /\ Len(k) = Least(Len(s), BlockHistory)
      /\ \A i \in 1 .. Len(k) : k[i] = s[Len(s) - Len(k) + i]
  <2>1. k = Kept(s) /\ s \in Seq(Nat)
    BY <1>6, <1>7
  <2>. QED BY ONLY <2>1, KeptIsEnd
<1>9. PICK b \in Nat : b = Len(k)
  BY <1>8, LenProperties
<1>10. b = Least(a + 1, h)
  BY <1>1, <1>7, <1>8, <1>9
<1>11. b = Least(count + 1, h) /\ b <= a + 1
  BY <1>1, <1>2, <1>4, <1>10 DEF Least
<1>12. ASSUME NEW i \in 1 .. b PROVE k[i] = g[(n + 1) - b + i]
  <2>1. k[i] = s[(a + 1) - b + i]
    BY <1>7, <1>8, <1>9
  <2>2. CASE i = b
    <3>1. (a + 1) - b + i = a + 1 /\ (n + 1) - b + i = n + 1
      BY <2>2, <1>3
    <3>. QED BY <3>1, <2>1, <1>7
  <2>3. CASE i # b
    <3>1. PICK j \in 1 .. a : j = (a + 1) - b + i
      BY <2>3, <1>11
    <3>2. (n + 1) - b + i = n - a + j
      BY <3>1
    <3>3. a <= n
      BY <1>2, <1>4
    <3>4. n - a + j \in 1 .. n
      BY <3>3
    <3>5. k[i] = f[n - a + j]
      BY <3>1, <2>1, <1>5, <1>7
    <3>. QED BY <3>2, <3>4, <3>5
  <2>. QED BY <2>2, <2>3
<1>13. count + 1 \in Nat /\ count + 1 <= n + 1
  BY <1>2
<1>. QED BY <1>1, <1>8, <1>9, <1>11, <1>12, <1>13 DEF IsEnd

\* A head goes behind every list it has a value for, and a reset empties the
\* window's two.
LEMMA KeptBlocksStep ==
  ASSUME TypeOK, Recorded, KeptBlocks, [Next]_vars
  PROVE  KeptBlocks'
<1>1. /\ blockLog \in Seq(HeadRecord) /\ blocks \in BlockState /\ now \in Nat
      /\ reported \in [txs : Nat, blocks : Nat, opened : Nat, blocksOpened : Nat]
      /\ InOrder(blockLog, now)
  BY DEF TypeOK, Recorded
<1>2. PICK n \in Nat : n = Len(blockLog)
  BY <1>1, LenProperties
<1>3. PICK o \in Nat : o = reported.blocksOpened
  BY <1>1
<1>4. o <= n /\ DOMAIN blockLog = 1 .. n /\ (n = 0 <=> blockLog = <<>>)
  BY <1>1, <1>2, <1>3, LenProperties, EmptySeq DEF Recorded
<1>5. \A i \in 1 .. n : blockLog[i] \in HeadRecord
  BY <1>1, <1>2, ElementOfSeq
<1>6. /\ IsEnd(blocks.allGasUsed, n, Field("gas", blockLog))
      /\ IsEnd(blocks.windowGasUsed, n - o, Field("gas", blockLog))
      /\ IsEnd(blocks.allBlockTimes, Timed(0), BlockTimes)
      /\ IsEnd(blocks.windowBlockTimes, Timed(o), BlockTimes)
  BY <1>2, <1>3 DEF KeptBlocks
<1>7. Len(Field("gas", blockLog)) = n /\ Len(BlockTimes) = n
  <2>1. DOMAIN Field("gas", blockLog) = 1 .. n /\ DOMAIN BlockTimes = 1 .. n
    BY <1>2, <1>4 DEF Field, BlockTimes
  <2>2. ASSUME NEW f, DOMAIN f = 1 .. n, f = [i \in DOMAIN f |-> f[i]] PROVE Len(f) = n
    BY <2>2
  <2>3. Field("gas", blockLog) = [i \in DOMAIN Field("gas", blockLog) |-> Field("gas", blockLog)[i]]
    BY DEF Field
  <2>4. BlockTimes = [i \in DOMAIN BlockTimes |-> BlockTimes[i]]
    BY DEF BlockTimes
  <2>. QED BY <2>1, <2>2, <2>3, <2>4
<1>8. ASSUME NEW header \in Header, RecordBlock(header) PROVE KeptBlocks'
  <2>1. /\ header.number \in Nat /\ header.gas \in Nat
        /\ blockLog' \in Seq(HeadRecord) /\ Len(blockLog') = n + 1
        /\ \A i \in 1 .. n : blockLog'[i] = blockLog[i]
        /\ blockLog'[n + 1].at = now /\ blockLog'[n + 1].number = header.number
        /\ blockLog'[n + 1].gas = header.gas
    BY <1>2, <1>8, HeadRecorded
  <2>2. DOMAIN blockLog' = 1 .. n + 1 /\ blockLog' # <<>>
    BY <2>1, LenProperties, EmptySeq
  <2>3. reported' = reported /\ blocks' = ProcessNewBlock(blocks, header, now)
    BY <1>8 DEF RecordBlock
  <2>4. PICK ts : ts = IF blocks.lastBlockTime = ZeroTime THEN <<>> ELSE <<now - blocks.lastBlockTime>>
    OBVIOUS
  <2>5. /\ blocks'.maxBlockNum = Greatest(blocks.maxBlockNum, header.number)
        /\ blocks'.lastBlockTime = now
        /\ blocks'.allBlockTimes = Kept(blocks.allBlockTimes \o ts)
        /\ blocks'.windowBlockTimes = Kept(blocks.windowBlockTimes \o ts)
        /\ blocks'.allGasUsed = Kept(Append(blocks.allGasUsed, header.gas))
        /\ blocks'.windowGasUsed = Kept(Append(blocks.windowGasUsed, header.gas))
    BY <2>3, <2>4, <1>1 DEF ProcessNewBlock, BlockState
  <2>6. /\ IsEnd(blocks'.allGasUsed, n + 1, Field("gas", blockLog'))
        /\ IsEnd(blocks'.windowGasUsed, (n + 1) - o, Field("gas", blockLog'))
    <3>1. PICK f : f = Field("gas", blockLog)
      OBVIOUS
    <3>2. PICK g : g = Field("gas", blockLog')
      OBVIOUS
    <3>3. /\ Len(g) = n + 1 /\ g[n + 1] = header.gas
          /\ \A i \in 1 .. n : g[i] = f[i]
      <4>1. g = [i \in 1 .. n + 1 |-> blockLog'[i].gas] /\ f = [i \in 1 .. n |-> blockLog[i].gas]
        BY <3>1, <3>2, <2>2, <1>4 DEF Field
      <4>2. \A i \in 1 .. n : i \in 1 .. n + 1
        OBVIOUS
      <4>3. n + 1 \in 1 .. n + 1 /\ n + 1 \in Nat
        OBVIOUS
      <4>4. \A i \in 1 .. n : g[i] = f[i]
        BY <4>1, <4>2, <2>1
      <4>5. g[n + 1] = header.gas
        BY <4>1, <4>3, <2>1
      <4>6. Len(g) = n + 1
        BY <4>1, <4>3
      <4>. QED BY <4>4, <4>5, <4>6
    <3>4. Len(f) = n
      BY <3>1, <1>7
    <3>5. IsEnd(blocks.allGasUsed, n, f) /\ IsEnd(blocks.windowGasUsed, n - o, f)
      BY <3>1, <1>6
    <3>6. header.gas \in Nat
      BY <2>1
    <3>7. IsEnd(blocks'.allGasUsed, n + 1, g)
      BY ONLY <3>3, <3>4, <3>5, <3>6, <2>5, EndNext
    <3>8. IsEnd(blocks'.windowGasUsed, (n - o) + 1, g)
      BY ONLY <3>3, <3>4, <3>5, <3>6, <2>5, EndNext
    <3>9. (n - o) + 1 = (n + 1) - o
      BY <1>4
    <3>. QED BY <3>2, <3>7, <3>8, <3>9
  <2>7. Timed(0)' = (n + 1) - Greatest(0, 1) /\ Timed(o)' = (n + 1) - Greatest(o, 1)
    BY <2>1, <2>2 DEF Timed
  <2>8. /\ Len(BlockTimes') = n + 1 /\ \A i \in 1 .. n : BlockTimes'[i] = BlockTimes[i]
        /\ n # 0 => BlockTimes'[n + 1] = now - blockLog[n].at
    <3>1. BlockTimes' = [i \in 1 .. n + 1 |->
                           IF i = 1 THEN 0 ELSE blockLog'[i].at - blockLog'[i - 1].at]
      BY <2>1 DEF BlockTimes
    <3>2. BlockTimes = [i \in 1 .. n |-> IF i = 1 THEN 0 ELSE blockLog[i].at - blockLog[i - 1].at]
      BY <1>2 DEF BlockTimes
    <3>3. Len(BlockTimes') = n + 1
      <4>1. n + 1 \in Nat
        OBVIOUS
      <4>. QED BY <3>1, <4>1
    <3>4. ASSUME NEW i \in 1 .. n PROVE BlockTimes'[i] = BlockTimes[i]
      <4>1. i \in 1 .. n + 1 /\ (i # 1 => i - 1 \in 1 .. n)
        OBVIOUS
      <4>2. i = 1 => BlockTimes'[i] = 0 /\ BlockTimes[i] = 0
        BY <4>1, <3>1, <3>2
      <4>3. i # 1 => /\ BlockTimes'[i] = blockLog'[i].at - blockLog'[i - 1].at
                     /\ BlockTimes[i] = blockLog[i].at - blockLog[i - 1].at
        BY <4>1, <3>1, <3>2
      <4>. QED BY <4>1, <4>2, <4>3, <2>1
    <3>5. ASSUME n # 0 PROVE BlockTimes'[n + 1] = now - blockLog[n].at
      <4>1. n + 1 \in 1 .. n + 1 /\ n + 1 # 1 /\ (n + 1) - 1 = n /\ n \in 1 .. n
        BY <3>5
      <4>2. BlockTimes'[n + 1] = blockLog'[n + 1].at - blockLog'[n].at
        BY <4>1, <3>1
      <4>. QED BY <4>1, <4>2, <2>1
    <3>. QED BY <3>3, <3>4, <3>5
  <2>9. /\ IsEnd(blocks'.allBlockTimes, Timed(0)', BlockTimes')
        /\ IsEnd(blocks'.windowBlockTimes, Timed(o)', BlockTimes')
    <3>1. CASE n = 0
      <4>1. blocks.lastBlockTime = ZeroTime
        BY <3>1, <1>4 DEF KeptBlocks
      <4>2. ts = <<>>
        BY <4>1, <2>4
      <4>3. Timed(0) = 0 /\ Timed(o) = 0
        BY <3>1, <1>4 DEF Timed
      <4>4. ASSUME NEW list, IsEnd(list, 0, BlockTimes) PROVE list = <<>>
        <5>1. 0 <= BlockHistory
          BY BlockHistoryAssumption
        <5>2. Len(list) = 0 /\ list \in Seq(Nat)
          BY <4>4, <5>1, EndLength DEF IsEnd
        <5>. QED BY <5>2, EmptySeq
      <4>5. blocks.allBlockTimes = <<>> /\ blocks.windowBlockTimes = <<>>
        BY <4>3, <4>4, <1>6
      <4>6. Kept(<<>> \o <<>>) = <<>>
        <5>1. << >> \in Seq(Nat) /\ << >> \o << >> = << >> /\ Len(<< >>) = 0
          BY EmptySeq, ConcatEmptySeq
        <5>2. Kept(<< >>) \in Seq(Nat) /\ Len(Kept(<< >>)) = Least(0, BlockHistory)
          BY <5>1, KeptIsEnd
        <5>3. Least(0, BlockHistory) = 0
          BY BlockHistoryAssumption DEF Least
        <5>. QED BY <5>1, <5>2, <5>3, EmptySeq
      <4>7. blocks'.allBlockTimes = <<>> /\ blocks'.windowBlockTimes = <<>>
        BY <4>2, <4>5, <4>6, <2>5
      <4>8. Timed(0)' = 0 /\ Timed(o)' = 0
        BY <3>1, <2>7, <1>4 DEF Greatest
      <4>9. Len(BlockTimes') \in Nat
        BY <2>8
      <4>. QED BY <4>7, <4>8, <4>9, NoEnd
    <3>2. CASE n # 0
      <4>1. n \in 1 .. n
        BY <3>2
      <4>2. blocks.lastBlockTime = blockLog[n].at
        BY <3>2, <1>2, <1>4 DEF KeptBlocks
      <4>3. blockLog[n].at \in Nat /\ blockLog[n].at > 0 /\ blockLog[n].at <= now
        <5>1. blockLog[n] \in HeadRecord
          BY <4>1, <1>5
        <5>. QED BY <5>1, <4>1, <1>1, <1>2 DEF InOrder, HeadRecord
      <4>4. PICK v \in Nat : v = now - blockLog[n].at
        BY <4>3, <1>1
      <4>5. ts = <<v>>
        BY <4>2, <4>3, <4>4, <2>4 DEF ZeroTime
      <4>6. blocks.allBlockTimes \in Seq(Nat) /\ blocks.windowBlockTimes \in Seq(Nat)
        BY <1>1 DEF BlockState
      <4>7. /\ blocks'.allBlockTimes = Kept(Append(blocks.allBlockTimes, v))
            /\ blocks'.windowBlockTimes = Kept(Append(blocks.windowBlockTimes, v))
        <5>1. \A s \in Seq(Nat) : s \o <<v>> = Append(s, v)
          OBVIOUS
        <5>. QED BY <5>1, <4>5, <4>6, <2>5
      <4>8. Timed(0)' = Timed(0) + 1 /\ Timed(o)' = Timed(o) + 1
        <5>1. Timed(0) = n - Greatest(0, 1) /\ Timed(o) = n - Greatest(o, 1)
          BY <3>2, <1>2, <1>4 DEF Timed
        <5>2. Greatest(0, 1) \in Nat /\ Greatest(o, 1) \in Nat
          BY DEF Greatest
        <5>. QED BY <5>1, <5>2, <2>7
      <4>9. PICK f : f = BlockTimes
        OBVIOUS
      <4>10. PICK g : g = BlockTimes'
        OBVIOUS
      <4>11. /\ Len(f) = n /\ Len(g) = n + 1 /\ g[n + 1] = v /\ \A i \in 1 .. n : g[i] = f[i]
             /\ IsEnd(blocks.allBlockTimes, Timed(0), f) /\ IsEnd(blocks.windowBlockTimes, Timed(o), f)
        BY <4>4, <4>9, <4>10, <3>2, <2>8, <1>6, <1>7
      <4>12. IsEnd(blocks'.allBlockTimes, Timed(0) + 1, g)
        BY ONLY <4>4, <4>7, <4>11, <1>2, EndNext
      <4>13. IsEnd(blocks'.windowBlockTimes, Timed(o) + 1, g)
        BY ONLY <4>4, <4>7, <4>11, <1>2, EndNext
      <4>. QED BY <4>8, <4>10, <4>12, <4>13
    <3>. QED BY <3>1, <3>2
  <2>10. /\ \A i \in 1 .. n + 1 : blockLog'[i].number <= blocks'.maxBlockNum
         /\ blocks'.maxBlockNum = 0 \/ \E i \in 1 .. n + 1 : blockLog'[i].number = blocks'.maxBlockNum
    <3>1. PICK x \in Nat : x = blocks.maxBlockNum
      BY <1>1 DEF BlockState
    <3>2. /\ \A i \in 1 .. n : blockLog[i].number <= x
          /\ x = 0 \/ \E i \in 1 .. n : blockLog[i].number = x
      BY <3>1, <1>2 DEF KeptBlocks
    <3>3. PICK y \in Nat : y = header.number
      BY <2>1
    <3>4. PICK z \in Nat : z = blocks'.maxBlockNum /\ z \in {x, y} /\ x <= z /\ y <= z
      BY <3>1, <3>3, <2>5 DEF Greatest
    <3>5. \A i \in 1 .. n + 1 : i \in 1 .. n \/ i = n + 1
      OBVIOUS
    <3>6. \A i \in 1 .. n : i \in 1 .. n + 1 /\ blockLog[i].number \in Nat
      BY <1>5 DEF HeadRecord
    <3>7. n + 1 \in 1 .. n + 1
      OBVIOUS
    <3>8. ASSUME NEW i \in 1 .. n + 1 PROVE blockLog'[i].number <= z
      <4>1. CASE i \in 1 .. n
        <5>1. blockLog'[i].number = blockLog[i].number /\ blockLog[i].number <= x
              /\ blockLog[i].number \in Nat
          BY <4>1, <3>2, <3>6, <2>1
        <5>. QED BY <5>1, <3>4
      <4>2. CASE i = n + 1
        BY <4>2, <3>3, <3>4, <2>1
      <4>. QED BY <4>1, <4>2, <3>5
    <3>9. z = 0 \/ \E i \in 1 .. n + 1 : blockLog'[i].number = z
      <4>1. CASE z = y
        BY <4>1, <3>3, <3>7, <2>1
      <4>2. CASE z = x
        BY <4>2, <3>2, <3>6, <2>1
      <4>. QED BY <4>1, <4>2, <3>4
    <3>. QED BY <3>4, <3>8, <3>9
  <2>11. Timed(reported.blocksOpened)' = Timed(o)'
    BY <2>3, <1>3
  <2>. QED BY <2>1, <2>2, <2>3, <2>5, <2>6, <2>9, <2>10, <2>11, <1>3 DEF KeptBlocks
<1>9. CASE ResetBlocks
  <2>1. blockLog' = blockLog /\ blocks' = WindowReset(blocks)
    BY <1>9 DEF ResetBlocks
  <2>2. reported'.blocksOpened = n
    BY <1>1, <1>2, <1>9 DEF ResetBlocks
  <2>3. /\ blocks'.windowGasUsed = <<>> /\ blocks'.windowBlockTimes = <<>>
        /\ blocks'.allGasUsed = blocks.allGasUsed /\ blocks'.allBlockTimes = blocks.allBlockTimes
        /\ blocks'.lastBlockTime = blocks.lastBlockTime /\ blocks'.maxBlockNum = blocks.maxBlockNum
    BY <2>1, <1>1 DEF WindowReset, BlockState
  <2>4. n - n = 0 /\ Timed(n) = 0
    <3>1. n # 0 => Greatest(n, 1) = n
      BY DEF Greatest
    <3>. QED BY <3>1, <1>2, <1>4 DEF Timed
  <2>5. IsEnd(<<>>, 0, Field("gas", blockLog)) /\ IsEnd(<<>>, 0, BlockTimes)
    BY <1>7, NoEnd
  <2>6. UNCHANGED <<Timed(0), Timed(n), BlockTimes>>
    BY <2>1 DEF Timed, BlockTimes
  <2>7. Timed(reported.blocksOpened)' = 0
    BY <2>2, <2>4, <2>6
  <2>8. KeptBlocks
    OBVIOUS
  <2>. QED BY <2>1, <2>2, <2>3, <2>4, <2>5, <2>6, <2>7, <2>8, <1>2 DEF KeptBlocks
<1>10. ASSUME UNCHANGED <<blockLog, blocks>>, reported'.blocksOpened = reported.blocksOpened
       PROVE  KeptBlocks'
  BY <1>10 DEF KeptBlocks, Timed, BlockTimes
<1>11. ASSUME NEW s \in Names, NEW l \in Latency, NEW ok \in BOOLEAN, RecordTransaction(s, l, ok)
       PROVE  KeptBlocks'
  BY <1>10, <1>11 DEF RecordTransaction
<1>12. CASE ResetWindowStats
  BY <1>1, <1>10, <1>12 DEF ResetWindowStats
<1>13. CASE LogFinalStats
  BY <1>10, <1>13 DEF LogFinalStats, history
<1>14. CASE Quiet
  BY <1>10, <1>14 DEF Quiet
<1>. QED BY <1>8, <1>9, <1>11, <1>12, <1>13, <1>14, Steps

-----------------------------------------------------------------------------
(* The totals.                                                             *)

\* The total and the counter of the scenario count the same sends.
LEMMA TotalsStep ==
  ASSUME TypeOK, Recorded, Totals, [Next]_vars
  PROVE  Totals'
<1>1. /\ log \in Seq(SendRecord) /\ totalTxs \in Nat /\ txCounts \in [Names -> Nat]
  BY DEF TypeOK, Recorded, Names
<1>2. PICK n \in Nat : n = Len(log) /\ DOMAIN log = 1 .. n
  BY <1>1, LenProperties
<1>3. IsFiniteSet(Names)
  BY BoundAssumption, FS_AddElement DEF Names
<1>4. ASSUME NEW s \in Names, NEW l \in Latency, NEW ok \in BOOLEAN, RecordTransaction(s, l, ok)
      PROVE  Totals'
  <2>1. /\ log' \in Seq(SendRecord) /\ Len(log') = n + 1
        /\ \A i \in 1 .. n : log'[i] = log[i]
        /\ log'[n + 1].scenario = s
    BY <1>2, <1>4, SendRecorded
  <2>2. txCounts' = [txCounts EXCEPT ![s] = @ + 1] /\ totalTxs' = totalTxs + 1
    BY <1>4 DEF RecordTransaction
  <2>3. totalTxs' = Len(log')
    BY <2>1, <2>2, <1>2 DEF Totals
  <2>4. SumFunction(txCounts') = totalTxs'
    <3>1. SumFunction(txCounts') = SumFunction(txCounts) + 1
      BY <2>2, <1>1, <1>3, SumCountsUp
    <3>. QED BY <3>1, <2>2 DEF Totals
  <2>5. ASSUME NEW x \in Names
        PROVE  txCounts'[x] = Cardinality({i \in DOMAIN log' : log'[i].scenario = x})
    <3>1. PICK S : S = {i \in DOMAIN log : log[i].scenario = x}
      OBVIOUS
    <3>2. PICK S2 : S2 = {i \in DOMAIN log' : log'[i].scenario = x}
      OBVIOUS
    <3>3. DOMAIN log' = 1 .. n + 1 /\ \A i : i \in 1 .. n + 1 <=> i \in 1 .. n \/ i = n + 1
      BY <2>1, LenProperties
    <3>4. IsFiniteSet(S) /\ Cardinality(S) \in Nat
      <4>1. IsFiniteSet(1 .. n)
        BY FS_Interval
      <4>2. S \in SUBSET (1 .. n)
        BY <3>1, <1>2
      <4>. QED BY <4>1, <4>2, FS_Subset, FS_CardinalityType
    <3>5. txCounts[x] = Cardinality(S)
      BY <3>1 DEF Totals
    <3>6. CASE x = s
      <4>1. S2 = S \cup {n + 1}
        BY <3>1, <3>2, <3>3, <3>6, <2>1, <1>2, Zenon
      <4>2. n + 1 \notin S
        <5>1. ~(n + 1 <= n)
          OBVIOUS
        <5>. QED BY <5>1, <3>1, <1>2
      <4>3. Cardinality(S2) = Cardinality(S) + 1
        BY <4>1, <4>2, <3>4, FS_AddElement
      <4>4. txCounts'[x] = txCounts[x] + 1
        BY <3>6, <2>2, <1>1
      <4>. QED BY <4>3, <4>4, <3>2, <3>5
    <3>7. CASE x # s
      <4>1. S2 = S
        BY <3>1, <3>2, <3>3, <3>7, <2>1, <1>2, Zenon
      <4>2. txCounts'[x] = txCounts[x]
        BY <3>7, <2>2, <1>1
      <4>. QED BY <4>1, <4>2, <3>2, <3>5
    <3>. QED BY <3>6, <3>7
  <2>. QED BY <2>3, <2>4, <2>5 DEF Totals
<1>5. ASSUME UNCHANGED <<log, txCounts, totalTxs>> PROVE Totals'
  BY <1>5 DEF Totals
<1>6. ASSUME NEW header \in Header, RecordBlock(header) PROVE Totals'
  BY <1>5, <1>6 DEF RecordBlock, collectorVars
<1>7. CASE ResetWindowStats
  BY <1>5, <1>7 DEF ResetWindowStats
<1>8. CASE ResetBlocks
  BY <1>5, <1>8 DEF ResetBlocks, collectorVars
<1>9. CASE LogFinalStats
  BY <1>5, <1>9 DEF LogFinalStats, collectorVars, history
<1>10. CASE Quiet
  BY <1>5, <1>10 DEF Quiet
<1>. QED BY <1>4, <1>6, <1>7, <1>8, <1>9, <1>10, Steps

-----------------------------------------------------------------------------
(* The latencies.                                                          *)

\* recordLatency keeps the last History latencies.
LEMMA RecentIsEnd ==
  ASSUME NEW S, NEW ls \in Seq(S), NEW a \in Nat, a = Len(ls), NEW k, k = Recent(ls)
  PROVE  /\ k \in Seq(S) /\ Len(k) \in Nat /\ Len(k) <= a /\ Len(k) <= History
         /\ (a <= History => k = ls) /\ (~(a <= History) => Len(k) = History)
         /\ \A i \in 1 .. Len(k) : k[i] = ls[(a - Len(k)) + i]
<1>1. PICK h \in Nat : h = History /\ h > 0
  BY BoundAssumption
<1>2. \A i \in 1 .. a : ls[i] \in S
  BY ElementOfSeq
<1>3. CASE a > h
  <2>1. PICK m \in Nat : m = (a - h) + 1 /\ 1 <= m /\ m <= a
    BY <1>1, <1>3
  <2>2. k = SubSeq(ls, m, a)
    BY <2>1, <1>1, <1>3 DEF Recent
  <2>3. /\ k \in Seq(S) /\ Len(k) = (IF m <= a THEN a - m + 1 ELSE 0)
        /\ \A i \in 1 .. a - m + 1 : k[i] = ls[m + i - 1]
    <3>1. m \in Int /\ a \in Int /\ \A i \in m .. a : ls[i] \in S
      BY <2>1, <1>2
    <3>2. /\ SubSeq(ls, m, a) \in Seq(S) /\ Len(SubSeq(ls, m, a)) = (IF m <= a THEN a - m + 1 ELSE 0)
          /\ \A i \in 1 .. a - m + 1 : SubSeq(ls, m, a)[i] = ls[m + i - 1]
      BY ONLY <3>1, SubSeqProperties
    <3>. QED BY <3>2, <2>2
  <2>4. Len(k) = h /\ a - m + 1 = h
    BY <2>1, <2>3
  <2>5. ASSUME NEW i \in 1 .. h PROVE k[i] = ls[(a - h) + i]
    <3>1. m + i - 1 = (a - h) + i
      BY <2>1, <1>3
    <3>. QED BY <3>1, <2>3, <2>4
  <2>6. k \in Seq(S) /\ h <= a /\ ~(a <= h)
    BY <2>3, <1>3
  <2>7. Len(k) \in Nat /\ Len(k) <= a /\ Len(k) <= h /\ Len(k) = h
    BY <2>4, <2>6, <1>1
  <2>. QED BY <2>4, <2>5, <2>6, <2>7, <1>1
<1>4. CASE ~(a > h)
  <2>1. k = ls
    BY <1>1, <1>4 DEF Recent
  <2>2. \A i \in 1 .. a : (a - a) + i = i
    OBVIOUS
  <2>3. a <= h
    BY <1>4
  <2>. QED BY <2>1, <2>2, <2>3, <1>1, <1>4
<1>. QED BY <1>3, <1>4

\* An accepted send goes behind the latencies, the oldest one makes room for it.
LEMMA KeptLatenciesStep ==
  ASSUME TypeOK, Recorded, KeptLatencies, [Next]_vars
  PROVE  KeptLatencies'
<1>1. log \in Seq(SendRecord) /\ latencies \in Seq(Latency) /\ Len(latencies) <= History
  BY DEF TypeOK, Recorded
<1>2. PICK n \in Nat : n = Len(log) /\ DOMAIN log = 1 .. n
  BY <1>1, LenProperties
<1>3. PICK a \in Nat : a = Len(latencies)
  BY <1>1, LenProperties
<1>4. PICK f \in [1 .. a -> Successes] : Traces(f)
  BY <1>3 DEF KeptLatencies
<1>5. /\ \A i, j \in 1 .. a : i < j => f[i] < f[j]
      /\ \A i \in 1 .. a : latencies[i] = log[f[i]].latency
      /\ \A x \in Successes : \/ \E i \in 1 .. a : f[i] = x
                              \/ a = History /\ \A i \in 1 .. a : x < f[i]
  BY <1>3, <1>4 DEF Traces
<1>6. \A x \in Successes : x \in 1 .. n /\ log[x].ok
  BY <1>2 DEF Successes
<1>7. ASSUME NEW s \in Names, NEW l \in Latency, NEW ok \in BOOLEAN, RecordTransaction(s, l, ok)
      PROVE  KeptLatencies'
  <2>1. /\ log' \in Seq(SendRecord) /\ Len(log') = n + 1
        /\ \A i \in 1 .. n : log'[i] = log[i]
        /\ log'[n + 1].latency = l /\ log'[n + 1].ok = ok
    BY <1>2, <1>7, SendRecorded
  <2>2. DOMAIN log' = 1 .. n + 1 /\ \A i : i \in 1 .. n + 1 <=> i \in 1 .. n \/ i = n + 1
    BY <2>1, LenProperties
  <2>3. latencies' = IF ok THEN Recent(Append(latencies, l)) ELSE latencies
    BY <1>7 DEF RecordTransaction
  <2>4. CASE ~ok
    <3>1. latencies' = latencies
      BY <2>3, <2>4
    <3>2. Successes' = Successes
      BY <2>1, <2>2, <2>4, <1>2, Zenon DEF Successes
    <3>3. \A i \in 1 .. a : f[i] \in 1 .. n
      BY <1>6
    <3>4. \A i \in 1 .. a : (latencies')[i] = log'[f[i]].latency
      BY <3>1, <3>3, <2>1, <1>5
    <3>5. Traces(f)'
      BY <3>1, <3>2, <3>4, <1>3, <1>5 DEF Traces
    <3>. QED BY <3>1, <3>2, <3>5, <1>3 DEF KeptLatencies
  <2>5. CASE ok
    <3>1. PICK ls : ls = Append(latencies, l)
      OBVIOUS
    <3>2. /\ ls \in Seq(Latency) /\ Len(ls) = a + 1 /\ ls[a + 1] = l
          /\ \A i \in 1 .. a : ls[i] = latencies[i]
      BY <3>1, <1>1, <1>3, AppendProperties
    <3>3. PICK k : k = latencies' /\ k = Recent(ls)
      BY <3>1, <2>3, <2>5
    <3>4. PICK c \in Nat : c = a + 1
      OBVIOUS
    <3>5. /\ k \in Seq(Latency) /\ Len(k) \in Nat /\ Len(k) <= c /\ Len(k) <= History
          /\ (c <= History => k = ls) /\ (~(c <= History) => Len(k) = History)
          /\ \A i \in 1 .. Len(k) : k[i] = ls[(c - Len(k)) + i]
      <4>1. c \in Nat /\ c = Len(ls) /\ ls \in Seq(Latency) /\ k = Recent(ls)
        BY <3>2, <3>3, <3>4
      <4>2. k \in Seq(Latency) /\ Len(k) \in Nat /\ Len(k) <= c /\ Len(k) <= History
        BY ONLY <4>1, RecentIsEnd
      <4>3. c <= History => k = ls
        BY ONLY <4>1, RecentIsEnd
      <4>4. ~(c <= History) => Len(k) = History
        BY ONLY <4>1, RecentIsEnd
      <4>5. \A i \in 1 .. Len(k) : k[i] = ls[(c - Len(k)) + i]
        BY ONLY <4>1, RecentIsEnd
      <4>. QED BY <4>2, <4>3, <4>4, <4>5
    <3>6. PICK b \in Nat : b = Len(k) /\ b <= c
      BY <3>5
    <3>7. Successes' = Successes \cup {n + 1}
      BY <2>1, <2>2, <2>5, <1>2, Zenon DEF Successes
    <3>8. PICK h \in Nat : h = History /\ h > 0
      BY BoundAssumption
    <3>9. (c <= h => b = c) /\ (c > h => b = h) /\ c <= h + 1 /\ b > 0
      BY <3>2, <3>4, <3>5, <3>6, <3>8, <1>1, <1>3
    <3> DEFINE up == [i \in 1 .. a + 1 |-> IF i = a + 1 THEN n + 1 ELSE f[i]]
               g  == [i \in 1 .. b |-> up[(c - b) + i]]
    <3>10. /\ \A i \in 1 .. a + 1 : i \in 1 .. a \/ i = a + 1
           /\ \A i \in 1 .. a : i \in 1 .. a + 1 /\ i # a + 1
           /\ a + 1 \in 1 .. a + 1
      OBVIOUS
    <3>11. (\A i \in 1 .. a : up[i] = f[i]) /\ up[a + 1] = n + 1
      BY <3>10
    <3>. HIDE DEF up
    <3>12. \A i \in 1 .. a : f[i] \in 1 .. n
      BY <1>6
    <3>13. ASSUME NEW i \in 1 .. a + 1
           PROVE  up[i] \in Successes' /\ up[i] \in Nat /\ ls[i] = log'[up[i]].latency
      <4>1. CASE i \in 1 .. a
        <5>1. up[i] = f[i] /\ f[i] \in Successes /\ f[i] \in 1 .. n
          BY <4>1, <3>11, <3>12
        <5>2. ls[i] = log[f[i]].latency /\ log'[f[i]] = log[f[i]]
          BY <4>1, <5>1, <3>2, <2>1, <1>5
        <5>. QED BY <5>1, <5>2, <3>7
      <4>2. CASE i = a + 1
        BY <4>2, <3>2, <3>7, <3>11, <2>1
      <4>. QED BY <4>1, <4>2, <3>10
    <3>14. ASSUME NEW i \in 1 .. a + 1, NEW j \in 1 .. a + 1, i < j PROVE up[i] < up[j]
      <4>1. i \in 1 .. a
        BY <3>14
      <4>2. CASE j \in 1 .. a
        BY <4>1, <4>2, <3>11, <3>14, <1>5
      <4>3. CASE j = a + 1
        <5>1. up[i] = f[i] /\ f[i] \in 1 .. n /\ up[j] = n + 1
          BY <4>1, <4>3, <3>11, <3>12
        <5>. QED BY <5>1
      <4>. QED BY <4>2, <4>3, <3>10
    <3>15. \A i \in 1 .. b : (c - b) + i \in 1 .. a + 1 /\ g[i] = up[(c - b) + i]
      BY <3>4, <3>6
    <3>16. g \in [1 .. b -> Successes']
      BY <3>13, <3>15
    <3>. HIDE DEF g
    <3>17. ASSUME NEW i \in 1 .. b, NEW j \in 1 .. b, i < j PROVE g[i] < g[j]
      <4>1. (c - b) + i < (c - b) + j
        BY <3>6, <3>17
      <4>. QED BY <4>1, <3>14, <3>15
    <3>18. ASSUME NEW i \in 1 .. b PROVE k[i] = log'[g[i]].latency
      BY <3>5, <3>6, <3>13, <3>15
    <3>19. ASSUME NEW x \in Successes'
           PROVE  \/ \E i \in 1 .. b : g[i] = x
                  \/ b = History /\ \A i \in 1 .. b : x < g[i]
      <4>1. ASSUME NEW j \in 1 .. a + 1, up[j] = x, j > c - b PROVE \E i \in 1 .. b : g[i] = x
        <5>1. PICK i \in 1 .. b : (c - b) + i = j
          <6>1. j - (c - b) \in 1 .. b /\ (c - b) + (j - (c - b)) = j
            BY <4>1, <3>4, <3>6
          <6>. QED BY <6>1
        <5>. QED BY <5>1, <4>1, <3>15
      <4>2. ASSUME NEW j \in 1 .. a + 1, up[j] = x, ~(j > c - b)
            PROVE  b = History /\ \A i \in 1 .. b : x < g[i]
        <5>1. b = History
          BY <4>2, <3>6, <3>8, <3>9
        <5>2. ASSUME NEW i \in 1 .. b PROVE x < g[i]
          <6>1. j < (c - b) + i
            BY <4>2, <3>6
          <6>. QED BY <6>1, <4>2, <3>14, <3>15
        <5>. QED BY <5>1, <5>2
      <4>3. CASE \E j \in 1 .. a + 1 : up[j] = x
        BY <4>1, <4>2, <4>3
      <4>4. CASE ~ \E j \in 1 .. a + 1 : up[j] = x
        <5>1. x # n + 1
          BY <4>4, <3>10, <3>11
        <5>2. x \in Successes /\ ~ \E i \in 1 .. a : f[i] = x
          BY <4>4, <5>1, <3>7, <3>10, <3>11
        <5>3. a = History /\ \A i \in 1 .. a : x < f[i]
          BY <5>2, <1>5
        <5>4. x \in 1 .. n
          BY <5>2, <1>6
        <5>5. b = History
          BY <5>3, <3>4, <3>8, <3>9
        <5>6. ASSUME NEW i \in 1 .. a + 1 PROVE x < up[i]
          <6>1. CASE i \in 1 .. a
            BY <6>1, <5>3, <3>11
          <6>2. CASE i = a + 1
            BY <6>2, <5>4, <3>11
          <6>. QED BY <6>1, <6>2, <3>10
        <5>. QED BY <5>5, <5>6, <3>15
      <4>. QED BY <4>3, <4>4
    <3>20. Len(latencies') = b /\ k = latencies'
      BY <3>3, <3>6
    <3>21. Traces(g)'
      BY <3>16, <3>17, <3>18, <3>19, <3>20 DEF Traces
    <3>. QED BY <3>16, <3>20, <3>21 DEF KeptLatencies
  <2>. QED BY <2>4, <2>5
<1>8. ASSUME UNCHANGED <<log, latencies>> PROVE KeptLatencies'
  BY <1>8 DEF KeptLatencies, Traces, Successes
<1>9. ASSUME NEW header \in Header, RecordBlock(header) PROVE KeptLatencies'
  BY <1>8, <1>9 DEF RecordBlock, collectorVars
<1>10. CASE ResetWindowStats
  BY <1>8, <1>10 DEF ResetWindowStats
<1>11. CASE ResetBlocks
  BY <1>8, <1>11 DEF ResetBlocks, collectorVars
<1>12. CASE LogFinalStats
  BY <1>8, <1>12 DEF LogFinalStats, collectorVars, history
<1>13. CASE Quiet
  BY <1>8, <1>13 DEF Quiet
<1>. QED BY <1>7, <1>9, <1>10, <1>11, <1>12, <1>13, Steps

-----------------------------------------------------------------------------
(* What follows from the invariant.                                        *)

\* The element no other exceeds is the maximum, and the dual.
LEMMA MaxIs ==
  ASSUME NEW S, S \subseteq Int, NEW v \in S, \A x \in S : x <= v
  PROVE  Max(S) = v
<1>1. v \in S /\ \A y \in S : v >= y
  OBVIOUS
<1>2. Max(S) \in S /\ \A y \in S : Max(S) >= y
  BY <1>1, Zenon DEF Max
<1>3. Max(S) >= v /\ Max(S) <= v /\ Max(S) \in Int /\ v \in Int
  BY <1>2
<1>. QED BY <1>3

\* The minimum of a set is the member of it that is not above any.
LEMMA MinIs ==
  ASSUME NEW S, S \subseteq Int, NEW v \in S, \A x \in S : v <= x
  PROVE  Min(S) = v
<1>1. v \in S /\ \A y \in S : v <= y
  OBVIOUS
<1>2. Min(S) \in S /\ \A y \in S : Min(S) <= y
  BY <1>1, Zenon DEF Min
<1>3. Min(S) <= v /\ v <= Min(S) /\ Min(S) \in Int /\ v \in Int
  BY <1>2
<1>. QED BY <1>3

\* A set has as many elements as what it is taken to one by one.
LEMMA CountMoves ==
  ASSUME NEW S, IsFiniteSet(S), NEW T, NEW f,
         \A x \in S : f[x] \in T, \A x, y \in S : f[x] = f[y] => x = y,
         \A z \in T : \E x \in S : f[x] = z
  PROVE  IsFiniteSet(T) /\ Cardinality(T) = Cardinality(S)
<1> DEFINE g == [x \in S |-> f[x]]
<1>1. g \in [S -> T]
  OBVIOUS
<1>2. \A x, y \in S : g[x] = g[y] => x = y
  OBVIOUS
<1>3. \A z \in T : \E x \in S : g[x] = z
  OBVIOUS
<1>4. DOMAIN g = S
  OBVIOUS
<1>. HIDE DEF g
<1>5. g \in Injection(S, T)
  BY <1>1, <1>2, <1>4 DEF Injection, IsInjective
<1>6. g \in Surjection(S, T)
  BY <1>1, <1>3 DEF Surjection
<1>7. ExistsBijection(S, T)
  BY <1>5, <1>6 DEF ExistsBijection, Bijection
<1>. QED BY <1>7, FS_Bijection

\* f takes the indices of ls to those under which g has the same samples.
Renames(f, ls, g) ==
  /\ \A k \in 1 .. Len(ls) : f[k] \in DOMAIN g /\ g[f[k]] = ls[k]
  /\ \A j, k \in 1 .. Len(ls) : f[j] = f[k] => j = k
  /\ \A z \in DOMAIN g : \E k \in 1 .. Len(ls) : f[k] = z

\* As many samples are below, or at most, a value under other indices.
LEMMA CountsMove ==
  ASSUME NEW ls \in Seq(Nat), NEW f, NEW g, NEW v, Renames(f, ls, g)
  PROVE  /\ Below(v, g) = Below(v, ls) /\ AtMost(v, g) = AtMost(v, ls)
         /\ Cardinality(DOMAIN g) = Cardinality(DOMAIN ls)
<1> DEFINE T == DOMAIN g
<1>1. PICK n \in Nat : n = Len(ls) /\ DOMAIN ls = 1 .. n
  BY LenProperties
<1>2. IsFiniteSet(1 .. n)
  BY FS_Interval
<1>3. /\ \A k \in 1 .. n : f[k] \in T /\ g[f[k]] = ls[k]
      /\ \A j, k \in 1 .. n : f[j] = f[k] => j = k
      /\ \A z \in T : \E k \in 1 .. n : f[k] = z
  BY <1>1 DEF Renames
<1>. HIDE DEF T
<1>4. Cardinality(T) = Cardinality(1 .. n)
  <2>1. \A k \in 1 .. n : f[k] \in T
    BY <1>3
  <2>. QED BY ONLY <2>1, <1>2, <1>3, CountMoves
<1>5. ASSUME NEW A, A \subseteq 1 .. n, NEW B, B \subseteq T,
             \A k \in 1 .. n : k \in A <=> f[k] \in B
      PROVE  Cardinality(B) = Cardinality(A)
  <2>1. IsFiniteSet(A)
    BY <1>2, <1>5, FS_Subset
  <2>2. /\ \A x \in A : f[x] \in B
        /\ \A x, y \in A : f[x] = f[y] => x = y
        /\ \A z \in B : \E x \in A : f[x] = z
    BY <1>3, <1>5
  <2>. QED BY <2>1, <2>2, CountMoves
<1>6. Below(v, g) = Below(v, ls)
  <2>1. PICK A : A = {k \in 1 .. n : ls[k] < v}
    OBVIOUS
  <2>2. PICK B : B = {z \in T : g[z] < v}
    OBVIOUS
  <2>3. A \subseteq 1 .. n /\ B \subseteq T
    BY <2>1, <2>2
  <2>4. \A k \in 1 .. n : k \in A <=> f[k] \in B
    BY <2>1, <2>2, <1>3
  <2>5. Cardinality(B) = Cardinality(A)
    BY <2>3, <2>4, <1>5
  <2>. QED BY <2>1, <2>2, <2>5, <1>1 DEF Below, T
<1>7. AtMost(v, g) = AtMost(v, ls)
  <2>1. PICK A : A = {k \in 1 .. n : ls[k] <= v}
    OBVIOUS
  <2>2. PICK B : B = {z \in T : g[z] <= v}
    OBVIOUS
  <2>3. A \subseteq 1 .. n /\ B \subseteq T
    BY <2>1, <2>2
  <2>4. \A k \in 1 .. n : k \in A <=> f[k] \in B
    BY <2>1, <2>2, <1>3
  <2>5. Cardinality(B) = Cardinality(A)
    BY <2>3, <2>4, <1>5
  <2>. QED BY <2>1, <2>2, <2>5, <1>1 DEF AtMost, T
<1>8. Cardinality(DOMAIN g) = Cardinality(DOMAIN ls)
  BY <1>1, <1>4 DEF T
<1>. QED BY <1>6, <1>7, <1>8

\* A quantile of a list is one of the same samples under other indices.
LEMMA QuantileMoves ==
  ASSUME NEW ls \in Seq(Nat), NEW f, NEW g, NEW v, NEW p, IsQuantile(v, p, ls), Renames(f, ls, g)
  PROVE  IsQuantile(v, p, g)
BY CountsMove DEF IsQuantile

\* The figures of the open window are those its recorded sends have.
LEMMA WindowFollows ==
  ASSUME TypeOK, Recorded, OpenWindow
  PROVE  WindowIsExact
<1>1. /\ windowStats \in [txCount : Nat, sum : Nat, max : Nat, min : Nat, cumulativeMax : Nat]
      /\ reported \in [txs : Nat, blocks : Nat, opened : Nat, blocksOpened : Nat]
      /\ log \in Seq(SendRecord)
  BY DEF TypeOK, Recorded
<1>2. PICK n \in Nat : n = Len(log) /\ DOMAIN log = 1 .. n /\ (n = 0 <=> log = <<>>)
  BY <1>1, LenProperties, EmptySeq
<1>3. PICK o \in Nat : o = reported.opened /\ o <= n
  BY <1>1, <1>2 DEF Recorded
<1>4. PICK in : in = {i \in DOMAIN log : i > reported.opened}
  OBVIOUS
<1>5. in = o + 1 .. n
  BY <1>2, <1>3, <1>4
<1>6. \A i \in 1 .. n : log[i].latency \in Int
  <2>1. \A i \in 1 .. n : log[i] \in SendRecord
    BY <1>1, <1>2, ElementOfSeq
  <2>2. \A l \in Latency : l \in Int
    BY LatencyAssumption
  <2>. QED BY <2>1, <2>2 DEF SendRecord
<1>7. windowStats.txCount = Cardinality(in)
  <2>1. o + 1 \in Int /\ n \in Int
    OBVIOUS
  <2>2. Cardinality(o + 1 .. n) = IF o + 1 > n THEN 0 ELSE n - (o + 1) + 1
    BY <2>1, FS_Interval
  <2>3. Cardinality(o + 1 .. n) = n - o
    BY <2>2, <1>3
  <2>. QED BY <2>3, <1>2, <1>3, <1>5 DEF OpenWindow
<1>8. \A i \in in : i \in 1 .. n
  BY <1>5
<1>9. ASSUME in # {}
      PROVE  /\ windowStats.max = Max({log[i].latency : i \in in})
             /\ windowStats.min = Min({log[i].latency : i \in in})
  <2>1. o < n
    BY <1>3, <1>5, <1>9
  <2>2. Highest(windowStats.max, log, o) /\ Lowest(windowStats.min, log, o)
    BY <2>1, <1>2, <1>3 DEF OpenWindow
  <2>3. PICK S : S = {log[i].latency : i \in in}
    OBVIOUS
  <2>4. S \subseteq Int
    BY <2>3, <1>6, <1>8
  <2>5. windowStats.max \in S /\ \A x \in S : x <= windowStats.max
    BY <2>2, <2>3, <1>2, <1>5 DEF Highest
  <2>6. windowStats.min \in S /\ \A x \in S : windowStats.min <= x
    <3>1. \A i \in in : log[i].latency >= windowStats.min
      BY <2>2, <1>2, <1>5 DEF Lowest
    <3>2. windowStats.min \in S
      BY <2>2, <2>3, <1>2, <1>5 DEF Lowest
    <3>3. windowStats.min \in Int
      BY <1>1
    <3>. QED BY <3>1, <3>2, <3>3, <2>3, <1>6, <1>8
  <2>. QED BY <2>3, <2>4, <2>5, <2>6, MaxIs, MinIs
<1>10. windowStats.sum = SumFunctionOnSet(Field("latency", log), in)
  BY <1>2, <1>3, <1>5 DEF OpenWindow
<1>11. ASSUME log # <<>>
       PROVE  windowStats.cumulativeMax = Max({log[i].latency : i \in DOMAIN log})
  <2>1. Highest(windowStats.cumulativeMax, log, 0)
    BY <1>11 DEF OpenWindow
  <2>2. PICK S : S = {log[i].latency : i \in DOMAIN log}
    OBVIOUS
  <2>3. S \subseteq Int
    BY <2>2, <1>2, <1>6
  <2>4. 0 + 1 .. n = 1 .. n
    OBVIOUS
  <2>5. windowStats.cumulativeMax \in S /\ \A x \in S : x <= windowStats.cumulativeMax
    BY <2>1, <2>2, <2>4, <1>2 DEF Highest
  <2>. QED BY <2>2, <2>3, <2>5, MaxIs
<1>. QED BY <1>4, <1>7, <1>9, <1>10, <1>11 DEF WindowIsExact

\* The current rate and the highest one are those of the sliding window, whatever
\* timestamps are still kept.
LEMMA RatesFollow ==
  ASSUME TypeOK, Recorded, SendRates
  PROVE  RatesAreExact
<1>1. /\ log \in Seq(SendRecord) /\ timestamps \in Seq(Nat) /\ now \in Nat /\ maxTps \in Nat
      /\ InOrder(log, now) /\ TpsWindow \in Nat
  BY BoundAssumption DEF TypeOK, Recorded
<1>2. PICK n \in Nat : n = Len(log) /\ DOMAIN log = 1 .. n
  BY <1>1, LenProperties
<1>3. PICK k \in Nat : k = Len(timestamps) /\ DOMAIN timestamps = 1 .. k
  BY <1>1, LenProperties
<1>4. PICK d \in Nat : d = Dropped /\ d = n - k
  BY <1>2, <1>3 DEF SendRates, Dropped
<1>5. /\ \A i \in 1 .. k : timestamps[i] = log[d + i].at
      /\ \A i \in 1 .. d : log[i].at + TpsWindow <= now
  BY <1>3, <1>4 DEF SendRates
<1>6. \A i \in 1 .. n : log[i].at \in Nat
  <2>1. \A i \in 1 .. n : log[i] \in SendRecord
    BY <1>1, <1>2, ElementOfSeq
  <2>. QED BY <2>1 DEF SendRecord
<1>7. \A i, j \in 1 .. n : i <= j => log[i].at <= log[j].at
  BY <1>1, <1>2 DEF InOrder
<1> DEFINE A == {i \in 1 .. n : log[i].at + TpsWindow > now}
           B == {i \in 1 .. k : timestamps[i] + TpsWindow > now}
<1>8. Cardinality(B) = Cardinality(A)
  <2>1. IsFiniteSet(B)
    <3>1. IsFiniteSet(1 .. k)
      BY FS_Interval
    <3>. QED BY <3>1, FS_Subset
  <2>2. PICK f : f = [i \in 1 .. k |-> d + i]
    OBVIOUS
  <2>3. ASSUME NEW i \in B PROVE f[i] \in A
    <3>1. f[i] = d + i /\ d + i \in 1 .. n
      BY <2>2, <1>4
    <3>. QED BY <3>1, <1>5
  <2>4. \A i, j \in B : f[i] = f[j] => i = j
    BY <2>2
  <2>5. ASSUME NEW z \in A PROVE \E i \in B : f[i] = z
    <3>1. ~(z <= d)
      <4>1. ASSUME z <= d PROVE FALSE
        <5>1. z \in 1 .. d
          BY <4>1
        <5>2. log[z].at + TpsWindow <= now /\ log[z].at \in Nat
          BY <5>1, <1>5, <1>6
        <5>. QED BY <5>2, <1>1
      <4>. QED BY <4>1
    <3>2. PICK i \in 1 .. k : i = z - d /\ d + i = z
      BY <3>1, <1>4
    <3>3. timestamps[i] + TpsWindow > now
      BY <3>2, <1>5
    <3>. QED BY <3>2, <3>3, <2>2
  <2>. HIDE DEF A, B
  <2>. QED BY <2>1, <2>3, <2>4, <2>5, CountMoves
<1>9. Cardinality({i \in DOMAIN timestamps : timestamps[i] + TpsWindow > now}) = Rate(now, Len(log))
  BY <1>2, <1>3, <1>8 DEF Rate
<1>10. ASSUME log # <<>>
       PROVE  maxTps = Max({Rate(log[i].at, i) : i \in DOMAIN log})
  <2>1. PICK S : S = {Rate(log[i].at, i) : i \in DOMAIN log}
    OBVIOUS
  <2>2. ASSUME NEW i \in 1 .. n PROVE Rate(log[i].at, i) \in Int
    <3>1. {j \in 1 .. i : log[j].at + TpsWindow > log[i].at} \in SUBSET (1 .. i)
      OBVIOUS
    <3>2. IsFiniteSet(1 .. i)
      BY FS_Interval
    <3>. QED BY <3>1, <3>2, FS_Subset, FS_CardinalityType DEF Rate
  <2>3. S \subseteq Int
    BY <2>1, <2>2, <1>2
  <2>4. maxTps \in S /\ \A x \in S : x <= maxTps
    BY <2>1, <1>2, <1>10 DEF SendRates
  <2>. QED BY <2>1, <2>3, <2>4, MaxIs
<1>. QED BY <1>9, <1>10 DEF RatesAreExact

\* The percentiles of the latencies kept are quantiles of the sends they are of,
\* the last History accepted ones.
LEMMA PercentilesFollow ==
  ASSUME TypeOK, Recorded, KeptLatencies
  PROVE  PercentilesAreQuantiles
<1>1. log \in Seq(SendRecord) /\ latencies \in Seq(Latency) /\ Len(latencies) <= History
  BY DEF TypeOK, Recorded
<1>2. PICK n \in Nat : n = Len(log) /\ DOMAIN log = 1 .. n
  BY <1>1, LenProperties
<1>3. PICK a \in Nat : a = Len(latencies)
  BY <1>1, LenProperties
<1>4. PICK f \in [1 .. a -> Successes] : Traces(f)
  BY <1>3 DEF KeptLatencies
<1>5. /\ \A i, j \in 1 .. a : i < j => f[i] < f[j]
      /\ \A i \in 1 .. a : latencies[i] = log[f[i]].latency
      /\ \A x \in Successes : \/ \E i \in 1 .. a : f[i] = x
                              \/ a = History /\ \A i \in 1 .. a : x < f[i]
  BY <1>3, <1>4 DEF Traces
<1>6. \A x \in Successes : x \in 1 .. n
  BY <1>2 DEF Successes
<1>7. \A i \in 1 .. a : f[i] \in Successes /\ f[i] \in 1 .. n
  BY <1>6
<1>8. PICK h \in Nat : h = History /\ h > 0 /\ a <= h
  BY BoundAssumption, <1>1, <1>3
<1>9. \A i, j \in 1 .. a : f[i] = f[j] => i = j
  <2>1. ASSUME NEW i \in 1 .. a, NEW j \in 1 .. a, f[i] = f[j], i # j PROVE FALSE
    <3>1. i < j \/ j < i
      BY <2>1
    <3>2. f[i] \in Nat /\ f[j] \in Nat
      BY <1>7
    <3>. QED BY <3>1, <3>2, <2>1, <1>5
  <2>. QED BY <2>1
<1>10. ASSUME NEW S \in SUBSET Successes PROVE IsFiniteSet(S) /\ Cardinality(S) \in Nat
  <2>1. IsFiniteSet(1 .. n)
    BY FS_Interval
  <2>2. S \in SUBSET (1 .. n)
    BY <1>6
  <2>. QED BY <2>1, <2>2, FS_Subset, FS_CardinalityType
<1>11. ASSUME NEW i \in 1 .. a PROVE f[i] \in Remembered
  <2>1. PICK S : S = {j \in Successes : j > f[i]}
    OBVIOUS
  <2>2. IsFiniteSet(i + 1 .. a) /\ Cardinality(i + 1 .. a) = a - i
    <3>1. i + 1 \in Int /\ a \in Int
      OBVIOUS
    <3>2. IsFiniteSet(i + 1 .. a)
          /\ Cardinality(i + 1 .. a) = (IF i + 1 > a THEN 0 ELSE a - (i + 1) + 1)
      BY <3>1, FS_Interval
    <3>. QED BY <3>2
  <2>3. \A j \in i + 1 .. a : j \in 1 .. a /\ i < j
    OBVIOUS
  <2>4. \A j \in i + 1 .. a : f[j] \in S
    BY <2>1, <2>3, <1>5, <1>7
  <2>5. \A j, k \in i + 1 .. a : f[j] = f[k] => j = k
    BY <2>3, <1>9
  <2>6. ASSUME NEW z \in S PROVE \E j \in i + 1 .. a : f[j] = z
    <3>1. z \in Successes /\ z > f[i] /\ z \in Nat /\ f[i] \in Nat
      BY <2>1, <1>6, <1>7
    <3>2. PICK j \in 1 .. a : f[j] = z
      <4>1. ~(z < f[i])
        BY <3>1
      <4>. QED BY <3>1, <4>1, <1>5
    <3>3. i < j
      <4>1. ASSUME j <= i PROVE FALSE
        <5>1. j = i \/ j < i
          BY <4>1
        <5>2. j < i => f[j] < f[i]
          BY <1>5
        <5>. QED BY <5>1, <5>2, <3>1, <3>2
      <4>. QED BY <4>1
    <3>4. j \in i + 1 .. a
      BY <3>3
    <3>. QED BY <3>2, <3>4
  <2>7. Cardinality(S) = Cardinality(i + 1 .. a)
    BY ONLY <2>2, <2>4, <2>5, <2>6, CountMoves
  <2>8. Cardinality(S) < h
    BY <2>2, <2>7, <1>8
  <2>. QED BY <2>1, <2>8, <1>7, <1>8 DEF Remembered
<1>12. ASSUME NEW x \in Remembered PROVE \E i \in 1 .. a : f[i] = x
  <2>1. SUFFICES ASSUME ~ \E i \in 1 .. a : f[i] = x PROVE FALSE
    OBVIOUS
  <2>2. x \in Successes /\ Cardinality({j \in Successes : j > x}) < History
    BY DEF Remembered
  <2>3. a = History /\ \A i \in 1 .. a : x < f[i]
    BY <2>1, <2>2, <1>5
  <2>4. PICK S : S = {j \in Successes : j > x}
    OBVIOUS
  <2>5. PICK R : R = {j \in S : \E i \in 1 .. a : f[i] = j}
    OBVIOUS
  <2>6. Cardinality(R) = a
    <3>1. IsFiniteSet(1 .. a) /\ Cardinality(1 .. a) = a
      <4>1. 1 \in Int /\ a \in Int
        OBVIOUS
      <4>2. IsFiniteSet(1 .. a) /\ Cardinality(1 .. a) = (IF 1 > a THEN 0 ELSE a - 1 + 1)
        BY <4>1, FS_Interval
      <4>. QED BY <4>2
    <3>2. \A i \in 1 .. a : f[i] \in R
      <4>1. ASSUME NEW i \in 1 .. a PROVE f[i] > x
        <5>1. x < f[i] /\ x \in Nat /\ f[i] \in Nat
          BY <2>2, <2>3, <1>6, <1>7
        <5>. QED BY <5>1
      <4>. QED BY <4>1, <2>4, <2>5, <1>7
    <3>3. \A z \in R : \E i \in 1 .. a : f[i] = z
      BY <2>5
    <3>4. Cardinality(R) = Cardinality(1 .. a)
      BY ONLY <3>1, <3>2, <3>3, <1>9, CountMoves
    <3>. QED BY <3>1, <3>4
  <2>7. S \in SUBSET Successes
    BY <2>4
  <2>8. IsFiniteSet(S) /\ Cardinality(S) \in Nat
    BY <2>7, <1>10
  <2>9. Cardinality(R) <= Cardinality(S)
    <3>1. R \in SUBSET S
      BY <2>5
    <3>. QED BY <3>1, <2>8, FS_Subset
  <2>. QED BY <2>2, <2>3, <2>4, <2>6, <2>8, <2>9
<1>13. ASSUME latencies # <<>>, NEW p \in {50, 99}
       PROVE  IsQuantile(Percentile(p, latencies), p, [i \in Remembered |-> log[i].latency])
  <2>1. latencies \in Seq(Nat)
    <3>1. \A i \in 1 .. a : latencies[i] \in Nat
      <4>1. \A i \in 1 .. a : latencies[i] \in Latency
        BY <1>1, <1>3, ElementOfSeq
      <4>2. \A l \in Latency : l \in Nat
        BY LatencyAssumption
      <4>. QED BY <4>1, <4>2
    <3>2. latencies = [i \in 1 .. a |-> latencies[i]]
      BY <1>1, <1>3
    <3>. QED BY <3>1, <3>2
  <2>2. p \in 0 .. 100
    OBVIOUS
  <2>3. PICK v : v = Percentile(p, latencies)
    OBVIOUS
  <2>4. IsQuantile(v, p, latencies)
    BY <2>1, <2>2, <2>3, <1>13, PercentileIsQuantile
  <2>5. PICK g : g = [i \in Remembered |-> log[i].latency]
    OBVIOUS
  <2>6. DOMAIN g = Remembered
    BY <2>5
  <2>7. \A k \in 1 .. Len(latencies) : f[k] \in Remembered /\ g[f[k]] = latencies[k]
    BY <2>5, <1>3, <1>5, <1>11
  <2>8. \A j, k \in 1 .. Len(latencies) : f[j] = f[k] => j = k
    BY <1>3, <1>9
  <2>9. \A z \in Remembered : \E k \in 1 .. Len(latencies) : f[k] = z
    BY <1>3, <1>12
  <2>10. IsQuantile(v, p, g)
    <3>1. Renames(f, latencies, g)
      BY <2>6, <2>7, <2>8, <2>9 DEF Renames
    <3>. QED BY <3>1, <2>1, <2>4, QuantileMoves
  <2>. QED BY <2>3, <2>5, <2>10
<1>. QED BY <1>13 DEF PercentilesAreQuantiles

-----------------------------------------------------------------------------
(* The final report.                                                       *)

\* The bounded history of a list's values is the end of the list.
LEMMA EndIsLast ==
  ASSUME NEW S, NEW T \in Seq(S), NEW c \in Nat, c = Len(T), NEW f, NEW n \in Nat, n = Len(f), c <= n,
         NEW list, IsEnd(list, c, f), \A i \in 1 .. c : T[i] = f[n - c + i]
  PROVE  LastOf(BlockHistory, T) = list
<1>1. PICK h \in Nat : h = BlockHistory /\ h > 0
  BY BlockHistoryAssumption
<1>2. PICK b \in Nat : b = Len(list) /\ b = Least(c, h) /\ list \in Seq(Nat)
  <2>1. list \in Seq(Nat) /\ Len(list) = Least(c, h)
    BY <1>1 DEF IsEnd
  <2>. QED BY <2>1, LenProperties
<1>3. b <= c /\ Least(h, c) = b
  BY <1>1, <1>2 DEF Least
<1>4. PICK m \in Nat : m = 1 + c - b /\ 1 <= m /\ m <= c + 1 /\ c - m + 1 = b /\ (m <= c <=> b # 0)
  <2>1. /\ 1 + c - b \in Nat /\ 1 <= 1 + c - b /\ 1 + c - b <= c + 1 /\ c - (1 + c - b) + 1 = b
        /\ (1 + c - b <= c <=> b # 0)
    BY ONLY <1>3, b \in Nat, c \in Nat
  <2>. QED BY <2>1
<1>5. LastOf(BlockHistory, T) = SubSeq(T, m, c)
  BY <1>1, <1>3, <1>4 DEF LastOf
<1>6. \A i \in m .. c : T[i] \in S
  <2>1. \A i \in 1 .. c : T[i] \in S
    BY ElementOfSeq
  <2>2. m .. c \subseteq 1 .. c
    BY ONLY <1>4, c \in Nat
  <2>. QED BY <2>1, <2>2
<1>7. PICK k : k = SubSeq(T, m, c)
  OBVIOUS
<1>8. /\ k \in Seq(S) /\ Len(k) = (IF m <= c THEN c - m + 1 ELSE 0)
      /\ \A i \in 1 .. c - m + 1 : k[i] = T[m + i - 1]
  <2>1. m \in Int /\ c \in Int
    OBVIOUS
  <2>2. /\ SubSeq(T, m, c) \in Seq(S) /\ Len(SubSeq(T, m, c)) = (IF m <= c THEN c - m + 1 ELSE 0)
        /\ \A i \in 1 .. c - m + 1 : SubSeq(T, m, c)[i] = T[m + i - 1]
    BY ONLY <2>1, <1>6, SubSeqProperties
  <2>. QED BY <2>2, <1>7
<1>9. Len(k) = b
  <2>1. CASE m <= c
    BY <2>1, <1>4, <1>8
  <2>2. CASE ~(m <= c)
    BY <2>2, <1>4, <1>8
  <2>. QED BY <2>1, <2>2
<1>10. ASSUME NEW i \in 1 .. b PROVE k[i] = list[i]
  <2>1. PICK j \in 1 .. c : j = m + i - 1
    <3>1. m + i - 1 \in 1 .. c
      BY ONLY <1>3, <1>4, b \in Nat, c \in Nat, i \in 1 .. b
    <3>. QED BY <3>1
  <2>2. n - c + j = n - b + i
    BY ONLY <2>1, <1>4, b \in Nat, c \in Nat, i \in 1 .. b, n \in Nat
  <2>3. list[i] = f[n - b + i]
    BY <1>2 DEF IsEnd
  <2>4. k[i] = T[j] /\ T[j] = f[n - c + j]
    BY <2>1, <1>4, <1>8
  <2>. QED BY <2>2, <2>3, <2>4
<1>11. k = list
  <2>1. k \in Seq(S) /\ list \in Seq(Nat) /\ Len(k) = b /\ Len(list) = b
    BY <1>2, <1>8, <1>9
  <2>2. k = [i \in 1 .. b |-> k[i]]
    BY <2>1
  <2>3. list = [i \in 1 .. b |-> list[i]]
    BY <2>1
  <2>. QED BY <2>2, <2>3, <1>10
<1>. QED BY <1>5, <1>7, <1>11

\* The highest sample is the maximum of the samples.
LEMMA LargestIsMax ==
  ASSUME NEW s \in Seq(Nat), s # <<>>
  PROVE  Largest(s) = Max({s[i] : i \in DOMAIN s})
<1>1. PICK v : v = Largest(s)
  OBVIOUS
<1>2. v \in Nat /\ (\E i \in DOMAIN s : v = s[i]) /\ \A i \in DOMAIN s : s[i] <= v
  BY <1>1, LargestIsSample
<1>3. PICK S : S = {s[i] : i \in DOMAIN s}
  OBVIOUS
<1>4. \A i \in DOMAIN s : s[i] \in Int
  <2>1. \A i \in 1 .. Len(s) : s[i] \in Nat
    BY ElementOfSeq
  <2>. QED BY <2>1, LenProperties
<1>5. S \subseteq Int /\ v \in S /\ \A x \in S : x <= v
  BY <1>2, <1>3, <1>4
<1>. QED BY <1>1, <1>3, <1>5, MaxIs

\* What the heads after the first o are reported with.
LEMMA ReportDescribes ==
  ASSUME TypeOK, Recorded, KeptBlocks, NEW o \in Nat, o <= Len(blockLog),
         NEW times, IsEnd(times, Timed(o), BlockTimes),
         NEW gas, IsEnd(gas, Len(blockLog) - o, Field("gas", blockLog))
  PROVE  Describes(StatsOf(blocks.maxBlockNum, times, gas), o + 1)
<1>1. blockLog \in Seq(HeadRecord) /\ blocks \in BlockState /\ now \in Nat /\ InOrder(blockLog, now)
  BY DEF TypeOK, Recorded
<1>2. PICK n \in Nat : n = Len(blockLog) /\ DOMAIN blockLog = 1 .. n /\ (n = 0 <=> blockLog = <<>>)
  BY <1>1, LenProperties, EmptySeq
<1>3. \A i \in 1 .. n : blockLog[i] \in HeadRecord
  BY <1>1, <1>2, ElementOfSeq
<1>4. \A i \in 1 .. n : blockLog[i].at \in Nat /\ blockLog[i].number \in Nat /\ blockLog[i].gas \in Nat
  BY <1>3 DEF HeadRecord
<1>5. times \in Seq(Nat) /\ gas \in Seq(Nat) /\ o <= n
  BY <1>2 DEF IsEnd
<1>6. LastOf(BlockHistory, TimesFrom(o + 1)) = times
  <2>1. PICK from \in Nat : from = Greatest(o + 1, 2) /\ from >= 2 /\ from >= o + 1
    BY DEF Greatest
  <2>2. PICK T : T = TimesFrom(o + 1)
    OBVIOUS
  <2>3. T = [i \in 1 .. n - from + 1 |-> blockLog[from + i - 1].at - blockLog[from + i - 2].at]
    BY <2>1, <2>2, <1>2 DEF TimesFrom
  <2>4. PICK c \in Nat : c = Timed(o) /\ 1 .. n - from + 1 = 1 .. c /\ (n # 0 => c = n - from + 1)
                         /\ c <= n
    <3>1. CASE n = 0
      <4>1. Timed(o) = 0
        BY <3>1, <1>2 DEF Timed
      <4>2. 1 .. n - from + 1 = {} /\ 1 .. 0 = {}
        BY <3>1, <2>1
      <4>. QED BY <3>1, <4>1, <4>2
    <3>2. CASE n # 0
      <4>1. from = o + 1 \/ (from = 2 /\ o + 1 < 2)
        BY <2>1 DEF Greatest
      <4>2. from <= n + 1
        BY <3>2, <4>1, <1>5
      <4>3. Timed(o) = n - Greatest(o, 1)
        BY <3>2, <1>2 DEF Timed
      <4>4. Greatest(o, 1) = from - 1
        <5>1. CASE o < 1
          BY <5>1, <2>1 DEF Greatest
        <5>2. CASE ~(o < 1)
          BY <5>2, <2>1 DEF Greatest
        <5>. QED BY <5>1, <5>2
      <4>5. n - (from - 1) = n - from + 1 /\ n - from + 1 \in Nat /\ n - from + 1 <= n
        BY <4>2, <2>1
      <4>. QED BY <4>3, <4>4, <4>5
    <3>. QED BY <3>1, <3>2
  <2>5. PICK f : f = BlockTimes
    OBVIOUS
  <2>6. f = [i \in 1 .. n |-> IF i = 1 THEN 0 ELSE blockLog[i].at - blockLog[i - 1].at]
    BY <2>5, <1>2 DEF BlockTimes
  <2>7. Len(f) = n
    BY <2>6
  <2>8. ASSUME NEW i \in 1 .. c PROVE T[i] = f[n - c + i] /\ T[i] \in Int
    <3>1. n # 0 /\ c = n - from + 1
      BY <2>4
    <3>2. PICK j \in 1 .. n : j = n - c + i /\ j = from + i - 1 /\ j - 1 = from + i - 2 /\ j # 1
                              /\ j - 1 \in 1 .. n
      <4>1. PICK j \in Int : j = n - c + i
        OBVIOUS
      <4>2. j = from + i - 1
        BY ONLY <4>1, <3>1, <2>1, n \in Nat, i \in 1 .. c, c \in Nat
      <4>3. j <= n
        BY ONLY <4>1, n \in Nat, i \in 1 .. c, c \in Nat
      <4>4. j - 1 = from + i - 2 /\ j # 1 /\ j \in 1 .. n /\ j - 1 \in 1 .. n
        BY ONLY <4>2, <4>3, <2>1, n \in Nat, i \in 1 .. c, c \in Nat
      <4>. QED BY <4>1, <4>2, <4>4
    <3>3. T[i] = blockLog[j].at - blockLog[j - 1].at
      BY <3>2, <2>3, <2>4
    <3>4. f[j] = blockLog[j].at - blockLog[j - 1].at
      BY <3>2, <2>6
    <3>5. blockLog[j].at - blockLog[j - 1].at \in Int
      BY <3>2, <1>4
    <3>. QED BY <3>2, <3>3, <3>4, <3>5
  <2>9. T \in Seq(Int) /\ Len(T) = c
    <3>1. T = [i \in 1 .. c |-> T[i]]
      BY <2>3, <2>4
    <3>. QED BY <3>1, <2>8
  <2>10. IsEnd(times, c, f)
    BY <2>4, <2>5
  <2>11. \A i \in 1 .. c : T[i] = f[n - c + i]
    BY <2>8
  <2>12. LastOf(BlockHistory, T) = times
    <3>1. n = Len(f) /\ c = Len(T) /\ T \in Seq(Int) /\ n \in Nat /\ c \in Nat /\ c <= n
      BY <2>4, <2>7, <2>9
    <3>. QED BY ONLY <3>1, <2>10, <2>11, EndIsLast
  <2>. QED BY <2>2, <2>12
<1>7. LastOf(BlockHistory, Field("gas", SubSeq(blockLog, o + 1, Len(blockLog)))) = gas
  <2>1. PICK s : s = SubSeq(blockLog, o + 1, n)
    OBVIOUS
  <2>2. PICK c \in Nat : c = n - o /\ c <= n
    BY <1>5
  <2>3. s \in Seq(HeadRecord) /\ Len(s) = c /\ \A i \in 1 .. c : s[i] = blockLog[o + i]
    <3>1. o + 1 \in Int /\ n \in Int /\ \A i \in o + 1 .. n : blockLog[i] \in HeadRecord
      BY <1>3
    <3>2. /\ SubSeq(blockLog, o + 1, n) \in Seq(HeadRecord)
          /\ Len(SubSeq(blockLog, o + 1, n)) = (IF o + 1 <= n THEN n - (o + 1) + 1 ELSE 0)
          /\ \A i \in 1 .. n - (o + 1) + 1 : SubSeq(blockLog, o + 1, n)[i] = blockLog[(o + 1) + i - 1]
      BY ONLY <3>1, SubSeqProperties
    <3>3. n - (o + 1) + 1 = c /\ (o + 1 <= n \/ c = 0)
      BY <2>2
    <3>4. Len(s) = c
      BY <3>2, <3>3, <2>1, <2>2
    <3>5. ASSUME NEW i \in 1 .. c PROVE s[i] = blockLog[o + i]
      <4>1. (o + 1) + i - 1 = o + i
        OBVIOUS
      <4>. QED BY <4>1, <3>2, <3>3, <2>1
    <3>. QED BY <3>2, <3>4, <3>5, <2>1
  <2>4. PICK T : T = Field("gas", s)
    OBVIOUS
  <2>5. DOMAIN s = 1 .. c
    BY <2>3, LenProperties
  <2>6. T = [i \in 1 .. c |-> s[i].gas]
    BY <2>4, <2>5 DEF Field
  <2>7. PICK f : f = Field("gas", blockLog)
    OBVIOUS
  <2>8. f = [i \in 1 .. n |-> blockLog[i].gas]
    BY <2>7, <1>2 DEF Field
  <2>9. ASSUME NEW i \in 1 .. c PROVE T[i] = f[n - c + i] /\ T[i] \in Int
    <3>1. n - c + i = o + i /\ o + i \in 1 .. n
      BY ONLY <2>2, <1>5, n \in Nat, i \in 1 .. c, c \in Nat, o \in Nat
    <3>2. PICK j \in 1 .. n : j = o + i
      BY <3>1
    <3>3. T[i] = blockLog[j].gas
      BY <3>2, <2>3, <2>6
    <3>4. f[j] = blockLog[j].gas /\ n - c + i = j
      BY <3>1, <3>2, <2>8
    <3>. QED BY <3>3, <3>4, <1>4
  <2>10. T \in Seq(Int) /\ Len(T) = c /\ Len(f) = n
    <3>1. T = [i \in 1 .. c |-> T[i]]
      BY <2>6
    <3>2. T \in Seq(Int) /\ Len(T) = c
      BY <3>1, <2>9
    <3>. QED BY <3>2, <2>8
  <2>11. IsEnd(gas, c, f)
    BY <2>2, <2>7, <1>2
  <2>12. \A i \in 1 .. c : T[i] = f[n - c + i]
    BY <2>9
  <2>13. LastOf(BlockHistory, T) = gas
    <3>1. n = Len(f) /\ c = Len(T) /\ T \in Seq(Int) /\ n \in Nat /\ c \in Nat /\ c <= n
      BY <2>2, <2>10
    <3>. QED BY ONLY <3>1, <2>11, <2>12, EndIsLast
  <2>. QED BY <2>1, <2>4, <2>13, <1>2
<1>8. blocks.maxBlockNum = Max({0} \cup {blockLog[i].number : i \in DOMAIN blockLog})
  <2>1. PICK x \in Nat : x = blocks.maxBlockNum
    BY <1>1 DEF BlockState
  <2>2. PICK S : S = {0} \cup {blockLog[i].number : i \in DOMAIN blockLog}
    OBVIOUS
  <2>3. S \subseteq Int
    BY <2>2, <1>2, <1>4
  <2>4. x \in S /\ \A y \in S : y <= x
    BY <2>1, <2>2, <1>2 DEF KeptBlocks
  <2>. QED BY <2>1, <2>2, <2>3, <2>4, MaxIs
<1>9. PICK stats : stats = StatsOf(blocks.maxBlockNum, times, gas)
  OBVIOUS
<1>10. /\ stats.maxBlockNumber = blocks.maxBlockNum /\ stats.sampleCount = Len(times)
       /\ stats.p50BlockTime = Percentile(50, times) /\ stats.p99BlockTime = Percentile(99, times)
       /\ stats.maxBlockTime = Largest(times)
       /\ stats.p50GasUsed = GasPercentile(50, gas) /\ stats.p99GasUsed = GasPercentile(99, gas)
       /\ stats.maxGasUsed = Largest(gas)
  BY <1>9 DEF StatsOf
<1>11. ASSUME times # <<>>
       PROVE  /\ stats.maxBlockTime = Max({times[i] : i \in DOMAIN times})
              /\ IsQuantile(stats.p50BlockTime, 50, times) /\ IsQuantile(stats.p99BlockTime, 99, times)
  <2>1. 50 \in 0 .. 100 /\ 99 \in 0 .. 100
    OBVIOUS
  <2>2. IsQuantile(Percentile(50, times), 50, times) /\ IsQuantile(Percentile(99, times), 99, times)
    BY <2>1, <1>5, <1>11, PercentileIsQuantile
  <2>3. Largest(times) = Max({times[i] : i \in DOMAIN times})
    BY <1>5, <1>11, LargestIsMax
  <2>. QED BY <2>2, <2>3, <1>10
<1>12. ASSUME gas # <<>>
       PROVE  /\ stats.maxGasUsed = Max({gas[i] : i \in DOMAIN gas})
              /\ \A v \in {<<50, stats.p50GasUsed>>, <<99, stats.p99GasUsed>>} :
                   /\ 100 * Below(v[2], gas) <= v[1] * (Len(gas) - 1)
                   /\ 100 * AtMost(v[2], gas) > v[1] * (Len(gas) - 1)
  <2>1. 50 \in 0 .. 100 /\ 99 \in 0 .. 100
    OBVIOUS
  <2>2. Largest(gas) = Max({gas[i] : i \in DOMAIN gas})
    BY <1>5, <1>12, LargestIsMax
  <2>3. ASSUME NEW p \in 0 .. 100, NEW x, x = GasPercentile(p, gas)
        PROVE  /\ 100 * Below(x, gas) <= p * (Len(gas) - 1)
               /\ 100 * AtMost(x, gas) > p * (Len(gas) - 1)
    BY <2>3, <1>5, <1>12, GasPercentileIsSample
  <2>4. /\ 100 * Below(stats.p50GasUsed, gas) <= 50 * (Len(gas) - 1)
        /\ 100 * AtMost(stats.p50GasUsed, gas) > 50 * (Len(gas) - 1)
    BY <2>1, <2>3, <1>10
  <2>5. /\ 100 * Below(stats.p99GasUsed, gas) <= 99 * (Len(gas) - 1)
        /\ 100 * AtMost(stats.p99GasUsed, gas) > 99 * (Len(gas) - 1)
    BY <2>1, <2>3, <1>10
  <2>6. ASSUME NEW v \in {<<50, stats.p50GasUsed>>, <<99, stats.p99GasUsed>>}
        PROVE  \/ v[1] = 50 /\ v[2] = stats.p50GasUsed
               \/ v[1] = 99 /\ v[2] = stats.p99GasUsed
    OBVIOUS
  <2>. QED BY <2>2, <2>4, <2>5, <2>6, <1>10
<1>13. stats.maxBlockNumber = Max({0} \cup {blockLog[i].number : i \in DOMAIN blockLog})
  BY <1>8, <1>10
<1>14. Describes(stats, o + 1)
  <2>. DEFINE t == LastOf(BlockHistory, TimesFrom(o + 1))
              g == LastOf(BlockHistory, Field("gas", SubSeq(blockLog, o + 1, Len(blockLog))))
  <2>1. t = times /\ g = gas
    BY <1>6, <1>7
  <2>2. stats.sampleCount = Len(t)
    BY <1>10, <2>1
  <2>3. t # <<>> => /\ stats.maxBlockTime = Max({t[i] : i \in DOMAIN t})
                    /\ IsQuantile(stats.p50BlockTime, 50, t)
                    /\ IsQuantile(stats.p99BlockTime, 99, t)
    <3>. HIDE DEF t, g
    <3>. QED BY <1>11, <2>1
  <2>4. g # <<>> =>
          /\ stats.maxGasUsed = Max({g[i] : i \in DOMAIN g})
          /\ \A v \in {<<50, stats.p50GasUsed>>, <<99, stats.p99GasUsed>>} :
               /\ 100 * Below(v[2], g) <= v[1] * (Len(g) - 1)
               /\ 100 * AtMost(v[2], g) > v[1] * (Len(g) - 1)
    <3>. HIDE DEF t, g
    <3>. QED BY <1>12, <2>1
  <2>. QED BY ONLY <1>13, <2>2, <2>3, <2>4 DEF Describes
<1>. QED BY <1>9, <1>14

-----------------------------------------------------------------------------
(* The types, and the initial states.                                      *)

\* The collectors keep their types, and their histories within bounds.
LEMMA TypesStep ==
  ASSUME TypeOK, Recorded, KeptBlocks', [Next]_vars
  PROVE  TypeOK'
<1>1. /\ plan \in Plan /\ now \in Nat /\ txCounts \in [Names -> Nat] /\ totalTxs \in Nat
      /\ latencies \in Seq(Latency) /\ Len(latencies) <= History
      /\ timestamps \in Seq(Nat) /\ maxTps \in Nat
      /\ windowStats \in [txCount : Nat, sum : Nat, max : Nat, min : Nat, cumulativeMax : Nat]
      /\ logger \in [pc : {"off", "wait", "reset", "resetBlocks"}, txs : Nat, blocks : Nat]
      /\ run \in {"running", "joined", "logged", "reported"} /\ accepted \in Nat
  BY DEF TypeOK, Names
<1>2. \A f \in {"allBlockTimes", "allGasUsed", "windowBlockTimes", "windowGasUsed"} :
        blocks'[f] \in Seq(Nat) /\ Len(blocks'[f]) <= BlockHistory
  <2>1. ASSUME NEW list, NEW count, NEW f, IsEnd(list, count, f)
        PROVE  list \in Seq(Nat) /\ Len(list) <= BlockHistory
    <3>1. list \in Seq(Nat) /\ count \in Nat /\ Len(list) = Least(count, BlockHistory)
      BY <2>1 DEF IsEnd
    <3>. QED BY <3>1, BlockHistoryAssumption DEF Least
  <2>2. PICK b : b = blocks'
    OBVIOUS
  <2>3. PICK counts : counts = <<Len(blockLog'), Len(blockLog') - (reported').blocksOpened,
                                 Timed(0)', Timed(reported.blocksOpened)'>>
    OBVIOUS
  <2>4. PICK times, gas : times = (BlockTimes)' /\ gas = Field("gas", blockLog)'
    OBVIOUS
  <2>5. /\ IsEnd(b.allGasUsed, counts[1], gas) /\ IsEnd(b.windowGasUsed, counts[2], gas)
        /\ IsEnd(b.allBlockTimes, counts[3], times) /\ IsEnd(b.windowBlockTimes, counts[4], times)
    BY <2>2, <2>3, <2>4 DEF KeptBlocks, IsEnd
  <2>6. /\ b.allGasUsed \in Seq(Nat) /\ Len(b.allGasUsed) <= BlockHistory
        /\ b.windowGasUsed \in Seq(Nat) /\ Len(b.windowGasUsed) <= BlockHistory
        /\ b.allBlockTimes \in Seq(Nat) /\ Len(b.allBlockTimes) <= BlockHistory
        /\ b.windowBlockTimes \in Seq(Nat) /\ Len(b.windowBlockTimes) <= BlockHistory
    BY <2>1, <2>5
  <2>. QED BY <2>2, <2>6
<1>3. ASSUME NEW s \in Names, NEW l \in Latency, NEW ok \in BOOLEAN, RecordTransaction(s, l, ok)
      PROVE  TypeOK'
  <2>1. l \in Nat
    BY LatencyAssumption
  <2>2. txCounts' \in [Names -> Nat] /\ totalTxs' \in Nat
    <3>1. txCounts' = [txCounts EXCEPT ![s] = txCounts[s] + 1] /\ totalTxs' = totalTxs + 1
      BY <1>3 DEF RecordTransaction
    <3>2. txCounts[s] + 1 \in Nat /\ totalTxs + 1 \in Nat
      BY <1>1
    <3>. QED BY <3>1, <3>2, <1>1
  <2>3. latencies' \in Seq(Latency) /\ Len(latencies') <= History
    <3>1. PICK ls : ls = Append(latencies, l)
      OBVIOUS
    <3>2. ls \in Seq(Latency) /\ Len(ls) \in Nat
      BY <3>1, <1>1, AppendProperties, LenProperties
    <3>3. PICK k : k = Recent(ls)
      OBVIOUS
    <3>4. k \in Seq(Latency) /\ Len(k) <= History
      BY ONLY <3>2, <3>3, RecentIsEnd
    <3>. QED BY <3>1, <3>3, <3>4, <1>1, <1>3 DEF RecordTransaction
  <2>4. timestamps' \in Seq(Nat)
    <3>1. PICK u : u = Append(timestamps, now)
      OBVIOUS
    <3>2. PICK z \in Nat : z = Len(u) /\ z > 0 /\ u \in Seq(Nat) /\ u[z] = now
      <4>1. Len(timestamps) \in Nat
        BY <1>1, LenProperties
      <4>2. u \in Seq(Nat) /\ Len(u) = Len(timestamps) + 1 /\ u[Len(timestamps) + 1] = now
        BY <3>1, <1>1, AppendProperties
      <4>. QED BY <4>1, <4>2
    <3>3. InWindow(u[z])
      BY <3>2, <1>1, BoundAssumption DEF InWindow
    <3>4. PICK w : w = timestamps' /\ w = Trimmed(u)
      BY <3>1, <1>3 DEF RecordTransaction
    <3>5. w \in Seq(Nat)
      <4>1. w = Trimmed(u) /\ z = Len(u) /\ z > 0 /\ u \in Seq(Nat)
        BY <3>2, <3>4
      <4>. QED BY ONLY <4>1, <3>3, z \in Nat, TrimmedIsEnd
    <3>. QED BY <3>4, <3>5
  <2>5. maxTps' \in Nat
    <3>1. Len(timestamps') \in Nat
      BY <2>4, LenProperties
    <3>. QED BY <3>1, <1>1, <1>3 DEF RecordTransaction, Greatest
  <2>6. windowStats' \in [txCount : Nat, sum : Nat, max : Nat, min : Nat, cumulativeMax : Nat]
    <3>1. PICK w : w = windowStats
      OBVIOUS
    <3>2. w.min # 0 => Least(w.min, l) \in Nat
      BY <3>1, <2>1, <1>1 DEF Least
    <3>3. Greatest(w.max, l) \in Nat /\ Greatest(w.cumulativeMax, l) \in Nat
      BY <3>1, <2>1, <1>1 DEF Greatest
    <3>4. windowStats' = [w EXCEPT !.txCount = w.txCount + 1, !.sum = w.sum + l,
                                   !.max = Greatest(w.max, l),
                                   !.min = IF w.min = 0 THEN l ELSE Least(w.min, l),
                                   !.cumulativeMax = Greatest(w.cumulativeMax, l)]
      BY <3>1, <1>3 DEF RecordTransaction, Widened
    <3>5. PICK least, most, highest \in Nat :
            /\ least = (IF w.min = 0 THEN l ELSE Least(w.min, l))
            /\ most = Greatest(w.max, l) /\ highest = Greatest(w.cumulativeMax, l)
      BY <3>2, <3>3, <2>1
    <3>6. w \in [txCount : Nat, sum : Nat, max : Nat, min : Nat, cumulativeMax : Nat]
          /\ w.txCount + 1 \in Nat /\ w.sum + l \in Nat
      BY <3>1, <2>1, <1>1
    <3>7. windowStats' = [w EXCEPT !.txCount = w.txCount + 1, !.sum = w.sum + l, !.max = most,
                                   !.min = least, !.cumulativeMax = highest]
      BY <3>4, <3>5
    <3>. QED BY ONLY <3>6, <3>7, least \in Nat, most \in Nat, highest \in Nat
  <2>7. UNCHANGED <<plan, now, logger, run, accepted>>
    BY <1>3 DEF RecordTransaction
  <2>. QED BY <2>2, <2>3, <2>4, <2>5, <2>6, <2>7, <1>1, <1>2 DEF TypeOK, Names
<1>4. ASSUME NEW header \in Header, RecordBlock(header) PROVE TypeOK'
  <2>1. UNCHANGED <<plan, now, collectorVars, logger, run, accepted>>
    BY <1>4 DEF RecordBlock
  <2>. QED BY <2>1, <1>1, <1>2 DEF TypeOK, Names, collectorVars
<1>5. ASSUME ResetWindowStats PROVE TypeOK'
  <2>1. /\ UNCHANGED <<plan, now, txCounts, totalTxs, latencies, timestamps, maxTps, run, accepted>>
        /\ logger' = [logger EXCEPT !.pc = IF plan.tracked THEN "resetBlocks" ELSE "wait"]
        /\ windowStats' = EmptyWindow(windowStats.cumulativeMax)
    BY <1>5 DEF ResetWindowStats
  <2>2. windowStats' \in [txCount : Nat, sum : Nat, max : Nat, min : Nat, cumulativeMax : Nat]
    BY <2>1, <1>1 DEF EmptyWindow
  <2>3. logger' \in [pc : {"off", "wait", "reset", "resetBlocks"}, txs : Nat, blocks : Nat]
    BY <2>1, <1>1
  <2>. QED BY <2>1, <2>2, <2>3, <1>1, <1>2 DEF TypeOK, Names
<1>6. ASSUME ResetBlocks PROVE TypeOK'
  <2>1. UNCHANGED <<plan, now, collectorVars, run, accepted>> /\ logger' = [logger EXCEPT !.pc = "wait"]
    BY <1>6 DEF ResetBlocks
  <2>2. logger' \in [pc : {"off", "wait", "reset", "resetBlocks"}, txs : Nat, blocks : Nat]
    BY <2>1, <1>1
  <2>. QED BY <2>1, <2>2, <1>1, <1>2 DEF TypeOK, Names, collectorVars
<1>7. ASSUME LogFinalStats PROVE TypeOK'
  <2>1. UNCHANGED <<plan, now, collectorVars, logger, accepted>> /\ run' = "logged"
    BY <1>7 DEF LogFinalStats
  <2>. QED BY <2>1, <1>1, <1>2 DEF TypeOK, Names, collectorVars
<1>8. ASSUME Quiet PROVE TypeOK'
  <2>1. /\ UNCHANGED <<plan, txCounts, totalTxs, latencies, timestamps, maxTps, windowStats>>
        /\ now' \in Nat /\ accepted' \in Nat
        /\ logger' \in [pc : {"off", "wait", "reset", "resetBlocks"}, txs : Nat, blocks : Nat]
        /\ run' \in {"running", "joined", "logged", "reported"}
    BY <1>1, <1>8 DEF Quiet
  <2>. QED BY <2>1, <1>1, <1>2 DEF TypeOK, Names
<1>. QED BY <1>3, <1>4, <1>5, <1>6, <1>7, <1>8, Steps

\* A sum of zeros is 0.
LEMMA SumOfZeros ==
  ASSUME NEW T, IsFiniteSet(T), NEW f, \A x \in T : f[x] = 0
  PROVE  SumFunctionOnSet(f, T) = 0
<1>1. PICK h : SumsUp(h, f, T) /\ SumFunctionOnSet(f, T) = h[T]
  BY SumUnfolds
<1> DEFINE g == [s \in SUBSET T |-> 0]
<1>2. SumsUp(g, f, T)
  <2>1. ASSUME NEW s \in SUBSET T, s # {} PROVE f[First(s)] + g[s \ {First(s)}] = 0
    <3>1. First(s) \in T
      BY <2>1, FirstIsIn
    <3>. QED BY <3>1
  <2>2. \A s \in SUBSET T : g[s] = IF s = {} THEN 0 ELSE f[First(s)] + g[s \ {First(s)}]
    BY <2>1
  <2>. QED BY ONLY <2>2, Zenon DEF SumsUp
<1>3. g[T] = 0
  OBVIOUS
<1>. HIDE DEF g
<1>4. T \subseteq T /\ Agree(f, f, T)
  BY DEF Agree
<1>5. h[T] = g[T]
  BY ONLY <1>1, <1>2, <1>4, IsFiniteSet(T), SumsAgree
<1>. QED BY <1>1, <1>3, <1>5

\* At the start nothing is recorded, and every figure is 0.
LEMMA InitStatistics == Init => StatisticsInv
<1>. SUFFICES ASSUME Init PROVE StatisticsInv
  OBVIOUS
<1>1. /\ plan \in Plan /\ now = 1 /\ txCounts = [s \in Names |-> 0] /\ totalTxs = 0
      /\ latencies = <<>> /\ timestamps = <<>> /\ maxTps = 0 /\ windowStats = EmptyWindow(0)
      /\ blocks = NoBlocks /\ logger = [pc |-> "off", txs |-> 0, blocks |-> 0]
      /\ run = "running" /\ accepted = 0 /\ log = <<>> /\ blockLog = <<>>
      /\ reported = [txs |-> 0, blocks |-> 0, opened |-> 0, blocksOpened |-> 0]
  BY DEF Init, Names
<1>2. /\ plan \in [txs : Nat, heads : Nat, polls : Nat, tracked : BOOLEAN, prewarm : BOOLEAN]
      /\ History \in Nat /\ IsFiniteSet(Names) /\ BlockHistory \in Nat
  BY <1>1, BoundAssumption, BlockHistoryAssumption, FS_AddElement DEF Names
<1>3. Len(<<>>) = 0 /\ DOMAIN <<>> = {} /\ 1 .. 0 = {}
  OBVIOUS
<1>4. TypeOK
  <2>1. \A S : <<>> \in Seq(S)
    OBVIOUS
  <2>2. \A f \in {"allBlockTimes", "allGasUsed", "windowBlockTimes", "windowGasUsed"} :
          blocks[f] = <<>>
    BY <1>1 DEF NoBlocks
  <2>3. windowStats \in [txCount : Nat, sum : Nat, max : Nat, min : Nat, cumulativeMax : Nat]
    BY <1>1 DEF EmptyWindow
  <2>4. \A f \in {"allBlockTimes", "allGasUsed", "windowBlockTimes", "windowGasUsed"} :
          blocks[f] \in Seq(Nat) /\ Len(blocks[f]) <= BlockHistory
    <3>1. Len(<<>>) <= BlockHistory /\ <<>> \in Seq(Nat)
      BY BlockHistoryAssumption
    <3>. QED BY ONLY <3>1, <2>2
  <2>5. /\ latencies \in Seq(Latency) /\ Len(latencies) <= History /\ timestamps \in Seq(Nat)
        /\ txCounts \in [Names -> Nat]
    BY <2>1, <1>1, <1>2, <1>3
  <2>6. logger \in [pc : {"off", "wait", "reset", "resetBlocks"}, txs : Nat, blocks : Nat]
    BY <1>1
  <2>. QED BY <2>3, <2>4, <2>5, <2>6, <1>1 DEF TypeOK, Names
<1>5. Recorded
  <2>1. blocks \in BlockState
    BY <1>1 DEF BlockState, NoBlocks, ZeroTime
  <2>2. InOrder(<<>>, now)
    BY <1>3 DEF InOrder
  <2>3. <<>> \in Seq(SendRecord) /\ <<>> \in Seq(HeadRecord)
    OBVIOUS
  <2>. QED BY <2>1, <2>2, <2>3, <1>1, <1>2, <1>3 DEF Recorded
<1>6. Partition
  <2>1. Late(<<>>) = 0
    <3>1. {i \in DOMAIN <<>> : <<>>[i].late} = {}
      BY <1>3
    <3>. QED BY <3>1, FS_EmptySet DEF Late
  <2>. QED BY <2>1, <1>1, <1>3 DEF Partition, EmptyWindow, NoBlocks
<1>7. OpenWindow
  <2>1. SumFunctionOnSet(Field("latency", log), {}) = 0
    BY FS_EmptySet, SumOfZeros
  <2>2. reported.opened + 1 .. Len(log) = {}
    BY <1>1, <1>3
  <2>. QED BY <2>1, <2>2, <1>1, <1>3 DEF OpenWindow, EmptyWindow
<1>8. SendRates
  BY <1>1, <1>3 DEF SendRates, Dropped
<1>9. KeptBlocks
  <2>1. PICK gas, times : gas = Field("gas", blockLog) /\ times = BlockTimes
    OBVIOUS
  <2>2. Len(gas) \in Nat /\ Len(times) \in Nat
    BY <2>1, <1>1, <1>3 DEF Field, BlockTimes
  <2>3. IsEnd(<<>>, 0, gas) /\ IsEnd(<<>>, 0, times)
    BY <2>2, NoEnd
  <2>4. Timed(0) = 0 /\ Timed(reported.blocksOpened) = 0 /\ Len(blockLog) = 0
        /\ Len(blockLog) - reported.blocksOpened = 0
    BY <1>1, <1>3 DEF Timed
  <2>. QED BY <2>1, <2>3, <2>4, <1>1, <1>3 DEF KeptBlocks, NoBlocks
<1>10. Totals
  <2>1. SumFunction(txCounts) = 0
    <3>1. DOMAIN txCounts = Names /\ \A s \in Names : txCounts[s] = 0
      BY <1>1
    <3>. QED BY <3>1, <1>2, SumOfZeros DEF SumFunction
  <2>2. ASSUME NEW s \in Names PROVE txCounts[s] = Cardinality({i \in DOMAIN log : log[i].scenario = s})
    <3>1. {i \in DOMAIN log : log[i].scenario = s} = {}
      BY <1>1, <1>3
    <3>. QED BY <3>1, <1>1, FS_EmptySet
  <2>. QED BY <2>1, <2>2, <1>1, <1>3 DEF Totals
<1>11. KeptLatencies
  <2>1. PICK f : f = [i \in 1 .. Len(latencies) |-> i]
    OBVIOUS
  <2>2. f \in [1 .. Len(latencies) -> Successes]
    BY <2>1, <1>1, <1>3
  <2>3. Successes = {}
    BY <1>1, <1>3 DEF Successes
  <2>4. Traces(f)
    BY <2>2, <2>3, <1>1, <1>3 DEF Traces
  <2>. QED BY <2>2, <2>4 DEF KeptLatencies
<1>12. FinalIsExact
  BY <1>1 DEF FinalIsExact
<1>. QED BY <1>4, <1>5, <1>6, <1>7, <1>8, <1>9, <1>10, <1>11, <1>12 DEF StatisticsInv

-----------------------------------------------------------------------------
(* The final report.                                                       *)

\* The report, once printed, stays that of the run: nobody records any more.
LEMMA FinalStep ==
  ASSUME TypeOK, Recorded, KeptBlocks, Totals, FinalIsExact, [Next]_vars
  PROVE  FinalIsExact'
<1>1. ASSUME blockLog' = blockLog, NEW stats, NEW first, Describes(stats, first)
      PROVE  Describes(stats, first)'
  BY <1>1 DEF Describes, TimesFrom
<1>2. CASE LogFinalStats
  <2>1. /\ final' = FinalStats /\ UNCHANGED <<plan, log, blockLog, reported>>
    BY <1>2 DEF LogFinalStats, history
  <2>2. blockLog \in Seq(HeadRecord) /\ blocks \in BlockState
        /\ reported.blocksOpened \in Nat /\ reported.blocksOpened <= Len(blockLog)
    BY DEF Recorded
  <2>3. PICK n \in Nat : n = Len(blockLog) /\ (n = 0 <=> blockLog = <<>>)
    BY <2>2, LenProperties, EmptySeq
  <2>4. PICK o \in Nat : o = reported.blocksOpened /\ o <= Len(blockLog)
    BY <2>2
  <2>5. PICK win, all : win = GetWindowBlockStats(blocks) /\ all = GetBlockStats(blocks)
    OBVIOUS
  <2>6. Describes(win, o + 1)
    <3>1. PICK times, gas : times = blocks.windowBlockTimes /\ gas = blocks.windowGasUsed
      OBVIOUS
    <3>2. IsEnd(times, Timed(o), BlockTimes) /\ IsEnd(gas, Len(blockLog) - o, Field("gas", blockLog))
      BY <3>1, <2>4 DEF KeptBlocks
    <3>3. Describes(StatsOf(blocks.maxBlockNum, times, gas), o + 1)
      BY ONLY <3>2, <2>4, TypeOK, Recorded, KeptBlocks, ReportDescribes
    <3>. QED BY <3>1, <3>3, <2>5 DEF GetWindowBlockStats
  <2>7. Describes(all, 1)
    <3>1. PICK times, gas : times = blocks.allBlockTimes /\ gas = blocks.allGasUsed
      OBVIOUS
    <3>2. PICK z \in Nat : z = 0 /\ z <= Len(blockLog)
      BY <2>3
    <3>3. IsEnd(times, Timed(z), BlockTimes) /\ IsEnd(gas, Len(blockLog) - z, Field("gas", blockLog))
      <4>1. Len(blockLog) - z = Len(blockLog)
        BY <2>3, <3>2
      <4>. QED BY <4>1, <3>1, <3>2 DEF KeptBlocks
    <3>4. Describes(StatsOf(blocks.maxBlockNum, times, gas), z + 1)
      BY ONLY <3>2, <3>3, TypeOK, Recorded, KeptBlocks, ReportDescribes
    <3>5. z + 1 = 1
      BY <3>2
    <3>. QED BY <3>1, <3>4, <3>5, <2>5 DEF GetBlockStats
  <2>8. /\ FinalStats.totalTxs = totalTxs /\ FinalStats.scenarioDistribution = txCounts
        /\ FinalStats.blockStatistics = Printed(win) /\ FinalStats.gasStatistics = Printed(all)
    BY <2>5 DEF FinalStats
  <2>9. \A stats \in Printed(win) : stats = win
    BY DEF Printed
  <2>10. \A stats \in Printed(all) : stats = all
    BY DEF Printed
  <2>11. plan.tracked /\ n > 1 => Printed(all) # {}
    <3>1. SUFFICES ASSUME plan.tracked, n > 1 PROVE all.sampleCount > 0
      BY DEF Printed
    <3>2. Timed(0) = n - 1
      BY <3>1, <2>3 DEF Timed, Greatest
    <3>3. Len(blocks.allBlockTimes) = Least(n - 1, BlockHistory)
      BY <3>2 DEF KeptBlocks, IsEnd
    <3>4. Least(n - 1, BlockHistory) > 0
      BY <3>1, BlockHistoryAssumption DEF Least
    <3>. QED BY <3>3, <3>4, <2>5 DEF GetBlockStats, StatsOf
  <2>12. /\ (final').totalTxs = Len(log') /\ (final').totalTxs = SumFunction((final').scenarioDistribution)
    BY <2>1, <2>8 DEF Totals
  <2>13. \A s \in Scenario \cup {Prewarm} :
           (final').scenarioDistribution[s] = Cardinality({i \in DOMAIN log' : log'[i].scenario = s})
    BY <2>1, <2>8 DEF Totals, Names
  <2>14. ASSUME NEW stats \in (final').blockStatistics PROVE Describes(stats, reported.blocksOpened + 1)'
    <3>1. Describes(stats, o + 1)'
      BY <2>1, <2>6, <2>8, <2>9, <1>1
    <3>2. (reported').blocksOpened = o
      BY <2>1, <2>4
    <3>. QED BY <3>1, <3>2 DEF Describes
  <2>15. ASSUME NEW stats \in (final').gasStatistics PROVE Describes(stats, 1)'
    BY <2>1, <2>7, <2>8, <2>10, <1>1
  <2>16. plan'.tracked /\ Len(blockLog') > 1 => (final').gasStatistics # {}
    BY <2>1, <2>3, <2>8, <2>11
  <2>. QED BY <2>12, <2>13, <2>14, <2>15, <2>16 DEF FinalIsExact
<1>3. ASSUME run' \in {"logged", "reported"} => run \in {"logged", "reported"},
             UNCHANGED <<plan, log, blockLog, reported, final>>
      PROVE  FinalIsExact'
  <2>1. SUFFICES ASSUME run' \in {"logged", "reported"} PROVE FinalIsExact'
    BY DEF FinalIsExact
  <2>2. run \in {"logged", "reported"}
    BY <2>1, <1>3
  <2>3. ASSUME NEW stats \in (final').blockStatistics PROVE Describes(stats, reported.blocksOpened + 1)'
    <3>1. Describes(stats, reported.blocksOpened + 1)
      BY <2>2, <1>3 DEF FinalIsExact
    <3>2. PICK first : first = reported.blocksOpened + 1
      OBVIOUS
    <3>3. Describes(stats, first)'
      BY <3>1, <3>2, <1>1, <1>3
    <3>4. first = (reported').blocksOpened + 1
      BY <3>2, <1>3
    <3>. QED BY <3>3, <3>4 DEF Describes
  <2>4. ASSUME NEW stats \in (final').gasStatistics PROVE Describes(stats, 1)'
    <3>1. Describes(stats, 1)
      BY <2>2, <1>3 DEF FinalIsExact
    <3>. QED BY <3>1, <1>1, <1>3
  <2>5. /\ (final').totalTxs = Len(log') /\ (final').totalTxs = SumFunction((final').scenarioDistribution)
        /\ \A s \in Scenario \cup {Prewarm} :
             (final').scenarioDistribution[s] = Cardinality({i \in DOMAIN log' : log'[i].scenario = s})
        /\ plan'.tracked /\ Len(blockLog') > 1 => (final').gasStatistics # {}
    BY <2>2, <1>3 DEF FinalIsExact
  <2>. QED BY <2>3, <2>4, <2>5 DEF FinalIsExact
<1>4. ASSUME run = "running", run' = run PROVE FinalIsExact'
  BY <1>4 DEF FinalIsExact
<1>5. ASSUME NEW s \in Names, NEW l \in Latency, NEW ok \in BOOLEAN, RecordTransaction(s, l, ok)
      PROVE  FinalIsExact'
  BY <1>4, <1>5 DEF RecordTransaction
<1>6. ASSUME NEW header \in Header, RecordBlock(header) PROVE FinalIsExact'
  BY <1>4, <1>6 DEF RecordBlock
<1>7. CASE ResetWindowStats
  <2>1. run = "running" /\ run' = run
    BY <1>7 DEF ResetWindowStats, Recorded
  <2>. QED BY <2>1, <1>4
<1>8. CASE ResetBlocks
  <2>1. run = "running" /\ run' = run
    BY <1>8 DEF ResetBlocks, Recorded
  <2>. QED BY <2>1, <1>4
<1>9. CASE Quiet
  BY <1>3, <1>9 DEF Quiet
<1>. QED BY <1>2, <1>5, <1>6, <1>7, <1>8, <1>9, Steps

-----------------------------------------------------------------------------
(* The line of the latency tracker.                                        *)

\* A second u of a Time and the low word low of the value it is of.
Internal(low, u) ==
  /\ u \in Int
  /\ 2 * low >= Word => u = (low - Word) + UnixToInternal
  /\ ~(2 * low >= Word) /\ 2 * (low + UnixToInternal) >= Word => u = (low + UnixToInternal) - Word
  /\ ~(2 * (low + UnixToInternal) >= Word) => u = low + UnixToInternal

\* The two conversions of a value, together: each may wrap.
LEMMA UnixOfInt64 ==
  ASSUME NEW v \in Nat
  PROVE  Internal(v % Word, Unix(Int64(v)))
<1>1. PICK w \in Nat : w = Word /\ w > 0
  BY UserLatencyAssumption
<1>2. PICK o \in Nat : o = UnixToInternal /\ 2 * o < w
  BY <1>1, UserLatencyAssumption
<1>3. PICK low \in Nat : low = v % Word /\ low < w
  BY <1>1
<1>4. PICK i \in Int : i = Int64(v) /\ i = IF 2 * low >= w THEN low - w ELSE low
  BY <1>1, <1>3 DEF Int64
<1>5. PICK n \in Int : n = i + o
  OBVIOUS
<1>6. PICK u : u = Unix(Int64(v)) /\ u = IF 2 * (n % w) >= w THEN (n % w) - w ELSE n % w
  BY <1>1, <1>2, <1>4, <1>5 DEF Unix, Int64
<1>7. n % w = IF n < 0 THEN n + w ELSE n
  <2>1. -w < n /\ n < w
    BY <1>1, <1>2, <1>3, <1>4, <1>5
  <2>2. CASE n < 0
    <3>1. n = w * (-1) + (n + w) /\ n + w \in Nat /\ n + w < w
      BY <1>1, <2>1, <2>2
    <3>. QED BY <1>1, <2>2, <3>1
  <2>3. CASE ~(n < 0)
    <3>1. n = w * 0 + n /\ n \in Nat /\ n < w
      BY <1>1, <2>1, <2>3
    <3>2. n % w = n
      BY <1>1, <3>1, EuclidUnique
    <3>. QED BY <2>3, <3>2
  <2>. QED BY <2>2, <2>3
<1>8. /\ u \in Int
      /\ 2 * low >= w => u = (low - w) + o
      /\ ~(2 * low >= w) /\ 2 * (low + o) >= w => u = (low + o) - w
      /\ ~(2 * (low + o) >= w) => u = low + o
  BY <1>1, <1>2, <1>3, <1>4, <1>5, <1>6, <1>7
<1>. QED BY <1>1, <1>2, <1>3, <1>6, <1>8 DEF Internal

\* The latency l a value v of low word low gives in a block of second t: that of
\* a second up to t, else less than nothing, unless low is a second up to t or
\* wraps to one before 1970.
GivesLatency(v, low, l, t) ==
  /\ l \in Int /\ low \in Nat
  /\ v <= t => l = t - v
  /\ Past(v) => l > t
  /\ ~Past(v) => l <= t
  /\ l >= 0 <=> Past(v) \/ low <= t
  /\ 2 * (v + UnixToInternal) < Word => ~Past(v) /\ low = v

\* Every value does.
LEMMA SinceFacts ==
  ASSUME NEW t \in 0 .. MaxDuration - 1, NEW v \in Nat
  PROVE  GivesLatency(v, v % Word, Sub(Unix(t), Unix(Int64(v))), t)
<1>1. PICK w \in Nat : w = Word
  BY UserLatencyAssumption
<1>2. PICK m \in Nat, o \in Nat : m = MaxDuration /\ o = UnixToInternal /\ m > 0 /\ 2 * (o + m) < w
  BY <1>1, UserLatencyAssumption
<1>3. t \in Nat /\ t < m
  BY <1>2
<1>4. PICK low \in Nat : low = v % Word /\ low < w
  BY <1>1, <1>2
<1>5. ASSUME NEW x \in Nat, x < w PROVE x % w = x
  <2>1. x = w * 0 + x /\ w > 0
    BY <1>1, <1>2
  <2>. QED BY <1>1, <1>5, <2>1, EuclidUnique
<1>6. v < w => low = v
  BY <1>1, <1>4, <1>5
<1>7. PICK u \in Int : u = Unix(Int64(v)) /\ Internal(low, u)
  BY <1>4, UnixOfInt64 DEF Internal
<1>8. Unix(t) = t + o
  <2>1. t + o \in Nat /\ t + o < w /\ ~(2 * (t + o) >= w)
    BY <1>1, <1>2, <1>3
  <2>2. (t + o) % w = t + o
    BY <1>5, <2>1
  <2>. QED BY <1>1, <1>2, <2>1, <2>2 DEF Unix, Int64
<1>9. PICK d \in Int : d = (t + o) - u
  BY <1>2, <1>3
<1>10. PICK l : l = Sub(Unix(t), Unix(Int64(v))) /\ l = IF d > m THEN m ELSE IF d < -m THEN -m ELSE d
  BY <1>2, <1>7, <1>8, <1>9 DEF Sub
<1>11. Past(v) <=> 2 * (low + o) >= w
  BY <1>1, <1>2, <1>4 DEF Past
<1>12. /\ 2 * low >= w => u = (low - w) + o
       /\ ~(2 * low >= w) /\ 2 * (low + o) >= w => u = (low + o) - w
       /\ ~(2 * (low + o) >= w) => u = low + o
  BY <1>1, <1>2, <1>7 DEF Internal
<1>13. CASE 2 * (low + o) >= w
  <2>1. d > t
    BY <1>1, <1>2, <1>3, <1>4, <1>9, <1>12, <1>13
  <2>2. l > t /\ l \in Int /\ l >= 0
    BY <1>2, <1>3, <1>10, <2>1
  <2>3. ~(2 * (v + o) < w) /\ ~(v <= t)
    BY <1>1, <1>2, <1>3, <1>4, <1>6, <1>13
  <2>4. GivesLatency(v, low, l, t)
    BY <1>1, <1>2, <1>4, <1>11, <1>13, <2>2, <2>3 DEF GivesLatency
  <2>. QED BY <1>4, <1>10, <2>4
<1>14. CASE ~(2 * (low + o) >= w)
  <2>1. d = t - low
    BY <1>1, <1>2, <1>3, <1>4, <1>9, <1>12, <1>14
  <2>2. l \in Int /\ l <= t /\ (l >= 0 <=> low <= t)
    BY <1>2, <1>3, <1>4, <1>10, <2>1
  <2>3. v <= t => low = v /\ d = t - v /\ d <= m /\ ~(d < -m)
    BY <1>2, <1>3, <1>6, <2>1
  <2>4. v <= t => l = t - v
    BY <1>2, <1>10, <2>3
  <2>5. 2 * (v + o) < w => low = v
    BY <1>1, <1>2, <1>6
  <2>6. GivesLatency(v, low, l, t)
    BY <1>1, <1>2, <1>4, <1>11, <1>14, <2>2, <2>4, <2>5 DEF GivesLatency
  <2>. QED BY <1>4, <1>10, <2>6
<1>. QED BY <1>13, <1>14

\* n samples, whatever they are numbered by.
Samples(g, D, n) == IsFiniteSet(D) /\ g \in [D -> Nat] /\ n \in Nat /\ n = Cardinality(D)

\* v is one of them: the least if its rank is 0, the greatest if it is the last.
HasRank(v, index, g, D, n) ==
  /\ v \in Nat /\ \E i \in D : v = g[i]
  /\ index = 0 => \A i \in D : v <= g[i]
  /\ n = index + 1 => \A i \in D : g[i] <= v

\* So is each order statistic of theirs.
LEMMA RankedOfSome ==
  ASSUME NEW D, NEW g, NEW n, Samples(g, D, n), NEW index \in Nat, index < n
  PROVE  HasRank(Ranked(index, g), index, g, D, n)
<1>1. IsFiniteSet(D) /\ g \in [D -> Nat] /\ n \in Nat /\ n = Cardinality(D)
  BY DEF Samples
<1>2. PICK v : v = Ranked(index, g)
  OBVIOUS
<1>3. PICK f \in Bijection(1 .. n, D) : TRUE
  BY <1>1, FS_CardinalityType DEF ExistsBijection
<1>4. /\ f \in [1 .. n -> D] /\ \A j, k \in 1 .. n : f[j] = f[k] => j = k
      /\ \A z \in D : \E k \in 1 .. n : f[k] = z
  BY <1>3 DEF Bijection, Injection, IsInjective, Surjection
<1> DEFINE s == [i \in 1 .. n |-> g[f[i]]]
<1>5. s \in Seq(Nat) /\ Len(s) = n
  <2>1. s \in [1 .. n -> Nat]
    BY <1>1, <1>4
  <2>. HIDE DEF s
  <2>2. s \in Seq(Nat)
    BY <1>1, <2>1, SeqDef
  <2>. QED BY <1>1, <2>1, <2>2, LenProperties
<1>6. Renames(f, s, g)
  BY <1>1, <1>4, <1>5 DEF Renames
<1>7. \A i \in 1 .. n : s[i] = g[f[i]]
  OBVIOUS
<1>. HIDE DEF s
<1>8. PICK w : w = Ranked(index, s)
  OBVIOUS
<1>9. /\ w \in Nat /\ \E i \in DOMAIN s : w = s[i]
      /\ Below(w, s) <= index /\ index < AtMost(w, s)
  <2>1. index < Len(s)
    BY <1>5
  <2>2. s \in Seq(Nat)
    BY <1>5
  <2>. QED BY ONLY <1>8, <2>1, <2>2, RankedIsSample
<1>10. \A x : Below(x, g) = Below(x, s) /\ AtMost(x, g) = AtMost(x, s)
  BY <1>5, <1>6, CountsMove
<1> DEFINE Good(x) == Below(x, g) <= index /\ index < AtMost(x, g)
<1>11. w \in {g[i] : i \in DOMAIN g} /\ Good(w)
  <2>1. DOMAIN s = 1 .. n /\ DOMAIN g = D
    BY <1>1, <1>5, LenProperties
  <2>. QED BY <1>4, <1>7, <1>9, <1>10, <2>1
<1>12. v = CHOOSE x \in {g[i] : i \in DOMAIN g} : Good(x)
  BY <1>2 DEF Ranked
<1>13. v \in {g[i] : i \in DOMAIN g} /\ Good(v)
  <2>. HIDE DEF Good
  <2>. QED BY <1>11, <1>12
<1>14. v \in Nat /\ \E i \in D : v = g[i]
  BY <1>1, <1>13
<1>15. ASSUME index = 0, NEW i \in D PROVE v <= g[i]
  <2>. DEFINE B == {j \in D : g[j] < v}
  <2>1. Below(v, g) = Cardinality(B)
    BY <1>1 DEF Below
  <2>2. IsFiniteSet(B)
    <3>1. B \in SUBSET D
      OBVIOUS
    <3>. HIDE DEF B
    <3>. QED BY <1>1, <3>1, FS_Subset
  <2>3. Cardinality(B) \in Nat
    BY <2>2, FS_CardinalityType
  <2>4. B = {}
    <3>1. Cardinality(B) = 0
      BY <1>13, <1>15, <2>1, <2>3
    <3>. HIDE DEF B
    <3>. QED BY <2>2, <3>1, FS_EmptySet
  <2>. QED BY <1>1, <1>14, <2>4
<1>16. ASSUME n = index + 1, NEW i \in D PROVE g[i] <= v
  <2>. DEFINE A == {j \in D : g[j] <= v}
  <2>1. AtMost(v, g) = Cardinality(A)
    BY <1>1 DEF AtMost
  <2>2. A \in SUBSET D
    OBVIOUS
  <2>. HIDE DEF A
  <2>3. IsFiniteSet(A) /\ Cardinality(A) \in Nat /\ Cardinality(A) <= n /\ (Cardinality(A) = n => A = D)
    BY <1>1, <2>2, FS_Subset, FS_CardinalityType
  <2>4. A = D
    BY <1>1, <1>13, <1>16, <2>1, <2>3
  <2>. USE DEF A
  <2>. QED BY <2>4
<1>. QED BY <1>2, <1>14, <1>15, <1>16 DEF HasRank

\* The tracker has logged the line of the block it was given.
Logged ==
  /\ tracker = [polls |-> tracker.polls, line |-> tracker.line, of |-> tracker.of]
  /\ tracker.of \in BlockOfValues /\ tracker.line = TrackLatency(tracker.of)

\* A block's line reports what is stamped, and what wraps.
LEMMA LineFollows ==
  ASSUME NEW block \in BlockOfValues, NEW line, line = TrackLatency(block),
         NEW counts, counts = {i \in DOMAIN block.values : block.values[i] \in Stamps(block) \cup Wrapped(block)}
  PROVE  /\ line.txs = Cardinality(counts)
         /\ Stamps(block) # {} /\ (\A v \in Wrapped(block) : Past(v)) =>
              line.min = block.time - Max(Stamps(block))
         /\ Stamps(block) # {} /\ Wrapped(block) = {} =>
              /\ line.max = block.time - Min(Stamps(block))
              /\ line.p50 \in {block.time - v : v \in Stamps(block)}
         /\ (\E v \in Wrapped(block) : Past(v)) => line.max > block.time
<1>1. PICK t \in 0 .. MaxDuration - 1 : t = block.time
  BY DEF BlockOfValues
<1>2. PICK vs \in Seq(Nat) : vs = block.values
  BY DEF BlockOfValues
<1>3. PICK word \in Nat, o \in Nat : word = Word /\ o = UnixToInternal /\ t \in Nat /\ 2 * (t + o) < word
  BY UserLatencyAssumption
<1>4. PICK since : since = [i \in DOMAIN vs |-> Sub(Unix(t), Unix(Int64(vs[i])))]
  OBVIOUS
<1>5. PICK low : low = [i \in DOMAIN vs |-> vs[i] % Word]
  OBVIOUS
<1>6. IsFiniteSet(DOMAIN vs) /\ \A i \in DOMAIN vs : vs[i] \in Nat
  <2>1. PICK n \in Nat : n = Len(vs) /\ DOMAIN vs = 1 .. n
    BY LenProperties
  <2>2. IsFiniteSet(1 .. n)
    BY FS_Interval
  <2>. QED BY <2>1, <2>2, ElementOfSeq
<1>7. ASSUME NEW i \in DOMAIN vs
      PROVE  GivesLatency(vs[i], low[i], since[i], t)
  <2>1. since[i] = Sub(Unix(t), Unix(Int64(vs[i]))) /\ low[i] = vs[i] % Word
    BY <1>4, <1>5
  <2>2. vs[i] \in Nat
    BY <1>6
  <2>. QED BY <1>1, <2>1, <2>2, SinceFacts
<1>8. \A i \in DOMAIN vs :
        /\ vs[i] \in Stamps(block) <=> vs[i] > 0 /\ vs[i] <= t
        /\ vs[i] \in Wrapped(block) <=> 2 * (vs[i] + o) >= word /\ (Past(vs[i]) \/ low[i] <= t)
  <2>1. \A i \in DOMAIN vs : vs[i] \in Range(block.values)
    BY <1>2 DEF Range
  <2>. QED BY <1>1, <1>3, <1>5, <2>1 DEF Stamps, Wrapped
<1>9. PICK D : D = {i \in DOMAIN vs : vs[i] > 0 /\ since[i] >= 0}
  OBVIOUS
<1>10. D = counts
  <2>1. ASSUME NEW i \in DOMAIN vs
        PROVE  vs[i] > 0 /\ since[i] >= 0 <=> vs[i] \in Stamps(block) \cup Wrapped(block)
    <3>1. PICK v \in Nat, l \in Nat, s \in Int : v = vs[i] /\ l = low[i] /\ s = since[i]
      BY <1>6, <1>7 DEF GivesLatency
    <3>2. /\ v <= t => s = t - v
          /\ s >= 0 <=> Past(v) \/ l <= t
          /\ 2 * (v + o) < word => ~Past(v) /\ l = v
      BY <1>3, <1>7, <3>1 DEF GivesLatency
    <3>3. CASE 2 * (v + o) < word
      <4>1. v > 0 /\ s >= 0 <=> v > 0 /\ v <= t
        BY <3>2, <3>3
      <4>2. vs[i] \notin Wrapped(block)
        BY <1>3, <1>8, <3>1, <3>3
      <4>. QED BY <1>8, <3>1, <4>1, <4>2
    <3>4. CASE ~(2 * (v + o) < word)
      <4>1. v > 0 /\ ~(v <= t) /\ 2 * (v + o) >= word
        BY <1>3, <3>4
      <4>2. vs[i] \notin Stamps(block)
        BY <1>8, <3>1, <4>1
      <4>. QED BY <1>8, <3>1, <3>2, <4>1, <4>2
    <3>. QED BY <3>3, <3>4
  <2>. QED BY <1>2, <1>9, <2>1
<1>11. PICK ls : ls = Latencies(block)
  OBVIOUS
<1>12. ls = [i \in D |-> since[i]]
  <2>1. \A i \in DOMAIN vs : Since(block, i) = since[i]
    BY <1>1, <1>2, <1>4 DEF Since
  <2>2. Valued(block) = {i \in DOMAIN vs : vs[i] > 0}
    BY <1>2 DEF Valued
  <2>3. {j \in Valued(block) : Since(block, j) >= 0} = D
    BY <1>9, <2>1, <2>2
  <2>4. \A i \in D : Since(block, i) = since[i]
    BY <1>9, <2>1
  <2>. QED BY <1>11, <2>3, <2>4 DEF Latencies
<1>13. ls \in [D -> Nat] /\ \A i \in D : i \in DOMAIN vs /\ ls[i] = since[i]
  <2>1. \A i \in D : i \in DOMAIN vs /\ since[i] \in Nat
    BY <1>7, <1>9 DEF GivesLatency
  <2>. QED BY <1>12, <2>1
<1>14. IsFiniteSet(D)
  <2>1. D \in SUBSET DOMAIN vs
    BY <1>9
  <2>. QED BY <1>6, <2>1, FS_Subset
<1>15. PICK n \in Nat : n = Cardinality(D)
  BY <1>14, FS_CardinalityType
<1>16. DOMAIN ls = D
  BY <1>12
<1>17. Samples(ls, D, n)
  BY <1>13, <1>14, <1>15 DEF Samples
<1>18. CASE n = 0
  <2>1. D = {}
    BY <1>14, <1>15, <1>18, FS_EmptySet
  <2>2. Stamps(block) = {} /\ Wrapped(block) = {}
    <3>1. \A v \in Stamps(block) \cup Wrapped(block) : \E i \in DOMAIN vs : v = vs[i]
      BY <1>2 DEF Stamps, Wrapped, Range
    <3>. QED BY <1>2, <1>10, <2>1, <3>1
  <2>3. line.txs = 0
    BY <1>11, <1>15, <1>16, <1>18 DEF TrackLatency, NoLine
  <2>. QED BY <1>10, <1>15, <1>18, <2>2, <2>3
<1>19. CASE n # 0
  <2>1. line = [txs |-> n, min |-> Ranked(0, ls), p50 |-> Ranked(n \div 2, ls), max |-> Ranked(n - 1, ls)]
    BY <1>11, <1>15, <1>16, <1>19 DEF TrackLatency
  <2>2. PICK lo \in Nat : lo = line.min /\ (\E i \in D : lo = ls[i]) /\ \A i \in D : lo <= ls[i]
    <3>1. 0 < n
      BY <1>19
    <3>2. HasRank(Ranked(0, ls), 0, ls, D, n)
      BY ONLY <1>17, <3>1, RankedOfSome
    <3>. QED BY <2>1, <3>2 DEF HasRank
  <2>3. PICK hi \in Nat : hi = line.max /\ (\E i \in D : hi = ls[i]) /\ \A i \in D : ls[i] <= hi
    <3>1. PICK k \in Nat : k = n - 1 /\ k < n /\ n = k + 1
      BY <1>19
    <3>2. HasRank(Ranked(k, ls), k, ls, D, n)
      BY ONLY <1>17, <3>1, RankedOfSome
    <3>. QED BY <2>1, <3>1, <3>2 DEF HasRank
  <2>4. \E i \in D : line.p50 = ls[i]
    <3>1. PICK k \in Nat : k = n \div 2 /\ k < n
      BY <1>19
    <3>2. HasRank(Ranked(k, ls), k, ls, D, n)
      BY ONLY <1>17, <3>1, RankedOfSome
    <3>. QED BY <2>1, <3>1, <3>2 DEF HasRank
  <2>5. /\ Stamps(block) \subseteq Nat
        /\ \A v \in Stamps(block) : \E i \in D : v = vs[i] /\ ls[i] = t - v /\ v <= t
        /\ \A v \in Wrapped(block) : \E i \in D : v = vs[i]
    <3>1. \A v \in Stamps(block) \cup Wrapped(block) : \E i \in DOMAIN vs : v = vs[i]
      BY <1>2 DEF Stamps, Wrapped, Range
    <3>2. \A v \in Stamps(block) \cup Wrapped(block) : \E i \in D : v = vs[i]
      BY <1>2, <1>10, <3>1
    <3>3. ASSUME NEW v \in Stamps(block) PROVE v \in Nat /\ \E i \in D : v = vs[i] /\ ls[i] = t - v /\ v <= t
      <4>1. PICK i \in D : v = vs[i]
        BY <3>2
      <4>2. i \in DOMAIN vs /\ v \in Nat /\ v <= t
        BY <1>6, <1>8, <1>13, <3>3, <4>1
      <4>3. ls[i] = t - v
        BY <1>7, <1>13, <4>1, <4>2 DEF GivesLatency
      <4>. QED BY <4>1, <4>2, <4>3
    <3>. QED BY <3>2, <3>3
  <2>6. \A i \in D : \/ vs[i] \in Stamps(block) /\ ls[i] = t - vs[i]
                     \/ vs[i] \in Wrapped(block)
    <3>1. \A i \in D : i \in DOMAIN vs /\ vs[i] \in Stamps(block) \cup Wrapped(block)
      BY <1>2, <1>10, <1>13
    <3>2. \A i \in D : vs[i] \in Stamps(block) => ls[i] = t - vs[i]
      BY <1>7, <1>8, <1>13 DEF GivesLatency
    <3>. QED BY <3>1, <3>2
  <2>7. \A i \in D : Past(vs[i]) => ls[i] > t
    BY <1>7, <1>13 DEF GivesLatency
  <2>8. ASSUME Stamps(block) # {}, \A v \in Wrapped(block) : Past(v)
        PROVE  line.min = t - Max(Stamps(block))
    <3>1. PICK v \in Stamps(block), i \in D : v = vs[i] /\ ls[i] = t - v /\ v \in Nat /\ v <= t
      BY <2>5, <2>8
    <3>2. lo <= t - v /\ lo <= t
      <4>1. t \in Nat /\ lo <= ls[i]
        BY <1>3, <2>2
      <4>. QED BY ONLY <3>1, <4>1, lo \in Nat
    <3>3. PICK j \in D : lo = ls[j]
      BY <2>2
    <3>4. ~(ls[j] > t)
      BY <1>3, <3>2, <3>3
    <3>5. vs[j] \in Stamps(block) /\ lo = t - vs[j]
      BY <2>6, <2>7, <2>8, <3>3, <3>4
    <3>6. PICK top \in Stamps(block) : top = vs[j] /\ top \in Nat /\ lo = t - top
      BY <2>5, <3>5
    <3>7. ASSUME NEW x \in Stamps(block) PROVE x <= top
      <4>1. PICK k \in D : ls[k] = t - x
        BY <2>5
      <4>2. lo <= t - x /\ x \in Nat
        BY <2>2, <2>5, <4>1
      <4>. QED BY <1>3, <3>6, <4>2
    <3>8. Max(Stamps(block)) = top
      <4>1. Stamps(block) \subseteq Int
        BY <2>5
      <4>. QED BY <3>6, <3>7, <4>1, MaxIs
    <3>. QED BY <2>2, <3>6, <3>8
  <2>9. ASSUME Stamps(block) # {}, Wrapped(block) = {}
        PROVE  /\ line.max = t - Min(Stamps(block))
               /\ line.p50 \in {t - v : v \in Stamps(block)}
    <3>1. \A i \in D : vs[i] \in Stamps(block) /\ ls[i] = t - vs[i]
      BY <2>6, <2>9
    <3>2. PICK j \in D : hi = ls[j]
      BY <2>3
    <3>3. PICK first \in Stamps(block) : first = vs[j] /\ first \in Nat /\ hi = t - first
      BY <2>5, <3>1, <3>2
    <3>4. ASSUME NEW x \in Stamps(block) PROVE first <= x
      <4>1. PICK k \in D : ls[k] = t - x
        BY <2>5
      <4>2. t - x <= hi /\ x \in Nat
        BY <2>3, <2>5, <4>1
      <4>. QED BY <1>3, <3>3, <4>2
    <3>5. Min(Stamps(block)) = first
      <4>1. Stamps(block) \subseteq Int
        BY <2>5
      <4>. QED BY <3>3, <3>4, <4>1, MinIs
    <3>. QED BY <2>3, <2>4, <3>1, <3>3, <3>5
  <2>10. ASSUME NEW v \in Wrapped(block), Past(v) PROVE line.max > t
    <3>1. PICK i \in D : v = vs[i]
      BY <2>5
    <3>2. PICK l \in Nat : l = ls[i] /\ l > t /\ l <= hi
      BY <1>13, <2>3, <2>7, <2>10, <3>1
    <3>. QED BY <1>3, <2>3, <3>2
  <2>11. line.txs = Cardinality(counts)
    BY <1>10, <1>15, <2>1
  <2>. QED BY <1>1, <2>8, <2>9, <2>10, <2>11
<1>. QED BY <1>18, <1>19

-----------------------------------------------------------------------------
(* The theorems.                                                           *)

\* Every step keeps the invariant.
LEMMA StatisticsStep ==
  ASSUME StatisticsInv, [Next]_vars
  PROVE  StatisticsInv'
<1>1. TypeOK /\ Recorded /\ Partition /\ OpenWindow /\ SendRates /\ KeptBlocks /\ Totals /\ KeptLatencies
      /\ FinalIsExact
  BY DEF StatisticsInv
<1>2. Recorded'
  BY <1>1, RecordedStep
<1>3. KeptBlocks'
  BY <1>1, KeptBlocksStep
<1>4. TypeOK'
  BY <1>1, <1>3, TypesStep
<1>5. Partition'
  BY <1>1, <1>2, <1>3, PartitionStep
<1>6. OpenWindow'
  BY <1>1, OpenWindowStep
<1>7. SendRates'
  BY <1>1, <1>2, SendRatesStep
<1>8. Totals'
  BY <1>1, TotalsStep
<1>9. KeptLatencies'
  BY <1>1, KeptLatenciesStep
<1>10. FinalIsExact'
  BY <1>1, FinalStep
<1>. QED BY <1>2, <1>3, <1>4, <1>5, <1>6, <1>7, <1>8, <1>9, <1>10 DEF StatisticsInv

\* The collectors keep the invariant: types and bounds, and what every list,
\* counter and window says of the recorded history.
THEOREM StatisticsInvariant == Spec => []StatisticsInv
<1>1. Init => StatisticsInv
  BY InitStatistics
<1>2. StatisticsInv /\ [Next]_vars => StatisticsInv'
  BY StatisticsStep
<1>. QED BY <1>1, <1>2, PTL DEF Spec

\* The reporting windows partition the run: a send or a head recorded between
\* the logger's reading of its window and the reset of it is in no report, any
\* other one in exactly one, or in the open window.
THEOREM ReportsPartition == Spec => []WindowsPartition
<1>1. StatisticsInv => WindowsPartition
  BY DEF StatisticsInv, Partition, WindowsPartition
<1>. QED BY <1>1, StatisticsInvariant, PTL

\* The figures of the open window are those of the sends since it was opened,
\* the cumulative maximum that of the run.
THEOREM WindowDescribesSends == Spec => []WindowInv
<1>1. StatisticsInv => WindowInv
  BY WindowFollows DEF StatisticsInv, WindowInv
<1>. QED BY <1>1, StatisticsInvariant, PTL

\* The rates are those of the sliding window, and the percentiles quantiles of
\* the last History accepted sends.
THEOREM FiguresDescribeSends == Spec => []FiguresAreExact
<1>1. StatisticsInv => FiguresAreExact
  BY RatesFollow, PercentilesFollow DEF StatisticsInv, FiguresAreExact
<1>. QED BY <1>1, StatisticsInvariant, PTL

\* The final report adds up to the sends of the run, and its sections describe
\* the heads since the last reset and those of the whole run.
THEOREM ReportDescribesRun == Spec => []FinalIsExact
<1>1. StatisticsInv => FinalIsExact
  BY DEF StatisticsInv
<1>. QED BY <1>1, StatisticsInvariant, PTL

\* The line the latency tracker logs of a block reports what is stamped with a
\* second up to the block's, and of the rest what wraps, for any block.
THEOREM LineDescribesBlock == Spec => []LatencyOfStamped
<1>1. Init => Logged
  <2>. SUFFICES ASSUME Init PROVE Logged
    OBVIOUS
  <2>1. PICK block : block = tracker.of
    OBVIOUS
  <2>2. tracker.line = NoLine /\ block = [time |-> 0, values |-> <<>>]
    BY <2>1 DEF Init
  <2>3. block \in BlockOfValues
    <3>1. 0 \in 0 .. MaxDuration - 1
      BY UserLatencyAssumption
    <3>2. <<>> \in Seq(Nat)
      OBVIOUS
    <3>. QED BY <2>2, <3>1, <3>2 DEF BlockOfValues
  <2>4. Latencies(block) = [i \in {} |-> Since(block, i)]
    <3>1. Valued(block) = {}
      <4>1. DOMAIN block.values = {}
        BY <2>2
      <4>. QED BY <4>1 DEF Valued
    <3>. QED BY <3>1 DEF Latencies
  <2>5. DOMAIN Latencies(block) = {}
    BY <2>4
  <2>6. Cardinality(DOMAIN Latencies(block)) = 0
    BY <2>5, FS_EmptySet
  <2>7. TrackLatency(block) = NoLine
    BY <2>6 DEF TrackLatency
  <2>8. tracker = [polls |-> tracker.polls, line |-> tracker.line, of |-> tracker.of]
    BY DEF Init
  <2>. QED BY <2>1, <2>2, <2>3, <2>7, <2>8 DEF Logged
<1>2. Logged /\ [Next]_vars => Logged'
  <2>. SUFFICES ASSUME Logged, [Next]_vars PROVE Logged'
    OBVIOUS
  <2>1. (\E block \in Block : PollLatency(block)) \/ UNCHANGED tracker
    BY DEF Next, vars, Send, RecordTransaction, RecordBlock, StartLogger, GetStats, ResetWindowStats,
           ResetBlocks, Join, LogFinalStats, EmitRunSummary, Tick
  <2>2. CASE UNCHANGED tracker
    BY <2>2 DEF Logged
  <2>3. ASSUME NEW block \in Block, PollLatency(block) PROVE Logged'
    <3>1. block \in BlockOfValues
      BY BoundAssumption
    <3>2. PICK before, after : before = tracker /\ after = tracker'
      OBVIOUS
    <3>3. /\ before = [polls |-> before.polls, line |-> before.line, of |-> before.of]
          /\ before.of \in BlockOfValues /\ before.line = TrackLatency(before.of)
      BY <3>2 DEF Logged
    <3>4. \/ after = [polls |-> before.polls + 1, line |-> TrackLatency(block), of |-> block]
          \/ after = [before EXCEPT !.polls = @ + 1]
      BY <2>3, <3>2 DEF PollLatency
    <3>5. /\ after = [polls |-> after.polls, line |-> after.line, of |-> after.of]
          /\ after.of \in BlockOfValues /\ after.line = TrackLatency(after.of)
      BY <3>1, <3>3, <3>4
    <3>. QED BY <3>2, <3>5 DEF Logged
  <2>. QED BY <2>1, <2>2, <2>3
<1>3. Logged => LatencyOfStamped
  <2>. SUFFICES ASSUME Logged PROVE LatencyOfStamped
    OBVIOUS
  <2>1. PICK block, line : block = tracker.of /\ line = tracker.line
    OBVIOUS
  <2>2. block \in BlockOfValues /\ line = TrackLatency(block)
    BY <2>1 DEF Logged
  <2>. QED BY <2>1, <2>2, LineFollows DEF LatencyOfStamped
<1>. QED BY <1>1, <1>2, <1>3, PTL DEF Spec
=============================================================================
