------------------------- MODULE BlockCollectorProofs -------------------------
(***************************************************************************)
(* Facts about the order statistics (Quantile) and the block collector, for  *)
(* every list of samples, of any length: an order statistic is one of the     *)
(* samples, a percentile is a quantile, and what a new head does to the       *)
(* bounded histories; and the arithmetic of quotients that schedules rest on. *)
(***************************************************************************)
EXTENDS BlockCollector, TLAPS, FiniteSetTheorems, SequenceTheorems, WellFoundedInduction

-----------------------------------------------------------------------------
(* Numbers.                                                                 *)

\* A set of natural numbers that is not empty has a least element.
LEMMA LeastNumber ==
  ASSUME NEW S, S \subseteq Nat, S # {}
  PROVE  \E m \in S : \A x \in S : m <= x
<1>1. PICK m \in S : \A x \in S : ~(<<x, m>> \in OpToRel(<, Nat))
  BY NatLessThanWellFounded, WFMin, IsWellFoundedOnSubset
<1>2. \A x \in S : ~(x < m)
  BY <1>1 DEF OpToRel
<1>. QED BY <1>2

\* A quotient and its remainder.
LEMMA Euclid ==
  ASSUME NEW t \in Nat, NEW c \in Nat, c > 0
  PROVE  \E q \in Nat : \E r \in Nat :
           q = t \div c /\ r = t % c /\ t = c * q + r /\ r < c
<1>1. t \div c \in Nat /\ t % c \in 0 .. c - 1
  OBVIOUS
<1>2. PICK q \in Nat : q = t \div c
  BY <1>1
<1>3. PICK r \in Nat : r = t % c /\ r < c
  BY <1>1
<1>4. t = c * q + r
  BY <1>2, <1>3
<1>. QED BY <1>2, <1>3, <1>4

\* What is written as quotient and remainder has them.
LEMMA EuclidUnique ==
  ASSUME NEW t \in Nat, NEW c \in Nat, c > 0, NEW q \in Nat, NEW r \in Nat, r < c, t = c * q + r
  PROVE  t \div c = q /\ t % c = r
<1>1. t % c = r
  OBVIOUS
<1>2. t \div c = q
  OBVIOUS
<1>. QED BY <1>1, <1>2

-----------------------------------------------------------------------------
(* Samples.                                                                 *)

\* The samples of a list are bounded.
LEMMA SamplesBounded ==
  ASSUME NEW samples \in Seq(Nat)
  PROVE  \E b \in Nat : \A i \in DOMAIN samples : samples[i] <= b
<1> DEFINE Bad == {n \in 0 .. Len(samples) : ~ \E b \in Nat : \A i \in 1 .. n : samples[i] <= b}
<1>1. /\ Len(samples) \in Nat /\ DOMAIN samples = 1 .. Len(samples)
      /\ \A i \in 1 .. Len(samples) : samples[i] \in Nat
  BY LenProperties, ElementOfSeq
<1>2. Bad \subseteq Nat
  BY <1>1
<1>3. ASSUME NEW m \in Nat, m \in Bad, \A x \in Bad : m <= x PROVE FALSE
  <2>1. m <= Len(samples) /\ ~ \E b \in Nat : \A i \in 1 .. m : samples[i] <= b
    BY <1>3, <1>1
  <2>2. m # 0
    BY <2>1
  <2>3. PICK n \in Nat : m = n + 1
    BY <2>2
  <2>4. n \in 0 .. Len(samples) /\ ~(m <= n)
    BY <2>1, <2>3, <1>1
  <2>5. n \notin Bad
    BY <2>4, <1>3
  <2>6. PICK b \in Nat : \A i \in 1 .. n : samples[i] <= b
    BY <2>4, <2>5
  <2>. HIDE DEF Bad
  <2>7. m \in 1 .. Len(samples)
    BY <2>1, <2>2, <1>1
  <2>8. PICK e \in Nat : e = samples[m]
    BY <2>7, <1>1
  <2>9. ASSUME NEW i \in 1 .. m PROVE samples[i] <= b + e
    <3>1. i \in 1 .. Len(samples)
      BY <2>7, <1>1
    <3>2. PICK f \in Nat : f = samples[i]
      BY <3>1, <1>1
    <3>3. CASE i = m
      BY <3>2, <3>3, <2>8
    <3>4. CASE i # m
      <4>1. i \in 1 .. n
        BY <3>4, <2>3
      <4>. QED BY <4>1, <3>2, <2>6
    <3>. QED BY <3>3, <3>4
  <2>10. b + e \in Nat
    OBVIOUS
  <2>. QED BY <2>1, <2>9, <2>10
<1>4. Bad = {}
  <2>1. SUFFICES ASSUME Bad # {} PROVE FALSE
    OBVIOUS
  <2>. HIDE DEF Bad
  <2>2. PICK m \in Bad : \A x \in Bad : m <= x
    BY <1>2, <2>1, LeastNumber
  <2>. QED BY <2>2, <1>2, <1>3
<1>5. Len(samples) \in 0 .. Len(samples)
  BY <1>1
<1>. QED BY <1>1, <1>4, <1>5

\* How many samples are at most, or below, a value.
LEMMA Counts ==
  ASSUME NEW samples \in Seq(Nat), NEW v \in Nat
  PROVE  /\ AtMost(v, samples) \in 0 .. Len(samples)
         /\ Below(v, samples) \in 0 .. Len(samples)
         /\ v = 0 => Below(v, samples) = 0
         /\ \A w \in Nat : v = w + 1 => Below(v, samples) = AtMost(w, samples)
         /\ (\A i \in DOMAIN samples : samples[i] <= v) <=> AtMost(v, samples) = Len(samples)
         /\ (\A i \in DOMAIN samples : samples[i] # v) => AtMost(v, samples) = Below(v, samples)
<1> DEFINE A == {i \in DOMAIN samples : samples[i] <= v}
           B == {i \in DOMAIN samples : samples[i] < v}
<1>1. /\ Len(samples) \in Nat /\ DOMAIN samples = 1 .. Len(samples)
      /\ \A i \in DOMAIN samples : samples[i] \in Nat
  BY LenProperties, ElementOfSeq
<1>2. IsFiniteSet(DOMAIN samples) /\ Cardinality(DOMAIN samples) = Len(samples)
  <2>1. 1 \in Int /\ Len(samples) \in Int /\ Len(samples) - 1 + 1 = Len(samples)
    BY <1>1
  <2>2. 1 > Len(samples) => Len(samples) = 0
    BY <1>1
  <2>3. IsFiniteSet(1 .. Len(samples)) /\ Cardinality(1 .. Len(samples)) = Len(samples)
    BY ONLY <2>1, <2>2, FS_Interval
  <2>. QED BY <2>3, <1>1
<1>3. /\ IsFiniteSet(A) /\ IsFiniteSet(B)
      /\ Cardinality(A) <= Len(samples) /\ Cardinality(B) <= Len(samples)
      /\ Cardinality(A) = Len(samples) => A = DOMAIN samples
  <2>1. A \subseteq DOMAIN samples /\ B \subseteq DOMAIN samples
    OBVIOUS
  <2>. QED BY <2>1, <1>2, FS_Subset
<1>4. Cardinality(A) \in Nat /\ Cardinality(B) \in Nat
  BY <1>3, FS_CardinalityType
<1>5. AtMost(v, samples) = Cardinality(A) /\ Below(v, samples) = Cardinality(B)
  BY DEF AtMost, Below
<1>6. v = 0 => Cardinality(B) = 0
  <2>1. v = 0 => B = {}
    BY <1>1
  <2>. QED BY <2>1, FS_EmptySet
<1>7. ASSUME NEW w \in Nat, v = w + 1 PROVE Cardinality(B) = AtMost(w, samples)
  <2>1. B = {i \in DOMAIN samples : samples[i] <= w}
    BY <1>1, <1>7
  <2>. QED BY <2>1 DEF AtMost
<1>8. (\A i \in DOMAIN samples : samples[i] <= v) <=> Cardinality(A) = Len(samples)
  <2>1. (\A i \in DOMAIN samples : samples[i] <= v) <=> A = DOMAIN samples
    OBVIOUS
  <2>. QED BY <2>1, <1>2, <1>3
<1>9. (\A i \in DOMAIN samples : samples[i] # v) => Cardinality(A) = Cardinality(B)
  <2>1. (\A i \in DOMAIN samples : samples[i] # v) => A = B
    BY <1>1
  <2>. QED BY <2>1
<1>. HIDE DEF A, B
<1>. QED BY <1>1, <1>3, <1>4, <1>5, <1>6, <1>7, <1>8, <1>9

\* The sample of a rank that exists: it is a sample, no more than the rank are
\* below it, and more than the rank are not above it.
LEMMA RankedIsSample ==
  ASSUME NEW samples \in Seq(Nat), NEW index \in Nat, index < Len(samples),
         NEW v, v = Ranked(index, samples)
  PROVE  /\ v \in Nat /\ \E i \in DOMAIN samples : v = samples[i]
         /\ Below(v, samples) <= index /\ index < AtMost(v, samples)
<1> DEFINE S == {w \in Nat : index < AtMost(w, samples)}
           Good(w) == Below(w, samples) <= index /\ index < AtMost(w, samples)
<1>1. /\ Len(samples) \in Nat /\ DOMAIN samples = 1 .. Len(samples)
      /\ \A i \in DOMAIN samples : samples[i] \in Nat
  BY LenProperties, ElementOfSeq
<1>2. S # {}
  <2>1. PICK b \in Nat : \A i \in DOMAIN samples : samples[i] <= b
    BY SamplesBounded
  <2>2. AtMost(b, samples) = Len(samples)
    BY <2>1, Counts
  <2>. QED BY <2>2
<1>3. PICK w \in S : \A x \in S : w <= x
  BY <1>2, LeastNumber
<1>4. Below(w, samples) <= index
  <2>1. CASE w = 0
    BY <2>1, Counts
  <2>2. CASE w # 0
    <3>1. w - 1 \in Nat /\ w = (w - 1) + 1 /\ w - 1 \notin S
      BY <1>3, <2>2
    <3>2. AtMost(w - 1, samples) <= index
      <4>1. AtMost(w - 1, samples) \in Nat
        BY <3>1, Counts
      <4>. QED BY <3>1, <4>1
    <3>. QED BY <3>1, <3>2, Counts
  <2>. QED BY <2>1, <2>2
<1>5. \E i \in DOMAIN samples : samples[i] = w
  <2>1. Below(w, samples) # AtMost(w, samples)
    <3>1. Below(w, samples) \in Nat /\ AtMost(w, samples) \in Nat
      BY Counts
    <3>. QED BY <1>3, <1>4, <3>1
  <2>. QED BY <2>1, Counts
<1>6. w \in {samples[i] : i \in DOMAIN samples} /\ Good(w)
  BY <1>3, <1>4, <1>5
<1>7. v = CHOOSE x \in {samples[i] : i \in DOMAIN samples} : Good(x)
  BY DEF Ranked
<1>. HIDE DEF Good
<1>8. v \in {samples[i] : i \in DOMAIN samples} /\ Good(v)
  BY <1>6, <1>7
<1>. QED BY <1>1, <1>8 DEF Good

\* The largest sample is a sample that none exceeds.
LEMMA LargestIsSample ==
  ASSUME NEW samples \in Seq(Nat), samples # <<>>, NEW v, v = Largest(samples)
  PROVE  /\ v \in Nat /\ \E i \in DOMAIN samples : v = samples[i]
         /\ \A i \in DOMAIN samples : samples[i] <= v
<1>1. Len(samples) \in Nat /\ Len(samples) # 0
  BY EmptySeq, LenProperties
<1>2. Len(samples) - 1 \in Nat /\ Len(samples) - 1 < Len(samples)
  BY <1>1
<1>3. v = Ranked(Len(samples) - 1, samples)
  BY DEF Largest
<1>4. /\ v \in Nat /\ \E i \in DOMAIN samples : v = samples[i]
      /\ Len(samples) - 1 < AtMost(v, samples)
  BY <1>2, <1>3, RankedIsSample
<1>5. AtMost(v, samples) = Len(samples)
  <2>1. AtMost(v, samples) \in 0 .. Len(samples)
    BY <1>4, Counts
  <2>. QED BY <2>1, <1>1, <1>4
<1>. QED BY <1>4, <1>5, Counts

\* calculatePercentile: the percentile of a list is a sample of it, and a
\* quantile: no more than p% of the samples are below it, and at least p% are
\* not above it.
THEOREM PercentileIsQuantile ==
  ASSUME NEW samples \in Seq(Nat), samples # <<>>, NEW p \in 0 .. 100
  PROVE  /\ Percentile(p, samples) \in Nat
         /\ \E i \in DOMAIN samples : Percentile(p, samples) = samples[i]
         /\ IsQuantile(Percentile(p, samples), p, samples)
<1>1. PICK n \in Nat : n = Len(samples) /\ n > 0
  BY EmptySeq, LenProperties
<1>2. PICK k \in Nat : k = n * p /\ k <= 100 * n
  <2>1. n * p \in Nat /\ n * p <= n * 100
    BY SMT
  <2>. QED BY <2>1
<1>3. PICK d \in Nat : d = k \div 100 /\ 100 * d <= k /\ k < 100 * (d + 1)
  OBVIOUS
<1>4. PICK index \in Nat : index = Least(d, n - 1)
  <2>1. n - 1 \in Nat
    BY <1>1
  <2>2. Least(d, n - 1) \in Nat
    BY <2>1 DEF Least
  <2>. QED BY <2>2
<1>5. /\ index < n /\ 100 * index <= k /\ k <= 100 * (index + 1)
  BY <1>1, <1>2, <1>3, <1>4 DEF Least
<1>6. PICK v : v = Percentile(p, samples)
  OBVIOUS
<1>7. v = Ranked(index, samples)
  BY <1>1, <1>2, <1>3, <1>4, <1>6 DEF Percentile
<1>8. /\ v \in Nat /\ \E i \in DOMAIN samples : v = samples[i]
      /\ Below(v, samples) <= index /\ index < AtMost(v, samples)
  <2>1. index < Len(samples)
    BY <1>1, <1>5
  <2>. QED BY <2>1, <1>7, RankedIsSample
<1>9. IsQuantile(v, p, samples)
  <2>1. PICK b \in Nat, a \in Nat : b = Below(v, samples) /\ a = AtMost(v, samples)
    BY <1>8, Counts
  <2>2. b <= index /\ index + 1 <= a
    BY <2>1, <1>8
  <2>3. 100 * b <= k /\ 100 * a >= k
    BY <2>2, <1>5
  <2>4. p * n = k
    BY <1>2
  <2>5. Cardinality(DOMAIN samples) = n
    <3>1. 1 \in Int /\ n \in Int
      OBVIOUS
    <3>2. Cardinality(1 .. n) = (IF 1 > n THEN 0 ELSE n - 1 + 1)
      BY ONLY <3>1, FS_Interval
    <3>3. DOMAIN samples = 1 .. n /\ n - 1 + 1 = n
      BY <1>1, LenProperties
    <3>. QED BY <3>2, <3>3, <1>1
  <2>. QED BY <2>1, <2>3, <2>4, <2>5 DEF IsQuantile
<1>. QED BY <1>6, <1>8, <1>9

\* calculateGasPercentile: a sample too, with rank p*(n-1)/100 counted from 0.
THEOREM GasPercentileIsSample ==
  ASSUME NEW samples \in Seq(Nat), samples # <<>>, NEW p \in 0 .. 100,
         NEW v, v = GasPercentile(p, samples)
  PROVE  /\ v \in Nat /\ \E i \in DOMAIN samples : v = samples[i]
         /\ 100 * Below(v, samples) <= p * (Len(samples) - 1)
         /\ 100 * AtMost(v, samples) > p * (Len(samples) - 1)
<1>1. PICK n \in Nat : n = Len(samples) /\ n > 0
  BY EmptySeq, LenProperties
<1>2. PICK m \in Nat : m = n - 1
  BY <1>1
<1>3. PICK k \in Nat : k = p * m /\ k <= 100 * m
  <2>1. p * m \in Nat /\ p * m <= 100 * m
    OBVIOUS
  <2>. QED BY <2>1
<1>4. PICK index \in Nat : index = k \div 100 /\ 100 * index <= k /\ k < 100 * (index + 1)
  OBVIOUS
<1>5. index < n
  BY <1>1, <1>2, <1>3, <1>4
<1>6. v = Ranked(index, samples)
  BY <1>1, <1>2, <1>3, <1>4 DEF GasPercentile
<1>7. /\ v \in Nat /\ \E i \in DOMAIN samples : v = samples[i]
      /\ Below(v, samples) <= index /\ index < AtMost(v, samples)
  BY <1>1, <1>5, <1>6, RankedIsSample
<1>8. PICK b \in Nat, a \in Nat : b = Below(v, samples) /\ a = AtMost(v, samples)
  BY <1>7, Counts
<1>9. 100 * b <= k /\ 100 * a > k
  BY <1>4, <1>7, <1>8
<1>. QED BY <1>1, <1>2, <1>3, <1>7, <1>8, <1>9

-----------------------------------------------------------------------------
(* The block collector.                                                     *)

\* The states of a block collector.
BlockState ==
  [maxBlockNum : Nat, lastBlockTime : Nat, allBlockTimes : Seq(Nat), allGasUsed : Seq(Nat),
   windowBlockTimes : Seq(Nat), windowGasUsed : Seq(Nat)]

\* The bounded history of a list is its end.
LEMMA KeptIsEnd ==
  ASSUME NEW s \in Seq(Nat), NEW k, k = Kept(s)
  PROVE  /\ k \in Seq(Nat) /\ Len(k) = Least(Len(s), BlockHistory) /\ Len(k) <= BlockHistory
         /\ \A i \in 1 .. Len(k) : k[i] = s[Len(s) - Len(k) + i] /\ Len(s) - Len(k) + i \in DOMAIN s
<1>1. BlockHistory \in Nat /\ BlockHistory > 0
  BY BlockHistoryAssumption
<1>2. Len(s) \in Nat /\ DOMAIN s = 1 .. Len(s) /\ \A i \in 1 .. Len(s) : s[i] \in Nat
  BY LenProperties, ElementOfSeq
<1>3. PICK m \in Nat : m = 1 + (IF Len(s) > BlockHistory THEN Len(s) - BlockHistory ELSE 0)
  <2>1. 1 + (IF Len(s) > BlockHistory THEN Len(s) - BlockHistory ELSE 0) \in Nat
    BY <1>1, <1>2
  <2>. QED BY <2>1
<1>4. k = SubSeq(s, m, Len(s))
  BY <1>3 DEF Kept
<1>5. PICK n \in Nat : n = Len(s)
  BY <1>2
<1>6. /\ m >= 1 /\ m <= n + 1 /\ n - m + 1 = Least(n, BlockHistory) /\ n - m + 1 \in Nat
      /\ m <= n \/ n - m + 1 = 0
  <2>1. PICK h \in Nat : h = BlockHistory /\ h > 0
    BY <1>1
  <2>2. CASE n > h
    <3>1. m = 1 + (n - h) /\ Least(n, BlockHistory) = h
      BY <2>1, <2>2, <1>3, <1>5 DEF Least
    <3>. QED BY <3>1, <2>1, <2>2
  <2>3. CASE ~(n > h)
    <3>1. m = 1
      BY <2>1, <2>3, <1>3, <1>5
    <3>2. Least(n, BlockHistory) = n
      BY <2>1, <2>3 DEF Least
    <3>. QED BY <3>1, <3>2
  <2>. QED BY <2>2, <2>3
<1>7. \A i \in m .. n : s[i] \in Nat
  BY <1>2, <1>5, <1>6
<1>8. /\ k \in Seq(Nat) /\ Len(k) = (IF m <= n THEN n - m + 1 ELSE 0)
      /\ \A i \in 1 .. n - m + 1 : k[i] = s[m + i - 1]
  <2>1. m \in Int /\ n \in Int /\ k = SubSeq(s, m, n)
    BY <1>4, <1>5
  <2>. QED BY ONLY <2>1, <1>7, SubSeqProperties
<1>9. Len(k) = n - m + 1
  BY <1>6, <1>8
<1>10. ASSUME NEW i \in 1 .. Len(k)
       PROVE  k[i] = s[n - Len(k) + i] /\ n - Len(k) + i \in 1 .. n
  <2>1. i \in 1 .. n - m + 1 /\ m + i - 1 = n - Len(k) + i
    BY <1>6, <1>9
  <2>2. m + i - 1 \in 1 .. n
    BY <2>1, <1>6
  <2>. QED BY <2>1, <2>2, <1>8
<1>11. Least(n, BlockHistory) <= BlockHistory
  BY <1>1 DEF Least
<1>. QED BY <1>2, <1>5, <1>6, <1>8, <1>9, <1>10, <1>11

\* processNewBlock keeps the collector's types and bounds; the new sample of the
\* window is the time since the head before, and all others are old ones.
LEMMA NewBlockFacts ==
  ASSUME NEW b \in BlockState, NEW header \in [number : Nat, gas : Nat],
         NEW t \in Nat, b.lastBlockTime <= t, NEW r, r = ProcessNewBlock(b, header, t)
  PROVE  /\ r \in BlockState /\ r.lastBlockTime = t
         /\ Len(r.windowBlockTimes) <= BlockHistory /\ Len(r.allBlockTimes) <= BlockHistory
         /\ Len(r.windowGasUsed) <= BlockHistory /\ Len(r.allGasUsed) <= BlockHistory
         /\ \A i \in DOMAIN r.windowBlockTimes :
              \/ \E j \in DOMAIN b.windowBlockTimes : r.windowBlockTimes[i] = b.windowBlockTimes[j]
              \/ b.lastBlockTime # ZeroTime /\ r.windowBlockTimes[i] = t - b.lastBlockTime
<1> DEFINE times == IF b.lastBlockTime = ZeroTime THEN <<>> ELSE <<t - b.lastBlockTime>>
<1>1. /\ b.maxBlockNum \in Nat /\ b.lastBlockTime \in Nat
      /\ b.allBlockTimes \in Seq(Nat) /\ b.windowBlockTimes \in Seq(Nat)
      /\ b.allGasUsed \in Seq(Nat) /\ b.windowGasUsed \in Seq(Nat)
      /\ header.number \in Nat /\ header.gas \in Nat
  BY DEF BlockState
<1>2. /\ times \in Seq(Nat) /\ Len(times) \in {0, 1}
      /\ \A i \in 1 .. Len(times) : b.lastBlockTime # ZeroTime /\ times[i] = t - b.lastBlockTime
  BY <1>1
<1>3. r = [maxBlockNum |-> Greatest(b.maxBlockNum, header.number), lastBlockTime |-> t,
           allBlockTimes |-> Kept(b.allBlockTimes \o times),
           allGasUsed |-> Kept(Append(b.allGasUsed, header.gas)),
           windowBlockTimes |-> Kept(b.windowBlockTimes \o times),
           windowGasUsed |-> Kept(Append(b.windowGasUsed, header.gas))]
  BY DEF ProcessNewBlock, BlockState
<1>. HIDE DEF times
<1>4. Greatest(b.maxBlockNum, header.number) \in Nat
  BY <1>1 DEF Greatest
<1>5. /\ b.allBlockTimes \o times \in Seq(Nat) /\ b.windowBlockTimes \o times \in Seq(Nat)
      /\ Append(b.allGasUsed, header.gas) \in Seq(Nat)
      /\ Append(b.windowGasUsed, header.gas) \in Seq(Nat)
  BY <1>1, <1>2, ConcatProperties, AppendProperties
<1>6. /\ r.allBlockTimes \in Seq(Nat) /\ Len(r.allBlockTimes) <= BlockHistory
      /\ r.windowBlockTimes \in Seq(Nat) /\ Len(r.windowBlockTimes) <= BlockHistory
      /\ r.allGasUsed \in Seq(Nat) /\ Len(r.allGasUsed) <= BlockHistory
      /\ r.windowGasUsed \in Seq(Nat) /\ Len(r.windowGasUsed) <= BlockHistory
  <2>1. \A s \in Seq(Nat) : Kept(s) \in Seq(Nat) /\ Len(Kept(s)) <= BlockHistory
    BY KeptIsEnd
  <2>2. /\ r.allBlockTimes = Kept(b.allBlockTimes \o times)
        /\ r.windowBlockTimes = Kept(b.windowBlockTimes \o times)
        /\ r.allGasUsed = Kept(Append(b.allGasUsed, header.gas))
        /\ r.windowGasUsed = Kept(Append(b.windowGasUsed, header.gas))
    BY <1>3
  <2>. QED BY <1>5, <2>1, <2>2
<1>7. r \in BlockState /\ r.lastBlockTime = t
  BY <1>3, <1>4, <1>6 DEF BlockState
<1>8. ASSUME NEW i \in DOMAIN r.windowBlockTimes
      PROVE  \/ \E j \in DOMAIN b.windowBlockTimes :
                  r.windowBlockTimes[i] = b.windowBlockTimes[j]
             \/ b.lastBlockTime # ZeroTime /\ r.windowBlockTimes[i] = t - b.lastBlockTime
  <2> DEFINE old == b.windowBlockTimes
             long == old \o times
             kept == r.windowBlockTimes
  <2>1. kept = Kept(long) /\ long \in Seq(Nat)
    BY <1>3, <1>5
  <2>2. old \in Seq(Nat) /\ DOMAIN old = 1 .. Len(old) /\ Len(old) \in Nat
    BY <1>1, LenProperties
  <2>3. /\ Len(long) = Len(old) + Len(times)
        /\ \A j \in 1 .. Len(old) + Len(times) :
             long[j] = IF j <= Len(old) THEN old[j] ELSE times[j - Len(old)]
    BY <1>2, <2>2, ConcatProperties
  <2>. HIDE DEF old, long, kept
  <2>4. DOMAIN kept = 1 .. Len(kept) /\ DOMAIN long = 1 .. Len(long)
    BY <1>6, <2>1, LenProperties DEF kept
  <2>5. PICK j \in DOMAIN long : kept[i] = long[j]
    <3>1. i \in 1 .. Len(kept)
      BY <1>8, <2>4 DEF kept
    <3>2. /\ kept[i] = long[Len(long) - Len(kept) + i]
          /\ Len(long) - Len(kept) + i \in DOMAIN long
      BY ONLY <2>1, <3>1, KeptIsEnd
    <3>. QED BY <3>2
  <2>6. j \in Nat /\ j >= 1 /\ j <= Len(old) + Len(times)
    BY <1>2, <2>2, <2>3, <2>4, <2>5
  <2>7. CASE j <= Len(old)
    BY <2>2, <2>3, <2>5, <2>6, <2>7 DEF kept, old
  <2>8. CASE ~(j <= Len(old))
    <3>1. j - Len(old) \in 1 .. Len(times)
      BY <1>2, <2>2, <2>6, <2>8
    <3>2. b.lastBlockTime # ZeroTime /\ times[j - Len(old)] = t - b.lastBlockTime
      BY <3>1, <1>2
    <3>3. long[j] = times[j - Len(old)]
      BY <2>3, <2>6, <2>8, <1>2, <2>2
    <3>. QED BY <2>5, <3>2, <3>3 DEF kept
  <2>. QED BY <2>7, <2>8
<1>. QED BY <1>6, <1>7, <1>8
=============================================================================
