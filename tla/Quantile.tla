------------------------------ MODULE Quantile ------------------------------
(***************************************************************************)
(* The order statistics that stats/collector.go, stats/block_collector.go   *)
(* and stats/user_latency_tracker.go report of a list of samples.           *)
(***************************************************************************)
\* An operator Op_Variant is a faulty variant of Op: the properties are tested
\* against it, no specification uses it.
EXTENDS Naturals, Sequences, FiniteSets

AtMost(v, samples) == Cardinality({i \in DOMAIN samples : samples[i] <= v})
Below(v, samples)  == Cardinality({i \in DOMAIN samples : samples[i] < v})

\* sorted[index], counting from 0, without sorting.
Ranked(index, samples) ==
  CHOOSE v \in {samples[i] : i \in DOMAIN samples} :
    Below(v, samples) <= index /\ index < AtMost(v, samples)

Least(a, b) == IF a < b THEN a ELSE b
Greatest(a, b) == IF a < b THEN b ELSE a

\* sorted[len-1]; 0 for no samples.
Largest(samples) == IF samples = <<>> THEN 0 ELSE Ranked(Len(samples) - 1, samples)

\* calculatePercentile: index n*p/100, or the last one; 0 for no samples.
Percentile(p, samples) ==
  LET n == Len(samples)
  IN IF n = 0 THEN 0 ELSE Ranked(Least((n * p) \div 100, n - 1), samples)

\* calculateGasPercentile: index p*(n-1)/100.
GasPercentile_PastTheEnd(p, samples) ==
  LET n == Len(samples) IN IF n = 0 THEN 0 ELSE Ranked(Least((p * n) \div 100 + 1, n - 1), samples)
GasPercentile(p, samples) ==
  LET n == Len(samples) IN IF n = 0 THEN 0 ELSE Ranked((p * (n - 1)) \div 100, samples)

\* What a percentile promises: no more than p% of the samples are below it and
\* at least p% are not above it.
IsQuantile(v, p, samples) ==
  LET n == Cardinality(DOMAIN samples)
  IN 100 * Below(v, samples) <= p * n /\ 100 * AtMost(v, samples) >= p * n
=============================================================================
