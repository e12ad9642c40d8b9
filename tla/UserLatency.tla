----------------------------- MODULE UserLatency -----------------------------
(***************************************************************************)
(* stats/user_latency_tracker.go: at each tick the tracker reads the latest   *)
(* block and takes the value of every transaction in it for the second at     *)
(* which its sender made it, as evmtransfer does.  It keeps no state; a       *)
(* method is an operator.  A block is its second and the values its            *)
(* transactions carry, in wei.                                                 *)
(***************************************************************************)
\* An operator Op_Variant is a faulty variant of Op: the properties are tested
\* against it, no specification uses it.
EXTENDS Integers, Quantile

CONSTANTS
  Word,           \* the number of values of a 64-bit word
  UnixToInternal, \* the seconds from the year 1, at which a time.Time begins, to 1970
  MaxDuration     \* the longest time.Duration, in seconds: 292 years

ASSUME UserLatencyAssumption ==
  /\ Word \in Nat /\ UnixToInternal \in Nat /\ MaxDuration \in Nat \ {0}
  /\ 2 * (UnixToInternal + MaxDuration) < Word

\* big.Int.Int64: the low word, read as a signed number.
Int64(n) == IF 2 * (n % Word) >= Word THEN (n % Word) - Word ELSE n % Word

\* time.Unix: the second as a Time counts it, in a signed word too: the last
\* seconds of an int64 wrap to long before the year 1.
Unix(sec) == Int64(sec + UnixToInternal)

\* time.Time.Sub: the difference saturates.
Sub(a, b) ==
  LET d == a - b IN IF d > MaxDuration THEN MaxDuration ELSE IF d < -MaxDuration THEN -MaxDuration ELSE d

\* The latencies of a block, by the transactions that have one: of no value
\* there is none, and what would come from the future is dropped.
Since(block, i) == Sub(Unix(block.time), Unix(Int64(block.values[i])))
Valued(block) == {i \in DOMAIN block.values : block.values[i] > 0}
Latencies_KeepsFuture(block) == [i \in Valued(block) |-> Since(block, i)]
Latencies(block) == [i \in {j \in Valued(block) : Since(block, j) >= 0} |-> Since(block, i)]

\* trackLatency: the line it logs, NoLine when the block has nothing for it.
NoLine == [txs |-> 0]
TrackLatency(block) ==
  LET ls == Latencies(block)
      n  == Cardinality(DOMAIN ls)
  IN IF n = 0 THEN NoLine
     ELSE [txs |-> n, min |-> Ranked(0, ls), p50 |-> Ranked(n \div 2, ls),
           max |-> Ranked(n - 1, ls)]
=============================================================================
