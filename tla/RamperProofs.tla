----------------------------- MODULE RamperProofs -----------------------------
(***************************************************************************)
(* Proofs about Ramper, for any curve, window and bound on the clock: the    *)
(* limit follows the curve until the ramp fails and stays throttled then, no *)
(* step of the curve is skipped, and a verdict rests on a head of the window *)
(* it judges.                                                                *)
(*                                                                           *)
(* The inductive invariant has a part for the curve (Curve: the step is that  *)
(* of the last update, and every one up to it was driven), one for the        *)
(* collector (Collected: its samples are bounded, and one above the SLO has a *)
(* time), and one for the watcher's window (Window: it was opened at most     *)
(* WindowLen ago and its slow head came since).                               *)
(***************************************************************************)
EXTENDS Ramper, BlockCollectorProofs

\* The watcher's window holds a time above the SLO only if a head came too late
\* since it was opened.
Collected ==
  /\ blocks \in BlockState
  /\ blocks.lastBlockTime <= now + Lead
  /\ slowAt # NoTime => slowAt <= now
  /\ watcher.pc # "start" /\ slowAt = NoTime =>
       \A i \in DOMAIN blocks.windowBlockTimes : blocks.windowBlockTimes[i] <= SLO

\* While the watcher watches, its window was opened on the grid of the ticker and
\* at most WindowLen ago, and the slow head came since.
Window ==
  /\ watcher.pc = "start" => now = 0
  /\ watcher.pc \in {"start", "watch"} =>
       /\ watcher.resetAt % WindowLen = 0
       /\ watcher.resetAt <= now /\ now <= watcher.resetAt + WindowLen
  /\ watcher.pc = "watch" /\ slowAt # NoTime => watcher.resetAt <= slowAt
  /\ sloChan = "offered" => watcher.pc = "offer"

\* The step is that of the last update, none before it was left out, and while
\* the ramp runs the last update is at most one unit old.
Curve ==
  /\ currentTps = StartTps + IncrementTps * step
  /\ updatedAt = NoUpdate => step = 0 /\ driven = {} /\ (Running => now = 0)
  /\ updatedAt # NoUpdate => /\ updatedAt <= now
                             /\ step = StepAt(updatedAt)
                             /\ driven = 0 .. step
                             /\ Running => now <= updatedAt + 1

RamperInv ==
  /\ TypeOK /\ Collected /\ Window /\ Curve
  /\ LimitOnSchedule /\ FailedStaysThrottled /\ VerdictIsRecent

-----------------------------------------------------------------------------
(* The curve, the window's grid, the collector.                             *)

\* The constants' types.
LEMMA Constants ==
  /\ StartTps \in Nat /\ IncrementTps \in Nat /\ SLO \in Nat /\ MaxTime \in Nat
  /\ WindowLen \in Nat /\ WindowLen > 0
  /\ LoadInterval \in Nat /\ LoadInterval > 0
  /\ Cycle \in Nat /\ Cycle > 0
  /\ Lead \in Nat /\ Lead > 0
  /\ NoTime = MaxTime + 1 /\ NoUpdate = MaxTime + 1
<1>1. RecoveryInterval \in Nat
  BY RamperAssumption
<1>. QED BY <1>1, RamperAssumption DEF Cycle, Lead, NoTime, NoUpdate

\* A step begins in its load phase, and one unit of time enters at most one.
LEMMA StepEntered ==
  ASSUME NEW t \in Nat
  PROVE  /\ StepAt(t) \in Nat /\ StepAt(t + 1) \in Nat
         /\ StepAt(t + 1) = StepAt(t) \/ (StepAt(t + 1) = StepAt(t) + 1 /\ ~InRecovery(t + 1))
<1>1. PICK q \in Nat : \E r \in Nat :
        q = t \div Cycle /\ r = t % Cycle /\ t = Cycle * q + r /\ r < Cycle
  BY Constants, Euclid
<1>2. PICK r \in Nat : t = Cycle * q + r /\ r < Cycle
  BY <1>1
<1>3. StepAt(t) = q
  BY <1>1 DEF StepAt
<1>4. CASE r + 1 < Cycle
  <2>1. t + 1 = Cycle * q + (r + 1)
    BY <1>2, Constants
  <2>2. (t + 1) \div Cycle = q
    BY <2>1, <1>4, Constants, EuclidUnique
  <2>. QED BY <2>2, <1>3 DEF StepAt
<1>5. CASE r + 1 = Cycle
  <2>1. t + 1 = Cycle * (q + 1) + 0
    BY <1>2, <1>5, Constants
  <2>2. q + 1 \in Nat /\ 0 < Cycle /\ t + 1 \in Nat
    BY Constants
  <2>3. (t + 1) \div Cycle = q + 1 /\ (t + 1) % Cycle = 0
    BY <2>1, <2>2, Constants, EuclidUnique
  <2>. QED BY <2>3, <1>3, Constants DEF StepAt, InRecovery
<1>. QED BY <1>2, <1>4, <1>5, Constants

\* The cycles before a step are over by the time it is entered.
LEMMA CyclesOver ==
  ASSUME NEW t \in Nat, NEW k \in Nat, k < StepAt(t)
  PROVE  (k + 1) * Cycle <= t
<1>1. PICK q \in Nat : \E r \in Nat :
        q = t \div Cycle /\ r = t % Cycle /\ t = Cycle * q + r /\ r < Cycle
  BY Constants, Euclid
<1>2. Cycle * q <= t /\ k + 1 <= q
  BY <1>1, Constants DEF StepAt
<1>3. PICK e \in Nat : q = (k + 1) + e
  <2>1. q - (k + 1) \in Nat /\ q = (k + 1) + (q - (k + 1))
    BY <1>2
  <2>. QED BY <2>1
<1>4. PICK c \in Nat : c = Cycle
  BY Constants
<1>5. c * q = (k + 1) * c + c * e /\ c * e \in Nat /\ (k + 1) * c \in Nat
  BY <1>3
<1>. QED BY <1>2, <1>4, <1>5

\* The window ticker's grid: from one of its points the next is WindowLen away.
LEMMA NextOnGrid ==
  ASSUME NEW t \in Nat, t % WindowLen = 0
  PROVE  (t + WindowLen) % WindowLen = 0
<1>1. PICK q \in Nat : \E r \in Nat :
        q = t \div WindowLen /\ r = t % WindowLen /\ t = WindowLen * q + r /\ r < WindowLen
  BY Constants, Euclid
<1>2. PICK w \in Nat : w = WindowLen /\ w > 0
  BY Constants
<1>3. t = w * q
  BY <1>1, <1>2
<1>4. t + w = w * (q + 1) + 0 /\ q + 1 \in Nat /\ t + w \in Nat
  BY <1>3
<1>5. (t + w) % w = 0
  BY <1>2, <1>4, EuclidUnique
<1>. QED BY <1>2, <1>5

\* The ramper's collector keeps the window's times and the last head's.
LEMMA WindowOnlyFacts ==
  ASSUME NEW b \in BlockState, NEW r, r = WindowOnly(b)
  PROVE  /\ r \in BlockState /\ r.lastBlockTime = b.lastBlockTime
         /\ r.windowBlockTimes = b.windowBlockTimes
<1>1. r = [maxBlockNum |-> b.maxBlockNum, lastBlockTime |-> b.lastBlockTime, allBlockTimes |-> <<>>,
           allGasUsed |-> <<>>, windowBlockTimes |-> b.windowBlockTimes, windowGasUsed |-> <<>>]
  BY DEF WindowOnly, BlockState
<1>2. <<>> \in Seq(Nat)
  BY EmptySeq
<1>. QED BY <1>1, <1>2 DEF BlockState

\* Resetting the window empties it and nothing else the ramper reads.
LEMMA ResetFacts ==
  ASSUME NEW b \in BlockState, NEW r, r = WindowReset(b)
  PROVE  r \in BlockState /\ r.lastBlockTime = b.lastBlockTime /\ r.windowBlockTimes = <<>>
<1>1. r = [maxBlockNum |-> b.maxBlockNum, lastBlockTime |-> b.lastBlockTime,
           allBlockTimes |-> b.allBlockTimes, allGasUsed |-> b.allGasUsed,
           windowBlockTimes |-> <<>>, windowGasUsed |-> <<>>]
  BY DEF WindowReset, BlockState
<1>2. <<>> \in Seq(Nat)
  BY EmptySeq
<1>. QED BY <1>1, <1>2 DEF BlockState

\* The 90th percentile exceeds the SLO only if a sample does.
LEMMA SlowSample ==
  ASSUME blocks \in BlockState, TooSlow
  PROVE  \E i \in DOMAIN blocks.windowBlockTimes : blocks.windowBlockTimes[i] > SLO
<1> DEFINE times == blocks.windowBlockTimes
<1>1. times \in Seq(Nat)
  BY DEF BlockState
<1>2. Percentile(90, times) > SLO
  BY DEF TooSlow, GetWindowBlockTimePercentile
<1>3. times # <<>>
  <2>1. SUFFICES ASSUME times = <<>> PROVE FALSE
    OBVIOUS
  <2>2. Len(times) = 0
    BY <2>1, EmptySeq
  <2>3. Percentile(90, times) = 0
    BY <2>2 DEF Percentile
  <2>. QED BY <2>3, <1>2, Constants
<1>4. 90 \in 0 .. 100
  OBVIOUS
<1>. HIDE DEF times
<1>5. \E i \in DOMAIN times : Percentile(90, times) = times[i]
  BY <1>1, <1>3, <1>4, PercentileIsQuantile
<1>. QED BY <1>2, <1>5 DEF times

-----------------------------------------------------------------------------
(* The invariant is inductive.                                              *)

\* It holds initially, whatever the collector saw before the ramp.
LEMMA InitRamper == Init => RamperInv
<1>. SUFFICES ASSUME Init PROVE RamperInv
  OBVIOUS
<1>1. blocks \in BlockState /\ blocks.lastBlockTime <= Lead /\ Len(blocks.windowBlockTimes) <= BlockHistory
  <2> DEFINE first == ProcessNewBlock(NoBlocks, AHead, 1)
             second == ProcessNewBlock(first, AHead, Lead)
  <2>1. NoBlocks \in BlockState /\ NoBlocks.lastBlockTime = 0 /\ Len(NoBlocks.windowBlockTimes) = 0
    BY EmptySeq DEF NoBlocks, BlockState, ZeroTime
  <2>2. AHead \in [number : Nat, gas : Nat]
    BY DEF AHead
  <2>3. first \in BlockState /\ first.lastBlockTime = 1
    BY <2>1, <2>2, NewBlockFacts
  <2>. HIDE DEF first
  <2>4. first.lastBlockTime <= Lead
    BY <2>3, Constants
  <2>5. /\ second \in BlockState /\ second.lastBlockTime = Lead
        /\ Len(second.windowBlockTimes) <= BlockHistory
    BY <2>2, <2>3, <2>4, Constants, NewBlockFacts
  <2>6. Earlier = second
    BY DEF Earlier, first
  <2>. HIDE DEF second
  <2>7. blocks = NoBlocks \/ blocks = WindowOnly(second)
    BY <2>6, Zenon DEF Init
  <2>8. /\ WindowOnly(second) \in BlockState /\ WindowOnly(second).lastBlockTime = Lead
        /\ Len(WindowOnly(second).windowBlockTimes) <= BlockHistory
    BY <2>5, WindowOnlyFacts
  <2>. QED BY <2>1, <2>7, <2>8, Constants, BlockHistoryAssumption
<1>2. blocks.windowBlockTimes \in Seq(Nat)
  BY <1>1 DEF BlockState
<1>3. TypeOK
  <2>1. /\ now \in 0 .. MaxTime /\ slowAt \in 0 .. NoTime /\ updatedAt \in 0 .. NoUpdate
        /\ limit \in Nat /\ step \in Nat /\ currentTps \in Nat /\ driven \subseteq Nat
    BY Constants DEF Init
  <2>2. watcher \in [pc : {"start", "watch", "offer", "stopped"}, checkedAt : 0 .. MaxTime,
                     resetAt : 0 .. MaxTime, evidence : 0 .. NoTime]
    <3>1. 0 \in 0 .. MaxTime /\ NoTime \in 0 .. NoTime
      BY Constants
    <3>. QED BY <3>1 DEF Init
  <2>. QED BY <1>1, <1>2, <2>1, <2>2 DEF Init, TypeOK
<1>4. Collected
  BY <1>1, Constants DEF Init, Collected
<1>5. Window
  <2>1. 0 = WindowLen * 0 + 0
    BY Constants
  <2>2. 0 % WindowLen = 0
    BY <2>1, Constants, EuclidUnique
  <2>. QED BY <2>2, Constants DEF Init, Window
<1>6. Curve
  BY Constants DEF Init, Curve
<1>7. LimitOnSchedule /\ FailedStaysThrottled /\ VerdictIsRecent
  BY DEF Init, LimitOnSchedule, FailedStaysThrottled, VerdictIsRecent
<1>. QED BY <1>3, <1>4, <1>5, <1>6, <1>7 DEF RamperInv

\* The parts about the curve depend on the curve, the clock and the result only.
LEMMA CurveKept ==
  ASSUME RamperInv, UNCHANGED <<now, curveVars, result>>
  PROVE  Curve' /\ LimitOnSchedule' /\ FailedStaysThrottled'
BY DEF RamperInv, Curve, LimitOnSchedule, FailedStaysThrottled, curveVars, Running

\* A head: a time above the SLO is noted, the others are old ones.
LEMMA BlockStep == RamperInv /\ Block => RamperInv'
<1>. SUFFICES ASSUME RamperInv, Block PROVE RamperInv'
  OBVIOUS
<1> DEFINE t == now + Lead
           r == ProcessNewBlock(blocks, AHead, t)
           since == t - blocks.lastBlockTime
<1>1. /\ TypeOK /\ Collected /\ Window /\ VerdictIsRecent
      /\ blocks \in BlockState /\ blocks.lastBlockTime \in Nat /\ now \in Nat /\ now <= MaxTime
  BY Constants DEF RamperInv, Collected, BlockState, TypeOK
<1>2. t \in Nat /\ blocks.lastBlockTime <= t /\ AHead \in [number : Nat, gas : Nat]
  BY <1>1, Constants DEF Collected, AHead
<1>3. /\ blocks' = WindowOnly(r)
      /\ slowAt' = IF blocks.lastBlockTime # ZeroTime /\ since > SLO THEN now ELSE slowAt
      /\ UNCHANGED <<now, curveVars, watcher, sloChan, result, ctxDone>>
  <2>1. blocks' = WindowOnly(r) /\ UNCHANGED <<now, curveVars, watcher, sloChan, result, ctxDone>>
    BY DEF Block
  <2>2. slowAt' = IF blocks.lastBlockTime # ZeroTime /\ since > SLO THEN now ELSE slowAt
    <3>1. /\ blocks.lastBlockTime # ZeroTime /\ since > SLO => slowAt' = now
          /\ ~(blocks.lastBlockTime # ZeroTime /\ since > SLO) => slowAt' = slowAt
      BY <1>1, <1>2, Constants, SMT DEF Block
    <3>. QED BY ONLY <3>1
  <2>. QED BY <2>1, <2>2
<1>4. /\ r \in BlockState /\ r.lastBlockTime = t /\ Len(r.windowBlockTimes) <= BlockHistory
      /\ \A i \in DOMAIN r.windowBlockTimes :
           \/ \E j \in DOMAIN blocks.windowBlockTimes :
                r.windowBlockTimes[i] = blocks.windowBlockTimes[j]
           \/ blocks.lastBlockTime # ZeroTime /\ r.windowBlockTimes[i] = since
  BY <1>1, <1>2, NewBlockFacts
<1>. HIDE DEF r
<1>5. /\ blocks' \in BlockState /\ blocks'.lastBlockTime = t
      /\ blocks'.windowBlockTimes = r.windowBlockTimes
  BY <1>3, <1>4, WindowOnlyFacts
<1>6. TypeOK'
  <2>1. blocks'.windowBlockTimes \in Seq(Nat) /\ Len(blocks'.windowBlockTimes) <= BlockHistory
    BY <1>4, <1>5 DEF BlockState
  <2>2. slowAt' \in 0 .. NoTime
    BY <1>1, <1>3, Constants DEF TypeOK
  <2>. QED BY <1>1, <1>3, <2>1, <2>2 DEF TypeOK, curveVars
<1>7. Collected'
  <2>1. blocks'.lastBlockTime <= now' + Lead
    BY <1>2, <1>3, <1>5
  <2>2. slowAt' # NoTime => slowAt' <= now'
    BY <1>1, <1>3 DEF Collected
  <2>3. ASSUME watcher'.pc # "start", slowAt' = NoTime, NEW i \in DOMAIN r.windowBlockTimes
        PROVE  r.windowBlockTimes[i] <= SLO
    <3>1. ~(blocks.lastBlockTime # ZeroTime /\ since > SLO) /\ slowAt = NoTime
      <4>1. now # NoTime
        BY <1>1, Constants
      <4>. QED BY ONLY <4>1, <1>3, <2>3
    <3>2. \A j \in DOMAIN blocks.windowBlockTimes : blocks.windowBlockTimes[j] <= SLO
      BY <2>3, <3>1, <1>1, <1>3 DEF Collected
    <3>3. since \in Int
      BY <1>1, <1>2
    <3>. QED BY <3>1, <3>2, <3>3, <1>4, Constants
  <2>. QED BY <1>5, <2>1, <2>2, <2>3 DEF Collected
<1>8. Window'
  BY <1>1, <1>3 DEF Window, TypeOK
<1>9. VerdictIsRecent'
  BY <1>1, <1>3 DEF VerdictIsRecent
<1>. QED BY <1>3, <1>6, <1>7, <1>8, <1>9, CurveKept DEF RamperInv

\* A window is opened: by the goroutine when it starts, and by the ticker.
LEMMA OpenWindow ==
  ASSUME RamperInv, blocks' = WindowReset(blocks), slowAt' = NoTime,
         UNCHANGED <<now, curveVars, sloChan, result, ctxDone>>,
         \/ watcher.pc = "start" /\ watcher' = [watcher EXCEPT !.pc = "watch"]
         \/ /\ watcher.pc = "watch" /\ now % WindowLen = 0
            /\ watcher' = [watcher EXCEPT !.resetAt = now]
  PROVE  RamperInv'
<1>1. /\ TypeOK /\ Collected /\ Window /\ VerdictIsRecent /\ blocks \in BlockState
      /\ now \in Nat /\ now <= MaxTime
  <2>1. TypeOK /\ Collected /\ Window /\ VerdictIsRecent
    BY DEF RamperInv
  <2>2. blocks \in BlockState
    BY <2>1 DEF Collected
  <2>3. now \in 0 .. MaxTime
    BY <2>1 DEF TypeOK
  <2>. QED BY <2>1, <2>2, <2>3, Constants
<1>2. /\ blocks' \in BlockState /\ blocks'.lastBlockTime = blocks.lastBlockTime
      /\ blocks'.windowBlockTimes = <<>>
  BY <1>1, ResetFacts
<1>3. blocks'.windowBlockTimes \in Seq(Nat) /\ Len(blocks'.windowBlockTimes) <= BlockHistory
  BY <1>2, EmptySeq, BlockHistoryAssumption
<1>4. watcher \in [pc : {"start", "watch", "offer", "stopped"}, checkedAt : 0 .. MaxTime,
                    resetAt : 0 .. MaxTime, evidence : 0 .. NoTime]
  BY <1>1 DEF TypeOK
<1>5. /\ watcher' \in [pc : {"start", "watch", "offer", "stopped"}, checkedAt : 0 .. MaxTime,
                        resetAt : 0 .. MaxTime, evidence : 0 .. NoTime]
      /\ watcher'.pc = "watch"
      /\ watcher'.resetAt = watcher.resetAt \/ (watcher'.resetAt = now /\ now % WindowLen = 0)
      /\ watcher'.evidence = watcher.evidence /\ watcher'.checkedAt = watcher.checkedAt
  <2>1. now \in 0 .. MaxTime
    BY <1>1 DEF TypeOK
  <2>2. CASE watcher' = [watcher EXCEPT !.pc = "watch"]
    BY ONLY <2>2, <1>4
  <2>3. CASE watcher.pc = "watch" /\ now % WindowLen = 0 /\ watcher' = [watcher EXCEPT !.resetAt = now]
    BY ONLY <2>1, <2>3, <1>4
  <2>. QED BY <2>2, <2>3
<1>6. TypeOK'
  <2>1. slowAt' \in 0 .. NoTime
    BY Constants
  <2>. QED BY <1>1, <1>3, <1>5, <2>1 DEF TypeOK, curveVars
<1>7. Collected'
  BY <1>1, <1>2, EmptySeq DEF Collected
<1>8. Window'
  <2>1. sloChan # "offered"
    BY <1>1 DEF Window
  <2>2. watcher'.resetAt % WindowLen = 0 /\ watcher'.resetAt <= now /\ now <= watcher'.resetAt + WindowLen
    BY <1>1, <1>4, <1>5, Constants DEF Window
  <2>. QED BY <1>5, <2>1, <2>2 DEF Window
<1>9. VerdictIsRecent'
  BY <1>1, <1>5 DEF VerdictIsRecent
<1>. QED BY <1>6, <1>7, <1>8, <1>9, CurveKept DEF RamperInv

\* StartWatch and ResetWindow open a window.
LEMMA OpeningSteps == RamperInv /\ (StartWatch \/ ResetWindow) => RamperInv'
<1>1. ASSUME RamperInv, StartWatch PROVE RamperInv'
  BY <1>1, OpenWindow DEF StartWatch
<1>2. ASSUME RamperInv, ResetWindow PROVE RamperInv'
  BY <1>2, OpenWindow DEF ResetWindow, ResetDue
<1>. QED BY <1>1, <1>2

\* A check: if it finds the percentile above the SLO, a head came too late since
\* the window was opened.
LEMMA CheckStep == RamperInv /\ CheckSLO => RamperInv'
<1>. SUFFICES ASSUME RamperInv, CheckSLO PROVE RamperInv'
  OBVIOUS
<1>1. /\ TypeOK /\ Collected /\ Window /\ VerdictIsRecent /\ blocks \in BlockState
      /\ now \in Nat /\ now <= MaxTime
  BY Constants DEF RamperInv, Collected, TypeOK
<1>2. watcher.pc = "watch" /\ UNCHANGED <<now, collectorVars, curveVars, result, ctxDone>>
  BY DEF CheckSLO
<1>3. watcher \in [pc : {"start", "watch", "offer", "stopped"}, checkedAt : 0 .. MaxTime,
                    resetAt : 0 .. MaxTime, evidence : 0 .. NoTime]
  BY <1>1 DEF TypeOK
<1>4. CASE ~TooSlow
  <2>1. watcher' = [watcher EXCEPT !.checkedAt = now] /\ UNCHANGED sloChan
    BY <1>4 DEF CheckSLO
  <2>2. /\ watcher' \in [pc : {"start", "watch", "offer", "stopped"}, checkedAt : 0 .. MaxTime,
                          resetAt : 0 .. MaxTime, evidence : 0 .. NoTime]
        /\ watcher'.pc = "watch" /\ watcher'.resetAt = watcher.resetAt
        /\ watcher'.evidence = watcher.evidence
    BY <1>1, <1>2, <1>3, <2>1
  <2>3. sloChan' # "offered"
    BY <1>1, <1>2, <2>1 DEF Window
  <2>4. TypeOK'
    BY <1>1, <1>2, <2>1, <2>2 DEF TypeOK, collectorVars, curveVars
  <2>5. Collected'
    BY <1>1, <1>2, <2>2 DEF Collected, collectorVars
  <2>6. Window'
    BY <1>1, <1>2, <2>2, <2>3 DEF Window, collectorVars
  <2>7. VerdictIsRecent'
    BY <2>3 DEF VerdictIsRecent
  <2>. QED BY <1>2, <2>4, <2>5, <2>6, <2>7, CurveKept DEF RamperInv
<1>5. CASE TooSlow
  <2>1. /\ watcher' = [watcher EXCEPT !.pc = "offer", !.checkedAt = now, !.evidence = slowAt]
        /\ sloChan' = "offered"
    BY <1>5 DEF CheckSLO
  <2>2. slowAt \in 0 .. NoTime
    BY <1>1 DEF TypeOK
  <2>3. /\ watcher' \in [pc : {"start", "watch", "offer", "stopped"}, checkedAt : 0 .. MaxTime,
                          resetAt : 0 .. MaxTime, evidence : 0 .. NoTime]
        /\ watcher'.pc = "offer" /\ watcher'.checkedAt = now /\ watcher'.evidence = slowAt
    <3>1. now \in 0 .. MaxTime
      BY <1>1 DEF TypeOK
    <3>. QED BY ONLY <3>1, <1>3, <2>1, <2>2
  <2>4. TypeOK'
    BY <1>1, <1>2, <2>1, <2>3 DEF TypeOK, collectorVars, curveVars
  <2>5. Collected'
    BY <1>1, <1>2, <2>3 DEF Collected, collectorVars
  <2>6. Window'
    BY <1>1, <1>2, <2>1, <2>3 DEF Window, collectorVars
  <2>7. VerdictIsRecent'
    <3>1. slowAt # NoTime
      <4>1. PICK i \in DOMAIN blocks.windowBlockTimes : blocks.windowBlockTimes[i] > SLO
        BY <1>1, <1>5, SlowSample
      <4>2. blocks.windowBlockTimes[i] \in Nat
        <5>1. blocks.windowBlockTimes \in Seq(Nat)
          BY <1>1 DEF TypeOK
        <5>. QED BY <5>1, LenProperties, ElementOfSeq
      <4>3. ~(blocks.windowBlockTimes[i] <= SLO)
        BY <4>1, <4>2, Constants
      <4>. QED BY <1>1, <1>2, <4>3 DEF Collected
    <3>2. watcher.resetAt <= slowAt /\ now <= watcher.resetAt + WindowLen
      BY <1>1, <1>2, <3>1 DEF Window
    <3>3. now - slowAt <= WindowLen
      BY <1>1, <1>3, <2>2, <3>2, Constants
    <3>. QED BY <2>3, <3>1, <3>3 DEF VerdictIsRecent, NoTime
  <2>. QED BY <1>2, <2>4, <2>5, <2>6, <2>7, CurveKept DEF RamperInv
<1>. QED BY <1>4, <1>5

\* The goroutine returns and its channel is closed.
LEMMA StopsStep == RamperInv /\ WatcherStops => RamperInv'
<1>. SUFFICES ASSUME RamperInv, WatcherStops PROVE RamperInv'
  OBVIOUS
<1>1. TypeOK /\ Collected /\ Window /\ VerdictIsRecent
  BY DEF RamperInv
<1>2. /\ watcher.pc # "start" /\ watcher' = [watcher EXCEPT !.pc = "stopped"]
      /\ sloChan' = "closed" /\ UNCHANGED <<now, collectorVars, curveVars, result, ctxDone>>
  BY DEF WatcherStops
<1>3. /\ watcher' \in [pc : {"start", "watch", "offer", "stopped"}, checkedAt : 0 .. MaxTime,
                        resetAt : 0 .. MaxTime, evidence : 0 .. NoTime]
      /\ watcher'.pc = "stopped"
  BY <1>1, <1>2 DEF TypeOK
<1>4. TypeOK'
  BY <1>1, <1>2, <1>3 DEF TypeOK, collectorVars, curveVars
<1>5. Collected' /\ Window' /\ VerdictIsRecent'
  BY <1>1, <1>2, <1>3 DEF Collected, Window, VerdictIsRecent, collectorVars
<1>. QED BY <1>2, <1>4, <1>5, CurveKept DEF RamperInv

\* An update: the step becomes that of the time, for no cycle began and ended
\* since the last one, and the new step is driven.
LEMMA UpdateStep == RamperInv /\ UpdateTPS => RamperInv'
<1>. SUFFICES ASSUME RamperInv, UpdateTPS PROVE RamperInv'
  OBVIOUS
<1>1. TypeOK /\ Collected /\ Window /\ VerdictIsRecent /\ Curve /\ FailedStaysThrottled
  BY DEF RamperInv
<1>2. /\ now \in Nat /\ now <= MaxTime /\ step \in Nat /\ limit \in Nat /\ driven \subseteq Nat
      /\ updatedAt \in Nat
  BY <1>1, Constants DEF TypeOK
<1>3. /\ Running /\ updatedAt' = now
      /\ UNCHANGED <<now, collectorVars, watcher, sloChan, result, ctxDone>>
  BY DEF UpdateTPS
<1>4. PICK number \in Nat : number = StepAt(now)
  BY <1>2, StepEntered
<1>5. \/ InRecovery(now) /\ limit' = 1 /\ UNCHANGED <<step, currentTps, driven>>
      \/ /\ ~InRecovery(now)
         /\ limit' = currentTps' /\ driven' = driven \cup {step'}
         /\ number > step => step' = number /\ currentTps' = StartTps + IncrementTps * number
         /\ ~(number > step) => UNCHANGED <<step, currentTps>>
  BY <1>4 DEF UpdateTPS
<1>6. /\ number = step \/ (number = step + 1 /\ ~InRecovery(now))
      /\ driven = 0 .. step \/ (driven = {} /\ step = 0 /\ number = 0 /\ ~InRecovery(now))
  <2>1. CASE updatedAt = NoUpdate
    <3>1. now = 0 /\ step = 0 /\ driven = {}
      BY <1>1, <1>3, <2>1 DEF Curve
    <3>2. 0 = Cycle * 0 + 0
      BY Constants
    <3>3. now \div Cycle = 0 /\ now % Cycle = 0
      BY <3>1, <3>2, Constants, EuclidUnique
    <3>. QED BY <3>1, <3>3, <1>4, Constants DEF InRecovery, StepAt
  <2>2. CASE updatedAt # NoUpdate
    <3>1. /\ updatedAt <= now /\ now <= updatedAt + 1 /\ step = StepAt(updatedAt)
          /\ driven = 0 .. step
      BY <1>1, <1>3, <2>2 DEF Curve
    <3>2. now = updatedAt \/ now = updatedAt + 1
      BY <3>1, <1>2
    <3>3. CASE now = updatedAt
      BY <3>1, <3>3, <1>4
    <3>4. CASE now = updatedAt + 1
      <4>1. \/ StepAt(now) = StepAt(updatedAt)
            \/ StepAt(now) = StepAt(updatedAt) + 1 /\ ~InRecovery(now)
        BY ONLY <3>4, <1>2, StepEntered
      <4>. QED BY <4>1, <3>1, <1>4
    <3>. QED BY <3>2, <3>3, <3>4
  <2>. QED BY <2>1, <2>2
<1>7. currentTps = StartTps + IncrementTps * step
  BY <1>1 DEF Curve
<1>8. /\ step' = number /\ driven' = 0 .. number
      /\ currentTps' = StartTps + IncrementTps * number
      /\ limit' = IF InRecovery(now) THEN 1 ELSE currentTps'
  <2>1. CASE InRecovery(now)
    BY <2>1, <1>5, <1>6, <1>7
  <2>2. CASE ~InRecovery(now) /\ number = step + 1
    <3>1. number > step /\ driven = 0 .. step
      BY <2>2, <1>2, <1>6
    <3>2. (0 .. step) \cup {step + 1} = 0 .. (step + 1)
      BY <1>2
    <3>. QED BY <2>2, <3>1, <3>2, <1>5
  <2>3. CASE ~InRecovery(now) /\ number = step
    <3>1. ~(number > step)
      BY <2>3, <1>2
    <3>2. driven \cup {step} = 0 .. step
      <4>1. CASE driven = 0 .. step
        BY <4>1, <1>2
      <4>2. CASE driven = {} /\ step = 0
        BY <4>2
      <4>. QED BY <4>1, <4>2, <1>6
    <3>. QED BY <2>3, <3>1, <3>2, <1>5, <1>7
  <2>. QED BY <2>1, <2>2, <2>3, <1>6
<1>9. currentTps' \in Nat /\ limit' \in Nat
  <2>1. StartTps + IncrementTps * number \in Nat
    BY Constants
  <2>. QED BY <2>1, <1>8
<1>10. TypeOK'
  <2>1. updatedAt' \in 0 .. NoUpdate /\ step' \in Nat /\ driven' \subseteq Nat
    BY <1>2, <1>3, <1>8, Constants
  <2>. QED BY <2>1, <1>1, <1>3, <1>9 DEF TypeOK, collectorVars
<1>11. Collected' /\ Window' /\ VerdictIsRecent'
  BY <1>1, <1>3 DEF Collected, Window, VerdictIsRecent, collectorVars
<1>12. Curve'
  <2>1. updatedAt' # NoUpdate /\ now' = now /\ now <= now + 1 /\ now <= now
    BY <1>2, <1>3, Constants
  <2>2. step' = StepAt(now)
    BY <1>4, <1>8
  <2>. QED BY <2>1, <2>2, <1>3, <1>8 DEF Curve, StepAt
<1>13. LimitOnSchedule'
  BY <1>3, <1>4, <1>8 DEF LimitOnSchedule, Scheduled, InRecovery, StepAt
<1>14. FailedStaysThrottled'
  BY <1>3 DEF FailedStaysThrottled, Running
<1>. QED BY <1>10, <1>11, <1>12, <1>13, <1>14 DEF RamperInv

\* A failure throttles the run and ends the ramp.
LEMMA FailStep == RamperInv /\ FailSLO => RamperInv'
<1>. SUFFICES ASSUME RamperInv, FailSLO PROVE RamperInv'
  OBVIOUS
<1>1. TypeOK /\ Collected /\ Window /\ Curve
  BY DEF RamperInv
<1>2. /\ limit' = 1 /\ result' = "sloFailed" /\ ctxDone' = TRUE
      /\ UNCHANGED <<now, collectorVars, step, currentTps, updatedAt, driven>>
  BY DEF FailSLO
<1>3. /\ sloChan' = "closed"
      /\ watcher' = watcher \/ (watcher.pc = "offer" /\ watcher' = [watcher EXCEPT !.pc = "stopped"])
  BY <1>1 DEF FailSLO, Receivable, Window
<1>4. /\ watcher' \in [pc : {"start", "watch", "offer", "stopped"}, checkedAt : 0 .. MaxTime,
                        resetAt : 0 .. MaxTime, evidence : 0 .. NoTime]
      /\ watcher' = watcher \/ (watcher.pc = "offer" /\ watcher'.pc = "stopped")
  BY <1>1, <1>3 DEF TypeOK
<1>5. TypeOK'
  BY <1>1, <1>2, <1>3, <1>4 DEF TypeOK, collectorVars
<1>6. Collected'
  BY <1>1, <1>2, <1>4 DEF Collected, collectorVars
<1>7. Window' /\ VerdictIsRecent'
  BY <1>1, <1>2, <1>3, <1>4 DEF Window, VerdictIsRecent, collectorVars
<1>8. Curve' /\ LimitOnSchedule' /\ FailedStaysThrottled'
  BY <1>1, <1>2 DEF Curve, LimitOnSchedule, FailedStaysThrottled, Running
<1>. QED BY <1>5, <1>6, <1>7, <1>8 DEF RamperInv

\* The context ends, or Run returns because it did.
LEMMA EndingSteps == RamperInv /\ (Cancelled \/ EndRun) => RamperInv'
<1>. SUFFICES ASSUME RamperInv, Cancelled \/ EndRun PROVE RamperInv'
  OBVIOUS
<1>1. /\ UNCHANGED <<now, collectorVars, curveVars, watcher, sloChan>>
      /\ ctxDone' = TRUE \/ ctxDone' = ctxDone
      /\ result' = result \/ result' = "cancelled"
  BY DEF Cancelled, EndRun
<1>2. TypeOK /\ Collected /\ Window /\ VerdictIsRecent /\ Curve /\ LimitOnSchedule
      /\ FailedStaysThrottled
  BY DEF RamperInv
<1>3. TypeOK'
  BY <1>1, <1>2 DEF TypeOK, collectorVars, curveVars
<1>4. Collected' /\ Window' /\ VerdictIsRecent'
  BY <1>1, <1>2 DEF Collected, Window, VerdictIsRecent, collectorVars
<1>5. Curve' /\ LimitOnSchedule' /\ FailedStaysThrottled'
  BY <1>1, <1>2 DEF Curve, LimitOnSchedule, FailedStaysThrottled, Running, curveVars
<1>. QED BY <1>3, <1>4, <1>5 DEF RamperInv

\* The clock advances only past an update, and past a point of the window's grid
\* only when the window was opened there.
LEMMA TickStep == RamperInv /\ Tick => RamperInv'
<1>. SUFFICES ASSUME RamperInv, Tick PROVE RamperInv'
  OBVIOUS
<1>1. TypeOK /\ Collected /\ Window /\ VerdictIsRecent /\ Curve /\ LimitOnSchedule
      /\ FailedStaysThrottled
  BY DEF RamperInv
<1>2. /\ now < MaxTime /\ now' = now + 1 /\ watcher.pc # "start"
      /\ UNCHANGED <<collectorVars, curveVars, watcher, sloChan, result, ctxDone>>
  BY DEF Tick
<1>3. Running => updatedAt = now
  BY DEF Tick
<1>4. /\ now \in Nat /\ slowAt \in Nat /\ updatedAt \in Nat /\ watcher.resetAt \in Nat
      /\ blocks.lastBlockTime \in Nat
  BY <1>1, Constants DEF TypeOK, Collected, BlockState
<1>5. TypeOK'
  <2>1. now' \in 0 .. MaxTime
    BY <1>2, <1>4, Constants
  <2>. QED BY <2>1, <1>1, <1>2 DEF TypeOK, collectorVars, curveVars
<1>6. Collected'
  <2>1. blocks.lastBlockTime <= (now + 1) + Lead
    BY <1>1, <1>4, Constants DEF Collected
  <2>2. slowAt # NoTime => slowAt <= now + 1
    BY <1>1, <1>4 DEF Collected
  <2>3. /\ blocks \in BlockState
        /\ slowAt = NoTime => \A i \in DOMAIN blocks.windowBlockTimes : blocks.windowBlockTimes[i] <= SLO
    BY <1>1, <1>2 DEF Collected
  <2>. QED BY ONLY <2>1, <2>2, <2>3, <1>2 DEF Collected, collectorVars
<1>7. Window'
  <2>1. ASSUME watcher.pc = "watch"
        PROVE  /\ watcher.resetAt % WindowLen = 0
               /\ watcher.resetAt <= now + 1 /\ now + 1 <= watcher.resetAt + WindowLen
    <3>1. /\ watcher.resetAt % WindowLen = 0
          /\ watcher.resetAt <= now /\ now <= watcher.resetAt + WindowLen
      BY <2>1, <1>1 DEF Window
    <3>2. now # watcher.resetAt + WindowLen
      <4>1. SUFFICES ASSUME now = watcher.resetAt + WindowLen PROVE FALSE
        OBVIOUS
      <4>2. now % WindowLen = 0
        BY <3>1, <4>1, <1>4, NextOnGrid
      <4>3. now # watcher.resetAt
        BY <4>1, <1>4, Constants
      <4>. QED BY <4>2, <4>3, <2>1 DEF Tick, ResetDue
    <3>. QED BY <3>1, <3>2, <1>4, Constants
  <2>2. /\ sloChan = "offered" => watcher.pc = "offer"
        /\ watcher.pc = "watch" /\ slowAt # NoTime => watcher.resetAt <= slowAt
    BY <1>1 DEF Window
  <2>. QED BY ONLY <2>1, <2>2, <1>2 DEF Window, collectorVars
<1>8. Curve'
  <2>1. updatedAt # NoUpdate => updatedAt <= now + 1
    BY <1>1, <1>4 DEF Curve
  <2>2. now # NoUpdate /\ now + 1 <= now + 1
    BY <1>2, <1>4, Constants
  <2>3. Running => updatedAt # NoUpdate /\ now + 1 <= updatedAt + 1
    BY <2>2, <1>3
  <2>4. /\ currentTps = StartTps + IncrementTps * step
        /\ updatedAt = NoUpdate => step = 0 /\ driven = {}
        /\ updatedAt # NoUpdate => step = StepAt(updatedAt) /\ driven = 0 .. step
    BY <1>1 DEF Curve
  <2>. QED BY ONLY <2>1, <2>3, <2>4, <1>2 DEF Curve, curveVars, Running
<1>9. LimitOnSchedule' /\ FailedStaysThrottled' /\ VerdictIsRecent'
  BY <1>1, <1>2 DEF LimitOnSchedule, FailedStaysThrottled, VerdictIsRecent, curveVars, Running
<1>. QED BY <1>5, <1>6, <1>7, <1>8, <1>9 DEF RamperInv

\* Every step keeps the invariant.
LEMMA NextRamper == RamperInv /\ [Next]_vars => RamperInv'
<1>1. ASSUME RamperInv, UNCHANGED vars PROVE RamperInv'
  <2>1. UNCHANGED <<now, collectorVars, curveVars, watcher, sloChan, result, ctxDone>>
    BY <1>1 DEF vars
  <2>2. TypeOK /\ Collected /\ Window /\ VerdictIsRecent
    BY <1>1 DEF RamperInv
  <2>3. TypeOK'
    BY <2>1, <2>2 DEF TypeOK, collectorVars, curveVars
  <2>4. Collected' /\ Window' /\ VerdictIsRecent'
    BY <2>1, <2>2 DEF Collected, Window, VerdictIsRecent, collectorVars
  <2>. QED BY <1>1, <2>1, <2>3, <2>4, CurveKept DEF RamperInv
<1>. QED BY <1>1, BlockStep, OpeningSteps, CheckStep, StopsStep, UpdateStep, FailStep, EndingSteps,
            TickStep DEF Next

-----------------------------------------------------------------------------
(* What it shows.                                                           *)

\* The invariant holds throughout.
THEOREM RamperInvariant == SafeSpec => []RamperInv
BY InitRamper, NextRamper, PTL DEF SafeSpec

\* The shared limit follows the curve while the ramp runs, and a failed ramp
\* leaves the run throttled.
THEOREM RamperLimit == SafeSpec => []LimitInv
<1>1. RamperInv => LimitInv
  BY DEF RamperInv, LimitInv
<1>. QED BY <1>1, RamperInvariant, PTL

\* "Highest Passed TPS" names a step that was driven and whose cycle is over.
THEOREM RamperPassed == SafeSpec => []PassedWasDriven
<1>1. RamperInv => PassedWasDriven
  <2>. SUFFICES ASSUME RamperInv PROVE PassedWasDriven
    OBVIOUS
  <2>1. step \in Nat /\ now \in Nat /\ updatedAt \in Nat /\ Curve
    BY Constants DEF RamperInv, TypeOK
  <2>2. ASSUME NEW k \in 0 .. step - 1, step > 0
        PROVE  k \in driven /\ now >= (k + 1) * Cycle
    <3>1. updatedAt # NoUpdate
      BY <2>1, <2>2 DEF Curve
    <3>2. updatedAt <= now /\ step = StepAt(updatedAt) /\ driven = 0 .. step
      BY <2>1, <3>1 DEF Curve
    <3>3. k \in Nat /\ k < StepAt(updatedAt)
      BY <2>1, <2>2, <3>2
    <3>4. (k + 1) * Cycle <= updatedAt
      BY <2>1, <3>3, CyclesOver
    <3>5. PICK c \in Nat : c = (k + 1) * Cycle
      BY <3>3, Constants
    <3>6. k \in driven
      BY <2>1, <2>2, <3>2
    <3>7. now >= c
      BY <3>2, <3>4, <3>5, <2>1
    <3>. QED BY <3>5, <3>6, <3>7
  <2>3. ASSUME NEW tps \in GetCurveStats
        PROVE  \E k \in driven : tps = StartTps + IncrementTps * k
    <3>1. step # 0 /\ tps = StartTps + IncrementTps * (step - 1)
      BY <2>3 DEF GetCurveStats
    <3>2. step - 1 \in 0 .. step - 1 /\ step > 0
      BY <2>1, <3>1
    <3>3. step - 1 \in driven
      BY <2>2, <3>2
    <3>. QED BY <3>1, <3>3
  <2>. QED BY <2>2, <2>3 DEF PassedWasDriven
<1>. QED BY <1>1, RamperInvariant, PTL

\* A verdict rests on a head that came too late, at most WindowLen ago.
THEOREM RamperVerdict == SafeSpec => []VerdictIsRecent
<1>1. RamperInv => VerdictIsRecent
  BY DEF RamperInv
<1>. QED BY <1>1, RamperInvariant, PTL
=============================================================================
