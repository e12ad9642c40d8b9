------------------------------- MODULE Ramper -------------------------------
(***************************************************************************)
(* sender/ramper.go over a block collector of its own (BlockCollector).      *)
(* Ramper.Run moves the shared rate limit along a step curve and listens on  *)
(* a channel; the goroutine of WatchSLO checks the 90th percentile of the    *)
(* block times in a window and offers a value on that channel when the chain *)
(* is too slow; the collector records every head it sees, from before the     *)
(* ramp starts.  The limiter, the chain and the clock are external.           *)
(* One clock unit is the SLO's granularity; both 100ms tickers fire at least  *)
(* once per unit, the 30s ticker every WindowLen units.  No scope joins the   *)
(* goroutine of WatchSLO: it may outlive the run, and the final statistics.    *)
(***************************************************************************)
\* An operator Op_Variant is a faulty variant of Op: the properties are tested
\* against it, no specification uses it.
EXTENDS Naturals, Sequences, FiniteSets, BlockCollector

CONSTANTS
  StartTps, IncrementTps,         \* the step curve
  LoadInterval, RecoveryInterval, \* ... and the lengths of its phases
  SLO,          \* the block time that is still acceptable
  WindowLen,    \* how often the window is reset
  MaxTime       \* bound on the clock

ASSUME RamperAssumption ==
  /\ StartTps \in Nat /\ IncrementTps \in Nat
  /\ LoadInterval \in Nat \ {0} /\ RecoveryInterval \in Nat
  /\ SLO \in Nat /\ WindowLen \in Nat \ {0} /\ MaxTime \in Nat

VARIABLES
  now,          \* external: time since Ramper.Run started
  blocks,       \* the ramper's block collector
  limit,        \* external: the shared limiter's rate
  step,         \* RampCurveStep.Step
  currentTps,   \* RampCurveStep.CurrentTPS
  updatedAt,    \* when UpdateTPS last ran, NoUpdate before
  driven,       \* history: the steps whose load the limiter was set to
  watcher,      \* WatchSLO's goroutine: its place and its tickers
  sloChan,      \* the channel it returned: "open", "offered", "closed"
  result,       \* what Ramper.Run returned, "none" while it runs
  ctxDone,      \* the run's context has ended
  slowAt        \* history: when the last head came whose block time exceeded the SLO,
                \* NoTime if none has since the window was reset

collectorVars == <<blocks, slowAt>>
curveVars     == <<limit, step, currentTps, updatedAt, driven>>
vars == <<now, collectorVars, curveVars, watcher, sloChan, result, ctxDone>>

NoTime   == MaxTime + 1
NoUpdate == MaxTime + 1
Cycle    == LoadInterval + RecoveryInterval

\* The collector was started before the ramp: its clock is ahead, and it may have
\* seen two heads, too far apart.
Lead    == SLO + 3
AHead   == [number |-> 1, gas |-> 1]
Earlier == ProcessNewBlock(ProcessNewBlock(NoBlocks, AHead, 1), AHead, Lead)

\* Nobody reads the cumulative lists of this collector, or its gas: they are left
\* out of the state.
WindowOnly(b) ==
  [b EXCEPT !.allBlockTimes = <<>>, !.allGasUsed = <<>>, !.windowGasUsed = <<>>]

\* GetCurveStats, which LogFinalStats prints: the step before the current one.
GetCurveStats == IF step = 0 THEN {} ELSE {StartTps + IncrementTps * (step - 1)}

Init ==
  /\ now = 0
  /\ blocks \in {NoBlocks, WindowOnly(Earlier)}
  /\ slowAt = NoTime
  /\ limit = 1       \* NewRamper
  /\ step = 0
  /\ currentTps = StartTps
  /\ updatedAt = NoUpdate
  /\ driven = {}
  /\ watcher = [pc |-> "start", checkedAt |-> 0, resetAt |-> 0, evidence |-> NoTime]
  /\ sloChan = "open"
  /\ result = "none"
  /\ ctxDone = FALSE

-----------------------------------------------------------------------------
(* The block collector.                                                    *)

\* processNewBlock.
Block ==
  /\ blocks' = WindowOnly(ProcessNewBlock(blocks, AHead, now + Lead))
  /\ LET gap == now + Lead - blocks.lastBlockTime
     IN slowAt' = IF blocks.lastBlockTime # ZeroTime /\ gap > SLO THEN now ELSE slowAt
  /\ UNCHANGED <<now, curveVars, watcher, sloChan, result, ctxDone>>

-----------------------------------------------------------------------------
(* The goroutine of WatchSLO.                                              *)

\* The goroutine starts with a window of its own.
StartWatch ==
  /\ watcher.pc = "start"
  /\ watcher' = [watcher EXCEPT !.pc = "watch"]
  /\ blocks' = WindowReset(blocks)
  /\ slowAt' = NoTime
  /\ UNCHANGED <<now, curveVars, sloChan, result, ctxDone>>

TooSlow == GetWindowBlockTimePercentile(90, blocks) > SLO

\* The check passes, or a violation is found and offered on the channel.
CheckSLO ==
  /\ watcher.pc = "watch"
  /\ \/ ~TooSlow /\ watcher' = [watcher EXCEPT !.checkedAt = now] /\ UNCHANGED sloChan
     \/ /\ TooSlow
        /\ watcher' = [watcher EXCEPT !.pc = "offer", !.checkedAt = now, !.evidence = slowAt]
        /\ sloChan' = "offered"
  /\ UNCHANGED <<now, collectorVars, curveVars, result, ctxDone>>

ResetDue == now # watcher.resetAt /\ now % WindowLen = 0

\* The window ticker.  The statistics of the window, which are kept for
\* LogFinalStats to print, are left out.
ResetWindow ==
  /\ watcher.pc = "watch"
  /\ ResetDue
  /\ watcher' = [watcher EXCEPT !.resetAt = now]
  /\ blocks' = WindowReset(blocks)
  /\ slowAt' = NoTime
  /\ UNCHANGED <<now, curveVars, sloChan, result, ctxDone>>

\* The context ended, or Run took the offer: the goroutine returns and its
\* deferred close(ch) runs.
WatcherStops ==
  /\ watcher.pc \in {"watch", "offer"} /\ ctxDone
  /\ watcher' = [watcher EXCEPT !.pc = "stopped"]
  /\ sloChan' = "closed"
  /\ UNCHANGED <<now, collectorVars, curveVars, result, ctxDone>>

-----------------------------------------------------------------------------
(* Ramper.Run.                                                             *)

Running == result = "none"

\* GetTPS: where t is in the cycle, and the number of its step.
InRecovery_OffByOne(t) == t % Cycle >= LoadInterval
InRecovery(t) == t % Cycle > LoadInterval
StepAt_OfLoad(t) == t \div LoadInterval
StepAt(t) == t \div Cycle

\* RampCurveStep.GetTPS and SetLimit.  In the recovery phase the rate is 1
\* and the curve's own state stays; a new step is entered in a load phase.
UpdateTPS ==
  /\ Running
  /\ updatedAt' = now
  /\ LET number == StepAt(now)
     IN \/ /\ InRecovery(now)
           /\ limit' = 1
           /\ UNCHANGED <<step, currentTps, driven>>
        \/ /\ ~InRecovery(now)
           /\ IF number > step
                THEN step' = number /\ currentTps' = StartTps + IncrementTps * number
                ELSE UNCHANGED <<step, currentTps>>
           /\ limit' = currentTps'
           /\ driven' = driven \cup {step'}
  /\ UNCHANGED <<now, collectorVars, watcher, sloChan, result, ctxDone>>

\* A receive from sloChan succeeds, also when the channel is merely closed.
Receivable_OnlyClosed == sloChan = "closed"
Receivable == sloChan \in {"offered", "closed"}

\* Throttle and fail.
FailSLO ==
  /\ Running
  /\ Receivable
  /\ limit' = 1
  /\ result' = "sloFailed"
  /\ IF sloChan = "offered"
       THEN watcher' = [watcher EXCEPT !.pc = "stopped"] /\ sloChan' = "closed"
       ELSE UNCHANGED <<watcher, sloChan>>
  /\ ctxDone' = TRUE        \* the scope of Run, whose context the watcher has
  /\ UNCHANGED <<now, collectorVars, step, currentTps, updatedAt, driven>>

\* ctx.Done(): select picks any branch that is ready.
Cancelled ==
  /\ Running /\ ctxDone
  /\ result' = "cancelled"
  /\ UNCHANGED <<now, collectorVars, curveVars, watcher, sloChan, ctxDone>>

-----------------------------------------------------------------------------
(* The environment.                                                        *)

EndRun ==
  /\ ~ctxDone
  /\ ctxDone' = TRUE
  /\ UNCHANGED <<now, collectorVars, curveVars, watcher, sloChan, result>>

\* The clock, which the tickers keep up with.
Tick ==
  /\ now < MaxTime
  /\ Running => updatedAt = now
  /\ watcher.pc # "start"
  /\ watcher.pc = "watch" => watcher.checkedAt = now /\ ~ResetDue
  /\ now' = now + 1
  /\ UNCHANGED <<collectorVars, curveVars, watcher, sloChan, result, ctxDone>>

Next ==
  \/ Block
  \/ StartWatch \/ CheckSLO \/ ResetWindow \/ WatcherStops
  \/ UpdateTPS \/ FailSLO \/ Cancelled
  \/ EndRun \/ Tick

\* Run's loop is scheduled, and among branches that stay ready select chooses
\* at random, so none is passed over for ever.
Fairness ==
  /\ WF_vars(Tick) /\ WF_vars(StartWatch) /\ WF_vars(CheckSLO)
  /\ WF_vars(ResetWindow) /\ WF_vars(WatcherStops)
  /\ WF_vars(UpdateTPS) /\ SF_vars(FailSLO) /\ SF_vars(Cancelled)

SafeSpec == Init /\ [][Next]_vars
Spec     == SafeSpec /\ Fairness

-----------------------------------------------------------------------------
(* Properties.                                                             *)

\* Types of the ramper's state.
TypeOK ==
  /\ now \in 0 .. MaxTime
  /\ blocks.windowBlockTimes \in Seq(Nat) /\ Len(blocks.windowBlockTimes) <= BlockHistory
  /\ slowAt \in 0 .. NoTime
  /\ limit \in Nat /\ step \in Nat /\ currentTps \in Nat
  /\ updatedAt \in 0 .. NoUpdate
  /\ driven \subseteq Nat
  /\ watcher \in [pc : {"start", "watch", "offer", "stopped"}, checkedAt : 0 .. MaxTime,
                  resetAt : 0 .. MaxTime, evidence : 0 .. NoTime]
  /\ sloChan \in {"open", "offered", "closed"}
  /\ result \in {"none", "sloFailed", "cancelled"}
  /\ ctxDone \in BOOLEAN

\* The step curve as a function of time, without the state GetTPS keeps.
Scheduled(t) ==
  IF t % Cycle > LoadInterval THEN 1 ELSE StartTps + IncrementTps * (t \div Cycle)

\* While the ramp runs the shared limit is the one the curve prescribes for
\* the last update: the step that GetTPS remembers is never ahead or behind.
LimitOnSchedule == Running /\ updatedAt # NoUpdate => limit = Scheduled(updatedAt)

\* "Highest Passed TPS" of the final report names a step that was driven and
\* whose whole cycle is over: no step is skipped, or counted before its time.
\* A violation counts against it only once Run has received it: one that is
\* still offered when select takes the update ticker does not stop the step.
PassedWasDriven ==
  /\ \A k \in 0 .. step - 1 : step > 0 => k \in driven /\ now >= (k + 1) * Cycle
  /\ \A tps \in GetCurveStats : \E k \in driven : tps = StartTps + IncrementTps * k

\* A verdict rests on a head of the window it judges: one that was too slow and
\* came after the window was opened, at most WindowLen ago, never on what the
\* collector saw before the ramp began.
VerdictIsRecent ==
  sloChan = "offered" => /\ watcher.evidence # NoTime
                         /\ watcher.checkedAt - watcher.evidence <= WindowLen

\* A failed ramp leaves the run throttled: the update that was already due
\* cannot raise the limit again.
FailedStaysThrottled == result = "sloFailed" => limit = 1

\* The limiter's invariant: it follows the curve until the ramp has failed.
LimitInv == TypeOK /\ LimitOnSchedule /\ FailedStaysThrottled

\* A violation the watcher has found ends the ramp, although the update
\* ticker keeps offering Run's select another branch.
ViolationEndsRamp == (sloChan = "offered") ~> ~Running
=============================================================================
