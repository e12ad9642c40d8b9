--------------------------- MODULE InclusionTracker ---------------------------
(***************************************************************************)
(* stats/inclusion_tracker.go: a registry of accepted transactions, matched *)
(* against the blocks of the chain.  Four parties share it: the sender's     *)
(* tasks Register a transaction after its send succeeded; the head loop of    *)
(* Run takes heads from a subscription and matches each block; the reap loop  *)
(* expires what is older than ReapAfter; main reads Summary at the end.       *)
(* The registry is behind one mutex: each critical section is one action, and  *)
(* what the code does between two of them (the block fetch, the computation    *)
(* of the cutoff) is where the others come in.                                 *)
(*                                                                             *)
(* A transaction stands for its hash.  Time is a counter; the wall clock of    *)
(* the host, the chain and its head notifications are external.                *)
(***************************************************************************)
\* An operator Op_Variant is a faulty variant of Op: the properties are tested
\* against it, no specification uses it.
EXTENDS Integers, Sequences, FiniteSets

CONSTANTS
  Tx,          \* transactions
  MaxInflight, \* inclusionRegistryCap, positive after NewInclusionTracker
  ReapAfter,   \* reapAfter in clock units, positive after NewInclusionTracker
  FetchTimeout,\* the time a fetch may take in clock units, 10 s in the code
  MaxTime,     \* bound on the clock
  MaxBlock,    \* bound on the chain
  MaxHeads     \* bound on heads buffered by the subscription

ASSUME TxAssumption    == IsFiniteSet(Tx)
ASSUME CapAssumption   == MaxInflight \in Nat \ {0}
ASSUME ReapAssumption  == ReapAfter \in Nat \ {0}
ASSUME FetchAssumption == FetchTimeout \in Nat \ {0}
ASSUME BoundAssumption == MaxTime \in Nat /\ MaxBlock \in Nat /\ MaxHeads \in Nat

VARIABLES
  now,          \* external: the wall clock
  height,       \* external: the chain's height
  blockOf,      \* external: [Tx -> the block that holds it, 0 if none]
  headAt,       \* external: [block -> when its head reached this host, 0 if never]
  heads,        \* external: heads the subscription has buffered, oldest first
  txPc,         \* where the sender is with a transaction
  inflight,     \* inclusionState.inflight
  registeredAt, \* entry.registeredAt
  inclusionTime,\* LoadTx.InclusionTime, 0 for the zero time
  included, expired, droppedAtCap,   \* the counters of inclusionState
  lastSeen,     \* lastSeen of Run
  fetches,      \* [block -> how often its body was requested]
  blockGaps,    \* the inclusionBlockGaps counter
  head,         \* what the head loop is doing, for which block
  reaper,       \* what the reap loop is doing, with which cutoff
  run           \* the run's context, who has joined, and the summary

chainVars    == <<now, height, blockOf, headAt, heads>>
registryVars == <<txPc, inflight, registeredAt, inclusionTime, included, expired, droppedAtCap>>
headVars     == <<lastSeen, fetches, blockGaps, head>>
vars == <<chainVars, registryVars, headVars, reaper, run>>

Block == 1 .. MaxBlock

\* new -> accepted (client.Send returned nil) -> registered or droppedAtCap.
TxPc == {"new", "accepted", "registered", "dropped"}

NotTaken == -1    \* Summary has not been called

Init ==
  /\ now = 1
  /\ height = 0
  /\ blockOf = [tx \in Tx |-> 0]
  /\ headAt = [b \in Block |-> 0]
  /\ heads = <<>>
  /\ txPc = [tx \in Tx |-> "new"]
  /\ inflight = {}
  /\ registeredAt = [tx \in Tx |-> 0]
  /\ inclusionTime = [tx \in Tx |-> 0]
  /\ included = 0 /\ expired = 0 /\ droppedAtCap = 0
  /\ lastSeen = 0
  /\ fetches = [b \in Block |-> 0]
  /\ blockGaps = 0
  /\ head = [pc |-> "recv", num |-> 0, arrival |-> 0]
  /\ reaper = [pc |-> "wait", cutoff |-> 0, last |-> 0]
  /\ run = [done |-> FALSE, sender |-> FALSE, tracker |-> FALSE, inflightAtShutdown |-> NotTaken]

-----------------------------------------------------------------------------
(* The sender.                                                             *)

\* The chain accepted tx; the task has not reached Register yet.
SendOk(tx) ==
  /\ txPc[tx] = "new"
  /\ ~run.sender
  /\ txPc' = [txPc EXCEPT ![tx] = "accepted"]
  /\ UNCHANGED <<chainVars, inflight, registeredAt, inclusionTime, included, expired,
                 droppedAtCap, headVars, reaper, run>>

AtCap == Cardinality(inflight) >= MaxInflight

\* Cap check and insert share one critical section.
Register(tx) ==
  /\ txPc[tx] = "accepted"
  /\ \/ /\ AtCap
        /\ droppedAtCap' = droppedAtCap + 1
        /\ txPc' = [txPc EXCEPT ![tx] = "dropped"]
        /\ UNCHANGED <<inflight, registeredAt>>
     \/ /\ ~AtCap
        /\ inflight' = inflight \cup {tx}
        /\ registeredAt' = [registeredAt EXCEPT ![tx] = now]
        /\ txPc' = [txPc EXCEPT ![tx] = "registered"]
        /\ UNCHANGED droppedAtCap
  /\ UNCHANGED <<chainVars, inclusionTime, included, expired, headVars, reaper, run>>

-----------------------------------------------------------------------------
(* The head loop: Run, processHead, matchBlock.                            *)

\* A duplicate or out-of-order head.
Stale_OnlyOlder(num) == lastSeen # 0 /\ num < lastSeen
Stale(num) == lastSeen # 0 /\ num <= lastSeen

\* Recv a head.  A duplicate or out-of-order one is ignored; for a new one the
\* gap is counted and the body requested.  `arrival` is read only now.
RecvHead ==
  /\ head.pc = "recv"
  /\ ~run.tracker
  /\ heads # <<>>
  /\ heads' = Tail(heads)
  /\ LET num == Head(heads)
     IN \/ /\ Stale(num)
           /\ UNCHANGED headVars
        \/ /\ ~Stale(num)
           /\ blockGaps' = IF lastSeen = 0 THEN blockGaps ELSE blockGaps + (num - lastSeen - 1)
           /\ fetches' = [fetches EXCEPT ![num] = @ + 1]
           /\ head' = [pc |-> "fetch", num |-> num, arrival |-> now]
           /\ UNCHANGED lastSeen
  /\ UNCHANGED <<now, height, blockOf, headAt, registryVars, reaper, run>>

\* The body arrived.
FetchOk ==
  /\ head.pc = "fetch"
  /\ head' = [head EXCEPT !.pc = "match"]
  /\ UNCHANGED <<chainVars, registryVars, lastSeen, fetches, blockGaps, reaper, run>>

\* The fetch failed or timed out: not retried, the block counts as seen.
FetchErr ==
  /\ head.pc = "fetch"
  /\ head' = [head EXCEPT !.pc = "recv"]
  /\ lastSeen' = head.num
  /\ UNCHANGED <<chainVars, registryVars, fetches, blockGaps, reaper, run>>

\* The registered transactions of block num.
Hits(num) == {tx \in inflight : blockOf[tx] = num}

\* Stamp and remove every registered transaction of the block.
MatchBlock_KeepsEntries ==
  /\ head.pc = "match"
  /\ inclusionTime' = [tx \in Tx |-> IF tx \in Hits(head.num) THEN head.arrival ELSE inclusionTime[tx]]
  /\ included' = included + Cardinality(Hits(head.num))
  /\ lastSeen' = head.num /\ head' = [head EXCEPT !.pc = "recv"]
  /\ UNCHANGED <<chainVars, txPc, inflight, registeredAt, expired, droppedAtCap, fetches,
                 blockGaps, reaper, run>>
MatchBlock ==
  /\ head.pc = "match"
  /\ LET hits == Hits(head.num)
     IN /\ inclusionTime' = [tx \in Tx |-> IF tx \in hits THEN head.arrival ELSE inclusionTime[tx]]
        /\ inflight' = inflight \ hits
        /\ included' = included + Cardinality(hits)
  /\ lastSeen' = head.num
  /\ head' = [head EXCEPT !.pc = "recv"]
  /\ UNCHANGED <<chainVars, txPc, registeredAt, expired, droppedAtCap, fetches, blockGaps,
                 reaper, run>>

-----------------------------------------------------------------------------
(* The reap loop.                                                          *)

\* The ticker fires every ReapAfter; no tick is missed, see Tick.
Due == now - reaper.last >= ReapAfter

Cutoff_Now == now
Cutoff == now - ReapAfter

\* reap computes its cutoff before it takes the lock.
ReapTick ==
  /\ reaper.pc = "wait"
  /\ ~run.tracker
  /\ Due
  /\ reaper' = [pc |-> "sweep", cutoff |-> Cutoff, last |-> now]
  /\ UNCHANGED <<chainVars, registryVars, headVars, run>>

\* What is due for eviction.
Old == {tx \in inflight : registeredAt[tx] <= reaper.cutoff}

Sweep ==
  /\ reaper.pc = "sweep"
  /\ inflight' = inflight \ Old
  /\ expired' = expired + Cardinality(Old)
  /\ reaper' = [reaper EXCEPT !.pc = "wait"]
  /\ UNCHANGED <<chainVars, txPc, registeredAt, inclusionTime, included, droppedAtCap,
                 headVars, run>>

-----------------------------------------------------------------------------
(* The end of the run.                                                     *)

EndRun ==
  /\ ~run.done
  /\ run' = [run EXCEPT !.done = TRUE]
  /\ UNCHANGED <<chainVars, registryVars, headVars, reaper>>

\* ShardedSender.Run returns: every task it spawned has finished, Register too.
SenderJoin ==
  /\ run.done /\ ~run.sender
  /\ \A tx \in Tx : txPc[tx] # "accepted"
  /\ run' = [run EXCEPT !.sender = TRUE]
  /\ UNCHANGED <<chainVars, registryVars, headVars, reaper>>

\* InclusionTracker.Run returns: its scope has joined the reap loop.
TrackerJoin ==
  /\ run.done /\ ~run.tracker
  /\ head.pc = "recv" /\ reaper.pc = "wait"
  /\ run' = [run EXCEPT !.tracker = TRUE]
  /\ UNCHANGED <<chainVars, registryVars, headVars, reaper>>

\* main calls it after scope.Run returned, so after both joins.
Summary_BeforeTracker ==
  /\ run.sender
  /\ run.inflightAtShutdown = NotTaken
  /\ run' = [run EXCEPT !.inflightAtShutdown = Cardinality(inflight)]
  /\ UNCHANGED <<chainVars, registryVars, headVars, reaper>>
Summary ==
  /\ run.sender /\ run.tracker
  /\ run.inflightAtShutdown = NotTaken
  /\ run' = [run EXCEPT !.inflightAtShutdown = Cardinality(inflight)]
  /\ UNCHANGED <<chainVars, registryVars, headVars, reaper>>

-----------------------------------------------------------------------------
(* The environment.                                                        *)

\* external: a block with some of the transactions the chain has accepted.
Produce ==
  /\ height < MaxBlock
  /\ height' = height + 1
  /\ \E body \in SUBSET {tx \in Tx : txPc[tx] # "new" /\ blockOf[tx] = 0} :
       blockOf' = [tx \in Tx |-> IF tx \in body THEN height + 1 ELSE blockOf[tx]]
  /\ UNCHANGED <<now, headAt, heads, registryVars, headVars, reaper, run>>

\* external: a head notification, possibly again or out of order; a head that
\* never arrives is lost.
HeadArrives(b) ==
  /\ b <= height
  /\ Len(heads) < MaxHeads
  /\ heads' = Append(heads, b)
  /\ headAt' = [headAt EXCEPT ![b] = IF @ = 0 THEN now ELSE @]
  /\ UNCHANGED <<now, height, blockOf, registryVars, headVars, reaper, run>>

\* The fetch has time left; one whose context has ended fails like any other.
Patient_Always == TRUE
Patient == now - head.arrival < FetchTimeout

\* Time passes.  The two loops have nothing to wait for but the registry's
\* mutex, which is held only briefly: a sweep that is due, and a head that is
\* taken up or matched, do not outlast their clock unit.  A fetch may, up to its
\* timeout.
Tick ==
  /\ now < MaxTime
  /\ \/ run.tracker
     \/ /\ ~Due /\ reaper.pc = "wait"
        /\ (head.pc = "fetch" /\ Patient) \/ (head.pc = "recv" /\ heads = <<>>)
  /\ now' = now + 1
  /\ UNCHANGED <<height, blockOf, headAt, heads, registryVars, headVars, reaper, run>>

Next ==
  \/ \E tx \in Tx : SendOk(tx) \/ Register(tx)
  \/ RecvHead \/ FetchOk \/ FetchErr \/ MatchBlock
  \/ ReapTick \/ Sweep
  \/ EndRun \/ SenderJoin \/ TrackerJoin \/ Summary
  \/ Produce \/ Tick
  \/ \E b \in Block : HeadArrives(b)

Spec == Init /\ [][Next]_vars

-----------------------------------------------------------------------------
(* Properties.                                                             *)

Registered == {tx \in Tx : txPc[tx] = "registered"}
Fetched    == {b \in Block : fetches[b] > 0}

\* Types of the tracker's state.
TypeOK ==
  /\ now \in Nat
  /\ height \in 0 .. MaxBlock
  /\ blockOf \in [Tx -> 0 .. MaxBlock]
  /\ headAt \in [Block -> Nat]
  /\ heads \in Seq(Block)
  /\ txPc \in [Tx -> TxPc]
  /\ inflight \subseteq Tx
  /\ registeredAt \in [Tx -> Nat]
  /\ inclusionTime \in [Tx -> Nat]
  /\ included \in Nat /\ expired \in Nat /\ droppedAtCap \in Nat
  /\ lastSeen \in 0 .. MaxBlock
  /\ fetches \in [Block -> Nat]
  /\ blockGaps \in Nat
  /\ head \in [pc : {"recv", "fetch", "match"}, num : 0 .. MaxBlock, arrival : Nat]
  /\ reaper \in [pc : {"wait", "sweep"}, cutoff : Int, last : Nat]
  /\ run \in [done : BOOLEAN, sender : BOOLEAN, tracker : BOOLEAN,
              inflightAtShutdown : Nat \cup {NotTaken}]

\* "Conservation: registered == included + expired + inflight": every admitted
\* transaction has exactly one fate, however Register, a match and a sweep of
\* the same transaction interleave.
Conservation ==
  /\ inflight \subseteq Registered
  /\ included + expired + Cardinality(inflight) = Cardinality(Registered)
  /\ droppedAtCap = Cardinality({tx \in Tx : txPc[tx] = "dropped"})

\* The registry never exceeds its cap.
WithinCap == Cardinality(inflight) <= MaxInflight

\* InclusionTime is written for exactly the transactions counted as included,
\* and never for one that may still be counted as expired.
StampedIsIncluded ==
  /\ Cardinality({tx \in Tx : inclusionTime[tx] # 0}) = included
  /\ \A tx \in inflight : inclusionTime[tx] = 0

\* "an undercount of inclusions, never a miscount": an included transaction is
\* in a block, and stamped when that block's head was here: not earlier, and
\* later only by what the fetches of the blocks before it may have taken, for
\* `arrival` is read when the head is taken up and not when it arrives.
NeverMiscounted ==
  \A tx \in Tx : inclusionTime[tx] # 0 =>
    LET block  == blockOf[tx]
        before == {b \in Block : b < block /\ fetches[b] > 0}
    IN /\ block # 0
       /\ 0 < headAt[block] /\ headAt[block] <= inclusionTime[tx]
       /\ inclusionTime[tx] <= headAt[block] + FetchTimeout * Cardinality(before)

\* The registry's invariant: its types, its cap, and every entry accounted for.
RegistryInv == TypeOK /\ WithinCap /\ Conservation /\ StampedIsIncluded

\* What main reports at the end balances and stays balanced: nobody touches the
\* registry after the two joins.
SummaryIsFinal ==
  run.inflightAtShutdown # NotTaken =>
    included + expired + run.inflightAtShutdown = Cardinality(Registered)

\* "matches each arriving block once": no body is requested twice, and from the
\* first head on every block up to lastSeen was either requested or counted as
\* a gap.
HeadsAccounted ==
  /\ \A b \in Block : fetches[b] <= 1
  /\ lastSeen # 0 /\ head.pc = "recv" =>
       \E seed \in Fetched :
         /\ \A b \in Fetched : seed <= b /\ b <= lastSeen
         /\ blockGaps + Cardinality(Fetched) = lastSeen - seed + 1

\* "worst-case eviction latency is ~2 x reapAfter": nothing outstays that in
\* the registry while the tracker runs.
EvictedInTime ==
  ~run.tracker => \A tx \in inflight : now - registeredAt[tx] < 2 * ReapAfter

\* A transaction is expired only after ReapAfter in the registry: a step that
\* removes one without stamping it finds it at least that old.
NeverReapedEarly ==
  [][\A tx \in inflight \ inflight' :
       inclusionTime'[tx] # 0 \/ now - registeredAt[tx] >= ReapAfter]_vars

\* The reaper evicts neither early nor late.
ReapedOnTime == []EvictedInTime /\ NeverReapedEarly
=============================================================================
