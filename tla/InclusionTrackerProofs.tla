------------------------ MODULE InclusionTrackerProofs ------------------------
(***************************************************************************)
(* What InclusionTracker promises, for every number of transactions, every  *)
(* cap, reap interval, fetch timeout, and however the chain, its heads and   *)
(* the clock behave.  The inductive invariant has five parts: the registry   *)
(* and its counters, the joins main relies on, the reaper's timing, the heads *)
(* that were taken up, and the time a head may have waited.                  *)
(***************************************************************************)
EXTENDS InclusionTracker, FiniteSetTheorems, SequenceTheorems, TLAPS

Dropped == {tx \in Tx : txPc[tx] = "dropped"}
Stamped == {tx \in Tx : inclusionTime[tx] # 0}

\* The block whose head was taken up last.
Current == IF head.pc = "recv" THEN lastSeen ELSE head.num

\* The reaper: while the tracker runs, no tick is missed, and what a sweep left
\* behind was registered less than ReapAfter before it.
ReapTiming ==
  /\ reaper.last <= now
  /\ reaper.pc = "wait" =>
       /\ ~run.tracker => now <= reaper.last + ReapAfter
       /\ \A tx \in inflight : registeredAt[tx] > reaper.last - ReapAfter
  /\ reaper.pc = "sweep" =>
       /\ now = reaper.last /\ reaper.cutoff = reaper.last - ReapAfter
       /\ \A tx \in inflight : registeredAt[tx] > reaper.last - 2 * ReapAfter

\* The registry: only registered transactions are stamped, with the time their
\* head was taken up, which is never the zero time.
Registry ==
  /\ RegistryInv
  /\ Stamped \subseteq Registered
  /\ \A tx \in Tx : registeredAt[tx] <= now
  /\ now >= 1
  /\ head.pc # "recv" => head.num \in Block /\ 1 <= head.arrival /\ head.arrival <= now

\* What the joins mean: nobody touches the registry after them.
Joins ==
  /\ run.sender => \A tx \in Tx : txPc[tx] # "accepted"
  /\ run.tracker => head.pc = "recv" /\ reaper.pc = "wait"
  /\ run.inflightAtShutdown # NotTaken =>
       run.sender /\ run.tracker /\ run.inflightAtShutdown = Cardinality(inflight)

-----------------------------------------------------------------------------
(* Finite sets of transactions.                                            *)

\* The sets of transactions the registry keeps are finite.
LEMMA TxSets ==
  ASSUME NEW S, S \subseteq Tx
  PROVE  IsFiniteSet(S) /\ Cardinality(S) \in Nat
BY TxAssumption, FS_Subset, FS_CardinalityType

\* Removing a part.
LEMMA PartRemoved ==
  ASSUME NEW S, S \subseteq Tx, NEW T, T \subseteq S
  PROVE  Cardinality(S \ T) = Cardinality(S) - Cardinality(T)
<1>1. S \cap T = T
  OBVIOUS
<1>. QED BY <1>1, TxSets, FS_Difference

\* Joining disjoint sets.
LEMMA PartsJoined ==
  ASSUME NEW S, S \subseteq Tx, NEW T, T \subseteq Tx, S \cap T = {}
  PROVE  Cardinality(S \cup T) = Cardinality(S) + Cardinality(T)
<1>1. Cardinality(S \cup T) = Cardinality(S) + Cardinality(T) - Cardinality({})
  BY TxSets, FS_Union
<1>. QED BY <1>1, TxSets, FS_EmptySet

-----------------------------------------------------------------------------
(* The registry.                                                           *)

\* The registry starts empty, before anything was joined.
LEMMA RegistryInit == Init => Registry /\ Joins
<1>. SUFFICES ASSUME Init PROVE Registry /\ Joins
  OBVIOUS
<1>. USE DEF Init
<1>1. TypeOK
  <2>1. MaxBlock \in Nat
    BY BoundAssumption
  <2>. QED BY <2>1 DEF TypeOK, TxPc, NotTaken, Block
<1>2. Registered = {} /\ Stamped = {} /\ Dropped = {}
  BY DEF Registered, Stamped, Dropped
<1>3. /\ inflight = {} /\ Cardinality({}) = 0 /\ MaxInflight \in Nat
      /\ included = 0 /\ expired = 0 /\ droppedAtCap = 0
  BY FS_EmptySet, CapAssumption
<1>4. Cardinality(Registered) = 0 /\ Cardinality(Stamped) = 0 /\ Cardinality(Dropped) = 0
  BY <1>2, <1>3
<1>5. WithinCap
  BY <1>3, CapAssumption DEF WithinCap
<1>6. Conservation
  BY <1>3, <1>4 DEF Conservation, Dropped
<1>7. StampedIsIncluded
  BY <1>3, <1>4 DEF StampedIsIncluded, Stamped
<1>8. RegistryInv
  BY <1>1, <1>5, <1>6, <1>7 DEF RegistryInv
<1>. QED BY <1>2, <1>8 DEF Registry, Joins

\* The types the following proofs use.
LEMMA RegistryTypes ==
  ASSUME Registry
  PROVE  /\ TypeOK /\ WithinCap /\ Conservation /\ StampedIsIncluded
         /\ txPc \in [Tx -> TxPc]
         /\ inflight \subseteq Tx
         /\ registeredAt \in [Tx -> Nat] /\ inclusionTime \in [Tx -> Nat]
         /\ included \in Nat /\ expired \in Nat /\ droppedAtCap \in Nat
         /\ now \in Nat
         /\ head \in [pc : {"recv", "fetch", "match"}, num : 0 .. MaxBlock, arrival : Nat]
         /\ Registered \subseteq Tx /\ Dropped \subseteq Tx /\ Stamped \subseteq Tx
<1>1. Registered \subseteq Tx /\ Dropped \subseteq Tx /\ Stamped \subseteq Tx
  BY DEF Registered, Dropped, Stamped
<1>. QED BY <1>1 DEF Registry, RegistryInv, TypeOK

\* A step that leaves the registry alone keeps it, if it keeps the types.
LEMMA RegistryFrame ==
  ASSUME Registry, TypeOK', UNCHANGED registryVars, now' >= now,
         head'.pc # "recv" => head'.num \in Block /\ 1 <= head'.arrival /\ head'.arrival <= now'
  PROVE  Registry'
<1>1. Registered' = Registered /\ Stamped' = Stamped /\ Dropped' = Dropped
  BY DEF Registered, Stamped, Dropped, registryVars
<1>2. RegistryInv'
  BY <1>1 DEF Registry, RegistryInv, WithinCap, Conservation, StampedIsIncluded, Stamped,
              Dropped, registryVars
<1>3. /\ \A tx \in Tx : registeredAt'[tx] <= now'
      /\ now' >= 1
  <2>1. registeredAt \in [Tx -> Nat] /\ now \in Nat /\ now' \in Nat
    BY RegistryTypes DEF TypeOK
  <2>2. registeredAt' = registeredAt
    BY DEF registryVars
  <2>. QED BY <2>1, <2>2 DEF Registry
<1>. QED BY <1>1, <1>2, <1>3 DEF Registry

\* What Register assigns.
LEMMA RegisterTypes ==
  ASSUME txPc \in [Tx -> TxPc], inflight \subseteq Tx, registeredAt \in [Tx -> Nat],
         droppedAtCap \in Nat, now \in Nat, NEW tx \in Tx, Register(tx)
  PROVE  /\ txPc' \in [Tx -> TxPc]
         /\ inflight' \subseteq Tx
         /\ registeredAt' \in [Tx -> Nat]
         /\ droppedAtCap' \in Nat
BY DEF Register, TxPc

\* Types: each action assigns what it should.
LEMMA TypeStep == ASSUME Registry, [Next]_vars PROVE TypeOK'
<1>. USE DEF TypeOK
<1>0. /\ TypeOK /\ MaxBlock \in Nat /\ ReapAfter \in Nat
      /\ head.pc # "recv" => head.num \in Block
      /\ inflight \subseteq Tx
  BY BoundAssumption, ReapAssumption DEF Registry, RegistryInv
<1>1. ASSUME NEW tx \in Tx, SendOk(tx) \/ Register(tx)
      PROVE  TypeOK'
  <2>1. txPc' \in [Tx -> TxPc] /\ inflight' \subseteq Tx /\ registeredAt' \in [Tx -> Nat]
          /\ droppedAtCap' \in Nat
    <3>1. CASE SendOk(tx)
      BY <1>0, <3>1 DEF SendOk, TxPc
    <3>2. CASE Register(tx)
      BY <1>0, <3>2, RegisterTypes
    <3>. QED BY <1>1, <3>1, <3>2
  <2>2. UNCHANGED <<chainVars, inclusionTime, included, expired, headVars, reaper, run>>
    BY <1>1 DEF SendOk, Register
  <2>. QED BY <1>0, <2>1, <2>2 DEF chainVars, headVars
<1>2. CASE RecvHead
  <2>1. /\ heads \in Seq(Block) /\ heads # <<>> /\ Head(heads) \in Block
        /\ heads' = Tail(heads) /\ Tail(heads) \in Seq(Block)
    <3>1. heads \in Seq(Block)
      BY <1>0
    <3>2. heads # <<>> /\ heads' = Tail(heads)
      BY <1>2 DEF RecvHead
    <3>. HIDE DEF TypeOK
    <3>. QED BY <3>1, <3>2, HeadTailProperties
  <2>2. UNCHANGED <<now, height, blockOf, headAt, registryVars, reaper, run>>
    BY <1>2 DEF RecvHead
  <2>3. CASE UNCHANGED headVars
    BY <1>0, <2>1, <2>2, <2>3 DEF headVars, registryVars
  <2>4. CASE ~Stale(Head(heads))
    <3> DEFINE num == Head(heads)
    <3>1. num \in Nat /\ num \in 0 .. MaxBlock /\ num \in Block
      <4>. HIDE DEF TypeOK
      <4>. QED BY <1>0, <2>1 DEF Block
    <3>2. /\ blockGaps' = IF lastSeen = 0 THEN blockGaps ELSE blockGaps + (num - lastSeen - 1)
          /\ fetches' = [fetches EXCEPT ![num] = @ + 1]
          /\ head' = [pc |-> "fetch", num |-> num, arrival |-> now]
          /\ UNCHANGED lastSeen
      BY <1>2, <2>4 DEF RecvHead
    <3>3. blockGaps' \in Nat
      <4>1. lastSeen \in Nat /\ blockGaps \in Nat
        BY <1>0
      <4>. HIDE DEF TypeOK
      <4>2. lastSeen = 0 \/ num > lastSeen
        BY <2>4, <3>1, <4>1 DEF Stale
      <4>. QED BY <3>1, <3>2, <4>1, <4>2
    <3>4. fetches' \in [Block -> Nat]
      BY <1>0, <3>1, <3>2
    <3>5. head' \in [pc : {"recv", "fetch", "match"}, num : 0 .. MaxBlock, arrival : Nat]
            /\ lastSeen' \in 0 .. MaxBlock
      <4>1. now \in Nat /\ lastSeen \in 0 .. MaxBlock
        BY <1>0
      <4>. HIDE DEF TypeOK
      <4>. QED BY <3>1, <3>2, <4>1
    <3>6. /\ now' \in Nat /\ height' \in 0 .. MaxBlock /\ blockOf' \in [Tx -> 0 .. MaxBlock]
          /\ headAt' \in [Block -> Nat] /\ heads' \in Seq(Block)
      BY <1>0, <2>1, <2>2
    <3>7. /\ txPc' \in [Tx -> TxPc] /\ inflight' \subseteq Tx /\ registeredAt' \in [Tx -> Nat]
          /\ inclusionTime' \in [Tx -> Nat]
          /\ included' \in Nat /\ expired' \in Nat /\ droppedAtCap' \in Nat
      BY <1>0, <2>2 DEF registryVars
    <3>8. /\ reaper' \in [pc : {"wait", "sweep"}, cutoff : Int, last : Nat]
          /\ run' \in [done : BOOLEAN, sender : BOOLEAN, tracker : BOOLEAN,
                       inflightAtShutdown : Nat \cup {NotTaken}]
      BY <1>0, <2>2
    <3>. QED BY ONLY <3>3, <3>4, <3>5, <3>6, <3>7, <3>8, Zenon DEF TypeOK
  <2>. QED BY <1>2, <2>3, <2>4 DEF RecvHead
<1>3. CASE FetchOk \/ FetchErr
  BY <1>0, <1>3 DEF FetchOk, FetchErr, chainVars, registryVars, Block
<1>4. CASE MatchBlock
  <2>1. Hits(head.num) \subseteq Tx /\ Cardinality(Hits(head.num)) \in Nat
    BY <1>0, TxSets DEF Hits
  <2>2. included' \in Nat /\ inclusionTime' \in [Tx -> Nat]
    BY <1>0, <1>4, <2>1 DEF MatchBlock
  <2>3. /\ inflight' \subseteq Tx
        /\ lastSeen' = head.num /\ head.num \in Block
        /\ head' = [head EXCEPT !.pc = "recv"]
        /\ UNCHANGED <<chainVars, txPc, registeredAt, expired, droppedAtCap, fetches, blockGaps,
                      reaper, run>>
    BY <1>0, <1>4 DEF MatchBlock
  <2>. QED BY <1>0, <2>2, <2>3 DEF chainVars, Block
<1>5. CASE ReapTick
  BY <1>0, <1>5 DEF ReapTick, Cutoff, chainVars, registryVars, headVars
<1>6. CASE Sweep
  <2>1. Old \subseteq Tx /\ Cardinality(Old) \in Nat
    BY <1>0, TxSets DEF Old
  <2>2. /\ inflight' \subseteq Tx /\ expired' \in Nat
        /\ reaper' \in [pc : {"wait", "sweep"}, cutoff : Int, last : Nat]
    <3>1. inflight' = inflight \ Old /\ expired' = expired + Cardinality(Old)
            /\ reaper' = [reaper EXCEPT !.pc = "wait"]
      BY <1>6 DEF Sweep
    <3>2. expired' \in Nat
      BY <1>0, <2>1, <3>1
    <3>. QED BY <1>0, <3>1, <3>2
  <2>3. UNCHANGED <<chainVars, txPc, registeredAt, inclusionTime, included, droppedAtCap,
                    headVars, run>>
    BY <1>6 DEF Sweep
  <2>. QED BY <1>0, <2>2, <2>3 DEF chainVars, headVars
<1>7. CASE EndRun \/ SenderJoin \/ TrackerJoin
  BY <1>0, <1>7 DEF EndRun, SenderJoin, TrackerJoin, chainVars, registryVars, headVars
<1>8. CASE Summary
  <2>1. Cardinality(inflight) \in Nat
    BY <1>0, TxSets
  <2>. QED BY <1>0, <1>8, <2>1 DEF Summary, chainVars, registryVars, headVars
<1>9. CASE Produce
  <2>1. height' \in 0 .. MaxBlock /\ blockOf' \in [Tx -> 0 .. MaxBlock]
    BY <1>0, <1>9 DEF Produce
  <2>. QED BY <1>0, <1>9, <2>1 DEF Produce, registryVars, headVars
<1>10. CASE Tick
  BY <1>0, <1>10 DEF Tick, registryVars, headVars
<1>11. ASSUME NEW b \in Block, HeadArrives(b)
       PROVE  TypeOK'
  <2>1. heads' \in Seq(Block) /\ headAt' \in [Block -> Nat]
    BY <1>0, <1>11, AppendProperties DEF HeadArrives
  <2>. QED BY <1>0, <1>11, <2>1 DEF HeadArrives, registryVars, headVars
<1>12. CASE UNCHANGED vars
  BY <1>0, <1>12 DEF vars, chainVars, registryVars, headVars
<1>. QED BY <1>1, <1>2, <1>3, <1>4, <1>5, <1>6, <1>7, <1>8, <1>9, <1>10, <1>11, <1>12 DEF Next

\* Register: the cap check and the insertion are one critical section.
LEMMA RegisterStep ==
  ASSUME Registry, TypeOK', NEW tx \in Tx, Register(tx)
  PROVE  Registry'
<1>. USE RegistryTypes
<1>0. /\ Stamped \subseteq Registered
      /\ txPc[tx] = "accepted" /\ tx \notin Registered /\ tx \notin Dropped /\ tx \notin inflight
  BY DEF Registry, Registered, Dropped, Register, Conservation
<1>1. Stamped' = Stamped /\ UNCHANGED <<inclusionTime, included, expired, now, head>>
  BY DEF Register, Stamped, chainVars, headVars
<1>2. CASE AtCap
  <2>1. UNCHANGED <<inflight, registeredAt>> /\ droppedAtCap' = droppedAtCap + 1
        /\ txPc' = [txPc EXCEPT ![tx] = "dropped"]
    BY <1>2 DEF Register
  <2>2. Registered' = Registered /\ Dropped' = Dropped \cup {tx}
    BY <1>0, <2>1 DEF Registered, Dropped
  <2>3. Cardinality(Dropped') = Cardinality(Dropped) + 1
    BY <1>0, <2>2, TxSets, FS_AddElement
  <2>4. Conservation'
    BY <1>0, <1>1, <2>1, <2>2, <2>3 DEF Conservation, Dropped
  <2>5. RegistryInv'
    BY <1>0, <1>1, <2>1, <2>4 DEF RegistryInv, WithinCap, StampedIsIncluded, Stamped
  <2>. QED BY <1>0, <1>1, <2>1, <2>2, <2>5 DEF Registry
<1>3. CASE ~AtCap
  <2>1. /\ inflight' = inflight \cup {tx} /\ UNCHANGED droppedAtCap
        /\ registeredAt' = [registeredAt EXCEPT ![tx] = now]
        /\ txPc' = [txPc EXCEPT ![tx] = "registered"]
    BY <1>3 DEF Register
  <2>2. Registered' = Registered \cup {tx} /\ Dropped' = Dropped
    BY <1>0, <2>1 DEF Registered, Dropped
  <2>3. /\ Cardinality(Registered') = Cardinality(Registered) + 1
        /\ Cardinality(inflight') = Cardinality(inflight) + 1
        /\ Cardinality(inflight) \in Nat /\ Cardinality(Registered) \in Nat
    BY <1>0, <2>1, <2>2, TxSets, FS_AddElement
  <2>4. WithinCap'
    BY <1>3, <2>3, CapAssumption DEF WithinCap, AtCap
  <2>5. Conservation'
    <3>1. inflight' \subseteq Registered'
      BY <1>0, <2>1, <2>2 DEF Conservation
    <3>2. included' + expired' + Cardinality(inflight') = Cardinality(Registered')
      BY <1>0, <1>1, <2>3 DEF Conservation
    <3>. QED BY <1>0, <2>1, <2>2, <3>1, <3>2 DEF Conservation, Dropped
  <2>6. inclusionTime[tx] = 0
    BY <1>0 DEF Stamped
  <2>7. RegistryInv'
    BY <1>0, <1>1, <2>1, <2>4, <2>5, <2>6 DEF RegistryInv, StampedIsIncluded, Stamped
  <2>8. \A x \in Tx : registeredAt'[x] <= now'
    BY <1>1, <2>1 DEF Registry
  <2>. QED BY <1>0, <1>1, <2>2, <2>7, <2>8 DEF Registry
<1>. QED BY <1>2, <1>3

\* A match takes its hits out of the registry, stamps and counts them.
LEMMA MatchStep ==
  ASSUME Registry, TypeOK', MatchBlock
  PROVE  Registry'
<1> DEFINE hits == Hits(head.num)
<1>. USE RegistryTypes
<1>0. Stamped \subseteq Registered /\ hits \subseteq inflight /\ head.arrival # 0
  BY DEF Registry, Hits, MatchBlock
<1>1. /\ inclusionTime' = [tx \in Tx |-> IF tx \in hits THEN head.arrival ELSE inclusionTime[tx]]
      /\ inflight' = inflight \ hits
      /\ included' = included + Cardinality(hits)
      /\ UNCHANGED <<txPc, registeredAt, expired, droppedAtCap, now>>
      /\ head'.pc = "recv"
  BY <1>0 DEF MatchBlock, chainVars
<1>2. /\ Cardinality(inflight') = Cardinality(inflight) - Cardinality(hits)
      /\ Cardinality(inflight) \in Nat /\ Cardinality(hits) \in Nat
  BY <1>0, <1>1, PartRemoved, TxSets
<1>3. Stamped' = Stamped \cup hits /\ Stamped \cap hits = {}
  BY <1>0, <1>1 DEF Stamped, StampedIsIncluded
<1>4. Cardinality(Stamped') = included'
  BY <1>0, <1>1, <1>3, PartsJoined DEF StampedIsIncluded, Stamped
<1>5. Registered' = Registered /\ Dropped' = Dropped
  BY <1>1 DEF Registered, Dropped
<1>6. Conservation'
  <2>1. included' + expired' + Cardinality(inflight') = Cardinality(Registered')
    BY <1>0, <1>1, <1>2, <1>5 DEF Conservation
  <2>. QED BY <1>0, <1>1, <1>5, <2>1 DEF Conservation, Dropped
<1>7. RegistryInv'
  <2>1. WithinCap'
    BY <1>0, <1>2, CapAssumption DEF WithinCap
  <2>2. \A tx \in inflight' : inclusionTime'[tx] = 0
    BY <1>0, <1>1 DEF StampedIsIncluded
  <2>. QED BY <1>4, <1>6, <2>1, <2>2 DEF RegistryInv, StampedIsIncluded, Stamped
<1>. QED BY <1>0, <1>1, <1>3, <1>5, <1>7 DEF Registry, Conservation

\* A sweep takes what is old out of the registry and counts it as expired.
LEMMA SweepStep ==
  ASSUME Registry, TypeOK', Sweep
  PROVE  Registry'
<1>. USE RegistryTypes
<1>0. Old \subseteq inflight
  BY DEF Old
<1>1. /\ inflight' = inflight \ Old
      /\ expired' = expired + Cardinality(Old)
      /\ UNCHANGED <<txPc, registeredAt, inclusionTime, included, droppedAtCap, now, head>>
  BY DEF Sweep, chainVars, headVars
<1>2. /\ Cardinality(inflight') = Cardinality(inflight) - Cardinality(Old)
      /\ Cardinality(inflight) \in Nat /\ Cardinality(Old) \in Nat
  BY <1>0, <1>1, PartRemoved, TxSets
<1>3. Registered' = Registered /\ Dropped' = Dropped /\ Stamped' = Stamped
  BY <1>1 DEF Registered, Dropped, Stamped
<1>4. Conservation'
  <2>1. included' + expired' + Cardinality(inflight') = Cardinality(Registered')
    BY <1>0, <1>1, <1>2, <1>3 DEF Conservation
  <2>. QED BY <1>0, <1>1, <1>3, <2>1 DEF Conservation, Dropped
<1>5. WithinCap'
  BY <1>0, <1>2, CapAssumption DEF WithinCap
<1>6. RegistryInv'
  BY <1>0, <1>1, <1>3, <1>4, <1>5 DEF RegistryInv, StampedIsIncluded, Stamped
<1>. QED BY <1>1, <1>3, <1>6 DEF Registry

\* Every step keeps the registry: one case per action.
LEMMA RegistryStep == ASSUME Registry, [Next]_vars PROVE Registry'
<1>0. /\ TypeOK' /\ TypeOK /\ now \in Nat /\ now >= 1
      /\ head.pc # "recv" => head.num \in Block /\ 1 <= head.arrival /\ head.arrival <= now
      /\ head.arrival \in Nat
  BY TypeStep, RegistryTypes DEF Registry
<1>1. ASSUME NEW tx \in Tx, SendOk(tx)
      PROVE  Registry'
  <2>1. Registered' = Registered /\ Dropped' = Dropped /\ Stamped' = Stamped
    BY <1>0, <1>1 DEF SendOk, Registered, Dropped, Stamped, TypeOK
  <2>2. UNCHANGED <<inflight, registeredAt, inclusionTime, included, expired, droppedAtCap, now, head>>
    BY <1>1 DEF SendOk, chainVars, headVars
  <2>3. RegistryInv'
    BY <1>0, <2>1, <2>2
       DEF Registry, RegistryInv, WithinCap, Conservation, StampedIsIncluded, Stamped, Dropped
  <2>. QED BY <2>1, <2>2, <2>3 DEF Registry
<1>2. ASSUME NEW tx \in Tx, Register(tx)
      PROVE  Registry'
  BY <1>0, <1>2, RegisterStep
<1>3. CASE MatchBlock
  BY <1>0, <1>3, MatchStep
<1>4. CASE Sweep
  BY <1>0, <1>4, SweepStep
<1>5. CASE RecvHead
  <2>1. /\ UNCHANGED <<registryVars, now>>
        /\ \/ UNCHANGED head
           \/ head' = [pc |-> "fetch", num |-> Head(heads), arrival |-> now]
    BY <1>5 DEF RecvHead, headVars
  <2>2. Head(heads) \in Block
    BY <1>0, <1>5 DEF RecvHead, TypeOK
  <2>3. head'.pc # "recv" => head'.num \in Block /\ 1 <= head'.arrival /\ head'.arrival <= now
    BY <1>0, <2>1, <2>2
  <2>. QED BY <1>0, <2>1, <2>3, RegistryFrame
<1>6. CASE FetchOk \/ FetchErr
  <2>1. UNCHANGED <<registryVars, now>>
    BY <1>6 DEF FetchOk, FetchErr, chainVars
  <2>2. head'.pc # "recv" => head.pc # "recv" /\ head'.num = head.num /\ head'.arrival = head.arrival
    BY <1>6, RegistryTypes DEF FetchOk, FetchErr
  <2>. QED BY <1>0, <2>1, <2>2, RegistryFrame
<1>7. CASE ReapTick \/ EndRun \/ SenderJoin \/ TrackerJoin \/ Summary \/ Produce
             \/ (\E b \in Block : HeadArrives(b)) \/ UNCHANGED vars
  <2>1. UNCHANGED <<registryVars, now, head>>
    BY <1>7 DEF ReapTick, EndRun, SenderJoin, TrackerJoin, Summary, Produce, HeadArrives,
                vars, chainVars, headVars
  <2>. QED BY <1>0, <2>1, RegistryFrame
<1>8. CASE Tick
  <2>1. UNCHANGED <<registryVars, head>> /\ now' = now + 1
    BY <1>8 DEF Tick, headVars
  <2>. QED BY <1>0, <2>1, RegistryFrame
<1>. QED BY <1>1, <1>2, <1>3, <1>4, <1>5, <1>6, <1>7, <1>8 DEF Next

-----------------------------------------------------------------------------
(* The end of the run.                                                     *)

\* What main has joined stays joined, and frozen.
LEMMA JoinsStep == ASSUME Registry, Joins, [Next]_vars PROVE Joins'
<1>0. TypeOK
  BY DEF Registry, RegistryInv
<1>1. ASSUME NEW tx \in Tx, SendOk(tx) \/ Register(tx)
      PROVE  Joins'
  BY <1>0, <1>1 DEF SendOk, Register, Joins, TypeOK, headVars
<1>2. CASE RecvHead \/ ReapTick
  BY <1>0, <1>2 DEF RecvHead, ReapTick, Joins, TypeOK, headVars, registryVars
<1>3. CASE FetchOk \/ FetchErr \/ MatchBlock \/ Sweep
  BY <1>0, <1>3 DEF FetchOk, FetchErr, MatchBlock, Sweep, Joins, TypeOK, registryVars, headVars
<1>4. CASE EndRun \/ SenderJoin \/ TrackerJoin \/ Summary
  BY <1>0, <1>4 DEF EndRun, SenderJoin, TrackerJoin, Summary, Joins, TypeOK, NotTaken,
                    registryVars, headVars
<1>5. CASE Produce \/ Tick \/ (\E b \in Block : HeadArrives(b)) \/ UNCHANGED vars
  BY <1>5 DEF Produce, Tick, HeadArrives, Joins, registryVars, headVars, vars
<1>. QED BY <1>1, <1>2, <1>3, <1>4, <1>5 DEF Next

-----------------------------------------------------------------------------
(* The reaper.                                                             *)

\* The reaper starts with an empty registry at time zero.
LEMMA ReapTimingInit == Init => ReapTiming
BY ReapAssumption DEF Init, ReapTiming

\* Between two steps of the reaper entries leave, or come with the present time.
LEMMA ReapTimingFrame ==
  ASSUME Registry, TypeOK, ReapTiming, UNCHANGED <<now, reaper>>, run.tracker => run'.tracker,
         \A tx \in inflight' : \/ tx \in inflight /\ registeredAt'[tx] = registeredAt[tx]
                             \/ registeredAt'[tx] = now
  PROVE  ReapTiming'
<1>1. now \in Nat /\ reaper.last \in Nat /\ ReapAfter \in Nat \ {0} /\ run.tracker \in BOOLEAN
  BY ReapAssumption DEF TypeOK
<1>. QED BY <1>1 DEF ReapTiming

\* Every step keeps the registry within twice the reap interval.
LEMMA ReapTimingStep ==
  ASSUME Registry, Joins, ReapTiming, [Next]_vars
  PROVE  ReapTiming'
<1>0. /\ TypeOK /\ now \in Nat /\ reaper.last \in Nat /\ ReapAfter \in Nat \ {0}
      /\ reaper \in [pc : {"wait", "sweep"}, cutoff : Int, last : Nat]
      /\ registeredAt \in [Tx -> Nat] /\ inflight \subseteq Tx
  BY RegistryTypes, ReapAssumption DEF TypeOK
<1>1. ASSUME NEW tx \in Tx, Register(tx)
      PROVE  ReapTiming'
  <2>1. UNCHANGED <<now, reaper, run>>
    BY <1>1 DEF Register, chainVars
  <2>2. \A x \in inflight' : \/ x \in inflight /\ registeredAt'[x] = registeredAt[x]
                            \/ registeredAt'[x] = now
    BY <1>0, <1>1 DEF Register
  <2>. QED BY <1>0, <2>1, <2>2, ReapTimingFrame
<1>2. CASE (\E tx \in Tx : SendOk(tx)) \/ RecvHead \/ FetchOk \/ FetchErr \/ MatchBlock
             \/ EndRun \/ SenderJoin \/ TrackerJoin \/ Summary \/ Produce
             \/ (\E b \in Block : HeadArrives(b)) \/ UNCHANGED vars
  <2>1. UNCHANGED <<now, reaper, registeredAt>> /\ inflight' \subseteq inflight
    BY <1>2 DEF SendOk, RecvHead, FetchOk, FetchErr, MatchBlock, EndRun, SenderJoin,
                TrackerJoin, Summary, Produce, HeadArrives, chainVars, registryVars, headVars, vars
  <2>2. run.tracker => run'.tracker
    <3>1. run \in [done : BOOLEAN, sender : BOOLEAN, tracker : BOOLEAN,
                  inflightAtShutdown : Nat \cup {NotTaken}]
      BY <1>0 DEF TypeOK
    <3>. QED BY <1>2, <3>1 DEF SendOk, RecvHead, FetchOk, FetchErr, MatchBlock, EndRun,
                SenderJoin, TrackerJoin, Summary, Produce, HeadArrives, vars
  <2>. QED BY <1>0, <2>1, <2>2, ReapTimingFrame
<1>3. CASE ReapTick
  <2>1. /\ reaper' = [pc |-> "sweep", cutoff |-> now - ReapAfter, last |-> now]
        /\ reaper.pc = "wait" /\ ~run.tracker
        /\ UNCHANGED <<now, inflight, registeredAt>>
    BY <1>3 DEF ReapTick, Cutoff, chainVars, registryVars
  <2>2. \A tx \in inflight : registeredAt[tx] > now - 2 * ReapAfter
    <3>. SUFFICES ASSUME NEW tx \in inflight PROVE registeredAt[tx] > now - 2 * ReapAfter
      OBVIOUS
    <3>1. /\ registeredAt[tx] > reaper.last - ReapAfter /\ now <= reaper.last + ReapAfter
          /\ registeredAt[tx] \in Nat
      BY <1>0, <2>1 DEF ReapTiming
    <3>. QED BY <1>0, <3>1
  <2>. QED BY <1>0, <2>1, <2>2 DEF ReapTiming
<1>4. CASE Sweep
  <2>1. /\ reaper' = [reaper EXCEPT !.pc = "wait"] /\ reaper.pc = "sweep"
        /\ inflight' = inflight \ Old
        /\ UNCHANGED <<now, registeredAt, run>>
    BY <1>4 DEF Sweep, chainVars
  <2>2. \A tx \in inflight' : registeredAt[tx] > reaper.last - ReapAfter
    BY <1>0, <2>1 DEF Old, ReapTiming
  <2>3. reaper'.pc = "wait" /\ reaper'.last = reaper.last
    BY <1>0, <2>1
  <2>. QED BY <1>0, <2>1, <2>2, <2>3 DEF ReapTiming
<1>5. CASE Tick
  <2>1. UNCHANGED <<reaper, inflight, registeredAt, run>> /\ now' = now + 1
    BY <1>5 DEF Tick, registryVars
  <2>2. CASE run.tracker
    <3>1. reaper.pc = "wait"
      BY <2>2 DEF Joins
    <3>. QED BY <1>0, <2>1, <2>2, <3>1 DEF ReapTiming
  <2>3. CASE ~run.tracker
    <3>1. reaper.pc = "wait" /\ ~(now - reaper.last >= ReapAfter)
      BY <1>5, <2>3 DEF Tick, Due
    <3>. QED BY <1>0, <2>1, <2>3, <3>1 DEF ReapTiming
  <2>. QED BY <2>2, <2>3
<1>. QED BY <1>1, <1>2, <1>3, <1>4, <1>5 DEF Next

\* Nothing outstays twice the interval, and nothing leaves early.
LEMMA ReapFacts ==
  ASSUME Registry, Joins, ReapTiming
  PROVE  EvictedInTime /\ ([Next]_vars => [\A tx \in inflight \ inflight' :
           inclusionTime'[tx] # 0 \/ now - registeredAt[tx] >= ReapAfter]_vars)
<1>0. /\ now \in Nat /\ reaper.last \in Nat /\ ReapAfter \in Nat \ {0}
      /\ reaper.pc \in {"wait", "sweep"} /\ reaper.cutoff \in Int
      /\ registeredAt \in [Tx -> Nat] /\ inflight \subseteq Tx
  BY RegistryTypes, ReapAssumption DEF TypeOK
<1>1. EvictedInTime
  <2>. SUFFICES ASSUME ~run.tracker, NEW tx \in inflight
                PROVE  now - registeredAt[tx] < 2 * ReapAfter
    BY DEF EvictedInTime
  <2>1. registeredAt[tx] \in Nat
    BY <1>0
  <2>2. CASE reaper.pc = "wait"
    <3>1. now <= reaper.last + ReapAfter /\ registeredAt[tx] > reaper.last - ReapAfter
      BY <2>2 DEF ReapTiming
    <3>. QED BY <1>0, <2>1, <3>1
  <2>3. CASE reaper.pc = "sweep"
    <3>1. now = reaper.last /\ registeredAt[tx] > reaper.last - 2 * ReapAfter
      BY <2>3 DEF ReapTiming
    <3>. QED BY <1>0, <2>1, <3>1
  <2>. QED BY <1>0, <2>2, <2>3
<1>2. ASSUME [Next]_vars, NEW tx \in inflight \ inflight'
      PROVE  inclusionTime'[tx] # 0 \/ now - registeredAt[tx] >= ReapAfter
  <2>1. CASE MatchBlock
    <3>1. tx \in Hits(head.num) /\ head.arrival # 0 /\ tx \in Tx
      BY <1>0, <1>2, <2>1, RegistryTypes DEF MatchBlock, Registry
    <3>. QED BY <2>1, <3>1 DEF MatchBlock
  <2>2. CASE Sweep
    <3>1. registeredAt[tx] <= reaper.cutoff /\ registeredAt[tx] \in Nat
      BY <1>0, <1>2, <2>2 DEF Sweep, Old
    <3>2. reaper.cutoff = now - ReapAfter
      BY <2>2 DEF Sweep, ReapTiming
    <3>. QED BY <1>0, <3>1, <3>2
  <2>3. CASE ~MatchBlock /\ ~Sweep
    <3>1. inflight \subseteq inflight'
      BY <1>2, <2>3 DEF Next, SendOk, Register, RecvHead, FetchOk, FetchErr, ReapTick, EndRun,
         SenderJoin, TrackerJoin, Summary, Produce, Tick, HeadArrives, registryVars, vars
    <3>. QED BY <1>2, <3>1
  <2>. QED BY <2>1, <2>2, <2>3
<1>. QED BY <1>1, <1>2

-----------------------------------------------------------------------------
(* The heads.                                                              *)

\* A head is taken up at most once, in increasing order, and the blocks from the
\* first one on were fetched or counted as gaps.
HeadsTaken ==
  /\ head.pc # "recv" => lastSeen < head.num /\ head.num \in Block /\ fetches[head.num] > 0
  /\ \A b \in Block : fetches[b] <= 1 /\ (fetches[b] > 0 => b <= Current)
  /\ Current = 0 => Fetched = {} /\ blockGaps = 0
  /\ Current # 0 => \E seed \in Fetched :
       /\ \A b \in Fetched : seed <= b
       /\ blockGaps + Cardinality(Fetched) = Current - seed + 1

\* The types of what the head loop uses.
LEMMA HeadTypes ==
  ASSUME TypeOK
  PROVE  /\ Block \subseteq Nat \ {0} /\ MaxBlock \in Nat
         /\ fetches \in [Block -> Nat] /\ headAt \in [Block -> Nat] /\ heads \in Seq(Block)
         /\ lastSeen \in 0 .. MaxBlock /\ blockGaps \in Nat /\ now \in Nat
         /\ head \in [pc : {"recv", "fetch", "match"}, num : 0 .. MaxBlock, arrival : Nat]
         /\ Current \in 0 .. MaxBlock
         /\ run.tracker \in BOOLEAN
BY BoundAssumption DEF TypeOK, Block, Current

\* Sets of blocks are finite.
LEMMA BlockSets ==
  ASSUME NEW S, S \subseteq Block
  PROVE  IsFiniteSet(S) /\ Cardinality(S) \in Nat
<1>1. IsFiniteSet(Block)
  BY BoundAssumption, FS_Interval DEF Block
<1>. QED BY <1>1, FS_Subset, FS_CardinalityType

\* What taking up a head does.
LEMMA TakenUp ==
  ASSUME TypeOK, RecvHead, ~Stale(Head(heads))
  PROVE  /\ Head(heads) \in Block /\ Current = lastSeen /\ head.pc = "recv" /\ ~run.tracker
         /\ Current < Head(heads)
         /\ Current' = Head(heads)
         /\ blockGaps' = IF lastSeen = 0 THEN blockGaps ELSE blockGaps + (Head(heads) - lastSeen - 1)
         /\ fetches' = [fetches EXCEPT ![Head(heads)] = @ + 1]
         /\ head' = [pc |-> "fetch", num |-> Head(heads), arrival |-> now]
         /\ lastSeen' = lastSeen
<1> DEFINE num == Head(heads)
<1>1. num \in Block /\ num \in Nat \ {0} /\ lastSeen \in Nat
  BY HeadTypes DEF RecvHead
<1>2. /\ head.pc = "recv" /\ ~run.tracker
      /\ blockGaps' = IF lastSeen = 0 THEN blockGaps ELSE blockGaps + (num - lastSeen - 1)
      /\ fetches' = [fetches EXCEPT ![num] = @ + 1]
      /\ head' = [pc |-> "fetch", num |-> num, arrival |-> now]
      /\ lastSeen' = lastSeen
  BY DEF RecvHead
<1>3. Current = lastSeen /\ Current' = num
  BY <1>2 DEF Current
<1>4. lastSeen < num
  BY <1>1 DEF Stale
<1>. QED BY <1>1, <1>2, <1>3, <1>4

\* The other steps keep what has been taken up; a head loop that is done with a
\* block has seen it.
LEMMA NotTakenUp ==
  ASSUME TypeOK, [Next]_vars, ~(RecvHead /\ ~Stale(Head(heads)))
  PROVE  /\ Current' = Current /\ fetches' = fetches /\ blockGaps' = blockGaps
         /\ \/ head' = head /\ lastSeen' = lastSeen
            \/ head.pc # "recv" /\ head'.num = head.num /\ head'.arrival = head.arrival
                 /\ head'.pc \in {"fetch", "match"} /\ lastSeen' = lastSeen
            \/ head.pc # "recv" /\ head'.pc = "recv"
<1>1. CASE FetchOk
  <2>1. /\ head.pc = "fetch" /\ head' = [head EXCEPT !.pc = "match"]
        /\ UNCHANGED <<lastSeen, fetches, blockGaps>>
    BY <1>1 DEF FetchOk
  <2>. QED BY <2>1, HeadTypes DEF Current
<1>2. CASE FetchErr \/ MatchBlock
  <2>1. /\ head.pc # "recv" /\ head' = [head EXCEPT !.pc = "recv"] /\ lastSeen' = head.num
        /\ UNCHANGED <<fetches, blockGaps>>
    BY <1>2 DEF FetchErr, MatchBlock
  <2>. QED BY <2>1, HeadTypes DEF Current
<1>3. CASE ~FetchOk /\ ~FetchErr /\ ~MatchBlock
  <2>1. UNCHANGED headVars
    BY <1>3 DEF Next, SendOk, Register, RecvHead, ReapTick, Sweep, EndRun, SenderJoin,
                TrackerJoin, Summary, Produce, Tick, HeadArrives, vars
  <2>. QED BY <2>1 DEF headVars, Current
<1>. QED BY <1>1, <1>2, <1>3

\* At first no head was taken up and none was seen.
LEMMA HeadsTakenInit == Init => HeadsTaken
<1>. SUFFICES ASSUME Init PROVE HeadsTaken
  OBVIOUS
<1>1. Current = 0 /\ Fetched = {}
  BY DEF Init, Current, Fetched
<1>. QED BY <1>1 DEF Init, HeadsTaken

\* Every step keeps the account of the heads taken up.
LEMMA HeadsTakenStep ==
  ASSUME TypeOK, TypeOK', HeadsTaken, [Next]_vars
  PROVE  HeadsTaken'
<1>1. CASE RecvHead /\ ~Stale(Head(heads))
  <2> DEFINE num == Head(heads)
  <2>1. /\ num \in Block /\ num \in Nat \ {0} /\ Current = lastSeen /\ Current < num /\ Current' = num
        /\ Current \in Nat /\ blockGaps \in Nat
        /\ blockGaps' = IF lastSeen = 0 THEN blockGaps ELSE blockGaps + (num - lastSeen - 1)
        /\ fetches' = [fetches EXCEPT ![num] = @ + 1] /\ fetches \in [Block -> Nat]
        /\ head' = [pc |-> "fetch", num |-> num, arrival |-> now]
        /\ lastSeen' = lastSeen
    BY <1>1, TakenUp, HeadTypes
  <2>2. fetches[num] = 0
    BY <2>1 DEF HeadsTaken
  <2>3. fetches'[num] = 1 /\ \A b \in Block \ {num} : fetches'[b] = fetches[b]
    BY <2>1, <2>2
  <2>4. Fetched' = Fetched \cup {num} /\ num \notin Fetched /\ Fetched \subseteq Block
    BY <2>1, <2>2, <2>3 DEF Fetched
  <2>5. /\ Cardinality(Fetched') = Cardinality(Fetched) + 1
        /\ Cardinality(Fetched) \in Nat
    BY <2>4, BlockSets, FS_AddElement
  <2>6. \A b \in Block : fetches'[b] <= 1 /\ (fetches'[b] > 0 => b <= num)
    <3>. SUFFICES ASSUME NEW b \in Block, b # num
                  PROVE  fetches'[b] <= 1 /\ (fetches'[b] > 0 => b <= num)
      BY <2>1, <2>3
    <3>1. fetches'[b] = fetches[b] /\ fetches[b] <= 1 /\ (fetches[b] > 0 => b <= Current) /\ b \in Nat
      BY <2>3, HeadTypes DEF HeadsTaken
    <3>. QED BY <2>1, <3>1
  <2>7. \E seed \in Fetched' :
          /\ \A b \in Fetched' : seed <= b
          /\ blockGaps' + Cardinality(Fetched') = num - seed + 1
    <3>1. CASE lastSeen = 0
      <4>1. Fetched = {} /\ blockGaps = 0 /\ Cardinality({}) = 0
        BY <2>1, <3>1, FS_EmptySet DEF HeadsTaken
      <4>2. Fetched' = {num} /\ blockGaps' + Cardinality(Fetched') = num - num + 1
        BY <2>1, <2>4, <2>5, <3>1, <4>1
      <4>. QED BY <2>1, <4>2
    <3>2. CASE lastSeen # 0
      <4>1. PICK seed \in Fetched :
              /\ \A b \in Fetched : seed <= b
              /\ blockGaps + Cardinality(Fetched) = Current - seed + 1
        BY <2>1, <3>2 DEF HeadsTaken
      <4>2. seed \in Nat /\ seed <= Current
        BY <2>1, <4>1, HeadTypes DEF HeadsTaken, Fetched
      <4>3. \A b \in Fetched' : seed <= b
        BY <2>1, <2>4, <4>1, <4>2
      <4>4. blockGaps' + Cardinality(Fetched') = num - seed + 1
        BY <2>1, <2>5, <3>2, <4>1, <4>2
      <4>. QED BY <2>4, <4>3, <4>4
    <3>. QED BY <3>1, <3>2
  <2>8. head'.pc # "recv" => lastSeen' < head'.num /\ head'.num \in Block /\ fetches'[head'.num] > 0
    BY <2>1, <2>3
  <2>9. Current' # 0
    BY <2>1
  <2>10. \A b \in Block : fetches'[b] <= 1 /\ (fetches'[b] > 0 => b <= Current')
    BY <2>1, <2>6
  <2>11. Current' # 0 => \E seed \in Fetched' :
           /\ \A b \in Fetched' : seed <= b
           /\ blockGaps' + Cardinality(Fetched') = Current' - seed + 1
    BY <2>1, <2>7
  <2>. QED BY <2>8, <2>9, <2>10, <2>11 DEF HeadsTaken
<1>2. CASE ~(RecvHead /\ ~Stale(Head(heads)))
  <2>1. /\ Current' = Current /\ fetches' = fetches /\ blockGaps' = blockGaps
        /\ head'.pc # "recv" => head.pc # "recv" /\ head'.num = head.num /\ lastSeen' = lastSeen
    BY <1>2, NotTakenUp
  <2>2. Fetched' = Fetched
    BY <2>1 DEF Fetched
  <2>. QED BY <2>1, <2>2 DEF HeadsTaken
<1>. QED BY <1>1, <1>2

-----------------------------------------------------------------------------
(* How late a stamp can be.                                                *)

\* The blocks before b that were fetched, and the time their fetches may take.
Before(b) == {c \in Block : c < b /\ fetches[c] > 0}
Slack(b)  == FetchTimeout * Cardinality(Before(b))

\* The time by which the head loop is ready for the next head.
Horizon == IF head.pc = "recv" THEN now ELSE head.arrival + FetchTimeout

\* A block's head is here; it has not been taken up, nor a later one.
Waiting(b) == headAt[b] # 0 /\ b > Current

\* A head that waits is in the channel, and will be taken up before the fetches of
\* earlier blocks have used up their time; the one that is being worked on was.
Lateness ==
  /\ \A b \in Block : Waiting(b) => \E i \in 1 .. Len(heads) : heads[i] = b
  /\ \A i \in 1 .. Len(heads) : headAt[heads[i]] # 0
  /\ \A b \in Block : headAt[b] <= now
  /\ ~run.tracker => \A b \in Block : Waiting(b) => Horizon <= headAt[b] + Slack(b)
  /\ head.pc # "recv" =>
       /\ now <= Horizon
       /\ 0 < headAt[head.num] /\ headAt[head.num] <= head.arrival
       /\ head.arrival <= headAt[head.num] + Slack(head.num)

\* Time for fetches adds up.
LEMMA SlackTypes ==
  ASSUME NEW b \in Block
  PROVE  /\ IsFiniteSet(Before(b)) /\ Cardinality(Before(b)) \in Nat
         /\ Slack(b) \in Nat
<1>1. IsFiniteSet(Before(b)) /\ Cardinality(Before(b)) \in Nat
  BY BlockSets DEF Before
<1>. QED BY <1>1, FetchAssumption DEF Slack

\* An earlier block that was fetched leaves time for at least one fetch.
LEMMA SlackOfFetched ==
  ASSUME NEW b \in Block, NEW c \in Block, c < b, fetches[c] > 0
  PROVE  FetchTimeout <= Slack(b)
<1>1. c \in Before(b)
  BY DEF Before
<1>2. Cardinality(Before(b)) # 0
  BY <1>1, SlackTypes, FS_EmptySet
<1> DEFINE n == Cardinality(Before(b))
<1>3. n \in Nat /\ n >= 1 /\ FetchTimeout \in Nat
  BY <1>2, SlackTypes, FetchAssumption
<1>4. FetchTimeout <= FetchTimeout * n
  <2>. HIDE DEF n
  <2>. QED BY <1>3
<1>. QED BY <1>4 DEF Slack

\* Taking up a head gives every later block the time of one more fetch.
LEMMA SlackGrows ==
  ASSUME NEW num \in Block, fetches \in [Block -> Nat], fetches[num] = 0,
         fetches' = [fetches EXCEPT ![num] = @ + 1], Block \subseteq Nat
  PROVE  \A b \in Block : Slack(b)' = IF num < b THEN Slack(b) + FetchTimeout ELSE Slack(b)
<1>. SUFFICES ASSUME NEW b \in Block
              PROVE  Slack(b)' = IF num < b THEN Slack(b) + FetchTimeout ELSE Slack(b)
  OBVIOUS
<1> DEFINE n == Cardinality(Before(b))
<1>1. n \in Nat /\ FetchTimeout \in Nat /\ IsFiniteSet(Before(b)) /\ num \notin Before(b)
  BY SlackTypes, FetchAssumption DEF Before
<1>2. CASE num < b
  <2>1. Before(b)' = Before(b) \cup {num}
    BY <1>2 DEF Before
  <2>2. Cardinality(Before(b)') = n + 1
    BY <1>1, <2>1, FS_AddElement
  <2>3. FetchTimeout * (n + 1) = FetchTimeout * n + FetchTimeout
    <3>. HIDE DEF n
    <3>. QED BY <1>1
  <2>. QED BY <1>2, <2>2, <2>3 DEF Slack
<1>3. CASE ~(num < b)
  <2>1. Before(b)' = Before(b)
    BY <1>3 DEF Before
  <2>. QED BY <1>3, <2>1 DEF Slack
<1>. QED BY <1>2, <1>3

\* At first nothing waits.
LEMMA LatenessInit == Init => Lateness
<1>. SUFFICES ASSUME Init PROVE Lateness
  OBVIOUS
<1>1. Len(heads) = 0 /\ head.pc = "recv" /\ now = 1 /\ \A b \in Block : headAt[b] = 0
  BY DEF Init
<1>. QED BY <1>1 DEF Lateness, Waiting

\* A head is taken up in time.
LEMMA LatenessTaken ==
  ASSUME Registry, TypeOK, HeadsTaken, Lateness, RecvHead, ~Stale(Head(heads))
  PROVE  Lateness'
<1>0. PICK num \in Block : num = Head(heads)
  BY TakenUp
<1>1. /\ num \in Block /\ head.pc = "recv" /\ ~run.tracker
      /\ Current < num /\ Current' = num
      /\ fetches' = [fetches EXCEPT ![num] = @ + 1]
      /\ head' = [pc |-> "fetch", num |-> num, arrival |-> now]
  BY <1>0, TakenUp
<1>2. /\ heads # <<>> /\ heads' = Tail(heads)
      /\ UNCHANGED <<now, headAt, run>>
  BY DEF RecvHead
<1>3. /\ Block \subseteq Nat \ {0} /\ fetches \in [Block -> Nat] /\ headAt \in [Block -> Nat]
      /\ now \in Nat /\ Current \in Nat /\ heads \in Seq(Block) /\ FetchTimeout \in Nat
  <2>1. MaxBlock \in Nat /\ Current \in 0 .. MaxBlock
    BY HeadTypes
  <2>2. Current \in Nat
    BY <2>1
  <2>. QED BY <2>2, HeadTypes, FetchAssumption
<1>4. /\ Len(heads) \in Nat /\ Len(heads) > 0 /\ num = heads[1] /\ Len(Tail(heads)) = Len(heads) - 1
      /\ \A i \in 1 .. Len(heads) - 1 : Tail(heads)[i] = heads[i + 1]
  BY <1>0, <1>2, <1>3, HeadTailProperties
<1>5. fetches[num] = 0
  <2>1. fetches[num] > 0 => num <= Current
    BY <1>1 DEF HeadsTaken
  <2>2. fetches[num] \in Nat /\ num \in Nat
    BY <1>1, <1>3
  <2>. QED BY <1>1, <1>3, <2>1, <2>2
<1>6. \A b \in Block : Slack(b) \in Nat
                         /\ Slack(b)' = IF num < b THEN Slack(b) + FetchTimeout ELSE Slack(b)
  BY <1>1, <1>3, <1>5, SlackTypes, SlackGrows
<1>7. headAt[num] # 0
  <2>1. 1 \in 1 .. Len(heads)
    BY <1>4
  <2>. QED BY <1>4, <2>1 DEF Lateness
<1>8. Waiting(num) /\ \A b \in Block : Waiting(b)' => Waiting(b) /\ num < b
  <2>1. Waiting(num)
    BY <1>1, <1>3, <1>7 DEF Waiting
  <2>2. ASSUME NEW b \in Block, Waiting(b)'
        PROVE  Waiting(b) /\ num < b
    <3>1. headAt[b] # 0 /\ b > num
      BY <1>1, <1>2, <2>2 DEF Waiting
    <3>2. b \in Nat /\ num \in Nat
      BY <1>1, <1>3
    <3>. QED BY <1>1, <1>3, <3>1, <3>2 DEF Waiting
  <2>. QED BY <2>1, <2>2
<1>9. \A b \in Block : Waiting(b) => now <= headAt[b] + Slack(b)
  BY <1>1 DEF Lateness, Horizon
<1>10. Horizon' = now + FetchTimeout
  BY <1>1 DEF Horizon
<1>11. ASSUME NEW b \in Block, Waiting(b)'
       PROVE  /\ \E i \in 1 .. Len(heads') : heads'[i] = b
              /\ Horizon' <= headAt'[b] + Slack(b)'
  <2>1. Waiting(b) /\ num < b
    BY <1>8, <1>11
  <2>2. PICK i \in 1 .. Len(heads) : heads[i] = b
    BY <2>1 DEF Lateness
  <2>3. i # 1 /\ i - 1 \in 1 .. Len(heads) - 1
    BY <1>1, <1>3, <1>4, <2>1, <2>2
  <2>4. Tail(heads)[i - 1] = b
    BY <1>4, <2>2, <2>3
  <2>5. Horizon' <= headAt'[b] + Slack(b)'
    <3>1. /\ now <= headAt[b] + Slack(b) /\ Slack(b)' = Slack(b) + FetchTimeout
          /\ headAt[b] \in Nat /\ Slack(b) \in Nat
      BY <1>3, <1>6, <1>9, <2>1
    <3>. QED BY <1>2, <1>3, <1>10, <3>1
  <2>. QED BY <1>2, <1>4, <2>3, <2>4, <2>5
<1>12. \A i \in 1 .. Len(heads') : headAt'[heads'[i]] # 0
  BY <1>2, <1>4 DEF Lateness
<1>13. /\ now' <= Horizon'
       /\ 0 < headAt'[num] /\ headAt'[num] <= now
       /\ now <= headAt'[num] + Slack(num)'
  <2>1. headAt[num] \in Nat /\ headAt[num] <= now /\ now <= headAt[num] + Slack(num)
    BY <1>1, <1>3, <1>8, <1>9 DEF Lateness
  <2>2. Slack(num)' = Slack(num)
    <3>1. ~(num < num)
      BY <1>1, <1>3
    <3>. QED BY <1>1, <1>6, <3>1
  <2>. QED BY <1>2, <1>3, <1>7, <1>10, <2>1, <2>2
<1>14. \A b \in Block : headAt'[b] <= now'
  BY <1>2 DEF Lateness
<1>15. head'.num = num /\ head'.arrival = now
  BY <1>1
<1>16. /\ 0 < headAt'[head'.num] /\ headAt'[head'.num] <= head'.arrival
       /\ head'.arrival <= headAt'[head'.num] + Slack(head.num)'
  BY <1>13, <1>15 DEF Slack, Before
<1>. QED BY <1>11, <1>12, <1>13, <1>14, <1>16 DEF Lateness

\* The arrival of a head.
LEMMA LatenessArrives ==
  ASSUME Registry, TypeOK, HeadsTaken, Lateness, NEW h \in Block, HeadArrives(h)
  PROVE  Lateness'
<1>1. /\ heads' = Append(heads, h)
      /\ headAt' = [headAt EXCEPT ![h] = IF @ = 0 THEN now ELSE @]
      /\ UNCHANGED <<now, head, lastSeen, fetches, run>>
  BY DEF HeadArrives, headVars
<1>2. /\ Block \subseteq Nat \ {0} /\ headAt \in [Block -> Nat] /\ now \in Nat /\ now >= 1
      /\ Current \in Nat /\ heads \in Seq(Block) /\ FetchTimeout \in Nat
      /\ head.arrival \in Nat
  BY HeadTypes, FetchAssumption DEF Registry
<1>3. /\ Current' = Current /\ Horizon' = Horizon
      /\ \A b \in Block : Slack(b)' = Slack(b) /\ Slack(b) \in Nat
  BY <1>1, SlackTypes DEF Current, Horizon, Slack, Before
<1>4. /\ headAt'[h] # 0 /\ headAt'[h] = IF headAt[h] = 0 THEN now ELSE headAt[h]
      /\ \A b \in Block \ {h} : headAt'[b] = headAt[b]
      /\ \A b \in Block : headAt[b] # 0 => headAt'[b] = headAt[b]
  BY <1>1, <1>2
<1>5. /\ Len(heads) \in Nat /\ Len(heads') = Len(heads) + 1 /\ heads'[Len(heads) + 1] = h
      /\ \A i \in 1 .. Len(heads) : heads'[i] = heads[i] /\ heads[i] \in Block
  BY <1>1, <1>2, AppendProperties
<1>6. ASSUME NEW b \in Block, Waiting(b)'
      PROVE  /\ \E i \in 1 .. Len(heads') : heads'[i] = b
             /\ ~run.tracker => Horizon' <= headAt'[b] + Slack(b)'
  <2>1. CASE Waiting(b)
    <3>1. PICK i \in 1 .. Len(heads) : heads[i] = b
      BY <2>1 DEF Lateness
    <3>2. i \in 1 .. Len(heads') /\ heads'[i] = b
      BY <1>5, <3>1
    <3>3. ~run.tracker => Horizon' <= headAt'[b] + Slack(b)'
      BY <1>3, <1>4, <2>1 DEF Lateness, Waiting
    <3>. QED BY <3>2, <3>3
  <2>2. CASE ~Waiting(b)
    <3>1. b = h /\ headAt[h] = 0 /\ headAt'[b] = now /\ b > Current
      BY <1>3, <1>4, <1>6, <2>2 DEF Waiting
    <3>2. Len(heads) + 1 \in 1 .. Len(heads')
      BY <1>5
    <3>3. CASE head.pc = "recv"
      <4>1. Horizon = now
        BY <3>3 DEF Horizon
      <4>2. now <= now + Slack(b)
        BY <1>2, <1>3
      <4>. QED BY <1>3, <1>5, <3>1, <3>2, <4>1, <4>2
    <3>4. CASE head.pc # "recv"
      <4>1. /\ Horizon = head.arrival + FetchTimeout /\ head.arrival <= now
            /\ head.num \in Block /\ fetches[head.num] > 0 /\ head.num < b
        BY <3>1, <3>4, HeadTypes DEF Horizon, Registry, HeadsTaken, Current
      <4>2. FetchTimeout <= Slack(b)
        BY <4>1, SlackOfFetched
      <4>3. Horizon <= now + Slack(b)
        BY <1>2, <1>3, <4>1, <4>2
      <4>. QED BY <1>3, <1>5, <3>1, <3>2, <4>3
    <3>. QED BY <3>3, <3>4
  <2>. QED BY <2>1, <2>2
<1>7. \A i \in 1 .. Len(heads') : headAt'[heads'[i]] # 0
  <2>. SUFFICES ASSUME NEW i \in 1 .. Len(heads') PROVE headAt'[heads'[i]] # 0
    OBVIOUS
  <2>1. CASE i = Len(heads) + 1
    BY <1>4, <1>5, <2>1
  <2>2. CASE i \in 1 .. Len(heads)
    BY <1>4, <1>5, <2>2 DEF Lateness
  <2>. QED BY <1>5, <2>1, <2>2
<1>8. \A b \in Block : headAt'[b] <= now'
  BY <1>1, <1>2, <1>4 DEF Lateness
<1>9. head'.pc # "recv" =>
        /\ now' <= Horizon'
        /\ 0 < headAt'[head'.num] /\ headAt'[head'.num] <= head'.arrival
        /\ head'.arrival <= headAt'[head'.num] + Slack(head.num)'
  <2>. SUFFICES ASSUME head'.pc # "recv"
                PROVE  /\ now' <= Horizon'
                       /\ 0 < headAt'[head'.num] /\ headAt'[head'.num] <= head'.arrival
                       /\ head'.arrival <= headAt'[head'.num] + Slack(head.num)'
    OBVIOUS
  <2>1. PICK n \in Block : n = head.num /\ head' = head /\ head.pc # "recv"
    BY <1>1 DEF Registry
  <2>2. /\ now <= Horizon /\ 0 < headAt[n] /\ headAt[n] <= head.arrival
        /\ head.arrival <= headAt[n] + Slack(n)
    BY <2>1 DEF Lateness
  <2>3. headAt'[n] = headAt[n] /\ Slack(n)' = Slack(n)
    BY <1>2, <1>3, <1>4, <2>2
  <2>4. /\ now' <= Horizon' /\ 0 < headAt'[n] /\ headAt'[n] <= head'.arrival
        /\ head'.arrival <= headAt'[n] + Slack(n)'
    BY <1>1, <1>3, <2>1, <2>2, <2>3
  <2>. QED BY <2>1, <2>4 DEF Slack, Before
<1>10. ~run'.tracker => \A b \in Block : Waiting(b)' => Horizon' <= headAt'[b] + Slack(b)'
  BY <1>1, <1>6
<1>. QED BY <1>6, <1>7, <1>8, <1>9, <1>10 DEF Lateness

\* Time passes only while a fetch has time left, or nothing waits.
LEMMA LatenessTick ==
  ASSUME TypeOK, Joins, Lateness, Tick
  PROVE  Lateness'
<1>1. now' = now + 1 /\ UNCHANGED <<headAt, heads, head, lastSeen, fetches, run>>
  BY DEF Tick, headVars
<1>2. /\ Block \subseteq Nat \ {0} /\ headAt \in [Block -> Nat] /\ now \in Nat
      /\ FetchTimeout \in Nat /\ head.arrival \in Nat /\ run.tracker \in BOOLEAN
  BY HeadTypes, FetchAssumption
<1>3. /\ Current' = Current
      /\ \A b \in Block : Slack(b)' = Slack(b) /\ (Waiting(b)' <=> Waiting(b))
  BY <1>1 DEF Current, Slack, Before, Waiting
<1>4. \A b \in Block : headAt'[b] <= now'
  BY <1>1, <1>2 DEF Lateness
<1>5. CASE head.pc = "recv"
  <2>1. ~run.tracker => \A b \in Block : ~Waiting(b)
    <3>1. ~run.tracker => Len(heads) = 0
      BY <1>5 DEF Tick
    <3>. QED BY <3>1 DEF Lateness
  <2>. QED BY <1>1, <1>3, <1>4, <1>5, <2>1 DEF Lateness
<1>6. CASE head.pc # "recv"
  <2>1. now - head.arrival < FetchTimeout
    BY <1>6 DEF Tick, Patient, Joins
  <2>2. now' <= Horizon' /\ Horizon' = Horizon
    BY <1>1, <1>2, <1>6, <2>1 DEF Horizon
  <2>3. /\ \A b \in Block : Waiting(b)' => \E i \in 1 .. Len(heads') : heads'[i] = b
        /\ \A i \in 1 .. Len(heads') : headAt'[heads'[i]] # 0
        /\ ~run'.tracker => \A b \in Block : Waiting(b)' => Horizon' <= headAt'[b] + Slack(b)'
    BY <1>1, <1>3, <2>2 DEF Lateness
  <2>4. /\ 0 < headAt'[head'.num] /\ headAt'[head'.num] <= head'.arrival
        /\ head'.arrival <= headAt'[head'.num] + Slack(head.num)'
    BY <1>1, <1>6 DEF Lateness, Slack, Before
  <2>. QED BY <1>4, <2>2, <2>3, <2>4 DEF Lateness
<1>. QED BY <1>5, <1>6

\* Every step keeps the bound on how late a head is taken up.
LEMMA LatenessStep ==
  ASSUME Registry, TypeOK', Joins, HeadsTaken, Lateness, [Next]_vars
  PROVE  Lateness'
<1>0. TypeOK
  BY RegistryTypes
<1>1. CASE RecvHead /\ ~Stale(Head(heads))
  BY <1>0, <1>1, LatenessTaken
<1>2. ASSUME NEW h \in Block, HeadArrives(h)
      PROVE  Lateness'
  BY <1>0, <1>2, LatenessArrives
<1>3. CASE Tick
  BY <1>0, <1>3, LatenessTick
<1>4. CASE /\ ~(RecvHead /\ ~Stale(Head(heads)))
           /\ ~\E h \in Block : HeadArrives(h)
           /\ ~Tick
  <2>1. UNCHANGED <<now, headAt>> /\ (run.tracker => run'.tracker)
    <3>1. UNCHANGED <<now, headAt>>
      BY <1>4 DEF Next, SendOk, Register, RecvHead, FetchOk, FetchErr, MatchBlock, ReapTick, Sweep,
                  EndRun, SenderJoin, TrackerJoin, Summary, Produce, chainVars, vars
    <3>2. run \in [done : BOOLEAN, sender : BOOLEAN, tracker : BOOLEAN,
                  inflightAtShutdown : Nat \cup {NotTaken}]
      BY <1>0 DEF TypeOK
    <3>3. run.tracker => run'.tracker
      BY <1>4, <3>2 DEF Next, SendOk, Register, RecvHead, FetchOk, FetchErr, MatchBlock, ReapTick,
                  Sweep, EndRun, SenderJoin, TrackerJoin, Summary, Produce, vars
    <3>. QED BY <3>1, <3>3
  <2>2. /\ Current' = Current /\ fetches' = fetches
        /\ \/ head' = head
           \/ head.pc # "recv" /\ head'.num = head.num /\ head'.arrival = head.arrival
                /\ head'.pc \in {"fetch", "match"}
           \/ head.pc # "recv" /\ head'.pc = "recv"
    BY <1>0, <1>4, NotTakenUp
  <2>3. \A b \in Block : Slack(b)' = Slack(b) /\ (Waiting(b)' <=> Waiting(b))
    BY <2>1, <2>2 DEF Slack, Before, Waiting
  <2>4. /\ \A b \in Block : Waiting(b) => \E i \in 1 .. Len(heads') : heads'[i] = b
        /\ \A i \in 1 .. Len(heads') : headAt[heads'[i]] # 0
    <3>1. CASE RecvHead
      <4>1. heads \in Seq(Block) /\ heads # <<>> /\ heads' = Tail(heads) /\ Current = lastSeen
        BY <1>0, <3>1, HeadTypes DEF RecvHead, Current
      <4>2. /\ Len(heads) \in Nat /\ Len(heads) > 0 /\ Head(heads) = heads[1]
            /\ Len(Tail(heads)) = Len(heads) - 1
            /\ \A i \in 1 .. Len(heads) - 1 : Tail(heads)[i] = heads[i + 1]
            /\ heads[1] \in Block
        BY <4>1, HeadTailProperties
      <4>3. ~(heads[1] > Current)
        <5>1. Stale(Head(heads)) /\ heads[1] \in Nat /\ lastSeen \in Nat
          BY <1>0, <1>4, <3>1, <4>2, HeadTypes
        <5>. QED BY <4>1, <4>2, <5>1 DEF Stale
      <4>4. ASSUME NEW b \in Block, Waiting(b)
            PROVE  \E i \in 1 .. Len(heads') : heads'[i] = b
        <5>1. PICK i \in 1 .. Len(heads) : heads[i] = b
          BY <4>4 DEF Lateness
        <5>2. i # 1
          BY <4>3, <4>4, <5>1 DEF Waiting
        <5>3. i - 1 \in 1 .. Len(heads) - 1 /\ (i - 1) + 1 = i
          BY <4>2, <5>1, <5>2
        <5>4. Tail(heads)[i - 1] = b
          BY <4>2, <5>1, <5>3
        <5>. QED BY <4>1, <4>2, <5>3, <5>4
      <4>. QED BY <4>1, <4>2, <4>4 DEF Lateness
    <3>2. CASE ~RecvHead
      <4>1. heads' = heads
        BY <1>4, <3>2 DEF Next, SendOk, Register, FetchOk, FetchErr, MatchBlock, ReapTick, Sweep,
                  EndRun, SenderJoin, TrackerJoin, Summary, Produce, chainVars, vars
      <4>. QED BY <4>1 DEF Lateness
    <3>. QED BY <3>1, <3>2
  <2>5. /\ now \in Nat /\ FetchTimeout \in Nat /\ head.arrival \in Nat /\ headAt \in [Block -> Nat]
        /\ \A b \in Block : Slack(b) \in Nat
        /\ run.tracker \in BOOLEAN
    BY <1>0, HeadTypes, SlackTypes, FetchAssumption
  <2>6. Horizon' = Horizon \/ (head.pc # "recv" /\ head'.pc = "recv" /\ Horizon' = now /\ now <= Horizon)
    BY <2>1, <2>2 DEF Horizon, Lateness
  <2>7. Horizon \in Nat
    BY <2>5 DEF Horizon
  <2>8. ~run'.tracker => \A b \in Block : Waiting(b)' => Horizon' <= headAt'[b] + Slack(b)'
    <3>. SUFFICES ASSUME ~run'.tracker, NEW b \in Block, Waiting(b)
                  PROVE  Horizon' <= headAt[b] + Slack(b)
      BY <2>1, <2>3
    <3>1. Horizon <= headAt[b] + Slack(b) /\ headAt[b] \in Nat /\ Slack(b) \in Nat
      BY <2>1, <2>5 DEF Lateness
    <3>. QED BY <2>5, <2>6, <2>7, <3>1
  <2>9. head'.pc # "recv" =>
          /\ now' <= Horizon'
          /\ 0 < headAt'[head'.num] /\ headAt'[head'.num] <= head'.arrival
          /\ head'.arrival <= headAt'[head'.num] + Slack(head.num)'
    <3>. SUFFICES ASSUME head'.pc # "recv"
                  PROVE  /\ now' <= Horizon'
                         /\ 0 < headAt'[head'.num] /\ headAt'[head'.num] <= head'.arrival
                         /\ head'.arrival <= headAt'[head'.num] + Slack(head.num)'
      OBVIOUS
    <3>1. head.pc # "recv" /\ head'.num = head.num /\ head'.arrival = head.arrival /\ Horizon' = Horizon
      BY <2>2, <2>6
    <3>2. PICK n \in Block : n = head.num /\ n = head'.num
      BY <3>1 DEF HeadsTaken
    <3>3. /\ now <= Horizon /\ 0 < headAt[n] /\ headAt[n] <= head.arrival
          /\ head.arrival <= headAt[n] + Slack(n)
      BY <3>1, <3>2 DEF Lateness
    <3>4. /\ now' <= Horizon' /\ 0 < headAt'[n] /\ headAt'[n] <= head'.arrival
          /\ head'.arrival <= headAt'[n] + Slack(n)'
      BY <2>1, <2>3, <3>1, <3>3
    <3>. QED BY <3>2, <3>4 DEF Slack, Before
  <2>10. \A b \in Block : headAt'[b] <= now'
    BY <2>1 DEF Lateness
  <2>11. /\ \A b \in Block : Waiting(b)' => \E i \in 1 .. Len(heads') : heads'[i] = b
         /\ \A i \in 1 .. Len(heads') : headAt'[heads'[i]] # 0
    BY <2>1, <2>3, <2>4
  <2>. QED BY <2>8, <2>9, <2>10, <2>11 DEF Lateness
<1>. QED BY <1>1, <1>2, <1>3, <1>4

\* A stamp, once given, stays within what the fetches may have taken.
LEMMA MiscountStep ==
  ASSUME Registry, TypeOK', HeadsTaken, Lateness, NeverMiscounted, [Next]_vars
  PROVE  NeverMiscounted'
<1>0. /\ TypeOK /\ Block \subseteq Nat \ {0} /\ headAt \in [Block -> Nat]
      /\ inclusionTime \in [Tx -> Nat] /\ blockOf \in [Tx -> 0 .. MaxBlock]
      /\ MaxBlock \in Nat
  BY RegistryTypes, HeadTypes DEF TypeOK
<1>1. \A b \in Block : Slack(b) \in Nat /\ Slack(b)' \in Nat /\ Slack(b) <= Slack(b)'
  <2>1. CASE RecvHead /\ ~Stale(Head(heads))
    <3>1. PICK num \in Block : num = Head(heads)
      BY <1>0, <2>1, TakenUp
    <3>2. /\ fetches' = [fetches EXCEPT ![num] = @ + 1] /\ fetches \in [Block -> Nat]
          /\ Current < num /\ Current \in Nat
      BY <1>0, <2>1, <3>1, TakenUp, HeadTypes
    <3>3. fetches[num] = 0
      <4>1. fetches[num] > 0 => num <= Current
        BY DEF HeadsTaken
      <4>. QED BY <1>0, <3>2, <4>1
    <3>4. \A b \in Block : Slack(b)' = IF num < b THEN Slack(b) + FetchTimeout ELSE Slack(b)
      BY <1>0, <3>2, <3>3, SlackGrows
    <3>5. FetchTimeout \in Nat /\ \A b \in Block : Slack(b) \in Nat
      BY SlackTypes, FetchAssumption
    <3>. QED BY <3>4, <3>5
  <2>2. CASE ~(RecvHead /\ ~Stale(Head(heads)))
    <3>1. fetches' = fetches
      BY <1>0, <2>2, NotTakenUp
    <3>. QED BY <3>1, SlackTypes DEF Slack, Before
  <2>. QED BY <2>1, <2>2
<1>2. \A b \in Block : headAt[b] # 0 => headAt'[b] = headAt[b]
  <2>1. ASSUME NEW h \in Block, HeadArrives(h)
        PROVE  \A b \in Block : headAt[b] # 0 => headAt'[b] = headAt[b]
    BY <1>0, <2>1 DEF HeadArrives
  <2>2. CASE ~\E h \in Block : HeadArrives(h)
    BY <2>2 DEF Next, SendOk, Register, RecvHead, FetchOk, FetchErr, MatchBlock, ReapTick, Sweep,
                EndRun, SenderJoin, TrackerJoin, Summary, Produce, Tick, chainVars, vars
  <2>. QED BY <2>1, <2>2
<1>3. \A tx \in Tx : blockOf[tx] # 0 => blockOf'[tx] = blockOf[tx]
  <2>1. CASE Produce
    BY <1>0, <2>1 DEF Produce
  <2>2. CASE ~Produce
    BY <2>2 DEF Next, SendOk, Register, RecvHead, FetchOk, FetchErr, MatchBlock, ReapTick, Sweep,
                EndRun, SenderJoin, TrackerJoin, Summary, Tick, HeadArrives, chainVars, vars
  <2>. QED BY <2>1, <2>2
<1>. SUFFICES ASSUME NEW tx \in Tx, inclusionTime'[tx] # 0
              PROVE  \E b \in Block : /\ b = blockOf'[tx]
                                      /\ 0 < headAt'[b] /\ headAt'[b] <= inclusionTime'[tx]
                                      /\ inclusionTime'[tx] <= headAt'[b] + Slack(b)'
  <2>. SUFFICES ASSUME NEW tx \in Tx, inclusionTime'[tx] # 0
                PROVE  /\ blockOf'[tx] # 0
                       /\ 0 < headAt'[blockOf'[tx]] /\ headAt'[blockOf'[tx]] <= inclusionTime'[tx]
                       /\ inclusionTime'[tx] <= headAt'[blockOf'[tx]] + Slack(blockOf[tx])'
    BY DEF NeverMiscounted, Slack, Before
  <2>1. PICK b \in Block : /\ b = blockOf'[tx]
                           /\ 0 < headAt'[b] /\ headAt'[b] <= inclusionTime'[tx]
                           /\ inclusionTime'[tx] <= headAt'[b] + Slack(b)'
    OBVIOUS
  <2>2. b # 0
    BY <1>0
  <2>3. Slack(blockOf[tx])' = Slack(b)'
    BY <2>1 DEF Slack, Before
  <2>. QED BY <2>1, <2>2, <2>3
<1>4. CASE inclusionTime'[tx] = inclusionTime[tx]
  <2>1. PICK b \in Block : b = blockOf[tx]
    <3>1. blockOf[tx] # 0 /\ blockOf[tx] \in 0 .. MaxBlock
      BY <1>0, <1>4 DEF NeverMiscounted
    <3>. QED BY <1>0, <3>1 DEF Block
  <2>2. /\ b # 0 /\ 0 < headAt[b] /\ headAt[b] <= inclusionTime[tx]
        /\ inclusionTime[tx] <= headAt[b] + Slack(b)
    BY <1>0, <1>4, <2>1 DEF NeverMiscounted, Slack, Before
  <2>3. headAt'[b] = headAt[b] /\ b = blockOf'[tx]
    BY <1>0, <1>2, <1>3, <2>1, <2>2
  <2>4. inclusionTime[tx] <= headAt[b] + Slack(b)'
    <3>1. /\ inclusionTime[tx] \in Nat /\ headAt[b] \in Nat
          /\ Slack(b) \in Nat /\ Slack(b)' \in Nat /\ Slack(b) <= Slack(b)'
      BY <1>0, <1>1
    <3>. QED BY <2>2, <3>1
  <2>. QED BY <1>4, <2>2, <2>3, <2>4
<1>5. CASE inclusionTime'[tx] # inclusionTime[tx]
  <2>1. MatchBlock
    BY <1>5 DEF Next, SendOk, Register, RecvHead, FetchOk, FetchErr, ReapTick, Sweep, EndRun,
                SenderJoin, TrackerJoin, Summary, Produce, Tick, HeadArrives, registryVars, vars
  <2>2. /\ tx \in Hits(head.num) /\ inclusionTime'[tx] = head.arrival
        /\ head.pc # "recv" /\ UNCHANGED <<headAt, blockOf, fetches>>
    BY <1>5, <2>1 DEF MatchBlock, chainVars
  <2>3. PICK b \in Block : b = head.num /\ b = blockOf[tx]
    BY <2>2 DEF Hits, HeadsTaken
  <2>4. /\ 0 < headAt[b] /\ headAt[b] <= head.arrival
        /\ head.arrival <= headAt[b] + Slack(b)
    BY <2>2, <2>3 DEF Lateness
  <2>. QED BY <2>2, <2>3, <2>4 DEF Slack, Before
<1>. QED BY <1>4, <1>5

-----------------------------------------------------------------------------
(* The results.                                                            *)

TrackerInv ==
  /\ Registry
  /\ Joins
  /\ ReapTiming
  /\ HeadsTaken
  /\ Lateness
  /\ NeverMiscounted

\* The tracker's inductive invariant.
THEOREM TrackerCorrect == Spec => []TrackerInv
<1>1. Init => TrackerInv
  <2>1. Init => NeverMiscounted
    BY DEF Init, NeverMiscounted
  <2>. QED BY <2>1, RegistryInit, ReapTimingInit, HeadsTakenInit, LatenessInit DEF TrackerInv
<1>2. TrackerInv /\ [Next]_vars => TrackerInv'
  <2>. SUFFICES ASSUME TrackerInv, [Next]_vars PROVE TrackerInv'
    OBVIOUS
  <2>1. Registry /\ Joins /\ ReapTiming /\ HeadsTaken /\ Lateness /\ NeverMiscounted
    BY DEF TrackerInv
  <2>2. TypeOK /\ TypeOK'
    BY <2>1, RegistryTypes, TypeStep
  <2>. QED BY <2>1, <2>2, RegistryStep, JoinsStep, ReapTimingStep, HeadsTakenStep, LatenessStep,
              MiscountStep DEF TrackerInv
<1>. QED BY <1>1, <1>2, PTL DEF Spec

\* "registered == included + expired + inflight", the cap, and one stamp for each
\* inclusion, under every interleaving of Register, match and sweep.
THEOREM TrackerRegistry == Spec => []RegistryInv
<1>1. TrackerInv => RegistryInv
  BY DEF TrackerInv, Registry
<1>. QED BY <1>1, TrackerCorrect, PTL

\* "an undercount of inclusions, never a miscount", and how late a stamp can be.
THEOREM TrackerNeverMiscounts == Spec => []NeverMiscounted
<1>1. TrackerInv => NeverMiscounted
  BY DEF TrackerInv
<1>. QED BY <1>1, TrackerCorrect, PTL

\* What Summary reports balances, and still does when the process ends.
THEOREM TrackerSummaryIsFinal == Spec => []SummaryIsFinal
<1>1. TrackerInv => SummaryIsFinal
  BY DEF TrackerInv, Registry, RegistryInv, Joins, Conservation, SummaryIsFinal
<1>. QED BY <1>1, TrackerCorrect, PTL

\* No body is requested twice, and no block is unaccounted for.
THEOREM TrackerHeadsAccounted == Spec => []HeadsAccounted
<1>1. ASSUME TrackerInv PROVE HeadsAccounted
  <2>1. HeadsTaken /\ Current \in Nat /\ (head.pc = "recv" => Current = lastSeen)
    BY <1>1, RegistryTypes, HeadTypes DEF TrackerInv, Current
  <2>2. ASSUME lastSeen # 0, head.pc = "recv"
        PROVE  \E seed \in Fetched :
                 /\ \A b \in Fetched : seed <= b /\ b <= lastSeen
                 /\ blockGaps + Cardinality(Fetched) = lastSeen - seed + 1
    BY <2>1, <2>2 DEF HeadsTaken, Fetched
  <2>. QED BY <2>1, <2>2 DEF HeadsAccounted, HeadsTaken
<1>. QED BY <1>1, TrackerCorrect, PTL

\* The reaper evicts nothing before its time, and nothing outstays twice the
\* interval ("worst-case eviction latency is ~2 x reapAfter").
THEOREM TrackerReapsOnTime == Spec => ReapedOnTime
<1>1. TrackerInv /\ [Next]_vars =>
        EvictedInTime /\ [\A tx \in inflight \ inflight' :
           inclusionTime'[tx] # 0 \/ now - registeredAt[tx] >= ReapAfter]_vars
  BY ReapFacts DEF TrackerInv
<1>. QED BY <1>1, TrackerCorrect, PTL DEF Spec, ReapedOnTime, NeverReapedEarly
=============================================================================
