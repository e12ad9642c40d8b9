---------------------------- MODULE StartupProofs ----------------------------
(***************************************************************************)
(* Proofs about Startup: one nonce stream over all runs, phases and failures,   *)
(* what a run has done by the time it offers load, that funding pays an         *)
(* account at most once, that every end of a startup has a reason, and that the *)
(* load is the profile's, turn by turn and draw by draw.                        *)
(*                                                                              *)
(* The inductive invariant has a part for the transactions (Stream), one for    *)
(* the deployments (DeployedSoFar), two for the accounts that are paid (Ledger, *)
(* Coverage), one for what is known at each point of the program (Known), and,  *)
(* on top of these, one for what is offered (OffersInv).                        *)
(***************************************************************************)
EXTENDS Startup, TLAPS, FiniteSetTheorems, FunctionTheorems, SequenceTheorems,
        WellFoundedInduction

-----------------------------------------------------------------------------
(* The inductive invariant.                                                 *)

\* The points at which every transaction of this run has succeeded.
Settled == pc \notin Waits \cup {"failed", "stopped", "panicked"}

\* What transactions this run has sent and may still send.
OfThisRun(i) == i \in DOMAIN txs /\ txs[i].run = runNo
BatchOf(i) == OfThisRun(i) /\ txs[i].what = "batch"
SentBy(key) == {i \in DOMAIN txs : txs[i].key = key}

\* The transactions are a sequence of records; none carries a nonce ahead of the
\* number its key has sent; --dry-run and unfunded runs sent nothing they ought not.
Sequence ==
  /\ txs \in Seq(Range(txs))
  /\ \A i \in DOMAIN txs :
       /\ txs[i] = [key |-> txs[i].key, nonce |-> txs[i].nonce, run |-> txs[i].run,
                    what |-> txs[i].what, to |-> txs[i].to, status |-> txs[i].status]
       /\ txs[i].nonce \in Nat /\ \A key \in {txs[i].key} : txs[i].nonce < Cardinality(SentBy(key))
       /\ txs[i].run \in Nat /\ txs[i].run <= runNo
       /\ txs[i].status \in {"pending", "ok", "reverted"}
       /\ txs[i].what = "deploy" => ~MockDeploy(profile)
       /\ txs[i].what # "deploy" => Funds(profile)

\* Of this run's transactions only the last may be unsettled, and it is the one
\* a wait is for.
Awaiting ==
  /\ Settled => \A i \in DOMAIN txs : txs[i].run = runNo => txs[i].status = "ok"
  /\ pc \in Waits => txs # <<>> /\ txs[Awaited].run = runNo
  /\ pc = "deployWait" => txs[Awaited].what = "deploy" /\ txs[Awaited].to = {next}
  /\ pc = "batchWait" => txs[Awaited].what = "batch"

Stream == Sequence /\ NoncesDistinct /\ EachAwaited /\ Awaiting

\* The contract of a scenario is on the chain.
OnChain(s) ==
  \E i \in DOMAIN txs :
    txs[i].run = runNo /\ txs[i].what = "deploy" /\ txs[i].to = {s} /\ txs[i].status = "ok"

\* deployAll has done the scenarios before the one it is at.
DeployedSoFar ==
  /\ next \in 1 .. Len(ScenarioList) + 1
  /\ deployed = 1 .. next - 1
  /\ ~MockDeploy(profile) => \A s \in deployed : IsContract(s) => OnChain(s)

\* This run paid the account.
Paid(a) == \E i \in DOMAIN txs : BatchOf(i) /\ txs[i].status = "ok" /\ a \in txs[i].to

\* A balance is what the account started with, and the amount if it was paid;
\* no account is in two batches, nor in one and still underfunded.
Ledger ==
  /\ balance \in [AllAccounts -> Nat] /\ start \in [AllAccounts -> Nat]
  /\ \A a \in AllAccounts : balance[a] = start[a] + (IF Paid(a) THEN Amount ELSE 0)
  /\ \A i \in DOMAIN txs : BatchOf(i) =>
       \A a \in txs[i].to : a \in AllAccounts /\ start[a] < Amount /\ a \notin underfunded
  /\ \A i, j \in DOMAIN txs : BatchOf(i) /\ BatchOf(j) /\ i # j => txs[i].to \cap txs[j].to = {}
  /\ \A a \in underfunded : a \in AllAccounts /\ start[a] < Amount

\* The points before FundAccounts knows who is underfunded, and those after.
Unpaid == {"load", "deployer", "create", "attach", "deploy", "deployWait", "build", "sender", "filter"}
Paying == {"disperse", "disperseWait", "code", "batch", "batchWait"}

\* In a funded run an account of the generator has the amount, or will be paid,
\* or is in a batch that was sent.
Coverage ==
  /\ pc \in Unpaid => underfunded = {} /\ \A i \in DOMAIN txs : ~BatchOf(i)
  /\ pc \in {"disperse", "disperseWait", "code"} => \A i \in DOMAIN txs : ~BatchOf(i)
  /\ pc \in Paying \cup {"ready"} /\ Funds(profile) =>
       \A a \in Accounts : \/ start[a] >= Amount
                           \/ a \in underfunded
                           \/ \E i \in DOMAIN txs : BatchOf(i) /\ a \in txs[i].to
  /\ pc = "ready" => underfunded = {}

\* What the program has tested or done by the time it is at a point.
Ended == {"failed", "stopped", "panicked"}
Known ==
  /\ pc \notin {"load"} \cup Ended => Accepted
  /\ pc \notin {"load", "deployer", "create"} \cup Ended => CreateScenarios = "ok"
  /\ pc = "attach" => MockDeploy(profile)
  /\ pc \in {"deploy", "deployWait"} => ~MockDeploy(profile)
  /\ pc = "deployWait" => next \in DOMAIN ScenarioList
  /\ pc \in {"filter"} \cup Paying => Funds(profile)
  /\ pc \notin {"load", "deployer", "create", "attach", "deploy", "deployWait"} \cup Ended =>
       next = Len(ScenarioList) + 1
  /\ pc \in {"filter", "sender", "ready"} \cup Paying => gens # <<>>
  /\ pc \in {"load", "deployer", "create", "attach", "deploy", "deployWait", "build"} => NoGenerator
  /\ pc \in {"load", "deployer", "create"} => next = 1

\* The state of the generator.
GeneratorOK ==
  /\ profile \in Profiles /\ runNo \in 1 .. MaxRuns /\ pc \in Pcs /\ ctxDone \in BOOLEAN
  /\ gens \in Seq(DOMAIN ScenarioList) /\ counter \in 0 .. MaxOffers
  /\ idx \in [Pools -> Nat]
  /\ ids \in [DOMAIN ScenarioList -> 0 .. MaxOffers] /\ \A s \in DOMAIN ids : ids[s] <= counter
  /\ Cardinality(last) <= 1 /\ turns \in Seq(DOMAIN ScenarioList)
  /\ start \in [AllAccounts -> Balances]

StartupInv ==
  /\ GeneratorOK /\ Stream /\ DeployedSoFar /\ Ledger /\ Coverage /\ Known
  /\ EndHasReason /\ SendersArePaid

-----------------------------------------------------------------------------
(* Sequences, and the least of a set of indices.                            *)

\* What appending to a sequence does, index by index.
LEMMA AppendFacts ==
  ASSUME NEW s, s \in Seq(Range(s)), NEW e, NEW r, r = Append(s, e)
  PROVE  /\ r \in Seq(Range(r))
         /\ Len(s) \in Nat /\ Len(r) = Len(s) + 1
         /\ DOMAIN s = 1 .. Len(s) /\ DOMAIN r = 1 .. Len(s) + 1
         /\ r[Len(s) + 1] = e
         /\ \A i \in 1 .. Len(s) : r[i] = s[i]
<1> DEFINE T == Range(s) \cup {e}
<1>1. s \in Seq(T) /\ e \in T
  BY SeqMonotonic
<1>. HIDE DEF T
<1>2. /\ r \in Seq(T) /\ Len(r) = Len(s) + 1 /\ r[Len(s) + 1] = e
      /\ \A i \in 1 .. Len(s) : r[i] = s[i]
  BY <1>1, AppendProperties
<1>3. /\ Len(s) \in Nat /\ DOMAIN s = 1 .. Len(s) /\ DOMAIN r = 1 .. Len(s) + 1
  BY <1>1, <1>2, LenProperties
<1>4. r \in Seq(Range(r))
  BY <1>2, SeqOfRange
<1>. QED BY <1>2, <1>3, <1>4

\* A set of natural numbers that is not empty has a least element.
LEMMA LeastOf ==
  ASSUME NEW S, S \subseteq Nat, S # {}
  PROVE  \E s \in S : \A t \in S : s <= t
<1>1. \E s \in S : \A t \in S : ~(<<t, s>> \in OpToRel(<, Nat))
  BY NatLessThanWellFounded, WFMin
<1>2. PICK s \in S : \A t \in S : ~(<<t, s>> \in OpToRel(<, Nat))
  BY <1>1
<1>3. ASSUME NEW t \in S PROVE s <= t
  <2>1. ~(t < s)
    BY <1>2 DEF OpToRel
  <2>. QED BY <2>1
<1>. QED BY <1>3

-----------------------------------------------------------------------------
(* What the profile determines.                                             *)

\* The list of scenarios is a sequence.
LEMMA ListFacts ==
  ASSUME profile \in Profiles
  PROVE  Len(ScenarioList) \in Nat /\ DOMAIN ScenarioList = 1 .. Len(ScenarioList)
BY WorkloadAssumption, LenProperties DEF ScenarioList

\* createScenarios ends in one of three ways, and in "ok" only if each of its
\* entries does.
LEMMA CreateOutcome ==
  ASSUME profile \in Profiles
  PROVE  /\ CreateScenarios \in {"ok", "failed", "panicked"}
         /\ CreateScenarios = "ok" => \A s \in DOMAIN ScenarioList : Created(s) = "ok"
         /\ CreateScenarios = "panicked" => \E s \in DOMAIN ScenarioList : Created(s) = "panicked"
<1> DEFINE bad == {s \in DOMAIN ScenarioList : Created(s) # "ok"}
<1>1. \A s : Created(s) \in {"ok", "failed", "panicked"}
  BY DEF Created
<1>2. CreateScenarios = IF bad = {} THEN "ok"
                        ELSE Created(CHOOSE s \in bad : \A t \in bad : s <= t)
  BY DEF CreateScenarios
<1>3. CASE bad = {}
  BY <1>2, <1>3
<1>4. CASE bad # {}
  <2>1. \E s \in bad : \A t \in bad : s <= t
    <3>1. bad \subseteq Nat
      BY ListFacts
    <3>. HIDE DEF bad
    <3>. QED BY <1>4, <3>1, LeastOf
  <2>2. PICK s \in bad : CreateScenarios = Created(s)
    BY <1>2, <1>4, <2>1
  <2>. QED BY <1>1, <2>2
<1>. QED BY <1>3, <1>4

\* Of an accepted profile only an unknown scenario panics when it is created.
LEMMA CreatePanics ==
  ASSUME profile \in Profiles, Accepted, CreateScenarios = "panicked"
  PROVE  \E s \in DOMAIN ScenarioList : ScenarioList[s].kind \notin Kinds
<1>1. PICK s \in DOMAIN ScenarioList : Created(s) = "panicked"
  BY CreateOutcome
<1>2. ValidScenario(ScenarioList[s])
  BY DEF Accepted, LoadConfig, Range
<1>3. \A mix \in ScenarioList[s].operations : ~Wraps(mix)
  BY <1>2 DEF ValidScenario, ValidMix
<1>. QED BY <1>1, <1>3 DEF Created

\* The pool of a scenario that was created has a size; in a run that is funded
\* it mints nothing.
LEMMA PoolFacts ==
  ASSUME profile \in Profiles, CreateScenarios = "ok", NEW s \in DOMAIN ScenarioList
  PROVE  /\ PoolOf(s) \in Pools
         /\ PoolConfig(PoolOf(s)) # {}
         /\ Size(PoolOf(s)) \in Nat
         /\ Accepted /\ Funds(profile) => ~Mints(PoolOf(s))
<1>1. /\ Len(ScenarioList) \in Nat /\ DOMAIN ScenarioList = 1 .. Len(ScenarioList)
  BY ListFacts
<1>2. PoolOf(s) \in Pools
  BY <1>1 DEF PoolOf, Pools
<1>3. PoolConfig(PoolOf(s)) # {}
  BY CreateOutcome DEF Created
<1>4. \/ PoolConfig(PoolOf(s)) = profile.accounts
      \/ PoolConfig(PoolOf(s)) = ScenarioList[s].accounts
  BY DEF PoolConfig, PoolOf
<1>5. \A a \in PoolConfig(PoolOf(s)) : a.count \in Nat /\ a.rate \in {0, 1}
  BY <1>4, WorkloadAssumption DEF ScenarioTypes, ScenarioList
<1>6. Size(PoolOf(s)) \in Nat
  <2> DEFINE counts == {a.count : a \in PoolConfig(PoolOf(s))}
  <2>1. \E n \in counts : TRUE
    BY <1>3
  <2>2. Size(PoolOf(s)) \in counts
    BY <2>1 DEF Size
  <2>. QED BY <1>5, <2>2
<1>7. ASSUME Accepted, Funds(profile) PROVE ~Mints(PoolOf(s))
  <2>1. \A a \in PoolConfig(PoolOf(s)) : a.rate = 0
    BY <1>4, <1>7 DEF Accepted, LoadConfig, ValidFunding, Funds, Range
  <2>. QED BY <2>1 DEF Mints
<1>. QED BY <1>2, <1>3, <1>6, <1>7

\* The accounts a generator draws from are accounts of the profile.
LEMMA AccountsInPools ==
  ASSUME profile \in Profiles, gens \in Seq(DOMAIN ScenarioList)
  PROVE  Accounts \subseteq AllAccounts
<1>1. \A s \in DOMAIN ScenarioList : PoolOf(s) \in Pools
  BY ListFacts DEF PoolOf, Pools
<1>2. Range(gens) \subseteq DOMAIN ScenarioList
  BY RangeOfSeq
<1>. QED BY <1>1, <1>2 DEF Accounts, AllAccounts

\* build: some scenario has a weight and the round-robin has an entry, one of
\* the configured ones at each position.
LEMMA ShuffleFacts ==
  ASSUME profile \in Profiles, Slots # {}, NEW g \in Shuffles(Slots)
  PROVE  g \in Seq(DOMAIN ScenarioList) /\ g # <<>>
<1>1. \A s \in DOMAIN ScenarioList : Copies(s) \in Nat
  BY WorkloadAssumption DEF ScenarioTypes, Copies, ScenarioList
<1>2. IsFiniteSet(Slots)
  <2> DEFINE Part == [s \in DOMAIN ScenarioList |-> {s} \X (1 .. Copies(s))]
             Parts == {Part[s] : s \in DOMAIN ScenarioList}
  <2>1. IsFiniteSet(DOMAIN ScenarioList)
    BY ListFacts, FS_Interval
  <2>2. Part \in Surjection(DOMAIN ScenarioList, Parts)
    BY DEF Surjection
  <2>3. IsFiniteSet(Parts)
    <3>. HIDE DEF Part, Parts
    <3>. QED BY <2>1, <2>2, FS_Surjection
  <2>4. ASSUME NEW s \in DOMAIN ScenarioList PROVE IsFiniteSet(Part[s])
    <3>1. IsFiniteSet({s}) /\ IsFiniteSet(1 .. Copies(s))
      <4>1. IsFiniteSet({s})
        BY FS_Singleton, Zenon
      <4>2. PICK n \in Int : n = Copies(s)
        BY <1>1
      <4>3. IsFiniteSet(1 .. n)
        BY FS_Interval
      <4>. QED BY <4>1, <4>2, <4>3
    <3>2. IsFiniteSet({s} \X (1 .. Copies(s)))
      BY <3>1, FS_Product
    <3>. QED BY <3>2
  <2>5. \A T \in Parts : IsFiniteSet(T)
    BY <2>4, Zenon
  <2>6. IsFiniteSet(UNION Parts)
    <3>. HIDE DEF Parts
    <3>. QED BY <2>3, <2>5, FS_UNION
  <2>7. Slots = UNION Parts
    BY DEF Slots
  <2>. QED BY <2>6, <2>7
<1>3. Cardinality(Slots) \in Nat /\ Cardinality(Slots) # 0
  BY <1>2, FS_CardinalityType, FS_EmptySet
<1>4. PICK f \in [1 .. Cardinality(Slots) -> Slots] : g = [k \in DOMAIN f |-> f[k][1]]
  BY DEF Shuffles, Orders
<1>5. \A slot \in Slots : slot[1] \in DOMAIN ScenarioList
  BY DEF Slots
<1> DEFINE n == Cardinality(Slots)
<1>6. n \in Nat /\ n # 0 /\ g \in [1 .. n -> DOMAIN ScenarioList]
  BY <1>3, <1>4, <1>5
<1>. HIDE DEF n
<1>. QED BY <1>6

\* NextAccount leaves the pool's index a number, and gives an account of a pool
\* that mints nothing.
LEMMA NextAccountFacts ==
  ASSUME NEW p, Size(p) \in Nat, PoolConfig(p) # {}, NEW i \in Nat, NEW from \in NextAccount(p, i)
  PROVE  from[2] \in Nat /\ (~Mints(p) => from[1] \in PoolAccounts(p))
<1> DEFINE n == Size(p)
<1>1. CASE Mints(p) /\ from = <<Minted(p), i>>
  BY <1>1
<1>2. CASE n # 0 /\ from = << <<p, (i + 1) % n>>, (i + 1) % n>>
  <2>1. (i + 1) % n \in 0 .. n - 1
    <3>1. n \in Nat \ {0} /\ i + 1 \in Int
      BY <1>2
    <3>. HIDE DEF n
    <3>. QED BY <3>1
  <2>2. PoolAccounts(p) = {<<p, k>> : k \in 0 .. n - 1}
    BY DEF PoolAccounts
  <2>. QED BY <1>2, <2>1, <2>2
<1>. QED BY <1>1, <1>2 DEF NextAccount

-----------------------------------------------------------------------------
(* The steps, by what they do to the transactions.                          *)

\* A step that leaves the transactions alone goes on, ends the run, or ends a
\* wait whose transaction has succeeded.
Keeps ==
  /\ UNCHANGED <<runNo, start, txs, balance>>
  /\ \/ pc' = pc /\ next' = next
     \/ pc' \in Ended
     \/ pc \notin Waits \cup Ended /\ pc' \notin Waits
     \/ pc \in Waits /\ Succeeded /\ pc' \notin Waits

\* One transaction is appended; the run awaits it or ends.
Sent(what, to, wait) ==
  /\ txs' = Append(txs, Tx(what, to))
  /\ pc' \in {wait, "failed", "stopped"}
  /\ UNCHANGED <<runNo, start, balance, next, deployed, gens>>

SentDeploy   == pc = "deploy" /\ UNCHANGED underfunded /\ Sent("deploy", {next}, "deployWait")
SentDisperse == pc = "disperse" /\ UNCHANGED underfunded /\ Sent("disperse", {}, "disperseWait")
SentBatch    == /\ pc = "batch"
                /\ \E chunk \in SUBSET underfunded :
                     /\ underfunded' = underfunded \ chunk
                     /\ Sent("batch", chunk, "batchWait")
Sends == SentDeploy \/ SentDisperse \/ SentBatch

\* Every step is one of five kinds.
LEMMA StepKinds ==
  ASSUME profile \in Profiles, [Next]_vars
  PROVE  profile' = profile /\ (Keeps \/ Sends \/ Mine \/ Restart)
<1>. USE DEF Keeps, Ended, Waits, Over, runVars, workVars
<1>1. CASE DeployContract
  BY <1>1 DEF DeployContract, Send, Fail, Sends, SentDeploy, Sent
<1>2. CASE DeployDisperse
  BY <1>2 DEF DeployDisperse, Send, Fail, Sends, SentDisperse, Sent
<1>3. CASE DisperseEther
  <2>1. PICK chunk \in SUBSET underfunded :
             Send("batch", chunk, "batchWait") /\ underfunded' = underfunded \ chunk
    BY <1>3 DEF DisperseEther, Chunks
  <2>2. pc = "batch" /\ UNCHANGED <<runVars, next, deployed, balance, ctxDone, workVars>>
    BY <1>3 DEF DisperseEther
  <2>. QED BY <2>1, <2>2 DEF Send, Fail, Sends, SentBatch, Sent
<1>4. CASE Generate \/ TickerPanics \/ CtxEnds \/ UNCHANGED vars
  BY <1>4 DEF Generate, TickerPanics, CtxEnds, vars, Offer
<1>5. CASE Mine \/ Restart
  BY <1>5 DEF Mine, Restart
<1>6. CASE Create
  BY <1>6, CreateOutcome DEF Create
<1>8. CASE LoadProfile \/ Deployer \/ Build \/ Attach \/ DeployPlain \/ DeployedAll
           \/ OpenWriter \/ OpenSender \/ FilterUnderfunded \/ CheckCode \/ Funded
  BY <1>8 DEF LoadProfile, Deployer, Build, Attach, DeployPlain, DeployedAll,
              OpenWriter, OpenSender, FilterUnderfunded, CheckCode, Funded, Fail
<1>7. CASE GiveUp \/ FailedDeployment \/ DeployMined \/ DisperseMined \/ BatchMined
  BY <1>7 DEF GiveUp, FailedDeployment, DeployMined, DisperseMined, BatchMined, Expire
<1>. QED BY <1>1, <1>2, <1>3, <1>4, <1>5, <1>6, <1>7, <1>8 DEF Next, Program

\* A key's count of transactions grows with the transaction it sends.
LEMMA SentGrows ==
  ASSUME txs \in Seq(Range(txs)), NEW t, txs' = Append(txs, t), NEW key
  PROVE  /\ Cardinality(SentBy(key)) \in Nat
         /\ Cardinality(SentBy(key)') = IF key = t.key THEN Cardinality(SentBy(key)) + 1
                                        ELSE Cardinality(SentBy(key))
<1>1. /\ Len(txs) \in Nat /\ DOMAIN txs = 1 .. Len(txs) /\ DOMAIN txs' = 1 .. Len(txs) + 1
      /\ txs'[Len(txs) + 1] = t
      /\ \A i \in 1 .. Len(txs) : txs'[i] = txs[i]
  BY AppendFacts
<1>2. IsFiniteSet(SentBy(key))
  <2>1. IsFiniteSet(1 .. Len(txs)) /\ SentBy(key) \in SUBSET (1 .. Len(txs))
    BY <1>1, FS_Interval DEF SentBy
  <2>. QED BY <2>1, FS_Subset
<1>3. CASE key = t.key
  <2>1. SentBy(key)' = SentBy(key) \cup {Len(txs) + 1} /\ Len(txs) + 1 \notin SentBy(key)
    BY <1>1, <1>3 DEF SentBy
  <2>. QED BY <1>2, <1>3, <2>1, FS_AddElement, FS_CardinalityType
<1>4. CASE key # t.key
  <2>1. SentBy(key)' = SentBy(key)
    BY <1>1, <1>4 DEF SentBy
  <2>. QED BY <1>2, <1>4, <2>1, FS_CardinalityType
<1>. QED BY <1>3, <1>4

\* Mining settles one pending transaction and credits the accounts of a batch
\* of this run that succeeded.
Settles(i, status) ==
  /\ txs[i].status = "pending" /\ status \in {"ok", "reverted"}
  /\ txs' \in Seq(Range(txs')) /\ Len(txs') = Len(txs) /\ DOMAIN txs' = DOMAIN txs
  /\ \A j \in DOMAIN txs :
       txs'[j] = [key |-> txs[j].key, nonce |-> txs[j].nonce, run |-> txs[j].run,
                  what |-> txs[j].what, to |-> txs[j].to,
                  status |-> IF j = i THEN status ELSE txs[j].status]
  /\ balance' = [a \in AllAccounts |->
                   IF status = "ok" /\ BatchOf(i) /\ a \in txs[i].to THEN balance[a] + Amount
                   ELSE balance[a]]
  /\ UNCHANGED <<profile, runNo, start, pc, next, deployed, underfunded, gens>>

\* Mine settles one transaction.
LEMMA MineSettles ==
  ASSUME Sequence, Mine
  PROVE  \E i \in DOMAIN txs, status \in {"ok", "reverted"} : Settles(i, status)
<1>1. PICK i \in DOMAIN txs, status \in {"ok", "reverted"} :
        /\ txs[i].status = "pending"
        /\ txs' = [txs EXCEPT ![i].status = status]
        /\ LET paid == IF status = "ok" /\ txs[i].run = runNo /\ txs[i].what = "batch"
                       THEN txs[i].to ELSE {}
           IN balance' = [a \in AllAccounts |-> IF a \in paid THEN balance[a] + Amount ELSE balance[a]]
  BY DEF Mine
<1>2. UNCHANGED <<profile, runNo, start, pc, next, deployed, underfunded, gens>>
  BY DEF Mine, runVars, workVars
<1> DEFINE e == [txs[i] EXCEPT !.status = status]
<1>3. txs \in Seq(Range(txs)) /\ txs' = [txs EXCEPT ![i] = e]
  BY <1>1 DEF Sequence
<1>4. e = [key |-> txs[i].key, nonce |-> txs[i].nonce, run |-> txs[i].run,
           what |-> txs[i].what, to |-> txs[i].to, status |-> status]
  BY DEF Sequence
<1>5. /\ txs' \in Seq(Range(txs')) /\ Len(txs') = Len(txs) /\ DOMAIN txs' = DOMAIN txs
      /\ txs'[i] = e /\ \A j \in DOMAIN txs : j # i => txs'[j] = txs[j]
  <2>. HIDE DEF e
  <2>1. i \in DOMAIN txs
    OBVIOUS
  <2>2. /\ txs' \in Seq(Range(txs')) /\ Len(txs') = Len(txs)
        /\ DOMAIN txs = 1 .. Len(txs) /\ DOMAIN txs' = 1 .. Len(txs)
        /\ txs'[i] = e /\ \A j \in 1 .. Len(txs) : j # i => txs'[j] = txs[j]
    <3> DEFINE T == Range(txs) \cup {e}
    <3>1. txs \in Seq(T) /\ e \in T
      BY <1>3, SeqMonotonic
    <3>. HIDE DEF T
    <3>2. Len(txs) \in Nat /\ DOMAIN txs = 1 .. Len(txs)
      BY <3>1, LenProperties
    <3>3. /\ txs' \in Seq(T) /\ Len(txs') = Len(txs)
          /\ \A j \in 1 .. Len(txs) : txs'[j] = IF j = i THEN e ELSE txs[j]
      BY <1>3, <2>1, <3>1, <3>2, ExceptSeq
    <3>4. DOMAIN txs' = 1 .. Len(txs) /\ txs' \in Seq(Range(txs'))
      BY <3>3, LenProperties, SeqOfRange
    <3>. QED BY <2>1, <3>2, <3>3, <3>4
  <2>. QED BY <2>2
<1>6. \A j \in DOMAIN txs :
       txs'[j] = [key |-> txs[j].key, nonce |-> txs[j].nonce, run |-> txs[j].run,
                  what |-> txs[j].what, to |-> txs[j].to,
                  status |-> IF j = i THEN status ELSE txs[j].status]
  <2>. HIDE DEF e
  <2>. QED BY <1>4, <1>5 DEF Sequence
<1>7. balance' = [a \in AllAccounts |->
                   IF status = "ok" /\ BatchOf(i) /\ a \in txs[i].to THEN balance[a] + Amount
                   ELSE balance[a]]
  BY <1>1 DEF BatchOf, OfThisRun
<1>. QED BY <1>1, <1>2, <1>5, <1>6, <1>7 DEF Settles

-----------------------------------------------------------------------------
(* The nonce stream.                                                        *)

\* A transaction of this run is appended when every earlier one has succeeded:
\* its nonce is new, and it is the one that is awaited.
LEMMA SendStream ==
  ASSUME GeneratorOK, Stream, Settled, UNCHANGED profile,
         NEW what, NEW to, NEW wait, Sent(what, to, wait),
         what = "deploy" => ~MockDeploy(profile), what # "deploy" => Funds(profile),
         wait \in Waits,
         wait = "deployWait" => what = "deploy" /\ to = {next},
         wait = "batchWait" => what = "batch"
  PROVE  Stream'
<1>0. PICK t : t = Tx(what, to)
  OBVIOUS
<1>1. /\ t = [key |-> t.key, nonce |-> t.nonce, run |-> t.run, what |-> t.what, to |-> t.to, status |-> t.status]
      /\ t.nonce = Cardinality(SentBy(t.key)) /\ t.run = runNo /\ t.what = what /\ t.to = to
      /\ t.status = "pending"
  BY <1>0 DEF Tx, PendingNonce, SentBy
<1>2. txs \in Seq(Range(txs)) /\ txs' = Append(txs, t) /\ runNo' = runNo /\ runNo \in Nat
  BY <1>0 DEF Stream, Sequence, Sent, GeneratorOK
<1>3. PICK n \in Nat :
        /\ txs' \in Seq(Range(txs')) /\ Len(txs') = n + 1
        /\ DOMAIN txs = 1 .. n /\ DOMAIN txs' = 1 .. n + 1
        /\ txs'[n + 1] = t /\ \A i \in 1 .. n : txs'[i] = txs[i]
  <2>1. /\ txs' \in Seq(Range(txs'))
        /\ Len(txs) \in Nat /\ Len(txs') = Len(txs) + 1
        /\ DOMAIN txs = 1 .. Len(txs) /\ DOMAIN txs' = 1 .. Len(txs) + 1
        /\ txs'[Len(txs) + 1] = t
        /\ \A i \in 1 .. Len(txs) : txs'[i] = txs[i]
    <3>1. txs \in Seq(Range(txs)) /\ txs' = Append(txs, t)
      BY <1>2
    <3>2. /\ Len(txs) \in Nat /\ Len(txs') = Len(txs) + 1
          /\ DOMAIN txs = 1 .. Len(txs) /\ DOMAIN txs' = 1 .. Len(txs) + 1
          /\ txs'[Len(txs) + 1] = t
          /\ \A i \in 1 .. Len(txs) : txs'[i] = txs[i]
      BY ONLY <3>1, AppendFacts
    <3>3. txs' \in Seq(Range(txs'))
      BY ONLY <3>1, AppendFacts
    <3>. QED BY <3>2, <3>3
  <2>. QED BY <2>1
<1>4. \A key : /\ Cardinality(SentBy(key)) \in Nat
               /\ Cardinality(SentBy(key)') = IF key = t.key THEN Cardinality(SentBy(key)) + 1
                                              ELSE Cardinality(SentBy(key))
  BY <1>2, SentGrows
<1>5. \A i \in 1 .. n : /\ txs[i].nonce \in Nat
                        /\ \A key \in {txs[i].key} : txs[i].nonce < Cardinality(SentBy(key))
  BY <1>3 DEF Stream, Sequence
<1>6. Sequence'
  <2>1. ASSUME NEW i \in 1 .. n + 1, NEW key, key = txs'[i].key
        PROVE  txs'[i].nonce \in Nat /\ txs'[i].nonce < Cardinality(SentBy(key)')
    <3>1. CASE i = n + 1
      BY <1>1, <1>3, <1>4, <2>1, <3>1
    <3>2. CASE i \in 1 .. n
      <4>1. /\ key = txs[i].key /\ txs'[i].nonce = txs[i].nonce
            /\ txs[i].nonce \in Nat /\ txs[i].nonce < Cardinality(SentBy(key))
        BY <1>3, <1>5, <2>1, <3>2
      <4>. QED BY <1>4, <4>1
    <3>. QED BY <1>3, <3>1, <3>2
  <2>2. ASSUME NEW i \in 1 .. n + 1
        PROVE  /\ txs'[i] = [key |-> txs'[i].key, nonce |-> txs'[i].nonce, run |-> txs'[i].run,
                            what |-> txs'[i].what, to |-> txs'[i].to, status |-> txs'[i].status]
               /\ txs'[i].run \in Nat /\ txs'[i].run <= runNo
               /\ txs'[i].status \in {"pending", "ok", "reverted"}
               /\ txs'[i].what = "deploy" => ~MockDeploy(profile)
               /\ txs'[i].what # "deploy" => Funds(profile)
    <3>1. CASE i = n + 1
      BY <1>1, <1>2, <1>3, <3>1
    <3>2. CASE i \in 1 .. n
      BY <1>3, <3>2 DEF Stream, Sequence
    <3>. QED BY <1>3, <3>1, <3>2
  <2>. QED BY <1>2, <1>3, <2>1, <2>2 DEF Sequence
<1>7. NoncesDistinct'
  <2>1. ASSUME NEW i \in 1 .. n, txs[i].key = t.key PROVE txs[i].nonce < t.nonce
    BY <1>1, <1>5, <2>1
  <2>2. \A i \in 1 .. n : txs[i].nonce \in Nat
    BY <1>5
  <2>3. t.nonce \in Nat
    BY <1>1, <1>4
  <2>4. \A i, j \in 1 .. n : i # j /\ txs[i].key = txs[j].key => txs[i].nonce # txs[j].nonce
    BY <1>3 DEF Stream, NoncesDistinct
  <2>. QED BY <1>3, <2>1, <2>2, <2>3, <2>4 DEF NoncesDistinct
<1>8. EachAwaited'
  <2>1. \A i \in 1 .. n : txs[i].run = runNo => txs[i].status = "ok"
    BY <1>3 DEF Stream, Awaiting
  <2>2. \A i, j \in 1 .. n : i < j /\ txs[i].run = txs[j].run => txs[i].status = "ok"
    BY <1>3 DEF Stream, EachAwaited
  <2>. QED BY <1>1, <1>3, <2>1, <2>2 DEF EachAwaited
<1>9. Awaiting'
  <2>1. ~Settled' /\ txs' # <<>> /\ Awaited' = n + 1 /\ runNo' = runNo /\ next' = next
    BY <1>3 DEF Settled, Sent, Awaited
  <2>2. pc' \in {wait, "failed", "stopped"}
    BY DEF Sent
  <2>. QED BY <1>1, <1>3, <2>1, <2>2 DEF Awaiting, Waits
<1>. QED BY <1>6, <1>7, <1>8, <1>9 DEF Stream

\* A mined transaction keeps its nonce; if it has reverted, it was the last of
\* its run.
LEMMA MineStream ==
  ASSUME Stream, NEW i \in DOMAIN txs, NEW status, Settles(i, status)
  PROVE  Stream'
<1>1. /\ txs' \in Seq(Range(txs')) /\ Len(txs') = Len(txs) /\ DOMAIN txs' = DOMAIN txs
      /\ UNCHANGED <<profile, runNo, pc, next>>
      /\ txs[i].status = "pending" /\ status \in {"ok", "reverted"}
  BY DEF Settles
<1>2. \A j \in DOMAIN txs :
        /\ txs'[j] = [key |-> txs'[j].key, nonce |-> txs'[j].nonce, run |-> txs'[j].run,
                      what |-> txs'[j].what, to |-> txs'[j].to, status |-> txs'[j].status]
        /\ txs'[j].key = txs[j].key /\ txs'[j].nonce = txs[j].nonce /\ txs'[j].run = txs[j].run
        /\ txs'[j].what = txs[j].what /\ txs'[j].to = txs[j].to
        /\ txs'[j].status = IF j = i THEN status ELSE txs[j].status
  BY DEF Settles
<1>3. \A key : SentBy(key)' = SentBy(key)
  BY <1>1, <1>2 DEF SentBy
<1>4. Sequence'
  <2>1. ASSUME NEW j \in DOMAIN txs, NEW key, key = txs'[j].key
        PROVE  txs'[j].nonce \in Nat /\ txs'[j].nonce < Cardinality(SentBy(key)')
    BY <1>2, <1>3, <2>1 DEF Stream, Sequence
  <2>. QED BY <1>1, <1>2, <2>1 DEF Stream, Sequence
<1>5. NoncesDistinct'
  BY <1>1, <1>2 DEF Stream, NoncesDistinct
<1>6. EachAwaited'
  BY <1>1, <1>2 DEF Stream, EachAwaited
<1>7. Awaiting'
  <2>1. txs # <<>> => txs' # <<>>
    BY <1>1
  <2>2. pc \in Waits => Len(txs) \in DOMAIN txs
    BY LenProperties DEF Stream, Sequence, Awaiting
  <2>. QED BY <1>1, <1>2, <2>1, <2>2 DEF Stream, Awaiting, Settled, Awaited, Waits
<1>. QED BY <1>4, <1>5, <1>6, <1>7 DEF Stream

\* The stream's invariant: a run begins with nothing of its own on the chain.
LEMMA StreamStep ==
  ASSUME StartupInv, [Next]_vars
  PROVE  Stream'
<1>1. GeneratorOK /\ Stream /\ Known /\ profile \in Profiles
  BY DEF StartupInv, GeneratorOK
<1>2. profile' = profile /\ (Keeps \/ Sends \/ Mine \/ Restart)
  BY <1>1, StepKinds
<1>3. CASE Keeps
  <2>1. UNCHANGED <<txs, runNo, profile>>
    BY <1>2, <1>3 DEF Keeps
  <2>2. Sequence'
    <3>1. \A key : SentBy(key)' = SentBy(key)
      BY <2>1 DEF SentBy
    <3>. QED BY <1>1, <2>1, <3>1 DEF Stream, Sequence
  <2>3. NoncesDistinct' /\ EachAwaited'
    BY <1>1, <2>1 DEF Stream, NoncesDistinct, EachAwaited
  <2>4. Awaiting'
    <3>1. pc \in Waits /\ Succeeded => \A i \in DOMAIN txs : txs[i].run = runNo => txs[i].status = "ok"
      <4>1. Len(txs) \in Nat /\ DOMAIN txs = 1 .. Len(txs)
        BY <1>1, LenProperties DEF Stream, Sequence
      <4>2. pc \in Waits => txs[Len(txs)].run = runNo /\ Len(txs) # 0
        BY <1>1 DEF Stream, Awaiting, Awaited, Sequence
      <4>. QED BY <1>1, <4>1, <4>2 DEF Stream, EachAwaited, Succeeded, Awaited
    <3>. QED BY <1>1, <1>3, <2>1, <3>1
         DEF Stream, Awaiting, Keeps, Settled, Waits, Ended, Awaited
  <2>. QED BY <2>2, <2>3, <2>4 DEF Stream
<1>4. CASE Sends
  <2>1. Settled /\ (pc = "deploy" => ~MockDeploy(profile)) /\ (pc \in {"disperse", "batch"} => Funds(profile))
    BY <1>1, <1>4 DEF Settled, Waits, Known, Paying, Sends, SentDeploy, SentDisperse, SentBatch
  <2>2. CASE SentDeploy
    BY <1>1, <1>2, <2>1, <2>2, SendStream DEF SentDeploy, Waits
  <2>3. CASE SentDisperse
    BY <1>1, <1>2, <2>1, <2>3, SendStream DEF SentDisperse, Waits
  <2>4. CASE SentBatch
    <3>1. PICK chunk \in SUBSET underfunded : Sent("batch", chunk, "batchWait")
      BY <2>4 DEF SentBatch
    <3>. QED BY <1>1, <1>2, <2>1, <2>4, <3>1, SendStream DEF SentBatch, Waits
  <2>. QED BY <1>4, <2>2, <2>3, <2>4 DEF Sends
<1>5. CASE Mine
  BY <1>1, <1>5, MineSettles, MineStream DEF Stream
<1>6. CASE Restart
  <2>1. txs' = txs /\ profile' = profile /\ runNo' = runNo + 1 /\ pc' = "load" /\ runNo \in Nat
    BY <1>1, <1>6 DEF Restart, GeneratorOK
  <2>2. \A i \in DOMAIN txs : txs[i].run \in Nat /\ txs[i].run <= runNo
    BY <1>1 DEF Stream, Sequence
  <2>3. \A i \in DOMAIN txs : txs[i].run # runNo' /\ txs[i].run <= runNo'
    BY <2>1, <2>2
  <2>4. Sequence'
    <3>1. \A key : SentBy(key)' = SentBy(key)
      BY <2>1 DEF SentBy
    <3>. QED BY <1>1, <2>1, <2>3, <3>1 DEF Stream, Sequence
  <2>5. NoncesDistinct' /\ EachAwaited' /\ Awaiting'
    BY <1>1, <2>1, <2>3 DEF Stream, NoncesDistinct, EachAwaited, Awaiting, Settled, Waits
  <2>. QED BY <2>4, <2>5 DEF Stream
<1>. QED BY <1>2, <1>3, <1>4, <1>5, <1>6

-----------------------------------------------------------------------------
(* What only the profile and the round-robin determine.                     *)

\* The profile does not change, nor what is derived from it.
LEMMA ProfileStays ==
  ASSUME profile' = profile
  PROVE  /\ ScenarioList' = ScenarioList /\ Pools' = Pools
         /\ AllAccounts' = AllAccounts
         /\ CreateScenarios' = CreateScenarios
         /\ Accepted' = Accepted
         /\ gens' = gens => Accounts' = Accounts
<1>1. ScenarioList' = ScenarioList
  BY DEF ScenarioList
<1>2. Pools' = Pools
  BY <1>1 DEF Pools
<1>3. \A p : PoolConfig(p)' = PoolConfig(p)
  BY <1>1 DEF PoolConfig
<1>4. \A p : Size(p)' = Size(p)
  BY <1>3 DEF Size
<1>5. \A p : PoolAccounts(p)' = PoolAccounts(p)
  BY <1>3, <1>4 DEF PoolAccounts
<1>6. AllAccounts' = AllAccounts
  BY <1>2, <1>5 DEF AllAccounts
<1>7. \A s : PoolOf(s)' = PoolOf(s)
  BY <1>1 DEF PoolOf
<1>8. \A s : Created(s)' = Created(s)
  <2>1. ASSUME NEW s PROVE Created(s)' = Created(s)
    <3>1. PICK p : p = PoolOf(s) /\ p = PoolOf(s)'
      BY <1>7
    <3>2. (PoolConfig(PoolOf(s)) = {})' <=> PoolConfig(PoolOf(s)) = {}
      BY <1>3, <3>1
    <3>. QED BY <1>1, <3>2 DEF Created
  <2>. QED BY <2>1
<1>9. CreateScenarios' = CreateScenarios
  <2>1. PICK bad : bad = {s \in DOMAIN ScenarioList : Created(s) # "ok"}
    OBVIOUS
  <2>2. bad = {s \in DOMAIN ScenarioList : Created(s) # "ok"}'
    BY <1>1, <1>8, <2>1
  <2>3. PICK c : c = CHOOSE s \in bad : \A t \in bad : s <= t
    OBVIOUS
  <2>4. CreateScenarios = IF bad = {} THEN "ok" ELSE Created(c)
    BY <2>1, <2>3 DEF CreateScenarios
  <2>5. CreateScenarios' = IF bad = {} THEN "ok" ELSE Created(c)'
    BY <2>2, <2>3 DEF CreateScenarios
  <2>. QED BY <1>8, <2>4, <2>5
<1>10. Accepted' = Accepted
  <2>1. ValidFunding' = ValidFunding /\ ParseLoadConfig' = ParseLoadConfig
    BY <1>1 DEF ValidFunding, NamesRootKey, ParseLoadConfig
  <2>. QED BY <1>1, <2>1 DEF Accepted, LoadConfig
<1>11. ASSUME gens' = gens PROVE Accounts' = Accounts
  <2>1. \A s : PoolAccounts(PoolOf(s))' = PoolAccounts(PoolOf(s))
    <3>1. ASSUME NEW s PROVE PoolAccounts(PoolOf(s))' = PoolAccounts(PoolOf(s))
      <4>1. PICK p : p = PoolOf(s) /\ p = PoolOf(s)'
        BY <1>7
      <4>. QED BY <1>5, <4>1
    <3>. QED BY <3>1
  <2>. QED BY <1>11, <2>1 DEF Accounts
<1>. QED BY <1>1, <1>2, <1>6, <1>9, <1>10, <1>11

-----------------------------------------------------------------------------
(* The deployments.                                                         *)

\* What is on the chain stays there while the run lasts.
LEMMA OnChainStays ==
  ASSUME Stream, Keeps \/ Sends \/ Mine, NEW s, OnChain(s)
  PROVE  OnChain(s)'
<1>1. PICK i \in DOMAIN txs :
        txs[i].run = runNo /\ txs[i].what = "deploy" /\ txs[i].to = {s} /\ txs[i].status = "ok"
  BY DEF OnChain
<1>2. CASE Keeps
  BY <1>1, <1>2 DEF Keeps, OnChain
<1>3. CASE Sends
  <2>1. PICK t : txs' = Append(txs, t) /\ runNo' = runNo
    BY <1>3 DEF Sends, SentDeploy, SentDisperse, SentBatch, Sent
  <2>2. txs \in Seq(Range(txs))
    BY DEF Stream, Sequence
  <2>3. i \in DOMAIN txs' /\ txs'[i] = txs[i]
    BY <2>1, <2>2, AppendFacts
  <2>. QED BY <1>1, <2>1, <2>3 DEF OnChain
<1>4. CASE Mine
  <2>1. PICK k \in DOMAIN txs, status \in {"ok", "reverted"} : Settles(k, status)
    BY <1>4, MineSettles DEF Stream
  <2>2. /\ i \in DOMAIN txs' /\ txs'[i].run = runNo' /\ txs'[i].what = "deploy"
        /\ txs'[i].to = {s} /\ txs'[i].status = "ok"
    BY <1>1, <2>1 DEF Settles
  <2>. QED BY <2>2 DEF OnChain
<1>. QED BY <1>2, <1>3, <1>4

\* deployAll goes on by one scenario: one that is mocked, needs no contract, or
\* whose deployment was awaited and has succeeded.
LEMMA NextMoves ==
  ASSUME Known, [Next]_vars, ~Restart
  PROVE  \/ UNCHANGED <<next, deployed>>
         \/ /\ next \in DOMAIN ScenarioList /\ next' = next + 1 /\ deployed' = deployed \cup {next}
            /\ Keeps
            /\ MockDeploy(profile) \/ ~IsContract(next) \/ (pc = "deployWait" /\ Succeeded)
<1>. USE DEF runVars, workVars
<1>1. CASE DeployMined
  BY <1>1 DEF DeployMined, MarkDeployed, Known, Keeps, Waits
<1>2. CASE Attach
  BY <1>2 DEF Attach, MarkDeployed, Known, Keeps, Waits, Ended, Over
<1>3. CASE DeployPlain
  BY <1>3 DEF DeployPlain, MarkDeployed, Keeps, Waits, Ended, Over
<1>4. CASE UNCHANGED vars \/ Generate \/ TickerPanics \/ Mine \/ CtxEnds
  BY <1>4 DEF vars, Generate, TickerPanics, Mine, CtxEnds
<1>5. CASE DeployContract \/ DeployDisperse \/ DisperseEther
  BY <1>5 DEF DeployContract, DeployDisperse, DisperseEther
<1>6. CASE LoadProfile \/ Deployer \/ Create \/ Build \/ DeployedAll \/ OpenWriter \/ OpenSender
  BY <1>6 DEF LoadProfile, Deployer, Create, Build, DeployedAll, OpenWriter, OpenSender
<1>7. CASE FilterUnderfunded \/ CheckCode \/ Funded \/ GiveUp \/ FailedDeployment \/ DisperseMined \/ BatchMined
  BY <1>7 DEF FilterUnderfunded, CheckCode, Funded, GiveUp, FailedDeployment, DisperseMined, BatchMined
<1>. QED BY <1>1, <1>2, <1>3, <1>4, <1>5, <1>6, <1>7 DEF Next, Program

\* The contract of every scenario deployAll has passed is on the chain.
LEMMA DeployedStep ==
  ASSUME StartupInv, [Next]_vars
  PROVE  DeployedSoFar'
<1>1. /\ profile \in Profiles /\ Stream /\ DeployedSoFar /\ Known
      /\ Len(ScenarioList) \in Nat /\ DOMAIN ScenarioList = 1 .. Len(ScenarioList)
  BY ListFacts DEF StartupInv, GeneratorOK
<1>2. profile' = profile /\ (Keeps \/ Sends \/ Mine \/ Restart)
  BY <1>1, StepKinds
<1>3. ScenarioList' = ScenarioList /\ \A s : IsContract(s)' = IsContract(s)
  BY <1>2, ProfileStays DEF IsContract
<1>4. CASE Restart
  BY <1>1, <1>2, <1>3, <1>4 DEF Restart, DeployedSoFar
<1>5. CASE ~Restart
  <2>1. \A s : OnChain(s) => OnChain(s)'
    BY <1>1, <1>2, <1>5, OnChainStays
  <2>2. CASE UNCHANGED <<next, deployed>>
    BY <1>1, <1>2, <1>3, <2>1, <2>2 DEF DeployedSoFar
  <2>3. CASE /\ next \in DOMAIN ScenarioList /\ next' = next + 1 /\ deployed' = deployed \cup {next}
             /\ Keeps
             /\ MockDeploy(profile) \/ ~IsContract(next) \/ (pc = "deployWait" /\ Succeeded)
    <3>1. PICK n \in 1 .. Len(ScenarioList) : n = next
      BY <1>1, <2>3
    <3>2. next' \in 1 .. Len(ScenarioList) + 1 /\ deployed' = 1 .. next' - 1
      BY <1>1, <2>3, <3>1 DEF DeployedSoFar
    <3>3. MockDeploy(profile) \/ ~IsContract(n) \/ OnChain(n)
      <4>1. CASE pc = "deployWait" /\ Succeeded
        <5>1. Len(txs) \in DOMAIN txs
          BY <1>1, <4>1, LenProperties DEF Stream, Sequence, Awaiting, Waits
        <5>. QED BY <1>1, <3>1, <4>1, <5>1 DEF Stream, Awaiting, Waits, Awaited, Succeeded, OnChain
      <4>. QED BY <2>3, <3>1, <4>1
    <3>4. \A s \in deployed' : s \in deployed \/ s = n
      BY <2>3, <3>1
    <3>. QED BY <1>1, <1>2, <1>3, <2>1, <3>2, <3>3, <3>4 DEF DeployedSoFar
  <2>. QED BY <1>1, <1>5, <2>2, <2>3, NextMoves
<1>. QED BY <1>4, <1>5

-----------------------------------------------------------------------------
(* The accounts that are paid.                                              *)

\* A step that neither sends nor mines changes who is underfunded only where
\* FundAccounts finds it out, and goes from phase to phase of the funding.
LEMMA FundingMoves ==
  ASSUME profile \in Profiles, Keeps, [Next]_vars
  PROVE  /\ \/ underfunded' \subseteq underfunded
            \/ pc = "filter" /\ underfunded' = Underfunded /\ gens' = gens
         /\ pc' \in Unpaid => pc \in Unpaid /\ UNCHANGED underfunded
         /\ pc' \in Paying => gens' = gens /\ (\/ pc \in Paying /\ UNCHANGED underfunded
                                               \/ pc = "filter" /\ underfunded' = Underfunded)
         /\ pc' \in {"disperse", "disperseWait", "code"} =>
              pc \in {"filter", "disperse", "disperseWait", "code"}
         /\ pc' = "ready" =>
              \/ pc = "ready" /\ UNCHANGED <<gens, underfunded>>
              \/ pc = "sender" /\ ~Funds(profile) /\ UNCHANGED underfunded
              \/ pc = "filter" /\ underfunded' = Underfunded /\ Underfunded = {} /\ gens' = gens
              \/ pc = "batch" /\ underfunded = {} /\ UNCHANGED <<gens, underfunded>>
<1>. USE DEF runVars, workVars, Unpaid, Paying, Fail
<1>1. CASE UNCHANGED vars \/ Generate \/ TickerPanics \/ CtxEnds
  BY <1>1 DEF vars, Generate, TickerPanics, CtxEnds, Offer
<1>2. CASE Mine \/ Restart
  <2>1. CASE Restart
    BY <2>1 DEF Keeps, Restart, GeneratorOK
  <2>2. CASE Mine
    BY <2>2 DEF Mine
  <2>. QED BY <1>2, <2>1, <2>2
<1>3. CASE DeployContract \/ DeployDisperse
  BY <1>3 DEF DeployContract, DeployDisperse, Keeps, Send, Waits, Ended
<1>4. CASE DisperseEther
  <2>1. /\ pc = "batch" /\ underfunded' \subseteq underfunded /\ pc' \in {"batchWait"} \cup Ended
        /\ gens' = gens
    BY <1>4 DEF DisperseEther, Send, Ended
  <2>. QED BY <2>1 DEF Keeps, Waits, Ended
<1>5. CASE Create
  BY <1>5, CreateOutcome DEF Create
<1>6. CASE LoadProfile \/ Deployer \/ Build \/ DeployedAll \/ Attach \/ DeployPlain \/ DeployMined
  BY <1>6 DEF LoadProfile, Deployer, Build, DeployedAll, Attach, DeployPlain, DeployMined
<1>7. CASE OpenWriter \/ OpenSender
  BY <1>7 DEF OpenWriter, OpenSender, Funds
<1>8. CASE FilterUnderfunded
  BY <1>8 DEF FilterUnderfunded
<1>9. CASE CheckCode \/ Funded \/ GiveUp \/ FailedDeployment \/ DisperseMined \/ BatchMined
  BY <1>9 DEF CheckCode, Funded, GiveUp, FailedDeployment, DisperseMined, BatchMined, Expire
<1>. QED BY <1>1, <1>2, <1>3, <1>4, <1>5, <1>6, <1>7, <1>8, <1>9 DEF Next, Program

\* Before the first batch a balance is what it was.
LEMMA UnpaidBalances ==
  ASSUME Ledger, \A i \in DOMAIN txs : ~BatchOf(i)
  PROVE  balance \in [AllAccounts -> Nat] /\ \A a \in AllAccounts : balance[a] = start[a]
<1>1. \A a : ~Paid(a)
  BY DEF Paid
<1>2. \A a \in AllAccounts : start[a] \in Nat
  BY DEF Ledger
<1>. QED BY <1>1, <1>2 DEF Ledger

\* The ledger when a transaction is appended: it is pending, and if it is a
\* batch then of accounts that were underfunded until now.
LEMMA SendLedger ==
  ASSUME Stream, Ledger, profile' = profile,
         NEW what, NEW to, NEW wait, Sent(what, to, wait),
         underfunded' \subseteq underfunded,
         what = "batch" => to \subseteq underfunded /\ to \cap underfunded' = {}
  PROVE  Ledger'
<1>0. PICK t : t = Tx(what, to)
  OBVIOUS
<1>1. /\ t.run = runNo /\ t.what = what /\ t.to = to /\ t.status = "pending"
      /\ txs \in Seq(Range(txs)) /\ txs' = Append(txs, t)
      /\ UNCHANGED <<runNo, start, balance>>
  BY <1>0 DEF Tx, Stream, Sequence, Sent
<1>2. /\ Len(txs) \in Nat /\ DOMAIN txs = 1 .. Len(txs) /\ DOMAIN txs' = 1 .. Len(txs) + 1
      /\ txs'[Len(txs) + 1] = t
      /\ \A i \in 1 .. Len(txs) : txs'[i] = txs[i]
  BY ONLY <1>1, AppendFacts
<1>3. PICK n \in Nat : n = Len(txs)
  BY <1>2
<1>4. AllAccounts' = AllAccounts
  BY ProfileStays
<1>5. \A i \in 1 .. n : BatchOf(i)' <=> BatchOf(i)
  BY <1>1, <1>2, <1>3 DEF BatchOf, OfThisRun
<1>6. BatchOf(n + 1)' => what = "batch"
  BY <1>1, <1>2, <1>3 DEF BatchOf, OfThisRun
<1>7. \A a : Paid(a)' <=> Paid(a)
  BY <1>1, <1>2, <1>3, <1>5 DEF Paid
<1>8. \A i \in DOMAIN txs' : BatchOf(i)' =>
         \A a \in txs'[i].to : a \in AllAccounts' /\ start'[a] < Amount /\ a \notin underfunded'
  <2>1. \A i \in 1 .. n : BatchOf(i) =>
         \A a \in txs[i].to : a \in AllAccounts /\ start[a] < Amount /\ a \notin underfunded
    BY <1>2, <1>3 DEF Ledger
  <2>2. \A a \in underfunded : a \in AllAccounts /\ start[a] < Amount
    BY DEF Ledger
  <2>. QED BY <1>1, <1>2, <1>3, <1>4, <1>5, <1>6, <2>1, <2>2
<1>9. \A i, j \in DOMAIN txs' : BatchOf(i)' /\ BatchOf(j)' /\ i # j => txs'[i].to \cap txs'[j].to = {}
  <2>1. \A i, j \in 1 .. n : BatchOf(i) /\ BatchOf(j) /\ i # j => txs[i].to \cap txs[j].to = {}
    BY <1>2, <1>3 DEF Ledger
  <2>2. \A i \in 1 .. n : BatchOf(i) => \A a \in txs[i].to : a \notin underfunded
    BY <1>2, <1>3 DEF Ledger
  <2>3. ASSUME NEW i \in 1 .. n, BatchOf(i), what = "batch" PROVE txs[i].to \cap to = {}
    BY <2>2, <2>3
  <2>. QED BY <1>1, <1>2, <1>3, <1>5, <1>6, <2>1, <2>3
<1>10. \A a \in underfunded' : a \in AllAccounts' /\ start'[a] < Amount
  BY <1>1, <1>4 DEF Ledger
<1>11. /\ balance' \in [AllAccounts' -> Nat] /\ start' \in [AllAccounts' -> Nat]
       /\ \A a \in AllAccounts' : balance'[a] = start'[a] + (IF Paid(a)' THEN Amount ELSE 0)
  BY <1>1, <1>4, <1>7 DEF Ledger
<1>. QED BY <1>8, <1>9, <1>10, <1>11 DEF Ledger

\* The ledger when a transaction is mined: a batch that succeeds pays accounts
\* that no batch has paid.
LEMMA MineLedger ==
  ASSUME Stream, Ledger, NEW i \in DOMAIN txs, NEW status, Settles(i, status)
  PROVE  Ledger'
<1>1. /\ DOMAIN txs' = DOMAIN txs /\ txs[i].status = "pending"
      /\ UNCHANGED <<profile, runNo, start, underfunded>>
      /\ \A j \in DOMAIN txs : /\ txs'[j].run = txs[j].run /\ txs'[j].what = txs[j].what
                               /\ txs'[j].to = txs[j].to
                               /\ txs'[j].status = IF j = i THEN status ELSE txs[j].status
      /\ balance' = [a \in AllAccounts |->
                       IF status = "ok" /\ BatchOf(i) /\ a \in txs[i].to THEN balance[a] + Amount
                       ELSE balance[a]]
  BY DEF Settles
<1>2. AllAccounts' = AllAccounts
  BY <1>1, ProfileStays
<1>3. \A j : BatchOf(j)' <=> BatchOf(j)
  BY <1>1 DEF BatchOf, OfThisRun
<1>4. \A a : Paid(a)' <=> Paid(a) \/ (status = "ok" /\ BatchOf(i) /\ a \in txs[i].to)
  BY <1>1, <1>3 DEF Paid
<1>5. \A a : BatchOf(i) /\ a \in txs[i].to => ~Paid(a)
  <2>1. \A j \in DOMAIN txs : BatchOf(i) /\ BatchOf(j) /\ i # j => txs[i].to \cap txs[j].to = {}
    BY DEF Ledger
  <2>. QED BY <1>1, <2>1 DEF Paid
<1>6. /\ balance' \in [AllAccounts -> Nat] /\ start' \in [AllAccounts -> Nat]
  BY <1>1, StartupAssumption DEF Ledger
<1>7. ASSUME NEW a \in AllAccounts
      PROVE  balance'[a] = start'[a] + (IF Paid(a)' THEN Amount ELSE 0)
  <2>1. /\ balance[a] = start[a] + (IF Paid(a) THEN Amount ELSE 0)
        /\ start[a] \in Nat /\ Amount \in Nat
    BY StartupAssumption DEF Ledger
  <2>. QED BY <1>1, <1>4, <1>5, <2>1
<1>8. /\ \A j \in DOMAIN txs' : BatchOf(j)' =>
           \A a \in txs'[j].to : a \in AllAccounts' /\ start'[a] < Amount /\ a \notin underfunded'
      /\ \A j, k \in DOMAIN txs' : BatchOf(j)' /\ BatchOf(k)' /\ j # k => txs'[j].to \cap txs'[k].to = {}
      /\ \A a \in underfunded' : a \in AllAccounts' /\ start'[a] < Amount
  BY <1>1, <1>2, <1>3 DEF Ledger
<1>. QED BY <1>2, <1>6, <1>7, <1>8 DEF Ledger

\* The ledger is kept by every step.
LEMMA LedgerStep ==
  ASSUME StartupInv, [Next]_vars
  PROVE  Ledger'
<1>1. GeneratorOK /\ Stream /\ Ledger /\ Coverage /\ profile \in Profiles
  BY DEF StartupInv, GeneratorOK
<1>2. profile' = profile /\ (Keeps \/ Sends \/ Mine \/ Restart)
  BY <1>1, StepKinds
<1>3. AllAccounts' = AllAccounts
  BY <1>2, ProfileStays
<1>4. CASE Keeps
  <2>1. UNCHANGED <<txs, runNo, start, balance>>
    BY <1>4 DEF Keeps
  <2>2. \A i : BatchOf(i)' <=> BatchOf(i)
    BY <2>1 DEF BatchOf, OfThisRun
  <2>3. \A a : Paid(a)' <=> Paid(a)
    BY <2>1, <2>2 DEF Paid
  <2>4. CASE underfunded' \subseteq underfunded
    BY <1>1, <1>3, <2>1, <2>2, <2>3, <2>4 DEF Ledger
  <2>5. CASE pc = "filter" /\ underfunded' = Underfunded
    <3>1. \A i \in DOMAIN txs : ~BatchOf(i)
      BY <1>1, <2>5 DEF Coverage, Unpaid
    <3>2. \A a \in AllAccounts : balance[a] = start[a]
      BY <1>1, <3>1, UnpaidBalances
    <3>3. Accounts \subseteq AllAccounts
      BY <1>1, AccountsInPools DEF GeneratorOK
    <3>4. \A a \in underfunded' : a \in AllAccounts /\ start[a] < Amount
      BY <2>5, <3>2, <3>3 DEF Underfunded
    <3>. QED BY <1>1, <1>3, <2>1, <2>2, <2>3, <3>1, <3>4 DEF Ledger
  <2>. QED BY <1>1, <1>4, <2>4, <2>5, FundingMoves
<1>5. CASE Sends
  <2>1. CASE SentDeploy
    BY <1>1, <1>2, <2>1, SendLedger DEF SentDeploy
  <2>2. CASE SentDisperse
    BY <1>1, <1>2, <2>2, SendLedger DEF SentDisperse
  <2>3. CASE SentBatch
    <3>1. PICK chunk \in SUBSET underfunded :
            underfunded' = underfunded \ chunk /\ Sent("batch", chunk, "batchWait")
      BY <2>3 DEF SentBatch
    <3>. QED BY <1>1, <1>2, <3>1, SendLedger
  <2>. QED BY <1>5, <2>1, <2>2, <2>3 DEF Sends
<1>6. CASE Mine
  BY <1>1, <1>6, MineSettles, MineLedger DEF Stream
<1>7. CASE Restart
  <2>1. /\ txs' = txs /\ runNo' = runNo + 1 /\ runNo \in Nat /\ underfunded' = {}
        /\ balance' \in [AllAccounts -> Balances] /\ start' = balance'
    BY <1>1, <1>7 DEF Restart, GeneratorOK
  <2>2. \A i : ~BatchOf(i)'
    <3>1. \A i \in DOMAIN txs : txs[i].run \in Nat /\ txs[i].run <= runNo
      BY <1>1 DEF Stream, Sequence
    <3>. QED BY <2>1, <3>1 DEF BatchOf, OfThisRun
  <2>3. \A a : ~Paid(a)'
    BY <2>2 DEF Paid
  <2>4. balance' \in [AllAccounts -> Nat]
    BY <2>1, StartupAssumption
  <2>. QED BY <1>3, <2>1, <2>2, <2>3, <2>4 DEF Ledger
<1>. QED BY <1>2, <1>4, <1>5, <1>6, <1>7

\* Who is not underfunded has the amount, or is in a batch, in every step.
LEMMA CoverageStep ==
  ASSUME StartupInv, [Next]_vars
  PROVE  Coverage'
<1>1. GeneratorOK /\ Stream /\ Ledger /\ Coverage /\ profile \in Profiles
  BY DEF StartupInv, GeneratorOK
<1>2. profile' = profile /\ (Keeps \/ Sends \/ Mine \/ Restart)
  BY <1>1, StepKinds
<1>3. AllAccounts' = AllAccounts /\ (gens' = gens => Accounts' = Accounts)
  BY <1>2, ProfileStays
<1>4. CASE Keeps
  <2>1. UNCHANGED <<txs, runNo, start, balance>>
    BY <1>4 DEF Keeps
  <2>2. \A i : BatchOf(i)' <=> BatchOf(i)
    BY <2>1 DEF BatchOf, OfThisRun
  <2>3. /\ pc' \in Unpaid => underfunded' = {} /\ \A i \in DOMAIN txs' : ~BatchOf(i)'
        /\ pc' \in {"disperse", "disperseWait", "code"} => \A i \in DOMAIN txs' : ~BatchOf(i)'
        /\ pc' = "ready" => underfunded' = {}
    BY <1>1, <1>4, <2>1, <2>2, FundingMoves DEF Coverage, Unpaid
  <2>4. ASSUME pc' \in Paying \cup {"ready"}, Funds(profile), NEW a \in Accounts'
        PROVE  \/ start'[a] >= Amount
               \/ a \in underfunded'
               \/ \E i \in DOMAIN txs' : BatchOf(i)' /\ a \in txs'[i].to
    <3>1. CASE pc \in Paying \cup {"ready"} /\ UNCHANGED <<gens, underfunded>>
      BY <1>1, <1>3, <2>1, <2>2, <2>4, <3>1 DEF Coverage
    <3>2. CASE pc = "filter" /\ underfunded' = Underfunded /\ gens' = gens
      <4>1. \A i \in DOMAIN txs : ~BatchOf(i)
        BY <1>1, <3>2 DEF Coverage, Unpaid
      <4>2. a \in Accounts /\ a \in AllAccounts /\ start[a] = balance[a] /\ balance[a] \in Nat
        BY <1>1, <1>3, <2>4, <3>2, <4>1, UnpaidBalances, AccountsInPools DEF GeneratorOK
      <4>3. Amount \in Nat
        BY StartupAssumption
      <4>. QED BY <2>1, <3>2, <4>2, <4>3 DEF Underfunded
    <3>. QED BY <1>1, <1>4, <2>4, <3>1, <3>2, FundingMoves DEF Paying
  <2>. QED BY <1>2, <2>3, <2>4 DEF Coverage
<1>5. CASE Sends
  <2>0. gens' = gens /\ start' = start /\ runNo' = runNo
    BY <1>5 DEF Sends, SentDeploy, SentDisperse, SentBatch, Sent
  <2>1. PICK t : /\ txs' = Append(txs, t)
                 /\ \/ SentDeploy /\ t.what = "deploy"
                    \/ SentDisperse /\ t.what = "disperse"
                    \/ SentBatch /\ t.what = "batch" /\ t.run = runNo /\ underfunded' = underfunded \ t.to
    <3>1. CASE SentDeploy
      BY <3>1 DEF SentDeploy, Sent, Tx
    <3>2. CASE SentDisperse
      BY <3>2 DEF SentDisperse, Sent, Tx
    <3>3. CASE SentBatch
      <4>1. PICK chunk \in SUBSET underfunded :
              underfunded' = underfunded \ chunk /\ txs' = Append(txs, Tx("batch", chunk))
        BY <3>3 DEF SentBatch, Sent
      <4>2. Tx("batch", chunk).what = "batch" /\ Tx("batch", chunk).run = runNo /\ Tx("batch", chunk).to = chunk
        BY DEF Tx
      <4>. QED BY <3>3, <4>1, <4>2
    <3>. QED BY <1>5, <3>1, <3>2, <3>3 DEF Sends
  <2>2. txs \in Seq(Range(txs)) /\ txs' = Append(txs, t)
    BY <1>1, <2>1 DEF Stream, Sequence
  <2>3. /\ Len(txs) \in Nat /\ DOMAIN txs = 1 .. Len(txs) /\ DOMAIN txs' = 1 .. Len(txs) + 1
        /\ txs'[Len(txs) + 1] = t
        /\ \A i \in 1 .. Len(txs) : txs'[i] = txs[i]
    BY ONLY <2>2, AppendFacts
  <2>4. PICK n \in Nat : n = Len(txs)
    BY <2>3
  <2>5. \A i \in 1 .. n : BatchOf(i)' <=> BatchOf(i)
    BY <2>0, <2>3, <2>4 DEF BatchOf, OfThisRun
  <2>6. BatchOf(n + 1)' <=> t.run = runNo /\ t.what = "batch"
    BY <2>0, <2>3, <2>4 DEF BatchOf, OfThisRun
  <2>7. CASE SentDeploy
    <3>1. pc' \in {"deployWait", "failed", "stopped"} /\ pc = "deploy" /\ underfunded' = underfunded
      BY <2>7 DEF SentDeploy, Sent
    <3>2. t.what # "batch"
      BY <2>1, <3>1 DEF SentDisperse, SentBatch
    <3>. QED BY <1>1, <2>3, <2>4, <2>5, <2>6, <3>1, <3>2 DEF Coverage, Unpaid, Paying
  <2>8. CASE SentDisperse
    <3>1. pc' \in {"disperseWait", "failed", "stopped"} /\ pc = "disperse" /\ underfunded' = underfunded
      BY <2>8 DEF SentDisperse, Sent
    <3>2. t.what # "batch"
      BY <2>1, <3>1 DEF SentDeploy, SentBatch
    <3>. QED BY <1>1, <1>2, <1>3, <2>0, <2>3, <2>4, <2>5, <2>6, <3>1, <3>2 DEF Coverage, Unpaid, Paying
  <2>9. CASE SentBatch
    <3>1. pc' \in {"batchWait", "failed", "stopped"} /\ pc = "batch"
      BY <2>9 DEF SentBatch, Sent
    <3>2. BatchOf(n + 1)' /\ underfunded' = underfunded \ t.to
      BY <2>1, <2>6, <3>1 DEF SentDeploy, SentDisperse
    <3>3. ASSUME Funds(profile), NEW a \in Accounts'
          PROVE  \/ start'[a] >= Amount
                 \/ a \in underfunded'
                 \/ \E i \in DOMAIN txs' : BatchOf(i)' /\ a \in txs'[i].to
      <4>1. \/ start[a] >= Amount \/ a \in underfunded
            \/ \E i \in 1 .. n : BatchOf(i) /\ a \in txs[i].to
        BY <1>1, <1>3, <2>0, <2>3, <2>4, <3>1, <3>3 DEF Coverage, Paying
      <4>. QED BY <2>0, <2>3, <2>4, <2>5, <3>2, <4>1
    <3>. QED BY <1>2, <3>1, <3>3 DEF Coverage, Unpaid, Paying
  <2>. QED BY <1>5, <2>7, <2>8, <2>9 DEF Sends
<1>6. CASE Mine
  <2>1. PICK i \in DOMAIN txs, status \in {"ok", "reverted"} : Settles(i, status)
    BY <1>1, <1>6, MineSettles DEF Stream
  <2>2. /\ DOMAIN txs' = DOMAIN txs /\ UNCHANGED <<runNo, start, pc, underfunded, gens>>
        /\ \A j \in DOMAIN txs : /\ txs'[j].run = txs[j].run /\ txs'[j].what = txs[j].what
                                 /\ txs'[j].to = txs[j].to
    BY <2>1 DEF Settles
  <2>3. \A j : BatchOf(j)' <=> BatchOf(j)
    BY <2>2 DEF BatchOf, OfThisRun
  <2>. QED BY <1>1, <1>2, <1>3, <2>2, <2>3 DEF Coverage
<1>7. CASE Restart
  <2>1. txs' = txs /\ runNo' = runNo + 1 /\ runNo \in Nat /\ underfunded' = {} /\ pc' = "load"
    BY <1>1, <1>7 DEF Restart, GeneratorOK
  <2>2. \A i : ~BatchOf(i)'
    <3>1. \A i \in DOMAIN txs : txs[i].run \in Nat /\ txs[i].run <= runNo
      BY <1>1 DEF Stream, Sequence
    <3>. QED BY <2>1, <3>1 DEF BatchOf, OfThisRun
  <2>. QED BY <2>1, <2>2 DEF Coverage, Paying
<1>. QED BY <1>2, <1>4, <1>5, <1>6, <1>7

-----------------------------------------------------------------------------
(* The generator.                                                           *)

\* The scenario whose turn it is is one of the round-robin's.
LEMMA TurnFacts ==
  ASSUME GeneratorOK, gens # <<>>
  PROVE  Turn \in DOMAIN ScenarioList /\ Turn \in Range(gens)
<1>1. /\ gens \in Seq(DOMAIN ScenarioList) /\ counter \in Nat
      /\ Len(gens) \in Nat \ {0} /\ DOMAIN gens = 1 .. Len(gens)
  BY EmptySeq, LenProperties, WorkloadAssumption DEF GeneratorOK
<1>2. PICK n \in Nat \ {0} : n = Len(gens)
  BY <1>1
<1>3. counter % n \in 0 .. n - 1
  BY <1>1, <1>2
<1>4. (counter % n) + 1 \in 1 .. n
  BY <1>2, <1>3
<1>5. PICK k \in DOMAIN gens : Turn = gens[k]
  BY <1>1, <1>2, <1>4 DEF Turn
<1>. QED BY <1>1, <1>2, <1>5, ElementOfSeq DEF Range

\* One offer: the generator's state stays typed, and the sender is an account of
\* a pool the run draws from, unless a pool mints.
LEMMA OfferFacts ==
  ASSUME GeneratorOK, gens # <<>>, CreateScenarios = "ok", counter < MaxOffers, Offer
  PROVE  /\ gens' = gens /\ counter' = counter + 1
         /\ idx' \in [Pools -> Nat]
         /\ ids' \in [DOMAIN ScenarioList -> 0 .. MaxOffers]
         /\ \A s \in DOMAIN ids' : ids'[s] <= counter + 1
         /\ Cardinality(last') <= 1
         /\ turns' \in Seq(DOMAIN ScenarioList)
         /\ Accepted /\ Funds(profile) => \A offer \in last' : offer.from \in Accounts
<1>1. PICK s \in DOMAIN ScenarioList : s = Turn /\ s \in Range(gens)
  BY TurnFacts
<1>2. PICK p : p = PoolOf(s)
  OBVIOUS
<1>3. /\ p \in Pools /\ PoolConfig(p) # {} /\ Size(p) \in Nat
      /\ Accepted /\ Funds(profile) => ~Mints(p)
  BY <1>2, PoolFacts DEF GeneratorOK
<1>4. PICK from \in NextAccount(p, idx[p]) : \E to \in NextAccount(p, from[2]) :
        /\ idx' = [idx EXCEPT ![p] = to[2]]
        /\ ids' = [ids EXCEPT ![s] = NextId(s)]
        /\ \E tx \in CreateTransaction(ScenarioList[s], from[1], to[1], ids'[s]) :
             last' = {[from |-> from[1], receiver |-> to[1], tx |-> tx]}
        /\ counter' = counter + 1
        /\ turns' = Append(turns, s)
        /\ gens' = gens
  BY <1>1, <1>2 DEF Offer
<1>12. PICK to \in NextAccount(p, from[2]) :
        /\ idx' = [idx EXCEPT ![p] = to[2]]
        /\ ids' = [ids EXCEPT ![s] = NextId(s)]
        /\ \E tx \in CreateTransaction(ScenarioList[s], from[1], to[1], ids'[s]) :
             last' = {[from |-> from[1], receiver |-> to[1], tx |-> tx]}
        /\ counter' = counter + 1
        /\ turns' = Append(turns, s)
        /\ gens' = gens
  BY <1>4
<1>5. PICK tx : last' = {[from |-> from[1], receiver |-> to[1], tx |-> tx]}
  BY <1>12
<1>6. from[2] \in Nat /\ to[2] \in Nat /\ (~Mints(p) => from[1] \in PoolAccounts(p))
  <2>1. idx[p] \in Nat
    BY <1>3 DEF GeneratorOK
  <2>2. from[2] \in Nat /\ (~Mints(p) => from[1] \in PoolAccounts(p))
    BY <1>3, <2>1, NextAccountFacts
  <2>3. to[2] \in Nat
    BY <1>3, <2>2, NextAccountFacts
  <2>. QED BY <2>2, <2>3
<1>7. idx' \in [Pools -> Nat]
  BY <1>12, <1>6 DEF GeneratorOK
<1>8. /\ ids' \in [DOMAIN ScenarioList -> 0 .. MaxOffers]
      /\ \A r \in DOMAIN ids' : ids'[r] <= counter + 1
  <2>1. /\ ids \in [DOMAIN ScenarioList -> 0 .. MaxOffers] /\ \A r \in DOMAIN ids : ids[r] <= counter
        /\ counter \in Nat /\ MaxOffers \in Nat
    BY WorkloadAssumption DEF GeneratorOK
  <2>2. NextId(s) \in {ids[s], ids[s] + 1}
    BY DEF NextId
  <2>3. NextId(s) \in 0 .. MaxOffers /\ NextId(s) <= counter + 1
    BY <2>1, <2>2
  <2>. QED BY <1>12, <2>1, <2>3
<1>9. Cardinality(last') <= 1
  <2>1. PICK x : last' = {x}
    BY <1>5
  <2>2. Cardinality({x}) = 1
    BY FS_Singleton, Zenon
  <2>. QED BY <2>1, <2>2
<1>10. turns' \in Seq(DOMAIN ScenarioList)
  BY <1>12, <1>1, AppendProperties DEF GeneratorOK
<1>11. ASSUME Accepted, Funds(profile) PROVE \A offer \in last' : offer.from \in Accounts
  <2>1. from[1] \in Accounts
    BY <1>1, <1>2, <1>3, <1>6, <1>11 DEF Accounts
  <2>. QED BY <1>5, <2>1
<1>. QED BY <1>12, <1>7, <1>8, <1>9, <1>10, <1>11

\* The generator's state changes where it is built, with an offer, and in a restart.
LEMMA WorkMoves ==
  ASSUME [Next]_vars
  PROVE  \/ UNCHANGED workVars
         \/ /\ pc = "build" /\ gens' \in Shuffles(Slots) /\ Slots # {}
            /\ UNCHANGED <<counter, idx, ids, last, turns>>
         \/ pc = "ready" /\ pc' = pc /\ counter < MaxOffers /\ Offer
         \/ Restart
<1>1. CASE UNCHANGED vars \/ Generate \/ TickerPanics \/ Mine \/ CtxEnds \/ Restart
  BY <1>1 DEF vars, Generate, TickerPanics, Mine, CtxEnds
<1>2. CASE Build
  BY <1>2 DEF Build, workVars
<1>3. CASE DeployContract \/ DeployDisperse \/ DisperseEther
  BY <1>3 DEF DeployContract, DeployDisperse, DisperseEther
<1>4. CASE LoadProfile \/ Deployer \/ Create \/ DeployedAll \/ OpenWriter \/ OpenSender
              \/ Attach \/ DeployPlain \/ DeployMined
  BY <1>4 DEF LoadProfile, Deployer, Create, DeployedAll, OpenWriter, OpenSender, Attach, DeployPlain, DeployMined
<1>5. CASE FilterUnderfunded \/ CheckCode \/ Funded \/ GiveUp \/ FailedDeployment \/ DisperseMined \/ BatchMined
  BY <1>5 DEF FilterUnderfunded, CheckCode, Funded, GiveUp, FailedDeployment, DisperseMined, BatchMined
<1>. QED BY <1>1, <1>2, <1>3, <1>4, <1>5 DEF Next, Program

\* The program counter stays within its points, and the runs within their bound.
LEMMA PcStays ==
  ASSUME GeneratorOK, [Next]_vars
  PROVE  /\ pc' \in Pcs /\ ctxDone' \in BOOLEAN /\ runNo' \in 1 .. MaxRuns
         /\ UNCHANGED start \/ Restart
<1>. USE DEF GeneratorOK, Pcs, Waits, Over, runVars, Fail
<1>1. CASE UNCHANGED vars \/ Generate \/ TickerPanics \/ Mine \/ CtxEnds
  BY <1>1 DEF vars, Generate, TickerPanics, Mine, CtxEnds
<1>2. CASE Restart
  <2>1. runNo < MaxRuns /\ runNo' = runNo + 1 /\ pc' = "load" /\ ctxDone' = FALSE
    BY <1>2 DEF Restart
  <2>2. runNo \in 1 .. MaxRuns /\ MaxRuns \in Nat
    BY StartupAssumption
  <2>3. runNo' \in 1 .. MaxRuns
    <3>. HIDE DEF GeneratorOK
    <3>. QED BY <2>1, <2>2
  <2>. QED BY <1>2, <2>1, <2>3
<1>3. CASE DeployContract \/ DeployDisperse \/ DisperseEther
  BY <1>3 DEF DeployContract, DeployDisperse, DisperseEther, Send
<1>4. CASE Create
  BY <1>4, CreateOutcome DEF Create
<1>5. CASE LoadProfile \/ Deployer \/ Build \/ DeployedAll \/ OpenWriter \/ OpenSender
              \/ Attach \/ DeployPlain \/ DeployMined
  BY <1>5 DEF LoadProfile, Deployer, Build, DeployedAll, OpenWriter, OpenSender, Attach, DeployPlain, DeployMined
<1>6. CASE FilterUnderfunded \/ CheckCode \/ Funded \/ GiveUp \/ FailedDeployment \/ DisperseMined \/ BatchMined
  BY <1>6 DEF FilterUnderfunded, CheckCode, Funded, GiveUp, FailedDeployment, DisperseMined, BatchMined, Expire
<1>. QED BY <1>1, <1>2, <1>3, <1>4, <1>5, <1>6 DEF Next, Program

\* The generator's state stays within its types.
LEMMA GeneratorStep ==
  ASSUME StartupInv, [Next]_vars
  PROVE  GeneratorOK'
<1>1. GeneratorOK /\ Known /\ profile \in Profiles
  BY DEF StartupInv, GeneratorOK
<1>2. profile' = profile
  BY <1>1, StepKinds
<1>3. ScenarioList' = ScenarioList /\ Pools' = Pools /\ AllAccounts' = AllAccounts
  BY <1>2, ProfileStays
<1>4. /\ pc' \in Pcs /\ ctxDone' \in BOOLEAN /\ runNo' \in 1 .. MaxRuns
      /\ UNCHANGED start \/ Restart
  BY <1>1, PcStays
<1>5. start' \in [AllAccounts -> Balances]
  BY <1>1, <1>4 DEF GeneratorOK, Restart
<1>6. CASE UNCHANGED workVars
  BY <1>1, <1>2, <1>3, <1>4, <1>5, <1>6 DEF GeneratorOK, workVars
<1>7. CASE gens' \in Shuffles(Slots) /\ Slots # {} /\ UNCHANGED <<counter, idx, ids, last, turns>>
  <2>1. gens' \in Seq(DOMAIN ScenarioList)
    BY <1>1, <1>7, ShuffleFacts
  <2>. QED BY <1>1, <1>2, <1>3, <1>4, <1>5, <1>7, <2>1 DEF GeneratorOK
<1>8. CASE pc = "ready" /\ counter < MaxOffers /\ Offer
  <2>1. gens # <<>> /\ CreateScenarios = "ok"
    BY <1>1, <1>8 DEF Known, Ended, Paying
  <2>2. /\ gens' = gens /\ counter' = counter + 1
        /\ idx' \in [Pools -> Nat]
        /\ ids' \in [DOMAIN ScenarioList -> 0 .. MaxOffers]
        /\ \A s \in DOMAIN ids' : ids'[s] <= counter + 1
        /\ Cardinality(last') <= 1
        /\ turns' \in Seq(DOMAIN ScenarioList)
    BY <1>1, <1>8, <2>1, OfferFacts
  <2>3. counter + 1 \in 0 .. MaxOffers
    BY <1>1, <1>8, WorkloadAssumption DEF GeneratorOK
  <2>. QED BY <1>1, <1>2, <1>3, <1>4, <1>5, <2>2, <2>3 DEF GeneratorOK
<1>9. CASE Restart
  <2>1. /\ gens' = <<>> /\ counter' = 0 /\ last' = {} /\ turns' = <<>>
        /\ idx' = [p \in Pools |-> 0] /\ ids' = [s \in DOMAIN ScenarioList |-> 0]
    BY <1>9 DEF Restart
  <2>2. MaxOffers \in Nat /\ Cardinality(last') = 0
    BY <2>1, WorkloadAssumption, FS_EmptySet
  <2>3. gens' \in Seq(DOMAIN ScenarioList) /\ turns' \in Seq(DOMAIN ScenarioList)
    BY <2>1
  <2>. QED BY <1>1, <1>2, <1>3, <1>4, <1>5, <2>1, <2>2, <2>3 DEF GeneratorOK
<1>. QED BY <1>6, <1>7, <1>8, <1>9, WorkMoves

-----------------------------------------------------------------------------
(* What is known at each point.                                             *)

\* The generator stays unbuilt while nothing builds it.
LEMMA NoGeneratorStays ==
  ASSUME profile' = profile, NoGenerator, UNCHANGED workVars
  PROVE  NoGenerator'
<1>1. ScenarioList' = ScenarioList /\ Pools' = Pools
  BY ProfileStays
<1>. QED BY <1>1 DEF NoGenerator, workVars

\* Each point is reached only from one at which what it requires was tested.
LEMMA KnownStep ==
  ASSUME StartupInv, [Next]_vars
  PROVE  Known'
<1>1. GeneratorOK /\ Known /\ profile \in Profiles
  BY DEF StartupInv, GeneratorOK
<1>2. profile' = profile
  BY <1>1, StepKinds
<1>3. ScenarioList' = ScenarioList /\ Pools' = Pools /\ Accepted' = Accepted /\ CreateScenarios' = CreateScenarios
  BY <1>2, ProfileStays
<1>4. /\ Len(ScenarioList) \in Nat /\ DOMAIN ScenarioList = 1 .. Len(ScenarioList)
  BY <1>1, ListFacts
<1>5. UNCHANGED workVars /\ NoGenerator => NoGenerator'
  BY <1>2, NoGeneratorStays
<1>6. UNCHANGED workVars => gens' = gens
  BY DEF workVars
<1>. USE DEF Known, Ended, Paying
<1>7. CASE UNCHANGED vars \/ Generate \/ TickerPanics \/ Mine \/ CtxEnds
  <2>1. pc' \in Ended \/ (pc' = pc /\ next' = next)
    BY <1>7 DEF vars, Generate, TickerPanics, Mine, CtxEnds
  <2>2. (UNCHANGED workVars \/ pc = "ready") /\ gens' = gens
    BY <1>7 DEF vars, Generate, TickerPanics, Mine, CtxEnds, workVars, Offer
  <2>. QED BY <1>1, <1>2, <1>3, <1>5, <2>1, <2>2
<1>8. CASE Restart
  <2>1. NoGenerator'
    BY <1>3, <1>8 DEF Restart, NoGenerator
  <2>2. pc' = "load" /\ next' = 1
    BY <1>8 DEF Restart
  <2>. QED BY <2>1, <2>2
<1>9. CASE LoadProfile
  BY <1>1, <1>2, <1>3, <1>5, <1>6, <1>9 DEF LoadProfile
<1>10. CASE Deployer
  BY <1>1, <1>2, <1>3, <1>5, <1>6, <1>10 DEF Deployer
<1>11. CASE Create
  <2>1. /\ pc = "create" /\ UNCHANGED <<next, workVars>>
        /\ \/ CreateScenarios = "ok" /\ pc' = "attach" /\ MockDeploy(profile)
           \/ CreateScenarios = "ok" /\ pc' = "deploy" /\ ~MockDeploy(profile)
           \/ pc' \in Ended
    BY <1>1, <1>11, CreateOutcome DEF Create
  <2>. QED BY <1>1, <1>2, <1>3, <1>5, <1>6, <2>1
<1>12. CASE Attach \/ DeployPlain \/ DeployMined
  <2>1. /\ pc \in {"attach", "deploy", "deployWait"}
        /\ pc' \in Ended \/ (pc' = pc /\ pc # "deployWait") \/ (pc = "deployWait" /\ pc' = "deploy")
        /\ UNCHANGED workVars
    BY <1>12 DEF Attach, DeployPlain, DeployMined
  <2>. QED BY <1>1, <1>2, <1>3, <1>5, <1>6, <2>1
<1>13. CASE DeployContract
  <2>1. /\ pc = "deploy" /\ next \in DOMAIN ScenarioList /\ pc' \in Ended \cup {"deployWait"}
        /\ UNCHANGED <<next, workVars>>
    BY <1>13 DEF DeployContract, Send, Fail
  <2>. QED BY <1>1, <1>2, <1>3, <1>5, <1>6, <2>1
<1>14. CASE DeployedAll
  BY <1>1, <1>2, <1>3, <1>5, <1>6, <1>14 DEF DeployedAll
<1>15. CASE Build
  <2>1. /\ pc = "build" /\ UNCHANGED next
        /\ \/ pc' = "failed"
           \/ pc' = "sender" /\ Slots # {} /\ gens' \in Shuffles(Slots)
    BY <1>15 DEF Build
  <2>2. CASE pc' = "failed"
    BY <2>2
  <2>3. CASE pc' = "sender" /\ Slots # {} /\ gens' \in Shuffles(Slots)
    <3>1. gens' # <<>>
      BY <1>1, <2>3, ShuffleFacts
    <3>. QED BY <1>1, <1>2, <1>3, <2>1, <2>3, <3>1
  <2>. QED BY <2>1, <2>2, <2>3
<1>16. CASE OpenWriter \/ OpenSender
  <2>1. /\ pc = "sender" /\ pc' \in Ended \cup {"ready", "filter"} /\ (pc' = "filter" => Funds(profile))
        /\ UNCHANGED <<next, workVars>>
    BY <1>16 DEF OpenWriter, OpenSender, Fail
  <2>. QED BY <1>1, <1>2, <1>3, <1>6, <2>1
<1>17. CASE \/ FilterUnderfunded \/ DeployDisperse \/ DisperseMined \/ CheckCode
            \/ DisperseEther \/ BatchMined \/ Funded
  <2>1. /\ pc \in {"filter"} \cup Paying /\ pc' \in Ended \cup Paying \cup {"ready"}
        /\ UNCHANGED <<next, workVars>>
    BY <1>17 DEF FilterUnderfunded, DeployDisperse, DisperseMined, CheckCode, DisperseEther, BatchMined,
                 Funded, Send, Fail
  <2>. QED BY <1>1, <1>2, <1>3, <1>6, <2>1
<1>18. CASE GiveUp \/ FailedDeployment
  <2>1. pc' \in Ended
    BY <1>18 DEF GiveUp, FailedDeployment, Expire
  <2>. QED BY <2>1
<1>. QED BY <1>7, <1>8, <1>9, <1>10, <1>11, <1>12, <1>13, <1>14, <1>15, <1>16, <1>17, <1>18 DEF Next, Program

-----------------------------------------------------------------------------
(* How a startup ends, and who sends.                                       *)

\* A run stops only where an error carries a sentinel, that is when the context
\* has ended, and it stays stopped.
LEMMA StopStep ==
  ASSUME profile \in Profiles, StopWasRequested, [Next]_vars
  PROVE  StopWasRequested'
<1>. USE DEF StopWasRequested, Fail
<1>1. CASE UNCHANGED vars \/ Generate \/ TickerPanics \/ Mine \/ CtxEnds \/ Restart
  BY <1>1 DEF vars, Generate, TickerPanics, Mine, CtxEnds, Restart
<1>2. CASE DeployContract \/ DeployDisperse \/ DisperseEther
  <2>1. ctxDone' = ctxDone /\ (pc' = "stopped" => ctxDone)
    BY <1>2 DEF DeployContract, DeployDisperse, DisperseEther, Send
  <2>. QED BY <2>1
<1>3. CASE Create
  BY <1>3, CreateOutcome DEF Create
<1>4. CASE LoadProfile \/ Deployer \/ Build \/ DeployedAll \/ OpenWriter \/ OpenSender
              \/ Attach \/ DeployPlain \/ DeployMined
  BY <1>4 DEF LoadProfile, Deployer, Build, DeployedAll, OpenWriter, OpenSender, Attach, DeployPlain, DeployMined
<1>5. CASE FilterUnderfunded \/ CheckCode \/ Funded \/ GiveUp \/ FailedDeployment \/ DisperseMined \/ BatchMined
  BY <1>5 DEF FilterUnderfunded, CheckCode, Funded, GiveUp, FailedDeployment, DisperseMined, BatchMined, Expire
<1>. QED BY <1>1, <1>2, <1>3, <1>4, <1>5 DEF Next, Program

\* The known reasons to panic.
PanicReason ==
  \/ \E s \in DOMAIN ScenarioList : ScenarioList[s].kind \notin Kinds
  \/ MockDeploy(profile) /\ Endpoints(profile) > 0 /\ deployed # DOMAIN ScenarioList
  \/ BadTicker(profile)
  \/ gens # <<>> /\ (Size(PoolOf(Turn)) = 0 \/ PickerPanics(ScenarioList[Turn]))

\* A reason stays one while the generator and the deployments are as they were.
LEMMA ReasonStays ==
  ASSUME UNCHANGED <<profile, deployed, gens, counter>>, PanicReason
  PROVE  PanicReason'
<1>1. ScenarioList' = ScenarioList /\ Turn' = Turn
  BY ProfileStays DEF Turn
<1>2. PICK s : s = Turn /\ s = Turn'
  BY <1>1
<1>3. PoolOf(s)' = PoolOf(s)
  BY <1>1 DEF PoolOf
<1>4. PICK p : p = PoolOf(s) /\ p = PoolOf(s)'
  BY <1>3
<1>5. Size(p)' = Size(p)
  <2>1. PoolConfig(p)' = PoolConfig(p)
    BY <1>1 DEF PoolConfig
  <2>. QED BY <2>1 DEF Size
<1>6. (Size(PoolOf(Turn)) = 0)' <=> Size(PoolOf(Turn)) = 0
  BY <1>2, <1>4, <1>5
<1>. QED BY <1>1, <1>6 DEF PanicReason

\* Of an accepted profile the startup panics for a known reason.
LEMMA PanicStep ==
  ASSUME StartupInv, [Next]_vars
  PROVE  PanicsAreKnown'
<1>0. PanicsAreKnown <=> (pc = "panicked" => PanicReason)
  BY DEF PanicsAreKnown, PanicReason
<1>. SUFFICES ASSUME pc' = "panicked" PROVE PanicReason'
  BY DEF PanicsAreKnown, PanicReason
<1>1. GeneratorOK /\ Known /\ profile \in Profiles /\ DeployedSoFar /\ (pc = "panicked" => PanicReason)
  BY <1>0 DEF StartupInv, GeneratorOK, EndHasReason
<1>2. CASE UNCHANGED vars \/ Mine \/ CtxEnds
  <2>1. UNCHANGED <<pc, profile, deployed, gens, counter>>
    BY <1>2 DEF vars, Mine, CtxEnds, runVars, workVars
  <2>. QED BY <1>1, <2>1, ReasonStays
<1>3. CASE Generate
  <2>1. /\ pc = "ready" /\ TurnPanics
        /\ UNCHANGED <<profile, deployed, gens, counter>>
    BY <1>3 DEF Generate, runVars, workVars
  <2>2. gens # <<>>
    BY <1>1, <2>1 DEF Known
  <2>3. PanicReason
    BY <2>1, <2>2 DEF TurnPanics, PanicReason
  <2>. QED BY <2>1, <2>3, ReasonStays
<1>4. CASE TickerPanics
  <2>1. BadTicker(profile) /\ UNCHANGED <<profile, deployed, gens, counter>>
    BY <1>4 DEF TickerPanics, runVars, workVars
  <2>. QED BY <2>1, ReasonStays DEF PanicReason
<1>5. CASE Create
  <2>1. /\ pc = "create" /\ CreateScenarios = "panicked"
        /\ UNCHANGED <<profile, deployed, gens, counter>>
    BY <1>5 DEF Create, runVars, workVars
  <2>2. PanicReason
    BY <1>1, <2>1, CreatePanics DEF Known, Ended, PanicReason
  <2>. QED BY <2>1, <2>2, ReasonStays
<1>6. CASE Attach
  <2>1. /\ pc = "attach" /\ next \in DOMAIN ScenarioList /\ Endpoints(profile) > 0
        /\ UNCHANGED <<profile, deployed, gens, counter>>
    BY <1>6 DEF Attach, runVars, workVars
  <2>2. deployed # DOMAIN ScenarioList /\ MockDeploy(profile)
    <3>1. next \notin 1 .. next - 1
      BY <1>1, <2>1, ListFacts
    <3>. QED BY <1>1, <2>1, <3>1 DEF DeployedSoFar, Known
  <2>3. PanicReason
    BY <2>1, <2>2 DEF PanicReason
  <2>. QED BY <2>1, <2>3, ReasonStays
<1>7. ~Restart
  BY DEF Restart
<1>8. CASE Program
  <2>1. ~ \/ DeployContract \/ DeployDisperse \/ DisperseEther
    BY DEF DeployContract, DeployDisperse, DisperseEther, Send, Fail
  <2>2. ~ \/ LoadProfile \/ Deployer \/ Build \/ DeployedAll \/ OpenWriter \/ OpenSender
          \/ DeployPlain \/ DeployMined
    BY DEF LoadProfile, Deployer, Build, DeployedAll, OpenWriter, OpenSender, DeployPlain, DeployMined, Fail
  <2>3. ~ \/ FilterUnderfunded \/ CheckCode \/ Funded \/ GiveUp \/ FailedDeployment \/ DisperseMined \/ BatchMined
    BY DEF FilterUnderfunded, CheckCode, Funded, GiveUp, FailedDeployment, DisperseMined, BatchMined, Expire, Fail
  <2>. QED BY <1>5, <1>6, <1>8, <2>1, <2>2, <2>3 DEF Program
<1>. QED BY <1>2, <1>3, <1>4, <1>7, <1>8 DEF Next

\* In a funded run that is ready every account of the generator has the amount.
LEMMA ReadyIsFunded ==
  ASSUME StartupInv, pc = "ready", Funds(profile)
  PROVE  \A a \in Accounts : a \in AllAccounts /\ balance[a] >= Amount
<1>1. GeneratorOK /\ Stream /\ Ledger /\ Coverage /\ profile \in Profiles
  BY DEF StartupInv, GeneratorOK
<1>. SUFFICES ASSUME NEW a \in Accounts PROVE a \in AllAccounts /\ balance[a] >= Amount
  OBVIOUS
<1>2. a \in AllAccounts
  BY <1>1, AccountsInPools DEF GeneratorOK
<1>3. start[a] >= Amount \/ \E i \in DOMAIN txs : BatchOf(i) /\ a \in txs[i].to
  BY <1>1 DEF Coverage
<1>4. \A i \in DOMAIN txs : BatchOf(i) => txs[i].status = "ok"
  BY <1>1 DEF Stream, Awaiting, Settled, Waits, BatchOf, OfThisRun
<1>5. start[a] >= Amount \/ Paid(a)
  BY <1>3, <1>4 DEF Paid
<1>6. /\ balance[a] = start[a] + (IF Paid(a) THEN Amount ELSE 0)
      /\ start[a] \in Nat /\ Amount \in Nat
  BY <1>1, <1>2, StartupAssumption DEF Ledger
<1>. QED BY <1>2, <1>5, <1>6

\* In a funded run the sender of an offer has the amount, and nothing takes it.
LEMMA SendersStep ==
  ASSUME StartupInv, [Next]_vars
  PROVE  SendersArePaid'
<1>1. /\ GeneratorOK /\ Stream /\ Ledger /\ Known /\ SendersArePaid /\ profile \in Profiles
  BY DEF StartupInv, GeneratorOK
<1>2. profile' = profile /\ (Keeps \/ Sends \/ Mine \/ Restart)
  BY <1>1, StepKinds
<1>3. AllAccounts' = AllAccounts
  BY <1>2, ProfileStays
<1>4. CASE Restart
  BY <1>4 DEF Restart, SendersArePaid
<1>5. ASSUME ~Restart, NEW a \in AllAccounts, balance[a] >= Amount PROVE balance'[a] >= Amount
  <2>1. balance[a] \in Nat /\ Amount \in Nat
    BY <1>1, StartupAssumption DEF Ledger
  <2>2. CASE Keeps \/ Sends
    <3>1. balance' = balance
      BY <2>2 DEF Keeps, Sends, SentDeploy, SentDisperse, SentBatch, Sent
    <3>. QED BY <1>5, <3>1
  <2>3. CASE Mine
    <3>1. PICK i \in DOMAIN txs, status \in {"ok", "reverted"} : Settles(i, status)
      BY <1>1, <2>3, MineSettles DEF Stream
    <3>2. balance'[a] = balance[a] + Amount \/ balance'[a] = balance[a]
      BY <3>1 DEF Settles
    <3>. QED BY <1>5, <2>1, <3>2
  <2>. QED BY <1>2, <1>5, <2>2, <2>3
<1>6. CASE ~Restart /\ last' = last
  BY <1>1, <1>2, <1>3, <1>5, <1>6 DEF SendersArePaid
<1>7. CASE ~Restart /\ pc = "ready" /\ counter < MaxOffers /\ Offer
  <2>. SUFFICES ASSUME Funds(profile), NEW offer \in last'
                PROVE  offer.from \in AllAccounts' /\ balance'[offer.from] >= Amount
    BY <1>2 DEF SendersArePaid
  <2>1. gens # <<>> /\ CreateScenarios = "ok" /\ Accepted
    BY <1>1, <1>7 DEF Known, Ended, Paying
  <2>2. \A o \in last' : o.from \in Accounts
    BY <1>1, <1>7, <2>1, OfferFacts
  <2>3. offer.from \in Accounts
    BY <2>2
  <2>4. offer.from \in AllAccounts /\ balance[offer.from] >= Amount
    BY <1>7, <2>3, ReadyIsFunded
  <2>. QED BY <1>3, <1>5, <1>7, <2>4
<1>. QED BY <1>4, <1>6, <1>7, WorkMoves DEF workVars

-----------------------------------------------------------------------------
(* The theorems.                                                            *)

\* The initial states satisfy the invariant.
LEMMA InitStartup == Init => StartupInv
<1>. SUFFICES ASSUME Init PROVE StartupInv
  OBVIOUS
<1>1. /\ profile \in Profiles /\ runNo = 1 /\ pc = "load" /\ next = 1 /\ deployed = {}
      /\ underfunded = {} /\ txs = <<>> /\ balance \in [AllAccounts -> Balances] /\ start = balance
      /\ ctxDone = FALSE /\ NoGenerator
  BY DEF Init
<1>2. /\ Len(ScenarioList) \in Nat /\ DOMAIN ScenarioList = 1 .. Len(ScenarioList)
  BY <1>1, ListFacts
<1>3. GeneratorOK
  <2>1. /\ gens = <<>> /\ counter = 0 /\ last = {} /\ turns = <<>>
        /\ idx = [p \in Pools |-> 0] /\ ids = [s \in DOMAIN ScenarioList |-> 0]
    BY <1>1 DEF NoGenerator
  <2>2. MaxOffers \in Nat /\ Cardinality(last) = 0 /\ 1 \in 1 .. MaxRuns
    BY <2>1, WorkloadAssumption, StartupAssumption, FS_EmptySet
  <2>3. gens \in Seq(DOMAIN ScenarioList) /\ turns \in Seq(DOMAIN ScenarioList)
    BY <2>1
  <2>4. counter \in 0 .. MaxOffers /\ Cardinality(last) <= 1 /\ runNo \in 1 .. MaxRuns
    BY <1>1, <2>1, <2>2
  <2>5. idx \in [Pools -> Nat]
    BY <2>1
  <2>6. ids \in [DOMAIN ScenarioList -> 0 .. MaxOffers] /\ \A s \in DOMAIN ids : ids[s] <= counter
    BY <2>1, <2>2
  <2>7. pc \in Pcs /\ ctxDone \in BOOLEAN
    BY <1>1 DEF Pcs
  <2>. QED BY <1>1, <2>3, <2>4, <2>5, <2>6, <2>7 DEF GeneratorOK
<1>4. txs \in Seq(Range(txs)) /\ DOMAIN txs = {} /\ Len(txs) = 0
  BY <1>1
<1>5. Stream
  BY <1>1, <1>4 DEF Stream, Sequence, NoncesDistinct, EachAwaited, Awaiting, Waits
<1>6. DeployedSoFar
  <2>1. next \in 1 .. Len(ScenarioList) + 1 /\ 1 .. next - 1 = {}
    BY <1>1, <1>2
  <2>. QED BY <1>1, <2>1 DEF DeployedSoFar
<1>7. Ledger
  <2>1. \A a : ~Paid(a)
    BY <1>4 DEF Paid
  <2>2. start \in [AllAccounts -> Nat]
    BY <1>1, StartupAssumption
  <2>. QED BY <1>1, <1>4, <2>1, <2>2 DEF Ledger
<1>8. Coverage /\ Known
  BY <1>1, <1>4 DEF Coverage, Known, Unpaid, Paying, Ended
<1>9. EndHasReason /\ SendersArePaid
  BY <1>1 DEF EndHasReason, StopWasRequested, PanicsAreKnown, SendersArePaid, NoGenerator
<1>. QED BY <1>3, <1>5, <1>6, <1>7, <1>8, <1>9 DEF StartupInv

\* Every step keeps the invariant.
LEMMA NextStartup == StartupInv /\ [Next]_vars => StartupInv'
<1>. SUFFICES ASSUME StartupInv, [Next]_vars PROVE StartupInv'
  OBVIOUS
<1>1. GeneratorOK' /\ Stream' /\ DeployedSoFar' /\ Ledger' /\ Coverage' /\ Known'
  BY GeneratorStep, StreamStep, DeployedStep, LedgerStep, CoverageStep, KnownStep
<1>2. EndHasReason'
  BY StopStep, PanicStep DEF StartupInv, EndHasReason, GeneratorOK
<1>. QED BY <1>1, <1>2, SendersStep DEF StartupInv

\* The invariant holds throughout.
THEOREM StartupInvariant == Spec => []StartupInv
BY InitStartup, NextStartup, PTL DEF Spec

\* "One nonce stream": no two transactions of a key carry the same nonce, over
\* all phases, failures and restarts, and each is sent after the one before it
\* has succeeded.
THEOREM StreamIsOne == Spec => []OneNonceStream
<1>1. StartupInv => OneNonceStream
  <2>. SUFFICES ASSUME StartupInv PROVE OneNonceStream
    OBVIOUS
  <2>1. GeneratorOK /\ Stream /\ DeployedSoFar /\ Ledger /\ Coverage
    BY DEF StartupInv
  <2>2. /\ Len(ScenarioList) \in Nat /\ DOMAIN ScenarioList = 1 .. Len(ScenarioList)
    BY <2>1, ListFacts DEF GeneratorOK
  <2>3. next \in 1 .. Len(ScenarioList) + 1 /\ deployed \subseteq DOMAIN ScenarioList
    BY <2>1, <2>2 DEF DeployedSoFar
  <2>4. WorkTypeOK
    BY <2>1 DEF GeneratorOK, WorkTypeOK
  <2>5. underfunded \subseteq AllAccounts /\ balance \in [AllAccounts -> Nat]
    BY <2>1 DEF Ledger
  <2>6. \A i \in DOMAIN txs : txs[i].status \in {"pending", "ok", "reverted"}
    BY <2>1 DEF Stream, Sequence
  <2>7. TypeOK
    BY <2>1, <2>3, <2>4, <2>5, <2>6 DEF TypeOK, GeneratorOK
  <2>. QED BY <2>1, <2>7 DEF OneNonceStream, Stream
<1>. QED BY <1>1, StartupInvariant, PTL

\* A run that offers load has deployed every scenario, has each contract on the
\* chain and, when it is funded, the amount on every account it draws from.
THEOREM ReadyIsReady == Spec => []ReadyMeansReady
<1>1. StartupInv => ReadyMeansReady
  <2>. SUFFICES ASSUME StartupInv, pc = "ready" PROVE ReadyMeansReady
    BY DEF ReadyMeansReady
  <2>1. GeneratorOK /\ DeployedSoFar /\ Known
    BY DEF StartupInv
  <2>2. /\ Len(ScenarioList) \in Nat /\ DOMAIN ScenarioList = 1 .. Len(ScenarioList)
    BY <2>1, ListFacts DEF GeneratorOK
  <2>3. next = Len(ScenarioList) + 1
    BY <2>1 DEF Known, Ended
  <2>4. deployed = DOMAIN ScenarioList
    BY <2>1, <2>2, <2>3 DEF DeployedSoFar
  <2>5. ~MockDeploy(profile) => \A s \in DOMAIN ScenarioList : IsContract(s) => OnChain(s)
    BY <2>1, <2>4 DEF DeployedSoFar
  <2>6. Funds(profile) => \A a \in Accounts : balance[a] >= Amount
    BY ReadyIsFunded
  <2>. QED BY <2>4, <2>5, <2>6 DEF ReadyMeansReady, OnChain
<1>. QED BY <1>1, StartupInvariant, PTL

\* Funding pays an account at most once, none that had the amount, and only in
\* a run that is funded; --dry-run sends nothing.
THEOREM FundingPaysOnce == Spec => []PaidOnce
<1>1. StartupInv => PaidOnce
  <2>. SUFFICES ASSUME StartupInv PROVE PaidOnce
    OBVIOUS
  <2>1. GeneratorOK /\ Stream /\ Ledger /\ profile \in Profiles
    BY DEF StartupInv, GeneratorOK
  <2>2. ASSUME NEW a \in AllAccounts, balance[a] # start[a]
        PROVE  Funds(profile) /\ start[a] < Amount /\ balance[a] = start[a] + Amount
    <3>1. /\ balance[a] = start[a] + (IF Paid(a) THEN Amount ELSE 0) /\ start[a] \in Nat
      BY <2>1 DEF Ledger
    <3>2. Paid(a)
      BY <2>2, <3>1
    <3>3. PICK i \in DOMAIN txs : BatchOf(i) /\ a \in txs[i].to
      BY <3>2 DEF Paid
    <3>4. start[a] < Amount
      BY <2>1, <3>3 DEF Ledger
    <3>5. Funds(profile)
      BY <2>1, <3>3 DEF Stream, Sequence, BatchOf
    <3>. QED BY <3>1, <3>2, <3>4, <3>5
  <2>3. ASSUME "dryRun" \in DOMAIN profile.flags, profile.flags["dryRun"] = 1
        PROVE  txs = <<>>
    <3>1. "dryRun" \in DOMAIN DefaultSettings
      BY DEF DefaultSettings
    <3>2. SettingsOf(profile)["dryRun"] = 1
      BY <2>3, <3>1 DEF SettingsOf, ResolveSettings
    <3>3. MockDeploy(profile) /\ ~Funds(profile)
      BY <3>2 DEF MockDeploy, DryRun, Funds
    <3>4. DOMAIN txs = {}
      BY <2>1, <3>3 DEF Stream, Sequence
    <3>5. txs \in Seq(Range(txs))
      BY <2>1 DEF Stream, Sequence
    <3>6. Len(txs) \in Nat /\ 1 .. Len(txs) = {}
      BY ONLY <3>4, <3>5, LenProperties
    <3>7. Len(txs) = 0
      BY ONLY <3>6
    <3>8. txs = <<>> \/ Len(txs) \in Nat \ {0}
      BY ONLY <3>5, EmptySeq
    <3>. QED BY <3>7, <3>8
  <2>. QED BY <2>2, <2>3 DEF PaidOnce
<1>. QED BY <1>1, StartupInvariant, PTL

\* A startup that stopped was asked to, and one that panicked is a known case.
THEOREM EndsHaveReasons == Spec => []EndHasReason
<1>1. StartupInv => EndHasReason
  BY DEF StartupInv
<1>. QED BY <1>1, StartupInvariant, PTL

\* In a run that is funded only accounts that hold the amount send.
THEOREM PaidSend == Spec => []SendersArePaid
<1>1. StartupInv => SendersArePaid
  BY DEF StartupInv
<1>. QED BY <1>1, StartupInvariant, PTL

-----------------------------------------------------------------------------
(* The sums of weights.                                                     *)

\* The element that is taken first.
First(s) == CHOOSE x \in s : TRUE

\* h holds the sums of f over the sets of D, which has the rest of each of them.
Sums(h, f, D) == h = [s \in D |-> IF s = {} THEN 0 ELSE f[First(s)] + h[s \ {First(s)}]]

\* h holds the sums of f over the subsets of T.
SumsUp(h, f, T) ==
  \A s \in SUBSET T : h[s] = IF s = {} THEN 0 ELSE f[First(s)] + h[s \ {First(s)}]

\* The first element of a set is one of it.
LEMMA FirstIsIn == ASSUME NEW s, s # {} PROVE First(s) \in s
BY DEF First

\* The sums over the subsets of a finite set exist.
LEMMA SumsExist ==
  ASSUME NEW T, IsFiniteSet(T), NEW f
  PROVE  \E h : Sums(h, f, SUBSET T)
<1> DEFINE D(n) == {s \in SUBSET T : Cardinality(s) <= n}
           Bad == {n \in Nat : ~ \E h : Sums(h, f, D(n))}
<1>1. \A s \in SUBSET T : IsFiniteSet(s) /\ Cardinality(s) \in Nat /\ Cardinality(s) <= Cardinality(T)
  BY FS_Subset, FS_CardinalityType
<1>2. ASSUME NEW m \in Nat, m \in Bad, \A x \in Bad : m <= x PROVE FALSE
  <2>1. CASE m = 0
    <3>1. D(0) = {{}}
      <4>1. \A s \in SUBSET T : Cardinality(s) <= 0 <=> s = {}
        BY <1>1, FS_EmptySet
      <4>. QED BY <4>1
    <3>2. Sums([s \in D(0) |-> 0], f, D(0))
      BY <3>1 DEF Sums
    <3>. QED BY <3>2, <2>1, <1>2
  <2>2. CASE m # 0
    <3>1. PICK n \in Nat : m = n + 1
      BY <2>2
    <3>2. n \notin Bad
      <4>1. ~(m <= n)
        BY <3>1
      <4>. HIDE DEF Bad
      <4>. QED BY <4>1, <1>2
    <3>3. PICK h : Sums(h, f, D(n))
      BY <3>1, <3>2
    <3> DEFINE g == [s \in D(m) |-> IF s = {} THEN 0 ELSE f[First(s)] + h[s \ {First(s)}]]
    <3>4. \A s \in D(n) : s \in D(m) /\ g[s] = h[s]
      <4>1. \A s \in D(n) : s \in D(m)
        BY <3>1, <1>1
      <4>2. \A s \in D(n) : h[s] = IF s = {} THEN 0 ELSE f[First(s)] + h[s \ {First(s)}]
        BY <3>3, Zenon DEF Sums
      <4>. QED BY <4>1, <4>2
    <3>5. \A s \in D(m) : s # {} => s \ {First(s)} \in D(n)
      <4>1. ASSUME NEW s \in SUBSET T, Cardinality(s) <= m, s # {}
            PROVE  s \ {First(s)} \in SUBSET T /\ Cardinality(s \ {First(s)}) <= n
        <5>1. Cardinality(s \ {First(s)}) = Cardinality(s) - 1
          BY <4>1, <1>1, FirstIsIn, FS_RemoveElement
        <5>. QED BY <5>1, <4>1, <3>1, <1>1
      <4>. QED BY <4>1
    <3>. HIDE DEF D
    <3>6. \A s \in D(m) : g[s] = IF s = {} THEN 0 ELSE f[First(s)] + h[s \ {First(s)}]
      OBVIOUS
    <3>7. \A s \in D(m) : s # {} => g[s \ {First(s)}] = h[s \ {First(s)}]
      BY <3>4, <3>5
    <3>8. g = [s \in D(m) |-> IF s = {} THEN 0 ELSE f[First(s)] + g[s \ {First(s)}]]
      <4>1. \A s \in D(m) : (IF s = {} THEN 0 ELSE f[First(s)] + h[s \ {First(s)}])
                              = (IF s = {} THEN 0 ELSE f[First(s)] + g[s \ {First(s)}])
        BY <3>7
      <4>. QED BY <4>1
    <3>. HIDE DEF g
    <3>9. Sums(g, f, D(m))
      BY <3>8 DEF Sums
    <3>. QED BY <3>9, <1>2
  <2>. QED BY <2>1, <2>2
<1>3. Bad = {}
  <2>1. SUFFICES ASSUME Bad # {} PROVE FALSE
    OBVIOUS
  <2>2. Bad \subseteq Nat
    OBVIOUS
  <2>. HIDE DEF Bad
  <2>3. PICK m \in Bad : \A x \in Bad : m <= x
    BY <2>1, <2>2, LeastOf
  <2>. QED BY <2>2, <2>3, <1>2
<1>4. D(Cardinality(T)) = SUBSET T
  BY <1>1
<1>5. Cardinality(T) \in Nat
  BY FS_CardinalityType
<1>. QED BY <1>3, <1>4, <1>5

\* A sum is the first element's value and the sum of the rest.
LEMMA SumUnfolds ==
  ASSUME NEW T, IsFiniteSet(T), NEW f
  PROVE  \E h : SumsUp(h, f, T) /\ SumFunctionOnSet(f, T) = h[T]
<1>1. PICK h : h = CHOOSE g : Sums(g, f, SUBSET T)
  OBVIOUS
<1>2. Sums(h, f, SUBSET T)
  BY <1>1, SumsExist
<1>3. SumFunctionOnSet(f, T) = h[T]
  BY <1>1 DEF SumFunctionOnSet, FoldFunctionOnSet, MapThenFoldSet, Sums, First
<1>4. SumsUp(h, f, T)
  BY <1>2, Zenon DEF Sums, SumsUp
<1>. QED BY <1>3, <1>4

\* The pairs of each element of s with the numbers up to its value.
Pairs(f, s) == UNION {{x} \X (1 .. f[x]) : x \in s}

\* They are as many as the values add up to.
LEMMA PairsAddUp ==
  ASSUME NEW T, IsFiniteSet(T), NEW f, \A x \in T : f[x] \in Nat
  PROVE  IsFiniteSet(Pairs(f, T)) /\ Cardinality(Pairs(f, T)) = SumFunctionOnSet(f, T)
<1>1. PICK h : SumsUp(h, f, T) /\ SumFunctionOnSet(f, T) = h[T]
  BY SumUnfolds
<1> DEFINE Right(s) == IsFiniteSet(Pairs(f, s)) /\ Cardinality(Pairs(f, s)) = h[s]
           Bad == {n \in Nat : \E s \in SUBSET T : Cardinality(s) = n /\ ~Right(s)}
<1>2. \A s \in SUBSET T : IsFiniteSet(s) /\ Cardinality(s) \in Nat
  BY FS_Subset, FS_CardinalityType
<1>3. ASSUME NEW m \in Nat, m \in Bad, \A x \in Bad : m <= x PROVE FALSE
  <2>1. PICK s \in SUBSET T : Cardinality(s) = m /\ ~Right(s)
    BY <1>3
  <2>2. h[s] = IF s = {} THEN 0 ELSE f[First(s)] + h[s \ {First(s)}]
    BY <1>1, Zenon DEF SumsUp
  <2>3. CASE s = {}
    <3>1. Pairs(f, s) = {}
      BY <2>3 DEF Pairs
    <3>. QED BY <2>1, <2>2, <2>3, <3>1, FS_EmptySet
  <2>4. CASE s # {}
    <3>1. PICK x \in s : x = First(s)
      BY <2>4, FirstIsIn
    <3>2. PICK r \in SUBSET T : r = s \ {x}
      OBVIOUS
    <3>3. Cardinality(r) = m - 1
      BY <1>2, <2>1, <3>2, FS_RemoveElement
    <3>4. Right(r)
      <4>1. PICK q \in Nat : q = Cardinality(r)
        BY <1>2
      <4>2. ~(m <= q)
        BY <3>3, <4>1
      <4>3. q \notin Bad
        <5>. HIDE DEF Bad
        <5>. QED BY <1>3, <4>2
      <4>. QED BY <4>1, <4>3
    <3>5. f[x] \in Nat
      OBVIOUS
    <3>6. PICK w \in Nat : w = f[x]
      BY <3>5
    <3>7. IsFiniteSet({x} \X (1 .. w)) /\ Cardinality({x} \X (1 .. w)) = w
      <4>1. IsFiniteSet({x}) /\ Cardinality({x}) = 1
        BY FS_Singleton, Zenon
      <4>2. IsFiniteSet(1 .. w) /\ Cardinality(1 .. w) = w
        <5>1. Cardinality(1 .. w) = IF 1 > w THEN 0 ELSE w - 1 + 1
          BY FS_Interval
        <5>2. IsFiniteSet(1 .. w)
          BY FS_Interval
        <5>. QED BY <5>1, <5>2
      <4>3. IsFiniteSet({x} \X (1 .. w)) /\ Cardinality({x} \X (1 .. w)) = Cardinality({x}) * Cardinality(1 .. w)
        BY <4>1, <4>2, FS_Product
      <4>4. 1 * w = w
        OBVIOUS
      <4>. QED BY <4>1, <4>2, <4>3, <4>4
    <3>8. Pairs(f, s) = Pairs(f, r) \cup ({x} \X (1 .. w)) /\ Pairs(f, r) \cap ({x} \X (1 .. w)) = {}
      <4> DEFINE P(a) == {a} \X (1 .. f[a])
      <4>1. s = r \cup {x} /\ x \notin r
        BY <3>2
      <4>2. \A a, q, z : z \in P(a) /\ z \in P(q) => a = q
        OBVIOUS
      <4>3. Pairs(f, s) = UNION {P(a) : a \in s} /\ Pairs(f, r) = UNION {P(a) : a \in r}
        BY DEF Pairs
      <4>4. {x} \X (1 .. w) = P(x)
        BY <3>6
      <4>. HIDE DEF P
      <4>5. UNION {P(a) : a \in s} = (UNION {P(a) : a \in r}) \cup P(x)
        BY <4>1
      <4>6. (UNION {P(a) : a \in r}) \cap P(x) = {}
        BY <4>1, <4>2
      <4>. QED BY <4>3, <4>4, <4>5, <4>6
    <3>9. Cardinality(Pairs(f, r)) = h[r] /\ IsFiniteSet(Pairs(f, r)) /\ Cardinality(Pairs(f, r)) \in Nat
      BY <3>4, FS_CardinalityType
    <3>10. IsFiniteSet(Pairs(f, s))
      <4>1. IsFiniteSet(Pairs(f, r) \cup ({x} \X (1 .. w)))
        BY <3>7, <3>9, FS_Union
      <4>. QED BY <3>8, <4>1
    <3>11. Cardinality(Pairs(f, s)) = Cardinality(Pairs(f, r)) + w - 0
      BY <3>7, <3>8, <3>9, FS_Union, FS_EmptySet
    <3>12. h[s] = w + h[r]
      BY <2>2, <2>4, <3>1, <3>2, <3>6
    <3>. QED BY <2>1, <3>9, <3>10, <3>11, <3>12
  <2>. QED BY <2>3, <2>4
<1>4. Bad = {}
  <2>1. SUFFICES ASSUME Bad # {} PROVE FALSE
    OBVIOUS
  <2>2. Bad \subseteq Nat
    OBVIOUS
  <2>. HIDE DEF Bad
  <2>3. PICK m \in Bad : \A x \in Bad : m <= x
    BY <2>1, <2>2, LeastOf
  <2>. QED BY <2>2, <2>3, <1>3
<1>5. Right(T)
  BY <1>2, <1>4
<1>. QED BY <1>1, <1>5

-----------------------------------------------------------------------------
(* What goes round the round-robin.                                         *)

\* A quotient and its remainder.
LEMMA Euclid ==
  ASSUME NEW t \in Nat, NEW c \in Nat, c > 0
  PROVE  \E q \in Nat : \E r \in Nat :
           q = t \div c /\ r = t % c /\ t = c * q + r /\ r < c
<1>1. t \div c \in Nat /\ t % c \in 0 .. c - 1
  OBVIOUS
<1>2. PICK q \in Nat : q = t \div c
  BY <1>1
<1>3. PICK r \in Nat : r = t % c /\ r < c
  BY <1>1
<1>4. t = c * q + r
  BY <1>2, <1>3
<1>. QED BY <1>2, <1>3, <1>4

\* What is written as quotient and remainder has them.
LEMMA EuclidUnique ==
  ASSUME NEW t \in Nat, NEW c \in Nat, c > 0, NEW q \in Nat, NEW r \in Nat, r < c, t = c * q + r
  PROVE  t \div c = q /\ t % c = r
<1>1. t % c = r
  OBVIOUS
<1>2. t \div c = q
  OBVIOUS
<1>. QED BY <1>1, <1>2

\* How many of the elements a to b of t are x.
Occurrences(t, a, b, x) == Cardinality({i \in a .. b : t[i] = x})

\* The l elements of t go round the n elements of g.
GoesRound(t, l, g, n) == \A i \in 1 .. l : t[i] = g[((i - 1) % n) + 1]

\* Of any n consecutive elements of what goes round a sequence of length n, as
\* many have a value as of the sequence's.
LEMMA WindowCount ==
  ASSUME NEW n \in Nat, n > 0, NEW g, NEW l \in Nat, NEW t, GoesRound(t, l, g, n),
         NEW x, NEW k \in Nat, k + n <= l
  PROVE  Occurrences(t, k + 1, k + n, x) = Occurrences(g, 1, n, x)
<1>0. \A i \in 1 .. l : t[i] = g[((i - 1) % n) + 1]
  BY DEF GoesRound
<1> DEFINE W(m) == {i \in m + 1 .. m + n : t[i] = x}
           C == Cardinality({j \in 1 .. n : g[j] = x})
           Bad == {m \in Nat : m + n <= l /\ Cardinality(W(m)) # C}
<1>1. ASSUME NEW b \in Nat, b \in Bad, \A m \in Bad : b <= m PROVE FALSE
  <2>1. b + n <= l /\ Cardinality(W(b)) # C
    BY <1>1
  <2>2. CASE b = 0
    <3>1. \A i \in 1 .. n : (i - 1) % n = i - 1 /\ (i - 1) + 1 = i /\ i \in 1 .. l
      BY <2>1, <2>2
    <3>2. \A i \in 1 .. n : t[i] = g[i]
      BY <1>0, <3>1
    <3>3. 0 + 1 .. 0 + n = 1 .. n
      OBVIOUS
    <3>4. W(0) = {j \in 1 .. n : g[j] = x}
      BY <3>2, <3>3
    <3>. QED BY <2>1, <2>2, <3>4
  <2>3. CASE b # 0
    <3>1. PICK m \in Nat : b = m + 1
      BY <2>3
    <3>2. Cardinality(W(m)) = C
      <4>1. ~(b <= m) /\ m + n <= l
        BY <2>1, <3>1
      <4>2. m \notin Bad
        <5>. HIDE DEF Bad
        <5>. QED BY <1>1, <4>1
      <4>. QED BY <4>1, <4>2
    <3>3. t[m + 1] = t[m + n + 1]
      <4>1. (m + n) % n = m % n
        <5>1. PICK q \in Nat : \E r \in Nat : r = m % n /\ m = n * q + r /\ r < n
          BY Euclid
        <5>2. PICK r \in Nat : r = m % n /\ m = n * q + r /\ r < n
          BY <5>1
        <5>3. PICK p \in Nat, v \in Nat : p = q + 1 /\ v = m + n
          OBVIOUS
        <5>4. v = n * p + r
          BY <5>2, <5>3
        <5>5. v % n = r
          BY <5>2, <5>4, EuclidUnique
        <5>. QED BY <5>2, <5>3, <5>5
      <4>2. m + 1 \in 1 .. l /\ m + n + 1 \in 1 .. l /\ (m + 1) - 1 = m /\ (m + n + 1) - 1 = m + n
        BY <2>1, <3>1
      <4>. QED BY <1>0, <4>1, <4>2
    <3> DEFINE D == {i \in m + 2 .. m + n : t[i] = x}
    <3>4. IsFiniteSet(D) /\ Cardinality(D) \in Nat /\ m + 1 \notin D /\ m + n + 1 \notin D
      <4>1. IsFiniteSet(m + 2 .. m + n) /\ D \in SUBSET (m + 2 .. m + n)
        <5>1. PICK a, z \in Int : a = m + 2 /\ z = m + n
          OBVIOUS
        <5>2. IsFiniteSet(a .. z)
          BY FS_Interval
        <5>. QED BY <5>1, <5>2
      <4>2. IsFiniteSet(D)
        <5>. HIDE DEF D
        <5>. QED BY <4>1, FS_Subset
      <4>3. Cardinality(D) \in Nat
        BY <4>2, FS_CardinalityType
      <4>. QED BY <4>2, <4>3
    <3>5. W(m) = IF t[m + 1] = x THEN D \cup {m + 1} ELSE D
      <4>1. \A i : i \in m + 1 .. m + n <=> i = m + 1 \/ i \in m + 2 .. m + n
        OBVIOUS
      <4>. QED BY <4>1
    <3>6. W(b) = IF t[m + 1] = x THEN D \cup {m + n + 1} ELSE D
      <4>1. \A i : i \in b + 1 .. b + n <=> i = m + n + 1 \/ i \in m + 2 .. m + n
        BY <3>1
      <4>. QED BY <3>3, <4>1
    <3>. HIDE DEF D, W
    <3>7. /\ Cardinality(D \cup {m + 1}) = Cardinality(D) + 1
          /\ Cardinality(D \cup {m + n + 1}) = Cardinality(D) + 1
      BY <3>4, FS_AddElement
    <3>8. Cardinality(W(m)) = Cardinality(W(b))
      <4>1. CASE t[m + 1] = x
        BY <3>5, <3>6, <3>7, <4>1
      <4>2. CASE t[m + 1] # x
        BY <3>5, <3>6, <4>2
      <4>. QED BY <4>1, <4>2
    <3>. QED BY <2>1, <3>2, <3>8
  <2>. QED BY <2>2, <2>3
<1>2. Bad = {}
  <2>1. SUFFICES ASSUME Bad # {} PROVE FALSE
    OBVIOUS
  <2>2. Bad \subseteq Nat
    OBVIOUS
  <2>. HIDE DEF Bad
  <2>3. PICK m \in Bad : \A z \in Bad : m <= z
    BY <2>1, <2>2, LeastOf
  <2>. QED BY <2>2, <2>3, <1>1
<1>. QED BY <1>2 DEF Occurrences

\* The cycle is as long as the weights add up to.
LEMMA CycleFacts ==
  ASSUME profile \in Profiles
  PROVE  /\ IsFiniteSet(Slots) /\ Cardinality(Slots) \in Nat
         /\ Cardinality(Slots) = SumFunction([r \in DOMAIN ScenarioList |-> ScenarioList[r].weight])
<1>1. \A r \in DOMAIN ScenarioList : ScenarioList[r].weight \in Nat
  BY WorkloadAssumption DEF ScenarioTypes, ScenarioList
<1>2. IsFiniteSet(DOMAIN ScenarioList)
  BY ListFacts, FS_Interval
<1> DEFINE weights == [r \in DOMAIN ScenarioList |-> ScenarioList[r].weight]
<1>3. Slots = Pairs(weights, DOMAIN ScenarioList)
  BY DEF Slots, Copies, Pairs
<1>4. \A r \in DOMAIN ScenarioList : weights[r] \in Nat
  BY <1>1
<1>5. IsFiniteSet(Slots) /\ Cardinality(Slots) = SumFunctionOnSet(weights, DOMAIN ScenarioList)
  <2>. HIDE DEF weights
  <2>. QED BY <1>2, <1>3, <1>4, PairsAddUp
<1>6. Cardinality(Slots) = SumFunction(weights)
  BY <1>5 DEF SumFunction
<1>. QED BY <1>5, <1>6, FS_CardinalityType

\* The round-robin names each scenario as often as its weight says.
LEMMA RoundRobinCounts ==
  ASSUME profile \in Profiles, NEW g \in Shuffles(Slots), NEW s \in DOMAIN ScenarioList
  PROVE  Cardinality({j \in 1 .. Cardinality(Slots) : g[j] = s}) = ScenarioList[s].weight
<1>1. \A r \in DOMAIN ScenarioList : ScenarioList[r].weight \in Nat
  BY WorkloadAssumption DEF ScenarioTypes, ScenarioList
<1>2. IsFiniteSet(Slots)
  BY CycleFacts
<1>3. PICK n \in Nat : n = Cardinality(Slots)
  BY <1>2, FS_CardinalityType
<1>4. PICK f \in [1 .. n -> Slots] : Range(f) = Slots /\ g = [k \in 1 .. n |-> f[k][1]]
  BY <1>3 DEF Shuffles, Orders
<1>5. \A i, j \in 1 .. n : f[i] = f[j] => i = j
  <2>1. IsFiniteSet(1 .. n) /\ Cardinality(1 .. n) = n
    <3>1. Cardinality(1 .. n) = IF 1 > n THEN 0 ELSE n - 1 + 1
      BY FS_Interval
    <3>2. IsFiniteSet(1 .. n)
      BY FS_Interval
    <3>. QED BY <3>1, <3>2
  <2>2. f \in Surjection(1 .. n, Slots)
    BY <1>4 DEF Surjection, Range
  <2>3. f \in Injection(1 .. n, Slots)
    BY <1>3, <2>1, <2>2, FS_Surjection
  <2>. QED BY <2>3 DEF Injection, IsInjective
<1> DEFINE J == {j \in 1 .. n : g[j] = s}
           T == {s} \X (1 .. ScenarioList[s].weight)
<1>6. Cardinality(J) = ScenarioList[s].weight
  <2>1. PICK w \in Nat : w = ScenarioList[s].weight
    BY <1>1
  <2>2. T \subseteq Slots /\ \A slot \in Slots : slot[1] = s => slot \in T
    BY DEF Slots, Copies
  <2>3. \A j \in 1 .. n : j \in J <=> f[j] \in T
    <3>1. \A j \in 1 .. n : g[j] = f[j][1] /\ f[j] \in Slots
      BY <1>4
    <3>2. \A v \in T : v[1] = s
      OBVIOUS
    <3>. HIDE DEF T
    <3>. QED BY <2>2, <3>1, <3>2
  <2>4. \A v \in T : \E j \in 1 .. n : v = f[j]
    <3>. HIDE DEF T
    <3>. QED BY <1>4, <2>2 DEF Range
  <2> DEFINE b == [j \in J |-> f[j]]
  <2>5. b \in Bijection(J, T)
    <3>1. b \in [J -> T]
      BY <2>3
    <3>2. \A i, j \in J : b[i] = b[j] => i = j
      BY <1>5
    <3>3. \A v \in T : \E j \in J : b[j] = v
      <4>1. \A v \in T : \E j \in 1 .. n : j \in J /\ f[j] = v
        BY <2>3, <2>4
      <4>. QED BY <4>1
    <3>. HIDE DEF b, J, T
    <3>. QED BY <3>1, <3>2, <3>3 DEF Bijection, Injection, IsInjective, Surjection
  <2>6. IsFiniteSet(T) /\ Cardinality(T) = w
    <3>1. IsFiniteSet({s}) /\ Cardinality({s}) = 1
      BY FS_Singleton, Zenon
    <3>2. Cardinality(1 .. w) = IF 1 > w THEN 0 ELSE w - 1 + 1
      BY FS_Interval
    <3>3. IsFiniteSet(1 .. w) /\ Cardinality(1 .. w) = w
      BY <3>2, FS_Interval
    <3>4. IsFiniteSet({s} \X (1 .. w)) /\ Cardinality({s} \X (1 .. w)) = Cardinality({s}) * Cardinality(1 .. w)
      BY <3>1, <3>3, FS_Product
    <3>5. 1 * w = w
      OBVIOUS
    <3>. QED BY <2>1, <3>1, <3>3, <3>4, <3>5
  <2>7. IsFiniteSet(J)
    <3>1. IsFiniteSet(1 .. n) /\ J \in SUBSET (1 .. n)
      BY FS_Interval
    <3>. HIDE DEF J
    <3>. QED BY <3>1, FS_Subset
  <2>8. Cardinality(T) = Cardinality(J)
    <3>. HIDE DEF J, T, b
    <3>. QED BY <2>5, <2>7, FS_Bijection DEF ExistsBijection
  <2>. HIDE DEF J, T
  <2>. QED BY <2>1, <2>6, <2>8
<1>. QED BY <1>3, <1>6

-----------------------------------------------------------------------------
(* What is drawn for a transaction.                                         *)

\* The running totals of a mix that does not wrap are those of the integers.
LEMMA MixTotals ==
  ASSUME NEW mix, mix \in [DOMAIN mix -> 0 .. Word - 1], ~Wraps(mix)
  PROVE  \E t1, t2, t3 \in Nat :
           /\ Totals(mix)[0] = 0 /\ Totals(mix)[1] = t1 /\ Totals(mix)[2] = t2 /\ Totals(mix)[3] = t3
           /\ t1 <= t2 /\ t2 <= t3
           /\ "rmw" \in DOMAIN mix => t1 = mix["rmw"]
           /\ "read" \in DOMAIN mix => t2 - t1 = mix["read"]
           /\ "write" \in DOMAIN mix => t3 - t2 = mix["write"]
<1> DEFINE w(i) == IF Ops[i] \in DOMAIN mix THEN mix[Ops[i]] ELSE 0
           V(T) == T = [i \in 0 .. Len(Ops) |-> IF i = 0 THEN 0 ELSE (T[i - 1] + w(i)) % Word]
<1>1. /\ Len(Ops) = 3 /\ DOMAIN Ops = {1, 2, 3} /\ 0 .. 3 = {0, 1, 2, 3}
      /\ Ops[1] = "rmw" /\ Ops[2] = "read" /\ Ops[3] = "write"
  BY DEF Ops
<1>2. PICK c \in Nat : c = Word /\ c # 0
  BY WorkloadAssumption
<1>3. \A i \in {1, 2, 3} : w(i) \in 0 .. c - 1
  <2>1. 0 \in 0 .. c - 1
    BY <1>2
  <2>. QED BY <1>2, <2>1
<1>4. PICK w1, w2, w3 \in 0 .. c - 1 : w1 = w(1) /\ w2 = w(2) /\ w3 = w(3)
  BY <1>3
<1>5. PICK t1, t2, t3 \in 0 .. c - 1 :
        t1 = (0 + w1) % c /\ t2 = (t1 + w2) % c /\ t3 = (t2 + w3) % c
  <2>1. \A a, b \in 0 .. c - 1 : (a + b) % c \in 0 .. c - 1
    BY <1>2
  <2>2. 0 \in 0 .. c - 1
    BY <1>2
  <2>3. PICK t1 \in 0 .. c - 1 : t1 = (0 + w1) % c
    BY <2>1, <2>2
  <2>4. PICK t2 \in 0 .. c - 1 : t2 = (t1 + w2) % c
    BY <2>1
  <2>5. PICK t3 \in 0 .. c - 1 : t3 = (t2 + w3) % c
    BY <2>1
  <2>. QED BY <2>3, <2>4, <2>5
<1> DEFINE H == [i \in 0 .. Len(Ops) |-> IF i = 0 THEN 0 ELSE IF i = 1 THEN t1 ELSE IF i = 2 THEN t2 ELSE t3]
<1>6. H[0] = 0 /\ H[1] = t1 /\ H[2] = t2 /\ H[3] = t3
  BY <1>1
<1>7. V(H)
  <2>1. \A i \in {0, 1, 2, 3} : H[i] = IF i = 0 THEN 0 ELSE (H[i - 1] + w(i)) % Word
    <3>1. H[0] = IF 0 = 0 THEN 0 ELSE (H[0 - 1] + w(0)) % Word
      BY <1>6
    <3>2. H[1] = (H[1 - 1] + w(1)) % Word /\ H[2] = (H[2 - 1] + w(2)) % Word /\ H[3] = (H[3 - 1] + w(3)) % Word
      <4>. HIDE DEF H, w
      <4>1. 1 - 1 = 0 /\ 2 - 1 = 1 /\ 3 - 1 = 2
        OBVIOUS
      <4>. QED BY <1>2, <1>4, <1>5, <1>6, <4>1
    <3>. HIDE DEF H, w
    <3>. QED BY <3>1, <3>2
  <2>2. H = [i \in 0 .. Len(Ops) |-> H[i]]
    OBVIOUS
  <2>. HIDE DEF H, w
  <2>. QED BY <1>1, <2>1, <2>2
<1>8. PICK T : T = Totals(mix) /\ V(T)
  <2>1. Totals(mix) = CHOOSE T : V(T)
    BY DEF Totals
  <2>. HIDE DEF V, H
  <2>. QED BY <1>7, <2>1
<1>9. /\ T[0] = 0 /\ T[1] = (T[0] + w(1)) % Word /\ T[2] = (T[1] + w(2)) % Word /\ T[3] = (T[2] + w(3)) % Word
  <2>1. \A i \in {0, 1, 2, 3} : T[i] = IF i = 0 THEN 0 ELSE (T[i - 1] + w(i)) % Word
    <3>. HIDE DEF w
    <3>. QED BY <1>1, <1>8
  <2>2. 1 - 1 = 0 /\ 2 - 1 = 1 /\ 3 - 1 = 2
    OBVIOUS
  <2>. HIDE DEF V, w
  <2>. QED BY <2>1, <2>2
<1>10. T[1] = t1 /\ T[2] = t2 /\ T[3] = t3
  <2>. HIDE DEF V, H, w
  <2>. QED BY <1>2, <1>4, <1>5, <1>9
<1>11. T[0] <= T[1] /\ T[1] <= T[2] /\ T[2] <= T[3]
  <2>1. \A i \in {1, 2, 3} : ~(T[i] < T[i - 1])
    BY <1>1, <1>8 DEF Wraps
  <2>2. ~(T[1] < T[0]) /\ ~(T[2] < T[1]) /\ ~(T[3] < T[2])
    <3>1. 1 - 1 = 0 /\ 2 - 1 = 1 /\ 3 - 1 = 2
      OBVIOUS
    <3>. HIDE DEF V
    <3>. QED BY <2>1, <3>1
  <2>. HIDE DEF V
  <2>. QED BY <2>2, <1>9, <1>10
<1>12. t1 = w1 /\ t2 = t1 + w2 /\ t3 = t2 + w3 /\ t1 <= t2 /\ t2 <= t3
  <2>1. \A a, b \in 0 .. c - 1 : a <= (a + b) % c => (a + b) % c = a + b
    <3>1. ASSUME NEW a \in 0 .. c - 1, NEW b \in 0 .. c - 1, a <= (a + b) % c PROVE (a + b) % c = a + b
      <4>1. CASE a + b < c
        <5>1. a + b \in 0 .. c - 1
          BY <4>1, <1>2
        <5>. QED BY <5>1, <1>2
      <4>2. CASE a + b >= c
        <5>1. a + b - c \in 0 .. c - 1
          BY <4>2, <1>2
        <5>2. (a + b) % c = a + b - c
          BY <5>1, <1>2
        <5>. QED BY <5>2, <3>1, <1>2
      <4>. QED BY <4>1, <4>2
    <3>. QED BY <3>1
  <2>2. t1 <= t2 /\ t2 <= t3
    BY <1>10, <1>11
  <2>3. t1 = w1
    BY <1>2, <1>5
  <2>4. t2 = t1 + w2
    BY <2>1, <2>2, <1>5
  <2>5. t3 = t2 + w3
    BY <2>1, <2>2, <1>5
  <2>. QED BY <2>2, <2>3, <2>4, <2>5
<1>13. t1 \in Nat /\ t2 \in Nat /\ t3 \in Nat
  BY <1>2
<1>14. /\ Totals(mix)[0] = 0 /\ Totals(mix)[1] = t1 /\ Totals(mix)[2] = t2 /\ Totals(mix)[3] = t3
  BY <1>8, <1>9, <1>10
<1>15. /\ "rmw" \in DOMAIN mix => t1 = mix["rmw"]
       /\ "read" \in DOMAIN mix => t2 - t1 = mix["read"]
       /\ "write" \in DOMAIN mix => t3 - t2 = mix["write"]
  <2>1. /\ "rmw" \in DOMAIN mix => w1 = mix["rmw"]
        /\ "read" \in DOMAIN mix => w2 = mix["read"]
        /\ "write" \in DOMAIN mix => w3 = mix["write"]
    BY <1>1, <1>4
  <2>2. t1 = w1 /\ t2 - t1 = w2 /\ t3 - t2 = w3
    BY <1>12, <1>2
  <2>. QED BY <2>1, <2>2
<1>. QED BY <1>12, <1>13, <1>14, <1>15

\* An operation is drawn by as many values of the draw as its weight says.
LEMMA SelectCounts ==
  ASSUME NEW mix, mix \in [DOMAIN mix -> 0 .. Word - 1], ~Wraps(mix),
         DOMAIN mix \subseteq Range(Ops), NEW op \in DOMAIN mix
  PROVE  Cardinality({u \in 0 .. Total(mix) - 1 : Select(mix, u) = op}) = mix[op]
<1>1. PICK t1, t2, t3 \in Nat :
        /\ Totals(mix)[0] = 0 /\ Totals(mix)[1] = t1 /\ Totals(mix)[2] = t2 /\ Totals(mix)[3] = t3
        /\ t1 <= t2 /\ t2 <= t3
        /\ "rmw" \in DOMAIN mix => t1 = mix["rmw"]
        /\ "read" \in DOMAIN mix => t2 - t1 = mix["read"]
        /\ "write" \in DOMAIN mix => t3 - t2 = mix["write"]
  BY MixTotals
<1>2. /\ Len(Ops) = 3 /\ DOMAIN Ops = {1, 2, 3} /\ Range(Ops) = {"rmw", "read", "write"}
      /\ Ops[1] = "rmw" /\ Ops[2] = "read" /\ Ops[3] = "write"
  BY DEF Ops, Range
<1>3. Total(mix) = t3
  BY <1>1, <1>2 DEF Total
<1>4. ASSUME NEW u \in 0 .. t3 - 1
      PROVE  Select(mix, u) = IF u < t1 THEN "rmw" ELSE IF u < t2 THEN "read" ELSE "write"
  <2> DEFINE P(i) == u < Totals(mix)[i] /\ \A j \in 1 .. i - 1 : Totals(mix)[j] <= u
  <2>1. Select(mix, u) = Ops[CHOOSE i \in {1, 2, 3} : P(i)]
    BY <1>2 DEF Select
  <2>2. P(1) <=> u < t1
    <3>1. 1 .. 1 - 1 = {}
      OBVIOUS
    <3>. QED BY <1>1, <3>1
  <2>3. P(2) <=> u < t2 /\ t1 <= u
    <3>1. 1 .. 2 - 1 = {1}
      OBVIOUS
    <3>. QED BY <1>1, <3>1
  <2>4. P(3) <=> u < t3 /\ t1 <= u /\ t2 <= u
    <3>1. 1 .. 3 - 1 = {1, 2}
      OBVIOUS
    <3>. QED BY <1>1, <3>1
  <2>5. PICK k \in {1, 2, 3} : k = (CHOOSE i \in {1, 2, 3} : P(i)) /\ P(k)
    <3>1. u \in Int /\ u < t3
      BY <1>1
    <3>2. P(1) \/ P(2) \/ P(3)
      <4>. HIDE DEF P
      <4>. QED BY ONLY <2>2, <2>3, <2>4, <3>1, t1 \in Nat, t2 \in Nat, t3 \in Nat
    <3>. HIDE DEF P
    <3>. QED BY <3>2
  <2>. HIDE DEF P
  <2>6. CASE k = 1
    BY <2>1, <2>2, <2>5, <2>6, <1>2
  <2>7. CASE k = 2
    <3>1. u < t2 /\ ~(u < t1)
      <4>1. P(2)
        BY <2>5, <2>7
      <4>. QED BY <4>1, <2>3, u \in Int, t1 \in Int
    <3>. QED BY <2>1, <2>5, <2>7, <3>1, <1>2
  <2>8. CASE k = 3
    <3>1. ~(u < t2) /\ ~(u < t1)
      <4>1. P(3)
        BY <2>5, <2>8
      <4>. QED BY <4>1, <2>4, u \in Int, t1 \in Int, t2 \in Int
    <3>. QED BY <2>1, <2>5, <2>8, <3>1, <1>2
  <2>. QED BY <2>6, <2>7, <2>8
<1> DEFINE D == {u \in 0 .. Total(mix) - 1 : Select(mix, u) = op}
<1>5. \A a, b \in Nat : a <= b => Cardinality(a .. b - 1) = b - a
  <2>1. ASSUME NEW a \in Nat, NEW b \in Nat, a <= b PROVE Cardinality(a .. b - 1) = b - a
    <3>1. PICK c \in Int : c = b - 1
      OBVIOUS
    <3>2. Cardinality(a .. c) = IF a > c THEN 0 ELSE c - a + 1
      BY FS_Interval
    <3>. QED BY <2>1, <3>1, <3>2
  <2>. QED BY <2>1
<1>6. CASE op = "rmw"
  <2>1. D = 0 .. t1 - 1
    <3>1. \A u \in 0 .. t3 - 1 : Select(mix, u) = op <=> u < t1
      BY <1>4, <1>6
    <3>2. \A u \in 0 .. t3 - 1 : u < t1 <=> u \in 0 .. t1 - 1
      OBVIOUS
    <3>3. \A u \in 0 .. t1 - 1 : u \in 0 .. t3 - 1
      BY <1>1
    <3>. QED BY <1>3, <3>1, <3>2, <3>3
  <2>2. Cardinality(0 .. t1 - 1) = t1 - 0
    <3>1. 0 \in Nat /\ 0 <= t1
      OBVIOUS
    <3>. QED BY <1>5, <3>1
  <2>3. t1 - 0 = t1
    OBVIOUS
  <2>. QED BY <1>1, <1>6, <2>1, <2>2, <2>3
<1>7. CASE op = "read"
  <2>1. D = t1 .. t2 - 1
    <3>1. \A u \in 0 .. t3 - 1 : Select(mix, u) = op <=> ~(u < t1) /\ u < t2
      BY <1>4, <1>7
    <3>2. \A u \in 0 .. t3 - 1 : ~(u < t1) /\ u < t2 <=> u \in t1 .. t2 - 1
      OBVIOUS
    <3>3. \A u \in t1 .. t2 - 1 : u \in 0 .. t3 - 1
      BY <1>1
    <3>. QED BY <1>3, <3>1, <3>2, <3>3
  <2>2. Cardinality(t1 .. t2 - 1) = t2 - t1
    BY <1>1, <1>5
  <2>. QED BY <1>1, <1>7, <2>1, <2>2
<1>8. CASE op = "write"
  <2>1. D = t2 .. t3 - 1
    <3>1. \A u \in 0 .. t3 - 1 : Select(mix, u) = op <=> ~(u < t1) /\ ~(u < t2)
      BY <1>4, <1>8
    <3>2. \A u \in 0 .. t3 - 1 : ~(u < t1) /\ ~(u < t2) <=> u \in t2 .. t3 - 1
      BY <1>1
    <3>3. \A u \in t2 .. t3 - 1 : u \in 0 .. t3 - 1
      BY <1>1
    <3>. QED BY <1>3, <3>1, <3>2, <3>3
  <2>2. Cardinality(t2 .. t3 - 1) = t3 - t2
    BY <1>1, <1>5
  <2>. QED BY <1>1, <1>8, <2>1, <2>2
<1>. QED BY <1>2, <1>6, <1>7, <1>8

\* The kinds of scenarios.
LEMMA KindFacts ==
  /\ Kinds = Contracts \cup Transfers /\ Contracts \cap Transfers = {}
  /\ Transfers = {"evmtransfer", "evmtransferfast", "evmtransfernoop"}
  /\ Contracts = {"disperse", "erc20conflict", "erc20noop", "erc20", "erc721", "storagerw"}
<1>1. Kinds = {"evmtransfer", "evmtransferfast", "evmtransfernoop",
               "disperse", "erc20conflict", "erc20noop", "erc20", "erc721", "storagerw"}
  BY DEF Kinds, scenarioFactories
<1>2. \A kind \in {"evmtransfer", "evmtransferfast", "evmtransfernoop"} : ~scenarioFactories[kind].contract
  BY DEF scenarioFactories, EVMTransfer, EVMTransferFast, EVMTransferNoop
<1>3. \A kind \in {"disperse", "erc20conflict", "erc20noop", "erc20", "erc721", "storagerw"} :
        scenarioFactories[kind].contract
  BY DEF scenarioFactories, Disperse, ERC20Conflict, ERC20Noop, ERC20, ERC721, StorageRW, Call
<1>4. Contracts = {"disperse", "erc20conflict", "erc20noop", "erc20", "erc721", "storagerw"}
  BY <1>1, <1>2, <1>3 DEF Contracts
<1>. QED BY <1>1, <1>4 DEF Transfers

\* An index that is drawn lies in the space it is drawn from.
LEMMA SampleRange ==
  ASSUME NEW d \in Distributions, NEW n \in Nat, n # 0, NEW i \in SampleIndex(d, n)
  PROVE  i \in 0 .. n - 1
<1>1. \/ SampleIndex(d, n) = 0 .. n - 1
      \/ SampleIndex(d, n) = {0}
      \/ SampleIndex(d, n) = Zipfian(n)
  BY Zenon DEF SampleIndex, Distributions
<1>2. i \in 0 .. n - 1 \/ i = 0 \/ i \in Zipfian(n)
  BY <1>1
<1>3. CASE i \in Zipfian(n)
  <2>1. \/ i = 0
        \/ n # 1 /\ i = 1
        \/ n # 1 /\ \E j \in 0 .. n : i = IF j >= n THEN n - 1 ELSE j
    BY <1>3 DEF Zipfian, Clamp
  <2>. QED BY <2>1
<1>. QED BY <1>2, <1>3

\* A slot lies in the keyspace.
LEMMA SlotRange ==
  ASSUME NEW s, ScenarioTypes(s), NEW slot \in PickSlot(s)
  PROVE  slot = 0 \/ slot < s.recordCount
<1>1. CASE s.recordCount = 0
  BY <1>1 DEF PickSlot
<1>2. CASE s.recordCount # 0
  <2>1. PICK d \in s.keyDistribution : slot \in SampleIndex(d, s.recordCount)
    BY <1>2 DEF PickSlot
  <2>2. d \in Distributions /\ s.recordCount \in Nat
    BY DEF ScenarioTypes
  <2>3. PICK n \in Nat : n = s.recordCount
    BY <2>2
  <2>4. slot \in 0 .. n - 1
    BY <1>2, <2>1, <2>2, <2>3, SampleRange
  <2>5. slot < n
    BY <2>4
  <2>. QED BY <2>3, <2>5
<1>. QED BY <1>1, <1>2

\* A pad is a bucket, of a size that validation bounds.
LEMMA PadRange ==
  ASSUME NEW s, ScenarioTypes(s), ValidScenario(s), NEW pad \in PickPad(s)
  PROVE  /\ pad \in Nat
         /\ pad = 0 \/ pad \in Range(s.sizeBuckets)
<1>1. CASE s.sizeBuckets = <<>>
  BY <1>1 DEF PickPad
<1>2. CASE s.sizeBuckets # <<>>
  <2>1. PICK d \in s.sizeDistribution : \E i \in SampleIndex(d, Len(s.sizeBuckets)) : pad = s.sizeBuckets[i + 1]
    BY <1>2 DEF PickPad
  <2>2. d \in Distributions /\ s.sizeBuckets \in Seq(Int)
    BY DEF ScenarioTypes
  <2>3. PICK n \in Nat : n = Len(s.sizeBuckets) /\ n # 0 /\ DOMAIN s.sizeBuckets = 1 .. n
    <3>1. Len(s.sizeBuckets) \in Nat /\ DOMAIN s.sizeBuckets = 1 .. Len(s.sizeBuckets)
      BY <2>2, LenProperties
    <3>2. Len(s.sizeBuckets) # 0
      BY <1>2, <2>2, EmptySeq
    <3>. QED BY <3>1, <3>2
  <2>4. PICK i \in SampleIndex(d, n) : pad = s.sizeBuckets[i + 1]
    BY <2>1, <2>3
  <2>5. i \in 0 .. n - 1
    BY <2>2, <2>3, SampleRange
  <2>6. i + 1 \in 1 .. n
    BY <2>5
  <2>7. s.sizeBuckets[i + 1] \in 0 .. maxCalldataPadBytes
    BY <2>3, <2>6 DEF ValidScenario
  <2>8. pad \in Nat
    BY <2>7, <2>4
  <2>9. pad \in Range(s.sizeBuckets)
    BY <2>3, <2>6, <2>4 DEF Range
  <2>. QED BY <2>8, <2>9
<1>. QED BY <1>1, <1>2

\* What a scenario sets before the draws.
Draft(s, sender, receiver) ==
  LET type == scenarioFactories[s.kind]
      to   == CASE type.to = "receiver" -> receiver [] type.to = "sender" -> sender [] type.to = "contract" -> s.kind
  IN [op |-> type.op, to |-> to, value |-> type.value, gas |-> type.gas,
      tip |-> type.tip, cap |-> type.cap, slot |-> 0, pad |-> 0, id |-> 0]

\* A transfer carries the gas and the fees that were picked, or else its own.
LEMMA TransferTx ==
  ASSUME NEW s, s.kind \in Transfers, NEW sender, NEW receiver, NEW id,
         NEW tx \in CreateTransaction(s, sender, receiver, id)
  PROVE  /\ tx.slot = 0 /\ tx.pad = 0
         /\ tx.gas \in Picked(s.gas, 21000)
         /\ s.tip = {} /\ s.cap = {} => Admitted(tx)
<1> DEFINE d == Draft(s, sender, receiver)
<1>1. tx \in PickFees(s, d)
  BY KindFacts DEF CreateTransaction, Draft
<1>2. PICK gas \in Picked(s.gas, d.gas), tip \in PickedFee(s.tip, d.tip), cap \in PickedFee(s.cap, d.cap) :
        tx = WithFees(d, gas, tip, cap)
  <2>. HIDE DEF d
  <2>. QED BY <1>1 DEF PickFees
<1>3. /\ d.slot = 0 /\ d.pad = 0 /\ d.gas = scenarioFactories[s.kind].gas
      /\ d.tip = scenarioFactories[s.kind].tip /\ d.cap = scenarioFactories[s.kind].cap
      /\ tx.slot = d.slot /\ tx.pad = d.pad /\ tx.gas = gas /\ tx.tip = tip /\ tx.cap = cap
  BY <1>2 DEF Draft, WithFees
<1>. HIDE DEF d
<1>4. \A kind \in {"evmtransfer", "evmtransferfast", "evmtransfernoop"} :
        /\ scenarioFactories[kind].gas = 21000
        /\ 0 <= scenarioFactories[kind].tip /\ scenarioFactories[kind].tip <= scenarioFactories[kind].cap
  BY DEF scenarioFactories, EVMTransfer, EVMTransferFast, EVMTransferNoop
<1>5. s.kind \in {"evmtransfer", "evmtransferfast", "evmtransfernoop"}
  BY KindFacts
<1>6. s.tip = {} /\ s.cap = {} => tip = d.tip /\ cap = d.cap
  BY <1>2 DEF PickedFee
<1>. QED BY <1>2, <1>3, <1>4, <1>5, <1>6 DEF Admitted

\* A call carries the gas limit of its kind and the default fees; a storage call
\* the gas limit of the pad it draws.
LEMMA CallTx ==
  ASSUME NEW s, s.kind \in Contracts, NEW sender, NEW receiver, NEW id,
         NEW tx \in CreateTransaction(s, sender, receiver, id)
  PROVE  /\ Admitted(tx)
         /\ s.kind = "storagerw" => tx.slot \in PickSlot(s) /\ tx.pad \in PickPad(s) /\ tx.gas = GasLimit(tx.pad)
         /\ s.kind # "storagerw" => /\ tx.slot = 0 /\ tx.pad = 0 /\ tx.value = 0
                                    /\ tx.gas = scenarioFactories[s.kind].gas
<1> DEFINE d == Draft(s, sender, receiver)
<1>1. s.kind \notin Transfers /\ s.kind \in {"disperse", "erc20conflict", "erc20noop", "erc20", "erc721", "storagerw"}
  BY KindFacts
<1>2. \A kind \in {"disperse", "erc20conflict", "erc20noop", "erc20", "erc721", "storagerw"} :
        scenarioFactories[kind].tip = 2 /\ scenarioFactories[kind].cap = 20 /\ scenarioFactories[kind].value = 0
  BY DEF scenarioFactories, Disperse, ERC20Conflict, ERC20Noop, ERC20, ERC721, StorageRW, Call
<1>3. /\ d.slot = 0 /\ d.pad = 0 /\ d.value = 0 /\ d.gas = scenarioFactories[s.kind].gas
      /\ d.tip = 2 /\ d.cap = 20
  BY <1>1, <1>2 DEF Draft
<1>4. CASE s.kind = "storagerw"
  <2>1. tx \in StorageRWTxs(s, d)
    BY <1>1, <1>4 DEF CreateTransaction, Draft
  <2>2. PICK slot \in PickSlot(s), pad \in PickPad(s), op \in PickOperation(s) :
          tx = WithDraws(d, slot, pad, op)
    <3>. HIDE DEF d
    <3>. QED BY <2>1 DEF StorageRWTxs
  <2>3. tx.slot = slot /\ tx.pad = pad /\ tx.gas = GasLimit(pad) /\ tx.tip = d.tip /\ tx.cap = d.cap
    BY <2>2 DEF Draft, WithDraws
  <2>. HIDE DEF d
  <2>. QED BY <1>3, <1>4, <2>2, <2>3 DEF Admitted
<1>5. CASE s.kind = "erc721"
  <2>1. tx = [d EXCEPT !.id = id]
    BY <1>1, <1>5 DEF CreateTransaction, Draft
  <2>2. /\ tx.slot = d.slot /\ tx.pad = d.pad /\ tx.value = d.value /\ tx.gas = d.gas
        /\ tx.tip = d.tip /\ tx.cap = d.cap
    BY <2>1 DEF Draft
  <2>. HIDE DEF d
  <2>. QED BY <1>3, <1>5, <2>2 DEF Admitted
<1>6. CASE s.kind # "storagerw" /\ s.kind # "erc721"
  <2>1. tx = d
    BY <1>1, <1>6 DEF CreateTransaction, Draft
  <2>. HIDE DEF d
  <2>. QED BY <1>3, <1>6, <2>1 DEF Admitted
<1>. QED BY <1>4, <1>5, <1>6

\* A pad takes whole words on the wire.
LEMMA PaddedFacts ==
  /\ Padded(0) = 0
  /\ \A pad \in Nat : Padded(pad) \in Nat
<1>1. (0 + 31) \div 32 = 0
  OBVIOUS
<1>2. ASSUME NEW pad \in Nat PROVE Padded(pad) \in Nat
  <2>1. PICK q \in Nat : q = (pad + 31) \div 32
    OBVIOUS
  <2>2. Padded(pad) = q * 32
    BY <2>1 DEF Padded
  <2>. QED BY <2>2
<1>. QED BY <1>1, <1>2 DEF Padded

-----------------------------------------------------------------------------
(* Whether it executes.                                                     *)

\* The prices of a call with a pad of no words.
LEMMA Prices ==
  /\ \A kind \in Transfers : CalldataFloor(kind, 0) = 21000 /\ Writes(kind) = 0
  /\ \A kind \in {"erc20", "erc20noop", "erc20conflict", "erc721"} :
       CalldataFloor(kind, 0) = 22430 /\ Intrinsic(kind, 0) = 21572
  /\ Writes("erc20") = 2 /\ Writes("erc20noop") = 0 /\ Writes("erc20conflict") = 3 /\ Writes("erc721") = 2
  /\ \A pad \in Nat : CalldataFloor("storagerw", pad) = 26280 + 10 * Padded(pad)
                      /\ Intrinsic("storagerw", pad) = 23112 + 4 * Padded(pad)
  /\ Writes("storagerw") = 1
<1>1. \A kind \in Transfers : HeadBytes(kind)[1] = 0 /\ HeadBytes(kind)[2] = 0
  BY KindFacts DEF HeadBytes
<1>2. \A kind \in {"erc20", "erc20noop", "erc20conflict", "erc721"} :
        HeadBytes(kind)[1] = 25 /\ HeadBytes(kind)[2] = 43
  BY KindFacts DEF HeadBytes
<1>3. HeadBytes("storagerw")[1] = 132 /\ HeadBytes("storagerw")[2] = 0
  BY KindFacts DEF HeadBytes
<1>4. Padded(0) = 0 /\ \A pad \in Nat : Padded(pad) \in Nat
  BY PaddedFacts
<1>5. \A kind \in Transfers : CalldataFloor(kind, 0) = 21000
  BY <1>1, <1>4 DEF CalldataFloor
<1>6. \A kind \in {"erc20", "erc20noop", "erc20conflict", "erc721"} :
        CalldataFloor(kind, 0) = 22430 /\ Intrinsic(kind, 0) = 21572
  BY <1>2, <1>4 DEF CalldataFloor, Intrinsic
<1>7. ASSUME NEW pad \in Nat
      PROVE  CalldataFloor("storagerw", pad) = 26280 + 10 * Padded(pad)
             /\ Intrinsic("storagerw", pad) = 23112 + 4 * Padded(pad)
  <2>1. PICK p \in Nat : p = Padded(pad)
    BY <1>4
  <2>. QED BY <1>3, <2>1 DEF CalldataFloor, Intrinsic
<1>8. /\ \A kind \in Transfers : Writes(kind) = 0
      /\ Writes("erc20") = 2 /\ Writes("erc20noop") = 0 /\ Writes("erc20conflict") = 3 /\ Writes("erc721") = 2
      /\ Writes("storagerw") = 1
  BY KindFacts DEF Writes
<1>. QED BY <1>5, <1>6, <1>7, <1>8

\* What the chain makes of a transaction that was built: it is admitted unless
\* a fee was picked, a doomed call fails, and no other call does but a transfer
\* whose gas was picked.
LEMMA BuiltExecutes ==
  ASSUME NEW s, ScenarioTypes(s), ValidScenario(s), s.kind \in Kinds,
         NEW sender, NEW receiver, NEW id, NEW tx \in CreateTransaction(s, sender, receiver, id)
  PROVE  /\ ~Admitted(tx) => s.tip # {} \/ s.cap # {}
         /\ ~Executes(s.kind, tx) => s.kind \in Doomed \/ (s.kind \in Transfers /\ s.gas # {})
         /\ s.kind \in Doomed => ~Executes(s.kind, tx)
<1>1. CASE s.kind \in Transfers
  <2>1. tx.pad = 0 /\ tx.gas \in Picked(s.gas, 21000) /\ (s.tip = {} /\ s.cap = {} => Admitted(tx))
    BY <1>1, TransferTx
  <2>2. s.kind \notin Doomed
    BY <1>1, KindFacts DEF Doomed
  <2>3. s.kind # "disperse" /\ CalldataFloor(s.kind, 0) = 21000 /\ Writes(s.kind) = 0
    BY <1>1, Prices, KindFacts
  <2>4. s.gas = {} => Executes(s.kind, tx)
    <3>1. s.gas = {} => tx.gas = 21000
      BY <2>1 DEF Picked
    <3>. QED BY <2>1, <2>3, <3>1 DEF Executes
  <2>. QED BY <1>1, <2>1, <2>2, <2>4
<1>2. CASE s.kind = "storagerw"
  <2>1. s.kind \in Contracts /\ s.kind \notin Doomed
    BY <1>2, KindFacts DEF Doomed
  <2>2. Admitted(tx) /\ tx.pad \in PickPad(s) /\ tx.gas = GasLimit(tx.pad)
    BY <1>2, <2>1, CallTx
  <2>3. PICK p \in Nat : p = Padded(tx.pad)
    BY <2>2, PadRange, PaddedFacts
  <2>4. tx.gas = 50000 + p * 10
    BY <2>2, <2>3 DEF GasLimit, storageRWBaseGas
  <2>5. CalldataFloor("storagerw", tx.pad) = 26280 + 10 * p /\ Intrinsic("storagerw", tx.pad) = 23112 + 4 * p
    BY <2>2, <2>3, PadRange, Prices
  <2>6. tx.gas >= CalldataFloor("storagerw", tx.pad)
    BY <2>4, <2>5
  <2>7. tx.gas >= Intrinsic("storagerw", tx.pad) + 4500 + 22100 * 1
    BY <2>4, <2>5
  <2>8. Executes(s.kind, tx)
    BY <1>2, <2>6, <2>7, Prices DEF Executes
  <2>. QED BY <2>1, <2>2, <2>8
<1>3. CASE s.kind \in {"disperse", "erc20conflict", "erc20noop", "erc20", "erc721"}
  <2>1. s.kind \in Contracts /\ s.kind # "storagerw" /\ s.kind \notin Transfers
    BY <1>3, KindFacts
  <2>2. Admitted(tx) /\ tx.pad = 0 /\ tx.value = 0 /\ tx.gas = scenarioFactories[s.kind].gas
    BY <2>1, CallTx
  <2>3. CASE s.kind = "erc20"
    <3>1. tx.gas = 72156
      BY <2>2, <2>3 DEF scenarioFactories, ERC20, Call
    <3>2. CalldataFloor("erc20", 0) = 22430 /\ Intrinsic("erc20", 0) = 21572 /\ Writes("erc20") = 2
      BY Prices
    <3>3. Executes("erc20", tx)
      BY <2>2, <3>1, <3>2 DEF Executes
    <3>. QED BY <2>2, <2>3, <3>3 DEF Doomed
  <2>4. CASE s.kind = "erc20noop"
    <3>1. tx.gas = 22460
      BY <2>2, <2>4 DEF scenarioFactories, ERC20Noop, Call
    <3>2. CalldataFloor("erc20noop", 0) = 22430 /\ Writes("erc20noop") = 0
      BY Prices
    <3>3. Executes("erc20noop", tx)
      BY <2>2, <3>1, <3>2 DEF Executes
    <3>. QED BY <2>2, <2>4, <3>3 DEF Doomed
  <2>5. CASE s.kind \in {"erc20conflict", "erc721"}
    <3>1. tx.gas = 22460
      BY <2>2, <2>5 DEF scenarioFactories, ERC20Conflict, ERC721, Call
    <3>2. Intrinsic(s.kind, 0) = 21572 /\ (Writes(s.kind) = 2 \/ Writes(s.kind) = 3)
      BY <2>5, Prices
    <3>3. ~Executes(s.kind, tx)
      BY <2>2, <3>1, <3>2 DEF Executes
    <3>. QED BY <2>2, <2>5, <3>3 DEF Doomed
  <2>6. CASE s.kind = "disperse"
    BY <2>2, <2>6 DEF Executes, Doomed
  <2>. QED BY <1>3, <2>3, <2>4, <2>5, <2>6
<1>. QED BY <1>1, <1>2, <1>3, KindFacts

\* A pool's next account comes after the one before it.
LEMMA RotationFacts ==
  ASSUME NEW p, Size(p) \in Nat, NEW i \in Nat,
         NEW from \in NextAccount(p, i), NEW to \in NextAccount(p, from[2])
  PROVE  from[1] = to[1] => from[1] = Minted(from[1][1]) \/ Size(from[1][1]) = 1
<1> DEFINE n == Size(p)
<1>1. ASSUME NEW k, NEW a \in NextAccount(p, k)
      PROVE  a = <<Minted(p), k>> \/ (n # 0 /\ a = << <<p, (k + 1) % n>>, (k + 1) % n>>)
  BY DEF NextAccount
<1>2. CASE from = <<Minted(p), i>>
  <2>1. from[1] = Minted(p) /\ Minted(p)[1] = p
    BY <1>2 DEF Minted
  <2>. QED BY <2>1
<1>3. CASE n # 0 /\ from = << <<p, (i + 1) % n>>, (i + 1) % n>>
  <2>1. PICK j \in 0 .. n - 1 : j = (i + 1) % n
    <3>1. n \in Nat /\ n > 0
      BY <1>3
    <3>. HIDE DEF n
    <3>. QED BY <3>1
  <2>2. from[1] = <<p, j>> /\ from[2] = j /\ from[1][1] = p
    BY <1>3, <2>1
  <2>3. CASE to = <<Minted(p), j>>
    <3>1. to[1] = <<p, n>> /\ j # n
      BY <2>3, <2>1 DEF Minted
    <3>. QED BY <2>2, <3>1
  <2>4. CASE to = << <<p, (j + 1) % n>>, (j + 1) % n>>
    <3>1. to[1] = <<p, (j + 1) % n>>
      BY <2>4
    <3>2. from[1] = to[1] => j = (j + 1) % n
      BY <2>2, <3>1
    <3>3. j = (j + 1) % n => n = 1
      <4>1. n \in Nat /\ j \in Nat /\ j < n
        BY <1>3, <2>1
      <4>. HIDE DEF n
      <4>2. CASE j + 1 < n
        <5>1. (j + 1) % n = j + 1
          BY <4>1, <4>2
        <5>. QED BY <4>1, <5>1
      <4>3. CASE j + 1 = n
        <5>1. (j + 1) % n = 0
          BY <4>1, <4>3
        <5>. QED BY <4>1, <4>3, <5>1
      <4>. QED BY <4>1, <4>2, <4>3
    <3>. QED BY <2>2, <3>2, <3>3
  <2>. QED BY <1>1, <2>2, <2>3, <2>4
<1>. QED BY <1>1, <1>2, <1>3

\* What a transaction draws is in range.
LEMMA BuiltInRange ==
  ASSUME NEW s, ScenarioTypes(s), ValidScenario(s), s.kind \in Kinds, FirstBad(s) = {},
         NEW sender, NEW receiver, NEW id, NEW tx \in CreateTransaction(s, sender, receiver, id)
  PROVE  /\ tx.slot = 0 \/ tx.slot < s.recordCount
         /\ tx.pad = 0 \/ tx.pad \in Range(s.sizeBuckets)
         /\ s.kind \in Transfers => \A g \in s.gas : g.name = "random" => tx.gas \in g.min .. g.max
<1>1. CASE s.kind \in Contracts
  <2>1. s.kind \notin Transfers
    BY <1>1, KindFacts
  <2>2. \/ tx.slot \in PickSlot(s) /\ tx.pad \in PickPad(s)
        \/ tx.slot = 0 /\ tx.pad = 0
    BY <1>1, CallTx
  <2>. QED BY <2>1, <2>2, SlotRange, PadRange
<1>2. CASE s.kind \in Transfers
  <2>1. tx.slot = 0 /\ tx.pad = 0 /\ tx.gas \in Picked(s.gas, 21000)
    BY <1>2, TransferTx
  <2>2. ASSUME NEW g \in s.gas, g.name = "random" PROVE tx.gas \in g.min .. g.max
    <3>1. PICK h \in s.gas : tx.gas \in GenerateGas(h)
      BY <2>1 DEF Picked
    <3>2. h = g /\ g.min \in 0 .. Word - 1 /\ g.max \in 0 .. Word - 1
      BY DEF ScenarioTypes
    <3>3. PICK u \in 0 .. g.max - g.min : tx.gas = g.min + u
      BY <2>2, <3>1, <3>2 DEF GenerateGas
    <3>4. g.min \in Int /\ g.max \in Int
      BY <3>2, WorkloadAssumption
    <3>. QED BY <3>3, <3>4
  <2>. QED BY <2>1, <2>2
<1>. QED BY <1>1, <1>2, KindFacts

-----------------------------------------------------------------------------
(* What is offered.                                                         *)

\* The round-robin is one of the orders build may give it.
RoundRobin == gens = <<>> \/ gens \in Shuffles(Slots)

\* The turns go round it; there is one for each transaction.
TurnsInOrder ==
  /\ counter = Len(turns)
  /\ turns # <<>> => gens # <<>>
  /\ GoesRound(turns, Len(turns), gens, Len(gens))

\* The last transaction is that of the last turn, and what it draws is in range.
LastAsConfigured ==
  \A offer \in last : turns # <<>> /\ DrawsAreInRange(offer, ScenarioList[turns[Len(turns)]])

\* The inductive invariant, on top of StartupInv.
OffersInv == RoundRobin /\ TurnsInOrder /\ LastAsConfigured /\ OffersExecute

\* The pools and what is drawn from them are the profile's.
LEMMA OffersStay ==
  ASSUME profile' = profile, UNCHANGED <<gens, counter, last, turns>>, OffersInv
  PROVE  OffersInv'
<1>1. ScenarioList' = ScenarioList /\ Slots' = Slots
  BY DEF ScenarioList, Slots, Copies
<1>2. \A p : Size(p)' = Size(p) /\ Minted(p)' = Minted(p)
  BY <1>1 DEF Size, PoolConfig, Minted
<1>3. RoundRobin' /\ TurnsInOrder'
  BY <1>1 DEF OffersInv, RoundRobin, TurnsInOrder, GoesRound
<1>4. LastAsConfigured'
  BY <1>1, <1>2 DEF OffersInv, LastAsConfigured, DrawsAreInRange
<1>5. OffersExecute'
  BY <1>1 DEF OffersInv, OffersExecute
<1>. QED BY <1>3, <1>4, <1>5 DEF OffersInv

\* One offer: the turn is the next one of the round-robin, and the transaction
\* is as its scenario is configured.
LEMMA OfferKeeps ==
  ASSUME GeneratorOK, Known, OffersInv, profile' = profile, pc = "ready", counter < MaxOffers, Offer
  PROVE  OffersInv'
<1>1. /\ gens # <<>> /\ Accepted /\ CreateScenarios = "ok" /\ profile \in Profiles
      /\ turns \in Seq(DOMAIN ScenarioList) /\ gens' = gens
  BY DEF GeneratorOK, Known, Ended, Paying, Offer
<1>2. PICK s \in DOMAIN ScenarioList : s = Turn
  BY <1>1, TurnFacts
<1>3. PICK S : S = ScenarioList[s]
  OBVIOUS
<1>4. ScenarioTypes(S) /\ ValidScenario(S) /\ S.kind \in Kinds
  <2>1. Created(s) = "ok"
    BY <1>1, CreateOutcome
  <2>. QED BY <1>1, <1>3, <2>1, WorkloadAssumption DEF ScenarioList, Accepted, LoadConfig, Range, Created
<1>5. PICK p : p = PoolOf(s) /\ Size(p) \in Nat /\ p \in Pools
  BY <1>1, PoolFacts
<1>6. PICK from \in NextAccount(p, idx[p]) : \E to \in NextAccount(p, from[2]) :
        /\ FirstBad(S) = {}
        /\ \E tx \in CreateTransaction(S, from[1], to[1], ids'[s]) :
             last' = {[from |-> from[1], receiver |-> to[1], tx |-> tx]}
        /\ counter' = counter + 1
        /\ turns' = Append(turns, s)
  BY <1>2, <1>3, <1>5 DEF Offer
<1>7. PICK to \in NextAccount(p, from[2]) :
        /\ FirstBad(S) = {}
        /\ \E tx \in CreateTransaction(S, from[1], to[1], ids'[s]) :
             last' = {[from |-> from[1], receiver |-> to[1], tx |-> tx]}
        /\ counter' = counter + 1
        /\ turns' = Append(turns, s)
  BY <1>6
<1>8. PICK id : id = ids'[s]
  OBVIOUS
<1>9. PICK tx \in CreateTransaction(S, from[1], to[1], id) :
        last' = {[from |-> from[1], receiver |-> to[1], tx |-> tx]}
  BY <1>7, <1>8
<1>10. PICK o : o = [from |-> from[1], receiver |-> to[1], tx |-> tx]
  OBVIOUS
<1>11. last' = {o} /\ o.from = from[1] /\ o.receiver = to[1] /\ o.tx = tx
  BY <1>9, <1>10
<1>12. /\ ScenarioList' = ScenarioList /\ Slots' = Slots
       /\ \A q : Size(q)' = Size(q) /\ Minted(q)' = Minted(q)
  <2>1. ScenarioList' = ScenarioList
    BY DEF ScenarioList
  <2>. QED BY <2>1 DEF Slots, Copies, Size, PoolConfig, Minted
<1>13. PICK l \in Nat : l = Len(turns) /\ l = counter
  BY <1>1, LenProperties DEF OffersInv, TurnsInOrder, GoesRound
<1>14. /\ Len(turns') = l + 1 /\ turns' # <<>> /\ turns'[l + 1] = s
       /\ \A i \in 1 .. l : turns'[i] = turns[i]
  <2>1. turns' = Append(turns, s)
    BY <1>7
  <2>2. PICK q, D : q = turns /\ D = DOMAIN ScenarioList
    OBVIOUS
  <2>3. q \in Seq(D) /\ s \in D /\ Len(q) = l
    BY <1>1, <1>13, <2>2
  <2>4. /\ Append(q, s) # <<>> /\ Len(Append(q, s)) = Len(q) + 1
        /\ \A i \in 1 .. Len(q) : Append(q, s)[i] = q[i]
        /\ Append(q, s)[Len(q) + 1] = s
    BY ONLY <2>3, AppendProperties
  <2>. QED BY <2>1, <2>2, <2>3, <2>4
<1>15. ScenarioList'[turns'[Len(turns')]] = S
  BY <1>3, <1>12, <1>14
<1>16. RoundRobin'
  BY <1>1, <1>12 DEF OffersInv, RoundRobin
<1>17. TurnsInOrder'
  <2>1. counter' = l + 1
    BY <1>7, <1>13
  <2>2. \A i \in 1 .. l : turns[i] = gens[((i - 1) % Len(gens)) + 1]
    BY <1>13 DEF OffersInv, TurnsInOrder, GoesRound
  <2>3. s = gens[(l % Len(gens)) + 1]
    BY <1>2, <1>13 DEF Turn
  <2>4. (l + 1) - 1 = l /\ \A i \in 1 .. l + 1 : i = l + 1 \/ i \in 1 .. l
    BY <1>13
  <2>5. \A i \in 1 .. l + 1 : turns'[i] = gens[((i - 1) % Len(gens)) + 1]
    BY <1>14, <2>2, <2>3, <2>4
  <2>. QED BY <1>1, <1>14, <2>1, <2>5 DEF TurnsInOrder, GoesRound
<1>18. DrawsAreInRange(o, S)
  <2>1. o.from = o.receiver => o.from = Minted(o.from[1]) \/ Size(o.from[1]) = 1
    <3>1. idx[p] \in Nat
      BY <1>5 DEF GeneratorOK
    <3>. QED BY <1>5, <1>11, <3>1, RotationFacts
  <2>2. /\ o.tx.slot = 0 \/ o.tx.slot < S.recordCount
        /\ o.tx.pad = 0 \/ o.tx.pad \in Range(S.sizeBuckets)
        /\ S.kind \in Transfers => \A g \in S.gas : g.name = "random" => o.tx.gas \in g.min .. g.max
    BY <1>4, <1>7, <1>9, <1>11, BuiltInRange
  <2>3. ASSUME NEW mix \in S.operations, NEW op \in DOMAIN mix
        PROVE  Cardinality({u \in 0 .. Total(mix) - 1 : Select(mix, u) = op}) = mix[op]
    <3>1. mix \in [DOMAIN mix -> 0 .. Word - 1] /\ ~Wraps(mix) /\ DOMAIN mix \subseteq Range(Ops)
      BY <1>4 DEF ScenarioTypes, ValidScenario, ValidMix
    <3>. QED BY <3>1, SelectCounts
  <2>. QED BY <2>1, <2>2, <2>3 DEF DrawsAreInRange
<1>19. LastAsConfigured'
  BY <1>11, <1>12, <1>14, <1>15, <1>18 DEF LastAsConfigured, DrawsAreInRange
<1>20. OffersExecute'
  <2>1. /\ ~Admitted(tx) => S.tip # {} \/ S.cap # {}
        /\ ~Executes(S.kind, tx) => S.kind \in Doomed \/ (S.kind \in Transfers /\ S.gas # {})
        /\ S.kind \in Doomed => ~Executes(S.kind, tx)
    BY <1>4, <1>9, BuiltExecutes
  <2>. QED BY <1>11, <1>15, <2>1 DEF OffersExecute
<1>. QED BY <1>16, <1>17, <1>19, <1>20 DEF OffersInv

\* Every step keeps what is offered as configured.
LEMMA OffersStep ==
  ASSUME StartupInv, OffersInv, [Next]_vars
  PROVE  OffersInv'
<1>1. GeneratorOK /\ Known /\ profile \in Profiles
  BY DEF StartupInv, GeneratorOK
<1>2. profile' = profile
  BY <1>1, StepKinds
<1>3. CASE UNCHANGED workVars
  BY <1>2, <1>3, OffersStay DEF workVars
<1>4. CASE pc = "build" /\ gens' \in Shuffles(Slots) /\ UNCHANGED <<counter, idx, ids, last, turns>>
  <2>1. turns = <<>> /\ last = {} /\ counter = 0
    BY <1>1, <1>4 DEF Known, Ended, Paying, NoGenerator
  <2>2. turns' = <<>> /\ last' = {} /\ counter' = 0
    BY <1>4, <2>1
  <2>3. Slots' = Slots
    BY <1>2 DEF Slots, Copies, ScenarioList
  <2>. QED BY <1>4, <2>2, <2>3 DEF OffersInv, RoundRobin, TurnsInOrder, GoesRound, LastAsConfigured, OffersExecute
<1>5. CASE pc = "ready" /\ counter < MaxOffers /\ Offer
  BY <1>1, <1>2, <1>5, OfferKeeps
<1>6. CASE Restart
  <2>1. gens' = <<>> /\ counter' = 0 /\ last' = {} /\ turns' = <<>>
    BY <1>6 DEF Restart
  <2>. QED BY <2>1 DEF OffersInv, RoundRobin, TurnsInOrder, GoesRound, LastAsConfigured, OffersExecute
<1>. QED BY <1>3, <1>4, <1>5, <1>6, WorkMoves

\* Both invariants hold throughout.
LEMMA OffersInvariant == Spec => [](StartupInv /\ OffersInv)
<1>1. Init => OffersInv
  <2>. SUFFICES ASSUME Init PROVE OffersInv
    OBVIOUS
  <2>1. gens = <<>> /\ counter = 0 /\ last = {} /\ turns = <<>>
    BY DEF Init, NoGenerator
  <2>. QED BY <2>1 DEF OffersInv, RoundRobin, TurnsInOrder, GoesRound, LastAsConfigured, OffersExecute
<1>2. StartupInv /\ OffersInv /\ [Next]_vars => OffersInv'
  BY OffersStep
<1>. QED BY <1>1, <1>2, InitStartup, NextStartup, PTL DEF Spec

\* Of any cycle of consecutive transactions each scenario has as many as its
\* weight says, and of none another; what is drawn for a transaction lies in
\* range, an operation as often as its weight says.
THEOREM OffersFollowProfile == Spec => []OffersAsConfigured
<1>1. StartupInv /\ OffersInv => OffersAsConfigured
  <2>. SUFFICES ASSUME StartupInv, OffersInv PROVE OffersAsConfigured
    OBVIOUS
  <2>1. /\ profile \in Profiles /\ gens \in Seq(DOMAIN ScenarioList) /\ turns \in Seq(DOMAIN ScenarioList)
        /\ TurnsInOrder /\ RoundRobin
    BY DEF StartupInv, GeneratorOK, OffersInv
  <2>2. TurnsFollowWeights
    <3> DEFINE cycle == SumFunction([s \in DOMAIN ScenarioList |-> ScenarioList[s].weight])
    <3>1. PICK l \in Nat : l = Len(turns)
      BY <2>1, LenProperties
    <3>2. CASE turns = <<>>
      <4>1. Len(turns) = 0
        BY <3>2
      <4>2. PICK c \in Nat : c = cycle
        BY <2>1, CycleFacts
      <4>3. \A k \in 0 .. 0 : ~(c # 0 /\ k + c <= 0)
        OBVIOUS
      <4>. QED BY <3>2, <4>1, <4>2, <4>3 DEF TurnsFollowWeights
    <3>3. CASE turns # <<>>
      <4>1. gens # <<>> /\ gens \in Shuffles(Slots)
        BY <2>1, <3>3 DEF TurnsInOrder, GoesRound, RoundRobin
      <4>2. PICK n \in Nat : n = Cardinality(Slots) /\ n = cycle
        BY <2>1, CycleFacts
      <4>3. DOMAIN gens = 1 .. n /\ Len(gens) = n /\ n # 0
        <5>1. DOMAIN gens = 1 .. n
          BY <4>1, <4>2 DEF Shuffles, Orders
        <5>. QED BY <2>1, <4>1, <5>1, EmptySeq, LenProperties
      <4>4. \A i \in 1 .. l : turns[i] = gens[((i - 1) % n) + 1]
        BY <2>1, <3>1, <4>3 DEF TurnsInOrder, GoesRound
      <4>5. ASSUME NEW k \in 0 .. l, NEW s \in DOMAIN ScenarioList, k + n <= l
            PROVE  Cardinality({i \in k + 1 .. k + n : turns[i] = s}) = ScenarioList[s].weight
        <5>1. k \in Nat /\ n > 0
          BY <4>3
        <5>2. Cardinality({i \in k + 1 .. k + n : turns[i] = s}) = Cardinality({j \in 1 .. n : gens[j] = s})
          <6>1. n \in Nat /\ l \in Nat /\ k + n <= l
            BY <3>1, <4>2, <4>5
          <6>2. GoesRound(turns, l, gens, n)
            BY <4>4 DEF GoesRound
          <6>3. Occurrences(turns, k + 1, k + n, s) = Occurrences(gens, 1, n, s)
            BY ONLY <5>1, <6>1, <6>2, WindowCount
          <6>. QED BY <6>3 DEF Occurrences
        <5>3. Cardinality({j \in 1 .. n : gens[j] = s}) = ScenarioList[s].weight
          BY <2>1, <4>1, <4>2, <4>5, RoundRobinCounts
        <5>. QED BY <5>2, <5>3
      <4>. HIDE DEF cycle
      <4>6. cycle # 0 /\ cycle = n
        BY <4>2, <4>3
      <4>7. \A k \in 0 .. Len(turns), s \in DOMAIN ScenarioList :
              cycle # 0 /\ k + cycle <= Len(turns) =>
                Cardinality({i \in k + 1 .. k + cycle : turns[i] = s}) = ScenarioList[s].weight
        BY <3>1, <4>5, <4>6
      <4>. USE DEF cycle
      <4>. QED BY <4>6, <4>7 DEF TurnsFollowWeights
    <3>. QED BY <3>2, <3>3
  <2>3. \A offer \in last : DrawsAreInRange(offer, ScenarioList[turns[Len(turns)]])
    BY DEF OffersInv, LastAsConfigured
  <2>. QED BY <2>2, <2>3 DEF OffersAsConfigured
<1>. QED BY <1>1, OffersInvariant, PTL

\* A transaction that the chain refuses, or that fails there, was asked for by a
\* picker, but for the three scenarios whose calls cannot succeed.
THEOREM OffersSucceed == Spec => []OffersExecute
<1>1. OffersInv => OffersExecute
  BY DEF OffersInv
<1>. QED BY <1>1, OffersInvariant, PTL
=============================================================================
