------------------------------ MODULE Workload ------------------------------
(***************************************************************************)
(* From a profile to the transactions of a run: what the configuration       *)
(* accepts (config.go, operation.go, funding.go), the pools and the weighted *)
(* round-robin the generator builds (generator.go, account_pool.go), and the *)
(* turns in which it asks the Scenarios for transactions.  Startup puts      *)
(* these steps around deployment and funding.                                *)
(***************************************************************************)
\* An operator Op_Variant is a faulty variant of Op: the properties are tested
\* against it, no specification uses it.
EXTENDS Scenarios, Settings

CONSTANTS
  Profiles,  \* the profiles considered, see profile
  MaxOffers  \* bound on the transactions of a run

\* The types a Scenario's fields have once they are parsed, whatever the file
\* says: Distribution and GasPicker know their names only, what a mix weighs and
\* gas are unsigned, and a pointer is nil or set.  The scenario's weight and the
\* count of its accounts are ints that a profile is taken not to make negative.
ScenarioTypes(s) ==
  /\ s.weight \in Nat
  /\ \A a \in s.accounts : a.count \in Nat /\ a.rate \in {0, 1}
  /\ s.recordCount \in Nat /\ s.sizeBuckets \in Seq(Int)
  /\ s.keyDistribution \cup s.sizeDistribution \subseteq Distributions
  /\ \A mix \in s.operations : mix \in [DOMAIN mix -> 0 .. Word - 1]
  /\ \A g \in s.gas \cup s.tip \cup s.cap :
       /\ g.name \in GasPickers
       /\ g.min \in 0 .. Word - 1 /\ g.max \in 0 .. Word - 1
  /\ \A g, h \in s.gas : g = h

ASSUME WorkloadAssumption ==
  /\ Word \in Nat \ {0} /\ MaxOffers \in Nat
  /\ \A p \in Profiles :
       /\ \A a \in p.accounts : a.count \in Nat /\ a.rate \in {0, 1}
       /\ p.batch \in Nat /\ p.endpoints \in Nat /\ p.nodes \in Nat
       /\ p.funding \in BOOLEAN /\ p.mockDeploy \in BOOLEAN
       /\ DOMAIN p.settings \subseteq DOMAIN DefaultSettings
       /\ DOMAIN p.flags \subseteq DOMAIN DefaultSettings
       /\ p.scenarios \in Seq(Range(p.scenarios))
       /\ \A i \in DOMAIN p.scenarios : ScenarioTypes(p.scenarios[i])

VARIABLES
  profile,  \* the LoadConfig: scenarios, accounts, funding with batch and root
            \* key, mockDeploy, endpoints, settings (if hasSettings), the keys it
            \* misspells; and the flags and --nodes
  gens,     \* Generator.scenarios: positions in profile.scenarios
  counter,  \* Run's counter
  idx,      \* AccountPool.idx of every pool
  ids,      \* ERC721Scenario.id of every scenario
  last,     \* the last transaction generated, if any
  turns     \* history: the scenarios of all of them

workVars == <<gens, counter, idx, ids, last, turns>>

ScenarioList == profile.scenarios

-----------------------------------------------------------------------------
(* What the load of a profile accepts.                                     *)

\* ParseLoadConfig is strict, but for the types that parse their own payload
\* (the distributions and the pickers) and the keys of an operation mix.
ParseLoadConfig == "field" \notin profile.misspelt

\* OperationMix.validate.
ValidMix(s) ==
  \A mix \in s.operations :
    /\ s.kind = "storagerw"
    /\ DOMAIN mix \subseteq Range(Ops)
    /\ ~Wraps(mix) /\ Total(mix) # 0

maxCalldataPadBytes == 131072
maxRecordCount == 10000000

\* Scenario.Validate: an axis has both its sampler and its space, or neither.
ValidScenario(s) ==
  /\ \A i \in DOMAIN s.sizeBuckets : s.sizeBuckets[i] \in 0 .. maxCalldataPadBytes
  /\ s.recordCount <= maxRecordCount
  /\ s.keyDistribution = {} <=> s.recordCount = 0
  /\ s.sizeDistribution = {} <=> s.sizeBuckets = <<>>
  /\ ValidMix(s)

\* ValidateFunding: the root key is named, and accounts minted on demand cannot
\* be funded.
NamesRootKey == profile.rootKeyFile # "" \/ profile.rootKeyEnv # ""
ValidFunding_TopLevel ==
  profile.funding => NamesRootKey /\ \A a \in profile.accounts : a.rate = 0
ValidFunding ==
  profile.funding => /\ NamesRootKey
                     /\ \A a \in profile.accounts : a.rate = 0
                     /\ \A s \in Range(ScenarioList) : \A a \in s.accounts : a.rate = 0

\* FundingConfig.Batch; Default is DefaultFundBatchSize.
BatchOr(default) == IF profile.batch = 0 THEN default ELSE profile.batch

\* loadConfig, and the checks with which runLoadTest begins.
LoadConfig ==
  /\ ParseLoadConfig
  /\ ScenarioList # <<>>
  /\ \A s \in Range(ScenarioList) : ValidScenario(s)
  /\ ValidFunding
Accepted ==
  /\ LoadConfig
  /\ profile.hasSettings
  /\ Valid(SettingsOf(profile))
  /\ profile.endpoints = 0 => DryRun(profile)

-----------------------------------------------------------------------------
(* The scenario instances and their pools.                                 *)

Pools == 0 .. Len(ScenarioList)

\* A scenario's own pool, or pool 0, the shared one.
PoolOf(s) == IF ScenarioList[s].accounts # {} THEN s ELSE 0
PoolConfig(p) == IF p = 0 THEN profile.accounts ELSE ScenarioList[p].accounts
Size(p) == CHOOSE n \in {a.count : a \in PoolConfig(p)} : TRUE
Mints(p) == \E a \in PoolConfig(p) : a.rate > 0

\* The accounts of a pool; Minted stands for one made by NextAccount.
PoolAccounts(p) == IF PoolConfig(p) = {} THEN {} ELSE {<<p, i>> : i \in 0 .. Size(p) - 1}
Minted(p) == <<p, Size(p)>>
AllAccounts == UNION {PoolAccounts(p) : p \in Pools}

\* createScenarios, one entry: CreateScenario and Picker panic.
Created(s) ==
  IF ScenarioList[s].kind \notin Kinds \/ \E mix \in ScenarioList[s].operations : Wraps(mix)
  THEN "panicked"
  ELSE IF PoolConfig(PoolOf(s)) = {} THEN "failed" ELSE "ok"

\* The outcome of createScenarios is that of the first entry that is not "ok".
CreateScenarios ==
  LET bad == {s \in DOMAIN ScenarioList : Created(s) # "ok"}
  IN IF bad = {} THEN "ok" ELSE Created(CHOOSE s \in bad : \A t \in bad : s <= t)

\* build: each instance as often as its weight says, in any order.
Copies_Once(s) == IF ScenarioList[s].weight = 0 THEN 0 ELSE 1
Copies(s) == ScenarioList[s].weight
Slots == UNION {{s} \X (1 .. Copies(s)) : s \in DOMAIN ScenarioList}
Orders(slots) == {f \in [1 .. Cardinality(slots) -> slots] : Range(f) = slots}
Shuffles(slots) == {[k \in DOMAIN f |-> f[k][1]] : f \in Orders(slots)}

\* Generator.Accounts: the pools of the scenarios that have a weight.
Accounts == UNION {PoolAccounts(PoolOf(s)) : s \in Range(gens)}

-----------------------------------------------------------------------------
(* One turn.                                                               *)

\* NextAccount: the accounts it may return, each with idx after it.
NextAccount(p, i) ==
  (IF Mints(p) THEN {<<Minted(p), i>>} ELSE {}) \cup
  (IF Size(p) = 0 THEN {} ELSE {<< <<p, (i + 1) % Size(p)>>, (i + 1) % Size(p)>>})

\* The scenario whose turn it is.
Turn == gens[(counter % Len(gens)) + 1]

\* The turn ends in an error, or in a panic of the generator's goroutine.
TurnFails == PickerFails(ScenarioList[Turn])
TurnPanics == Size(PoolOf(Turn)) = 0 \/ PickerPanics(ScenarioList[Turn])

\* AddInt64: only an ERC721 counts.
NextId(s) == IF ScenarioList[s].kind = "erc721" THEN ids[s] + 1 ELSE ids[s]

\* One iteration of Generator.Run: a sender, a receiver, a transaction.
Offer ==
  LET s == Turn
      p == PoolOf(s)
  IN \E from \in NextAccount(p, idx[p]) : \E to \in NextAccount(p, from[2]) :
       /\ FirstBad(ScenarioList[s]) = {}
       /\ idx' = [idx EXCEPT ![p] = to[2]]
       /\ ids' = [ids EXCEPT ![s] = NextId(s)]
       /\ \E tx \in CreateTransaction(ScenarioList[s], from[1], to[1], ids'[s]) :
            last' = {[from |-> from[1], receiver |-> to[1], tx |-> tx]}
       /\ counter' = counter + 1
       /\ turns' = Append(turns, s)
       /\ UNCHANGED gens

\* The generator before build.
NoGenerator ==
  /\ gens = <<>> /\ counter = 0 /\ last = {} /\ turns = <<>>
  /\ idx = [p \in Pools |-> 0] /\ ids = [s \in DOMAIN ScenarioList |-> 0]

-----------------------------------------------------------------------------
(* What a profile's transactions promise.                                  *)

WorkTypeOK ==
  /\ profile \in Profiles
  /\ gens \in Seq(DOMAIN ScenarioList) /\ counter \in 0 .. MaxOffers
  /\ idx \in [Pools -> Nat] /\ ids \in [DOMAIN ScenarioList -> 0 .. MaxOffers]
  /\ Cardinality(last) <= 1 /\ turns \in Seq(DOMAIN ScenarioList)

\* generator/doc.go, "the round-robin the run draws from": of any cycle's length
\* of consecutive transactions each scenario has as many as its weight says,
\* wherever the cycle begins; a scenario of weight 0 has none.
TurnsFollowWeights ==
  LET cycle == SumFunction([s \in DOMAIN ScenarioList |-> ScenarioList[s].weight])
  IN /\ turns # <<>> => cycle # 0
     /\ \A k \in 0 .. Len(turns), s \in DOMAIN ScenarioList :
          cycle # 0 /\ k + cycle <= Len(turns) =>
            Cardinality({i \in k + 1 .. k + cycle : turns[i] = s}) = ScenarioList[s].weight

\* What is drawn is in range and as configured: the slot lies in the keyspace,
\* the pad is a bucket, an operation is drawn by as many values of the draw as
\* its weight says, a picked gas limit lies in its range; an account pays
\* another one unless its pool has no other.
DrawsAreInRange(offer, s) ==
  /\ offer.from = offer.receiver => offer.from = Minted(offer.from[1]) \/ Size(offer.from[1]) = 1
  /\ offer.tx.slot = 0 \/ offer.tx.slot < s.recordCount
  /\ offer.tx.pad = 0 \/ offer.tx.pad \in Range(s.sizeBuckets)
  /\ \A mix \in s.operations : \A op \in DOMAIN mix :
       Cardinality({u \in 0 .. Total(mix) - 1 : Select(mix, u) = op}) = mix[op]
  /\ s.kind \in Transfers => \A g \in s.gas : g.name = "random" => offer.tx.gas \in g.min .. g.max

\* The mixture a run offers is the configured one, turn by turn and draw by draw.
OffersAsConfigured ==
  /\ TurnsFollowWeights
  /\ \A offer \in last : DrawsAreInRange(offer, ScenarioList[turns[Len(turns)]])

\* The scenarios whose calls cannot succeed as they are built: two for want of
\* gas, disperse for want of a value.
Doomed == {"erc20conflict", "erc721", "disperse"}

\* "so such a tx is admitted, reserves its full declared limit, then fails in
\* execution with GasUsed equal to the limit ... and inflates the very gas-used
\* metric the run reports" (StorageRW.go): a transaction that the chain refuses
\* or that fails there was asked for by a picker, but for those of Doomed.
OffersExecute ==
  \A offer \in last : LET s == ScenarioList[turns[Len(turns)]] IN
    /\ ~Admitted(offer.tx) => s.tip # {} \/ s.cap # {}
    /\ ~Executes(s.kind, offer.tx) => s.kind \in Doomed \/ (s.kind \in Transfers /\ s.gas # {})
    /\ s.kind \in Doomed => ~Executes(s.kind, offer.tx)
=============================================================================
