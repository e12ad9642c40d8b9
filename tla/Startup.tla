------------------------------ MODULE Startup ------------------------------
(***************************************************************************)
(* What a run does before it offers load, around the steps of Workload: the *)
(* profile is checked and its scenarios created, generator.go deploys the    *)
(* contract of each (deployAll, scenarios/base.go) and builds the round-robin, *)
(* then funder/funder.go gives every account of the generator a balance       *)
(* through a contract it deploys itself; then transactions are generated.     *)
(* A run may mock all of it, or write its transactions to files.             *)
(* All of it is one goroutine sending one transaction after the other from   *)
(* one key, each under a budget of its own (utils/budget.go), to a chain      *)
(* that may refuse a transaction, revert it, mine it late or never.           *)
(* A run that fails may be started again, with new accounts but with the      *)
(* same funding key, while a transaction of its predecessor is still pending. *)
(***************************************************************************)
\* An operator Op_Variant is a faulty variant of Op: the properties are tested
\* against it, no specification uses it.
EXTENDS Workload

CONSTANTS
  Amount,     \* FundingConfig.FundAmount
  Default,    \* DefaultFundBatchSize
  Balances,   \* the balances a pool account may start with
  MaxRuns     \* bound on restarts

ASSUME StartupAssumption ==
  /\ Amount \in Nat /\ Default \in Nat \ {0} /\ Balances \subseteq Nat
  /\ MaxRuns \in Nat \ {0}

VARIABLES
  runNo,       \* history: which run of the profile this is
  pc,          \* where the startup goroutine is
  next,        \* deployAll: the scenario it is at
  deployed,    \* the scenarios whose ScenarioBase.deployed is set
  underfunded, \* FundAccounts: the accounts no batch was sent for yet
  txs,         \* external: the transactions the chain accepted, in order
  balance,     \* external: [AllAccounts -> Nat]
  start,       \* history: the balances the run started with
  ctxDone      \* the context of the run has ended

runVars == <<profile, runNo, start>>
vars == <<profile, runNo, pc, next, deployed, underfunded, txs, balance, start, ctxDone, workVars>>

\* "ready": transactions are generated.  "failed": an error without a context
\* sentinel; "stopped": one with.
Over == {"ready", "failed", "stopped", "panicked"}
Waits == {"deployWait", "disperseWait", "batchWait"}
Pcs  == {"load", "deployer", "create", "attach", "deploy", "build", "sender", "filter", "disperse", "code", "batch"}
          \cup Waits \cup Over

Init ==
  /\ profile \in Profiles
  /\ NoGenerator
  /\ runNo = 1
  /\ pc = "load"
  /\ next = 1
  /\ deployed = {}
  /\ underfunded = {}
  /\ txs = <<>>
  /\ balance \in [AllAccounts -> Balances]
  /\ start = balance
  /\ ctxDone = FALSE

-----------------------------------------------------------------------------
(* One transaction: sent, and awaited under a budget.                      *)

\* funder.Deployer: the funding root, or else a new account in every run.
Signer == IF SignsAsRoot(profile) THEN 0 ELSE runNo

\* resolveRootKey: a file that is named decides, the environment is no substitute.
HasRootKey ==
  IF profile.rootKeyFile # "" THEN profile.rootKeyFile = "key" ELSE profile.rootKeyEnv = "key"

\* bind leaves auth.Nonce nil and asks for PendingNonceAt: what the chain
\* accepted from that key, mined or not.
PendingNonce_Mined(key) == Cardinality({i \in DOMAIN txs : txs[i].key = key /\ txs[i].status # "pending"})
PendingNonce(key) == Cardinality({i \in DOMAIN txs : txs[i].key = key})

Tx(what, to) ==
  [key |-> Signer, nonce |-> PendingNonce(Signer), run |-> runNo,
   what |-> what, to |-> to, status |-> "pending"]

\* An error carries a context sentinel only if the context has ended.
Fail ==
  \/ pc' = "failed"
  \/ ctxDone /\ pc' = "stopped"

\* The chain accepts the transaction and the caller goes on to await it; it
\* accepts it but the call fails; or the call fails and nothing was accepted.
Send(what, to, wait) ==
  \/ txs' = Append(txs, Tx(what, to)) /\ pc' = wait
  \/ txs' = Append(txs, Tx(what, to)) /\ Fail
  \/ UNCHANGED txs /\ Fail

\* The startup goroutine awaits the last transaction it sent.
Awaited == Len(txs)

Succeeded_AnyReceipt == txs[Awaited].status # "pending"
Succeeded == txs[Awaited].status = "ok"
Reverted == txs[Awaited].status = "reverted"

\* WithinBudget: an expiry loses its sentinel, unless the context ended too.
Expire_KeepsSentinel == pc' = "stopped"
Expire_OnlyCtx == ctxDone /\ pc' = "stopped"
Expire == pc' = IF ctxDone THEN "stopped" ELSE "failed"

\* The wait ends without a good receipt: reverted, cancelled or out of budget.
GiveUp ==
  /\ pc \in Waits
  /\ \/ Reverted /\ pc # "deployWait" /\ pc' = "failed"
     \/ Expire
  /\ UNCHANGED <<runVars, next, deployed, underfunded, txs, balance, ctxDone, workVars>>

\* failedDeployment asks the node twice for a reason; whatever it answers, and
\* whether or not the context has ended meanwhile, its error has no sentinel.
FailedDeployment ==
  /\ pc = "deployWait" /\ Reverted
  /\ pc' = "failed"
  /\ UNCHANGED <<runVars, next, deployed, underfunded, txs, balance, ctxDone, workVars>>

-----------------------------------------------------------------------------
(* The profile, the scenario instances, and deployAll.                     *)

\* The exporter of an accepted run may still refuse its configuration.
LoadProfile ==
  /\ pc = "load"
  /\ \/ Accepted /\ pc' = "deployer"
     \/ pc' = "failed"
  /\ UNCHANGED <<runVars, next, deployed, underfunded, txs, balance, ctxDone, workVars>>

Deployer ==
  /\ pc = "deployer"
  /\ pc' = IF SignsAsRoot(profile) /\ ~HasRootKey THEN "failed" ELSE "create"
  /\ UNCHANGED <<runVars, next, deployed, underfunded, txs, balance, ctxDone, workVars>>

Create ==
  /\ pc = "create"
  /\ pc' = IF CreateScenarios # "ok" THEN CreateScenarios
           ELSE IF MockDeploy(profile) THEN "attach" ELSE "deploy"
  /\ UNCHANGED <<runVars, next, deployed, underfunded, txs, balance, ctxDone, workVars>>

\* A transfer needs no contract.
IsContract(s) == ScenarioList[s].kind \in Contracts

\* ScenarioBase.deployed of the scenario at hand.
MarkDeployed == deployed' = deployed \cup {next}

\* mockDeployAll attaches a scenario to an address of nothing; a contract's
\* AttachScenario dials the first endpoint, if there is one, and panics on a
\* failure.
Attach ==
  /\ pc = "attach" /\ next \in DOMAIN ScenarioList
  /\ \/ next' = next + 1 /\ MarkDeployed /\ UNCHANGED pc
     \/ IsContract(next) /\ Endpoints(profile) > 0
        /\ pc' = "panicked" /\ UNCHANGED <<next, deployed>>
  /\ UNCHANGED <<runVars, underfunded, txs, balance, ctxDone, workVars>>

DeployPlain ==
  /\ pc = "deploy" /\ next \in DOMAIN ScenarioList /\ ~IsContract(next)
  /\ next' = next + 1
  /\ MarkDeployed
  /\ UNCHANGED <<runVars, pc, underfunded, txs, balance, ctxDone, workVars>>

\* deployWithin: to dial, to read the nonce and to send may each fail.
DeployContract ==
  /\ pc = "deploy" /\ next \in DOMAIN ScenarioList /\ IsContract(next)
  /\ Send("deploy", {next}, "deployWait")
  /\ UNCHANGED <<runVars, next, deployed, underfunded, balance, ctxDone, workVars>>

DeployMined ==
  /\ pc = "deployWait" /\ Succeeded
  /\ next' = next + 1
  /\ MarkDeployed
  /\ pc' = "deploy"
  /\ UNCHANGED <<runVars, underfunded, txs, balance, ctxDone, workVars>>

DeployedAll ==
  /\ pc \in {"attach", "deploy"} /\ next = Len(ScenarioList) + 1
  /\ pc' = "build"
  /\ UNCHANGED <<runVars, next, deployed, underfunded, txs, balance, ctxDone, workVars>>

\* A profile without weights fails here, after its contracts were deployed.
Build ==
  /\ pc = "build"
  /\ IF Slots = {} THEN pc' = "failed" /\ UNCHANGED gens
     ELSE pc' = "sender" /\ gens' \in Shuffles(Slots)
  /\ UNCHANGED <<runVars, next, deployed, underfunded, txs, balance, ctxDone, counter, idx, ids, last, turns>>

\* The writer starts at the chain's height; a sender's pool may need funds.
OpenWriter ==
  /\ pc = "sender" /\ WritesFiles(profile)
  /\ IF Endpoints(profile) = 0 THEN pc' = "failed" ELSE pc' = "ready" \/ Fail
  /\ UNCHANGED <<runVars, next, deployed, underfunded, txs, balance, ctxDone, workVars>>

OpenSender ==
  /\ pc = "sender" /\ ~WritesFiles(profile)
  /\ pc' = IF Funds(profile) THEN "filter" ELSE "ready"
  /\ UNCHANGED <<runVars, next, deployed, underfunded, txs, balance, ctxDone, workVars>>

-----------------------------------------------------------------------------
(* FundAccounts                                                            *)

Underfunded_AtMost == {a \in Accounts : balance[a] <= Amount}
Underfunded == {a \in Accounts : balance[a] < Amount}

\* The queries run side by side, but nothing credits the pool meanwhile.
FilterUnderfunded ==
  /\ pc = "filter"
  /\ \/ underfunded' = Underfunded /\ pc' = IF Underfunded = {} THEN "ready" ELSE "disperse"
     \/ UNCHANGED underfunded /\ Fail
  /\ UNCHANGED <<runVars, next, deployed, txs, balance, ctxDone, workVars>>

DeployDisperse ==
  /\ pc = "disperse"
  /\ Send("disperse", {}, "disperseWait")
  /\ UNCHANGED <<runVars, next, deployed, underfunded, balance, ctxDone, workVars>>

DisperseMined ==
  /\ pc = "disperseWait" /\ Succeeded
  /\ pc' = "code"
  /\ UNCHANGED <<runVars, next, deployed, underfunded, txs, balance, ctxDone, workVars>>

\* CodeAt may fail, and may answer with no code.
CheckCode ==
  /\ pc = "code"
  /\ pc' = "batch" \/ Fail
  /\ UNCHANGED <<runVars, next, deployed, underfunded, txs, balance, ctxDone, workVars>>

Batch == BatchOr(Default)

\* The order within the underfunded list is that of a map.
Chunks ==
  {c \in SUBSET underfunded :
     Cardinality(c) = IF Batch < Cardinality(underfunded) THEN Batch ELSE Cardinality(underfunded)}

DisperseEther ==
  /\ pc = "batch" /\ underfunded # {}
  /\ \E chunk \in Chunks :
       /\ Send("batch", chunk, "batchWait")
       /\ underfunded' = underfunded \ chunk
  /\ UNCHANGED <<runVars, next, deployed, balance, ctxDone, workVars>>

BatchMined ==
  /\ pc = "batchWait" /\ Succeeded
  /\ pc' = "batch"
  /\ UNCHANGED <<runVars, next, deployed, underfunded, txs, balance, ctxDone, workVars>>

Funded ==
  /\ pc = "batch" /\ underfunded = {}
  /\ pc' = "ready"
  /\ UNCHANGED <<runVars, next, deployed, underfunded, txs, balance, ctxDone, workVars>>

-----------------------------------------------------------------------------
(* The chain, the end of the context, and the restart of a failed run.     *)

\* A key's transactions are mined in the order of their nonces.  A batch that
\* succeeds credits its accounts, which are this run's only if it is.
Mine ==
  /\ \E i \in DOMAIN txs, status \in {"ok", "reverted"} :
       /\ txs[i].status = "pending"
       /\ \A j \in 1 .. i - 1 : txs[j].key = txs[i].key => txs[j].status # "pending"
       /\ txs' = [txs EXCEPT ![i].status = status]
       /\ LET paid == IF status = "ok" /\ txs[i].run = runNo /\ txs[i].what = "batch"
                      THEN txs[i].to ELSE {}
          IN balance' = [a \in AllAccounts |-> IF a \in paid THEN balance[a] + Amount ELSE balance[a]]
  /\ UNCHANGED <<runVars, pc, next, deployed, underfunded, ctxDone, workVars>>

CtxEnds ==
  /\ ~ctxDone /\ pc \notin Over
  /\ ctxDone' = TRUE
  /\ UNCHANGED <<runVars, pc, next, deployed, underfunded, txs, balance, workVars>>

Restart ==
  /\ pc \in Over \ {"ready"} /\ runNo < MaxRuns
  /\ runNo' = runNo + 1
  /\ pc' = "load"
  /\ next' = 1
  /\ deployed' = {} /\ underfunded' = {}
  /\ balance' \in [AllAccounts -> Balances] /\ start' = balance'
  /\ ctxDone' = FALSE
  /\ gens' = <<>> /\ counter' = 0 /\ last' = {} /\ turns' = <<>>
  /\ idx' = [p \in Pools |-> 0] /\ ids' = [s \in DOMAIN ScenarioList |-> 0]
  /\ UNCHANGED <<profile, txs>>

\* Generator.Run, one iteration: a transaction, an error, or a panic.
Generate ==
  /\ pc = "ready" /\ counter < MaxOffers
  /\ \/ Offer /\ UNCHANGED pc
     \/ TurnFails /\ pc' = "failed" /\ UNCHANGED workVars
     \/ TurnPanics /\ pc' = "panicked" /\ UNCHANGED workVars
  /\ UNCHANGED <<runVars, next, deployed, underfunded, txs, balance, ctxDone>>

\* The logger's ticker, once the run is ready, or the user latency tracker's,
\* started before the sender: the process ends wherever the startup is.
TickerPanics ==
  /\ BadTicker(profile)
  /\ \/ pc = "ready"
     \/ TracksUserLatency(profile)
        /\ pc \in {"sender", "filter", "disperse", "disperseWait", "code", "batch", "batchWait"}
  /\ pc' = "panicked"
  /\ UNCHANGED <<runVars, next, deployed, underfunded, txs, balance, ctxDone, workVars>>

Program ==
  \/ LoadProfile \/ Deployer \/ Create \/ Build \/ Attach \/ DeployPlain \/ DeployContract \/ DeployMined \/ DeployedAll
  \/ FilterUnderfunded \/ DeployDisperse \/ DisperseMined \/ CheckCode
  \/ OpenWriter \/ OpenSender \/ DisperseEther \/ BatchMined \/ Funded \/ GiveUp \/ FailedDeployment

Next == Program \/ Generate \/ TickerPanics \/ Mine \/ CtxEnds \/ Restart

\* The goroutine runs on, an RPC call is answered and a budget expires.  The
\* chain need not mine and the context need not end.
Spec == Init /\ [][Next]_vars /\ WF_vars(Program)

-----------------------------------------------------------------------------
(* What the startup promises.                                              *)

\* The state stays within its types.
TypeOK ==
  /\ WorkTypeOK /\ runNo \in 1 .. MaxRuns /\ pc \in Pcs
  /\ next \in 1 .. Len(ScenarioList) + 1 /\ deployed \subseteq DOMAIN ScenarioList
  /\ underfunded \subseteq AllAccounts /\ ctxDone \in BOOLEAN
  /\ balance \in [AllAccounts -> Nat] /\ start \in [AllAccounts -> Balances]
  /\ \A i \in DOMAIN txs : txs[i].status \in {"pending", "ok", "reverted"}

\* funder/doc.go, "One nonce stream": no two transactions of a key carry the
\* same nonce, whichever run or phase sent them and whatever is still pending.
NoncesDistinct ==
  \A i, j \in DOMAIN txs :
    i # j /\ txs[i].key = txs[j].key => txs[i].nonce # txs[j].nonce

\* Each transaction of a run was sent after the one before it had succeeded:
\* of all that a run sent, only the last may be pending or have failed.
EachAwaited ==
  \A i, j \in DOMAIN txs :
    i < j /\ txs[i].run = txs[j].run => txs[i].status = "ok"

\* The nonce stream's invariant, over all phases and runs.
OneNonceStream == TypeOK /\ NoncesDistinct /\ EachAwaited

\* A run that offers load has every scenario deployed, finds the contract of
\* each on the chain and, when it funds its pool, the amount on every account.
ReadyMeansReady ==
  pc = "ready" =>
    /\ deployed = DOMAIN ScenarioList
    /\ ~MockDeploy(profile) =>
       \A s \in DOMAIN ScenarioList : IsContract(s) =>
         \E i \in DOMAIN txs :
           txs[i].run = runNo /\ txs[i].what = "deploy" /\ txs[i].to = {s} /\ txs[i].status = "ok"
    /\ Funds(profile) => \A a \in Accounts : balance[a] >= Amount

\* Funding pays an account at most once, and none that had the amount; a run
\* that is not funded pays nobody, and --dry-run sends nothing at all.
PaidOnce ==
  /\ \A a \in AllAccounts :
       balance[a] # start[a] =>
         Funds(profile) /\ start[a] < Amount /\ balance[a] = start[a] + Amount
  /\ "dryRun" \in DOMAIN profile.flags /\ profile.flags["dryRun"] = 1 => txs = <<>>

\* A startup that times out is a failure: main takes a context sentinel for a
\* clean stop, so one leaves the startup only when the context has ended.
StopWasRequested == pc = "stopped" => ctxDone

\* Scenario.Validate: a malformed configuration would "otherwise surface as a
\* hot-path panic".  Of the accepted profiles five kinds still panic, and no
\* other: an unknown scenario, a contract attached by way of an endpoint that
\* cannot be dialled, a pool of no accounts, a fee or gas range of full width,
\* and a statistics interval that is not positive.
PanicsAreKnown ==
  pc = "panicked" =>
    \/ \E s \in DOMAIN ScenarioList : ScenarioList[s].kind \notin Kinds
    \/ MockDeploy(profile) /\ Endpoints(profile) > 0 /\ deployed # DOMAIN ScenarioList
    \/ BadTicker(profile)
    \/ gens # <<>> /\ (Size(PoolOf(Turn)) = 0 \/ PickerPanics(ScenarioList[Turn]))

\* A startup that stopped was asked to, and one that panicked is a known case.
EndHasReason == StopWasRequested /\ PanicsAreKnown

\* In a run that is funded only accounts that hold the amount send: the pools
\* the run draws from are those that were funded, and none of them mints.
SendersArePaid ==
  Funds(profile) => \A offer \in last :
    offer.from \in AllAccounts /\ balance[offer.from] >= Amount

\* Startup ends, also on a chain that accepts transactions and never mines them.
StartupEnds == [](pc \notin Over => <>(pc \in Over))
=============================================================================
