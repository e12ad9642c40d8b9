----------------------------- MODULE MCStartup -----------------------------
(* Profiles that differ in what the steps between the file and the first      *)
(* transactions decide on.                                                    *)
EXTENDS Startup

None == {}
NoValues == [k \in {} |-> 0]
Accs(n, r) == {[count |-> n, rate |-> r]}
Picker(name, min, max) == {[name |-> name, min |-> min, max |-> max]}

Of(kind, weight) ==
  [kind |-> kind, weight |-> weight, accounts |-> None, operations |-> None,
   keyDistribution |-> None, recordCount |-> 0, sizeDistribution |-> None, sizeBuckets |-> <<>>,
   gas |-> None, tip |-> None, cap |-> None]
Storage(weight) == Of("storagerw", weight)
Plain(weight) == Of("evmtransfer", weight)

Unfunded(accounts, scenarios) ==
  [accounts |-> accounts, scenarios |-> scenarios, funding |-> FALSE, batch |-> 0,
   rootKeyFile |-> "", rootKeyEnv |-> "", mockDeploy |-> FALSE, endpoints |-> 2, nodes |-> 0,
   hasSettings |-> TRUE, settings |-> NoValues, flags |-> NoValues, misspelt |-> {}]
Funding(accounts, scenarios) ==
  [Unfunded(accounts, scenarios) EXCEPT !.funding = TRUE, !.rootKeyFile = "key"]
\* A dry run without endpoints, asked for by a flag.
Mocked(accounts, scenarios) ==
  [Unfunded(accounts, scenarios) EXCEPT !.endpoints = 0, !.flags = "dryRun" :> 1]

\* Two contracts around a scenario without one; the one without a weight is
\* deployed and has a pool that nobody funds.
Deploying == <<Storage(1), Plain(2), [Storage(0) EXCEPT !.accounts = Accs(1, 0)]>>

Drawing ==
  [Storage(1) EXCEPT
     !.operations = {"rmw" :> 2 @@ "read" :> 0 @@ "write" :> 1},
     !.keyDistribution = {"zipfian"}, !.recordCount = 3,
     !.sizeDistribution = {"uniform"}, !.sizeBuckets = <<0, 33, 8192>>]
Gas(name, min, max) == [Plain(1) EXCEPT !.gas = Picker(name, min, max)]

\* Accepted, with two pools, one of them shared; funded, or with a pool that mints.
Deployments ==
  {Funding(Accs(2, 0), Deploying), Unfunded(Accs(2, 0), Deploying),
   [Funding(Accs(2, 0), Deploying) EXCEPT !.settings = "txsDir" :> 1],
   [Funding(Accs(3, 0), <<Plain(1)>>) EXCEPT !.batch = 1, !.rootKeyFile = "", !.rootKeyEnv = "key"],
   Unfunded(Accs(3, 1), <<[Plain(1) EXCEPT !.accounts = Accs(2, 0)], Plain(2)>>),
   [Mocked(Accs(2, 1), Deploying) EXCEPT !.endpoints = 1, !.funding = TRUE, !.rootKeyFile = "unreadable",
                                       !.accounts = Accs(2, 0)]}

\* Every kind of scenario, and every draw.
Draws ==
  {Mocked(Accs(2, 0), <<s>>) :
     s \in {Of(kind, 1) : kind \in Kinds} \cup
           {Drawing, Gas("random", 20999, 21001), Gas("fixed", 3, 0), Gas("", 0, 0),
            [Of("evmtransferfast", 1) EXCEPT !.tip = Picker("random", 1, 3), !.cap = Picker("fixed", 2, 0)],
            [Of("evmtransfernoop", 1) EXCEPT !.tip = Picker("fixed", Word - 1, 0)],
            [Drawing EXCEPT !.keyDistribution = {""}, !.recordCount = 1, !.operations = None],
            [Drawing EXCEPT !.sizeDistribution = {"zipfian"}, !.sizeBuckets = <<64>>]}}

\* Accepted, and the run fails or panics.
Failing ==
  {Unfunded(a, <<s>>) :
     a \in {Accs(2, 0), Accs(0, 1), None},
     s \in {Storage(0), Gas("random", 5, 5), Of("unknown", 1),
            [Gas("random", 0, Word - 1) EXCEPT !.cap = Picker("random", 5, 5)],
            [Storage(1) EXCEPT !.cap = Picker("random", 0, Word - 1)]}} \cup
  {[Mocked(Accs(1, 0), <<Plain(1)>>) EXCEPT !.settings = "txsDir" :> 1],
   [Unfunded(Accs(1, 0), <<Plain(1)>>) EXCEPT !.flags = "statsInterval" :> 0],
   [Funding(Accs(2, 0), <<Plain(1)>>) EXCEPT
      !.settings = "statsInterval" :> -1 @@ "trackUserLatency" :> 1, !.batch = 1],
   [Funding(Accs(1, 0), <<Storage(1)>>) EXCEPT !.rootKeyFile = "unreadable", !.rootKeyEnv = "key"],
   [Funding(Accs(1, 0), <<Storage(1)>>) EXCEPT !.mockDeploy = TRUE, !.nodes = 1]}

\* Refused, but for the last of the settings: a 0 of the file is the default,
\* and a flag that was set is preferred to the file.
Refused ==
  {Funding(Accs(1, 1), <<Plain(1)>>),
   [Funding(Accs(1, 0), <<Plain(1)>>) EXCEPT !.rootKeyFile = ""],
   Funding(Accs(1, 0), <<[Plain(1) EXCEPT !.accounts = Accs(1, 1)]>>),
   Unfunded(Accs(1, 0), <<>>),
   [Unfunded(Accs(1, 0), <<Plain(1)>>) EXCEPT !.misspelt = {"field"}],
   [Unfunded(Accs(1, 0), <<Plain(1)>>) EXCEPT !.endpoints = 0],
   [Mocked(Accs(1, 0), <<Plain(1)>>) EXCEPT !.settings = "dryRun" :> 1, !.flags = "dryRun" :> 0],
   [Unfunded(Accs(1, 0), <<Plain(1)>>) EXCEPT !.hasSettings = FALSE],
   [Unfunded(Accs(1, 0), <<Plain(1)>>) EXCEPT !.flags = "maxInFlight" :> 0],
   [Unfunded(Accs(1, 0), <<Plain(1)>>) EXCEPT !.settings = "maxInFlight" :> 0]} \cup
  {Unfunded(Accs(1, 0), <<s>>) :
     s \in {[Storage(1) EXCEPT !.recordCount = 1], [Storage(1) EXCEPT !.sizeDistribution = {"uniform"}],
            [Storage(1) EXCEPT !.keyDistribution = {"uniform"}, !.recordCount = maxRecordCount + 1],
            [Plain(1) EXCEPT !.operations = {"rmw" :> 1}]} \cup
           {[Storage(1) EXCEPT !.operations = {m}] :
              m \in {"mint" :> 1, "rmw" :> 0, "rmw" :> Word - 1 @@ "write" :> 3}}}

MCProfiles == Deployments \cup Draws \cup Failing \cup Refused
MCBalances == {0, 1}
=============================================================================
