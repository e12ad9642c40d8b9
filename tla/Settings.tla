------------------------------ MODULE Settings ------------------------------
(***************************************************************************)
(* config/settings.go: the settings of a run, from the defaults, the file's *)
(* settings object and the flags, by way of viper; and what runLoadTest      *)
(* decides from them (main.go).                                              *)
(*                                                                           *)
(* A value is a number: a switch is 0 or 1, a path 0 when it is empty, a     *)
(* duration a number of seconds.  The file's object and the flags are        *)
(* functions on the names they mention.                                      *)
(***************************************************************************)
EXTENDS Integers, FiniteSets

\* The arrival models.
ClosedLoop == 1
OpenLoop == 2

DefaultSettings ==
  [tps |-> 0, statsInterval |-> 10, inclusionReapAfter |-> 30, bufferSize |-> 1000,
   dryRun |-> 0, debug |-> 0, trackReceipts |-> 0, trackBlocks |-> 0, trackUserLatency |-> 0,
   prewarm |-> 0, rampUp |-> 0, reportPath |-> 0, txsDir |-> 0, targetGas |-> 10000000,
   numBlocksToWrite |-> 100, postSummaryFlushDelay |-> 25, arrivalModel |-> ClosedLoop,
   maxInFlight |-> 10000]

\* LoadSettings marshals the object again, and every field is omitempty: a zero
\* of the file does not reach viper.
LoadSettings(file) == {k \in DOMAIN file : file[k] # 0}

\* ResolveSettings: viper prefers a flag that was set, then the file, then the
\* default (InitializeViper).
ResolveSettings(file, flags) ==
  [k \in DOMAIN DefaultSettings |->
     IF k \in DOMAIN flags THEN flags[k]
     ELSE IF k \in LoadSettings(file) THEN file[k] ELSE DefaultSettings[k]]

\* Settings.Validate.
Valid(settings) == settings.maxInFlight > 0

\* --nodes, 0 when the flag is not given.
LimitEndpoints(endpoints, nodes) == IF nodes \in 1 .. endpoints - 1 THEN nodes ELSE endpoints

-----------------------------------------------------------------------------
(* The decisions, for a profile p.                                         *)

SettingsOf(p) == ResolveSettings(p.settings, p.flags)
Endpoints(p) == LimitEndpoints(p.endpoints, p.nodes)

DryRun(p) == SettingsOf(p).dryRun = 1
\* MockDeploy, which a dry run sets.
MockDeploy(p) == p.mockDeploy \/ DryRun(p)
\* The deployments are signed with the funding root.
SignsAsRoot(p) == p.funding /\ ~MockDeploy(p)
\* Transactions are written to files; or else the pool may have to be funded.
WritesFiles(p) == SettingsOf(p).txsDir # 0
Funds(p) == p.funding /\ ~MockDeploy(p) /\ ~WritesFiles(p)

\* The loops with a ticker of StatsInterval: one before funding, one after it.
TracksUserLatency(p) == Endpoints(p) > 0 /\ SettingsOf(p).trackUserLatency = 1
\* time.NewTicker panics.
BadTicker(p) == SettingsOf(p).statsInterval <= 0
=============================================================================
