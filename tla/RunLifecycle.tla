---------------------------- MODULE RunLifecycle ----------------------------
(***************************************************************************)
(* main.go: how a run starts, ends, and becomes an exit status.  runLoadTest *)
(* opens a scope; its body sets the run up (deploy, fund), starts the        *)
(* components as background tasks (some with a scope of their own), prewarms *)
(* through the sender, starts the generator, and waits for a signal.  When   *)
(* the scope has returned, main reads the final statistics and maps the      *)
(* scope's error to the exit status with endedOnRunContext.                  *)
(*                                                                           *)
(* The generator stands for every component that is one loop (the logger is  *)
(* one), the tracker for every component that follows new heads (the block   *)
(* collectors do it the same way); one send task stands for all.             *)
(***************************************************************************)
\* An operator Op_Variant is a faulty variant of Op: the properties are tested
\* against it, no specification uses it.
EXTENDS Scope

CONSTANTS
  SenderScope,  \* the scope of ShardedSender.Run
  TrackerScope, \* the scope of InclusionTracker.Run
  body,         \* the function runLoadTest passes to scope.Run
  sender, tracker, generator,      \* the components body starts
  dispatcher, sendTask,            \* tasks of SenderScope
  headLoop, subWatch, reapLoop,    \* tasks of TrackerScope
  Profiles      \* the settings of the runs that are considered

ASSUME ComponentsAssumption ==
  /\ ScopeId = {Root, SenderScope, TrackerScope}
  /\ Root # SenderScope /\ Root # TrackerScope /\ SenderScope # TrackerScope
  /\ TasksOf(Root) = {body, sender, tracker, generator}
  /\ TasksOf(SenderScope) = {dispatcher, sendTask}
  /\ TasksOf(TrackerScope) = {headLoop, subWatch, reapLoop}
  /\ Background = {sender, tracker, generator, subWatch}
  /\ Body[Root] = body /\ Body[SenderScope] = dispatcher /\ Body[TrackerScope] = headLoop
  /\ Host[SenderScope] = sender /\ Host[TrackerScope] = tracker
  /\ Fault = {"fault", "late"}
  /\ Profiles \subseteq SUBSET {"tracking", "writing", "timed", "limited"}

VARIABLES
  settings,  \* --track-receipts, --txs-dir, --duration, --tps: the flags that are set
  signalled, \* SIGINT or SIGTERM was received by the body
  exit       \* the process's exit status, "none" while it runs

vars == <<scopeVars, settings, signalled, exit>>

Init ==
  /\ ScopeInit
  /\ settings \in Profiles
  /\ signalled = FALSE
  /\ exit = "none"

Tracking == "tracking" \in settings
Writing  == "writing" \in settings
Timed    == "timed" \in settings
Limited  == "limited" \in settings

Started(t) == task[t].pc # "none"

\* Which tasks are started, and in which order.
InOrder(t) ==
  CASE t = tracker   -> Tracking
    [] t = sender    -> ~Writing /\ (Tracking => Started(tracker))
    [] t = generator -> (Tracking => Started(tracker)) /\ (~Writing => Started(sender))
    [] t = reapLoop  -> Started(subWatch)
    [] OTHER         -> TRUE

Start(t) ==
  /\ InOrder(t)
  /\ Spawn(t)
  /\ UNCHANGED <<settings, signalled, exit>>

\* The errors a task can return of its own accord.  Deploying and funding fail
\* inside the body, before the sender is started: prewarming through a sender
\* returns a context's error only, into files it can fail.  Connecting to the
\* node fails before the tracker's tasks are started; the limiter of a run with
\* a deadline refuses a token that would come after it.
CanFail(t, r) ==
  \/ r = "fault" /\ t \in {generator, sendTask, subWatch}
  \/ r = "fault" /\ t = body /\ ~Started(sender) /\ ~Started(generator)
  \/ r = "fault" /\ t = headLoop /\ ~Started(subWatch)
  \/ r = "fault" /\ t = tracker /\ phase[TrackerScope] = "none"
  \/ r = "late" /\ t \in {dispatcher, sendTask} /\ Timed /\ Limited

\* The body ends well on a signal, a send task when its transaction is done.
CanSucceed(t) == t = sendTask \/ (t = body /\ signalled)

Finish(t) ==
  /\ \E r \in Result :
       /\ \/ \E s \in Hosted(t) : phase[s] = "returned"
          \/ r = "ok" /\ CanSucceed(t)
          \/ r \in Fault /\ CanFail(t, r)
          \/ r \in Sentinel /\ Hosted(t) = {}
       /\ TaskReturn(t, r)
  /\ UNCHANGED <<settings, signalled, exit>>

Step(t) == (Report(t) /\ UNCHANGED <<settings, signalled, exit>>) \/ Finish(t)

RunScope(s) == ScopeStep(s) /\ UNCHANGED <<settings, signalled, exit>>

\* The handler is installed once everything is started.
Signal ==
  /\ task[body].pc = "running" /\ Started(generator)
  /\ signalled' = TRUE
  /\ UNCHANGED <<scopeVars, settings, exit>>

RunDeadline ==
  /\ Timed
  /\ Deadline
  /\ UNCHANGED <<settings, signalled, exit>>

\* endedOnRunContext: a context's error is the run finishing.
EndedOnRunContext_NoDeadline(e) == e = "canceled"
EndedOnRunContext(e) == e \in Sentinel

Exit ==
  /\ phase[Root] = "returned"
  /\ exit = "none"
  /\ exit' = IF err[Root] = "ok" \/ EndedOnRunContext(err[Root]) THEN "success" ELSE "failure"
  /\ UNCHANGED <<scopeVars, settings, signalled>>

Over == exit # "none" /\ UNCHANGED vars

Next ==
  \/ \E t \in Task : Start(t) \/ Step(t)
  \/ \E s \in ScopeId : RunScope(s)
  \/ Signal \/ RunDeadline \/ Exit \/ Over

\* Goroutines are scheduled; a task returns once its context has ended or its
\* own scope has returned, and the body once it has received a signal.
Returns(t) ==
  /\ \/ ctxErr[ScopeOf[t]] # "ok"
     \/ \E s \in Hosted(t) : phase[s] = "returned"
     \/ t = body /\ signalled
  /\ Finish(t)

Fairness ==
  /\ \A t \in Task : WF_vars(Report(t) /\ UNCHANGED <<settings, signalled, exit>>) /\ WF_vars(Returns(t))
  /\ \A s \in ScopeId : WF_vars(RunScope(s))
  /\ WF_vars(Exit)

SafeSpec == Init /\ [][Next]_vars
Spec     == SafeSpec /\ Fairness

-----------------------------------------------------------------------------
(* Properties.                                                             *)

\* Types of the run's own state.
TypeOK ==
  /\ ScopeTypeOK
  /\ settings \in Profiles
  /\ signalled \in BOOLEAN
  /\ exit \in {"none", "success", "failure"}

DeadlinePassed == ctxErr[Root] = "deadline"
Failed(t)      == task[t].result = "fault"

\* The scopes of a run as a whole: nobody is left behind and no error vanishes.
ScopesInv == TypeOK /\ RunJoinsAll /\ ErrorsSurface

\* endedOnRunContext: "its duration elapsed, or the operator signalled it.
\* Both are success": only a component that failed makes the run fail.
StopIsSuccess == exit = "failure" => \E t \in Task : Failed(t)

\* endedOnRunContext "reports whether err is just the run finishing: its
\* duration elapsed, or the operator signalled it".
SuccessIsStop == exit = "success" => signalled \/ DeadlinePassed

\* The exit status has its cause.  A run that fails has a task that returned an
\* error of its own: the end of a context alone, by signal, duration or another
\* component, is no failure.  A run that succeeds was stopped: a component's
\* failure is never reported as success, only one of the body itself can be.
ExitHasCause ==
  /\ exit = "failure" => \E t \in Task : task[t].result \in Fault
  /\ exit = "success" => signalled \/ DeadlinePassed \/ Failed(body)

\* A signal, or any component's failure, ends the process.
StopExits ==
  (signalled \/ \E t \in Task : task[t].pc = "done" /\ Failed(t)) ~> exit # "none"
=============================================================================
