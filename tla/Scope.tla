------------------------------- MODULE Scope -------------------------------
(***************************************************************************)
(* utils/scope/start.go: structured concurrency.  Run(main) starts `main`   *)
(* as the scope's body; the body spawns main tasks (Spawn) and background   *)
(* tasks (SpawnBg).  A task's error cancels the scope's context; so does    *)
(* the return of the last main task.  Run returns when every task has, with *)
(* the error recorded first.  A task may run a scope of its own, whose      *)
(* context descends from the context of the scope the task is in: Root is   *)
(* the run of main.go, the other scopes are those of its components.        *)
(* RunLifecycle puts these actions together into the runs of a profile.     *)
(***************************************************************************)
\* An operator Op_Variant is a faulty variant of Op: the properties are tested
\* against it, no specification uses it.
EXTENDS FiniteSets

CONSTANTS
  ScopeId,    \* scopes
  Root,       \* the scope all others descend from
  Task,       \* tasks
  ScopeOf,    \* [Task -> the scope it is spawned in]
  Body,       \* [ScopeId -> the task that is the scope's body]
  Background, \* the tasks started with SpawnBg
  Host,       \* [ScopeId \ {Root} -> the task of Root that calls its Run]
  Fault       \* errors tasks return of their own accord

ASSUME RootAssumption       == Root \in ScopeId
ASSUME ScopeOfAssumption    == ScopeOf \in [Task -> ScopeId]
ASSUME BackgroundAssumption == Background \subseteq Task
ASSUME BodyAssumption       ==
  /\ Body \in [ScopeId -> Task \ Background]
  /\ \A s \in ScopeId : ScopeOf[Body[s]] = s
ASSUME HostAssumption       ==
  /\ Host \in [ScopeId \ {Root} -> {t \in Task : ScopeOf[t] = Root}]
  /\ \A s, u \in ScopeId \ {Root} : Host[s] = Host[u] => s = u

VARIABLES
  phase,    \* [ScopeId -> where its Run is]
  ctxErr,   \* [ScopeId -> Err() of its context: "ok" while it is live]
  err,      \* [ScopeId -> scope.err]
  task,     \* [Task -> its progress and what it returned]
  first     \* history: [ScopeId -> the first error a task of it returned]

scopeVars == <<phase, ctxErr, err, task, first>>

\* "canceled" and "deadline" are the two errors of a context.
Sentinel == {"canceled", "deadline"}
Result   == {"ok"} \cup Fault \cup Sentinel

ASSUME FaultAssumption == Fault \cap ({"ok"} \cup Sentinel) = {}

TasksOf(s) == {t \in Task : ScopeOf[t] = s}
MainOf(s)  == TasksOf(s) \ Background
Hosted(t)  == {s \in ScopeId \ {Root} : Host[s] = t}

ScopeInit ==
  /\ phase = [s \in ScopeId |-> IF s = Root THEN "open" ELSE "none"]
  /\ ctxErr = [s \in ScopeId |-> "ok"]
  /\ err = [s \in ScopeId |-> "ok"]
  /\ task = [t \in Task |-> [pc |-> IF t = Body[Root] THEN "running" ELSE "none", result |-> "ok"]]
  /\ first = [s \in ScopeId |-> "ok"]

\* cancel() of the context of s; a context keeps its first error, and the
\* contexts below it are cancelled with it.
Descends(u, s) == u = s \/ s = Root
CancelCtx_Not(s) == UNCHANGED ctxErr
CancelCtx(s) ==
  ctxErr' = [u \in ScopeId |-> IF Descends(u, s) /\ ctxErr[u] = "ok" THEN "canceled" ELSE ctxErr[u]]

\* Spawn and SpawnBg, called by the running body.
Spawn(t) ==
  /\ task[t].pc = "none"
  /\ t # Body[ScopeOf[t]]
  /\ task[Body[ScopeOf[t]]].pc = "running"
  /\ task' = [task EXCEPT ![t].pc = "running"]
  /\ UNCHANGED <<phase, ctxErr, err, first>>

\* A task calls Run: a context derived from its own, and the body spawned.
StartScope(s) ==
  /\ s # Root
  /\ phase[s] = "none"
  /\ task[Host[s]].pc = "running"
  /\ phase' = [phase EXCEPT ![s] = "open"]
  /\ ctxErr' = [ctxErr EXCEPT ![s] = ctxErr[Root]]
  /\ task' = [task EXCEPT ![Body[s]].pc = "running"]
  /\ UNCHANGED <<err, first>>

\* What a task may return: the result of a scope it runs once that has
\* returned, and otherwise its own result, the error of its context included.
MayReturn(t, r) ==
  /\ \A s \in Hosted(t) : phase[s] = "none" \/ (phase[s] = "returned" /\ r = err[s])
  /\ r \in Sentinel =>
       ctxErr[ScopeOf[t]] = r \/ \E s \in Hosted(t) : phase[s] = "returned"

\* The task's function returns.  For a main task the deferred main.Done runs
\* here, before the caller sees the error.
TaskReturn(t, r) ==
  /\ task[t].pc = "running"
  /\ MayReturn(t, r)
  /\ task' = [task EXCEPT ![t] = [pc |-> "returned", result |-> r]]
  /\ LET s == ScopeOf[t]
     IN first' = [first EXCEPT ![s] = IF @ = "ok" THEN r ELSE @]
  /\ UNCHANGED <<phase, ctxErr, err>>

\* errOnce: the first error stays.
Keep_Last(old, new) == new
Keep(old, new) == IF old = "ok" THEN new ELSE old

\* Then, in a later step, an error is passed to Cancel, which keeps the first
\* it is given; and all.Done.
Report(t) ==
  /\ task[t].pc = "returned"
  /\ task' = [task EXCEPT ![t].pc = "done"]
  /\ LET s == ScopeOf[t]
         e == task[t].result
     IN \/ e = "ok" /\ UNCHANGED <<ctxErr, err>>
        \/ /\ e # "ok"
           /\ err' = [err EXCEPT ![s] = Keep(@, e)]
           /\ CancelCtx(s)
  /\ UNCHANGED <<phase, first>>

\* Run: main.Wait() returned; s.cancel().
MainDone(s) ==
  /\ phase[s] = "open"
  /\ \A t \in MainOf(s) : task[t].pc # "running"
  /\ phase' = [phase EXCEPT ![s] = "joining"]
  /\ CancelCtx(s)
  /\ UNCHANGED <<err, task, first>>

\* The tasks all.Wait() waits for.
Awaited_MainOnly(s) == MainOf(s)
Awaited(s) == TasksOf(s)

\* Run: all.Wait() returned; so does Run.
AllDone(s) ==
  /\ phase[s] = "joining"
  /\ \A t \in Awaited(s) : task[t].pc \in {"none", "done"}
  /\ phase' = [phase EXCEPT ![s] = "returned"]
  /\ UNCHANGED <<ctxErr, err, task, first>>

\* The deadline of the context Root was given passes.
Deadline ==
  /\ ctxErr[Root] = "ok"
  /\ ctxErr' = [s \in ScopeId |-> IF ctxErr[s] = "ok" THEN "deadline" ELSE ctxErr[s]]
  /\ UNCHANGED <<phase, err, task, first>>

ScopeStep(s) == StartScope(s) \/ MainDone(s) \/ AllDone(s)

-----------------------------------------------------------------------------
(* Properties.                                                             *)

\* Types of the scopes' state.
ScopeTypeOK ==
  /\ phase \in [ScopeId -> {"none", "open", "joining", "returned"}]
  /\ ctxErr \in [ScopeId -> {"ok"} \cup Sentinel]
  /\ err \in [ScopeId -> Result]
  /\ task \in [Task -> [pc : {"none", "running", "returned", "done"}, result : Result]]
  /\ first \in [ScopeId -> Result]

\* "Run will return only after all the tasks have completed", and that holds
\* through the nesting: when the outermost Run has returned, no task of any
\* scope below it is left, so what main reads afterwards is final.
RunJoinsAll ==
  \A s \in ScopeId : phase[s] = "returned" =>
    \A u \in ScopeId : Descends(u, s) => \A t \in TasksOf(u) : task[t].pc \in {"none", "done"}

\* A failing task makes Run fail, with an error that one of its tasks returned.
ErrorsSurface ==
  \A s \in ScopeId : phase[s] = "returned" =>
    \/ err[s] = "ok" /\ \A t \in TasksOf(s) : task[t].result = "ok"
    \/ err[s] # "ok" /\ \E t \in TasksOf(s) : task[t].result = err[s]

\* The context came to its end from above, not by a task of the scope itself.
Outside(s) == IF s = Root THEN ctxErr[Root] = "deadline" ELSE ctxErr[Root] # "ok"

\* In a scope without background tasks (the sender's) the failure that ended
\* it is the one Run returns: an error that merely follows from the
\* cancellation cannot overtake it.
MainOnlyKeepsCause ==
  \A s \in ScopeId :
    phase[s] = "returned" /\ ~Outside(s)
      /\ (\A t \in TasksOf(s) \cap Background : task[t].pc = "none")
    => (first[s] \notin Sentinel => err[s] \notin Sentinel)
=============================================================================
