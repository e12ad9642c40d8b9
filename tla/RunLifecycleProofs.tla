-------------------------- MODULE RunLifecycleProofs --------------------------
(***************************************************************************)
(* The scopes of a run and its exit status, for every set of profiles and    *)
(* every interleaving of tasks, errors, cancellations, the signal and the    *)
(* deadline.  The inductive invariant has four parts: types, what a scope's  *)
(* phase says of its tasks, what its error says of their results, and what   *)
(* may have cancelled a context.                                             *)
(***************************************************************************)
EXTENDS RunLifecycle, TLAPS

Below == ScopeId \ {Root}

\* A scope that has not begun has no task, one that is over has none left, and
\* one in between has a host that waits for it.
Joining ==
  /\ \A t \in Task : task[t].pc # "none" => phase[ScopeOf[t]] # "none"
  /\ \A t \in Task : phase[ScopeOf[t]] = "returned" => task[t].pc \in {"none", "done"}
  /\ \A s \in Below : phase[s] \in {"open", "joining"} => task[Host[s]].pc = "running"

\* The error of a scope is one that a task of it reported, and there is one if
\* any task reported any.
Errors ==
  /\ \A t \in Task : task[t].pc \in {"none", "running"} => task[t].result = "ok"
  /\ \A t \in Task : task[t].pc = "done" /\ task[t].result # "ok" => err[ScopeOf[t]] # "ok"
  /\ \A s \in ScopeId : err[s] # "ok" => \E t \in TasksOf(s) : task[t].result = err[s]

Quiet(s) == \A t \in TasksOf(s) : task[t].pc # "running"

\* While the run's context lives, a component's scope ends by its own doing: its
\* context was cancelled by an error, which is recorded, or when no task was left to
\* be told; so no task of it returns the context's error before there is another one.
OwnCause ==
  \A s \in Below : ctxErr[Root] = "ok" =>
    /\ ctxErr[s] = "ok" \/ err[s] # "ok" \/ Quiet(s)
    /\ \A t \in TasksOf(s) : task[t].result \in Sentinel => err[s] # "ok"
    /\ err[s] \notin Sentinel

\* Once subWatch runs, the head loop ends only with its context.
HeadLoopEnds ==
  Started(subWatch) =>
    /\ task[headLoop].pc # "none"
    /\ task[headLoop].pc # "running" => task[headLoop].result \in Sentinel

\* The same for the run, as long as its body runs and it is not out of time: what
\* ends the body's context is then a component's failure.
BodyRuns ==
  task[body].pc = "running" /\ ctxErr[Root] # "deadline" =>
    /\ ctxErr[Root] # "ok" => err[Root] # "ok"
    /\ \A t \in TasksOf(Root) : task[t].result \in Sentinel => err[Root] # "ok"
    /\ err[Root] \notin Sentinel

\* How the body ends.
BodyEnds ==
  task[body].pc \in {"returned", "done"} =>
    \/ task[body].result = "ok" /\ signalled
    \/ Failed(body)
    \/ task[body].result \in Sentinel /\ (DeadlinePassed \/ err[Root] \in Fault)

Ended ==
  /\ task[body].pc # "none"
  /\ exit # "none" => phase[Root] = "returned"
  /\ ExitHasCause

RunInv == TypeOK /\ Joining /\ Errors /\ OwnCause /\ HeadLoopEnds /\ BodyRuns /\ BodyEnds /\ Ended

-----------------------------------------------------------------------------
(* The wiring.                                                             *)

\* Which names are tasks and scopes, and which of them coincide with no other.
LEMMA Wiring ==
  /\ {body, sender, tracker, generator, dispatcher, sendTask, headLoop, subWatch, reapLoop} \subseteq Task
  /\ ScopeOf[body] = Root /\ ScopeOf[sender] = Root /\ ScopeOf[tracker] = Root /\ ScopeOf[generator] = Root
  /\ ScopeOf[dispatcher] = SenderScope /\ ScopeOf[sendTask] = SenderScope
  /\ ScopeOf[headLoop] = TrackerScope /\ ScopeOf[subWatch] = TrackerScope /\ ScopeOf[reapLoop] = TrackerScope
  /\ body \notin Background /\ headLoop \notin Background /\ dispatcher \notin Background
<1>1. TasksOf(Root) = {body, sender, tracker, generator}
  BY ComponentsAssumption
<1>2. TasksOf(SenderScope) = {dispatcher, sendTask}
  BY ComponentsAssumption
<1>3. TasksOf(TrackerScope) = {headLoop, subWatch, reapLoop}
  BY ComponentsAssumption
<1>4. body \notin Background /\ headLoop \notin Background /\ dispatcher \notin Background
  BY ComponentsAssumption, BodyAssumption
<1>. QED BY <1>1, <1>2, <1>3, <1>4 DEF TasksOf

\* A scope's body is a task of that scope; a host is a background task of the run.
LEMMA Bodies ==
  /\ \A s \in ScopeId : Body[s] \in Task /\ ScopeOf[Body[s]] = s
  /\ \A s \in Below : Host[s] \in Task /\ ScopeOf[Host[s]] = Root /\ Host[s] \in Background
  /\ \A t \in Task : ScopeOf[t] \in ScopeId
  /\ \A t \in Task : ScopeOf[t] # Root => Hosted(t) = {}
  /\ Hosted(body) = {}
<1>1. \A s \in ScopeId : Body[s] \in Task /\ ScopeOf[Body[s]] = s
  BY BodyAssumption
<1>2. \A s \in Below : Host[s] \in Task /\ ScopeOf[Host[s]] = Root
  BY HostAssumption DEF Below
<1>3. \A s \in Below : Host[s] \in Background
  BY ComponentsAssumption DEF Below
<1>4. \A t \in Task : ScopeOf[t] \in ScopeId
  BY ScopeOfAssumption
<1>5. \A t \in Task : ScopeOf[t] # Root => Hosted(t) = {}
  BY <1>2 DEF Below, Hosted
<1>6. Hosted(body) = {}
  BY <1>3, Wiring DEF Below, Hosted
<1>. QED BY <1>1, <1>2, <1>3, <1>4, <1>5, <1>6

\* The types the following proofs use.
LEMMA Typed ==
  ASSUME TypeOK
  PROVE  /\ \A s \in ScopeId : phase[s] \in {"none", "open", "joining", "returned"}
         /\ \A s \in ScopeId : ctxErr[s] \in {"ok"} \cup Sentinel /\ err[s] \in Result
         /\ DOMAIN phase = ScopeId /\ DOMAIN ctxErr = ScopeId /\ DOMAIN err = ScopeId
         /\ \A t \in Task : task[t] \in [pc : {"none", "running", "returned", "done"}, result : Result]
         /\ DOMAIN task = Task
BY DEF TypeOK, ScopeTypeOK

-----------------------------------------------------------------------------
(* Types.                                                                  *)

\* The initial state is well typed.
LEMMA TypeInit == Init => TypeOK
<1>. SUFFICES ASSUME Init PROVE TypeOK
  OBVIOUS
<1>. QED BY DEF Init, ScopeInit, TypeOK, ScopeTypeOK, Result

\* Cancelling keeps a context's error one of the three.
LEMMA CancelTypes ==
  ASSUME TypeOK, NEW s \in ScopeId, CancelCtx(s)
  PROVE  ctxErr' \in [ScopeId -> {"ok"} \cup Sentinel]
BY DEF TypeOK, ScopeTypeOK, CancelCtx, Sentinel

\* Every step assigns what it should: one case per action.
LEMMA TypeStep == ASSUME TypeOK, [Next]_vars PROVE TypeOK'
<1>. USE DEF TypeOK, ScopeTypeOK
<1>1. ASSUME NEW t \in Task, Start(t) PROVE TypeOK'
  BY <1>1 DEF Start, Spawn
<1>2. ASSUME NEW t \in Task, Report(t), UNCHANGED <<settings, signalled, exit>> PROVE TypeOK'
  <2>1. task' \in [Task -> [pc : {"none", "running", "returned", "done"}, result : Result]]
    BY <1>2 DEF Report
  <2>2. CASE task[t].result = "ok"
    BY <1>2, <2>1, <2>2 DEF Report
  <2>3. CASE task[t].result # "ok"
    <3>1. CancelCtx(ScopeOf[t]) /\ err' = [err EXCEPT ![ScopeOf[t]] = Keep(@, task[t].result)]
          /\ UNCHANGED <<phase, first>>
      BY <1>2, <2>3 DEF Report
    <3>2. ctxErr' \in [ScopeId -> {"ok"} \cup Sentinel]
      BY <3>1, CancelTypes, Bodies
    <3>3. err' \in [ScopeId -> Result]
      BY <3>1, Bodies DEF Keep
    <3>. QED BY <1>2, <2>1, <3>1, <3>2, <3>3
  <2>. QED BY <2>2, <2>3
<1>3. ASSUME NEW t \in Task, Finish(t) PROVE TypeOK'
  <2>1. PICK r \in Result : TaskReturn(t, r)
    BY <1>3 DEF Finish
  <2>2. UNCHANGED <<settings, signalled, exit>>
    BY <1>3 DEF Finish
  <2>. QED BY <2>1, <2>2, Bodies DEF TaskReturn
<1>4. ASSUME NEW s \in ScopeId, RunScope(s) PROVE TypeOK'
  <2>1. CASE StartScope(s)
    BY <1>4, <2>1, Bodies, RootAssumption DEF RunScope, StartScope
  <2>2. CASE MainDone(s)
    <3>1. ctxErr' \in [ScopeId -> {"ok"} \cup Sentinel]
      BY <2>2, CancelTypes DEF MainDone
    <3>. QED BY <1>4, <2>2, <3>1 DEF RunScope, MainDone
  <2>3. CASE AllDone(s)
    BY <1>4, <2>3 DEF RunScope, AllDone
  <2>. QED BY <1>4, <2>1, <2>2, <2>3 DEF RunScope, ScopeStep
<1>5. CASE Signal
  BY <1>5 DEF Signal, scopeVars
<1>6. CASE RunDeadline
  BY <1>6 DEF RunDeadline, Deadline, Sentinel
<1>7. CASE Exit
  BY <1>7 DEF Exit, scopeVars
<1>8. CASE UNCHANGED vars
  BY <1>8 DEF vars, scopeVars
<1>. QED BY <1>1, <1>2, <1>3, <1>4, <1>5, <1>6, <1>7, <1>8 DEF Next, Step, Over

-----------------------------------------------------------------------------
(* Phases and tasks.                                                       *)

\* At first there is the run's own scope with its body.
LEMMA JoiningInit == Init => Joining
<1>. SUFFICES ASSUME Init PROVE Joining
  OBVIOUS
<1>. QED BY Bodies, Wiring DEF Init, ScopeInit, Joining, Below

\* Every step keeps phases and tasks in agreement.
LEMMA JoiningStep == ASSUME TypeOK, Joining, [Next]_vars PROVE Joining'
<1>1. ASSUME NEW t \in Task, Start(t) PROVE Joining'
  <2>1. phase[ScopeOf[t]] \notin {"none", "returned"}
    BY <1>1, Bodies DEF Start, Spawn, Joining
  <2>. QED BY <1>1, <2>1, Typed DEF Start, Spawn, Joining
<1>2. ASSUME NEW t \in Task, Report(t), UNCHANGED <<settings, signalled, exit>> PROVE Joining'
  BY <1>2, Bodies, Typed DEF Report, Joining
<1>3. ASSUME NEW t \in Task, Finish(t) PROVE Joining'
  <2>1. PICK r \in Result : TaskReturn(t, r)
    BY <1>3 DEF Finish
  <2>2. \A s \in Below : phase[s] \in {"open", "joining"} => Host[s] # t
    BY <2>1 DEF TaskReturn, MayReturn, Hosted, Below
  <2>3. phase[ScopeOf[t]] \notin {"none", "returned"}
    BY <2>1 DEF TaskReturn, Joining
  <2>. QED BY <2>1, <2>2, <2>3, Bodies, Typed DEF TaskReturn, Joining
<1>4. ASSUME NEW s \in ScopeId, RunScope(s) PROVE Joining'
  <2>1. CASE StartScope(s)
    BY <1>4, <2>1, Bodies, Typed DEF StartScope, Joining, Below
  <2>2. CASE MainDone(s)
    BY <1>4, <2>2, Bodies, Typed DEF MainDone, Joining, Below
  <2>3. CASE AllDone(s)
    <3>1. \A t \in Task : ScopeOf[t] = s => task[t].pc \in {"none", "done"}
      BY <2>3 DEF AllDone, Awaited, TasksOf
    <3>. QED BY <2>3, <3>1, Bodies, Typed DEF AllDone, Joining, Below
  <2>. QED BY <1>4, <2>1, <2>2, <2>3 DEF RunScope, ScopeStep
<1>5. CASE UNCHANGED <<phase, task>>
  BY <1>5 DEF Joining
<1>6. Signal \/ RunDeadline \/ Exit \/ UNCHANGED vars => UNCHANGED <<phase, task>>
  BY DEF Signal, RunDeadline, Deadline, Exit, vars, scopeVars
<1>. QED BY <1>1, <1>2, <1>3, <1>4, <1>5, <1>6 DEF Next, Step, Over

-----------------------------------------------------------------------------
(* Errors.                                                                 *)

\* At first there are none.
LEMMA ErrorsInit == Init => Errors
<1>. SUFFICES ASSUME Init PROVE Errors
  OBVIOUS
<1>. QED BY DEF Init, ScopeInit, Errors

\* Every step keeps the error of a scope one of its tasks'.
LEMMA ErrorsStep == ASSUME TypeOK, Joining, Errors, [Next]_vars PROVE Errors'
<1>1. ASSUME NEW t \in Task, Start(t) PROVE Errors'
  BY <1>1, Typed DEF Start, Spawn, Errors, TasksOf
<1>2. ASSUME NEW t \in Task, Report(t), UNCHANGED <<settings, signalled, exit>> PROVE Errors'
  <2>1. \A u \in Task : task'[u].result = task[u].result
    BY <1>2, Typed DEF Report
  <2>2. \A u \in Task : u # t => task'[u] = task[u]
    BY <1>2, Typed DEF Report
  <2>3. task[t].pc = "returned" /\ task'[t].pc = "done"
    BY <1>2, Typed DEF Report
  <2>4. \A s \in ScopeId : err[s] # "ok" => err'[s] = err[s]
    BY <1>2, Typed DEF Report, Keep
  <2>5. \A s \in ScopeId : err'[s] # err[s] => s = ScopeOf[t] /\ err'[s] = task[t].result
    BY <1>2, Typed DEF Report, Keep
  <2>6. task[t].result # "ok" => err'[ScopeOf[t]] # "ok"
    BY <1>2, Typed, Bodies DEF Report, Keep
  <2>. QED BY <2>1, <2>2, <2>3, <2>4, <2>5, <2>6, Bodies DEF Errors, TasksOf
<1>3. ASSUME NEW t \in Task, Finish(t) PROVE Errors'
  <2>1. PICK r \in Result : TaskReturn(t, r)
    BY <1>3 DEF Finish
  <2>2. \A u \in Task : u # t => task'[u] = task[u]
    BY <2>1, Typed DEF TaskReturn
  <2>3. task[t].result = "ok" /\ task'[t].pc = "returned" /\ err' = err
    BY <2>1, Typed DEF TaskReturn, Errors
  <2>. QED BY <2>2, <2>3 DEF Errors, TasksOf
<1>4. ASSUME NEW s \in ScopeId, RunScope(s) PROVE Errors'
  <2>1. CASE StartScope(s)
    <3>1. task[Body[s]].pc = "none"
      BY <2>1, Bodies DEF StartScope, Joining
    <3>2. \A u \in Task : u # Body[s] => task'[u] = task[u]
      BY <2>1, Typed DEF StartScope
    <3>3. task'[Body[s]].pc = "running" /\ task'[Body[s]].result = task[Body[s]].result /\ err' = err
      BY <2>1, Typed, Bodies DEF StartScope
    <3>. QED BY <3>1, <3>2, <3>3, Bodies DEF Errors, TasksOf
  <2>2. CASE MainDone(s) \/ AllDone(s)
    BY <2>2 DEF MainDone, AllDone, Errors
  <2>. QED BY <1>4, <2>1, <2>2 DEF RunScope, ScopeStep
<1>5. CASE UNCHANGED <<err, task>>
  BY <1>5 DEF Errors
<1>6. Signal \/ RunDeadline \/ Exit \/ UNCHANGED vars => UNCHANGED <<err, task>>
  BY DEF Signal, RunDeadline, Deadline, Exit, vars, scopeVars
<1>. QED BY <1>1, <1>2, <1>3, <1>4, <1>5, <1>6 DEF Next, Step, Over

-----------------------------------------------------------------------------
(* What the steps do to one scope and one task.                            *)

\* A task starts.
LEMMA StartEffect ==
  ASSUME TypeOK, Joining, NEW t \in Task, Start(t)
  PROVE  /\ task[t].pc = "none" /\ task'[t].pc = "running" /\ task'[t].result = task[t].result
         /\ task[Body[ScopeOf[t]]].pc = "running" /\ t # Body[ScopeOf[t]]
         /\ \A u \in Task : u # t => task'[u] = task[u]
         /\ UNCHANGED <<phase, ctxErr, err, settings, signalled, exit>>
BY Typed DEF Start, Spawn

\* A task returns: a context's error only when that context has it, or when a scope
\* it ran returned it.
LEMMA FinishEffect ==
  ASSUME TypeOK, Errors, NEW t \in Task, Finish(t)
  PROVE  /\ task[t].pc = "running" /\ task'[t].pc = "returned" /\ task'[t].result \in Result
         /\ task'[t].result \in Sentinel =>
              \/ ctxErr[ScopeOf[t]] = task'[t].result
              \/ \E u \in Hosted(t) : phase[u] = "returned" /\ err[u] = task'[t].result
         /\ \/ \E u \in Hosted(t) : phase[u] = "returned"
            \/ task'[t].result = "ok" /\ CanSucceed(t)
            \/ task'[t].result \in Fault /\ CanFail(t, task'[t].result)
            \/ task'[t].result \in Sentinel
         /\ \A u \in Task : u # t => task'[u] = task[u]
         /\ UNCHANGED <<phase, ctxErr, err, settings, signalled, exit>>
<1>1. PICK r \in Result :
        /\ \/ \E u \in Hosted(t) : phase[u] = "returned"
           \/ r = "ok" /\ CanSucceed(t)
           \/ r \in Fault /\ CanFail(t, r)
           \/ r \in Sentinel /\ Hosted(t) = {}
        /\ TaskReturn(t, r)
  BY DEF Finish
<1>2. task' = [task EXCEPT ![t] = [pc |-> "returned", result |-> r]]
  BY <1>1 DEF TaskReturn
<1>3. task'[t].result = r /\ task'[t].pc = "returned"
  BY <1>2, Typed
<1>4. \A u \in Task : u # t => task'[u] = task[u]
  BY <1>2, Typed
<1>5. r \in Sentinel =>
        \/ ctxErr[ScopeOf[t]] = r
        \/ \E u \in Hosted(t) : phase[u] = "returned" /\ err[u] = r
  BY <1>1, Typed DEF TaskReturn, MayReturn
<1>6. task[t].pc = "running" /\ UNCHANGED <<phase, ctxErr, err, settings, signalled, exit>>
  BY <1>1 DEF TaskReturn, Finish
<1>. QED BY <1>1, <1>3, <1>4, <1>5, <1>6

\* A context keeps the error it has.
LEMMA CancelEffect ==
  ASSUME TypeOK, NEW s \in ScopeId, CancelCtx(s)
  PROVE  \A u \in ScopeId :
           /\ ctxErr[u] # "ok" => ctxErr'[u] = ctxErr[u]
           /\ ctxErr'[u] # ctxErr[u] => ctxErr'[u] = "canceled" /\ (u = s \/ s = Root)
           /\ s = Root => ctxErr'[u] # "ok"
BY DEF CancelCtx, Descends

\* An error is recorded before it cancels, and only if there is none.
LEMMA ReportEffect ==
  ASSUME TypeOK, NEW t \in Task, Report(t), UNCHANGED <<settings, signalled, exit>>
  PROVE  /\ task[t].pc = "returned" /\ task'[t].pc = "done" /\ task'[t].result = task[t].result
         /\ \A u \in Task : u # t => task'[u] = task[u]
         /\ \A s \in ScopeId : err[s] # "ok" => err'[s] = err[s]
         /\ \A s \in ScopeId : err'[s] # err[s] => s = ScopeOf[t] /\ err'[s] = task[t].result
         /\ \A s \in ScopeId : ctxErr[s] # "ok" => ctxErr'[s] = ctxErr[s]
         /\ \A s \in ScopeId : ctxErr'[s] # ctxErr[s] =>
              /\ ctxErr'[s] = "canceled" /\ (s = ScopeOf[t] \/ ScopeOf[t] = Root)
              /\ err'[ScopeOf[t]] # "ok"
         /\ \A s \in ScopeId : ctxErr'[s] # ctxErr[s] /\ ScopeOf[t] = Root => ctxErr'[Root] # "ok"
         /\ UNCHANGED <<phase, settings, signalled, exit>>
<1>1. /\ task[t].pc = "returned" /\ task'[t].pc = "done" /\ task'[t].result = task[t].result
      /\ \A u \in Task : u # t => task'[u] = task[u]
  BY Typed DEF Report
<1>2. UNCHANGED <<phase, settings, signalled, exit>>
  BY DEF Report
<1>3. CASE task[t].result = "ok"
  <2>1. UNCHANGED <<ctxErr, err>>
    BY <1>3 DEF Report
  <2>. QED BY <1>1, <1>2, <1>3, <2>1
<1>4. CASE task[t].result # "ok"
  <2>1. CancelCtx(ScopeOf[t]) /\ err' = [err EXCEPT ![ScopeOf[t]] = Keep(@, task[t].result)]
    BY <1>4 DEF Report
  <2>2. /\ \A s \in ScopeId : err[s] # "ok" => err'[s] = err[s]
        /\ \A s \in ScopeId : err'[s] # err[s] => s = ScopeOf[t] /\ err'[s] = task[t].result
        /\ err'[ScopeOf[t]] # "ok"
    BY <1>4, <2>1, Typed, Bodies DEF Keep
  <2>3. \A u \in ScopeId :
          /\ ctxErr[u] # "ok" => ctxErr'[u] = ctxErr[u]
          /\ ctxErr'[u] # ctxErr[u] => ctxErr'[u] = "canceled" /\ (u = ScopeOf[t] \/ ScopeOf[t] = Root)
          /\ ScopeOf[t] = Root => ctxErr'[u] # "ok"
    BY <2>1, CancelEffect, Bodies
  <2>. QED BY <1>1, <1>2, <2>2, <2>3, RootAssumption
<1>. QED BY <1>3, <1>4

\* A component begins, under the run's context.
LEMMA StartScopeEffect ==
  ASSUME TypeOK, Joining, NEW s \in ScopeId, StartScope(s), UNCHANGED <<settings, signalled, exit>>
  PROVE  /\ s \in Below /\ phase[s] = "none" /\ phase'[s] = "open"
         /\ \A u \in ScopeId : u # s => phase'[u] = phase[u] /\ ctxErr'[u] = ctxErr[u]
         /\ ctxErr'[s] = ctxErr[Root]
         /\ task[Host[s]].pc = "running"
         /\ task[Body[s]].pc = "none" /\ task'[Body[s]].pc = "running"
         /\ task'[Body[s]].result = task[Body[s]].result
         /\ \A u \in Task : u # Body[s] => task'[u] = task[u]
         /\ UNCHANGED <<err, settings, signalled, exit>>
<1>1. task[Body[s]].pc = "none"
  BY Bodies DEF StartScope, Joining
<1>. QED BY <1>1, Typed, Bodies DEF StartScope, Below

\* The main tasks of a scope are done.
LEMMA MainDoneEffect ==
  ASSUME TypeOK, NEW s \in ScopeId, MainDone(s), UNCHANGED <<settings, signalled, exit>>
  PROVE  /\ phase[s] = "open" /\ phase'[s] = "joining"
         /\ \A u \in ScopeId : u # s => phase'[u] = phase[u]
         /\ \A t \in TasksOf(s) \ Background : task[t].pc # "running"
         /\ \A u \in ScopeId :
              /\ ctxErr[u] # "ok" => ctxErr'[u] = ctxErr[u]
              /\ ctxErr'[u] # ctxErr[u] => ctxErr'[u] = "canceled" /\ (u = s \/ s = Root)
              /\ s = Root => ctxErr'[u] # "ok"
         /\ UNCHANGED <<err, task, settings, signalled, exit>>
BY Typed, CancelEffect DEF MainDone, MainOf

\* The remaining steps leave tasks, scope errors and the run's state alone.
LEMMA OtherEffect ==
  ASSUME TypeOK, NEW s \in ScopeId, AllDone(s), UNCHANGED <<settings, signalled, exit>>
  PROVE  /\ phase[s] = "joining" /\ phase'[s] = "returned"
         /\ \A u \in ScopeId : u # s => phase'[u] = phase[u]
         /\ UNCHANGED <<ctxErr, err, task, settings, signalled, exit>>
BY Typed DEF AllDone

\* The deadline ends every context that still lives.
LEMMA DeadlineEffect ==
  ASSUME TypeOK, RunDeadline
  PROVE  /\ ctxErr[Root] = "ok" /\ ctxErr'[Root] = "deadline"
         /\ UNCHANGED <<phase, err, task, settings, signalled, exit>>
BY RootAssumption, Typed DEF RunDeadline, Deadline

-----------------------------------------------------------------------------
(* Why a context ended.                                                    *)

\* The head loop: it starts subWatch itself, and fails only before that.
LEMMA HeadLoopStep ==
  ASSUME TypeOK, Joining, Errors, HeadLoopEnds, [Next]_vars
  PROVE  HeadLoopEnds'
<1>. USE Wiring
<1>1. ASSUME NEW t \in Task, Start(t) PROVE HeadLoopEnds'
  <2>1. t = subWatch => task[headLoop].pc = "running"
    BY <1>1, StartEffect, ComponentsAssumption
  <2>2. t # headLoop
    BY <1>1, StartEffect, ComponentsAssumption
  <2>. QED BY <1>1, <2>1, <2>2, StartEffect DEF HeadLoopEnds, Started
<1>2. ASSUME NEW t \in Task, Report(t), UNCHANGED <<settings, signalled, exit>> PROVE HeadLoopEnds'
  BY <1>2, ReportEffect DEF HeadLoopEnds, Started
<1>3. ASSUME NEW t \in Task, Finish(t) PROVE HeadLoopEnds'
  <2>1. CASE t = headLoop
    <3>1. Hosted(t) = {}
      BY <2>1, Bodies, ComponentsAssumption
    <3>2. ~CanSucceed(t)
      BY <2>1, ComponentsAssumption DEF CanSucceed
    <3>3. CanFail(t, task'[t].result) => ~Started(subWatch)
      BY <2>1, ComponentsAssumption DEF CanFail
    <3>4. Started(subWatch) => task'[t].result \in Sentinel
      BY <1>3, <3>1, <3>2, <3>3, FinishEffect
    <3>. QED BY <1>3, <2>1, <3>4, FinishEffect DEF HeadLoopEnds, Started
  <2>2. CASE t # headLoop
    BY <1>3, <2>2, FinishEffect DEF HeadLoopEnds, Started
  <2>. QED BY <2>1, <2>2
<1>4. ASSUME NEW s \in ScopeId, RunScope(s) PROVE HeadLoopEnds'
  <2>1. CASE StartScope(s)
    <3>1. Body[s] # subWatch
      BY BodyAssumption, ComponentsAssumption
    <3>2. UNCHANGED <<settings, signalled, exit>>
      BY <1>4 DEF RunScope
    <3>. QED BY <2>1, <3>1, <3>2, StartScopeEffect DEF HeadLoopEnds, Started
  <2>2. CASE MainDone(s) \/ AllDone(s)
    BY <2>2 DEF MainDone, AllDone, HeadLoopEnds, Started
  <2>. QED BY <1>4, <2>1, <2>2 DEF RunScope, ScopeStep
<1>5. CASE UNCHANGED task
  BY <1>5 DEF HeadLoopEnds, Started
<1>6. Signal \/ RunDeadline \/ Exit \/ UNCHANGED vars => UNCHANGED task
  BY DEF Signal, RunDeadline, Deadline, Exit, vars, scopeVars
<1>. QED BY <1>1, <1>2, <1>3, <1>4, <1>5, <1>6 DEF Next, Step, Over

\* When the main tasks of a component are done, a background task of it can only
\* be there if the head loop was told to end.
LEMMA MainDoneQuiet ==
  ASSUME TypeOK, Joining, HeadLoopEnds, NEW s \in Below,
         \A t \in TasksOf(s) \ Background : task[t].pc # "running",
         \A t \in TasksOf(s) : task[t].result \in Sentinel => err[s] # "ok"
  PROVE  err[s] # "ok" \/ Quiet(s)
<1>1. CASE s = SenderScope
  <2>1. TasksOf(s) \cap Background = {}
    BY <1>1, Wiring, ComponentsAssumption DEF TasksOf
  <2>. QED BY <2>1 DEF Quiet
<1>2. CASE s = TrackerScope
  <2>1. \A t \in TasksOf(s) \cap Background : t = subWatch
    BY <1>2, Wiring, ComponentsAssumption DEF TasksOf
  <2>2. headLoop \in TasksOf(s) \ Background
    BY <1>2, Wiring DEF TasksOf
  <2>3. task[subWatch].pc = "running" => err[s] # "ok"
    BY <2>2 DEF HeadLoopEnds, Started
  <2>. QED BY <2>1, <2>3 DEF Quiet
<1>. QED BY <1>1, <1>2, ComponentsAssumption DEF Below

\* Every step keeps the cause of a component's end its own.
LEMMA OwnCauseStep ==
  ASSUME TypeOK, Joining, Errors, HeadLoopEnds, OwnCause, [Next]_vars
  PROVE  OwnCause'
<1>. SUFFICES ASSUME NEW s \in Below, ctxErr'[Root] = "ok"
              PROVE  /\ ctxErr'[s] = "ok" \/ err'[s] # "ok" \/ Quiet(s)'
                     /\ \A t \in TasksOf(s) : task'[t].result \in Sentinel => err'[s] # "ok"
                     /\ err'[s] \notin Sentinel
  BY DEF OwnCause
<1>. DEFINE Goal == /\ ctxErr'[s] = "ok" \/ err'[s] # "ok" \/ Quiet(s)'
                    /\ \A t \in TasksOf(s) : task'[t].result \in Sentinel => err'[s] # "ok"
                    /\ err'[s] \notin Sentinel
<1>a. s \in ScopeId /\ s # Root /\ Root \in ScopeId
  BY RootAssumption DEF Below
<1>b. ASSUME ctxErr[Root] = "ok"
      PROVE  /\ ctxErr[s] = "ok" \/ err[s] # "ok" \/ Quiet(s)
             /\ \A t \in TasksOf(s) : task[t].result \in Sentinel => err[s] # "ok"
             /\ err[s] \notin Sentinel
  BY <1>b DEF OwnCause
<1>1. ASSUME NEW t \in Task, Start(t) PROVE Goal
  <2>1. Quiet(s) => ScopeOf[t] # s
    BY <1>1, <1>a, StartEffect, Bodies DEF Quiet, TasksOf
  <2>2. Quiet(s) => Quiet(s)'
    BY <1>1, <2>1, StartEffect DEF Quiet, TasksOf
  <2>3. \A u \in Task : task'[u].result = task[u].result
    BY <1>1, StartEffect
  <2>. QED BY <1>1, <1>b, <2>2, <2>3, StartEffect DEF TasksOf
<1>2. ASSUME NEW t \in Task, Report(t), UNCHANGED <<settings, signalled, exit>> PROVE Goal
  <2>1. ctxErr[Root] = "ok"
    BY <1>2, <1>a, ReportEffect
  <2>2. Quiet(s) => Quiet(s)'
    BY <1>2, ReportEffect DEF Quiet, TasksOf
  <2>3. ctxErr'[s] # ctxErr[s] => err'[s] # "ok"
    BY <1>2, <1>a, ReportEffect
  <2>4. err'[s] # err[s] => err[s] = "ok" /\ t \in TasksOf(s) /\ err'[s] = task[t].result
    BY <1>2, <1>a, ReportEffect DEF TasksOf
  <2>5. err[s] # "ok" => err'[s] # "ok"
    BY <1>2, <1>a, ReportEffect
  <2>6. \A u \in Task : task'[u].result = task[u].result
    BY <1>2, ReportEffect
  <2>. QED BY <1>b, <2>1, <2>2, <2>3, <2>4, <2>5, <2>6 DEF TasksOf
<1>3. ASSUME NEW t \in Task, Finish(t) PROVE Goal
  <2>1. Quiet(s) => ScopeOf[t] # s
    BY <1>3, FinishEffect DEF Quiet, TasksOf
  <2>2. Quiet(s) => Quiet(s)'
    BY <1>3, FinishEffect DEF Quiet, TasksOf
  <2>3. ScopeOf[t] = s /\ task'[t].result \in Sentinel => ctxErr[s] # "ok"
    BY <1>3, <1>a, FinishEffect, Bodies DEF Sentinel
  <2>. QED BY <1>3, <1>b, <2>1, <2>2, <2>3, FinishEffect DEF TasksOf
<1>4. ASSUME NEW u \in ScopeId, RunScope(u) PROVE Goal
  <2>. UNCHANGED <<settings, signalled, exit>>
    BY <1>4 DEF RunScope
  <2>1. CASE StartScope(u)
    <3>1. ctxErr[Root] = "ok" /\ err' = err
      BY <2>1, <1>a, StartScopeEffect DEF Below
    <3>2. \A t \in Task : task'[t].result = task[t].result
      BY <2>1, StartScopeEffect
    <3>3. s = u => ctxErr'[s] = "ok"
      BY <2>1, <3>1, StartScopeEffect
    <3>4. s # u => ctxErr'[s] = ctxErr[s] /\ (Quiet(s) => Quiet(s)')
      BY <2>1, <1>a, StartScopeEffect, Bodies DEF Quiet, TasksOf
    <3>. QED BY <1>b, <3>1, <3>2, <3>3, <3>4 DEF TasksOf
  <2>2. CASE MainDone(u)
    <3>1. ctxErr[Root] = "ok" /\ u # Root
      BY <2>2, <1>a, MainDoneEffect
    <3>2. s # u => ctxErr'[s] = ctxErr[s]
      BY <2>2, <1>a, <3>1, MainDoneEffect
    <3>3. s = u => err[s] # "ok" \/ Quiet(s)
      BY <2>2, <1>b, <3>1, MainDoneEffect, MainDoneQuiet
    <3>. QED BY <2>2, <1>b, <3>1, <3>2, <3>3, MainDoneEffect DEF Quiet
  <2>3. CASE AllDone(u)
    BY <2>3, <1>b, OtherEffect DEF Quiet
  <2>. QED BY <1>4, <2>1, <2>2, <2>3 DEF RunScope, ScopeStep
<1>5. CASE RunDeadline
  BY <1>5, DeadlineEffect
<1>6. CASE UNCHANGED <<ctxErr, err, task>>
  BY <1>6, <1>b DEF Quiet
<1>7. Signal \/ Exit \/ UNCHANGED vars => UNCHANGED <<ctxErr, err, task>>
  BY DEF Signal, Exit, vars, scopeVars
<1>. QED BY <1>1, <1>2, <1>3, <1>4, <1>5, <1>6, <1>7 DEF Next, Step, Over

\* Only Finish ends the body, and nothing starts it again.
LEMMA BodyTask ==
  ASSUME TypeOK, Joining, [Next]_vars, ~Finish(body)
  PROVE  /\ task'[body].pc = "running" => task[body].pc = "running"
         /\ task[body].pc = "running" => task'[body].pc = "running"
         /\ task[body].pc # "none" => task'[body].pc # "none"
         /\ task'[body].result = task[body].result
<1>. USE Wiring
<1>1. ASSUME NEW t \in Task, Start(t)
      PROVE  task'[body] = task[body]
  <2>1. t # body
    BY <1>1, StartEffect, ComponentsAssumption
  <2>. QED BY <1>1, <2>1, StartEffect
<1>2. ASSUME NEW t \in Task, Report(t), UNCHANGED <<settings, signalled, exit>>
      PROVE  /\ t # body => task'[body] = task[body]
             /\ t = body => /\ task[body].pc = "returned" /\ task'[body].pc = "done"
                            /\ task'[body].result = task[body].result
  BY <1>2, ReportEffect
<1>3. ASSUME NEW t \in Task, Finish(t)
      PROVE  task'[body] = task[body]
  <2>1. t # body
    BY <1>3
  <2>2. PICK r \in Result : TaskReturn(t, r)
    BY <1>3 DEF Finish
  <2>. QED BY <2>1, <2>2, Typed DEF TaskReturn
<1>4. ASSUME NEW s \in ScopeId, RunScope(s)
      PROVE  task'[body] = task[body]
  <2>1. CASE StartScope(s)
    <3>1. s \in Below /\ Body[s] # body /\ UNCHANGED <<settings, signalled, exit>>
      BY <1>4, <2>1, Bodies DEF StartScope, Below, RunScope
    <3>. QED BY <2>1, <3>1, StartScopeEffect
  <2>2. CASE MainDone(s) \/ AllDone(s)
    BY <2>2 DEF MainDone, AllDone
  <2>. QED BY <1>4, <2>1, <2>2 DEF RunScope, ScopeStep
<1>5. Signal \/ RunDeadline \/ Exit \/ UNCHANGED vars => UNCHANGED task
  BY DEF Signal, RunDeadline, Deadline, Exit, vars, scopeVars
<1>. QED BY <1>1, <1>2, <1>3, <1>4, <1>5 DEF Next, Step, Over

\* While the body runs, a context's error in a task of the run follows a failure.
LEMMA BodyRunsStep ==
  ASSUME TypeOK, Joining, Errors, OwnCause, BodyRuns, [Next]_vars
  PROVE  BodyRuns'
<1>. SUFFICES ASSUME task'[body].pc = "running", ctxErr'[Root] # "deadline"
              PROVE  /\ ctxErr'[Root] # "ok" => err'[Root] # "ok"
                     /\ \A t \in TasksOf(Root) : task'[t].result \in Sentinel => err'[Root] # "ok"
                     /\ err'[Root] \notin Sentinel
  BY DEF BodyRuns
<1>. DEFINE Goal == /\ ctxErr'[Root] # "ok" => err'[Root] # "ok"
                    /\ \A t \in TasksOf(Root) : task'[t].result \in Sentinel => err'[Root] # "ok"
                    /\ err'[Root] \notin Sentinel
<1>a. ~Finish(body)
  BY Wiring, FinishEffect
<1>b. task[body].pc = "running"
  BY <1>a, BodyTask
<1>c. ASSUME ctxErr[Root] # "deadline"
      PROVE  /\ ctxErr[Root] # "ok" => err[Root] # "ok"
             /\ \A t \in TasksOf(Root) : task[t].result \in Sentinel => err[Root] # "ok"
             /\ err[Root] \notin Sentinel
  BY <1>b, <1>c DEF BodyRuns
<1>1. ASSUME NEW t \in Task, Start(t) PROVE Goal
  <2>1. \A u \in Task : task'[u].result = task[u].result
    BY <1>1, StartEffect
  <2>. QED BY <1>1, <1>c, <2>1, StartEffect DEF TasksOf
<1>2. ASSUME NEW t \in Task, Report(t), UNCHANGED <<settings, signalled, exit>> PROVE Goal
  <2>1. ctxErr[Root] # "deadline"
    BY <1>2, RootAssumption, ReportEffect
  <2>2. ctxErr'[Root] # ctxErr[Root] => err'[Root] # "ok"
    BY <1>2, RootAssumption, ReportEffect
  <2>3. err'[Root] # err[Root] => err[Root] = "ok" /\ t \in TasksOf(Root) /\ err'[Root] = task[t].result
    BY <1>2, RootAssumption, ReportEffect DEF TasksOf
  <2>4. err[Root] # "ok" => err'[Root] # "ok"
    BY <1>2, RootAssumption, ReportEffect
  <2>5. \A u \in Task : task'[u].result = task[u].result
    BY <1>2, ReportEffect
  <2>. QED BY <1>c, <2>1, <2>2, <2>3, <2>4, <2>5 DEF TasksOf
<1>3. ASSUME NEW t \in Task, Finish(t) PROVE Goal
  <2>1. ctxErr[Root] # "deadline" /\ err' = err /\ ctxErr' = ctxErr
    BY <1>3, FinishEffect
  <2>2. \A u \in Hosted(t) : err[u] \in Sentinel => ctxErr[Root] # "ok"
    BY DEF OwnCause, Hosted, Below
  <2>3. ScopeOf[t] = Root /\ task'[t].result \in Sentinel => ctxErr[Root] # "ok"
    BY <1>3, <2>2, FinishEffect DEF Sentinel
  <2>. QED BY <1>3, <1>c, <2>1, <2>3, FinishEffect DEF TasksOf
<1>4. ASSUME NEW s \in ScopeId, RunScope(s) PROVE Goal
  <2>. UNCHANGED <<settings, signalled, exit>>
    BY <1>4 DEF RunScope
  <2>1. CASE StartScope(s)
    <3>1. ctxErr'[Root] = ctxErr[Root] /\ err' = err
      BY <2>1, RootAssumption, StartScopeEffect DEF Below
    <3>2. \A t \in Task : task'[t].result = task[t].result
      BY <2>1, StartScopeEffect
    <3>. QED BY <1>c, <3>1, <3>2 DEF TasksOf
  <2>2. CASE MainDone(s)
    <3>1. body \in TasksOf(Root) \ Background
      BY Wiring DEF TasksOf
    <3>2. s # Root
      BY <2>2, <3>1, <1>b, MainDoneEffect
    <3>3. ctxErr'[Root] = ctxErr[Root]
      BY <2>2, <3>2, RootAssumption, MainDoneEffect
    <3>. QED BY <2>2, <1>c, <3>3, MainDoneEffect
  <2>3. CASE AllDone(s)
    BY <2>3, <1>c, OtherEffect
  <2>. QED BY <1>4, <2>1, <2>2, <2>3 DEF RunScope, ScopeStep
<1>5. CASE RunDeadline
  BY <1>5, DeadlineEffect
<1>6. CASE UNCHANGED <<ctxErr, err, task>>
  BY <1>6, <1>c
<1>7. Signal \/ Exit \/ UNCHANGED vars => UNCHANGED <<ctxErr, err, task>>
  BY DEF Signal, Exit, vars, scopeVars
<1>. QED BY <1>1, <1>2, <1>3, <1>4, <1>5, <1>6, <1>7 DEF Next, Step, Over

\* What the run has learned it does not forget: the signal, the deadline, the first
\* error, and what a task returned.
LEMMA Kept ==
  ASSUME TypeOK, Joining, Errors, [Next]_vars
  PROVE  /\ signalled => signalled'
         /\ DeadlinePassed => DeadlinePassed'
         /\ err[Root] # "ok" => err'[Root] = err[Root]
         /\ \A t \in Task : task[t].result # "ok" => task'[t].result = task[t].result
<1>1. ASSUME NEW t \in Task, Start(t)
      PROVE  /\ UNCHANGED <<ctxErr, err, signalled>>
             /\ \A u \in Task : task'[u].result = task[u].result
  BY <1>1, StartEffect
<1>2. ASSUME NEW t \in Task, Report(t), UNCHANGED <<settings, signalled, exit>>
      PROVE  /\ UNCHANGED signalled
             /\ ctxErr[Root] # "ok" => ctxErr'[Root] = ctxErr[Root]
             /\ err[Root] # "ok" => err'[Root] = err[Root]
             /\ \A u \in Task : task'[u].result = task[u].result
  BY <1>2, RootAssumption, ReportEffect
<1>3. ASSUME NEW t \in Task, Finish(t)
      PROVE  /\ UNCHANGED <<ctxErr, err, signalled>>
             /\ \A u \in Task : task[u].result # "ok" => task'[u].result = task[u].result
  BY <1>3, FinishEffect DEF Errors
<1>4. ASSUME NEW s \in ScopeId, RunScope(s)
      PROVE  /\ UNCHANGED <<err, signalled>>
             /\ ctxErr[Root] # "ok" => ctxErr'[Root] = ctxErr[Root]
             /\ \A u \in Task : task'[u].result = task[u].result
  <2>. UNCHANGED <<settings, signalled, exit>>
    BY <1>4 DEF RunScope
  <2>1. CASE StartScope(s)
    BY <2>1, RootAssumption, StartScopeEffect DEF Below
  <2>2. CASE MainDone(s)
    BY <2>2, RootAssumption, MainDoneEffect
  <2>3. CASE AllDone(s)
    BY <2>3, OtherEffect
  <2>. QED BY <1>4, <2>1, <2>2, <2>3 DEF RunScope, ScopeStep
<1>5. CASE Signal
  BY <1>5 DEF Signal, scopeVars, DeadlinePassed
<1>6. CASE RunDeadline
  BY <1>6, DeadlineEffect DEF DeadlinePassed
<1>7. CASE Exit \/ UNCHANGED vars
  BY <1>7 DEF Exit, vars, scopeVars, DeadlinePassed
<1>. QED BY <1>1, <1>2, <1>3, <1>4, <1>5, <1>6, <1>7 DEF Next, Step, Over, DeadlinePassed

-----------------------------------------------------------------------------
(* The end of the run.                                                     *)

\* The body ends on a signal, by a failure of its own, or with its context.
LEMMA BodyEndsStep ==
  ASSUME TypeOK, Joining, Errors, BodyRuns, BodyEnds, task[body].pc # "none", [Next]_vars
  PROVE  BodyEnds'
<1>1. CASE Finish(body)
  <2>1. body \in Task /\ Hosted(body) = {} /\ ScopeOf[body] = Root
    BY Wiring, Bodies
  <2>2. CanSucceed(body) => signalled
    BY Wiring, ComponentsAssumption DEF CanSucceed
  <2>3. CanFail(body, task'[body].result) => task'[body].result = "fault"
    BY Wiring, ComponentsAssumption DEF CanFail
  <2>4. task[body].pc = "running" /\ UNCHANGED <<ctxErr, err, signalled>>
    BY <1>1, <2>1, FinishEffect
  <2>5. ctxErr[Root] = "canceled" => err[Root] \in Fault
    BY <2>4, Typed, RootAssumption DEF BodyRuns, Result
  <2>6. task'[body].result \in Sentinel =>
          task'[body].result \in Sentinel /\ (ctxErr[Root] = "deadline" \/ err[Root] \in Fault)
    BY <1>1, <2>1, <2>5, FinishEffect DEF Sentinel
  <2>. QED BY <1>1, <2>1, <2>2, <2>3, <2>4, <2>6, FinishEffect DEF BodyEnds, Failed, DeadlinePassed
<1>2. CASE ~Finish(body)
  <2>1. task'[body].pc \in {"returned", "done"} => task[body].pc \in {"returned", "done"}
    BY <1>2, BodyTask, Wiring, Typed
  <2>2. task'[body].result = task[body].result
    BY <1>2, BodyTask
  <2>3. err[Root] \in Fault => err'[Root] \in Fault
    BY Kept, FaultAssumption
  <2>. QED BY <2>1, <2>2, <2>3, Kept DEF BodyEnds, Failed
<1>. QED BY <1>1, <1>2

\* The exit status has its cause when it is set, and keeps it.
LEMMA EndedStep ==
  ASSUME TypeOK, Joining, Errors, BodyRuns, BodyEnds, Ended, [Next]_vars
  PROVE  Ended'
<1>1. task'[body].pc # "none"
  <2>1. CASE Finish(body)
    BY <2>1, Wiring, FinishEffect
  <2>2. CASE ~Finish(body)
    BY <2>2, BodyTask DEF Ended
  <2>. QED BY <2>1, <2>2
<1>2. phase[Root] = "returned" => phase'[Root] = "returned"
  <2>1. ASSUME NEW t \in Task, Start(t) PROVE UNCHANGED phase
    BY <2>1 DEF Start, Spawn
  <2>2. ASSUME NEW t \in Task, Report(t) PROVE UNCHANGED phase
    BY <2>2 DEF Report
  <2>3. ASSUME NEW t \in Task, Finish(t) PROVE UNCHANGED phase
    BY <2>3 DEF Finish, TaskReturn
  <2>4. ASSUME NEW s \in ScopeId, RunScope(s), phase[Root] = "returned"
        PROVE  phase'[Root] = "returned"
    BY <2>4, RootAssumption, Typed DEF RunScope, ScopeStep, StartScope, MainDone, AllDone
  <2>5. Signal \/ RunDeadline \/ Exit \/ UNCHANGED vars => UNCHANGED phase
    BY DEF Signal, RunDeadline, Deadline, Exit, vars, scopeVars
  <2>. QED BY <2>1, <2>2, <2>3, <2>4, <2>5 DEF Next, Step, Over
<1>3. CASE Exit
  <2>1. phase[Root] = "returned" /\ UNCHANGED <<phase, ctxErr, err, task, signalled>>
    BY <1>3 DEF Exit, scopeVars
  <2>2. task[body].pc = "done"
    BY <2>1, Wiring DEF Joining, Ended
  <2>3. exit' = "failure" => \E t \in Task : task[t].result \in Fault
    <3>1. exit' = "failure" => err[Root] \in Fault
      BY <1>3, Typed, RootAssumption DEF Exit, EndedOnRunContext, Result
    <3>2. err[Root] \in Fault => err[Root] # "ok"
      BY FaultAssumption
    <3>. QED BY <3>1, <3>2, RootAssumption DEF Errors, TasksOf
  <2>4. exit' = "success" => signalled \/ DeadlinePassed \/ Failed(body)
    <3>1. exit' = "success" => err[Root] \notin Fault
      BY <1>3, FaultAssumption DEF Exit, EndedOnRunContext
    <3>. QED BY <2>2, <3>1 DEF BodyEnds
  <2>. QED BY <1>1, <1>2, <2>1, <2>3, <2>4 DEF Ended, ExitHasCause, DeadlinePassed, Failed
<1>4. CASE UNCHANGED exit
  <2>1. \A t \in Task : task[t].result \in Fault => task'[t].result \in Fault
    BY Kept, FaultAssumption
  <2>2. Failed(body) => Failed(body)'
    BY Kept, Wiring DEF Failed
  <2>. QED BY <1>1, <1>2, <1>4, <2>1, <2>2, Kept DEF Ended, ExitHasCause
<1>5. Exit \/ UNCHANGED exit
  BY DEF Next, Start, Step, Finish, RunScope, Signal, RunDeadline, Over, vars
<1>. QED BY <1>3, <1>4, <1>5

-----------------------------------------------------------------------------

\* The lifecycle's inductive invariant.
THEOREM RunCorrect == SafeSpec => []RunInv
<1>1. Init => RunInv
  <2>. SUFFICES ASSUME Init PROVE RunInv
    OBVIOUS
  <2>1. TypeOK /\ Joining /\ Errors
    BY TypeInit, JoiningInit, ErrorsInit
  <2>2. /\ \A s \in ScopeId : ctxErr[s] = "ok" /\ err[s] = "ok"
        /\ \A t \in Task : task[t].result = "ok" /\ (t # Body[Root] => task[t].pc = "none")
        /\ task[Body[Root]].pc = "running" /\ exit = "none"
    BY Bodies, RootAssumption DEF Init, ScopeInit
  <2>3. OwnCause
    BY <2>2 DEF OwnCause, Below, TasksOf, Sentinel
  <2>4. HeadLoopEnds
    BY <2>2, Wiring, ComponentsAssumption DEF HeadLoopEnds, Started
  <2>5. BodyRuns /\ BodyEnds /\ Ended
    BY <2>2, Wiring, RootAssumption, ComponentsAssumption
       DEF BodyRuns, BodyEnds, Ended, ExitHasCause, TasksOf, Sentinel
  <2>. QED BY <2>1, <2>3, <2>4, <2>5 DEF RunInv
<1>2. RunInv /\ [Next]_vars => RunInv'
  BY TypeStep, JoiningStep, ErrorsStep, OwnCauseStep, HeadLoopStep, BodyRunsStep, BodyEndsStep,
     EndedStep DEF RunInv, Ended
<1>. QED BY <1>1, <1>2, PTL DEF SafeSpec

\* "Run will return only after all the tasks have completed", through all nested
\* scopes, and with an error if and only if a task of the scope returned one.
THEOREM RunJoinsAndSurfaces == SafeSpec => []ScopesInv
<1>1. RunInv => ScopesInv
  <2>. SUFFICES ASSUME RunInv PROVE ScopesInv
    OBVIOUS
  <2>1. RunJoinsAll
    <3>. SUFFICES ASSUME NEW s \in ScopeId, phase[s] = "returned",
                         NEW u \in ScopeId, Descends(u, s), NEW t \in TasksOf(u)
                  PROVE  task[t].pc \in {"none", "done"}
      BY DEF RunJoinsAll
    <3>1. t \in Task /\ ScopeOf[t] = u
      BY DEF TasksOf
    <3>2. CASE u = s
      BY <3>1, <3>2 DEF RunInv, Joining
    <3>3. CASE u # s
      <4>1. u \in Below /\ s = Root
        BY <3>3 DEF Descends, Below
      <4>2. task[Host[u]].pc \in {"none", "done"}
        BY <4>1, Bodies DEF RunInv, Joining
      <4>3. phase[u] \in {"none", "returned"}
        BY <4>1, <4>2, Typed DEF RunInv, Joining
      <4>. QED BY <3>1, <4>3 DEF RunInv, Joining
    <3>. QED BY <3>2, <3>3
  <2>2. ErrorsSurface
    <3>. SUFFICES ASSUME NEW s \in ScopeId, phase[s] = "returned"
                  PROVE  \/ err[s] = "ok" /\ \A t \in TasksOf(s) : task[t].result = "ok"
                         \/ err[s] # "ok" /\ \E t \in TasksOf(s) : task[t].result = err[s]
      BY DEF ErrorsSurface
    <3>1. \A t \in TasksOf(s) : task[t].pc \in {"none", "done"}
      BY DEF RunInv, Joining, TasksOf
    <3>. QED BY <3>1 DEF RunInv, Errors, TasksOf
  <2>. QED BY <2>1, <2>2 DEF ScopesInv, RunInv
<1>. QED BY <1>1, RunCorrect, PTL

\* In a scope without background tasks the error that Run returns is a failure, if
\* the scope was not cancelled from above: a cancelled task cannot overtake it.
THEOREM RunKeepsCause == SafeSpec => []MainOnlyKeepsCause
<1>1. RunInv => MainOnlyKeepsCause
  <2>. SUFFICES ASSUME RunInv, NEW s \in ScopeId, phase[s] = "returned", ~Outside(s),
                       \A t \in TasksOf(s) \cap Background : task[t].pc = "none"
                PROVE  err[s] \notin Sentinel
    BY DEF MainOnlyKeepsCause
  <2>1. CASE s # Root
    BY <2>1 DEF RunInv, OwnCause, Outside, Below
  <2>2. CASE s = Root
    <3>. SUFFICES ASSUME err[Root] \in Sentinel PROVE FALSE
      BY <2>2
    <3>1. err[Root] # "ok" /\ "fault" \notin Sentinel /\ err[Root] \notin Fault
      BY FaultAssumption, ComponentsAssumption DEF Sentinel
    <3>2. PICK t \in TasksOf(Root) : task[t].result = err[Root]
      BY <3>1, RootAssumption DEF RunInv, Errors
    <3>3. t \notin Background
      BY <2>2, <3>1, <3>2 DEF RunInv, Errors, TasksOf
    <3>4. t = body
      BY <3>3, ComponentsAssumption
    <3>5. task[body].pc \in {"returned", "done"}
      BY <2>2, Wiring DEF RunInv, Joining, Ended
    <3>. QED BY <2>2, <3>1, <3>2, <3>4, <3>5 DEF RunInv, BodyEnds, Failed, DeadlinePassed, Outside, Sentinel
  <2>. QED BY <2>1, <2>2
<1>. QED BY <1>1, RunCorrect, PTL

\* A run that fails has a task that failed; a run that succeeds was stopped, or its
\* own body failed: the failure of a component is never reported as success.
THEOREM RunExitHasCause == SafeSpec => []ExitHasCause
<1>1. RunInv => ExitHasCause
  BY DEF RunInv, Ended
<1>. QED BY <1>1, RunCorrect, PTL
===============================================================================
