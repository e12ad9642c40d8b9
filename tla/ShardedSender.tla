---------------------------- MODULE ShardedSender ----------------------------
(***************************************************************************)
(* sender/sharded_sender.go with the goroutines that share its TxsQueue:    *)
(*   - the generator (generator.go Prewarm and Run) reads an account's next *)
(*     nonce, builds a transaction, and pushes it, in two critical sections; *)
(*   - the dispatcher, the loop of ShardedSender.Run, takes a rate token,    *)
(*     pops a ready account and spawns a task for its head transaction;      *)
(*   - a task signs under a semaphore, sends, and either drops the head       *)
(*     (PopSent) or, after an error, asks the chain for the nonce (Reset).    *)
(* The chain behind the RPC endpoints is external: it takes exactly the next *)
(* nonce of an account (as chainState of sender_test.go does), may lose a     *)
(* request or a reply, and may move a nonce on its own (a rollback, another   *)
(* wallet, a late delivery).                                                  *)
(***************************************************************************)
\* An operator Op_Variant is a faulty variant of Op: the properties are tested
\* against it, no specification uses it.
EXTENDS TxsQueue

CONSTANTS
  Task,         \* identities for the goroutines Run spawns
  NoAddr,       \* "no account"
  Permits,      \* GOMAXPROCS: weight of the signing semaphore
  MaxDrift,     \* bound: how often the chain moves a nonce on its own
  StartNonces,  \* the nonces an account may have on the chain when the run starts
  Timed         \* whether the run has a deadline (--duration)

ASSUME TaskAssumption     == IsFiniteSet(Task)
ASSUME NoAddrAssumption   == NoAddr \notin Addr
ASSUME PermitsAssumption  == Permits \in Nat \ {0}
ASSUME DriftAssumption    == MaxDrift \in Nat
ASSUME StartAssumption    == StartNonces \subseteq Nonce
ASSUME TimedAssumption    == Timed \in BOOLEAN

VARIABLES
  gen,        \* the generator: phase, and the transaction it has built
  toWarm,     \* accounts Prewarm has still to send a transaction for
  fresh,      \* one-shot accounts not yet minted by AccountPool.NextAccount
  disp,       \* where the dispatcher loop is
  task,       \* [Task -> the goroutine], IdleTask when the identity is free
  permits,    \* free permits of the signing semaphore
  chainNonce, \* external: next nonce the chain accepts, per account
  drift,      \* how often the chain moved a nonce on its own
  senderDone, \* the context of ShardedSender.Run's scope is cancelled
  runDone     \* the context of the whole run is cancelled

senderVars == <<gen, toWarm, fresh, disp, task, permits, chainNonce, drift,
                senderDone, runDone>>
vars == <<queueVars, senderVars>>

GenPhase == {"prewarm", "flush", "run", "stopped"}
DispPc   == {"limiter", "pop", "stopped", "returned"}

\* Where a task is; the names are those of the calls it makes next.
TaskPc   == {"idle", "acquire", "sign", "send", "register", "popSent",
             "limiter", "nonce", "reset"}

IdleTask == [pc |-> "idle", addr |-> NoAddr, nonce |-> 0]
NoTx     == [addr |-> NoAddr, nonce |-> 0]

SenderInit ==
  /\ gen \in {[phase |-> p, tx |-> NoTx] : p \in {"prewarm", "run"}}
  /\ toWarm = IF gen.phase = "prewarm" THEN Tracked ELSE {}
  /\ fresh = Addr \ Tracked
  /\ disp = "limiter"
  /\ task = [t \in Task |-> IdleTask]
  /\ permits = Permits
  /\ chainNonce \in {f \in [Addr -> StartNonces \cup {0}] : \A a \in Addr \ Tracked : f[a] = 0}
  /\ drift = 0
  /\ senderDone = FALSE
  /\ runDone = FALSE

Init == QueueInit /\ SenderInit

-----------------------------------------------------------------------------
(* The generator.                                                          *)

HasTx == gen.tx.addr # NoAddr

\* Read the sender's next nonce and build the transaction; nothing is locked
\* between this and the push ("TODO: This should probably hold a lock").
GenBuild(a) ==
  /\ ~HasTx
  /\ NonceOf(a) < MaxNonce
  /\ gen' = [gen EXCEPT !.tx = [addr |-> a, nonce |-> NonceOf(a)]]
  /\ UNCHANGED <<queueVars, disp, task, permits, chainNonce, drift, senderDone, runDone>>

\* Prewarm: one transaction for every pool account, in any order (a map's).
GenPrewarm(a) ==
  /\ gen.phase = "prewarm"
  /\ a \in toWarm
  /\ toWarm' = toWarm \ {a}
  /\ GenBuild(a)
  /\ UNCHANGED fresh

\* Run: the pool's next account, or a newly minted one.
GenNext(a) ==
  /\ gen.phase = "run"
  /\ ~runDone
  /\ a \in Tracked \cup fresh
  /\ fresh' = fresh \ {a}
  /\ GenBuild(a)
  /\ UNCHANGED toWarm

\* ShardedSender.Send.
GenPush ==
  /\ HasTx
  /\ Push(gen.tx.addr, gen.tx.nonce)
  /\ gen' = [gen EXCEPT !.tx = NoTx]
  /\ UNCHANGED <<toWarm, fresh, disp, task, permits, chainNonce, drift, senderDone, runDone>>

GenPark ==
  /\ \/ HasTx /\ ParkPush
     \/ ~HasTx /\ gen.phase = "flush" /\ ParkFlush
  /\ UNCHANGED senderVars

\* All prewarm transactions pushed: wait in Flush.
GenWarmed ==
  /\ gen.phase = "prewarm" /\ ~HasTx /\ toWarm = {}
  /\ gen' = [gen EXCEPT !.phase = "flush"]
  /\ UNCHANGED <<queueVars, toWarm, fresh, disp, task, permits, chainNonce, drift,
                 senderDone, runDone>>

\* Flush returned: main starts the generator proper.
GenFlushed ==
  /\ gen.phase = "flush"
  /\ WaitUntilEmpty
  /\ gen' = [gen EXCEPT !.phase = "run"]
  /\ UNCHANGED <<toWarm, fresh, disp, task, permits, chainNonce, drift, senderDone, runDone>>

\* The run's context ended: a blocked call returns its error, and the loop of
\* Run tests the context before every transaction.  (Prewarm does not.)
GenStop_FlushWaits ==
  /\ runDone /\ gen.phase # "stopped"
  /\ \/ HasTx /\ ~CanPush /\ GiveUp("Push")
     \/ ~HasTx /\ gen.phase = "run" /\ UNCHANGED queueVars
  /\ gen' = [phase |-> "stopped", tx |-> NoTx]
  /\ UNCHANGED <<toWarm, fresh, disp, task, permits, chainNonce, drift, senderDone, runDone>>
GenStop ==
  /\ runDone
  /\ gen.phase # "stopped"
  /\ \/ HasTx /\ ~CanPush /\ GiveUp("Push")
     \/ ~HasTx /\ gen.phase = "flush" /\ ~IsDrained /\ GiveUp("WaitUntilEmpty")
     \/ ~HasTx /\ gen.phase = "run" /\ UNCHANGED queueVars
  /\ gen' = [phase |-> "stopped", tx |-> NoTx]
  /\ UNCHANGED <<toWarm, fresh, disp, task, permits, chainNonce, drift, senderDone, runDone>>

Generator ==
  \/ \E a \in Addr : GenPrewarm(a) \/ GenNext(a)
  \/ GenPush \/ GenPark \/ GenWarmed \/ GenFlushed \/ GenStop

-----------------------------------------------------------------------------
(* The dispatcher: the loop of ShardedSender.Run.                          *)

\* limiter.Wait handed out a token.
DispToken ==
  /\ disp = "limiter"
  /\ ~senderDone
  /\ disp' = "pop"
  /\ UNCHANGED <<queueVars, gen, toWarm, fresh, task, permits, chainNonce, drift,
                 senderDone, runDone>>

\* PopReady returned a transaction: spawn its task.  A cancelled context does
\* not matter here, since WaitUntil looks at it only before sleeping.
DispSpawn(t) ==
  /\ disp = "pop"
  /\ task[t].pc = "idle"
  /\ \E a \in Addr :
       /\ PopReady(a)
       /\ task' = [task EXCEPT ![t] = [pc |-> "acquire", addr |-> a, nonce |-> firstNonce[a]]]
  /\ disp' = "limiter"
  /\ UNCHANGED <<gen, toWarm, fresh, permits, chainNonce, drift, senderDone, runDone>>

DispPark ==
  /\ disp = "pop"
  /\ ParkPopReady
  /\ UNCHANGED senderVars

\* limiter.Wait or PopReady returned the context's error.  With a deadline the
\* limiter also refuses early, when the next token would come too late.
DispStop ==
  /\ \/ disp = "limiter" /\ (senderDone \/ Timed) /\ UNCHANGED queueVars
     \/ disp = "pop" /\ senderDone /\ ~CanPopReady /\ GiveUp("PopReady")
  /\ disp' = "stopped"
  /\ senderDone' = TRUE
  /\ UNCHANGED <<gen, toWarm, fresh, task, permits, chainNonce, drift, runDone>>

\* scope.Run joins every task before ShardedSender.Run returns; its error ends
\* the whole run.
DispReturn ==
  /\ disp = "stopped"
  /\ \A t \in Task : task[t].pc = "idle"
  /\ disp' = "returned"
  /\ runDone' = TRUE
  /\ UNCHANGED <<queueVars, gen, toWarm, fresh, task, permits, chainNonce, drift, senderDone>>

Dispatcher ==
  \/ DispToken \/ DispPark \/ DispStop \/ DispReturn
  \/ \E t \in Task : DispSpawn(t)

-----------------------------------------------------------------------------
(* A spawned task.                                                         *)

Goto(t, pc) == task' = [task EXCEPT ![t].pc = pc]

\* A task that returns frees its identity; an error cancels the scope.
Return(t)     == task' = [task EXCEPT ![t] = IdleTask]
ReturnErr(t)  == Return(t) /\ senderDone' = TRUE

TaskAcquire(t) ==
  /\ task[t].pc = "acquire"
  /\ permits > 0
  /\ permits' = permits - 1
  /\ Goto(t, "sign")
  /\ UNCHANGED <<queueVars, gen, toWarm, fresh, disp, chainNonce, drift, senderDone, runDone>>

\* semaphore.Acquire gave up because the scope is cancelled.
TaskAcquireErr(t) ==
  /\ task[t].pc = "acquire"
  /\ senderDone
  /\ Return(t)
  /\ UNCHANGED <<queueVars, gen, toWarm, fresh, disp, permits, chainNonce, drift,
                 senderDone, runDone>>

\* SignTx and Release; a signing error ends the run.
TaskSign_ErrKeepsPermit(t) ==
  /\ task[t].pc = "sign"
  /\ \/ Goto(t, "send") /\ permits' = permits + 1 /\ UNCHANGED senderDone
     \/ ReturnErr(t) /\ UNCHANGED permits
  /\ UNCHANGED <<queueVars, gen, toWarm, fresh, disp, chainNonce, drift, runDone>>
TaskSign(t) ==
  /\ task[t].pc = "sign"
  /\ permits' = permits + 1
  /\ \/ Goto(t, "send") /\ UNCHANGED senderDone
     \/ ReturnErr(t)
  /\ UNCHANGED <<queueVars, gen, toWarm, fresh, disp, chainNonce, drift, runDone>>

\* external: the chain takes the transaction.
Accept(a, nonce) ==
  /\ chainNonce[a] = nonce
  /\ chainNonce' = [chainNonce EXCEPT ![a] = nonce + 1]

\* client.Send returned nil.
TaskSendOk(t) ==
  /\ task[t].pc = "send"
  /\ Accept(task[t].addr, task[t].nonce)
  /\ Goto(t, "register")
  /\ UNCHANGED <<queueVars, gen, toWarm, fresh, disp, permits, drift, senderDone, runDone>>

\* client.Send returned an error: refused, lost on the way, or taken by the
\* chain with the reply lost.
TaskSendErr_NoReset(t) ==
  /\ task[t].pc = "send"
  /\ Accept(task[t].addr, task[t].nonce) \/ UNCHANGED chainNonce
  /\ Return(t)
  /\ UNCHANGED <<queueVars, gen, toWarm, fresh, disp, permits, drift, senderDone, runDone>>
TaskSendErr(t) ==
  /\ task[t].pc = "send"
  /\ Accept(task[t].addr, task[t].nonce) \/ UNCHANGED chainNonce
  /\ Goto(t, IF task[t].addr \in Tracked THEN "limiter" ELSE "popSent")
  /\ UNCHANGED <<queueVars, gen, toWarm, fresh, disp, permits, drift, senderDone, runDone>>

\* inclusion.Register: see InclusionTracker; the queue is not held meanwhile.
TaskRegister(t) ==
  /\ task[t].pc = "register"
  /\ Goto(t, "popSent")
  /\ UNCHANGED <<queueVars, gen, toWarm, fresh, disp, permits, chainNonce, drift,
                 senderDone, runDone>>

TaskPopSent(t) ==
  /\ task[t].pc = "popSent"
  /\ PopSent(task[t].addr)
  /\ Return(t)
  /\ UNCHANGED <<gen, toWarm, fresh, disp, permits, chainNonce, drift, senderDone, runDone>>

\* getNonce: a token from the shared limiter before every lookup.
TaskToken(t) ==
  /\ task[t].pc = "limiter"
  /\ ~senderDone
  /\ Goto(t, "nonce")
  /\ UNCHANGED <<queueVars, gen, toWarm, fresh, disp, permits, chainNonce, drift,
                 senderDone, runDone>>

\* getNonce returned the context's (or the deadline-bound limiter's) error.
TaskTokenErr(t) ==
  /\ task[t].pc = "limiter"
  /\ senderDone \/ Timed
  /\ ReturnErr(t)
  /\ UNCHANGED <<queueVars, gen, toWarm, fresh, disp, permits, chainNonce, drift, runDone>>

\* The lookup answered; from here on task.nonce is the chain's nonce (the code
\* shadows `nonce` the same way).
TaskNonceOk_OwnNonce(t) ==
  /\ task[t].pc = "nonce"
  /\ Goto(t, "reset")
  /\ UNCHANGED <<queueVars, gen, toWarm, fresh, disp, permits, chainNonce, drift,
                 senderDone, runDone>>
TaskNonceOk_PopsFirst(t) ==
  /\ task[t].pc = "nonce"
  /\ PopSent(task[t].addr)
  /\ task' = [task EXCEPT ![t].pc = "reset", ![t].nonce = chainNonce[task[t].addr]]
  /\ UNCHANGED <<gen, toWarm, fresh, disp, permits, chainNonce, drift, senderDone, runDone>>
TaskNonceOk(t) ==
  /\ task[t].pc = "nonce"
  /\ task' = [task EXCEPT ![t].pc = "reset", ![t].nonce = chainNonce[task[t].addr]]
  /\ UNCHANGED <<queueVars, gen, toWarm, fresh, disp, permits, chainNonce, drift,
                 senderDone, runDone>>

\* The lookup failed: try again.
TaskNonceErr(t) ==
  /\ task[t].pc = "nonce"
  /\ Goto(t, "limiter")
  /\ UNCHANGED <<queueVars, gen, toWarm, fresh, disp, permits, chainNonce, drift,
                 senderDone, runDone>>

TaskReset(t) ==
  /\ task[t].pc = "reset"
  /\ Reset(task[t].addr, task[t].nonce)
  /\ Return(t)
  /\ UNCHANGED <<gen, toWarm, fresh, disp, permits, chainNonce, drift, senderDone, runDone>>

TaskStep(t) ==
  \/ TaskAcquire(t) \/ TaskAcquireErr(t) \/ TaskSign(t)
  \/ TaskSendOk(t) \/ TaskSendErr(t) \/ TaskRegister(t) \/ TaskPopSent(t)
  \/ TaskToken(t) \/ TaskTokenErr(t) \/ TaskNonceOk(t) \/ TaskNonceErr(t) \/ TaskReset(t)

-----------------------------------------------------------------------------
(* The environment.                                                        *)

\* external: the chain's nonce for a changes without our doing.
ChainMoves(a) ==
  /\ drift < MaxDrift
  /\ drift' = drift + 1
  /\ \E n \in Nonce : chainNonce' = [chainNonce EXCEPT ![a] = n]
  /\ UNCHANGED <<queueVars, gen, toWarm, fresh, disp, task, permits, senderDone, runDone>>

\* The operator's signal, the deadline, or another component's error.
EndRun ==
  /\ ~runDone
  /\ runDone' = TRUE
  /\ senderDone' = TRUE
  /\ UNCHANGED <<queueVars, gen, toWarm, fresh, disp, task, permits, chainNonce, drift>>

\* Everything has joined: the process is over.
Terminated ==
  /\ disp = "returned" /\ gen.phase = "stopped"
  /\ UNCHANGED vars

Next ==
  \/ Generator
  \/ Dispatcher
  \/ \E t \in Task : TaskStep(t)
  \/ \E a \in Addr : ChainMoves(a)
  \/ EndRun
  \/ Terminated

SafeSpec == Init /\ [][Next]_vars

\* Go schedules every runnable goroutine.  The semaphore and the limiter serve
\* waiters in order, hence SF on the acquisition; SF on TaskNonceOk is the
\* code's own "Nonce lookup is expected to succeed eventually".  Nothing is
\* assumed of which accounts the generator picks, of signing errors, of send
\* outcomes, of the chain, or that the run is ever ended.
Fairness ==
  /\ WF_vars(Generator)
  /\ WF_vars(Dispatcher)
  /\ \A t \in Task : WF_vars(TaskStep(t))
  /\ \A t \in Task : SF_vars(TaskAcquire(t)) /\ SF_vars(TaskNonceOk(t))

Spec == SafeSpec /\ Fairness

-----------------------------------------------------------------------------
(* Safety.                                                                 *)

Busy(t) == task[t].pc # "idle"

\* Types of the goroutines' state.
TypeOK ==
  /\ QueueTypeOK
  /\ gen \in [phase : GenPhase, tx : [addr : Addr \cup {NoAddr}, nonce : Nat]]
  /\ toWarm \subseteq Tracked
  /\ fresh \subseteq Addr \ Tracked
  /\ disp \in DispPc
  /\ task \in [Task -> [pc : TaskPc, addr : Addr \cup {NoAddr}, nonce : Nat]]
  /\ \A t \in Task : Busy(t) => task[t].addr \in Addr
  /\ permits \in 0 .. Permits
  /\ chainNonce \in [Addr -> Nat]
  /\ drift \in 0 .. MaxDrift
  /\ senderDone \in BOOLEAN
  /\ runDone \in BOOLEAN

\* An account is never worked on by two tasks at once, so its transactions
\* reach the chain one after the other: PopReady hands out the head, and only
\* the task that holds it puts the account back.
OneTaskPerAccount ==
  \A t, u \in Task : Busy(t) /\ Busy(u) /\ task[t].addr = task[u].addr => t = u

\* A task works on the head of its account's window all the way to PopSent or
\* Reset: no push, no other task and no cancellation moves the head under it,
\* so PopSent drops the transaction that was sent and not another.
TaskHoldsHead ==
  \A t \in Task : Busy(t) =>
    LET a == task[t].addr
    IN /\ a \in byAddr \ flagged
       /\ firstNonce[a] < nextNonce[a]
       /\ task[t].pc # "reset" => task[t].nonce = firstNonce[a]

\* No account is forgotten: one with transactions is either in ready or has a
\* task, unless the sender is being torn down.
NoStrandedAccount ==
  \A a \in Addr :
    firstNonce[a] < nextNonce[a] /\ a \notin flagged /\ ~senderDone
      => \E t \in Task : Busy(t) /\ task[t].addr = a

\* Flush means what main relies on: when the queue is empty no send is still
\* in flight, so prewarming has finished when the load starts.
DrainedMeansIdle == IsDrained => \A t \in Task : ~Busy(t)

\* Signing permits are neither leaked nor minted, also by a failing SignTx.
PermitsConserved ==
  permits + Cardinality({t \in Task : task[t].pc = "sign"}) = Permits

\* The goroutines' state is well typed, and with it the semaphore's permits are
\* accounted for (sharded_sender.go, sem).
SenderStateOK == TypeOK /\ PermitsConserved

\* With a chain that starts at nonce 0 and never moves a nonce by itself, the
\* head of a pool account is the nonce the chain expects whenever no answer
\* is outstanding: the nonce getNonce read is still right when Reset applies
\* it, whatever was pushed, lost or refused in between.
HeadMatchesChain ==
  drift = 0 /\ ~senderDone => \A a \in Tracked :
    firstNonce[a] = chainNonce[a]
      \/ \E t \in Task : task[t].addr = a /\
            task[t].pc \in {"register", "popSent", "limiter", "nonce", "reset"}

-----------------------------------------------------------------------------
(* Liveness.                                                               *)

\* Prewarming ends: the generator gets past Flush, or the run is over.
PrewarmEnds == (gen.phase # "run") ~> (gen.phase \in {"run", "stopped"})

\* Shutdown: once the sender's scope is cancelled, by a signal or by the first
\* failing task, every goroutine joins and the generator stops.
ShutdownCompletes == senderDone ~> (disp = "returned" /\ gen.phase = "stopped")
=============================================================================
