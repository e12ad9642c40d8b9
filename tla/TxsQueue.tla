------------------------------ MODULE TxsQueue ------------------------------
(***************************************************************************)
(* sender/txs_queue.go: the transaction queue between the generator and    *)
(* the sender.  Per account it holds a window first..next-1 of nonces whose *)
(* transactions are waiting; an account whose head transaction may be sent  *)
(* sits in the FIFO `ready`, and an account whose head is being sent does   *)
(* not.  Everything is guarded by one utils.Watch (utils/mutex.go): each    *)
(* method is a critical section, and a method that blocks in WaitUntil      *)
(* parks until somebody calls Updated().                                    *)
(*                                                                          *)
(* This module is the queue alone, under calls in ANY order (the comment    *)
(* "Correct flow: PopReady -> PopSent/Reset" is not assumed).               *)
(* ShardedSender adds the goroutines that really call it.                   *)
(***************************************************************************)
\* An operator Op_Variant is a faulty variant of Op: the properties are tested
\* against it, no specification uses it.
EXTENDS Naturals, Sequences, FiniteSets

CONSTANTS
  Addr,       \* account addresses
  Tracked,    \* the accounts of the fixed pools (types.Account.Tracked)
  Capacity,   \* TxsQueue.capacity (config MaxInFlight)
  MaxNonce    \* bound on nonces, for model checking only

ASSUME TrackedAssumption  == Tracked \subseteq Addr
\* config.Settings.Validate rejects MaxInFlight <= 0.
ASSUME CapacityAssumption == Capacity \in Nat \ {0}
ASSUME MaxNonceAssumption == MaxNonce \in Nat

VARIABLES
  byAddr,     \* the accounts txsQueueInner.byAddr holds
  firstNonce, \* accState.firstNonce, 0 for an account byAddr does not hold
  nextNonce,  \* accState.nextNonce, likewise
  flagged,    \* the accounts whose accState.ready is set
  txs,        \* the keys of txsQueueInner.txs: a set of addrNonce pairs
  ready,      \* txsQueueInner.ready
  parked      \* the blocking calls asleep in WatchCtrl.Wait

accVars   == <<byAddr, firstNonce, nextNonce, flagged>>
queueVars == <<byAddr, firstNonce, nextNonce, flagged, txs, ready, parked>>

Nonce == 0 .. MaxNonce

\* The calls that block, named for the method the goroutine is blocked in.
Call == {"PopReady", "Push", "WaitUntilEmpty"}

\* The keys an account's window firstNonce..nextNonce-1 stands for.
Window(a) == {a} \X (firstNonce[a] .. (nextNonce[a] - 1))

QueueInit ==
  /\ byAddr = {}
  /\ firstNonce = [a \in Addr |-> 0]
  /\ nextNonce = [a \in Addr |-> 0]
  /\ flagged = {}
  /\ txs = {}
  /\ ready = <<>>
  /\ parked = {}

-----------------------------------------------------------------------------
(* The blocking protocol of utils.Watch.                                   *)

\* The predicates the three blocking methods pass to WaitUntil.
CanPopReady == Len(ready) > 0
CanPush     == Cardinality(txs) < Capacity
IsDrained   == txs = {}

\* WatchCtrl.Updated closes the channel every parked call is waiting on.
Updated_WakesOne ==
  IF parked = {} THEN UNCHANGED parked ELSE \E call \in parked : parked' = parked \ {call}
Updated == parked' = {}

\* A call whose predicate is false unlocks the watch and waits for an update.
Park(call, holds) ==
  /\ call \notin parked
  /\ ~holds
  /\ parked' = parked \cup {call}
  /\ UNCHANGED <<accVars, txs, ready>>

-----------------------------------------------------------------------------
(* The methods of TxsQueue, one atomic section each.                       *)

\* delete(inner.byAddr, addr): the account is back to the zero accState.
Forget(a) ==
  /\ byAddr' = byAddr \ {a}
  /\ firstNonce' = [firstNonce EXCEPT ![a] = 0]
  /\ nextNonce' = [nextNonce EXCEPT ![a] = 0]

\* What PopSent requires: a is known, popped from ready, and not empty.
HasSentHead_MaybeEmpty(a) == a \in byAddr \ flagged
HasSentHead(a) == a \in byAddr \ flagged /\ firstNonce[a] # nextNonce[a]

\* The head of a has been handed to the chain (or given up): drop it, and
\* offer the next one.
PopSent(a) ==
  LET more == firstNonce[a] + 1 < nextNonce[a]
  IN \/ /\ ~HasSentHead(a)
        /\ UNCHANGED queueVars
     \/ /\ HasSentHead(a)
        /\ Updated
        /\ txs' = txs \ {<<a, firstNonce[a]>>}
        /\ flagged' = IF more THEN flagged \cup {a} ELSE flagged
        /\ ready' = IF more THEN Append(ready, a) ELSE ready
        /\ IF more \/ a \in Tracked
             THEN /\ firstNonce' = [firstNonce EXCEPT ![a] = @ + 1]
                  /\ UNCHANGED <<byAddr, nextNonce>>
             ELSE Forget(a)

\* Forget everything queued for a and restart it at the chain's nonce.
Reset(a, nonce) ==
  \/ /\ a \notin byAddr \/ a \in flagged
     /\ UNCHANGED queueVars
  \/ /\ a \in byAddr \ flagged
     /\ Updated
     /\ txs' = txs \ Window(a)
     /\ IF a \in Tracked
          THEN /\ firstNonce' = [firstNonce EXCEPT ![a] = nonce]
               /\ nextNonce' = [nextNonce EXCEPT ![a] = nonce]
               /\ UNCHANGED byAddr
          ELSE Forget(a)
     /\ UNCHANGED <<flagged, ready>>

\* Take the oldest ready account a; its head transaction is firstNonce[a].
PopReady_Peeks(a) ==
  /\ "PopReady" \notin parked /\ CanPopReady /\ a = Head(ready)
  /\ UNCHANGED queueVars
PopReady_TakesTx(a) ==
  /\ "PopReady" \notin parked /\ CanPopReady /\ a = Head(ready)
  /\ ready' = Tail(ready) /\ flagged' = flagged \ {a}
  /\ txs' = txs \ {<<a, firstNonce[a]>>}
  /\ Updated
  /\ UNCHANGED <<byAddr, firstNonce, nextNonce>>
PopReady(a) ==
  /\ "PopReady" \notin parked
  /\ CanPopReady
  /\ a = Head(ready)
  /\ ready' = Tail(ready)
  /\ flagged' = flagged \ {a}
  /\ Updated
  /\ UNCHANGED <<byAddr, firstNonce, nextNonce, txs>>

\* Append transaction (a, nonce).  A nonce that is not the next one (a Reset
\* came between reading it and pushing) is dropped without an error.
Push(a, nonce) ==
  /\ "Push" \notin parked
  /\ CanPush
  /\ \/ /\ nonce # nextNonce[a]
        /\ UNCHANGED queueVars
     \/ /\ nonce = nextNonce[a]
        /\ byAddr' = byAddr \cup {a}
        /\ nextNonce' = [nextNonce EXCEPT ![a] = @ + 1]
        /\ txs' = txs \cup {<<a, nonce>>}
        /\ \/ /\ firstNonce[a] = nonce
              /\ flagged' = flagged \cup {a}
              /\ ready' = Append(ready, a)
              /\ Updated
           \/ /\ firstNonce[a] # nonce
              /\ UNCHANGED <<flagged, ready, parked>>
        /\ UNCHANGED firstNonce

\* Flush returns once nothing is queued.
WaitUntilEmpty ==
  /\ "WaitUntilEmpty" \notin parked
  /\ IsDrained
  /\ UNCHANGED queueVars

\* TxsQueue.Nonce; an account that is not held answers 0.
NonceOf(a) == nextNonce[a]

\* A blocked call falls asleep.
ParkPopReady == Park("PopReady", CanPopReady)
ParkPush     == Park("Push", CanPush)
ParkFlush    == Park("WaitUntilEmpty", IsDrained)

\* A blocked call whose context ended returns the context's error.
GiveUp(call) ==
  /\ parked' = parked \ {call}
  /\ UNCHANGED <<accVars, txs, ready>>

QueueNext ==
  \/ \E a \in Addr : PopSent(a)
  \/ \E a \in Addr, n \in Nonce : Reset(a, n)
  \/ \E a \in Addr : PopReady(a)
  \/ \E a \in Addr, n \in Nonce : n < MaxNonce /\ Push(a, n)
  \/ WaitUntilEmpty
  \/ ParkPopReady
  \/ ParkPush
  \/ ParkFlush
  \/ \E c \in Call : GiveUp(c)

QueueSpec == QueueInit /\ [][QueueNext]_queueVars

-----------------------------------------------------------------------------
(* Properties.                                                             *)

\* Types of the queue's state; an account that is not held has zero nonces.
QueueTypeOK ==
  /\ byAddr \subseteq Addr
  /\ firstNonce \in [Addr -> Nat]
  /\ nextNonce \in [Addr -> Nat]
  /\ flagged \subseteq Addr
  /\ txs \subseteq Addr \X Nat
  /\ ready \in Seq(Addr)
  /\ parked \subseteq Call
  /\ \A a \in Addr \ byAddr : firstNonce[a] = 0 /\ nextNonce[a] = 0

\* The two maps agree: the keys of txs are exactly the windows
\* firstNonce..nextNonce-1 of the accounts.  PopReady's lookup inner.txs[an]
\* therefore never yields a nil transaction, and PopSent and Reset leak none.
MapsAgree ==
  /\ \A a \in Addr : firstNonce[a] <= nextNonce[a] /\ Window(a) \subseteq txs
  /\ \A k \in txs : k \in Window(k[1])

\* accState.ready ("whether the account is present in the ready queue") tells
\* the truth, an account is queued at most once, and never with an empty
\* window: PopReady cannot return a transaction that is already in flight.
ReadyIsExact ==
  /\ \A i, j \in 1 .. Len(ready) : ready[i] = ready[j] => i = j
  /\ \A a \in Addr : a \in flagged <=> \E i \in 1 .. Len(ready) : ready[i] = a
  /\ \A a \in flagged : a \in byAddr /\ firstNonce[a] < nextNonce[a]

\* At most `capacity` transactions are held, whatever the pushers do.
WithinCapacity == IsFiniteSet(txs) /\ Cardinality(txs) <= Capacity

\* No lost wake-up: a call asleep in WaitUntil has a false predicate, although
\* Push skips Updated() unless it makes an account ready.
NoLostWakeup ==
  /\ "PopReady" \in parked => ~CanPopReady
  /\ "Push" \in parked => ~CanPush
  /\ "WaitUntilEmpty" \in parked => ~IsDrained

\* A one-shot (untracked) account is remembered only while it has transactions:
\* a run that mints a new account per transaction does not grow byAddr.
UntrackedForgotten ==
  \A a \in Addr \ Tracked : a \in byAddr <=> firstNonce[a] < nextNonce[a]

\* The indexes of the queue describe what it holds, and no more is held than
\* may be, under calls in any order (txs_queue.go keeps four structures in step).
QueueIsExact == QueueTypeOK /\ MapsAgree /\ ReadyIsExact /\ WithinCapacity /\ UntrackedForgotten
=============================================================================
