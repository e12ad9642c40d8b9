----------------------------- MODULE SenderStream -----------------------------
(***************************************************************************)
(* How ShardedSender implements AccountStream: an account is busy when a    *)
(* goroutine works on it (whatever the queue's own flag says), and          *)
(* abandoned when it has transactions but neither a goroutine nor a place   *)
(* in the ready queue.                                                      *)
(***************************************************************************)
EXTENDS ShardedSender

Owned(a) == \E t \in Task : Busy(t) /\ task[t].addr = a

Status(a) ==
  IF Owned(a) THEN "busy"
  ELSE IF firstNonce[a] < nextNonce[a] /\ a \notin flagged THEN "abandoned"
  ELSE "free"

Stream == INSTANCE AccountStream WITH
  OneShot <- Addr \ Tracked,
  cursor  <- firstNonce,
  end     <- nextNonce,
  status  <- [a \in Addr |-> Status(a)],
  closing <- senderDone

\* Every step of the sender is a step of the abstract stream or a stutter:
\* one attempt at a time per account, each dropping exactly its own
\* transaction, and nothing served again once it was abandoned.  With the
\* scheduler's fairness the sender also serves every account that has
\* transactions, and settles every attempt.
ImplementsStream == Stream!Spec
===============================================================================
