--------------------------- MODULE AccountStream ---------------------------
(***************************************************************************)
(* What the sender promises about an account, without the queue, the ready  *)
(* list, the tasks or the chain: the transactions of an account form a      *)
(* window of consecutive nonces; at most one of them, the oldest, is being  *)
(* sent; that attempt ends by dropping exactly that transaction, by         *)
(* restarting the whole window at another nonce, or by being abandoned,     *)
(* which happens only while the sender closes and after which the account   *)
(* is never served again.  ShardedSender implements it (SenderStream).      *)
(***************************************************************************)
EXTENDS Naturals

CONSTANTS
  Addr,     \* accounts
  OneShot,  \* accounts that are forgotten once they have no transactions
  Nonce     \* nonces an account can be restarted at

VARIABLES
  cursor,   \* nonce of the account's oldest transaction
  end,      \* one past the nonce of its newest
  status,   \* whether the oldest is being sent
  closing   \* the sender is being torn down

streamVars == <<cursor, end, status, closing>>

Init ==
  /\ cursor = [a \in Addr |-> 0]
  /\ end = [a \in Addr |-> 0]
  /\ status = [a \in Addr |-> "free"]
  /\ closing = FALSE

Pending(a) == cursor[a] < end[a]

\* A transaction with the next nonce joins the window.
Enqueue(a) ==
  /\ end' = [end EXCEPT ![a] = @ + 1]
  /\ UNCHANGED <<cursor, status, closing>>

\* The oldest transaction is taken for sending.
Dispatch(a) ==
  /\ status[a] = "free"
  /\ Pending(a)
  /\ status' = [status EXCEPT ![a] = "busy"]
  /\ UNCHANGED <<cursor, end, closing>>

\* The attempt is over and its transaction is dropped.
Finish(a) ==
  /\ status[a] = "busy"
  /\ status' = [status EXCEPT ![a] = "free"]
  /\ IF a \in OneShot /\ cursor[a] + 1 = end[a]
       THEN /\ cursor' = [cursor EXCEPT ![a] = 0]
            /\ end' = [end EXCEPT ![a] = 0]
       ELSE /\ cursor' = [cursor EXCEPT ![a] = @ + 1]
            /\ UNCHANGED end
  /\ UNCHANGED closing

\* The attempt failed: everything queued is discarded, and the account goes on
\* from nonce n.
Restart(a, n) ==
  /\ status[a] = "busy"
  /\ a \notin OneShot
  /\ status' = [status EXCEPT ![a] = "free"]
  /\ cursor' = [cursor EXCEPT ![a] = n]
  /\ end' = [end EXCEPT ![a] = n]
  /\ UNCHANGED closing

\* The attempt is given up with its outcome unknown.
Abandon(a) ==
  /\ status[a] = "busy"
  /\ status' = [status EXCEPT ![a] = "abandoned"]
  /\ closing' = TRUE
  /\ UNCHANGED <<cursor, end>>

Close ==
  /\ closing' = TRUE
  /\ UNCHANGED <<cursor, end, status>>

Settle(a) == Finish(a) \/ \E n \in Nonce : Restart(a, n)

Next ==
  \/ \E a \in Addr : Enqueue(a) \/ Dispatch(a) \/ Settle(a) \/ Abandon(a)
  \/ Close

\* While the sender is open, an account with transactions is served and every
\* attempt comes to an end.
Fairness ==
  \A a \in Addr :
    /\ WF_streamVars(~closing /\ Dispatch(a))
    /\ WF_streamVars(~closing /\ Settle(a))

SafeSpec == Init /\ [][Next]_streamVars
Spec     == SafeSpec /\ Fairness
=============================================================================
