------------------------ MODULE ShardedSenderProofs ------------------------
(***************************************************************************)
(* The safety of TxsQueue and of the ShardedSender that serves it, for every *)
(* number of accounts, goroutines and permits, every capacity and bound on    *)
(* nonces, and for a chain that does what it likes.  First the queue alone:   *)
(* QueueInv is inductive, and each method preserves each of its conjuncts.    *)
(* It carries over to the sender method by method; what is added is the       *)
(* ownership discipline between the queue and the tasks: an account is either *)
(* in ready, or held by exactly one task, or empty, or the sender is closing. *)
(* On this invariant rest the agreement with the chain and the refinement of  *)
(* AccountStream, further down.                                               *)
(***************************************************************************)
EXTENDS SenderStream, FiniteSetTheorems, SequenceTheorems, TLAPS

-----------------------------------------------------------------------------
(* The queue.                                                              *)

\* Dequeuing from a sequence without duplicates removes exactly its head.
LEMMA TailOfDistinct ==
  ASSUME NEW S, NEW s \in Seq(S), Len(s) > 0,
         \A i, j \in 1 .. Len(s) : s[i] = s[j] => i = j
  PROVE  /\ Tail(s) \in Seq(S)
         /\ \A i, j \in 1 .. Len(Tail(s)) : Tail(s)[i] = Tail(s)[j] => i = j
         /\ \A x : (\E i \in 1 .. Len(Tail(s)) : Tail(s)[i] = x)
                     <=> x # Head(s) /\ \E i \in 1 .. Len(s) : s[i] = x
<1>1. /\ Tail(s) \in Seq(S)
      /\ Len(Tail(s)) = Len(s) - 1
      /\ \A i \in 1 .. Len(Tail(s)) : Tail(s)[i] = s[i + 1]
      /\ Head(s) = s[1]
  OBVIOUS
<1>2. Len(s) \in Nat
  OBVIOUS
<1>3. \A i, j \in 1 .. Len(Tail(s)) : Tail(s)[i] = Tail(s)[j] => i = j
  BY <1>1, <1>2
<1>4. ASSUME NEW x
      PROVE  (\E i \in 1 .. Len(Tail(s)) : Tail(s)[i] = x)
               <=> x # Head(s) /\ \E i \in 1 .. Len(s) : s[i] = x
  <2>1. ASSUME NEW i \in 1 .. Len(Tail(s)), Tail(s)[i] = x
        PROVE  x # Head(s) /\ \E k \in 1 .. Len(s) : s[k] = x
    <3>1. i + 1 \in 1 .. Len(s) /\ s[i + 1] = x /\ i + 1 # 1
      BY <1>1, <1>2, <2>1
    <3>2. x # s[1]
      BY <3>1, <1>2
    <3>. QED BY <3>1, <3>2, <1>1
  <2>2. ASSUME x # Head(s), NEW i \in 1 .. Len(s), s[i] = x
        PROVE  \E k \in 1 .. Len(Tail(s)) : Tail(s)[k] = x
    <3>1. i # 1
      BY <2>2, <1>1
    <3>2. i - 1 \in 1 .. Len(Tail(s)) /\ (i - 1) + 1 = i
      BY <3>1, <1>1, <1>2
    <3>3. Tail(s)[i - 1] = x
      BY <3>2, <1>1, <2>2
    <3>. QED BY <3>2, <3>3
  <2>. QED BY <2>1, <2>2
<1>. QED BY <1>1, <1>3, <1>4

\* Enqueuing an element that is not there keeps a sequence duplicate-free.
LEMMA AppendOfDistinct ==
  ASSUME NEW S, NEW s \in Seq(S), NEW e \in S,
         \A i, j \in 1 .. Len(s) : s[i] = s[j] => i = j,
         \A i \in 1 .. Len(s) : s[i] # e
  PROVE  /\ Append(s, e) \in Seq(S)
         /\ Len(Append(s, e)) = Len(s) + 1
         /\ \A i, j \in 1 .. Len(Append(s, e)) :
              Append(s, e)[i] = Append(s, e)[j] => i = j
         /\ \A x : (\E i \in 1 .. Len(Append(s, e)) : Append(s, e)[i] = x)
                     <=> x = e \/ \E i \in 1 .. Len(s) : s[i] = x
<1>1. /\ Append(s, e) \in Seq(S)
      /\ Len(Append(s, e)) = Len(s) + 1
      /\ \A i \in 1 .. Len(s) : Append(s, e)[i] = s[i]
      /\ Append(s, e)[Len(s) + 1] = e
      /\ Len(s) \in Nat
  BY AppendProperties
<1>2. ASSUME NEW i \in 1 .. Len(Append(s, e)), NEW j \in 1 .. Len(Append(s, e)),
             Append(s, e)[i] = Append(s, e)[j]
      PROVE  i = j
  BY <1>1, <1>2
<1>3. ASSUME NEW x
      PROVE  (\E i \in 1 .. Len(Append(s, e)) : Append(s, e)[i] = x)
               <=> x = e \/ \E i \in 1 .. Len(s) : s[i] = x
  <2>1. ASSUME NEW i \in 1 .. Len(Append(s, e)), Append(s, e)[i] = x
        PROVE  x = e \/ \E k \in 1 .. Len(s) : s[k] = x
    BY <1>1, <2>1
  <2>2. ASSUME NEW i \in 1 .. Len(s), s[i] = x
        PROVE  \E k \in 1 .. Len(Append(s, e)) : Append(s, e)[k] = x
    <3>1. i \in 1 .. Len(Append(s, e))
      BY <1>1
    <3>. QED BY <1>1, <2>2, <3>1
  <2>3. Len(s) + 1 \in 1 .. Len(Append(s, e))
    BY <1>1
  <2>. QED BY <1>1, <2>1, <2>2, <2>3
<1>. QED BY <1>1, <1>2, <1>3

-----------------------------------------------------------------------------
\* The inductive invariant: the conjunction of the properties themselves.
QueueInv ==
  /\ QueueTypeOK
  /\ MapsAgree
  /\ ReadyIsExact
  /\ WithinCapacity
  /\ NoLostWakeup
  /\ UntrackedForgotten

\* A step that leaves every queue variable alone keeps the invariant.
LEMMA QueueStutter ==
  QueueInv /\ UNCHANGED queueVars => QueueInv'
BY DEF QueueInv, queueVars, QueueTypeOK, MapsAgree, ReadyIsExact, WithinCapacity,
   NoLostWakeup, UntrackedForgotten, CanPopReady, CanPush, IsDrained, Window

\* Membership in an account's window, spelt out.
LEMMA InWindow ==
  ASSUME NEW a \in Addr, firstNonce[a] \in Nat, nextNonce[a] \in Nat, NEW k
  PROVE  k \in Window(a) <=>
           k = <<a, k[2]>> /\ k[2] \in Nat /\ firstNonce[a] <= k[2] /\ k[2] < nextNonce[a]
BY DEF Window

\* Removing keys never exceeds a capacity that was respected.
LEMMA ShrinkingStaysWithinCapacity ==
  ASSUME NEW S, NEW T \in SUBSET S, IsFiniteSet(S), Cardinality(S) <= Capacity
  PROVE  IsFiniteSet(T) /\ Cardinality(T) <= Capacity
<1>1. IsFiniteSet(T) /\ Cardinality(T) <= Cardinality(S)
  BY FS_Subset
<1>2. Cardinality(S) \in Nat /\ Cardinality(T) \in Nat
  BY <1>1, FS_CardinalityType
<1>. QED BY <1>1, <1>2, CapacityAssumption

\* PopSent keeps the invariant: it removes one key, the head of a's window,
\* and re-enters a in ready only when it was not there.
LEMMA PopSentPreserves ==
  ASSUME QueueInv, NEW a \in Addr, PopSent(a)
  PROVE  QueueInv'
<1>. USE DEF QueueInv
<1>1. CASE ~HasSentHead(a)
  BY <1>1, QueueStutter DEF PopSent
<1>2. CASE HasSentHead(a)
  <2> DEFINE more == firstNonce[a] + 1 < nextNonce[a]
  <2>1. /\ firstNonce[a] \in Nat /\ nextNonce[a] \in Nat /\ firstNonce[a] < nextNonce[a]
        /\ a \in byAddr /\ a \notin flagged
    BY <1>2 DEF QueueTypeOK, HasSentHead, MapsAgree
  <2>2. /\ txs' = txs \ {<<a, firstNonce[a]>>}
        /\ flagged' = IF more THEN flagged \cup {a} ELSE flagged
        /\ ready' = IF more THEN Append(ready, a) ELSE ready
        /\ parked' = {}
        /\ IF more \/ a \in Tracked
             THEN /\ firstNonce' = [firstNonce EXCEPT ![a] = @ + 1]
                  /\ UNCHANGED <<byAddr, nextNonce>>
             ELSE Forget(a)
    BY <1>2 DEF PopSent, Updated
  <2>3. /\ \A b \in Addr \ {a} : firstNonce'[b] = firstNonce[b] /\ nextNonce'[b] = nextNonce[b]
        /\ more \/ a \in Tracked =>
             firstNonce'[a] = firstNonce[a] + 1 /\ nextNonce'[a] = nextNonce[a] /\ byAddr' = byAddr
        /\ ~(more \/ a \in Tracked) =>
             firstNonce'[a] = 0 /\ nextNonce'[a] = 0 /\ byAddr' = byAddr \ {a}
        /\ firstNonce' \in [Addr -> Nat] /\ nextNonce' \in [Addr -> Nat]
    BY <2>1, <2>2 DEF QueueTypeOK, Forget
  <2>4. /\ ready \in Seq(Addr)
        /\ \A i \in 1 .. Len(ready) : ready[i] # a
    BY <2>1 DEF ReadyIsExact, QueueTypeOK
  <2>5. QueueTypeOK'
    <3>1. byAddr' \subseteq Addr /\ flagged' \subseteq Addr /\ parked' \subseteq Call
      BY <2>2, <2>3 DEF QueueTypeOK
    <3>2. txs' \subseteq Addr \X Nat
      BY <2>2 DEF QueueTypeOK
    <3>3. ready' \in Seq(Addr)
      BY <2>2, <2>4
    <3>4. ASSUME NEW b \in Addr, b \notin byAddr'
          PROVE  firstNonce'[b] = 0 /\ nextNonce'[b] = 0
      <4>1. CASE b = a
        BY <2>1, <2>3, <3>4, <4>1
      <4>2. CASE b # a
        <5>1. b \notin byAddr
          BY <2>3, <3>4, <4>2
        <5>. QED  BY <2>3, <4>2, <5>1 DEF QueueTypeOK
      <4>. QED  BY <4>1, <4>2
    <3>. QED  BY <2>3, <3>1, <3>2, <3>3, <3>4 DEF QueueTypeOK
  <2>6. MapsAgree'
    <3>1. \A n \in Nat : firstNonce'[a] <= n /\ n < nextNonce'[a]
                           => firstNonce[a] < n /\ n < nextNonce[a]
      BY <2>1, <2>3
    <3>2. ASSUME NEW b \in Addr
          PROVE  firstNonce'[b] <= nextNonce'[b]
      BY <2>1, <2>3 DEF MapsAgree
    <3>3. ASSUME NEW b \in Addr, NEW k \in Window(b)'
          PROVE  k \in txs'
      <4>1. k = <<b, k[2]>> /\ k[2] \in Nat /\ firstNonce'[b] <= k[2] /\ k[2] < nextNonce'[b]
        BY <3>3, <2>3 DEF Window
      <4>2. k \in Window(b) /\ k # <<a, firstNonce[a]>>
        BY <4>1, <3>1, <2>1, <2>3, InWindow DEF QueueTypeOK
      <4>. QED BY <4>2, <2>2 DEF MapsAgree
    <3>4. ASSUME NEW k \in txs'
          PROVE  k \in Window(k[1])'
      <4>1. k \in txs /\ k # <<a, firstNonce[a]>> /\ k[1] \in Addr /\ k \in Window(k[1])
        BY <2>2, <3>4 DEF QueueTypeOK, MapsAgree
      <4>2. k = <<k[1], k[2]>> /\ k[2] \in Nat
              /\ firstNonce[k[1]] <= k[2] /\ k[2] < nextNonce[k[1]]
        BY <4>1, InWindow DEF QueueTypeOK
      <4>3. firstNonce'[k[1]] <= k[2] /\ k[2] < nextNonce'[k[1]]
        BY <4>1, <4>2, <2>1, <2>3
      <4>. QED BY <4>1, <4>2, <4>3, <2>3 DEF Window
    <3>. QED BY <3>2, <3>3, <3>4 DEF MapsAgree
  <2>7. ReadyIsExact'
    <3>1. CASE more
      <4>1. /\ \A i, j \in 1 .. Len(ready') : ready'[i] = ready'[j] => i = j
            /\ \A x : (\E i \in 1 .. Len(ready') : ready'[i] = x)
                        <=> x = a \/ \E i \in 1 .. Len(ready) : ready[i] = x
        BY <2>2, <2>4, <3>1, AppendOfDistinct DEF ReadyIsExact
      <4>2. firstNonce'[a] < nextNonce'[a] /\ a \in byAddr' /\ byAddr' = byAddr
        BY <3>1, <2>1, <2>3
      <4>. QED BY <4>1, <4>2, <2>2, <2>3, <3>1 DEF ReadyIsExact, QueueTypeOK
    <3>2. CASE ~more
      BY <3>2, <2>1, <2>2, <2>3 DEF ReadyIsExact, QueueTypeOK
    <3>. QED BY <3>1, <3>2
  <2>8. WithinCapacity'
    <3>1. IsFiniteSet(txs) /\ Cardinality(txs) <= Capacity
      BY DEF WithinCapacity
    <3>2. txs' \in SUBSET txs
      BY <2>2
    <3>. QED BY <3>1, <3>2, ShrinkingStaysWithinCapacity DEF WithinCapacity
  <2>9. NoLostWakeup'
    BY <2>2 DEF NoLostWakeup
  <2>10. UntrackedForgotten'
    BY <2>1, <2>2, <2>3 DEF UntrackedForgotten
  <2>. QED BY <2>5, <2>6, <2>7, <2>8, <2>9, <2>10
<1>. QED BY <1>1, <1>2

\* Reset keeps the invariant: it removes a's whole window and opens an empty
\* one at the chain's nonce (or forgets the account).
LEMMA ResetPreserves ==
  ASSUME QueueInv, NEW a \in Addr, NEW nonce \in Nat, Reset(a, nonce)
  PROVE  QueueInv'
<1>. USE DEF QueueInv
<1>1. CASE a \notin byAddr \/ a \in flagged
  BY <1>1, QueueStutter DEF Reset
<1>2. CASE a \in byAddr \ flagged
  <2>1. /\ txs' = txs \ Window(a)
        /\ parked' = {} /\ flagged' = flagged /\ ready' = ready
        /\ IF a \in Tracked
             THEN /\ firstNonce' = [firstNonce EXCEPT ![a] = nonce]
                  /\ nextNonce' = [nextNonce EXCEPT ![a] = nonce]
                  /\ UNCHANGED byAddr
             ELSE Forget(a)
    BY <1>2 DEF Reset, Updated
  <2>2. /\ \A b \in Addr \ {a} : firstNonce'[b] = firstNonce[b] /\ nextNonce'[b] = nextNonce[b]
        /\ firstNonce'[a] \in Nat /\ firstNonce'[a] = nextNonce'[a]
        /\ a \in Tracked => byAddr' = byAddr
        /\ a \notin Tracked => byAddr' = byAddr \ {a} /\ firstNonce'[a] = 0
        /\ firstNonce' \in [Addr -> Nat] /\ nextNonce' \in [Addr -> Nat]
    <3>1. CASE a \in Tracked
      BY <3>1, <2>1 DEF QueueTypeOK
    <3>2. CASE a \notin Tracked
      <4>1. /\ byAddr' = byAddr \ {a}
            /\ firstNonce' = [firstNonce EXCEPT ![a] = 0]
            /\ nextNonce' = [nextNonce EXCEPT ![a] = 0]
        BY <3>2, <2>1 DEF Forget
      <4>. QED BY <4>1, <3>2 DEF QueueTypeOK
    <3>. QED BY <3>1, <3>2
  <2>3. QueueTypeOK'
    BY <1>2, <2>1, <2>2 DEF QueueTypeOK
  <2>4. MapsAgree'
    <3>1. ASSUME NEW b \in Addr
          PROVE  firstNonce'[b] <= nextNonce'[b]
      BY <2>2 DEF MapsAgree
    <3>2. ASSUME NEW b \in Addr, NEW k \in Window(b)'
          PROVE  k \in txs'
      <4>1. k = <<b, k[2]>> /\ k[2] \in Nat /\ firstNonce'[b] <= k[2] /\ k[2] < nextNonce'[b]
        BY <3>2, <2>2 DEF Window
      <4>2. b # a
        BY <4>1, <2>2
      <4>3. k \in Window(b) /\ k \notin Window(a)
        BY <4>1, <4>2, <2>2, InWindow DEF QueueTypeOK
      <4>. QED BY <4>3, <2>1 DEF MapsAgree
    <3>3. ASSUME NEW k \in txs'
          PROVE  k \in Window(k[1])'
      <4>1. k \in txs /\ k \in Window(k[1]) /\ k[1] \in Addr /\ k[1] # a
        BY <2>1, <3>3 DEF QueueTypeOK, MapsAgree
      <4>. QED BY <4>1, <2>2 DEF Window
    <3>. QED BY <3>1, <3>2, <3>3 DEF MapsAgree
  <2>5. ReadyIsExact'
    BY <1>2, <2>1, <2>2 DEF ReadyIsExact, QueueTypeOK
  <2>6. WithinCapacity'
    <3>1. txs' \in SUBSET txs
      BY <2>1
    <3>. QED BY <3>1, ShrinkingStaysWithinCapacity DEF WithinCapacity
  <2>7. NoLostWakeup'
    BY <2>1 DEF NoLostWakeup
  <2>8. UntrackedForgotten'
    <3>. SUFFICES ASSUME NEW b \in Addr \ Tracked
                  PROVE  b \in byAddr' <=> firstNonce'[b] < nextNonce'[b]
      BY DEF UntrackedForgotten
    <3>1. CASE b = a
      BY <3>1, <2>2
    <3>2. CASE b # a
      <4>1. b \in byAddr' <=> b \in byAddr
        BY <3>2, <2>2
      <4>. QED BY <4>1, <3>2, <2>2 DEF UntrackedForgotten
    <3>. QED BY <3>1, <3>2
  <2>. QED BY <2>3, <2>4, <2>5, <2>6, <2>7, <2>8
<1>. QED BY <1>1, <1>2

\* PopReady keeps the invariant: the popped account leaves ready and its flag
\* is cleared in the same critical section.
LEMMA PopReadyPreserves ==
  ASSUME QueueInv, NEW a \in Addr, PopReady(a)
  PROVE  QueueInv'
<1>. USE DEF QueueInv
<1>1. /\ ready \in Seq(Addr) /\ Len(ready) > 0 /\ a = Head(ready)
      /\ ready' = Tail(ready)
      /\ flagged' = flagged \ {a}
      /\ parked' = {}
      /\ UNCHANGED <<byAddr, firstNonce, nextNonce, txs>>
  BY DEF PopReady, CanPopReady, Updated, QueueTypeOK
<1>2. /\ ready' \in Seq(Addr)
      /\ \A i, j \in 1 .. Len(ready') : ready'[i] = ready'[j] => i = j
      /\ \A x : (\E i \in 1 .. Len(ready') : ready'[i] = x)
                  <=> x # a /\ \E i \in 1 .. Len(ready) : ready[i] = x
  <2>1. \A i, j \in 1 .. Len(ready) : ready[i] = ready[j] => i = j
    BY DEF ReadyIsExact
  <2>. HIDE DEF QueueInv
  <2>2. /\ Tail(ready) \in Seq(Addr)
        /\ \A i, j \in 1 .. Len(Tail(ready)) : Tail(ready)[i] = Tail(ready)[j] => i = j
        /\ \A x : (\E i \in 1 .. Len(Tail(ready)) : Tail(ready)[i] = x)
                    <=> x # Head(ready) /\ \E i \in 1 .. Len(ready) : ready[i] = x
    <3>1. PICK s \in Seq(Addr) : s = ready
      BY <1>1
    <3>2. Len(s) > 0 /\ \A i, j \in 1 .. Len(s) : s[i] = s[j] => i = j
      BY <1>1, <2>1, <3>1
    <3>3. /\ Tail(s) \in Seq(Addr)
          /\ \A i, j \in 1 .. Len(Tail(s)) : Tail(s)[i] = Tail(s)[j] => i = j
          /\ \A x : (\E i \in 1 .. Len(Tail(s)) : Tail(s)[i] = x)
                      <=> x # Head(s) /\ \E i \in 1 .. Len(s) : s[i] = x
      BY ONLY s \in Seq(Addr), <3>2, TailOfDistinct
    <3>. QED BY <3>1, <3>3
  <2>3. ready' = Tail(ready) /\ Head(ready) = a
    BY <1>1
  <2>4. ready' \in Seq(Addr)
    BY <2>2, <2>3
  <2>5. \A i, j \in 1 .. Len(ready') : ready'[i] = ready'[j] => i = j
    BY <2>2, <2>3
  <2>6. \A x : (\E i \in 1 .. Len(ready') : ready'[i] = x)
                 <=> x # a /\ \E i \in 1 .. Len(ready) : ready[i] = x
    BY ONLY <2>2, <2>3, Zenon
  <2>. QED BY <2>4, <2>5, <2>6
<1>3. QueueTypeOK'
  BY <1>1, <1>2 DEF QueueTypeOK
<1>4. MapsAgree'
  BY <1>1 DEF MapsAgree, Window
<1>5. ReadyIsExact'
  BY <1>1, <1>2 DEF ReadyIsExact
<1>6. WithinCapacity' /\ NoLostWakeup' /\ UntrackedForgotten'
  BY <1>1 DEF WithinCapacity, NoLostWakeup, UntrackedForgotten
<1>. QED BY <1>3, <1>4, <1>5, <1>6

\* Push keeps the invariant.  CanPush, tested in the same critical section as
\* the insertion, is what bounds the queue; the account is entered in ready
\* only when its window was empty, and then it was not there.
LEMMA PushPreserves ==
  ASSUME QueueInv, NEW a \in Addr, NEW nonce \in Nat, Push(a, nonce)
  PROVE  QueueInv'
<1>. USE DEF QueueInv
<1>1. CASE nonce # nextNonce[a]
  BY <1>1, QueueStutter DEF Push
<1>2. CASE nonce = nextNonce[a]
  <2> DEFINE head == firstNonce[a] = nonce
  <2>1. /\ Cardinality(txs) < Capacity
        /\ byAddr' = byAddr \cup {a}
        /\ nextNonce' = [nextNonce EXCEPT ![a] = @ + 1]
        /\ firstNonce' = firstNonce
        /\ txs' = txs \cup {<<a, nonce>>}
        /\ head => flagged' = flagged \cup {a} /\ ready' = Append(ready, a) /\ parked' = {}
        /\ ~head => flagged' = flagged /\ ready' = ready /\ parked' = parked
    BY <1>2 DEF Push, CanPush, Updated
  <2>2. /\ nextNonce' \in [Addr -> Nat]
        /\ nextNonce'[a] = nonce + 1 /\ nextNonce[a] = nonce
        /\ firstNonce[a] \in Nat /\ firstNonce[a] <= nonce
        /\ \A b \in Addr \ {a} : nextNonce'[b] = nextNonce[b]
    BY <1>2, <2>1 DEF QueueTypeOK, MapsAgree
  <2>3. ready \in Seq(Addr) /\ (head => \A i \in 1 .. Len(ready) : ready[i] # a)
    <3>1. ready \in Seq(Addr)
      BY DEF QueueTypeOK
    <3>2. ASSUME head, NEW i \in 1 .. Len(ready), ready[i] = a
          PROVE  FALSE
      <4>1. a \in flagged
        BY <3>2 DEF ReadyIsExact
      <4>2. firstNonce[a] < nextNonce[a]
        BY <4>1 DEF ReadyIsExact
      <4>. QED BY <4>2, <3>2, <2>2
    <3>. QED BY <3>1, <3>2
  <2>4. QueueTypeOK'
    <3>1. ready' \in Seq(Addr) /\ flagged' \subseteq Addr /\ parked' \subseteq Call
      <4>1. CASE head
        <5>1. ready' = Append(ready, a) /\ flagged' = flagged \cup {a} /\ parked' = {}
          BY <4>1, <2>1
        <5>2. Append(ready, a) \in Seq(Addr)
          BY <2>3, AppendProperties
        <5>. QED BY <5>1, <5>2 DEF QueueTypeOK
      <4>2. CASE ~head
        BY <4>2, <2>1, <2>3 DEF QueueTypeOK
      <4>. QED BY <4>1, <4>2
    <3>. QED BY <3>1, <2>1, <2>2 DEF QueueTypeOK
  <2>5. MapsAgree'
    <3>1. ASSUME NEW b \in Addr
          PROVE  firstNonce'[b] <= nextNonce'[b]
      BY <2>1, <2>2 DEF MapsAgree
    <3>2. ASSUME NEW b \in Addr, NEW k \in Window(b)'
          PROVE  k \in txs'
      <4>1. k = <<b, k[2]>> /\ k[2] \in Nat /\ firstNonce[b] <= k[2] /\ k[2] < nextNonce'[b]
        BY <3>2, <2>1, <2>2 DEF Window, QueueTypeOK
      <4>2. CASE b = a /\ k[2] = nonce
        BY <4>1, <4>2, <2>1
      <4>3. CASE ~(b = a /\ k[2] = nonce)
        <5>1. k[2] < nextNonce[b]
          BY <4>1, <4>3, <2>2
        <5>2. k \in Window(b)
          BY <4>1, <5>1, InWindow DEF QueueTypeOK
        <5>. QED BY <5>2, <2>1 DEF MapsAgree
      <4>. QED BY <4>2, <4>3
    <3>3. ASSUME NEW k \in txs'
          PROVE  k \in Window(k[1])'
      <4>1. CASE k = <<a, nonce>>
        BY <4>1, <2>1, <2>2 DEF Window
      <4>2. CASE k \in txs
        <5>1. k[1] \in Addr /\ k \in Window(k[1])
          BY <4>2 DEF QueueTypeOK, MapsAgree
        <5>2. k = <<k[1], k[2]>> /\ k[2] \in Nat
                /\ firstNonce[k[1]] <= k[2] /\ k[2] < nextNonce[k[1]]
          BY <5>1, InWindow DEF QueueTypeOK
        <5>3. k[2] < nextNonce'[k[1]]
          BY <5>1, <5>2, <2>2
        <5>. QED BY <5>1, <5>2, <5>3, <2>1, <2>2 DEF Window, QueueTypeOK
      <4>. QED BY <3>3, <4>1, <4>2, <2>1
    <3>. QED BY <3>1, <3>2, <3>3 DEF MapsAgree
  <2>6. ReadyIsExact'
    <3>1. CASE head
      <4>1. /\ \A i, j \in 1 .. Len(ready') : ready'[i] = ready'[j] => i = j
            /\ \A x : (\E i \in 1 .. Len(ready') : ready'[i] = x)
                        <=> x = a \/ \E i \in 1 .. Len(ready) : ready[i] = x
        <5>1. \A i, j \in 1 .. Len(ready) : ready[i] = ready[j] => i = j
          BY DEF ReadyIsExact
        <5>2. ready' = Append(ready, a) /\ \A i \in 1 .. Len(ready) : ready[i] # a
          BY <2>1, <2>3, <3>1
        <5>. QED BY <5>1, <5>2, <2>3, AppendOfDistinct
      <4>2. flagged' = flagged \cup {a}
        BY <2>1, <3>1
      <4>3. \A b \in Addr : b \in flagged' <=> \E i \in 1 .. Len(ready') : ready'[i] = b
        BY <4>1, <4>2 DEF ReadyIsExact
      <4>4. \A b \in flagged' : b \in byAddr' /\ firstNonce'[b] < nextNonce'[b]
        BY <4>2, <2>1, <2>2, <3>1 DEF ReadyIsExact, QueueTypeOK
      <4>. QED BY <4>1, <4>3, <4>4 DEF ReadyIsExact
    <3>2. CASE ~head
      BY <3>2, <2>1, <2>2 DEF ReadyIsExact, QueueTypeOK
    <3>. QED BY <3>1, <3>2
  <2>7. WithinCapacity'
    <3>1. IsFiniteSet(txs) /\ Cardinality(txs) \in Nat
      BY FS_CardinalityType DEF WithinCapacity
    <3>2. /\ IsFiniteSet(txs')
          /\ Cardinality(txs') = Cardinality(txs) \/ Cardinality(txs') = Cardinality(txs) + 1
      BY <2>1, <3>1, FS_AddElement
    <3>. QED BY <3>1, <3>2, <2>1, CapacityAssumption DEF WithinCapacity
  <2>8. NoLostWakeup'
    <3>1. CASE head
      BY <3>1, <2>1 DEF NoLostWakeup
    <3>2. CASE ~head
      <4>1. "Push" \notin parked
        BY DEF Push
      <4>2. txs' # {}
        BY <2>1
      <4>. QED BY <3>2, <4>1, <4>2, <2>1 DEF NoLostWakeup, CanPopReady, IsDrained
    <3>. QED BY <3>1, <3>2
  <2>9. UntrackedForgotten'
    BY <2>1, <2>2 DEF UntrackedForgotten, QueueTypeOK
  <2>. QED BY <2>4, <2>5, <2>6, <2>7, <2>8, <2>9
<1>. QED BY <1>1, <1>2

\* A call falls asleep only with a false predicate.
LEMMA ParkPreserves ==
  ASSUME QueueInv, ParkPopReady \/ ParkPush \/ ParkFlush
  PROVE  QueueInv'
<1>. USE DEF QueueInv
<1>1. UNCHANGED <<byAddr, firstNonce, nextNonce, flagged, txs, ready>>
  BY DEF ParkPopReady, ParkPush, ParkFlush, Park, accVars
<1>2. \E call \in Call : parked' = parked \cup {call}
  BY DEF ParkPopReady, ParkPush, ParkFlush, Park, Call
<1>3. NoLostWakeup'
  BY <1>1 DEF NoLostWakeup, ParkPopReady, ParkPush, ParkFlush, Park,
              CanPopReady, CanPush, IsDrained
<1>. QED BY <1>1, <1>2, <1>3 DEF QueueTypeOK, MapsAgree, ReadyIsExact,
            WithinCapacity, UntrackedForgotten, Window

\* A call that gives up leaves fewer sleepers.
LEMMA GiveUpPreserves ==
  ASSUME QueueInv, NEW call \in Call, GiveUp(call)
  PROVE  QueueInv'
BY DEF QueueInv, GiveUp, accVars, QueueTypeOK, MapsAgree, ReadyIsExact, WithinCapacity,
   NoLostWakeup, UntrackedForgotten, CanPopReady, CanPush, IsDrained, Window

\* The empty queue satisfies the invariant.
LEMMA QueueInitInv == QueueInit => QueueInv
<1>. SUFFICES ASSUME QueueInit PROVE QueueInv
  OBVIOUS
<1>. USE DEF QueueInit
<1>1. QueueTypeOK
  BY DEF QueueTypeOK
<1>2. MapsAgree
  BY DEF MapsAgree, Window
<1>3. ReadyIsExact
  BY DEF ReadyIsExact
<1>4. WithinCapacity
  BY FS_EmptySet, CapacityAssumption DEF WithinCapacity
<1>5. NoLostWakeup /\ UntrackedForgotten
  BY DEF NoLostWakeup, UntrackedForgotten
<1>. QED BY <1>1, <1>2, <1>3, <1>4, <1>5 DEF QueueInv

\* Every step of the queue, whoever takes it, preserves the invariant.
LEMMA QueueStep == QueueInv /\ [QueueNext]_queueVars => QueueInv'
<1>. SUFFICES ASSUME QueueInv, [QueueNext]_queueVars PROVE QueueInv'
  OBVIOUS
<1>0. Nonce \subseteq Nat
  BY MaxNonceAssumption DEF Nonce
<1>1. ASSUME NEW a \in Addr, PopSent(a) PROVE QueueInv'
  BY <1>1, PopSentPreserves
<1>2. ASSUME NEW a \in Addr, NEW n \in Nonce, Reset(a, n) PROVE QueueInv'
  BY <1>0, <1>2, ResetPreserves
<1>3. ASSUME NEW a \in Addr, PopReady(a) PROVE QueueInv'
  BY <1>3, PopReadyPreserves
<1>4. ASSUME NEW a \in Addr, NEW n \in Nonce, Push(a, n) PROVE QueueInv'
  BY <1>0, <1>4, PushPreserves
<1>5. CASE WaitUntilEmpty
  BY <1>5, QueueStutter DEF WaitUntilEmpty
<1>6. CASE ParkPopReady \/ ParkPush \/ ParkFlush
  BY <1>6, ParkPreserves
<1>7. ASSUME NEW c \in Call, GiveUp(c) PROVE QueueInv'
  BY <1>7, GiveUpPreserves
<1>8. CASE UNCHANGED queueVars
  BY <1>8, QueueStutter
<1>. QED BY <1>1, <1>2, <1>3, <1>4, <1>5, <1>6, <1>7, <1>8 DEF QueueNext

\* Under any calls in any order, the queue's indexes stay consistent.
THEOREM QueueCorrect == QueueSpec => []QueueInv
<1>1. QueueInit => QueueInv
  BY QueueInitInv
<1>2. QueueInv /\ [QueueNext]_queueVars => QueueInv'
  BY QueueStep
<1>. QED BY <1>1, <1>2, PTL DEF QueueSpec

\* The four structures of the queue stay in step: a popped account always has
\* its transaction, an account is in ready exactly when its flag says so and
\* once, MaxInFlight bounds what is held, and one-shot accounts leave nothing.
THEOREM QueueExact == QueueSpec => []QueueIsExact
<1>1. QueueInv => QueueIsExact
  BY DEF QueueInv, QueueIsExact
<1>. QED BY <1>1, QueueCorrect, PTL

\* Nobody sleeps in WaitUntil while its predicate holds.
THEOREM QueueNoLostWakeup == QueueSpec => []NoLostWakeup
<1>1. QueueInv => NoLostWakeup
  BY DEF QueueInv
<1>. QED BY <1>1, QueueCorrect, PTL

-----------------------------------------------------------------------------
(* The sender.                                                             *)


\* Ownership of accounts by tasks.
Ownership ==
  /\ OneTaskPerAccount
  /\ TaskHoldsHead
  /\ NoStrandedAccount

\* TypeOK without the range of permits, which rests on PermitsConserved.
SenderTypes ==
  /\ gen \in [phase : GenPhase, tx : [addr : Addr \cup {NoAddr}, nonce : Nat]]
  /\ toWarm \subseteq Tracked
  /\ fresh \subseteq Addr \ Tracked
  /\ disp \in DispPc
  /\ task \in [Task -> [pc : TaskPc, addr : Addr \cup {NoAddr}, nonce : Nat]]
  /\ \A t \in Task : Busy(t) => task[t].addr \in Addr
  /\ permits \in Nat
  /\ chainNonce \in [Addr -> Nat]
  /\ drift \in 0 .. MaxDrift
  /\ senderDone \in BOOLEAN
  /\ runDone \in BOOLEAN

SenderInv == SenderTypes /\ QueueInv /\ Ownership /\ PermitsConserved

\* The tasks inside the signing section.
Signing == {t \in Task : task[t].pc = "sign"}

-----------------------------------------------------------------------------
\* A step that moves tasks along without freeing or starting one, and touches
\* no account a task holds, keeps ownership.  Pushes are of this kind: they
\* extend a window, and enter an account in ready only if it was empty.
LEMMA OwnershipFrame ==
  ASSUME SenderTypes, QueueInv, Ownership,
         task' \in [Task -> [pc : TaskPc, addr : Addr \cup {NoAddr}, nonce : Nat]],
         \A t \in Task :
           /\ Busy(t)' <=> Busy(t)
           /\ task'[t].addr = task[t].addr
           /\ task'[t].pc # "reset" => task[t].pc # "reset" /\ task'[t].nonce = task[t].nonce,
         firstNonce' = firstNonce,
         byAddr \subseteq byAddr',
         flagged \subseteq flagged',
         \A a \in flagged' \ flagged : firstNonce[a] = nextNonce[a],
         \A a \in Addr : nextNonce[a] <= nextNonce'[a] /\ nextNonce'[a] \in Nat,
         \A a \in Addr : nextNonce'[a] = nextNonce[a]
                           \/ firstNonce[a] < nextNonce[a] \/ a \in flagged',
         senderDone => senderDone'
  PROVE  Ownership'
<1>1. OneTaskPerAccount'
  BY DEF Ownership, OneTaskPerAccount
<1>2. TaskHoldsHead'
  <2>. SUFFICES ASSUME NEW t \in Task, Busy(t)'
                PROVE  /\ task'[t].addr \in byAddr' \ flagged'
                       /\ firstNonce'[task'[t].addr] < nextNonce'[task'[t].addr]
                       /\ task'[t].pc # "reset" => task'[t].nonce = firstNonce'[task'[t].addr]
    BY DEF TaskHoldsHead
  <2>. DEFINE a == task[t].addr
  <2>1. /\ Busy(t) /\ a \in Addr /\ task'[t].addr = a
        /\ a \in byAddr \ flagged
        /\ firstNonce[a] < nextNonce[a]
        /\ task[t].pc # "reset" => task[t].nonce = firstNonce[a]
    BY DEF Ownership, TaskHoldsHead, SenderTypes
  <2>2. firstNonce[a] \in Nat /\ nextNonce[a] \in Nat
    BY <2>1 DEF QueueInv, QueueTypeOK
  <2>3. a \notin flagged'
    BY <2>1, <2>2
  <2>. QED BY <2>1, <2>2, <2>3
<1>3. NoStrandedAccount'
  <2>. SUFFICES ASSUME NEW a \in Addr, firstNonce'[a] < nextNonce'[a], a \notin flagged',
                       ~senderDone'
                PROVE  \E t \in Task : Busy(t)' /\ task'[t].addr = a
    BY DEF NoStrandedAccount
  <2>1. firstNonce[a] < nextNonce[a] /\ a \notin flagged /\ ~senderDone
    OBVIOUS
  <2>. QED BY <2>1 DEF Ownership, NoStrandedAccount
<1>. QED BY <1>1, <1>2, <1>3 DEF Ownership

\* A step that frees the task t and leaves the others alone keeps ownership if
\* t's account is back in ready, or empty, or the sender is closing; and if no
\* other account changes.
LEMMA OwnershipReturn ==
  ASSUME SenderTypes, QueueInv, Ownership,
         NEW t \in Task, Busy(t), Return(t),
         \A b \in Addr \ {task[t].addr} :
           /\ firstNonce'[b] = firstNonce[b] /\ nextNonce'[b] = nextNonce[b]
           /\ b \in byAddr' <=> b \in byAddr
           /\ b \in flagged' <=> b \in flagged,
         \/ task[t].addr \in flagged'
         \/ ~(firstNonce'[task[t].addr] < nextNonce'[task[t].addr])
         \/ senderDone',
         senderDone => senderDone'
  PROVE  Ownership'
<1> DEFINE a == task[t].addr
<1>1. /\ task' = [task EXCEPT ![t] = IdleTask]
      /\ task'[t] = IdleTask /\ ~Busy(t)'
      /\ \A u \in Task \ {t} : task'[u] = task[u] /\ (Busy(u)' <=> Busy(u))
  BY DEF Return, SenderTypes, Busy, IdleTask
<1>2. \A u \in Task : Busy(u) => task[u].addr \in Addr
  BY DEF SenderTypes
<1>3. \A u \in Task \ {t} : Busy(u) => task[u].addr # a
  BY DEF Ownership, OneTaskPerAccount
<1>4. OneTaskPerAccount'
  BY <1>1 DEF Ownership, OneTaskPerAccount
<1>5. TaskHoldsHead'
  <2>. SUFFICES ASSUME NEW u \in Task, Busy(u)'
                PROVE  /\ task'[u].addr \in byAddr' \ flagged'
                       /\ firstNonce'[task'[u].addr] < nextNonce'[task'[u].addr]
                       /\ task'[u].pc # "reset" => task'[u].nonce = firstNonce'[task'[u].addr]
    BY DEF TaskHoldsHead
  <2>1. u # t /\ Busy(u) /\ task'[u] = task[u] /\ task[u].addr \in Addr \ {a}
    BY <1>1, <1>2, <1>3
  <2>2. /\ task[u].addr \in byAddr \ flagged
        /\ firstNonce[task[u].addr] < nextNonce[task[u].addr]
        /\ task[u].pc # "reset" => task[u].nonce = firstNonce[task[u].addr]
    BY <2>1 DEF Ownership, TaskHoldsHead
  <2>. QED BY <2>1, <2>2
<1>6. NoStrandedAccount'
  <2>. SUFFICES ASSUME NEW b \in Addr, firstNonce'[b] < nextNonce'[b], b \notin flagged',
                       ~senderDone'
                PROVE  \E u \in Task : Busy(u)' /\ task'[u].addr = b
    BY DEF NoStrandedAccount
  <2>1. b # a
    OBVIOUS
  <2>2. PICK u \in Task : Busy(u) /\ task[u].addr = b
    BY <2>1 DEF Ownership, NoStrandedAccount
  <2>3. u # t
    BY <2>1, <2>2
  <2>. QED BY <2>2, <2>3, <1>1
<1>. QED BY <1>4, <1>5, <1>6 DEF Ownership

\* Spawning: PopReady gives the new task an account that was in ready, so no
\* task holds it, and the nonce of its head.
LEMMA OwnershipSpawn ==
  ASSUME SenderTypes, QueueInv, Ownership, NEW t \in Task, DispSpawn(t)
  PROVE  Ownership'
<1>1. PICK a \in Addr :
        /\ PopReady(a)
        /\ task' = [task EXCEPT ![t] = [pc |-> "acquire", addr |-> a, nonce |-> firstNonce[a]]]
  BY DEF DispSpawn
<1>2. ~Busy(t) /\ senderDone' = senderDone
  BY DEF DispSpawn, Busy
<1>3. /\ flagged' = flagged \ {a}
      /\ UNCHANGED <<byAddr, firstNonce, nextNonce>>
  BY <1>1 DEF PopReady
<1>4. /\ a \in flagged /\ a \in byAddr /\ firstNonce[a] < nextNonce[a]
  <2>1. ready \in Seq(Addr) /\ Len(ready) > 0 /\ a = ready[1]
    BY <1>1 DEF PopReady, CanPopReady, QueueInv, QueueTypeOK
  <2>2. 1 \in 1 .. Len(ready)
    BY <2>1
  <2>. QED BY <2>1, <2>2 DEF QueueInv, ReadyIsExact
<1>5. /\ task'[t].addr = a /\ task'[t].nonce = firstNonce[a] /\ task'[t].pc = "acquire" /\ Busy(t)'
      /\ \A u \in Task \ {t} : task'[u] = task[u] /\ (Busy(u)' <=> Busy(u))
  BY <1>1 DEF Busy, SenderTypes
<1>6. \A u \in Task : Busy(u) => task[u].addr # a
  BY <1>4 DEF Ownership, TaskHoldsHead
<1>7. OneTaskPerAccount'
  <2>. SUFFICES ASSUME NEW u \in Task, NEW v \in Task, Busy(u)', Busy(v)',
                       task'[u].addr = task'[v].addr
                PROVE  u = v
    BY DEF OneTaskPerAccount
  <2>1. CASE u # t /\ v # t
    BY <2>1, <1>5 DEF Ownership, OneTaskPerAccount
  <2>2. CASE u = t \/ v = t
    BY <2>2, <1>5, <1>6
  <2>. QED BY <2>1, <2>2
<1>8. TaskHoldsHead'
  <2>. SUFFICES ASSUME NEW u \in Task, Busy(u)'
                PROVE  /\ task'[u].addr \in byAddr' \ flagged'
                       /\ firstNonce'[task'[u].addr] < nextNonce'[task'[u].addr]
                       /\ task'[u].pc # "reset" => task'[u].nonce = firstNonce'[task'[u].addr]
    BY DEF TaskHoldsHead
  <2>1. CASE u = t
    BY <2>1, <1>3, <1>4, <1>5
  <2>2. CASE u # t
    BY <2>2, <1>3, <1>5 DEF Ownership, TaskHoldsHead
  <2>. QED BY <2>1, <2>2
<1>9. NoStrandedAccount'
  <2>. SUFFICES ASSUME NEW b \in Addr, firstNonce'[b] < nextNonce'[b], b \notin flagged',
                       ~senderDone'
                PROVE  \E u \in Task : Busy(u)' /\ task'[u].addr = b
    BY DEF NoStrandedAccount
  <2>1. CASE b = a
    BY <2>1, <1>5
  <2>2. CASE b # a
    <3>1. PICK u \in Task : Busy(u) /\ task[u].addr = b
      BY <2>2, <1>2, <1>3 DEF Ownership, NoStrandedAccount
    <3>2. u # t
      BY <3>1, <1>2
    <3>. QED BY <3>1, <3>2, <1>5
  <2>. QED BY <2>1, <2>2
<1>. QED BY <1>7, <1>8, <1>9 DEF Ownership

\* After PopSent by the task that holds a, the account is in ready or empty.
LEMMA OwnershipPopSent ==
  ASSUME SenderTypes, QueueInv, Ownership, NEW t \in Task, TaskPopSent(t)
  PROVE  Ownership'
<1> DEFINE a == task[t].addr
           more == firstNonce[a] + 1 < nextNonce[a]
<1>1. Busy(t) /\ Return(t) /\ PopSent(a) /\ senderDone' = senderDone
  BY DEF TaskPopSent, Busy
<1>2. /\ a \in Addr /\ a \in byAddr \ flagged
      /\ firstNonce[a] \in Nat /\ nextNonce[a] \in Nat /\ firstNonce[a] < nextNonce[a]
  BY <1>1 DEF Ownership, TaskHoldsHead, SenderTypes, QueueInv, QueueTypeOK
<1>3. HasSentHead(a)
  BY <1>2 DEF HasSentHead
<1>4. /\ flagged' = IF more THEN flagged \cup {a} ELSE flagged
      /\ IF more \/ a \in Tracked
           THEN /\ firstNonce' = [firstNonce EXCEPT ![a] = @ + 1]
                /\ UNCHANGED <<byAddr, nextNonce>>
           ELSE Forget(a)
  BY <1>1, <1>3 DEF PopSent
<1>5. \A b \in Addr \ {a} :
        /\ firstNonce'[b] = firstNonce[b] /\ nextNonce'[b] = nextNonce[b]
        /\ b \in byAddr' <=> b \in byAddr
        /\ b \in flagged' <=> b \in flagged
  BY <1>4 DEF Forget, QueueInv, QueueTypeOK
<1>6. a \in flagged' \/ ~(firstNonce'[a] < nextNonce'[a])
  <2>1. CASE more
    BY <2>1, <1>4
  <2>2. CASE ~more /\ a \in Tracked
    BY <2>2, <1>2, <1>4 DEF QueueInv, QueueTypeOK
  <2>3. CASE ~more /\ a \notin Tracked
    BY <2>3, <1>2, <1>4 DEF Forget, QueueInv, QueueTypeOK
  <2>. QED BY <2>1, <2>2, <2>3
<1>. QED BY <1>1, <1>5, <1>6, OwnershipReturn

\* After Reset by the task that holds a, the account is empty.
LEMMA OwnershipReset ==
  ASSUME SenderTypes, QueueInv, Ownership, NEW t \in Task, TaskReset(t)
  PROVE  Ownership'
<1> DEFINE a == task[t].addr
           n == task[t].nonce
<1>1. Busy(t) /\ Return(t) /\ Reset(a, n) /\ senderDone' = senderDone
  BY DEF TaskReset, Busy
<1>2. a \in Addr /\ a \in byAddr \ flagged /\ n \in Nat
  BY <1>1 DEF Ownership, TaskHoldsHead, SenderTypes
<1>3. /\ flagged' = flagged
      /\ IF a \in Tracked
           THEN /\ firstNonce' = [firstNonce EXCEPT ![a] = n]
                /\ nextNonce' = [nextNonce EXCEPT ![a] = n]
                /\ UNCHANGED byAddr
           ELSE Forget(a)
  BY <1>1, <1>2 DEF Reset
<1>4. /\ \A b \in Addr \ {a} :
           /\ firstNonce'[b] = firstNonce[b] /\ nextNonce'[b] = nextNonce[b]
           /\ b \in byAddr' <=> b \in byAddr
           /\ b \in flagged' <=> b \in flagged
      /\ ~(firstNonce'[a] < nextNonce'[a])
  <2>1. CASE a \in Tracked
    BY <2>1, <1>2, <1>3 DEF QueueInv, QueueTypeOK
  <2>2. CASE a \notin Tracked
    BY <2>2, <1>2, <1>3 DEF Forget, QueueInv, QueueTypeOK
  <2>. QED BY <2>1, <2>2
<1>. QED BY <1>1, <1>4, OwnershipReturn

\* Pushing extends a window, and enters an account in ready only when its
\* window was empty, so when no task holds it.
LEMMA OwnershipPush ==
  ASSUME SenderTypes, QueueInv, Ownership, GenPush
  PROVE  Ownership'
<1> DEFINE a == gen.tx.addr
           n == gen.tx.nonce
<1>1. Push(a, n) /\ UNCHANGED <<task, senderDone>> /\ a \in Addr
  BY DEF GenPush, HasTx, SenderTypes
<1>2. /\ firstNonce' = firstNonce
      /\ byAddr \subseteq byAddr'
      /\ flagged \subseteq flagged'
      /\ \A b \in flagged' \ flagged : firstNonce[b] = nextNonce[b]
      /\ \A b \in Addr : nextNonce[b] <= nextNonce'[b] /\ nextNonce'[b] \in Nat
      /\ \A b \in Addr : nextNonce'[b] = nextNonce[b]
                              \/ firstNonce[b] < nextNonce[b] \/ b \in flagged'
  <2>0. /\ firstNonce \in [Addr -> Nat] /\ nextNonce \in [Addr -> Nat]
        /\ firstNonce[a] <= nextNonce[a]
    BY <1>1 DEF QueueInv, QueueTypeOK, MapsAgree
  <2>1. CASE n # nextNonce[a]
    BY <2>0, <2>1, <1>1 DEF Push, queueVars
  <2>2. CASE n = nextNonce[a]
    <3>1. /\ byAddr' = byAddr \cup {a}
          /\ nextNonce' = [nextNonce EXCEPT ![a] = @ + 1]
          /\ firstNonce' = firstNonce
          /\ firstNonce[a] = n => flagged' = flagged \cup {a}
          /\ firstNonce[a] # n => flagged' = flagged
      BY <2>2, <1>1 DEF Push
    <3>2. CASE firstNonce[a] = n
      BY <2>0, <2>2, <3>1, <3>2
    <3>3. CASE firstNonce[a] # n
      BY <2>0, <2>2, <3>1, <3>3
    <3>. QED BY <3>2, <3>3
  <2>. QED BY <2>1, <2>2
<1>3. \A t \in Task :
        /\ Busy(t)' <=> Busy(t)
        /\ task'[t].addr = task[t].addr
        /\ task'[t].pc # "reset" => task[t].pc # "reset" /\ task'[t].nonce = task[t].nonce
  BY <1>1 DEF Busy
<1>4. task' \in [Task -> [pc : TaskPc, addr : Addr \cup {NoAddr}, nonce : Nat]]
  BY <1>1 DEF SenderTypes
<1>5. senderDone => senderDone'
  BY <1>1
<1>. QED BY <1>2, <1>3, <1>4, <1>5, OwnershipFrame

-----------------------------------------------------------------------------
\* A step that moves no task into or out of the signing section keeps the
\* permits accounted for.
LEMMA PermitsFrame ==
  ASSUME PermitsConserved, permits' = permits,
         \A t \in Task : task'[t].pc = "sign" <=> task[t].pc = "sign"
  PROVE  PermitsConserved'
BY DEF PermitsConserved

\* Acquire takes one permit, and Release (before SignTx's error is looked at)
\* gives it back.
LEMMA PermitsStep ==
  ASSUME SenderTypes, PermitsConserved, NEW t \in Task, TaskAcquire(t) \/ TaskSign(t)
  PROVE  PermitsConserved'
<1>1. IsFiniteSet(Signing) /\ Cardinality(Signing) \in Nat
  BY FS_Subset, FS_CardinalityType, TaskAssumption DEF Signing
<1>2. CASE TaskAcquire(t)
  <2>1. Signing' = Signing \cup {t} /\ t \notin Signing /\ permits' = permits - 1
    BY <1>2 DEF TaskAcquire, Goto, Signing, SenderTypes
  <2>2. Cardinality(Signing') = Cardinality(Signing) + 1
    BY <1>1, <2>1, FS_AddElement
  <2>. QED BY <1>1, <2>1, <2>2 DEF PermitsConserved, Signing, SenderTypes
<1>3. CASE TaskSign(t)
  <2>1. Signing' = Signing \ {t} /\ t \in Signing /\ permits' = permits + 1
    BY <1>3 DEF TaskSign, Goto, Return, ReturnErr, IdleTask, Signing, SenderTypes
  <2>2. Cardinality(Signing') = Cardinality(Signing) - 1
    BY <1>1, <2>1, FS_RemoveElement
  <2>. QED BY <1>1, <2>1, <2>2 DEF PermitsConserved, Signing, SenderTypes
<1>. QED BY <1>2, <1>3

\* A step of the generator or the dispatcher that changes no account and no
\* task keeps the invariant, if it keeps the types.
LEMMA QuietStep ==
  ASSUME SenderInv, SenderTypes', QueueInv', UNCHANGED <<accVars, task, permits>>,
         senderDone => senderDone'
  PROVE  SenderInv'
<1>1. Ownership'
  <2>1. SenderTypes /\ QueueInv /\ Ownership
    BY DEF SenderInv
  <2>2. UNCHANGED <<byAddr, firstNonce, nextNonce, flagged, task>>
    BY DEF accVars
  <2>3. task' \in [Task -> [pc : TaskPc, addr : Addr \cup {NoAddr}, nonce : Nat]]
    BY DEF SenderTypes
  <2>4. \A t \in Task : Busy(t)' <=> Busy(t)
    BY <2>2 DEF Busy
  <2>5. \A a \in Addr : nextNonce'[a] = nextNonce[a] /\ nextNonce'[a] \in Nat
                            /\ nextNonce[a] <= nextNonce'[a]
    BY <2>1, <2>2 DEF QueueInv, QueueTypeOK
  <2>. QED BY <2>1, <2>2, <2>3, <2>4, <2>5, OwnershipFrame
<1>2. PermitsConserved'
  BY PermitsFrame DEF SenderInv
<1>. QED BY <1>1, <1>2 DEF SenderInv

\* A task that moves from one step to the next, not into PopSent's or Reset's
\* critical section, keeps the invariant if it keeps the types and permits.
LEMMA AdvanceStep ==
  ASSUME SenderInv, SenderTypes', UNCHANGED queueVars, PermitsConserved',
         senderDone => senderDone',
         \A t \in Task :
           /\ Busy(t)' <=> Busy(t)
           /\ task'[t].addr = task[t].addr
           /\ task'[t].pc # "reset" => task[t].pc # "reset" /\ task'[t].nonce = task[t].nonce
  PROVE  SenderInv'
<1>1. QueueInv'
  BY QueueStutter DEF SenderInv
<1>2. Ownership'
  <2>1. SenderTypes /\ QueueInv /\ Ownership
    BY DEF SenderInv
  <2>2. UNCHANGED <<byAddr, firstNonce, nextNonce, flagged>>
    BY DEF queueVars
  <2>3. task' \in [Task -> [pc : TaskPc, addr : Addr \cup {NoAddr}, nonce : Nat]]
    BY DEF SenderTypes
  <2>4. \A a \in Addr : nextNonce'[a] = nextNonce[a] /\ nextNonce'[a] \in Nat
                            /\ nextNonce[a] <= nextNonce'[a]
    BY <2>1, <2>2 DEF QueueInv, QueueTypeOK
  <2>. QED BY <2>1, <2>2, <2>3, <2>4, OwnershipFrame
<1>. QED BY <1>1, <1>2 DEF SenderInv

\* A task that returns an error leaves the queue alone: its account may be left
\* behind only because the sender's scope is now cancelled.
LEMMA ErrorStep ==
  ASSUME SenderInv, SenderTypes', UNCHANGED queueVars, PermitsConserved',
         NEW t \in Task, Busy(t), Return(t), senderDone'
  PROVE  SenderInv'
<1>1. QueueInv'
  BY QueueStutter DEF SenderInv
<1>2. Ownership'
  BY OwnershipReturn DEF SenderInv, queueVars
<1>. QED BY <1>1, <1>2 DEF SenderInv

-----------------------------------------------------------------------------
\* The initial states.
LEMMA SenderInitInv == Init => SenderInv
<1>. SUFFICES ASSUME Init PROVE SenderInv
  OBVIOUS
<1>1. QueueInv
  BY QueueInitInv DEF Init
<1>2. SenderTypes
  <2>1. gen \in [phase : GenPhase, tx : [addr : Addr \cup {NoAddr}, nonce : Nat]]
    BY DEF Init, SenderInit, GenPhase, NoTx
  <2>2. toWarm \subseteq Tracked /\ fresh \subseteq Addr \ Tracked /\ disp \in DispPc
    BY DEF Init, SenderInit, DispPc
  <2>3. /\ task \in [Task -> [pc : TaskPc, addr : Addr \cup {NoAddr}, nonce : Nat]]
        /\ \A t \in Task : ~Busy(t)
    BY DEF Init, SenderInit, TaskPc, IdleTask, Busy
  <2>4. chainNonce \in [Addr -> Nat]
    <3>1. StartNonces \cup {0} \subseteq Nat
      BY StartAssumption, MaxNonceAssumption DEF Nonce
    <3>2. chainNonce \in [Addr -> StartNonces \cup {0}]
      BY DEF Init, SenderInit
    <3>. QED BY <3>1, <3>2
  <2>5. permits \in Nat /\ drift \in 0 .. MaxDrift /\ senderDone \in BOOLEAN /\ runDone \in BOOLEAN
    <3>1. permits = Permits /\ drift = 0 /\ senderDone = FALSE /\ runDone = FALSE
      BY DEF Init, SenderInit
    <3>2. 0 \in 0 .. MaxDrift /\ Permits \in Nat
      BY PermitsAssumption, DriftAssumption
    <3>. QED BY <3>1, <3>2
  <2>. QED BY <2>1, <2>2, <2>3, <2>4, <2>5 DEF SenderTypes
<1>3. \A t \in Task : ~Busy(t)
  BY DEF Init, SenderInit, IdleTask, Busy
<1>4. Ownership
  BY <1>3 DEF Ownership, OneTaskPerAccount, TaskHoldsHead, NoStrandedAccount, Init, QueueInit
<1>5. PermitsConserved
  <2>1. {t \in Task : task[t].pc = "sign"} = {} /\ permits = Permits
    BY DEF Init, SenderInit, IdleTask
  <2>. QED BY <2>1, FS_EmptySet, PermitsAssumption DEF PermitsConserved
<1>. QED BY <1>1, <1>2, <1>4, <1>5 DEF SenderInv

\* The generator.
LEMMA GeneratorStep ==
  ASSUME SenderInv, Generator
  PROVE  SenderInv'
<1>. USE DEF SenderTypes, GenPhase
<1>1. ASSUME NEW a \in Addr, GenPrewarm(a) \/ GenNext(a)
      PROVE  SenderInv'
  <2>1. SenderTypes' /\ UNCHANGED <<queueVars, task, permits, senderDone>>
    BY <1>1 DEF GenPrewarm, GenNext, GenBuild, NonceOf, SenderInv, QueueInv, QueueTypeOK,
                queueVars, Busy
  <2>. QED BY <2>1, QueueStutter, QuietStep DEF SenderInv, queueVars, accVars
<1>2. CASE GenPush
  <2>1. Push(gen.tx.addr, gen.tx.nonce) /\ gen.tx.addr \in Addr /\ gen.tx.nonce \in Nat
    BY <1>2 DEF GenPush, HasTx, SenderInv
  <2>2. QueueInv'
    BY <2>1, PushPreserves DEF SenderInv
  <2>3. SenderTypes' /\ UNCHANGED <<task, permits>>
    BY <1>2 DEF GenPush, NoTx, SenderInv, Busy
  <2>4. Ownership'
    BY <1>2, OwnershipPush DEF SenderInv
  <2>5. PermitsConserved'
    BY <2>3, PermitsFrame DEF SenderInv
  <2>. QED BY <2>2, <2>3, <2>4, <2>5 DEF SenderInv
<1>3. CASE GenPark
  <2>1. SenderTypes' /\ UNCHANGED <<accVars, task, permits, senderDone>>
    BY <1>3 DEF GenPark, ParkPush, ParkFlush, Park, senderVars, SenderInv, Busy
  <2>2. QueueInv'
    BY <1>3, ParkPreserves DEF GenPark, SenderInv
  <2>. QED BY <2>1, <2>2, QuietStep
<1>4. CASE GenWarmed \/ GenFlushed
  <2>1. SenderTypes' /\ UNCHANGED <<queueVars, task, permits, senderDone>>
    BY <1>4 DEF GenWarmed, GenFlushed, WaitUntilEmpty, SenderInv, Busy
  <2>. QED BY <2>1, QueueStutter, QuietStep DEF SenderInv, queueVars, accVars
<1>5. CASE GenStop
  <2>1. SenderTypes' /\ UNCHANGED <<accVars, task, permits, senderDone>>
    BY <1>5 DEF GenStop, GiveUp, NoTx, SenderInv, Busy, queueVars, accVars
  <2>2. QueueInv'
    BY <1>5, QueueStutter, GiveUpPreserves DEF GenStop, Call, SenderInv
  <2>. QED BY <2>1, <2>2, QuietStep
<1>. QED BY <1>1, <1>2, <1>3, <1>4, <1>5 DEF Generator

\* The dispatcher.
LEMMA DispatcherStep ==
  ASSUME SenderInv, Dispatcher
  PROVE  SenderInv'
<1>1. CASE DispToken \/ DispReturn
  <2>1. SenderTypes' /\ UNCHANGED <<queueVars, task, permits, senderDone>>
    BY <1>1 DEF DispToken, DispReturn, SenderInv, SenderTypes, DispPc, Busy
  <2>. QED BY <2>1, QueueStutter, QuietStep DEF SenderInv, queueVars, accVars
<1>2. CASE DispPark
  <2>1. SenderTypes' /\ UNCHANGED <<accVars, task, permits, senderDone>>
    BY <1>2 DEF DispPark, ParkPopReady, Park, senderVars, SenderInv, SenderTypes, Busy
  <2>2. QueueInv'
    BY <1>2, ParkPreserves DEF DispPark, SenderInv
  <2>. QED BY <2>1, <2>2, QuietStep
<1>3. CASE DispStop
  <2>1. SenderTypes' /\ UNCHANGED <<accVars, task, permits>> /\ senderDone'
    BY <1>3 DEF DispStop, GiveUp, SenderInv, SenderTypes, DispPc, Busy, queueVars, accVars
  <2>2. QueueInv'
    BY <1>3, QueueStutter, GiveUpPreserves DEF DispStop, Call, SenderInv
  <2>. QED BY <2>1, <2>2, QuietStep
<1>4. ASSUME NEW t \in Task, DispSpawn(t)
      PROVE  SenderInv'
  <2>1. PICK a \in Addr :
          /\ PopReady(a)
          /\ task' = [task EXCEPT ![t] = [pc |-> "acquire", addr |-> a, nonce |-> firstNonce[a]]]
    BY <1>4 DEF DispSpawn
  <2>2. QueueInv'
    BY <2>1, PopReadyPreserves DEF SenderInv
  <2>3. SenderTypes'
    <3>1. firstNonce[a] \in Nat
      BY DEF SenderInv, QueueInv, QueueTypeOK
    <3>2. task' \in [Task -> [pc : TaskPc, addr : Addr \cup {NoAddr}, nonce : Nat]]
            /\ \A u \in Task : Busy(u)' => task'[u].addr \in Addr
      BY <2>1, <3>1 DEF SenderInv, SenderTypes, TaskPc, Busy
    <3>. QED BY <1>4, <3>2 DEF DispSpawn, SenderInv, SenderTypes, DispPc
  <2>4. Ownership'
    BY <1>4, OwnershipSpawn DEF SenderInv
  <2>5. PermitsConserved'
    <3>1. permits' = permits /\ \A u \in Task : task'[u].pc = "sign" <=> task[u].pc = "sign"
      BY <1>4, <2>1 DEF DispSpawn, SenderInv, SenderTypes
    <3>. QED BY <3>1, PermitsFrame DEF SenderInv
  <2>. QED BY <2>2, <2>3, <2>4, <2>5 DEF SenderInv
<1>. QED BY <1>1, <1>2, <1>3, <1>4 DEF Dispatcher

\* How a task record changes: Goto moves its pc only, Return clears it.
LEMMA TaskMoves ==
  ASSUME SenderTypes, NEW t \in Task, Busy(t)
  PROVE  /\ \A pc \in TaskPc \ {"idle"} : Goto(t, pc) =>
              /\ task' \in [Task -> [pc : TaskPc, addr : Addr \cup {NoAddr}, nonce : Nat]]
              /\ \A u \in Task :
                   /\ task'[u].addr = task[u].addr /\ task'[u].nonce = task[u].nonce
                   /\ task'[u].pc = IF u = t THEN pc ELSE task[u].pc
                   /\ Busy(u)' <=> Busy(u)
                   /\ Busy(u)' => task'[u].addr \in Addr
         /\ Return(t) =>
              /\ task' \in [Task -> [pc : TaskPc, addr : Addr \cup {NoAddr}, nonce : Nat]]
              /\ \A u \in Task :
                   /\ task'[u].pc = IF u = t THEN "idle" ELSE task[u].pc
                   /\ Busy(u)' => task'[u].addr \in Addr
<1>1. ASSUME NEW pc \in TaskPc \ {"idle"}, Goto(t, pc)
      PROVE  /\ task' \in [Task -> [pc : TaskPc, addr : Addr \cup {NoAddr}, nonce : Nat]]
             /\ \A u \in Task :
                  /\ task'[u].addr = task[u].addr /\ task'[u].nonce = task[u].nonce
                  /\ task'[u].pc = IF u = t THEN pc ELSE task[u].pc
                  /\ Busy(u)' <=> Busy(u)
                  /\ Busy(u)' => task'[u].addr \in Addr
  BY <1>1 DEF SenderTypes, Goto, Busy
<1>2. ASSUME Return(t)
      PROVE  /\ task' \in [Task -> [pc : TaskPc, addr : Addr \cup {NoAddr}, nonce : Nat]]
             /\ \A u \in Task :
                  /\ task'[u].pc = IF u = t THEN "idle" ELSE task[u].pc
                  /\ Busy(u)' => task'[u].addr \in Addr
  BY <1>2 DEF SenderTypes, Return, IdleTask, Busy, TaskPc
<1>. QED BY <1>1, <1>2

\* The tasks.
LEMMA TaskStepPreserves ==
  ASSUME SenderInv, NEW t \in Task, TaskStep(t)
  PROVE  SenderInv'
<1>0. SenderTypes /\ QueueInv /\ PermitsConserved
  BY DEF SenderInv
<1>1. CASE TaskAcquire(t)
  <2>1. Busy(t) /\ Goto(t, "sign") /\ "sign" \in TaskPc \ {"idle"} /\ UNCHANGED queueVars
    BY <1>1 DEF TaskAcquire, Busy, TaskPc
  <2>2. permits' \in Nat
    BY <1>0, <1>1 DEF TaskAcquire, SenderTypes
  <2>3. SenderTypes'
    BY <1>0, <1>1, <2>1, <2>2, TaskMoves DEF TaskAcquire, SenderTypes
  <2>4. PermitsConserved'
    BY <1>0, <1>1, PermitsStep
  <2>. QED BY <1>0, <1>1, <2>1, <2>3, <2>4, TaskMoves, AdvanceStep DEF TaskAcquire
<1>2. CASE TaskAcquireErr(t)
  <2>1. Busy(t) /\ Return(t) /\ UNCHANGED <<queueVars, permits>> /\ senderDone' /\ task[t].pc = "acquire"
    BY <1>2 DEF TaskAcquireErr, Busy
  <2>2. SenderTypes'
    BY <1>0, <1>2, <2>1, TaskMoves DEF TaskAcquireErr, SenderTypes
  <2>3. PermitsConserved'
    BY <1>0, <2>1, TaskMoves, PermitsFrame
  <2>. QED BY <2>1, <2>2, <2>3, ErrorStep
<1>3. CASE TaskSign(t)
  <2>1. /\ Busy(t) /\ UNCHANGED queueVars /\ "send" \in TaskPc \ {"idle"}
        /\ task[t].pc = "sign"
    BY <1>3 DEF TaskSign, Busy, TaskPc
  <2>2. permits' \in Nat
    BY <1>0, <1>3 DEF TaskSign, SenderTypes
  <2>3. PermitsConserved'
    BY <1>0, <1>3, PermitsStep
  <2>4. CASE Goto(t, "send") /\ UNCHANGED senderDone
    <3>1. SenderTypes'
      BY <1>0, <1>3, <2>1, <2>2, <2>4, TaskMoves DEF TaskSign, SenderTypes
    <3>. QED BY <1>0, <2>1, <2>3, <2>4, <3>1, TaskMoves, AdvanceStep
  <2>5. CASE ReturnErr(t)
    <3>1. Return(t) /\ senderDone' = TRUE
      BY <2>5 DEF ReturnErr
    <3>2. SenderTypes'
      BY <1>0, <1>3, <2>1, <2>2, <3>1, TaskMoves DEF TaskSign, SenderTypes
    <3>. QED BY <2>1, <2>3, <3>1, <3>2, ErrorStep
  <2>. QED BY <1>3, <2>4, <2>5 DEF TaskSign
<1>4. CASE TaskSendOk(t) \/ TaskSendErr(t)
  <2>1. /\ Busy(t) /\ UNCHANGED <<queueVars, permits, senderDone>> /\ task[t].pc = "send"
        /\ \E pc \in {"register", "limiter", "popSent"} : Goto(t, pc)
    BY <1>4 DEF TaskSendOk, TaskSendErr, Busy
  <2>2. chainNonce' \in [Addr -> Nat]
    BY <1>0, <1>4 DEF TaskSendOk, TaskSendErr, Accept, SenderTypes
  <2>3. PICK pc \in {"register", "limiter", "popSent"} : Goto(t, pc)
    BY <2>1
  <2>4. pc \in TaskPc \ {"idle"}
    BY DEF TaskPc
  <2>5. SenderTypes'
    BY <1>0, <1>4, <2>1, <2>2, <2>3, <2>4, TaskMoves DEF TaskSendOk, TaskSendErr, SenderTypes
  <2>6. PermitsConserved'
    BY <1>0, <2>1, <2>3, <2>4, TaskMoves, PermitsFrame
  <2>. QED BY <1>0, <2>1, <2>3, <2>4, <2>5, <2>6, TaskMoves, AdvanceStep
<1>5. CASE TaskRegister(t) \/ TaskToken(t) \/ TaskNonceErr(t)
  <2>1. /\ Busy(t) /\ UNCHANGED <<queueVars, permits, senderDone>>
        /\ task[t].pc \in {"register", "limiter", "nonce"}
        /\ \E pc \in {"popSent", "nonce", "limiter"} : Goto(t, pc)
    BY <1>5 DEF TaskRegister, TaskToken, TaskNonceErr, Busy
  <2>2. PICK pc \in {"popSent", "nonce", "limiter"} : Goto(t, pc)
    BY <2>1
  <2>3. pc \in TaskPc \ {"idle"}
    BY DEF TaskPc
  <2>4. SenderTypes'
    BY <1>0, <1>5, <2>1, <2>2, <2>3, TaskMoves DEF TaskRegister, TaskToken, TaskNonceErr, SenderTypes
  <2>5. PermitsConserved'
    BY <1>0, <2>1, <2>2, <2>3, TaskMoves, PermitsFrame
  <2>. QED BY <1>0, <2>1, <2>2, <2>3, <2>4, <2>5, TaskMoves, AdvanceStep
<1>6. CASE TaskTokenErr(t)
  <2>1. Busy(t) /\ Return(t) /\ UNCHANGED <<queueVars, permits>> /\ senderDone' = TRUE
          /\ task[t].pc = "limiter"
    BY <1>6 DEF TaskTokenErr, ReturnErr, Busy
  <2>2. SenderTypes'
    BY <1>0, <1>6, <2>1, TaskMoves DEF TaskTokenErr, SenderTypes
  <2>3. PermitsConserved'
    BY <1>0, <2>1, TaskMoves, PermitsFrame
  <2>. QED BY <2>1, <2>2, <2>3, ErrorStep
<1>7. CASE TaskNonceOk(t)
  <2>1. /\ Busy(t) /\ UNCHANGED <<queueVars, permits, senderDone>> /\ task[t].pc = "nonce"
        /\ task' = [task EXCEPT ![t].pc = "reset", ![t].nonce = chainNonce[task[t].addr]]
    BY <1>7 DEF TaskNonceOk, Busy
  <2>2. chainNonce[task[t].addr] \in Nat
    BY <1>0, <2>1 DEF SenderTypes
  <2>3. /\ task' \in [Task -> [pc : TaskPc, addr : Addr \cup {NoAddr}, nonce : Nat]]
        /\ \A u \in Task :
             /\ task'[u].addr = task[u].addr
             /\ u # t => task'[u] = task[u]
             /\ task'[t].pc = "reset"
    <3>1. task \in [Task -> [pc : TaskPc, addr : Addr \cup {NoAddr}, nonce : Nat]]
      BY <1>0 DEF SenderTypes
    <3>2. PICK nonce \in Nat : task' = [task EXCEPT ![t].pc = "reset", ![t].nonce = nonce]
      BY <2>1, <2>2
    <3>3. "reset" \in TaskPc
      BY DEF TaskPc
    <3>. QED BY <3>1, <3>2, <3>3
  <2>4. \A u \in Task : Busy(u)' <=> Busy(u)
    BY <2>1, <2>3 DEF Busy
  <2>5. SenderTypes'
    BY <1>0, <1>7, <2>3, <2>4 DEF TaskNonceOk, SenderTypes
  <2>6. PermitsConserved'
    BY <1>0, <2>1, <2>3, PermitsFrame
  <2>. QED BY <2>1, <2>3, <2>4, <2>5, <2>6, AdvanceStep
<1>8. CASE TaskPopSent(t) \/ TaskReset(t)
  <2>1. /\ Busy(t) /\ Return(t) /\ UNCHANGED permits /\ task[t].pc # "sign"
        /\ task[t].addr \in Addr /\ task[t].nonce \in Nat
    BY <1>0, <1>8 DEF TaskPopSent, TaskReset, Busy, SenderTypes
  <2>2. QueueInv'
    BY <1>0, <1>8, <2>1, PopSentPreserves, ResetPreserves DEF TaskPopSent, TaskReset
  <2>3. SenderTypes'
    BY <1>0, <1>8, <2>1, TaskMoves DEF TaskPopSent, TaskReset, SenderTypes
  <2>4. Ownership'
    BY <1>8, OwnershipPopSent, OwnershipReset DEF SenderInv
  <2>5. PermitsConserved'
    BY <1>0, <2>1, TaskMoves, PermitsFrame
  <2>. QED BY <2>2, <2>3, <2>4, <2>5 DEF SenderInv
<1>. QED BY <1>1, <1>2, <1>3, <1>4, <1>5, <1>6, <1>7, <1>8 DEF TaskStep

\* Every step.
LEMMA SenderStep == SenderInv /\ [Next]_vars => SenderInv'
<1>. SUFFICES ASSUME SenderInv, [Next]_vars PROVE SenderInv'
  OBVIOUS
<1>1. CASE Generator
  BY <1>1, GeneratorStep
<1>2. CASE Dispatcher
  BY <1>2, DispatcherStep
<1>3. ASSUME NEW t \in Task, TaskStep(t)
      PROVE  SenderInv'
  BY <1>3, TaskStepPreserves
<1>4. CASE (\E a \in Addr : ChainMoves(a)) \/ EndRun \/ Terminated \/ UNCHANGED vars
  <2>1. UNCHANGED <<queueVars, task, permits>> /\ (senderDone => senderDone')
    BY <1>4 DEF ChainMoves, EndRun, Terminated, vars, senderVars
  <2>2. SenderTypes'
    <3>1. ASSUME NEW a \in Addr, ChainMoves(a)
          PROVE  SenderTypes'
      <4>1. chainNonce' \in [Addr -> Nat] /\ drift' \in 0 .. MaxDrift
        BY <3>1, MaxNonceAssumption, DriftAssumption DEF ChainMoves, Nonce, SenderInv, SenderTypes
      <4>. QED BY <3>1, <4>1 DEF ChainMoves, SenderInv, SenderTypes, Busy
    <3>2. CASE EndRun \/ Terminated \/ UNCHANGED vars
      BY <3>2 DEF EndRun, Terminated, vars, senderVars, SenderInv, SenderTypes, Busy
    <3>. QED BY <1>4, <3>1, <3>2
  <2>3. QueueInv' /\ UNCHANGED accVars
    BY <2>1, QueueStutter DEF SenderInv, queueVars, accVars
  <2>. QED BY <2>1, <2>2, <2>3, QuietStep
<1>. QED BY <1>1, <1>2, <1>3, <1>4 DEF Next

\* The sender's invariant, for every value of the constants.
THEOREM SenderCorrect == SafeSpec => []SenderInv
<1>. QED BY SenderInitInv, SenderStep, PTL DEF SafeSpec

\* Type correctness, and signing permits are conserved, which gives their range.
THEOREM SenderStateCorrect == SafeSpec => []SenderStateOK
<1>1. ASSUME SenderInv PROVE SenderStateOK
  <2>1. SenderTypes /\ QueueTypeOK
    BY <1>1 DEF SenderInv, QueueInv
  <2>2. permits \in 0 .. Permits
    <3>1. IsFiniteSet(Signing) /\ Cardinality(Signing) \in Nat
      BY FS_Subset, FS_CardinalityType, TaskAssumption DEF Signing
    <3>2. permits + Cardinality(Signing) = Permits /\ permits \in Nat
      BY <1>1 DEF SenderInv, PermitsConserved, Signing, SenderTypes
    <3>. QED BY <3>1, <3>2, PermitsAssumption
  <2>. QED BY <1>1, <2>1, <2>2 DEF SenderInv, SenderTypes, TypeOK, SenderStateOK
<1>. QED BY <1>1, SenderCorrect, PTL

\* Two goroutines never work on one account.
THEOREM SenderOneTaskPerAccount == SafeSpec => []OneTaskPerAccount
<1>1. SenderInv => OneTaskPerAccount
  BY DEF SenderInv, Ownership
<1>. QED BY <1>1, SenderCorrect, PTL

\* A goroutine keeps the head of its account until PopSent or Reset.
THEOREM SenderTaskHoldsHead == SafeSpec => []TaskHoldsHead
<1>1. SenderInv => TaskHoldsHead
  BY DEF SenderInv, Ownership
<1>. QED BY <1>1, SenderCorrect, PTL

\* While the sender is open, an account with transactions is ready or in work.
THEOREM SenderNoStrandedAccount == SafeSpec => []NoStrandedAccount
<1>1. SenderInv => NoStrandedAccount
  BY DEF SenderInv, Ownership
<1>. QED BY <1>1, SenderCorrect, PTL

\* When Flush sees an empty queue, no send is in flight.
THEOREM SenderDrainedMeansIdle == SafeSpec => []DrainedMeansIdle
<1>1. ASSUME SenderInv, txs = {}, NEW t \in Task, Busy(t)
      PROVE  FALSE
  <2> DEFINE a == task[t].addr
  <2>1. a \in Addr /\ firstNonce[a] < nextNonce[a]
    BY <1>1 DEF SenderInv, SenderTypes, Ownership, TaskHoldsHead
  <2>2. firstNonce[a] \in Nat /\ nextNonce[a] \in Nat /\ Window(a) \subseteq txs
    BY <1>1, <2>1 DEF SenderInv, QueueInv, QueueTypeOK, MapsAgree
  <2>3. <<a, firstNonce[a]>> \in Window(a)
    BY <2>1, <2>2 DEF Window
  <2>. QED BY <1>1, <2>2, <2>3
<1>2. SenderInv => DrainedMeansIdle
  BY <1>1 DEF DrainedMeansIdle, IsDrained
<1>. QED BY <1>2, SenderCorrect, PTL

-----------------------------------------------------------------------------
(***************************************************************************)
(* Agreement with the chain: as long as only the sender moves an account's  *)
(* nonce, the head of the account's window is what the chain expects         *)
(* whenever no answer is outstanding.                                        *)
(***************************************************************************)

\* No goroutine works on account a.
Unowned(a) == \A t \in Task : Busy(t) => task[t].addr # a

\* What the goroutine t, on a pool account, knows of the chain: before its send
\* is answered the chain expects the head; once it was taken, the one after it;
\* and what the nonce lookup said still holds when Reset applies it.
KnowsChain(t) ==
  LET a == task[t].addr
  IN a \in Tracked =>
       /\ task[t].pc \in {"acquire", "sign", "send"} => chainNonce[a] = firstNonce[a]
       /\ task[t].pc \in {"register", "popSent"} => chainNonce[a] = firstNonce[a] + 1
       /\ task[t].pc = "reset" => chainNonce[a] = task[t].nonce

\* The part of the invariant that is about the chain.
ChainAgrees ==
  drift = 0 /\ ~senderDone =>
    /\ \A a \in Tracked : Unowned(a) => firstNonce[a] = chainNonce[a]
    /\ \A t \in Task : KnowsChain(t)

-----------------------------------------------------------------------------
\* A step that changes neither windows nor chain, and moves no task past the
\* send, the removal of its head or the lookup, keeps the agreement.
LEMMA ChainFrame ==
  ASSUME ChainAgrees,
         firstNonce' = firstNonce, chainNonce' = chainNonce, drift' = drift,
         senderDone => senderDone',
         \A t \in Task :
           /\ Busy(t)' <=> Busy(t)
           /\ task'[t].addr = task[t].addr
           /\ task'[t].pc \in {"acquire", "sign", "send"}
                => task[t].pc \in {"acquire", "sign", "send"}
           /\ task'[t].pc \in {"register", "popSent"}
                => task[t].pc \in {"register", "popSent"} \/ task[t].addr \notin Tracked
           /\ task'[t].pc = "reset" => task[t].pc = "reset" /\ task'[t].nonce = task[t].nonce
  PROVE  ChainAgrees'
BY DEF ChainAgrees, Unowned, KnowsChain

\* Once the sender closes, or the chain has moved a nonce, nothing is claimed.
LEMMA ChainMoot ==
  ASSUME senderDone' = TRUE \/ drift' # 0
  PROVE  ChainAgrees'
BY DEF ChainAgrees

\* A step of the goroutine t that leaves the windows and the chain of all other
\* accounts alone keeps what is known of those; a is settled by what t knows
\* afterwards, or by the agreement of a if t ends.
LEMMA ChainLocal ==
  ASSUME SenderInv, ChainAgrees, NEW t \in Task, Busy(t),
         drift' = drift, senderDone' = senderDone,
         \A b \in Addr \ {task[t].addr} :
           firstNonce'[b] = firstNonce[b] /\ chainNonce'[b] = chainNonce[b],
         \A u \in Task \ {t} : task'[u] = task[u],
         Busy(t)' => task'[t].addr = task[t].addr,
         drift = 0 /\ ~senderDone /\ task[t].addr \in Tracked =>
           /\ KnowsChain(t)'
           /\ ~Busy(t)' => firstNonce'[task[t].addr] = chainNonce'[task[t].addr],
         task'[t].addr \in {task[t].addr, NoAddr}
  PROVE  ChainAgrees'
<1> DEFINE a == task[t].addr
<1>1. /\ a \in Addr /\ Tracked \subseteq Addr /\ NoAddr \notin Tracked
      /\ \A u \in Task \ {t} : Busy(u) => task[u].addr \in Addr \ {a}
      /\ \A u \in Task \ {t} : Busy(u)' <=> Busy(u)
  BY TrackedAssumption, NoAddrAssumption
     DEF SenderInv, SenderTypes, Ownership, OneTaskPerAccount, Busy
<1>. SUFFICES ASSUME drift' = 0, ~senderDone'
              PROVE  /\ \A b \in Tracked : Unowned(b)' => firstNonce'[b] = chainNonce'[b]
                     /\ \A u \in Task : KnowsChain(u)'
  BY DEF ChainAgrees
<1>2. ASSUME NEW b \in Tracked, Unowned(b)'
      PROVE  firstNonce'[b] = chainNonce'[b]
  <2>1. CASE b = a
    <3>1. ~Busy(t)'
      BY <1>2, <2>1 DEF Unowned
    <3>. QED BY <2>1, <3>1
  <2>2. CASE b # a
    <3>1. Unowned(b)
      BY <1>1, <1>2, <2>2 DEF Unowned
    <3>. QED BY <1>1, <2>2, <3>1 DEF ChainAgrees
  <2>. QED BY <2>1, <2>2
<1>3. ASSUME NEW u \in Task
      PROVE  KnowsChain(u)'
  <2>1. CASE u = t
    <3>1. CASE a \in Tracked
      BY <2>1, <3>1
    <3>2. CASE a \notin Tracked
      BY <1>1, <2>1, <3>2 DEF KnowsChain
    <3>. QED BY <3>1, <3>2
  <2>2. CASE u # t /\ Busy(u)
    BY <1>1, <2>2 DEF ChainAgrees, KnowsChain
  <2>3. CASE u # t /\ ~Busy(u)
    BY <2>3 DEF KnowsChain, Busy
  <2>. QED BY <2>1, <2>2, <2>3
<1>. QED BY <1>2, <1>3

-----------------------------------------------------------------------------
\* With an untouched chain, every account starts in agreement.
LEMMA ChainInit == ASSUME StartNonces \subseteq {0}, Init PROVE ChainAgrees
<1>1. \A a \in Addr : firstNonce[a] = 0 /\ chainNonce[a] = 0
  <2>1. chainNonce \in [Addr -> StartNonces \cup {0}]
    BY DEF Init, SenderInit
  <2>. QED BY <2>1 DEF Init, QueueInit
<1>2. \A t \in Task : task[t] = IdleTask
  BY DEF Init, SenderInit
<1>. QED BY <1>1, <1>2, TrackedAssumption DEF ChainAgrees, KnowsChain, IdleTask

\* The generator only pushes, which moves no head.
LEMMA ChainGenerator == ASSUME ChainAgrees, Generator PROVE ChainAgrees'
<1>1. UNCHANGED <<firstNonce, task, chainNonce, drift, senderDone>>
  <2>1. ASSUME NEW a \in Addr, GenPrewarm(a) \/ GenNext(a)
        PROVE  UNCHANGED <<firstNonce, task, chainNonce, drift, senderDone>>
    BY <2>1 DEF GenPrewarm, GenNext, GenBuild, queueVars
  <2>2. CASE GenPush
    BY <2>2 DEF GenPush, Push, queueVars
  <2>3. CASE GenPark \/ GenWarmed \/ GenFlushed \/ GenStop
    BY <2>3 DEF GenPark, GenWarmed, GenFlushed, GenStop, ParkPush, ParkFlush, Park,
                WaitUntilEmpty, GiveUp, queueVars, accVars, senderVars
  <2>. QED BY <2>1, <2>2, <2>3 DEF Generator
<1>. QED BY <1>1, ChainFrame DEF Busy

\* A new goroutine takes an account nobody worked on, in agreement.
LEMMA ChainSpawn ==
  ASSUME SenderInv, SenderInv', ChainAgrees, NEW t \in Task, DispSpawn(t)
  PROVE  ChainAgrees'
<1>1. PICK a \in Addr :
        /\ PopReady(a)
        /\ task' = [task EXCEPT ![t] = [pc |-> "acquire", addr |-> a, nonce |-> firstNonce[a]]]
  BY DEF DispSpawn
<1>2. /\ ~Busy(t)
      /\ UNCHANGED <<firstNonce, chainNonce, drift, senderDone>>
  BY <1>1 DEF DispSpawn, PopReady, Busy
<1>3. /\ task'[t].addr = a /\ task'[t].pc = "acquire" /\ Busy(t)'
      /\ \A u \in Task \ {t} : task'[u] = task[u] /\ (Busy(u)' <=> Busy(u))
  BY <1>1 DEF SenderInv, SenderTypes, Busy
<1>4. Unowned(a)
  BY <1>2, <1>3 DEF SenderInv, Ownership, OneTaskPerAccount, Unowned
<1>. SUFFICES ASSUME drift' = 0, ~senderDone'
              PROVE  /\ \A b \in Tracked : Unowned(b)' => firstNonce'[b] = chainNonce'[b]
                     /\ \A u \in Task : KnowsChain(u)'
  BY DEF ChainAgrees
<1>5. ASSUME NEW b \in Tracked, Unowned(b)'
      PROVE  firstNonce'[b] = chainNonce'[b]
  <2>1. Unowned(b)
    BY <1>2, <1>3, <1>5 DEF Unowned
  <2>. QED BY <1>2, <2>1 DEF ChainAgrees
<1>6. ASSUME NEW u \in Task
      PROVE  KnowsChain(u)'
  <2>1. CASE u = t
    BY <1>2, <1>3, <1>4, <2>1 DEF ChainAgrees, KnowsChain
  <2>2. CASE u # t
    BY <1>2, <1>3, <2>2 DEF ChainAgrees, KnowsChain
  <2>. QED BY <2>1, <2>2
<1>. QED BY <1>5, <1>6

\* The dispatcher.
LEMMA ChainDispatcher ==
  ASSUME SenderInv, SenderInv', ChainAgrees, Dispatcher
  PROVE  ChainAgrees'
<1>1. CASE DispToken \/ DispPark \/ DispReturn
  <2>1. UNCHANGED <<firstNonce, task, chainNonce, drift, senderDone>>
    BY <1>1 DEF DispToken, DispPark, DispReturn, ParkPopReady, Park, queueVars, accVars, senderVars
  <2>. QED BY <2>1, ChainFrame DEF Busy
<1>2. CASE DispStop
  BY <1>2, ChainMoot DEF DispStop
<1>3. ASSUME NEW t \in Task, DispSpawn(t)
      PROVE  ChainAgrees'
  BY <1>3, ChainSpawn
<1>. QED BY <1>1, <1>2, <1>3 DEF Dispatcher

\* The goroutines.
LEMMA ChainTask ==
  ASSUME SenderInv, ChainAgrees, NEW t \in Task, TaskStep(t)
  PROVE  ChainAgrees'
<1> DEFINE a == task[t].addr
<1>0. /\ SenderTypes /\ QueueInv
      /\ Busy(t) => /\ a \in Addr
                    /\ a \in byAddr \ flagged
                    /\ firstNonce[a] < nextNonce[a]
                    /\ task[t].pc # "reset" => task[t].nonce = firstNonce[a]
      /\ Tracked \subseteq Addr
  BY TrackedAssumption DEF SenderInv, SenderTypes, Ownership, TaskHoldsHead
<1>1. CASE TaskAcquireErr(t) \/ TaskTokenErr(t)
  BY <1>0, <1>1, ChainMoot DEF TaskAcquireErr, TaskTokenErr, ReturnErr, SenderTypes
<1>2. CASE TaskAcquire(t) \/ TaskRegister(t) \/ TaskToken(t) \/ TaskNonceErr(t)
  <2>1. /\ UNCHANGED <<queueVars, chainNonce, drift, senderDone>>
        /\ \E pc \in TaskPc \ {"idle"} :
             /\ Goto(t, pc)
             /\ \/ task[t].pc = "acquire" /\ pc = "sign"
                \/ task[t].pc = "register" /\ pc = "popSent"
                \/ pc \in {"limiter", "nonce"}
        /\ Busy(t)
    BY <1>2 DEF TaskAcquire, TaskRegister, TaskToken, TaskNonceErr, TaskPc, Busy
  <2>. QED BY <1>0, <2>1, TaskMoves, ChainFrame DEF queueVars
<1>3. CASE TaskSign(t)
  <2>1. CASE ReturnErr(t)
    BY <2>1, ChainMoot DEF ReturnErr
  <2>2. CASE Goto(t, "send") /\ UNCHANGED senderDone
    <3>1. /\ UNCHANGED <<queueVars, chainNonce, drift, senderDone>>
          /\ task[t].pc = "sign" /\ Busy(t) /\ "send" \in TaskPc \ {"idle"}
      BY <1>3, <2>2 DEF TaskSign, TaskPc, Busy
    <3>. QED BY <1>0, <2>2, <3>1, TaskMoves, ChainFrame DEF queueVars
  <2>. QED BY <1>3, <2>1, <2>2 DEF TaskSign
<1>4. CASE TaskSendOk(t)
  <2>1. /\ Busy(t) /\ task[t].pc = "send"
        /\ UNCHANGED <<firstNonce, drift, senderDone>>
        /\ chainNonce' = [chainNonce EXCEPT ![a] = task[t].nonce + 1]
        /\ task' = [task EXCEPT ![t].pc = "register"]
    BY <1>4 DEF TaskSendOk, Accept, Goto, Busy, queueVars
  <2>2. /\ task'[t].addr = a /\ task'[t].pc = "register"
        /\ \A u \in Task \ {t} : task'[u] = task[u]
        /\ chainNonce'[a] = firstNonce'[a] + 1
        /\ \A b \in Addr \ {a} : chainNonce'[b] = chainNonce[b]
    BY <1>0, <2>1 DEF SenderTypes
  <2>3. KnowsChain(t)' /\ Busy(t)'
    BY <2>2 DEF KnowsChain, Busy
  <2>. QED BY <2>1, <2>2, <2>3, ChainLocal
<1>5. CASE TaskSendErr(t)
  <2>1. /\ Busy(t) /\ task[t].pc = "send"
        /\ UNCHANGED <<firstNonce, drift, senderDone>>
        /\ \/ chainNonce' = [chainNonce EXCEPT ![a] = task[t].nonce + 1]
           \/ UNCHANGED chainNonce
        /\ task' = [task EXCEPT ![t].pc = IF a \in Tracked THEN "limiter" ELSE "popSent"]
    BY <1>5 DEF TaskSendErr, Accept, Goto, Busy, queueVars
  <2>2. /\ task'[t].addr = a /\ task'[t].pc = IF a \in Tracked THEN "limiter" ELSE "popSent"
        /\ \A u \in Task \ {t} : task'[u] = task[u]
        /\ \A b \in Addr \ {a} : chainNonce'[b] = chainNonce[b]
    BY <1>0, <2>1 DEF SenderTypes
  <2>3. (a \in Tracked => KnowsChain(t)') /\ Busy(t)'
    BY <2>2 DEF KnowsChain, Busy
  <2>. QED BY <2>1, <2>2, <2>3, ChainLocal
<1>6. CASE TaskNonceOk(t)
  <2>1. /\ Busy(t)
        /\ UNCHANGED <<firstNonce, chainNonce, drift, senderDone>>
        /\ task' = [task EXCEPT ![t].pc = "reset", ![t].nonce = chainNonce[a]]
    BY <1>6 DEF TaskNonceOk, Busy, queueVars
  <2>2. /\ task'[t].addr = a /\ task'[t].pc = "reset" /\ task'[t].nonce = chainNonce[a]
        /\ \A u \in Task \ {t} : task'[u] = task[u]
    BY <1>0, <2>1 DEF SenderTypes
  <2>3. KnowsChain(t)' /\ Busy(t)'
    BY <2>1, <2>2 DEF KnowsChain, Busy
  <2>. QED BY <2>1, <2>2, <2>3, ChainLocal
<1>7. CASE TaskPopSent(t)
  <2>1. /\ Busy(t) /\ task[t].pc = "popSent" /\ PopSent(a) /\ Return(t)
        /\ UNCHANGED <<chainNonce, drift, senderDone>>
    BY <1>7 DEF TaskPopSent, Busy
  <2>2. HasSentHead(a) /\ firstNonce \in [Addr -> Nat]
    BY <1>0, <2>1 DEF HasSentHead, QueueInv, QueueTypeOK
  <2>3. /\ \A b \in Addr \ {a} : firstNonce'[b] = firstNonce[b]
        /\ a \in Tracked => firstNonce'[a] = firstNonce[a] + 1
    BY <1>0, <2>1, <2>2 DEF PopSent, Forget
  <2>4. /\ task'[t] = IdleTask /\ ~Busy(t)'
        /\ \A u \in Task \ {t} : task'[u] = task[u]
    BY <1>0, <2>1 DEF Return, SenderTypes, Busy, IdleTask
  <2>5. drift = 0 /\ ~senderDone /\ a \in Tracked => chainNonce[a] = firstNonce[a] + 1
    BY <2>1 DEF ChainAgrees, KnowsChain
  <2>6. KnowsChain(t)' /\ task'[t].addr = NoAddr
    BY <2>4 DEF KnowsChain, IdleTask
  <2>. QED BY <2>1, <2>3, <2>4, <2>5, <2>6, ChainLocal
<1>8. CASE TaskReset(t)
  <2>1. /\ Busy(t) /\ task[t].pc = "reset" /\ Reset(a, task[t].nonce) /\ Return(t)
        /\ UNCHANGED <<chainNonce, drift, senderDone>>
    BY <1>8 DEF TaskReset, Busy
  <2>2. firstNonce \in [Addr -> Nat]
    BY <1>0 DEF QueueInv, QueueTypeOK
  <2>3. /\ \A b \in Addr \ {a} : firstNonce'[b] = firstNonce[b]
        /\ a \in Tracked => firstNonce'[a] = task[t].nonce
    BY <1>0, <2>1, <2>2 DEF Reset, Forget
  <2>4. /\ task'[t] = IdleTask /\ ~Busy(t)'
        /\ \A u \in Task \ {t} : task'[u] = task[u]
    BY <1>0, <2>1 DEF Return, SenderTypes, Busy, IdleTask
  <2>5. drift = 0 /\ ~senderDone /\ a \in Tracked => chainNonce[a] = task[t].nonce
    BY <2>1 DEF ChainAgrees, KnowsChain
  <2>6. KnowsChain(t)' /\ task'[t].addr = NoAddr
    BY <2>4 DEF KnowsChain, IdleTask
  <2>. QED BY <2>1, <2>3, <2>4, <2>5, <2>6, ChainLocal
<1>. QED BY <1>1, <1>2, <1>3, <1>4, <1>5, <1>6, <1>7, <1>8 DEF TaskStep

\* Every step.
LEMMA ChainStep ==
  ASSUME SenderInv, SenderInv', ChainAgrees, [Next]_vars
  PROVE  ChainAgrees'
<1>1. ASSUME NEW a \in Addr, ChainMoves(a)
      PROVE  ChainAgrees'
  <2>1. drift' = drift + 1 /\ drift \in Nat
    BY <1>1, DriftAssumption DEF ChainMoves, SenderInv, SenderTypes
  <2>2. drift' # 0
    BY <2>1
  <2>. QED BY <2>2, ChainMoot
<1>2. CASE EndRun
  BY <1>2, ChainMoot DEF EndRun
<1>3. CASE Terminated \/ UNCHANGED vars
  <2>1. UNCHANGED <<firstNonce, task, chainNonce, drift, senderDone>>
    BY <1>3 DEF Terminated, vars, queueVars, senderVars, accVars
  <2>. QED BY <2>1, ChainFrame DEF Busy
<1>4. CASE \E t \in Task : TaskStep(t)
  BY <1>4, ChainTask
<1>. QED BY <1>1, <1>2, <1>3, <1>4, ChainGenerator, ChainDispatcher DEF Next

\* With accounts the chain has not seen before, and a chain that moves no nonce
\* by itself, the head of a pool account is the chain's next nonce whenever no
\* answer is outstanding: a nonce that getNonce read is still right when Reset
\* applies it, for every number of accounts and goroutines.
THEOREM SenderHeadMatchesChain ==
  ASSUME StartNonces \subseteq {0}
  PROVE  SafeSpec => []HeadMatchesChain
<1>1. Init => SenderInv /\ ChainAgrees
  BY SenderInitInv, ChainInit
<1>2. SenderInv /\ ChainAgrees /\ [Next]_vars => (SenderInv /\ ChainAgrees)'
  BY SenderStep, ChainStep
<1>3. ASSUME SenderInv, ChainAgrees
      PROVE  HeadMatchesChain
  <2>. SUFFICES ASSUME drift = 0, ~senderDone, NEW a \in Tracked,
                       firstNonce[a] # chainNonce[a]
                PROVE  \E t \in Task : task[t].addr = a /\
                         task[t].pc \in {"register", "popSent", "limiter", "nonce", "reset"}
    BY DEF HeadMatchesChain
  <2>1. PICK t \in Task : Busy(t) /\ task[t].addr = a
    BY <1>3 DEF ChainAgrees, Unowned
  <2>2. task[t].pc \notin {"acquire", "sign", "send"}
    BY <1>3, <2>1 DEF ChainAgrees, KnowsChain
  <2>3. task[t].pc \in TaskPc \ {"idle"}
    BY <1>3, <2>1 DEF SenderInv, SenderTypes, Busy
  <2>. QED BY <2>1, <2>2, <2>3 DEF TaskPc
<1>. QED BY <1>1, <1>2, <1>3, PTL DEF SafeSpec

-----------------------------------------------------------------------------
(***************************************************************************)
(* The sender implements the abstract stream of every account: its initial   *)
(* states are initial states of AccountStream, and each of its steps is a    *)
(* step of AccountStream or changes nothing there.  The invariant tells      *)
(* which task holds which window; what is added is that a nonce the chain     *)
(* reports is one an account can be restarted at, and that only pool          *)
(* accounts are.                                                              *)
(***************************************************************************)

\* Nonces stay within the bound the generator keeps.
Bounded ==
  /\ HasTx => gen.tx.nonce < MaxNonce
  /\ \A a \in Addr : nextNonce[a] <= MaxNonce /\ chainNonce[a] <= MaxNonce
  /\ \A t \in Task : Busy(t) => task[t].nonce <= MaxNonce

\* Only for an account of a pool does a task ask for a nonce.
RetriesTracked ==
  \A t \in Task : task[t].pc \in {"limiter", "nonce", "reset"} => task[t].addr \in Tracked

StreamInv == SenderInv /\ Bounded /\ RetriesTracked

\* The part of the state AccountStream sees, as it sees it.
Statuses == [a \in Addr |-> Status(a)]

-----------------------------------------------------------------------------
(* The abstract status.                                                    *)

\* The status of one account changes, the others' stay.
LEMMA StatusOfOne ==
  ASSUME NEW x \in Addr, \A b \in Addr \ {x} : Status(b)' = Status(b)
  PROVE  Statuses' = [Statuses EXCEPT ![x] = Status(x)']
BY DEF Statuses

\* No status changes.
LEMMA StatusOfNone ==
  ASSUME \A b \in Addr : Status(b)' = Status(b)
  PROVE  Statuses' = Statuses
BY DEF Statuses

\* An account whose window, flag and task stay keeps its status.
LEMMA StatusKept ==
  ASSUME NEW b \in Addr, firstNonce'[b] = firstNonce[b], nextNonce'[b] = nextNonce[b],
         b \in flagged' <=> b \in flagged, Owned(b)' <=> Owned(b)
  PROVE  Status(b)' = Status(b)
BY DEF Status

\* A step that leaves the windows and flags alone, and keeps every task on its
\* account, is none of the stream's.
LEMMA Unseen ==
  ASSUME UNCHANGED <<firstNonce, nextNonce, flagged>>,
         \A t \in Task : (Busy(t)' <=> Busy(t)) /\ (Busy(t) => task'[t].addr = task[t].addr)
  PROVE  Statuses' = Statuses
<1>1. ASSUME NEW b \in Addr PROVE Status(b)' = Status(b)
  <2>1. Owned(b)' <=> Owned(b)
    BY DEF Owned
  <2>. QED BY <2>1, StatusKept
<1>. QED BY <1>1, StatusOfNone

\* A task t takes up or leaves the account x: no other account gains or loses one.
LEMMA OwnedOthers ==
  ASSUME NEW t \in Task, NEW x \in Addr, NEW b \in Addr \ {x},
         \A u \in Task \ {t} : task'[u] = task[u],
         Busy(t) => task[t].addr = x, Busy(t)' => task'[t].addr = x
  PROVE  Owned(b)' <=> Owned(b)
BY DEF Owned, Busy

-----------------------------------------------------------------------------
(* Nonces.                                                                 *)

\* At first every nonce is one an account may have.
LEMMA BoundedInit == Init => Bounded /\ RetriesTracked
<1>. SUFFICES ASSUME Init PROVE Bounded /\ RetriesTracked
  OBVIOUS
<1>1. ~HasTx
  BY DEF Init, SenderInit, HasTx, NoTx
<1>2. \A a \in Addr : nextNonce[a] = 0 /\ chainNonce[a] \in Nonce
  <2>1. chainNonce \in [Addr -> StartNonces \cup {0}]
    BY DEF Init, SenderInit
  <2>2. StartNonces \cup {0} \subseteq Nonce
    BY StartAssumption, MaxNonceAssumption DEF Nonce
  <2>. QED BY <2>1, <2>2 DEF Init, QueueInit
<1>3. \A t \in Task : task[t].pc = "idle"
  BY DEF Init, SenderInit, IdleTask
<1>. QED BY <1>1, <1>2, <1>3, MaxNonceAssumption DEF Bounded, RetriesTracked, Busy, Nonce

\* A step that leaves nonces alone, and moves no task into a retry.
LEMMA BoundedFrame ==
  ASSUME Bounded, RetriesTracked, UNCHANGED <<nextNonce, chainNonce>>,
         HasTx' => gen'.tx.nonce < MaxNonce,
         \A t \in Task :
           /\ Busy(t)' => Busy(t) /\ task'[t].nonce = task[t].nonce
           /\ task'[t].pc \in {"limiter", "nonce", "reset"} =>
                task[t].pc \in {"limiter", "nonce", "reset"} /\ task'[t].addr = task[t].addr
  PROVE  Bounded' /\ RetriesTracked'
BY DEF Bounded, RetriesTracked

\* The generator builds no transaction beyond the bound, and pushes what it built.
LEMMA BoundedGenerator ==
  ASSUME SenderInv, Bounded, RetriesTracked, Generator
  PROVE  Bounded' /\ RetriesTracked'
<1>1. ASSUME NEW a \in Addr, GenPrewarm(a) \/ GenNext(a)
      PROVE  Bounded' /\ RetriesTracked'
  <2>1. /\ UNCHANGED <<nextNonce, chainNonce, task>>
        /\ gen' = [gen EXCEPT !.tx = [addr |-> a, nonce |-> NonceOf(a)]]
        /\ NonceOf(a) < MaxNonce
    BY <1>1 DEF GenPrewarm, GenNext, GenBuild, queueVars
  <2>2. gen'.tx.nonce < MaxNonce
    BY <2>1 DEF SenderInv, SenderTypes
  <2>. QED BY <2>1, <2>2, BoundedFrame DEF Busy
<1>2. CASE GenPush
  <2>1. /\ HasTx /\ Push(gen.tx.addr, gen.tx.nonce) /\ UNCHANGED <<chainNonce, task>>
        /\ gen' = [gen EXCEPT !.tx = NoTx]
    BY <1>2 DEF GenPush
  <2>2. gen.tx.nonce < MaxNonce /\ gen.tx.addr \in Addr /\ gen.tx.nonce \in Nat
    BY <2>1 DEF Bounded, HasTx, SenderInv, SenderTypes
  <2>3. ~HasTx'
    BY <2>1 DEF HasTx, NoTx, SenderInv, SenderTypes
  <2>4. \A b \in Addr : nextNonce'[b] <= MaxNonce
    <3>1. nextNonce \in [Addr -> Nat]
      BY DEF SenderInv, QueueInv, QueueTypeOK
    <3>2. \/ UNCHANGED nextNonce
          \/ /\ gen.tx.nonce = nextNonce[gen.tx.addr]
             /\ nextNonce' = [nextNonce EXCEPT ![gen.tx.addr] = @ + 1]
      BY <2>1 DEF Push, queueVars
    <3>. QED BY <2>2, <3>1, <3>2, MaxNonceAssumption DEF Bounded
  <2>. QED BY <2>1, <2>3, <2>4 DEF Bounded, RetriesTracked, Busy
<1>3. CASE GenPark \/ GenWarmed \/ GenFlushed \/ GenStop
  <2>1. UNCHANGED <<nextNonce, chainNonce, task>>
    BY <1>3 DEF GenPark, GenWarmed, GenFlushed, GenStop, ParkPush, ParkFlush, Park,
                WaitUntilEmpty, GiveUp, queueVars, accVars, senderVars
  <2>2. HasTx' => HasTx /\ gen'.tx = gen.tx
    BY <1>3 DEF GenPark, GenWarmed, GenFlushed, GenStop, senderVars, HasTx, NoTx, SenderInv, SenderTypes
  <2>. QED BY <2>1, <2>2, BoundedFrame DEF Bounded, Busy
<1>. QED BY <1>1, <1>2, <1>3 DEF Generator

\* The dispatcher hands a task a nonce of a window.
LEMMA BoundedDispatcher ==
  ASSUME SenderInv, SenderInv', Bounded, RetriesTracked, Dispatcher
  PROVE  Bounded' /\ RetriesTracked'
<1>1. CASE DispToken \/ DispPark \/ DispReturn \/ DispStop
  <2>1. UNCHANGED <<nextNonce, chainNonce, task, gen>>
    BY <1>1 DEF DispToken, DispPark, DispReturn, DispStop, ParkPopReady, Park, GiveUp, queueVars,
                accVars, senderVars
  <2>. QED BY <2>1, BoundedFrame DEF Bounded, Busy, HasTx
<1>2. ASSUME NEW t \in Task, DispSpawn(t)
      PROVE  Bounded' /\ RetriesTracked'
  <2>1. PICK a \in Addr :
          /\ PopReady(a)
          /\ task' = [task EXCEPT ![t] = [pc |-> "acquire", addr |-> a, nonce |-> firstNonce[a]]]
    BY <1>2 DEF DispSpawn
  <2>2. UNCHANGED <<firstNonce, nextNonce, chainNonce, gen>>
    BY <1>2, <2>1 DEF DispSpawn, PopReady
  <2>3. /\ task'[t].pc = "acquire" /\ task'[t].addr = a /\ task'[t].nonce = firstNonce[a]
        /\ \A u \in Task \ {t} : task'[u] = task[u]
    BY <2>1 DEF SenderInv, SenderTypes
  <2>4. firstNonce'[a] < nextNonce'[a] /\ firstNonce[a] \in Nat /\ nextNonce[a] \in Nat
    BY <2>3 DEF SenderInv, Ownership, TaskHoldsHead, Busy, QueueInv, QueueTypeOK
  <2>5. firstNonce[a] <= MaxNonce
    BY <2>2, <2>4, MaxNonceAssumption DEF Bounded
  <2>. QED BY <2>2, <2>3, <2>5 DEF Bounded, RetriesTracked, Busy, HasTx
<1>. QED BY <1>1, <1>2 DEF Dispatcher

\* A task that holds an account holds a nonce of its window; the chain answers with
\* what it took.
LEMMA BoundedTask ==
  ASSUME SenderInv, Bounded, RetriesTracked, NEW t \in Task, TaskStep(t)
  PROVE  Bounded' /\ RetriesTracked'
<1> DEFINE a == task[t].addr
<1>0. /\ SenderTypes
      /\ Busy(t) => /\ a \in Addr /\ firstNonce[a] \in Nat /\ nextNonce[a] \in Nat
                    /\ firstNonce[a] < nextNonce[a] /\ nextNonce[a] <= MaxNonce
                    /\ task[t].pc # "reset" => task[t].nonce = firstNonce[a]
  BY DEF SenderInv, SenderTypes, Ownership, TaskHoldsHead, QueueInv, QueueTypeOK, Bounded
<1>1. UNCHANGED gen
  BY DEF TaskStep, TaskAcquire, TaskAcquireErr, TaskSign, TaskSendOk, TaskSendErr, TaskRegister,
         TaskPopSent, TaskToken, TaskTokenErr, TaskNonceOk, TaskNonceErr, TaskReset
<1>2. CASE TaskAcquire(t) \/ TaskRegister(t) \/ TaskToken(t) \/ TaskNonceErr(t)
           \/ (TaskSign(t) /\ Goto(t, "send"))
  <2>1. /\ UNCHANGED <<nextNonce, chainNonce>> /\ Busy(t)
        /\ \E pc \in TaskPc \ {"idle"} :
             /\ Goto(t, pc)
             /\ pc \in {"limiter", "nonce", "reset"} => task[t].pc \in {"limiter", "nonce", "reset"}
    BY <1>2 DEF TaskAcquire, TaskRegister, TaskToken, TaskNonceErr, TaskSign, TaskPc, Busy, queueVars
  <2>. QED BY <1>0, <1>1, <2>1, TaskMoves, BoundedFrame DEF Bounded, HasTx
<1>3. CASE TaskAcquireErr(t) \/ TaskTokenErr(t) \/ (TaskSign(t) /\ ReturnErr(t))
  <2>1. UNCHANGED <<nextNonce, chainNonce>> /\ Return(t) /\ Busy(t)
    BY <1>3 DEF TaskAcquireErr, TaskTokenErr, TaskSign, ReturnErr, Busy, queueVars
  <2>2. task'[t].pc = "idle" /\ \A u \in Task \ {t} : task'[u] = task[u]
    BY <1>0, <2>1 DEF Return, IdleTask, SenderTypes
  <2>. QED BY <1>1, <2>1, <2>2, BoundedFrame DEF Bounded, HasTx, Busy
<1>4. CASE TaskSendOk(t) \/ TaskSendErr(t)
  <2>1. /\ Busy(t) /\ task[t].pc = "send" /\ UNCHANGED nextNonce
        /\ \/ chainNonce' = [chainNonce EXCEPT ![a] = task[t].nonce + 1]
           \/ UNCHANGED chainNonce
        /\ \E pc \in {"register", "limiter", "popSent"} :
             Goto(t, pc) /\ (pc = "limiter" => a \in Tracked)
    BY <1>4 DEF TaskSendOk, TaskSendErr, Accept, Busy, queueVars
  <2>2. PICK pc \in {"register", "limiter", "popSent"} : Goto(t, pc) /\ (pc = "limiter" => a \in Tracked)
    BY <2>1
  <2>3. /\ task'[t].pc = pc /\ task'[t].addr = a /\ task'[t].nonce = task[t].nonce
        /\ \A u \in Task \ {t} : task'[u] = task[u]
    BY <1>0, <2>2 DEF Goto, SenderTypes
  <2>4. \A b \in Addr : chainNonce'[b] <= MaxNonce
    BY <1>0, <2>1, MaxNonceAssumption DEF Bounded, SenderTypes
  <2>. QED BY <1>1, <2>1, <2>2, <2>3, <2>4 DEF Bounded, RetriesTracked, HasTx, Busy
<1>5. CASE TaskNonceOk(t)
  <2>1. /\ Busy(t) /\ task[t].pc = "nonce" /\ UNCHANGED <<nextNonce, chainNonce>>
        /\ task' = [task EXCEPT ![t].pc = "reset", ![t].nonce = chainNonce[a]]
    BY <1>5 DEF TaskNonceOk, Busy, queueVars
  <2>2. /\ task'[t].addr = a /\ task'[t].nonce = chainNonce[a]
        /\ \A u \in Task \ {t} : task'[u] = task[u]
    BY <1>0, <2>1 DEF SenderTypes
  <2>. QED BY <1>0, <1>1, <2>1, <2>2 DEF Bounded, RetriesTracked, HasTx, Busy
<1>6. CASE TaskPopSent(t) \/ TaskReset(t)
  <2>1. UNCHANGED chainNonce /\ Return(t) /\ Busy(t)
    BY <1>6 DEF TaskPopSent, TaskReset, Busy
  <2>2. task'[t].pc = "idle" /\ \A u \in Task \ {t} : task'[u] = task[u]
    BY <1>0, <2>1 DEF Return, IdleTask, SenderTypes
  <2>3. task[t].nonce <= MaxNonce /\ nextNonce \in [Addr -> Nat]
    BY <2>1 DEF Bounded, SenderInv, QueueInv, QueueTypeOK
  <2>4. \/ UNCHANGED nextNonce
        \/ nextNonce' = [nextNonce EXCEPT ![a] = 0]
        \/ nextNonce' = [nextNonce EXCEPT ![a] = task[t].nonce]
    BY <1>6 DEF TaskPopSent, TaskReset, PopSent, Reset, Forget, queueVars
  <2>5. \A b \in Addr : nextNonce'[b] <= MaxNonce
    BY <2>3, <2>4, MaxNonceAssumption DEF Bounded
  <2>. QED BY <1>1, <2>1, <2>2, <2>5 DEF Bounded, RetriesTracked, HasTx, Busy
<1>. QED BY <1>2, <1>3, <1>4, <1>5, <1>6 DEF TaskStep, TaskSign

\* Every step.
LEMMA StreamInvStep == ASSUME StreamInv, [Next]_vars PROVE StreamInv'
<1>0. SenderInv /\ SenderInv' /\ Bounded /\ RetriesTracked
  BY SenderStep DEF StreamInv
<1>1. ASSUME NEW a \in Addr, ChainMoves(a)
      PROVE  Bounded' /\ RetriesTracked'
  <2>1. /\ UNCHANGED <<nextNonce, task, gen>>
        /\ \E n \in Nonce : chainNonce' = [chainNonce EXCEPT ![a] = n]
    BY <1>1 DEF ChainMoves, queueVars
  <2>2. \A b \in Addr : chainNonce'[b] <= MaxNonce
    BY <1>0, <2>1, MaxNonceAssumption DEF Bounded, Nonce, SenderInv, SenderTypes
  <2>. QED BY <1>0, <2>1, <2>2 DEF Bounded, RetriesTracked, HasTx, Busy
<1>2. CASE EndRun \/ Terminated \/ UNCHANGED vars
  <2>1. UNCHANGED <<nextNonce, chainNonce, task, gen>>
    BY <1>2 DEF EndRun, Terminated, vars, senderVars, queueVars
  <2>. QED BY <1>0, <2>1, BoundedFrame DEF Bounded, Busy, HasTx, StreamInv
<1>. QED BY <1>0, <1>1, <1>2, BoundedGenerator, BoundedDispatcher, BoundedTask DEF Next, StreamInv

-----------------------------------------------------------------------------
(* The steps, as the stream sees them.                                     *)

streamVars == <<firstNonce, nextNonce, Statuses, senderDone>>

\* Push appends to a window, or drops a transaction built with an old nonce.
LEMMA PushIsEnqueue ==
  ASSUME StreamInv, GenPush
  PROVE  (\E a \in Addr : Stream!Enqueue(a)) \/ UNCHANGED streamVars
<1> DEFINE a == gen.tx.addr
<1>1. /\ Push(a, gen.tx.nonce) /\ UNCHANGED <<task, senderDone>> /\ a \in Addr
      /\ nextNonce \in [Addr -> Nat]
  BY DEF GenPush, HasTx, StreamInv, SenderInv, SenderTypes, QueueInv, QueueTypeOK
<1>2. CASE UNCHANGED queueVars
  BY <1>1, <1>2, Unseen DEF queueVars, streamVars, Busy
<1>3. CASE ~UNCHANGED queueVars
  <2>1. /\ gen.tx.nonce = nextNonce[a]
        /\ nextNonce' = [nextNonce EXCEPT ![a] = @ + 1]
        /\ UNCHANGED firstNonce
        /\ \/ firstNonce[a] = nextNonce[a] /\ flagged' = flagged \cup {a}
           \/ firstNonce[a] # nextNonce[a] /\ flagged' = flagged
    BY <1>1, <1>3 DEF Push
  <2>2. \A b \in Addr : Owned(b)' <=> Owned(b)
    BY <1>1 DEF Owned, Busy
  <2>3. ASSUME NEW b \in Addr PROVE Status(b)' = Status(b)
    <3>1. CASE b # a
      BY <1>1, <2>1, <2>2, <3>1, StatusKept
    <3>2. CASE b = a
      <4>1. firstNonce[a] <= nextNonce[a] /\ firstNonce[a] \in Nat
        BY <1>1 DEF StreamInv, SenderInv, QueueInv, QueueTypeOK, MapsAgree
      <4>2. firstNonce[a] # nextNonce[a] => firstNonce[a] < nextNonce[a] /\ firstNonce'[a] < nextNonce'[a]
        BY <1>1, <2>1, <4>1
      <4>3. CASE firstNonce[a] = nextNonce[a]
        <5>1. ~(firstNonce[a] < nextNonce[a])
          BY <1>1, <4>1, <4>3
        <5>. QED BY <2>1, <2>2, <3>2, <4>3, <5>1 DEF Status
      <4>. QED BY <2>1, <2>2, <3>2, <4>2, <4>3 DEF Status
    <3>. QED BY <3>1, <3>2
  <2>4. UNCHANGED Statuses
    BY <2>3, StatusOfNone
  <2>. QED BY <1>1, <2>1, <2>4 DEF Stream!Enqueue, Statuses
<1>. QED BY <1>2, <1>3

\* The dispatcher hands out an account that nobody works on.
LEMMA SpawnIsDispatch ==
  ASSUME StreamInv, NEW t \in Task, DispSpawn(t)
  PROVE  \E a \in Addr : Stream!Dispatch(a)
<1>1. PICK a \in Addr :
        /\ PopReady(a)
        /\ task' = [task EXCEPT ![t] = [pc |-> "acquire", addr |-> a, nonce |-> firstNonce[a]]]
  BY DEF DispSpawn
<1>2. ~Busy(t) /\ UNCHANGED <<firstNonce, nextNonce, senderDone>> /\ flagged' = flagged \ {a}
  BY <1>1 DEF DispSpawn, PopReady, Busy
<1>3. a \in flagged /\ firstNonce[a] < nextNonce[a]
  <2>1. ready \in Seq(Addr) /\ Len(ready) > 0 /\ a = ready[1]
    BY <1>1 DEF PopReady, CanPopReady, StreamInv, SenderInv, QueueInv, QueueTypeOK
  <2>2. 1 \in 1 .. Len(ready)
    BY <2>1
  <2>. QED BY <2>1, <2>2 DEF StreamInv, SenderInv, QueueInv, ReadyIsExact
<1>4. ~Owned(a)
  BY <1>3 DEF Owned, StreamInv, SenderInv, Ownership, TaskHoldsHead
<1>5. /\ task'[t].addr = a /\ Busy(t)'
      /\ \A u \in Task \ {t} : task'[u] = task[u]
  BY <1>1 DEF Busy, StreamInv, SenderInv, SenderTypes
<1>6. Status(a) = "free" /\ Status(a)' = "busy"
  <2>1. Owned(a)'
    BY <1>5 DEF Owned
  <2>. QED BY <1>3, <1>4, <2>1 DEF Status
<1>7. \A b \in Addr \ {a} : Status(b)' = Status(b)
  BY <1>2, <1>5, OwnedOthers, StatusKept
<1>8. Statuses' = [Statuses EXCEPT ![a] = "busy"]
  BY <1>6, <1>7, StatusOfOne
<1>. QED BY <1>2, <1>3, <1>6, <1>8 DEF Stream!Dispatch, Stream!Pending, Statuses

\* A task that ends leaves its account to nobody.
LEMMA Leaves ==
  ASSUME StreamInv, NEW t \in Task, Busy(t), Return(t), NEW a, a = task[t].addr
  PROVE  /\ a \in Addr /\ Status(a) = "busy" /\ ~Owned(a)'
         /\ \A u \in Task \ {t} : task'[u] = task[u]
         /\ ~Busy(t)'
<1>1. /\ a \in Addr /\ ~Busy(t)'
      /\ \A u \in Task \ {t} : task'[u] = task[u]
  BY DEF StreamInv, SenderInv, SenderTypes, Return, IdleTask, Busy
<1>2. Status(a) = "busy"
  BY DEF Status, Owned
<1>3. ~Owned(a)'
  BY <1>1 DEF Owned, Busy, StreamInv, SenderInv, Ownership, OneTaskPerAccount
<1>. QED BY <1>1, <1>2, <1>3

\* PopSent drops the oldest transaction of the task's account.
LEMMA PopSentIsFinish ==
  ASSUME StreamInv, NEW t \in Task, TaskPopSent(t)
  PROVE  \E a \in Addr : Stream!Finish(a)
<1>1. PICK a : a = task[t].addr
  OBVIOUS
<1> DEFINE more == firstNonce[a] + 1 < nextNonce[a]
<1>2. Busy(t) /\ Return(t) /\ PopSent(a) /\ UNCHANGED senderDone
  BY <1>1 DEF TaskPopSent, Busy
<1>3. /\ a \in Addr /\ Status(a) = "busy" /\ ~Owned(a)' /\ ~Busy(t)'
      /\ \A u \in Task \ {t} : task'[u] = task[u]
  BY <1>1, <1>2, Leaves
<1>4. /\ a \in byAddr \ flagged /\ firstNonce[a] < nextNonce[a]
      /\ firstNonce \in [Addr -> Nat] /\ nextNonce \in [Addr -> Nat]
  BY <1>1, <1>2 DEF StreamInv, SenderInv, Ownership, TaskHoldsHead, QueueInv, QueueTypeOK
<1>5. HasSentHead(a)
  BY <1>3, <1>4 DEF HasSentHead
<1>6. /\ flagged' = IF more THEN flagged \cup {a} ELSE flagged
      /\ IF more \/ a \in Tracked
           THEN /\ firstNonce' = [firstNonce EXCEPT ![a] = @ + 1]
                /\ UNCHANGED nextNonce
           ELSE /\ firstNonce' = [firstNonce EXCEPT ![a] = 0]
                /\ nextNonce' = [nextNonce EXCEPT ![a] = 0]
  BY <1>2, <1>5 DEF PopSent, Forget
<1>7. \A b \in Addr \ {a} : Status(b)' = Status(b)
  <2>. SUFFICES ASSUME NEW b \in Addr \ {a} PROVE Status(b)' = Status(b)
    OBVIOUS
  <2>1. Owned(b)' <=> Owned(b)
    BY <1>1, <1>3, OwnedOthers
  <2>2. firstNonce'[b] = firstNonce[b] /\ nextNonce'[b] = nextNonce[b] /\ (b \in flagged' <=> b \in flagged)
    BY <1>4, <1>6
  <2>. QED BY <2>1, <2>2, StatusKept
<1>8. Status(a)' = "free"
  <2>1. a \in flagged' \/ ~(firstNonce'[a] < nextNonce'[a])
    BY <1>3, <1>4, <1>6
  <2>. QED BY <1>3, <2>1 DEF Status
<1>9. Statuses' = [Statuses EXCEPT ![a] = "free"]
  BY <1>3, <1>7, <1>8, StatusOfOne
<1>10. more <=> firstNonce[a] + 1 # nextNonce[a]
  BY <1>3, <1>4
<1>11. IF a \in Addr \ Tracked /\ firstNonce[a] + 1 = nextNonce[a]
         THEN /\ firstNonce' = [firstNonce EXCEPT ![a] = 0]
              /\ nextNonce' = [nextNonce EXCEPT ![a] = 0]
         ELSE /\ firstNonce' = [firstNonce EXCEPT ![a] = @ + 1]
              /\ UNCHANGED nextNonce
  BY <1>3, <1>6, <1>10
<1>12. Statuses[a] = "busy"
  BY <1>3 DEF Statuses
<1>. QED BY <1>2, <1>3, <1>9, <1>11, <1>12 DEF Stream!Finish, Statuses

\* Reset empties the account's window, at the nonce the chain reported.
LEMMA ResetIsRestart ==
  ASSUME StreamInv, NEW t \in Task, TaskReset(t)
  PROVE  \E a \in Addr : \E n \in Nonce : Stream!Restart(a, n)
<1>1. PICK a : a = task[t].addr
  OBVIOUS
<1>2. PICK n : n = task[t].nonce
  OBVIOUS
<1>3. Busy(t) /\ Return(t) /\ Reset(a, n) /\ UNCHANGED senderDone
  BY <1>1, <1>2 DEF TaskReset, Busy
<1>4. /\ a \in Addr /\ Status(a) = "busy" /\ ~Owned(a)' /\ ~Busy(t)'
      /\ \A u \in Task \ {t} : task'[u] = task[u]
  BY <1>1, <1>3, Leaves
<1>5. a \in Tracked /\ n \in Nonce
  <2>1. n \in Nat /\ n <= MaxNonce
    BY <1>2, <1>3 DEF StreamInv, SenderInv, SenderTypes, Bounded
  <2>. QED BY <1>1, <2>1, MaxNonceAssumption DEF TaskReset, StreamInv, RetriesTracked, Nonce
<1>6. /\ a \in byAddr \ flagged
      /\ firstNonce \in [Addr -> Nat] /\ nextNonce \in [Addr -> Nat]
  BY <1>1, <1>3 DEF StreamInv, SenderInv, Ownership, TaskHoldsHead, QueueInv, QueueTypeOK
<1>7. /\ firstNonce' = [firstNonce EXCEPT ![a] = n]
      /\ nextNonce' = [nextNonce EXCEPT ![a] = n]
      /\ flagged' = flagged
  BY <1>3, <1>5, <1>6 DEF Reset
<1>8. \A b \in Addr \ {a} : Status(b)' = Status(b)
  <2>. SUFFICES ASSUME NEW b \in Addr \ {a} PROVE Status(b)' = Status(b)
    OBVIOUS
  <2>1. Owned(b)' <=> Owned(b)
    BY <1>1, <1>4, OwnedOthers
  <2>. QED BY <1>6, <1>7, <2>1, StatusKept
<1>9. Status(a)' = "free"
  <2>1. ~(firstNonce'[a] < nextNonce'[a])
    BY <1>4, <1>5, <1>6, <1>7 DEF Nonce
  <2>. QED BY <1>4, <2>1 DEF Status
<1>10. Statuses' = [Statuses EXCEPT ![a] = "free"]
  BY <1>4, <1>8, <1>9, StatusOfOne
<1>11. Statuses[a] = "busy"
  BY <1>4 DEF Statuses
<1>. QED BY <1>3, <1>4, <1>5, <1>7, <1>10, <1>11 DEF Stream!Restart, Statuses

\* A task that gives up leaves its transaction where it is, and the sender closes.
LEMMA ErrorIsAbandon ==
  ASSUME StreamInv, NEW t \in Task, Busy(t), Return(t), UNCHANGED queueVars, senderDone' = TRUE
  PROVE  \E a \in Addr : Stream!Abandon(a)
<1>1. PICK a : a = task[t].addr
  OBVIOUS
<1>2. /\ a \in Addr /\ Status(a) = "busy" /\ ~Owned(a)' /\ ~Busy(t)'
      /\ \A u \in Task \ {t} : task'[u] = task[u]
  BY <1>1, Leaves
<1>3. a \notin flagged /\ firstNonce[a] < nextNonce[a] /\ UNCHANGED <<firstNonce, nextNonce, flagged>>
  BY <1>1 DEF StreamInv, SenderInv, Ownership, TaskHoldsHead, queueVars
<1>4. \A b \in Addr \ {a} : Status(b)' = Status(b)
  BY <1>1, <1>2, <1>3, OwnedOthers, StatusKept
<1>5. Status(a)' = "abandoned"
  BY <1>2, <1>3 DEF Status
<1>6. Statuses' = [Statuses EXCEPT ![a] = "abandoned"]
  BY <1>2, <1>4, <1>5, StatusOfOne
<1>7. Statuses[a] = "busy"
  BY <1>2 DEF Statuses
<1>. QED BY <1>2, <1>3, <1>6, <1>7 DEF Stream!Abandon, Statuses

\* The steps of a task.
LEMMA TaskIsSettled ==
  ASSUME StreamInv, NEW t \in Task, TaskStep(t)
  PROVE  \/ \E a \in Addr : Stream!Settle(a) \/ Stream!Abandon(a)
         \/ UNCHANGED streamVars
<1>0. SenderTypes
  BY DEF StreamInv, SenderInv
<1>1. CASE TaskPopSent(t)
  BY <1>1, PopSentIsFinish DEF Stream!Settle
<1>2. CASE TaskReset(t)
  BY <1>2, ResetIsRestart DEF Stream!Settle
<1>3. CASE TaskAcquireErr(t) \/ TaskTokenErr(t) \/ (TaskSign(t) /\ ReturnErr(t))
  <2>1. UNCHANGED queueVars /\ Return(t) /\ Busy(t) /\ senderDone' = TRUE
    BY <1>0, <1>3 DEF TaskAcquireErr, TaskTokenErr, TaskSign, ReturnErr, Busy, SenderTypes
  <2>. QED BY <2>1, ErrorIsAbandon
<1>4. CASE TaskAcquire(t) \/ TaskRegister(t) \/ TaskToken(t) \/ TaskNonceErr(t)
           \/ TaskSendOk(t) \/ TaskSendErr(t) \/ (TaskSign(t) /\ Goto(t, "send") /\ UNCHANGED senderDone)
  <2>1. /\ UNCHANGED <<queueVars, senderDone>> /\ Busy(t)
        /\ \E pc \in TaskPc \ {"idle"} : Goto(t, pc)
    BY <1>4 DEF TaskAcquire, TaskRegister, TaskToken, TaskNonceErr, TaskSendOk, TaskSendErr, TaskSign,
                TaskPc, Busy
  <2>2. UNCHANGED Statuses
    BY <1>0, <2>1, TaskMoves, Unseen DEF queueVars
  <2>. QED BY <2>1, <2>2 DEF streamVars, queueVars
<1>5. CASE TaskNonceOk(t)
  <2>1. /\ UNCHANGED <<queueVars, senderDone>> /\ Busy(t)
        /\ task' = [task EXCEPT ![t].pc = "reset", ![t].nonce = chainNonce[task[t].addr]]
    BY <1>5 DEF TaskNonceOk, Busy
  <2>2. \A u \in Task : (Busy(u)' <=> Busy(u)) /\ task'[u].addr = task[u].addr
    BY <1>0, <2>1 DEF SenderTypes, Busy
  <2>3. UNCHANGED Statuses
    BY <2>1, <2>2, Unseen DEF queueVars
  <2>. QED BY <2>1, <2>3 DEF streamVars, queueVars
<1>. QED BY <1>1, <1>2, <1>3, <1>4, <1>5 DEF TaskStep, TaskSign

\* The steps of the generator, apart from the push, change nothing the stream has.
LEMMA GeneratorIsUnseen ==
  ASSUME StreamInv, Generator
  PROVE  (\E a \in Addr : Stream!Enqueue(a)) \/ UNCHANGED streamVars
<1>1. CASE GenPush
  BY <1>1, PushIsEnqueue
<1>2. CASE ~GenPush
  <2>1. UNCHANGED <<accVars, task, senderDone>>
    BY <1>2 DEF Generator, GenPrewarm, GenNext, GenBuild, GenPark, GenWarmed, GenFlushed, GenStop,
                ParkPush, ParkFlush, Park, WaitUntilEmpty, GiveUp, queueVars, accVars, senderVars
  <2>2. UNCHANGED Statuses
    BY <2>1, Unseen DEF accVars, Busy
  <2>. QED BY <2>1, <2>2 DEF streamVars, accVars
<1>. QED BY <1>1, <1>2

\* The dispatcher's steps, and those of the environment.
LEMMA OthersAreSeen ==
  ASSUME StreamInv, Dispatcher \/ (\E a \in Addr : ChainMoves(a)) \/ EndRun \/ Terminated \/ UNCHANGED vars
  PROVE  \/ \E a \in Addr : Stream!Dispatch(a)
         \/ Stream!Close
         \/ UNCHANGED streamVars
<1>1. ASSUME NEW t \in Task, DispSpawn(t) PROVE \E a \in Addr : Stream!Dispatch(a)
  BY <1>1, SpawnIsDispatch
<1>2. CASE DispToken \/ DispPark \/ DispReturn \/ (\E a \in Addr : ChainMoves(a)) \/ Terminated
           \/ UNCHANGED vars
  <2>1. UNCHANGED <<accVars, task, senderDone>>
    BY <1>2 DEF DispToken, DispPark, DispReturn, ChainMoves, Terminated, ParkPopReady, Park, vars,
                queueVars, accVars, senderVars
  <2>2. UNCHANGED Statuses
    BY <2>1, Unseen DEF accVars, Busy
  <2>. QED BY <2>1, <2>2 DEF streamVars, accVars
<1>3. CASE DispStop \/ EndRun
  <2>1. UNCHANGED <<accVars, task>> /\ senderDone' = TRUE
    BY <1>3 DEF DispStop, EndRun, GiveUp, queueVars, accVars
  <2>2. UNCHANGED Statuses
    BY <2>1, Unseen DEF accVars, Busy
  <2>. QED BY <2>1, <2>2 DEF Stream!Close, accVars, Statuses
<1>. QED BY <1>1, <1>2, <1>3 DEF Dispatcher

-----------------------------------------------------------------------------

\* The sender implements the stream: a window of consecutive nonces per account,
\* whose oldest element one goroutine at a time attempts; each attempt drops it,
\* restarts the window at the chain's nonce, or is given up while the sender closes.
THEOREM SenderImplementsStream == SafeSpec => Stream!SafeSpec
<1>1. Init => StreamInv
  BY SenderInitInv, BoundedInit DEF StreamInv
<1>2. StreamInv /\ [Next]_vars => StreamInv'
  BY StreamInvStep
<1>3. Init => Stream!Init
  <2>. SUFFICES ASSUME Init PROVE Stream!Init
    OBVIOUS
  <2>1. /\ firstNonce = [a \in Addr |-> 0] /\ nextNonce = [a \in Addr |-> 0] /\ senderDone = FALSE
        /\ \A t \in Task : ~Busy(t)
    BY DEF Init, QueueInit, SenderInit, Busy, IdleTask
  <2>2. \A a \in Addr : Status(a) = "free"
    BY <2>1 DEF Status, Owned
  <2>. QED BY <2>1, <2>2 DEF Stream!Init
<1>4. StreamInv /\ [Next]_vars => [Stream!Next]_(Stream!streamVars)
  <2>. SUFFICES ASSUME StreamInv, [Next]_vars PROVE Stream!Next \/ UNCHANGED streamVars
    BY DEF streamVars, Statuses, Stream!streamVars
  <2>1. CASE Generator
    BY <2>1, GeneratorIsUnseen DEF Stream!Next
  <2>2. ASSUME NEW t \in Task, TaskStep(t) PROVE Stream!Next \/ UNCHANGED streamVars
    BY <2>2, TaskIsSettled DEF Stream!Next
  <2>3. CASE Dispatcher \/ (\E a \in Addr : ChainMoves(a)) \/ EndRun \/ Terminated \/ UNCHANGED vars
    BY <2>3, OthersAreSeen DEF Stream!Next
  <2>. QED BY <2>1, <2>2, <2>3 DEF Next
<1>. QED BY <1>1, <1>2, <1>3, <1>4, PTL DEF SafeSpec, Stream!SafeSpec
=============================================================================
