----------------------------- MODULE TxsWriter -----------------------------
(***************************************************************************)
(* sender/writer.go: instead of sending, the writer collects transactions   *)
(* into blocks of limited gas and writes each block to a file named after a  *)
(* height.  It is driven by the generator (generator.go): Prewarm sends one  *)
(* transaction for every pool account and flushes, Run then reads a nonce    *)
(* and sends until the writer returns an error.  What Send and Flush do is   *)
(* one critical section each.                                                *)
(***************************************************************************)
\* An operator Op_Variant is a faulty variant of Op: the properties are tested
\* against it, no specification uses it.
EXTENDS Naturals, Sequences, FiniteSets, SequencesExt

CONSTANTS
  Addr,        \* account addresses
  Tracked,     \* the accounts of the fixed pools
  Gas,         \* gas a transaction may declare
  GasPerBlock, \* TxsWriter.gasPerBlock
  NumBlocks,   \* TxsWriter.numBlocks
  StartHeight, \* the height of the first file
  MaxTxs       \* bound on the transactions of a run

ASSUME WriterAssumption ==
  /\ Tracked \subseteq Addr
  /\ Gas \subseteq Nat /\ GasPerBlock \in Nat /\ NumBlocks \in Nat
  /\ StartHeight \in Nat /\ MaxTxs \in Nat

VARIABLES
  nextHeight,      \* the fields of txsWriterInner
  blocksGenerated,
  bufferGas,
  txBuffer,
  nonces,
  files,           \* the files on disk: a function from heights to blocks
  gen,             \* the generator: "prewarm", "run", or "stopped"
  toWarm,          \* accounts Prewarm has still to send for
  fresh,           \* one-shot accounts not yet minted
  sent             \* history: the transactions Send took, in order

writerVars == <<nextHeight, blocksGenerated, bufferGas, txBuffer, nonces, files>>
vars == <<writerVars, gen, toWarm, fresh, sent>>

Tx == [addr : Addr, nonce : Nat, gas : Gas]

Init ==
  /\ nextHeight = StartHeight
  /\ blocksGenerated = 0
  /\ bufferGas = 0
  /\ txBuffer = <<>>
  /\ nonces = [a \in Addr |-> 0]
  /\ files = <<>>
  /\ gen \in {"prewarm", "run"}
  /\ toWarm = IF gen = "prewarm" THEN Tracked ELSE {}
  /\ fresh = Addr \ Tracked
  /\ sent = <<>>

\* The file of the next height is written with the buffered transactions.
WriteFile ==
  files' = [h \in DOMAIN files \cup {nextHeight} |->
              IF h = nextHeight THEN txBuffer ELSE files[h]]

\* The deferred part of flush: it runs on every path, an error's too.
Advance_SameFile ==
  /\ UNCHANGED nextHeight
  /\ blocksGenerated' = blocksGenerated + 1
Advance ==
  /\ nextHeight' = nextHeight + 1
  /\ blocksGenerated' = blocksGenerated + 1

\* Asked after the file is written and before the block is counted.
LimitReached_Later == blocksGenerated > NumBlocks
LimitReached == blocksGenerated >= NumBlocks

\* flush returned nil.
FlushOk ==
  /\ WriteFile
  /\ ~LimitReached
  /\ Advance

\* flush returned an error: the disk refused (no readable file is left), or
\* the file was written and the limit is reached.
FlushErr ==
  /\ (WriteFile /\ LimitReached) \/ UNCHANGED files
  /\ Advance

\* Whether tx would take the buffered block above the limit.
Overflows(tx) == bufferGas + tx.gas > GasPerBlock

\* inner.nonces once tx is counted; one-shot accounts are not tracked.
Counted_UnlessFlushed(tx) == IF Overflows(tx) THEN nonces ELSE [nonces EXCEPT ![tx.addr] = @ + 1]
Counted(tx) == IF tx.addr \in Tracked THEN [nonces EXCEPT ![tx.addr] = @ + 1] ELSE nonces

\* Send returned nil: tx joins the buffer, after a flush if it would not fit.
SendOk(tx) ==
  /\ \/ /\ ~Overflows(tx)
        /\ txBuffer' = Append(txBuffer, tx)
        /\ bufferGas' = bufferGas + tx.gas
        /\ UNCHANGED <<nextHeight, blocksGenerated, files>>
     \/ /\ Overflows(tx)
        /\ FlushOk
        /\ txBuffer' = <<tx>>
        /\ bufferGas' = tx.gas
  /\ nonces' = Counted(tx)
  /\ sent' = Append(sent, tx)

\* Send returned flush's error.
SendErr(tx) ==
  /\ Overflows(tx)
  /\ FlushErr
  /\ txBuffer' = <<>>
  /\ bufferGas' = 0
  /\ UNCHANGED <<nonces, sent>>

\* TxsWriter.Flush.
Flush(flushed) ==
  /\ flushed
  /\ txBuffer' = <<>>
  /\ bufferGas' = 0
  /\ UNCHANGED <<nonces, sent>>

\* The transaction the generator builds for a: the nonce is read first; no
\* other goroutine sends in between.
TxOf(a, gas) == [addr |-> a, nonce |-> nonces[a], gas |-> gas]

\* One transaction goes through Send, and an error of Send ends the generator.
Generate(a, gas) ==
  \/ SendOk(TxOf(a, gas)) /\ UNCHANGED gen
  \/ SendErr(TxOf(a, gas)) /\ gen' = "stopped"

GenPrewarm(a, gas) ==
  /\ gen = "prewarm" /\ a \in toWarm
  /\ toWarm' = toWarm \ {a}
  /\ Generate(a, gas)
  /\ UNCHANGED fresh

GenWarmed ==
  /\ gen = "prewarm" /\ toWarm = {}
  /\ \/ Flush(FlushOk) /\ gen' = "run"
     \/ Flush(FlushErr) /\ gen' = "stopped"
  /\ UNCHANGED <<toWarm, fresh>>

GenNext(a, gas) ==
  /\ gen = "run" /\ a \in Tracked \cup fresh
  /\ Len(sent) < MaxTxs
  /\ fresh' = fresh \ {a}
  /\ Generate(a, gas)
  /\ UNCHANGED toWarm

\* The run's context ended: what is buffered is not flushed.
GenStop ==
  /\ gen = "run"
  /\ gen' = "stopped"
  /\ UNCHANGED <<writerVars, toWarm, fresh, sent>>

Over == gen = "stopped" /\ UNCHANGED vars

Next ==
  \/ \E a \in Addr, gas \in Gas : GenPrewarm(a, gas) \/ GenNext(a, gas)
  \/ GenWarmed \/ GenStop \/ Over

Spec == Init /\ [][Next]_vars

-----------------------------------------------------------------------------
(* Properties.                                                             *)

GasOf(block) == FoldLeft(LAMBDA sum, tx : sum + tx.gas, 0, block)

\* The blocks on disk in the order of their heights, as one sequence.
Written == FlattenSeq([i \in 1 .. (nextHeight - StartHeight) |->
             IF StartHeight + i - 1 \in DOMAIN files THEN files[StartHeight + i - 1] ELSE <<>>])

\* Types of the writer's state, and what its two counters mean: files are
\* numbered from StartHeight on, and bufferGas is the gas of the buffer.
TypeOK ==
  /\ nextHeight = StartHeight + blocksGenerated
  /\ txBuffer \in Seq(Tx)
  /\ bufferGas = GasOf(txBuffer)
  /\ nonces \in [Addr -> Nat]
  /\ DOMAIN files \subseteq StartHeight .. (nextHeight - 1)
  /\ \A h \in DOMAIN files : files[h] \in Seq(Tx)
  /\ gen \in {"prewarm", "run", "stopped"}
  /\ toWarm \subseteq Tracked
  /\ fresh \subseteq Addr \ Tracked

\* While the generator runs no transaction is lost, repeated or reordered: the
\* files and the buffer together are what was sent.  After an error the files
\* still are a beginning of it.
NothingLost ==
  /\ gen # "stopped" => Written \o txBuffer = sent
  /\ IsPrefix(Written, sent)

\* The writer's invariant: its counters mean what they say, and nothing is lost.
WriterInv == TypeOK /\ NothingLost

\* How many of the first n transactions of a sequence are a's.
OfFirst(txs, n, a) == Cardinality({j \in 1 .. n : txs[j].addr = a})

\* The files can be replayed: a transaction's nonce is the number of its
\* account's transactions before it, across blocks, flushes and a failed one.
Replayable ==
  LET w == Written
  IN  \A i \in 1 .. Len(w) : w[i].nonce = OfFirst(w, i - 1, w[i].addr)

\* A block exceeds the gas limit only if it is a single transaction.
BlocksWithinGas ==
  \A h \in DOMAIN files : GasOf(files[h]) <= GasPerBlock \/ Len(files[h]) = 1

\* The run stops at its limit, wherever Prewarm left the count and whatever
\* flush failed: one block past it, the one that found the limit reached, is
\* the last one written.
BlocksBounded == Cardinality(DOMAIN files) <= NumBlocks + 1

\* The files are limited, in size and in number.
BlocksLimited == BlocksWithinGas /\ BlocksBounded
=============================================================================
