--------------------------- MODULE TxsWriterProofs ---------------------------
(***************************************************************************)
(* Proofs about TxsWriter, for any accounts, gas, limits and starting height: *)
(* the files and the buffer are what was sent, in order and within the        *)
(* limits, and the files can be replayed.                                     *)
(***************************************************************************)
EXTENDS TxsWriter, TLAPS, FiniteSetTheorems, SequenceTheorems, WellFoundedInduction

-----------------------------------------------------------------------------
(* The invariant.                                                          *)

\* The nonces of what was sent count up per account, and the writer's counters
\* say how far; an account that is still fresh has sent nothing.
Numbered ==
  /\ sent \in Seq(Tx)
  /\ \A i \in 1 .. Len(sent) : sent[i].nonce = OfFirst(sent, i - 1, sent[i].addr)
  /\ \A a \in Tracked \cup fresh : nonces[a] = OfFirst(sent, Len(sent), a)

\* The buffer keeps to the gas limit as a block does, and a writer that has not
\* failed has not passed the limit on blocks.
WithinLimits ==
  /\ bufferGas <= GasPerBlock \/ Len(txBuffer) = 1
  /\ gen # "stopped" => blocksGenerated <= NumBlocks

\* The inductive invariant.
WriterIInv ==
  /\ blocksGenerated \in Nat /\ TypeOK /\ NothingLost
  /\ Numbered /\ WithinLimits /\ BlocksLimited

-----------------------------------------------------------------------------
(* Gas.  GasOf folds a block from its last transaction down.               *)

\* A set of natural numbers that is not empty has a least element.
LEMMA LeastNumber ==
  ASSUME NEW S, S \subseteq Nat, S # {}
  PROVE  \E m \in S : \A x \in S : m <= x
<1>1. PICK m \in S : \A x \in S : ~(<<x, m>> \in OpToRel(<, Nat))
  BY NatLessThanWellFounded, WFMin, IsWellFoundedOnSubset
<1>2. \A x \in S : ~(x < m)
  BY <1>1 DEF OpToRel
<1>. QED BY <1>2

\* A set of positions that is not empty has a greatest element.
LEMMA MaxFacts ==
  ASSUME NEW n \in Nat, NEW s \in SUBSET (1 .. n), s # {}
  PROVE  Max(s) \in s /\ \A y \in s : y <= Max(s)
<1> DEFINE D == {n - x : x \in s}
<1>0. \A x \in s : x \in Int /\ n - x \in Nat
  <2>1. \A x \in s : x \in 1 .. n
    OBVIOUS
  <2>2. \A x \in 1 .. n : x \in Int /\ n - x \in Nat
    OBVIOUS
  <2>. QED BY <2>1, <2>2
<1>1. D \subseteq Nat /\ D # {}
  BY <1>0
<1>. HIDE DEF D
<1>2. PICK m \in D : \A d \in D : m <= d
  BY <1>1, LeastNumber
<1>. USE DEF D
<1>3. PICK x \in s : m = n - x
  OBVIOUS
<1>4. \A y \in s : x >= y
  <2>1. ASSUME NEW y \in s PROVE x >= y
    <3>1. n - x <= n - y
      BY <1>2, <1>3
    <3>2. x \in Int /\ y \in Int /\ n \in Int
      BY <1>0
    <3>. QED BY ONLY <3>1, <3>2
  <2>. QED BY <2>1
<1>5. Max(s) \in s /\ \A y \in s : Max(s) >= y
  BY <1>3, <1>4 DEF Max
<1>. QED BY <1>0, <1>5

\* h holds the gas of block's transactions at the positions in each set of D.
GasSums(h, block, D) ==
  h = [s \in D |-> IF s = {} THEN 0 ELSE h[s \ {Max(s)}] + block[Max(s)].gas]

\* Removing the greatest of positions up to n + 1 leaves positions up to n.
LEMMA WithoutMax ==
  ASSUME NEW n \in Nat, NEW s \in SUBSET (1 .. n + 1), s # {}
  PROVE  s \ {Max(s)} \in SUBSET (1 .. n)
<1>0. PICK k \in Nat : k = n + 1
  OBVIOUS
<1>1. Max(s) \in s /\ \A y \in s : y <= Max(s)
  BY <1>0, MaxFacts
<1>2. ASSUME NEW y \in s, y # Max(s) PROVE y \in 1 .. n
  <2>1. y \in Int /\ 1 <= y /\ y <= Max(s) /\ Max(s) \in Int /\ Max(s) <= n + 1
    <3>1. \A x \in s : x \in 1 .. n + 1
      OBVIOUS
    <3>2. \A x \in 1 .. n + 1 : x \in Int /\ 1 <= x /\ x <= n + 1
      OBVIOUS
    <3>. QED BY <1>1, <3>1, <3>2
  <2>. QED BY ONLY <2>1, <1>2, n \in Nat
<1>. QED BY <1>2

\* The sums exist.
LEMMA GasSumsExist ==
  ASSUME NEW block, NEW k \in Nat
  PROVE  \E h : GasSums(h, block, SUBSET (1 .. k))
<1> DEFINE Bad == {n \in Nat : ~ \E h : GasSums(h, block, SUBSET (1 .. n))}
<1>1. ASSUME NEW m \in Nat, m \in Bad, \A x \in Bad : m <= x PROVE FALSE
  <2>1. CASE m = 0
    <3>1. SUBSET (1 .. 0) = {{}}
      OBVIOUS
    <3>2. GasSums([s \in SUBSET (1 .. 0) |-> 0], block, SUBSET (1 .. 0))
      BY <3>1 DEF GasSums
    <3>. QED BY <3>2, <2>1, <1>1
  <2>2. CASE m # 0
    <3>1. PICK n \in Nat : m = n + 1
      BY <2>2
    <3>2. n \notin Bad
      <4>1. ~(m <= n)
        BY <3>1
      <4>. HIDE DEF Bad
      <4>. QED BY <4>1, <1>1
    <3>3. PICK h : GasSums(h, block, SUBSET (1 .. n))
      BY <3>2
    <3> DEFINE D == SUBSET (1 .. m)
               g == [s \in D |-> IF s = {} THEN 0 ELSE h[s \ {Max(s)}] + block[Max(s)].gas]
    <3>4. \A s \in SUBSET (1 .. n) : s \in D /\ g[s] = h[s]
      <4>1. \A s \in SUBSET (1 .. n) : s \in D
        BY <3>1
      <4>2. \A s \in SUBSET (1 .. n) :
              h[s] = IF s = {} THEN 0 ELSE h[s \ {Max(s)}] + block[Max(s)].gas
        BY <3>3, Zenon DEF GasSums
      <4>. QED BY <4>1, <4>2
    <3>5. \A s \in D : s # {} => s \ {Max(s)} \in SUBSET (1 .. n)
      BY <3>1, WithoutMax
    <3>. HIDE DEF D
    <3>6. \A s \in D : g[s] = IF s = {} THEN 0 ELSE h[s \ {Max(s)}] + block[Max(s)].gas
      OBVIOUS
    <3>7. \A s \in D : s # {} => g[s \ {Max(s)}] = h[s \ {Max(s)}]
      BY <3>4, <3>5
    <3>8. g = [s \in D |-> IF s = {} THEN 0 ELSE g[s \ {Max(s)}] + block[Max(s)].gas]
      <4>1. \A s \in D : (IF s = {} THEN 0 ELSE h[s \ {Max(s)}] + block[Max(s)].gas)
                           = (IF s = {} THEN 0 ELSE g[s \ {Max(s)}] + block[Max(s)].gas)
        BY <3>7
      <4>. QED BY <4>1
    <3>. HIDE DEF g
    <3>9. GasSums(g, block, D)
      BY <3>8 DEF GasSums
    <3>. QED BY <3>9, <1>1 DEF D
  <2>. QED BY <2>1, <2>2
<1>2. Bad = {}
  <2>1. SUFFICES ASSUME Bad # {} PROVE FALSE
    OBVIOUS
  <2>2. Bad \subseteq Nat
    OBVIOUS
  <2>. HIDE DEF Bad
  <2>3. PICK m \in Bad : \A x \in Bad : m <= x
    BY <2>1, <2>2, LeastNumber
  <2>. QED BY <2>2, <2>3, <1>1
<1>. QED BY <1>2

\* The gas of a block's first n transactions, as its sums have it.
LEMMA GasUnfolds ==
  ASSUME NEW S, NEW block \in Seq(S)
  PROVE  \E g : /\ g[0] = 0
                /\ \A n \in 1 .. Len(block) : g[n] = g[n - 1] + block[n].gas
                /\ GasOf(block) = g[Len(block)]
<1> DEFINE N == Len(block)
<1>1. N \in Nat /\ DOMAIN block = 1 .. N
  OBVIOUS
<1>2. PICK h : h = CHOOSE f : GasSums(f, block, SUBSET (1 .. N))
  OBVIOUS
<1>3. GasSums(h, block, SUBSET (1 .. N))
  BY <1>1, <1>2, GasSumsExist
<1>4. GasOf(block) = h[1 .. N]
  BY <1>1, <1>2 DEF GasOf, FoldLeft, MapThenFoldSet, GasSums
<1>. HIDE DEF N
<1>5. \A s \in SUBSET (1 .. N) :
        h[s] = IF s = {} THEN 0 ELSE h[s \ {Max(s)}] + block[Max(s)].gas
  BY <1>3, Zenon DEF GasSums
<1> DEFINE g == [n \in 0 .. N |-> h[1 .. n]]
<1>6. g[0] = 0
  <2>1. 1 .. 0 = {} /\ {} \in SUBSET (1 .. N) /\ 0 \in 0 .. N
    BY <1>1
  <2>2. h[{}] = 0
    BY <2>1, <1>5
  <2>. QED BY <2>1, <2>2
<1>7. ASSUME NEW n \in 1 .. N PROVE g[n] = g[n - 1] + block[n].gas
  <2>1. (1 .. n) \in SUBSET (1 .. N) /\ n \in 1 .. n /\ n \in Nat /\ n \in 0 .. N /\ n - 1 \in 0 .. N
    BY <1>1
  <2>2. Max(1 .. n) = n
    <3>1. Max(1 .. n) \in 1 .. n /\ n <= Max(1 .. n)
      BY <2>1, MaxFacts
    <3>. QED BY <3>1, <2>1
  <2>3. (1 .. n) \ {n} = 1 .. (n - 1)
    BY <2>1
  <2>4. h[1 .. n] = h[1 .. (n - 1)] + block[n].gas
    <3>1. PICK s \in SUBSET (1 .. N) : s = 1 .. n /\ s # {}
      BY <2>1
    <3>2. Max(s) = n /\ s \ {n} = 1 .. (n - 1)
      BY <3>1, <2>2, <2>3
    <3>. QED BY <3>1, <3>2, <1>5
  <2>. QED BY <2>1, <2>4
<1>8. g[N] = h[1 .. N]
  BY <1>1
<1>. HIDE DEF g
<1>. QED BY <1>4, <1>6, <1>7, <1>8 DEF N

\* f starts at 0 and grows by d, up to N.
Grows(f, d, N) == f[0] = 0 /\ \A n \in 1 .. N : f[n] = f[n - 1] + d[n]

\* Functions with the same increments from 0 on agree.
LEMMA SameSums ==
  ASSUME NEW N \in Nat, NEW f, NEW g, NEW d, Grows(f, d, N), Grows(g, d, N)
  PROVE  f[N] = g[N]
<1> DEFINE Bad == {n \in 0 .. N : f[n] # g[n]}
<1>1. Bad = {}
  <2>1. SUFFICES ASSUME Bad # {} PROVE FALSE
    OBVIOUS
  <2>2. Bad \subseteq Nat
    OBVIOUS
  <2>. HIDE DEF Bad
  <2>3. PICK m \in Bad : \A x \in Bad : m <= x
    BY <2>1, <2>2, LeastNumber
  <2>. USE DEF Bad
  <2>4. m # 0 /\ m \in 1 .. N /\ m - 1 \in 0 .. N
    BY DEF Grows
  <2>5. m - 1 \notin Bad
    <3>1. ~(m <= m - 1)
      BY <2>4
    <3>. HIDE DEF Bad
    <3>. QED BY <3>1, <2>3
  <2>. QED BY <2>4, <2>5 DEF Grows
<1>. QED BY <1>1 DEF Grows

\* An empty block has no gas, one of one transaction its gas, and a transaction
\* more adds its own.
LEMMA GasFacts ==
  ASSUME NEW block \in Seq(Tx), NEW tx \in Tx
  PROVE  /\ GasOf(<<>>) = 0
         /\ GasOf(<<tx>>) = 0 + tx.gas
         /\ GasOf(Append(block, tx)) = GasOf(block) + tx.gas
<1>1. GasOf(<<>>) = 0
  <2>0. <<>> \in Seq(Tx) /\ Len(<<>>) = 0
    OBVIOUS
  <2>1. PICK c \in Seq(Tx) : c = <<>> /\ Len(c) = 0
    BY <2>0
  <2>2. PICK g : g[0] = 0 /\ GasOf(c) = g[Len(c)]
    BY GasUnfolds
  <2>. QED BY <2>1, <2>2
<1>2. ASSUME NEW b \in Seq(Tx) PROVE GasOf(Append(b, tx)) = GasOf(b) + tx.gas
  <2>0. Append(b, tx) \in Seq(Tx)
    OBVIOUS
  <2>1. PICK c \in Seq(Tx) : c = Append(b, tx)
    BY <2>0
  <2>2. /\ Len(b) \in Nat /\ Len(c) = Len(b) + 1 /\ c[Len(b) + 1] = tx
        /\ \A n \in 1 .. Len(b) : c[n] = b[n] /\ n \in 1 .. Len(c)
    BY <2>1
  <2>3. PICK g : /\ g[0] = 0 /\ \A n \in 1 .. Len(b) : g[n] = g[n - 1] + b[n].gas
                 /\ GasOf(b) = g[Len(b)]
    BY GasUnfolds
  <2>4. PICK h : /\ h[0] = 0 /\ \A n \in 1 .. Len(c) : h[n] = h[n - 1] + c[n].gas
                 /\ GasOf(c) = h[Len(c)]
    BY GasUnfolds
  <2>5. g[Len(b)] = h[Len(b)]
    <3>1. PICK d : d = [n \in 1 .. Len(b) |-> b[n].gas]
      OBVIOUS
    <3>2. \A n \in 1 .. Len(b) : g[n] = g[n - 1] + d[n] /\ h[n] = h[n - 1] + d[n]
      BY <3>1, <2>2, <2>3, <2>4
    <3>3. PICK N \in Nat : N = Len(b)
      BY <2>2
    <3>4. Grows(g, d, N) /\ Grows(h, d, N)
      BY <3>2, <3>3, <2>3, <2>4 DEF Grows
    <3>5. g[N] = h[N]
      BY ONLY <3>4, N \in Nat, SameSums
    <3>. QED BY <3>3, <3>5
  <2>6. Len(c) \in 1 .. Len(c) /\ Len(c) - 1 = Len(b)
    BY <2>2
  <2>7. h[Len(c)] = h[Len(b)] + tx.gas
    BY <2>2, <2>4, <2>6
  <2>. QED BY <2>1, <2>3, <2>4, <2>5, <2>7
<1>3. <<tx>> = Append(<<>>, tx) /\ <<>> \in Seq(Tx)
  OBVIOUS
<1>4. GasOf(Append(<<>>, tx)) = GasOf(<<>>) + tx.gas
  BY <1>2, <1>3
<1>. QED BY <1>1, <1>2, <1>3, <1>4

\* The gas of a block is a natural number.
LEMMA GasType ==
  ASSUME NEW block \in Seq(Tx)
  PROVE  GasOf(block) \in Nat
<1>1. PICK g : /\ g[0] = 0 /\ \A n \in 1 .. Len(block) : g[n] = g[n - 1] + block[n].gas
               /\ GasOf(block) = g[Len(block)]
  BY GasUnfolds
<1>2. Len(block) \in Nat /\ \A n \in 1 .. Len(block) : block[n].gas \in Nat
  <2>1. \A n \in 1 .. Len(block) : block[n] \in Tx
    BY ElementOfSeq
  <2>2. \A tx \in Tx : tx.gas \in Nat
    BY WriterAssumption DEF Tx
  <2>. QED BY <2>1, <2>2
<1>3. PICK N \in Nat : N = Len(block)
  BY <1>2
<1> DEFINE Bad == {n \in 0 .. N : g[n] \notin Nat}
<1>4. Bad = {}
  <2>1. SUFFICES ASSUME Bad # {} PROVE FALSE
    OBVIOUS
  <2>2. Bad \subseteq Nat
    OBVIOUS
  <2>. HIDE DEF Bad
  <2>3. PICK m \in Bad : \A x \in Bad : m <= x
    BY <2>1, <2>2, LeastNumber
  <2>. USE DEF Bad
  <2>4. m # 0 /\ m \in 1 .. N /\ m - 1 \in 0 .. N
    BY <1>1
  <2>5. m - 1 \notin Bad
    <3>1. ~(m <= m - 1)
      BY <2>4
    <3>. HIDE DEF Bad
    <3>. QED BY <3>1, <2>3
  <2>. QED BY <2>4, <2>5, <1>1, <1>2, <1>3
<1>5. N \in 0 .. N
  OBVIOUS
<1>. QED BY <1>1, <1>3, <1>4, <1>5

-----------------------------------------------------------------------------
(* Sequences joined end to end.                                            *)

\* f holds the joins of the first sequences of b, up to n of them.
Joins(f, b, n) == f = [i \in 1 .. n |-> IF i = 1 THEN b[i] ELSE f[i - 1] \o b[i]]

\* The joins exist.
LEMMA JoinsExist ==
  ASSUME NEW b, NEW k \in Nat
  PROVE  \E f : Joins(f, b, k)
<1> DEFINE Bad == {n \in Nat : ~ \E f : Joins(f, b, n)}
<1>1. ASSUME NEW m \in Nat, m \in Bad, \A x \in Bad : m <= x PROVE FALSE
  <2>1. CASE m = 0
    <3>1. 1 .. 0 = {}
      OBVIOUS
    <3>2. Joins([i \in 1 .. 0 |-> b[i]], b, 0)
      BY <3>1 DEF Joins
    <3>. QED BY <3>2, <2>1, <1>1
  <2>2. CASE m # 0
    <3>1. PICK n \in Nat : m = n + 1
      BY <2>2
    <3>2. n \notin Bad
      <4>1. ~(m <= n)
        BY <3>1
      <4>. HIDE DEF Bad
      <4>. QED BY <4>1, <1>1
    <3>3. PICK f : Joins(f, b, n)
      BY <3>2
    <3> DEFINE g == [i \in 1 .. m |-> IF i = 1 THEN b[i] ELSE f[i - 1] \o b[i]]
    <3>4. \A i \in 1 .. n : f[i] = IF i = 1 THEN b[i] ELSE f[i - 1] \o b[i]
      BY <3>3, Zenon DEF Joins
    <3>5. \A i \in 1 .. n : i \in 1 .. m
      BY <3>1
    <3>6. \A i \in 1 .. n : g[i] = f[i]
      BY <3>4, <3>5
    <3>7. \A i \in 1 .. m : i # 1 => i - 1 \in 1 .. n
      BY <3>1
    <3>8. \A i \in 1 .. m : (IF i = 1 THEN b[i] ELSE f[i - 1] \o b[i])
                              = (IF i = 1 THEN b[i] ELSE g[i - 1] \o b[i])
      BY <3>6, <3>7
    <3>9. g = [i \in 1 .. m |-> IF i = 1 THEN b[i] ELSE g[i - 1] \o b[i]]
      BY <3>8
    <3>. HIDE DEF g
    <3>10. Joins(g, b, m)
      BY <3>9 DEF Joins
    <3>. QED BY <3>10, <1>1
  <2>. QED BY <2>1, <2>2
<1>2. Bad = {}
  <2>1. SUFFICES ASSUME Bad # {} PROVE FALSE
    OBVIOUS
  <2>2. Bad \subseteq Nat
    OBVIOUS
  <2>. HIDE DEF Bad
  <2>3. PICK m \in Bad : \A x \in Bad : m <= x
    BY <2>1, <2>2, LeastNumber
  <2>. QED BY <2>2, <2>3, <1>1
<1>. QED BY <1>2

\* f goes from the first block of b to all of them joined.
JoinsUp(f, b) ==
  \A i \in 1 .. Len(b) : f[i] = IF i = 1 THEN b[i] ELSE f[i - 1] \o b[i]

\* What FlattenSeq is.
LEMMA FlattenUnfolds ==
  ASSUME NEW S, NEW b \in Seq(S), Len(b) # 0
  PROVE  \E f : JoinsUp(f, b) /\ FlattenSeq(b) = f[Len(b)]
<1>1. Len(b) \in Nat
  OBVIOUS
<1>2. PICK f : f = CHOOSE g : Joins(g, b, Len(b))
  OBVIOUS
<1>3. Joins(f, b, Len(b))
  BY <1>1, <1>2, JoinsExist
<1>4. FlattenSeq(b) = f[Len(b)]
  BY <1>2 DEF FlattenSeq, Joins
<1>5. JoinsUp(f, b)
  BY <1>3, Zenon DEF JoinsUp, Joins
<1>. QED BY <1>4, <1>5

\* Blocks of transactions joined are a sequence of transactions, and a block
\* more is joined at the end.
LEMMA FlattenFacts ==
  ASSUME NEW S, NEW b \in Seq(Seq(S)), NEW c \in Seq(Seq(S)), Len(c) = Len(b) + 1,
         \A i \in 1 .. Len(b) : c[i] = b[i]
  PROVE  FlattenSeq(b) \in Seq(S) /\ FlattenSeq(c) = FlattenSeq(b) \o c[Len(c)]
<1>1. /\ Len(b) \in Nat /\ Len(c) \in Nat /\ \A i \in 1 .. Len(b) : b[i] \in Seq(S)
      /\ \A i \in 1 .. Len(c) : c[i] \in Seq(S)
  BY ElementOfSeq
<1>2. PICK N \in Nat : N = Len(b)
  BY <1>1
<1>3. PICK g : JoinsUp(g, c) /\ FlattenSeq(c) = g[Len(c)]
  <2>1. Len(c) # 0
    BY <1>1
  <2>. QED BY ONLY <2>1, c \in Seq(Seq(S)), FlattenUnfolds
<1>4. \A i \in 1 .. N + 1 : g[i] = IF i = 1 THEN c[i] ELSE g[i - 1] \o c[i]
  BY <1>2, <1>3 DEF JoinsUp
<1>5. CASE N = 0
  <2>1. FlattenSeq(b) = <<>>
    BY <1>2, <1>5, EmptySeq DEF FlattenSeq
  <2>2. FlattenSeq(c) = c[1] /\ c[1] \in Seq(S) /\ Len(c) = 1
    BY <1>1, <1>2, <1>3, <1>4, <1>5
  <2>3. PICK w \in Seq(S) : w = c[1]
    BY <2>2
  <2>4. <<>> \o w = w /\ <<>> \in Seq(S)
    OBVIOUS
  <2>. QED BY <2>1, <2>2, <2>3, <2>4
<1>6. CASE N # 0
  <2>1. PICK f : JoinsUp(f, b) /\ FlattenSeq(b) = f[Len(b)]
    BY <1>2, <1>6, FlattenUnfolds
  <2>2. \A i \in 1 .. N : f[i] = IF i = 1 THEN b[i] ELSE f[i - 1] \o b[i]
    BY <1>2, <2>1 DEF JoinsUp
  <2> DEFINE Bad == {i \in 1 .. N : ~(f[i] = g[i] /\ f[i] \in Seq(S))}
  <2>3. Bad = {}
    <3>1. SUFFICES ASSUME Bad # {} PROVE FALSE
      OBVIOUS
    <3>2. Bad \subseteq Nat
      OBVIOUS
    <3>. HIDE DEF Bad
    <3>3. PICK m \in Bad : \A x \in Bad : m <= x
      BY <3>1, <3>2, LeastNumber
    <3>. USE DEF Bad
    <3>4. m \in 1 .. N /\ m \in 1 .. N + 1 /\ m \in Nat
      OBVIOUS
    <3>5. c[m] = b[m] /\ b[m] \in Seq(S)
      BY <3>4, <1>1, <1>2
    <3>6. m # 1
      BY <3>4, <3>5, <2>2, <1>4
    <3>7. m - 1 \in 1 .. N /\ m - 1 \notin Bad
      <4>1. m - 1 \in 1 .. N /\ ~(m <= m - 1)
        BY <3>4, <3>6
      <4>. HIDE DEF Bad
      <4>. QED BY <4>1, <3>3
    <3>8. f[m - 1] = g[m - 1] /\ f[m - 1] \in Seq(S)
      BY <3>7
    <3>9. f[m] = f[m - 1] \o b[m] /\ g[m] = g[m - 1] \o c[m]
      BY <3>4, <3>6, <2>2, <1>4
    <3>10. PICK u \in Seq(S) : u = f[m - 1]
      BY <3>8
    <3>11. PICK v \in Seq(S) : v = b[m]
      BY <3>5
    <3>12. u \o v \in Seq(S)
      OBVIOUS
    <3>13. f[m] = u \o v /\ g[m] = u \o v
      BY <3>5, <3>8, <3>9, <3>10, <3>11
    <3>. QED BY <3>12, <3>13
  <2>4. f[N] = g[N] /\ f[N] \in Seq(S)
    <3>1. N \in 1 .. N
      BY <1>6
    <3>. QED BY <3>1, <2>3
  <2>5. g[N + 1] = g[N] \o c[N + 1]
    <3>1. N + 1 \in 1 .. N + 1 /\ N + 1 # 1 /\ (N + 1) - 1 = N
      BY <1>6
    <3>. QED BY <3>1, <1>4
  <2>. QED BY <2>1, <2>4, <2>5, <1>2, <1>3
<1>. QED BY <1>5, <1>6

\* Joined blocks of transactions are a sequence of transactions.
LEMMA FlattenType ==
  ASSUME NEW S, NEW b \in Seq(Seq(S))
  PROVE  FlattenSeq(b) \in Seq(S)
<1>1. <<>> \in Seq(S) /\ Append(b, <<>>) \in Seq(Seq(S))
  OBVIOUS
<1>2. PICK c \in Seq(Seq(S)) : c = Append(b, <<>>)
  BY <1>1
<1>3. Len(c) = Len(b) + 1 /\ \A i \in 1 .. Len(b) : c[i] = b[i]
  BY <1>1, <1>2
<1>. QED BY <1>3, FlattenFacts

-----------------------------------------------------------------------------
(* The files.                                                              *)

\* The block of each of n heights, of the files f.
OnDisk(f, n) == [i \in 1 .. n |->
  IF StartHeight + i - 1 \in DOMAIN f THEN f[StartHeight + i - 1] ELSE <<>>]

\* f are files of blocks of transactions, of the first n heights.
IsFiles(f, n) ==
  /\ DOMAIN f \subseteq StartHeight .. (StartHeight + n - 1)
  /\ \A h \in DOMAIN f : f[h] \in Seq(Tx)

\* Written is what the files of the heights so far hold.
LEMMA WrittenIs ==
  ASSUME blocksGenerated \in Nat, TypeOK
  PROVE  IsFiles(files, blocksGenerated) /\ Written = FlattenSeq(OnDisk(files, blocksGenerated))
<1>1. /\ nextHeight = StartHeight + blocksGenerated
      /\ DOMAIN files \subseteq StartHeight .. (nextHeight - 1)
      /\ \A h \in DOMAIN files : files[h] \in Seq(Tx)
  BY DEF TypeOK
<1>0. PICK k \in Nat, b \in Nat : k = StartHeight /\ b = blocksGenerated
  BY WriterAssumption
<1>2. nextHeight - StartHeight = blocksGenerated
  <2>1. (k + b) - k = b
    OBVIOUS
  <2>. QED BY <1>0, <1>1, <2>1
<1>3. IsFiles(files, blocksGenerated)
  <2>1. nextHeight - 1 = StartHeight + blocksGenerated - 1
    <3>1. nextHeight = k + b
      BY <1>0, <1>1
    <3>2. nextHeight - 1 = k + b - 1
      BY ONLY <3>1, k \in Nat, b \in Nat
    <3>. QED BY <3>2, <1>0
  <2>2. DOMAIN files \subseteq StartHeight .. (StartHeight + blocksGenerated - 1)
    BY <1>1, <2>1, Zenon
  <2>. QED BY <1>1, <2>2 DEF IsFiles
<1>4. Written = FlattenSeq(OnDisk(files, nextHeight - StartHeight))
  BY DEF Written, OnDisk
<1>. QED BY <1>2, <1>3, <1>4

\* The same after a step, from the counters after it.
LEMMA WrittenNext ==
  ASSUME blocksGenerated' \in Nat, nextHeight' = StartHeight + blocksGenerated'
  PROVE  Written' = FlattenSeq(OnDisk(files', blocksGenerated'))
<1>1. PICK k \in Nat, b \in Nat, f \in {files'} : k = StartHeight /\ b = blocksGenerated' /\ f = files'
  BY WriterAssumption
<1>2. nextHeight' - StartHeight = b
  <2>1. (k + b) - k = b
    OBVIOUS
  <2>. QED BY <1>1, <2>1
<1>3. Written' = FlattenSeq(OnDisk(f, nextHeight' - StartHeight))
  BY <1>1 DEF Written, OnDisk
<1>. QED BY <1>1, <1>2, <1>3

\* The heights of the files after a step, as TypeOK has them.
LEMMA HeightsNext ==
  ASSUME blocksGenerated' \in Nat, nextHeight' = StartHeight + blocksGenerated',
         IsFiles(files', blocksGenerated')
  PROVE  /\ DOMAIN files' \subseteq StartHeight .. (nextHeight' - 1)
         /\ \A h \in DOMAIN files' : files'[h] \in Seq(Tx)
<1>1. PICK k \in Nat, b \in Nat, f \in {files'} : k = StartHeight /\ b = blocksGenerated' /\ f = files'
  BY WriterAssumption
<1>2. nextHeight' - 1 = k + b - 1
  <2>1. nextHeight' = k + b
    BY <1>1
  <2>. QED BY ONLY <2>1, k \in Nat, b \in Nat
<1>3. DOMAIN f \subseteq k .. (k + b - 1) /\ \A h \in DOMAIN f : f[h] \in Seq(Tx)
  BY <1>1 DEF IsFiles
<1>. QED BY <1>1, <1>2, <1>3

\* The blocks of files are sequences of transactions.
LEMMA OnDiskType ==
  ASSUME NEW n \in Nat, NEW f, IsFiles(f, n)
  PROVE  /\ OnDisk(f, n) \in Seq(Seq(Tx)) /\ Len(OnDisk(f, n)) = n
         /\ FlattenSeq(OnDisk(f, n)) \in Seq(Tx)
<1>1. <<>> \in Seq(Tx)
  OBVIOUS
<1>2. PICK b : b = OnDisk(f, n)
  OBVIOUS
<1>3. b = [i \in 1 .. n |-> b[i]] /\ \A i \in 1 .. n : b[i] \in Seq(Tx)
  <2>1. \A i \in 1 .. n : b[i] = IF StartHeight + i - 1 \in DOMAIN f THEN f[StartHeight + i - 1] ELSE <<>>
    BY <1>2 DEF OnDisk
  <2>2. \A i \in 1 .. n : b[i] \in Seq(Tx)
    BY <2>1, <1>1 DEF IsFiles
  <2>3. b = [i \in 1 .. n |-> b[i]]
    BY <1>2 DEF OnDisk
  <2>. QED BY <2>2, <2>3
<1>4. b \in Seq(Seq(Tx)) /\ Len(b) = n
  <2> DEFINE X == Seq(Tx)
  <2>1. \A i \in 1 .. n : b[i] \in X
    BY <1>3
  <2>. HIDE DEF X
  <2>2. b \in [1 .. n -> X]
    BY <2>1, <1>3
  <2>3. b \in Seq(X) /\ Len(b) = n
    BY <2>2
  <2>. QED BY <2>3 DEF X
<1>5. FlattenSeq(b) \in Seq(Tx)
  BY <1>4, FlattenType
<1>. QED BY <1>2, <1>4, <1>5

\* The files g are f for the first n heights, and have block for the next one.
Extended(g, f, n, block) ==
  /\ \A h \in StartHeight .. (StartHeight + n - 1) :
       /\ h \in DOMAIN g <=> h \in DOMAIN f
       /\ h \in DOMAIN f => g[h] = f[h]
  /\ StartHeight + n \in DOMAIN g => block = g[StartHeight + n]
  /\ StartHeight + n \notin DOMAIN g => block = <<>>

\* A height more: what was written stays, and the new height's block follows it.
LEMMA WrittenGrows ==
  ASSUME NEW n \in Nat, NEW f, IsFiles(f, n), NEW g, IsFiles(g, n + 1), NEW block,
         Extended(g, f, n, block)
  PROVE  FlattenSeq(OnDisk(g, n + 1)) = FlattenSeq(OnDisk(f, n)) \o block
<1>1. PICK m \in Nat : m = n + 1
  OBVIOUS
<1>2. PICK b \in Seq(Seq(Tx)) : b = OnDisk(f, n) /\ Len(b) = n
  BY OnDiskType
<1>3. PICK c \in Seq(Seq(Tx)) : c = OnDisk(g, m) /\ Len(c) = m
  BY <1>1, OnDiskType
<1>4. StartHeight \in Nat
  BY WriterAssumption
<1>5. \A i \in 1 .. n : c[i] = b[i]
  <2>1. ASSUME NEW i \in 1 .. n PROVE c[i] = b[i]
    <3>1. PICK h \in StartHeight .. (StartHeight + n - 1) : h = StartHeight + i - 1
      BY <1>4
    <3>2. i \in 1 .. m
      BY <1>1
    <3>3. b[i] = IF h \in DOMAIN f THEN f[h] ELSE <<>>
      BY <1>2, <3>1 DEF OnDisk
    <3>4. c[i] = IF h \in DOMAIN g THEN g[h] ELSE <<>>
      BY <1>3, <3>1, <3>2 DEF OnDisk
    <3>. QED BY <3>3, <3>4 DEF Extended
  <2>. QED BY <2>1
<1>6. c[m] = block
  <2>1. m \in 1 .. m /\ StartHeight + m - 1 = StartHeight + n
    BY <1>1, <1>4
  <2>2. c[m] = IF StartHeight + n \in DOMAIN g THEN g[StartHeight + n] ELSE <<>>
    BY <2>1, <1>3 DEF OnDisk
  <2>. QED BY <2>2 DEF Extended
<1>7. FlattenSeq(c) = FlattenSeq(b) \o c[Len(c)]
  <2>1. Len(c) = Len(b) + 1 /\ \A i \in 1 .. Len(b) : c[i] = b[i]
    BY <1>1, <1>2, <1>3, <1>5
  <2>. QED BY ONLY <2>1, b \in Seq(Seq(Tx)), c \in Seq(Seq(Tx)), FlattenFacts
<1>. QED BY <1>1, <1>2, <1>3, <1>6, <1>7

-----------------------------------------------------------------------------
(* Prefixes and counts.                                                    *)

\* A prefix agrees with the sequence as far as it goes, and the beginning of a
\* join is a prefix of it.
LEMMA PrefixFacts ==
  ASSUME NEW S, NEW w \in Seq(S), NEW s \in Seq(S)
  PROVE  /\ IsPrefix(w, s) => Len(w) <= Len(s) /\ \A i \in 1 .. Len(w) : w[i] = s[i]
         /\ IsPrefix(w, w \o s)
<1>1. Len(w) \in Nat /\ Len(s) \in Nat
  OBVIOUS
<1>2. SubSeq(w, 1, Len(w)) = w
  OBVIOUS
<1>3. ASSUME IsPrefix(w, s)
      PROVE  Len(w) <= Len(s) /\ \A i \in 1 .. Len(w) : w[i] = s[i]
  <2>1. Len(w) <= Len(s) /\ SubSeq(s, 1, Len(w)) = w
    BY <1>2, <1>3 DEF IsPrefix
  <2>2. \A i \in 1 .. Len(w) : SubSeq(s, 1, Len(w))[i] = s[i]
    BY <2>1, <1>1
  <2>. QED BY <2>1, <2>2
<1>4. IsPrefix(w, w \o s)
  <2>0. w \o s \in Seq(S)
    OBVIOUS
  <2>1. PICK v \in Seq(S) : v = w \o s
    BY <2>0
  <2>2. Len(w) <= Len(v) /\ Len(v) \in Nat /\ \A i \in 1 .. Len(w) : v[i] = w[i]
    BY <2>1
  <2>3. PICK u \in Seq(S) : u = SubSeq(v, 1, Len(w))
    BY <2>2
  <2>4. Len(u) = Len(w) /\ \A i \in 1 .. Len(w) : u[i] = w[i]
    BY <2>2, <2>3
  <2>5. u = w
    BY <2>4
  <2>. QED BY <2>1, <2>2, <2>3, <2>5, <1>2 DEF IsPrefix
<1>. QED BY <1>3, <1>4

\* Counts are over finite sets of positions.
LEMMA OfFirstFinite ==
  ASSUME NEW txs, NEW n \in Nat, NEW a
  PROVE  /\ IsFiniteSet({j \in 1 .. n : txs[j].addr = a})
         /\ OfFirst(txs, n, a) \in Nat
<1>1. IsFiniteSet(1 .. n)
  BY FS_Interval
<1>2. IsFiniteSet({j \in 1 .. n : txs[j].addr = a})
  BY <1>1, FS_Subset
<1>. QED BY <1>2, FS_CardinalityType DEF OfFirst

\* The counts of sequences that agree on the positions counted are equal.
LEMMA OfFirstSame ==
  ASSUME NEW n \in Nat, NEW s, NEW t, NEW a, \A j \in 1 .. n : s[j] = t[j]
  PROVE  OfFirst(s, n, a) = OfFirst(t, n, a)
<1>1. {j \in 1 .. n : s[j].addr = a} = {j \in 1 .. n : t[j].addr = a}
  OBVIOUS
<1>. QED BY <1>1 DEF OfFirst

\* A position more counts one for its account, and nothing for the others.
LEMMA OfFirstNext ==
  ASSUME NEW n \in Nat, NEW s, NEW a
  PROVE  OfFirst(s, n + 1, a) = IF s[n + 1].addr = a THEN OfFirst(s, n, a) + 1 ELSE OfFirst(s, n, a)
<1>1. PICK m \in Nat : m = n + 1
  OBVIOUS
<1>2. m \notin 1 .. n /\ 1 .. m = (1 .. n) \cup {m}
  <2>1. ~(m <= n)
    BY <1>1
  <2>. QED BY <2>1, <1>1
<1> DEFINE P == {j \in 1 .. n : s[j].addr = a}
<1>3. IsFiniteSet(P) /\ m \notin P
  <2>1. IsFiniteSet(1 .. n)
    BY FS_Interval
  <2>2. IsFiniteSet(P)
    BY <2>1, FS_Subset
  <2>. QED BY <2>2, <1>2
<1>4. CASE s[m].addr = a
  <2>1. {j \in 1 .. m : s[j].addr = a} = P \cup {m}
    BY <1>2, <1>4
  <2>2. Cardinality(P \cup {m}) = Cardinality(P) + 1
    BY <1>3, FS_AddElement
  <2>. QED BY <2>1, <2>2, <1>1, <1>4 DEF OfFirst
<1>5. CASE s[m].addr # a
  <2>1. {j \in 1 .. m : s[j].addr = a} = P
    BY <1>2, <1>5
  <2>. QED BY <2>1, <1>1, <1>5 DEF OfFirst
<1>. QED BY <1>4, <1>5

-----------------------------------------------------------------------------
(* The steps.                                                              *)

\* The initial states satisfy the invariant.
LEMMA InitWriter == Init => WriterIInv
<1>. SUFFICES ASSUME Init PROVE WriterIInv
  OBVIOUS
<1>1. /\ nextHeight = StartHeight /\ blocksGenerated = 0 /\ bufferGas = 0 /\ txBuffer = <<>>
      /\ nonces = [a \in Addr |-> 0] /\ files = <<>> /\ gen \in {"prewarm", "run"}
      /\ toWarm \subseteq Tracked /\ fresh = Addr \ Tracked /\ sent = <<>>
  BY DEF Init
<1>2. /\ Tracked \subseteq Addr /\ GasPerBlock \in Nat /\ NumBlocks \in Nat /\ StartHeight \in Nat
  BY WriterAssumption
<1>3. <<>> \in Seq(Tx) /\ Len(<<>>) = 0 /\ DOMAIN <<>> = {} /\ <<>> \o <<>> = <<>>
  OBVIOUS
<1>4. GasOf(<<>>) = 0
  <2>1. PICK g : g[0] = 0 /\ GasOf(<<>>) = g[Len(<<>>)]
    BY <1>3, GasUnfolds
  <2>. QED BY <2>1, <1>3
<1>5. TypeOK
  BY <1>1, <1>2, <1>3, <1>4 DEF TypeOK
<1>6. Written = <<>>
  <2>1. Written = FlattenSeq(OnDisk(files, 0))
    BY <1>1, <1>5, WrittenIs
  <2>2. OnDisk(files, 0) = <<>>
    BY DEF OnDisk
  <2>. QED BY <2>1, <2>2, <1>3 DEF FlattenSeq
<1>7. NothingLost
  <2>1. IsPrefix(<<>>, <<>>)
    BY <1>3 DEF IsPrefix
  <2>. QED BY <2>1, <1>1, <1>3, <1>6 DEF NothingLost
<1>8. Numbered
  <2>1. \A a : OfFirst(sent, 0, a) = 0
    <3>1. \A a : {j \in 1 .. 0 : sent[j].addr = a} = {}
      OBVIOUS
    <3>. QED BY <3>1, FS_EmptySet DEF OfFirst
  <2>2. \A a \in Tracked \cup fresh : nonces[a] = 0
    BY <1>1, <1>2
  <2>. QED BY <2>1, <2>2, <1>1, <1>3 DEF Numbered
<1>9. WithinLimits
  BY <1>1, <1>2 DEF WithinLimits
<1>10. BlocksLimited
  <2>1. Cardinality(DOMAIN files) = 0
    BY <1>1, <1>3, FS_EmptySet
  <2>. QED BY <2>1, <1>1, <1>2, <1>3 DEF BlocksLimited, BlocksWithinGas, BlocksBounded
<1>. QED BY <1>1, <1>5, <1>7, <1>8, <1>9, <1>10 DEF WriterIInv

\* What a flush leaves: the buffer's transactions follow what was written, or
\* the new height has no file and the flush failed; within the limits.
LEMMA FlushLeaves ==
  ASSUME WriterIInv, gen # "stopped", FlushOk \/ FlushErr
  PROVE  /\ blocksGenerated' = blocksGenerated + 1
         /\ nextHeight' = StartHeight + blocksGenerated'
         /\ IsFiles(files', blocksGenerated')
         /\ BlocksLimited'
         /\ FlushOk => blocksGenerated' <= NumBlocks
         /\ \/ FlattenSeq(OnDisk(files', blocksGenerated')) = Written \o txBuffer
            \/ (~FlushOk /\ FlattenSeq(OnDisk(files', blocksGenerated')) = Written)
<1> DEFINE n == blocksGenerated
<1>1. /\ n \in Nat /\ nextHeight = StartHeight + n /\ StartHeight \in Nat
      /\ n <= NumBlocks /\ NumBlocks \in Nat /\ GasPerBlock \in Nat
      /\ txBuffer \in Seq(Tx) /\ bufferGas = GasOf(txBuffer)
      /\ bufferGas <= GasPerBlock \/ Len(txBuffer) = 1
      /\ BlocksWithinGas /\ Cardinality(DOMAIN files) <= NumBlocks + 1
  BY WriterAssumption DEF WriterIInv, TypeOK, WithinLimits, BlocksLimited, BlocksBounded
<1>2. IsFiles(files, n) /\ Written = FlattenSeq(OnDisk(files, n)) /\ Written \in Seq(Tx)
  <2>1. IsFiles(files, n) /\ Written = FlattenSeq(OnDisk(files, n))
    BY WrittenIs DEF WriterIInv
  <2>. QED BY <2>1, <1>1, OnDiskType
<1>3. n' = n + 1 /\ nextHeight' = nextHeight + 1
  BY DEF FlushOk, FlushErr, Advance
<1>4. PICK k \in Nat, b \in Nat : k = StartHeight /\ b = n
  BY <1>1
<1>5. nextHeight = k + b /\ nextHeight \in Nat /\ nextHeight' = k + (b + 1)
  BY <1>1, <1>3, <1>4
<1>6. DOMAIN files \subseteq k .. (k + b - 1) /\ \A h \in DOMAIN files : files[h] \in Seq(Tx)
  BY <1>2, <1>4 DEF IsFiles
<1>7. nextHeight \notin DOMAIN files
  <2>1. nextHeight \notin k .. (k + b - 1)
    BY <1>5
  <2>. QED BY <2>1, <1>6
<1>8. IsFiniteSet(DOMAIN files) /\ Cardinality(DOMAIN files) \in Nat /\ Cardinality(DOMAIN files) <= n
  <2>1. IsFiniteSet(k .. (k + b - 1)) /\ Cardinality(k .. (k + b - 1)) = b
    <3>1. k \in Int /\ k + b - 1 \in Int
      OBVIOUS
    <3>2. /\ IsFiniteSet(k .. (k + b - 1))
          /\ Cardinality(k .. (k + b - 1)) = IF k > k + b - 1 THEN 0 ELSE (k + b - 1) - k + 1
      BY <3>1, FS_Interval
    <3>. QED BY <3>2
  <2>. QED BY <2>1, <1>4, <1>6, FS_Subset, FS_CardinalityType
<1>9. CASE WriteFile
  <2>1. PICK f : f = files'
    OBVIOUS
  <2>2. /\ DOMAIN f = DOMAIN files \cup {nextHeight} /\ f[nextHeight] = txBuffer
        /\ \A h \in DOMAIN files : f[h] = files[h]
    BY <1>7, <1>9, <2>1 DEF WriteFile
  <2>3. IsFiles(f, n + 1)
    <3>1. \A h \in k .. (k + b - 1) : h \in k .. (k + (b + 1) - 1)
      OBVIOUS
    <3>2. k + b \in k .. (k + (b + 1) - 1)
      OBVIOUS
    <3>3. DOMAIN f \subseteq k .. (k + (b + 1) - 1)
      BY <3>1, <3>2, <2>2, <1>5, <1>6
    <3>4. \A h \in DOMAIN f : f[h] \in Seq(Tx)
      BY <2>2, <1>1, <1>6
    <3>. QED BY <3>3, <3>4, <1>4 DEF IsFiles
  <2>4. FlattenSeq(OnDisk(f, n + 1)) = FlattenSeq(OnDisk(files, n)) \o txBuffer
    <3>1. PICK g : g = files
      OBVIOUS
    <3>2. \A h \in k .. (k + b - 1) : (h \in DOMAIN f <=> h \in DOMAIN g) /\ (h \in DOMAIN g => f[h] = g[h])
      <4>1. nextHeight \notin k .. (k + b - 1)
        BY <1>5
      <4>. QED BY <4>1, <2>2, <3>1
    <3>3. k + b \in DOMAIN f /\ f[k + b] = txBuffer
      BY <2>2, <1>5
    <3>4. IsFiles(g, b) /\ IsFiles(f, b + 1)
      BY <1>2, <1>4, <2>3, <3>1
    <3>5. Extended(f, g, b, txBuffer)
      BY <3>2, <3>3, <1>4 DEF Extended
    <3>6. FlattenSeq(OnDisk(f, b + 1)) = FlattenSeq(OnDisk(g, b)) \o txBuffer
      BY ONLY <3>4, <3>5, b \in Nat, WrittenGrows
    <3>. QED BY <3>1, <3>6, <1>4
  <2>5. BlocksWithinGas'
    <3>1. \A h \in DOMAIN f : GasOf(f[h]) <= GasPerBlock \/ Len(f[h]) = 1
      BY <2>2, <1>1 DEF BlocksWithinGas
    <3>. QED BY <3>1, <2>1 DEF BlocksWithinGas
  <2>6. BlocksBounded'
    <3>1. Cardinality(DOMAIN f) = Cardinality(DOMAIN files) + 1
      BY <2>2, <1>7, <1>8, FS_AddElement
    <3>2. Cardinality(DOMAIN f) <= NumBlocks + 1
      BY <3>1, <1>1, <1>8
    <3>. QED BY <3>2, <2>1 DEF BlocksBounded
  <2>7. FlushOk => n + 1 <= NumBlocks
    <3>1. FlushOk => ~(n >= NumBlocks)
      BY DEF FlushOk, LimitReached
    <3>. QED BY <3>1, <1>1
  <2>8. BlocksLimited'
    BY <2>5, <2>6 DEF BlocksLimited
  <2>9. nextHeight' = StartHeight + (n + 1)
    BY <1>4, <1>5
  <2>10. FlattenSeq(OnDisk(files', n + 1)) = Written \o txBuffer
    BY <2>1, <2>4, <1>2
  <2>11. IsFiles(files', n + 1)
    BY <2>1, <2>3
  <2>12. blocksGenerated' = n + 1
    BY <1>3
  <2>. QED BY ONLY <2>7, <2>8, <2>9, <2>10, <2>11, <2>12
<1>10. CASE ~WriteFile
  <2>1. files' = files /\ ~FlushOk
    BY <1>10 DEF FlushOk, FlushErr
  <2>2. IsFiles(files, n + 1)
    <3>1. \A h \in k .. (k + b - 1) : h \in k .. (k + (b + 1) - 1)
      OBVIOUS
    <3>. QED BY <3>1, <1>4, <1>6 DEF IsFiles
  <2>3. FlattenSeq(OnDisk(files, n + 1)) = Written
    <3>1. PICK g : g = files
      OBVIOUS
    <3>2. k + b \notin DOMAIN g
      BY <1>5, <1>7, <3>1
    <3>3. IsFiles(g, b) /\ IsFiles(g, b + 1)
      BY <1>2, <1>4, <2>2, <3>1
    <3>4. Extended(g, g, b, <<>>)
      BY <3>2, <1>4 DEF Extended
    <3>7. FlattenSeq(OnDisk(g, b + 1)) = FlattenSeq(OnDisk(g, b)) \o <<>>
      BY ONLY <3>3, <3>4, b \in Nat, WrittenGrows
    <3>5. PICK w \in Seq(Tx) : w = Written
      BY <1>2
    <3>6. w \o <<>> = w
      OBVIOUS
    <3>. QED BY <3>1, <3>5, <3>6, <3>7, <1>2, <1>4
  <2>4. BlocksLimited'
    BY <2>1 DEF WriterIInv, BlocksLimited, BlocksWithinGas, BlocksBounded
  <2>. QED BY <2>1, <2>2, <2>3, <2>4, <1>3, <1>4, <1>5
<1>. QED BY <1>9, <1>10

\* What a transaction more does to the counts: it carries the number of its
\* account's before it, and the account's nonce stays that number.
LEMMA NumberedGrows ==
  ASSUME WriterIInv, NEW a \in Tracked \cup fresh, NEW gas \in Gas,
         nonces' = Counted(TxOf(a, gas)), sent' = Append(sent, TxOf(a, gas)),
         fresh' = fresh \/ fresh' = fresh \ {a}, a \in Tracked \/ fresh' = fresh \ {a}
  PROVE  TxOf(a, gas) \in Tx /\ nonces' \in [Addr -> Nat] /\ Numbered'
<1>1. /\ Tracked \subseteq Addr /\ fresh \subseteq Addr \ Tracked /\ nonces \in [Addr -> Nat]
      /\ sent \in Seq(Tx)
      /\ \A i \in 1 .. Len(sent) : sent[i].nonce = OfFirst(sent, i - 1, sent[i].addr)
      /\ \A b \in Tracked \cup fresh : nonces[b] = OfFirst(sent, Len(sent), b)
  BY WriterAssumption DEF WriterIInv, TypeOK, Numbered
<1>2. a \in Addr /\ nonces[a] \in Nat
  BY <1>1
<1>3. PICK tx \in Tx : tx = TxOf(a, gas) /\ tx.addr = a /\ tx.nonce = nonces[a]
  BY <1>2 DEF TxOf, Tx
<1>4. nonces' = IF a \in Tracked THEN [nonces EXCEPT ![a] = @ + 1] ELSE nonces
  BY <1>3 DEF Counted
<1>5. nonces' \in [Addr -> Nat]
  BY <1>1, <1>2, <1>4
<1>6. PICK n \in Nat : n = Len(sent)
  BY <1>1
<1>7. Append(sent, tx) \in Seq(Tx)
  BY <1>1
<1>8. PICK s \in Seq(Tx) : s = Append(sent, tx)
  BY <1>7
<1>9. Len(s) = n + 1 /\ s[n + 1] = tx /\ \A i \in 1 .. n : s[i] = sent[i]
  BY <1>1, <1>6, <1>8
<1>10. \A m \in 0 .. n : \A b : OfFirst(s, m, b) = OfFirst(sent, m, b)
  <2>1. ASSUME NEW m \in 0 .. n, NEW b PROVE OfFirst(s, m, b) = OfFirst(sent, m, b)
    <3>1. m \in Nat /\ \A j \in 1 .. m : s[j] = sent[j]
      BY <1>9
    <3>. QED BY <3>1, OfFirstSame
  <2>. QED BY <2>1
<1>11. ASSUME NEW i \in 1 .. n + 1 PROVE s[i].nonce = OfFirst(s, i - 1, s[i].addr)
  <2>1. CASE i = n + 1
    <3>1. n \in 0 .. n /\ i - 1 = n
      BY <2>1
    <3>2. nonces[a] = OfFirst(sent, n, a)
      BY <1>1, <1>6
    <3>. QED BY <3>1, <3>2, <2>1, <1>3, <1>9, <1>10
  <2>2. CASE i # n + 1
    <3>1. i \in 1 .. n /\ i - 1 \in 0 .. n
      BY <2>2
    <3>2. sent[i].nonce = OfFirst(sent, i - 1, sent[i].addr)
      BY <3>1, <1>1, <1>6
    <3>. QED BY <3>1, <3>2, <1>9, <1>10
  <2>. QED BY <2>1, <2>2
<1>12. ASSUME NEW b \in Tracked \cup fresh' PROVE nonces'[b] = OfFirst(s, n + 1, b)
  <2>1. OfFirst(s, n + 1, b) = IF s[n + 1].addr = b THEN OfFirst(s, n, b) + 1 ELSE OfFirst(s, n, b)
    BY OfFirstNext
  <2>2. b \in Tracked \cup fresh /\ b \in Addr /\ n \in 0 .. n
    BY <1>1
  <2>3. nonces[b] = OfFirst(sent, n, b)
    BY <2>2, <1>1, <1>6
  <2>4. OfFirst(s, n, b) = nonces[b]
    BY <2>2, <2>3, <1>10
  <2>5. CASE b = a
    <3>1. a \in Tracked
      BY <2>5
    <3>2. nonces'[b] = nonces[b] + 1
      BY <3>1, <2>5, <1>1, <1>2, <1>4
    <3>. QED BY <3>2, <2>1, <2>4, <2>5, <1>3, <1>9
  <2>6. CASE b # a
    <3>1. nonces'[b] = nonces[b]
      BY <2>2, <2>6, <1>1, <1>4
    <3>. QED BY <3>1, <2>1, <2>4, <2>6, <1>3, <1>9
  <2>. QED BY <2>5, <2>6
<1>13. Numbered'
  <2>1. sent' = s
    BY <1>3, <1>8
  <2>2. \A i \in 1 .. Len(s) : s[i].nonce = OfFirst(s, i - 1, s[i].addr)
    BY <1>9, <1>11
  <2>3. \A b \in Tracked \cup fresh' : nonces'[b] = OfFirst(s, Len(s), b)
    BY <1>9, <1>12
  <2>. QED BY <2>1, <2>2, <2>3 DEF Numbered
<1>. QED BY <1>3, <1>5, <1>13

\* A step that leaves the writer alone, but may end the generator, keeps the
\* invariant.
LEMMA QuietKeeps ==
  ASSUME WriterIInv, UNCHANGED <<writerVars, fresh, sent>>,
         toWarm' \subseteq Tracked,
         gen' \in {"prewarm", "run", "stopped"}, gen = "stopped" => gen' = "stopped"
  PROVE  WriterIInv'
<1>1. /\ UNCHANGED <<nextHeight, blocksGenerated, bufferGas, txBuffer, nonces, files>>
      /\ UNCHANGED <<fresh, sent>>
  BY DEF writerVars
<1>2. Written' = Written
  BY <1>1 DEF Written
<1>3. TypeOK'
  BY <1>1 DEF WriterIInv, TypeOK
<1>4. NothingLost'
  BY <1>1, <1>2 DEF WriterIInv, NothingLost
<1>5. Numbered'
  BY <1>1 DEF WriterIInv, Numbered
<1>6. WithinLimits'
  BY <1>1 DEF WriterIInv, WithinLimits
<1>7. BlocksLimited'
  BY <1>1 DEF WriterIInv, BlocksLimited, BlocksWithinGas, BlocksBounded
<1>. QED BY <1>1, <1>3, <1>4, <1>5, <1>6, <1>7 DEF WriterIInv

\* Send took a transaction.
LEMMA SendOkKeeps ==
  ASSUME WriterIInv, gen # "stopped", NEW a \in Tracked \cup fresh, NEW gas \in Gas,
         SendOk(TxOf(a, gas)), gen' = gen, toWarm' \subseteq Tracked,
         fresh' = fresh \/ fresh' = fresh \ {a}, a \in Tracked \/ fresh' = fresh \ {a}
  PROVE  WriterIInv'
<1>1. nonces' = Counted(TxOf(a, gas)) /\ sent' = Append(sent, TxOf(a, gas))
  BY DEF SendOk
<1>2. TxOf(a, gas) \in Tx /\ nonces' \in [Addr -> Nat] /\ Numbered'
  BY <1>1, NumberedGrows
<1>3. PICK tx \in Tx : tx = TxOf(a, gas)
  BY <1>2
<1>4. tx.gas \in Nat /\ sent' = Append(sent, tx) /\ sent \in Seq(Tx)
  BY <1>1, <1>3, WriterAssumption DEF Tx, WriterIInv, Numbered
<1>5. /\ blocksGenerated \in Nat /\ TypeOK /\ txBuffer \in Seq(Tx) /\ bufferGas = GasOf(txBuffer)
      /\ nextHeight = StartHeight + blocksGenerated
      /\ fresh \subseteq Addr \ Tracked /\ gen \in {"prewarm", "run", "stopped"}
      /\ Written \o txBuffer = sent /\ GasPerBlock \in Nat
      /\ blocksGenerated <= NumBlocks /\ BlocksLimited
  BY WriterAssumption DEF WriterIInv, TypeOK, NothingLost, WithinLimits
<1>6. Written = FlattenSeq(OnDisk(files, blocksGenerated)) /\ Written \in Seq(Tx)
      /\ IsFiles(files, blocksGenerated)
  <2>1. IsFiles(files, blocksGenerated) /\ Written = FlattenSeq(OnDisk(files, blocksGenerated))
    BY <1>5, WrittenIs
  <2>. QED BY <2>1, <1>5, OnDiskType
<1>7. fresh' \subseteq Addr \ Tracked
  BY <1>5
<1>8. PICK w \in Seq(Tx) : w = Written
  BY <1>6
<1>9. CASE ~Overflows(tx)
  <2>1. /\ txBuffer' = Append(txBuffer, tx) /\ bufferGas' = bufferGas + tx.gas
        /\ UNCHANGED <<nextHeight, blocksGenerated, files>> /\ ~(bufferGas + tx.gas > GasPerBlock)
    BY <1>3, <1>9 DEF SendOk, Overflows
  <2>2. Written' = w
    BY <2>1, <1>8 DEF Written
  <2>3. PICK b \in Seq(Tx) : b = txBuffer
    BY <1>5
  <2>4. /\ GasOf(Append(b, tx)) = GasOf(b) + tx.gas /\ Append(b, tx) \in Seq(Tx)
        /\ w \o Append(b, tx) = Append(w \o b, tx)
    <3>1. GasOf(Append(b, tx)) = GasOf(b) + tx.gas
      BY GasFacts
    <3>2. Append(b, tx) \in Seq(Tx) /\ w \o Append(b, tx) = Append(w \o b, tx)
      OBVIOUS
    <3>. QED BY <3>1, <3>2
  <2>5. txBuffer' \in Seq(Tx) /\ bufferGas' = GasOf(txBuffer')
    <3>1. bufferGas' = GasOf(b) + tx.gas /\ txBuffer' = Append(b, tx)
      BY <2>1, <2>3, <1>5
    <3>2. PICK c : c = txBuffer'
      OBVIOUS
    <3>3. c \in Seq(Tx) /\ bufferGas' = GasOf(c)
      BY <3>1, <3>2, <2>4
    <3>. QED BY <3>2, <3>3
  <2>6. TypeOK'
    BY <2>1, <2>5, <1>2, <1>5, <1>7 DEF TypeOK
  <2>7. Written' \o txBuffer' = sent'
    BY <2>1, <2>2, <2>3, <2>4, <1>4, <1>5, <1>8
  <2>8. IsPrefix(w, w \o Append(b, tx))
    BY <2>4, PrefixFacts
  <2>9. NothingLost'
    <3>1. w \o Append(b, tx) = sent'
      BY <2>1, <2>2, <2>3, <2>7
    <3>2. PICK v : v = sent'
      OBVIOUS
    <3>3. IsPrefix(w, v)
      BY <3>1, <3>2, <2>8
    <3>. QED BY <3>2, <3>3, <2>2, <2>7 DEF NothingLost
  <2>10. WithinLimits'
    <3>1. bufferGas + tx.gas <= GasPerBlock
      <4>1. PICK x \in Nat : x = GasPerBlock
        BY <1>5
      <4>2. bufferGas + tx.gas \in Int
        BY <2>3, <1>4, <1>5, GasType
      <4>. QED BY <4>1, <4>2, <2>1
    <3>. QED BY <3>1, <2>1, <1>5 DEF WithinLimits
  <2>11. BlocksLimited'
    BY <2>1, <1>5 DEF BlocksLimited, BlocksWithinGas, BlocksBounded
  <2>. QED BY <2>1, <2>6, <2>9, <2>10, <2>11, <1>2, <1>5 DEF WriterIInv
<1>10. CASE Overflows(tx)
  <2>1. FlushOk /\ txBuffer' = <<tx>> /\ bufferGas' = tx.gas
    BY <1>3, <1>10 DEF SendOk
  <2>2. /\ blocksGenerated' = blocksGenerated + 1
        /\ nextHeight' = StartHeight + blocksGenerated'
        /\ IsFiles(files', blocksGenerated')
        /\ BlocksLimited' /\ blocksGenerated' <= NumBlocks
        /\ FlattenSeq(OnDisk(files', blocksGenerated')) = Written \o txBuffer
    BY <2>1, FlushLeaves
  <2>3. <<tx>> \in Seq(Tx) /\ Len(<<tx>>) = 1
    OBVIOUS
  <2>4. GasOf(<<tx>>) = tx.gas
    <3>1. GasOf(<<tx>>) = 0 + tx.gas
      BY <1>5, GasFacts
    <3>. QED BY <3>1, <1>4
  <2>6. blocksGenerated' \in Nat
    BY <2>2, <1>5
  <2>5. TypeOK'
    <3>0. PICK c : c = txBuffer'
      OBVIOUS
    <3>3. c \in Seq(Tx) /\ bufferGas' = GasOf(c)
      BY <3>0, <2>1, <2>3, <2>4
    <3>1. txBuffer' \in Seq(Tx) /\ bufferGas' = GasOf(txBuffer')
      BY <3>0, <3>3
    <3>2. DOMAIN files' \subseteq StartHeight .. (nextHeight' - 1) /\ \A h \in DOMAIN files' : files'[h] \in Seq(Tx)
      BY <2>2, <2>6, HeightsNext
    <3>. QED BY <3>1, <3>2, <2>2, <1>2, <1>5, <1>7 DEF TypeOK
  <2>7. Written' = sent
    <3>1. Written' = FlattenSeq(OnDisk(files', blocksGenerated'))
      BY <2>2, <2>6, WrittenNext
    <3>. QED BY <3>1, <2>2, <1>5
  <2>8. NothingLost'
    <3>1. PICK s \in Seq(Tx) : s = sent
      BY <1>4
    <3>0. PICK t \in Seq(Tx) : t = <<tx>>
      BY <2>3
    <3>6. s \o <<tx>> = Append(s, tx)
      OBVIOUS
    <3>7. IsPrefix(s, s \o t)
      BY PrefixFacts
    <3>2. s \o <<tx>> = Append(s, tx) /\ IsPrefix(s, s \o <<tx>>)
      BY <3>0, <3>6, <3>7
    <3>3. PICK v : v = sent'
      OBVIOUS
    <3>4. v = s \o <<tx>> /\ IsPrefix(s, v)
      BY <3>1, <3>2, <3>3, <1>4
    <3>5. Written' = s /\ txBuffer' = <<tx>>
      BY <3>1, <2>1, <2>7
    <3>. QED BY <3>3, <3>4, <3>5 DEF NothingLost
  <2>9. WithinLimits'
    BY <2>1, <2>2, <2>3 DEF WithinLimits
  <2>. QED BY <2>2, <2>5, <2>6, <2>8, <2>9, <1>2 DEF WriterIInv
<1>. QED BY <1>9, <1>10

\* A flush that is not followed by a transaction: Flush's own, or the failed one
\* of a Send that ends the generator.
LEMMA FlushKeeps ==
  ASSUME WriterIInv, gen # "stopped", FlushOk \/ FlushErr,
         txBuffer' = <<>>, bufferGas' = 0, UNCHANGED <<nonces, sent>>,
         toWarm' \subseteq Tracked, fresh' \subseteq fresh,
         gen' \in {"prewarm", "run", "stopped"}, FlushOk \/ gen' = "stopped"
  PROVE  WriterIInv'
<1>1. /\ blocksGenerated \in Nat /\ TypeOK /\ txBuffer \in Seq(Tx) /\ sent \in Seq(Tx)
      /\ nonces \in [Addr -> Nat] /\ fresh \subseteq Addr \ Tracked
      /\ Written \o txBuffer = sent /\ GasPerBlock \in Nat /\ IsPrefix(Written, sent)
  BY WriterAssumption DEF WriterIInv, TypeOK, NothingLost, Numbered
<1>2. /\ blocksGenerated' = blocksGenerated + 1
      /\ nextHeight' = StartHeight + blocksGenerated'
      /\ IsFiles(files', blocksGenerated')
      /\ BlocksLimited' /\ (FlushOk => blocksGenerated' <= NumBlocks)
      /\ \/ FlattenSeq(OnDisk(files', blocksGenerated')) = Written \o txBuffer
         \/ (~FlushOk /\ FlattenSeq(OnDisk(files', blocksGenerated')) = Written)
  BY FlushLeaves
<1>3. <<>> \in Seq(Tx) /\ GasOf(<<>>) = 0
  <2>1. <<>> \in Seq(Tx) /\ Len(<<>>) = 0
    OBVIOUS
  <2>2. PICK g : g[0] = 0 /\ GasOf(<<>>) = g[Len(<<>>)]
    BY <2>1, GasUnfolds
  <2>. QED BY <2>1, <2>2
<1>5. blocksGenerated' \in Nat
  BY <1>1, <1>2
<1>4. TypeOK'
  <2>0. PICK c : c = txBuffer'
    OBVIOUS
  <2>3. c \in Seq(Tx) /\ bufferGas' = GasOf(c)
    BY <2>0, <1>3
  <2>1. txBuffer' \in Seq(Tx) /\ bufferGas' = GasOf(txBuffer')
    BY <2>0, <2>3
  <2>2. DOMAIN files' \subseteq StartHeight .. (nextHeight' - 1) /\ \A h \in DOMAIN files' : files'[h] \in Seq(Tx)
    BY <1>2, <1>5, HeightsNext
  <2>. QED BY <2>1, <2>2, <1>1, <1>2 DEF TypeOK
<1>6. Written' = FlattenSeq(OnDisk(files', blocksGenerated'))
  BY <1>2, <1>5, WrittenNext
<1>7. Written' = sent \/ (Written' = Written /\ ~FlushOk)
  BY <1>1, <1>2, <1>6
<1>8. NothingLost'
  <2>1. PICK s \in Seq(Tx) : s = sent
    BY <1>1
  <2>2. s \o <<>> = s /\ IsPrefix(s, s)
    BY DEF IsPrefix
  <2>3. PICK w : w = Written'
    OBVIOUS
  <2>4. IsPrefix(w, s)
    BY <2>1, <2>2, <2>3, <1>1, <1>7
  <2>5. gen' # "stopped" => w \o <<>> = s
    BY <2>1, <2>2, <2>3, <1>7
  <2>. QED BY <2>1, <2>3, <2>4, <2>5 DEF NothingLost
<1>9. Numbered'
  BY DEF WriterIInv, Numbered
<1>10. WithinLimits'
  BY <1>1, <1>2 DEF WithinLimits
<1>. QED BY <1>2, <1>4, <1>5, <1>8, <1>9, <1>10 DEF WriterIInv

\* Every step keeps the invariant.
LEMMA NextWriter == WriterIInv /\ [Next]_vars => WriterIInv'
<1>. SUFFICES ASSUME WriterIInv, [Next]_vars PROVE WriterIInv'
  OBVIOUS
<1>1. /\ toWarm \subseteq Tracked /\ fresh \subseteq Addr \ Tracked
      /\ gen \in {"prewarm", "run", "stopped"} /\ Tracked \subseteq Addr
  BY WriterAssumption DEF WriterIInv, TypeOK
<1>2. ASSUME NEW a \in Tracked \cup fresh, NEW gas \in Gas, Generate(a, gas), gen # "stopped",
             toWarm' \subseteq Tracked,
             fresh' = fresh \/ fresh' = fresh \ {a}, a \in Tracked \/ fresh' = fresh \ {a}
      PROVE  WriterIInv'
  <2>1. CASE SendOk(TxOf(a, gas)) /\ UNCHANGED gen
    BY <1>2, <2>1, SendOkKeeps
  <2>2. CASE SendErr(TxOf(a, gas)) /\ gen' = "stopped"
    <3>1. FlushErr /\ txBuffer' = <<>> /\ bufferGas' = 0 /\ UNCHANGED <<nonces, sent>>
      BY <2>2 DEF SendErr
    <3>2. fresh' \subseteq fresh
      BY <1>2
    <3>. QED BY <3>1, <3>2, <1>2, <2>2, FlushKeeps
  <2>. QED BY <2>1, <2>2, <1>2 DEF Generate
<1>3. ASSUME NEW a \in Addr, NEW gas \in Gas, GenPrewarm(a, gas) PROVE WriterIInv'
  <2>1. /\ gen = "prewarm" /\ a \in toWarm /\ toWarm' = toWarm \ {a}
        /\ Generate(a, gas) /\ fresh' = fresh
    BY <1>3 DEF GenPrewarm
  <2>2. a \in Tracked /\ toWarm' \subseteq Tracked
    BY <2>1, <1>1
  <2>. QED BY <2>1, <2>2, <1>2
<1>4. ASSUME NEW a \in Addr, NEW gas \in Gas, GenNext(a, gas) PROVE WriterIInv'
  <2>1. /\ gen = "run" /\ a \in Tracked \cup fresh /\ fresh' = fresh \ {a}
        /\ Generate(a, gas) /\ toWarm' = toWarm
    BY <1>4 DEF GenNext
  <2>. QED BY <2>1, <1>1, <1>2
<1>5. CASE GenWarmed
  <2>1. PICK flushed \in {1, 2} :
          /\ gen = "prewarm" /\ UNCHANGED <<toWarm, fresh>>
          /\ \/ flushed = 1 /\ FlushOk /\ gen' = "run"
             \/ flushed = 2 /\ FlushErr /\ gen' = "stopped"
          /\ txBuffer' = <<>> /\ bufferGas' = 0 /\ UNCHANGED <<nonces, sent>>
    BY <1>5 DEF GenWarmed, Flush
  <2>. QED BY <2>1, <1>1, FlushKeeps
<1>6. CASE GenStop
  BY <1>1, <1>6, QuietKeeps DEF GenStop
<1>7. CASE Over \/ UNCHANGED vars
  BY <1>1, <1>7, QuietKeeps DEF Over, vars
<1>. QED BY <1>3, <1>4, <1>5, <1>6, <1>7 DEF Next

\* The inductive invariant holds in every reachable state.
THEOREM WriterInvariant == Spec => []WriterIInv
<1>. QED BY InitWriter, NextWriter, PTL DEF Spec

\* While the generator runs, the files and the buffer together are what Send took,
\* in order; after an error the files still are a beginning of it.
THEOREM WriterCorrect == Spec => []WriterInv
<1>1. WriterIInv => WriterInv
  BY DEF WriterIInv, WriterInv
<1>. QED BY <1>1, WriterInvariant, PTL

\* The files can be replayed: each transaction's nonce counts its account's
\* transactions before it.
THEOREM WriterReplays == Spec => []Replayable
<1>1. ASSUME WriterIInv PROVE Replayable
  <2>1. PICK w \in Seq(Tx) : w = Written
    <3>1. blocksGenerated \in Nat /\ TypeOK
      BY <1>1 DEF WriterIInv
    <3>2. IsFiles(files, blocksGenerated) /\ Written = FlattenSeq(OnDisk(files, blocksGenerated))
      BY <3>1, WrittenIs
    <3>. QED BY <3>1, <3>2, OnDiskType
  <2>2. PICK s \in Seq(Tx) : s = sent
    BY <1>1 DEF WriterIInv, Numbered
  <2>3. \A i \in 1 .. Len(s) : s[i].nonce = OfFirst(s, i - 1, s[i].addr)
    BY <1>1, <2>2 DEF WriterIInv, Numbered
  <2>4. IsPrefix(w, s)
    BY <1>1, <2>1, <2>2 DEF WriterIInv, NothingLost
  <2>5. Len(w) <= Len(s) /\ \A i \in 1 .. Len(w) : w[i] = s[i]
    BY <2>4, PrefixFacts
  <2>6. ASSUME NEW i \in 1 .. Len(w) PROVE w[i].nonce = OfFirst(w, i - 1, w[i].addr)
    <3>1. Len(w) \in Nat /\ Len(s) \in Nat
      OBVIOUS
    <3>2. i \in 1 .. Len(s) /\ i - 1 \in Nat /\ \A j \in 1 .. i - 1 : j \in 1 .. Len(w)
      BY <3>1, <2>5
    <3>3. OfFirst(w, i - 1, w[i].addr) = OfFirst(s, i - 1, w[i].addr)
      BY <3>2, <2>5, OfFirstSame
    <3>. QED BY <3>2, <3>3, <2>3, <2>5
  <2>. QED BY <2>1, <2>6 DEF Replayable
<1>. QED BY <1>1, WriterInvariant, PTL

\* A block exceeds the gas limit only if it is one transaction, and the writer
\* stops one block after the limit at the latest.
THEOREM WriterWithinLimits == Spec => []BlocksLimited
<1>1. WriterIInv => BlocksLimited
  BY DEF WriterIInv
<1>. QED BY <1>1, WriterInvariant, PTL
=============================================================================
