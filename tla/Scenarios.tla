----------------------------- MODULE Scenarios -----------------------------
(***************************************************************************)
(* generator/scenarios: the transaction each scenario builds, what it draws *)
(* for it (distribution.go, gas.go, operation.go), and what the chain makes *)
(* of it, as far as its fields and the contract's code (generator/contracts)*)
(* decide.  Nothing here has a state: Workload says when a scenario is asked.*)
(*                                                                           *)
(* Fees are in gwei.  Operation weights and the gas a picker returns are     *)
(* words of Word values, as uint64 is.  A nil pointer of the configuration   *)
(* is {}, a set one {value}.                                                 *)
(***************************************************************************)
\* An operator Op_Variant is a faulty variant of Op: the properties are tested
\* against it, no specification uses it.
EXTENDS Integers, Sequences, FiniteSets, SequencesExt

CONSTANT Word  \* 2^64 in the code: operation weights and picked gas are of this width

-----------------------------------------------------------------------------
(* The draws.                                                              *)

\* StorageRWOperations in draw order; no other scenario has operations.
Ops == <<"rmw", "read", "write">>

\* The running totals of a mix along Ops, as uint64.
Totals(mix) ==
  LET T[i \in 0 .. Len(Ops)] ==
        IF i = 0 THEN 0
        ELSE (T[i - 1] + (IF Ops[i] \in DOMAIN mix THEN mix[Ops[i]] ELSE 0)) % Word
  IN T
Total(mix) == Totals(mix)[Len(Ops)]
\* Some running total wrapped: in one order of the names if in any.
Wraps(mix) == \E i \in DOMAIN Ops : Totals(mix)[i] < Totals(mix)[i - 1]

\* Picker.Select for the draw u: the first running total above u.
Select(mix, u) == Ops[CHOOSE i \in DOMAIN Ops : u < Totals(mix)[i] /\ \A j \in 1 .. i - 1 : Totals(mix)[j] <= u]
PickOperation(s) ==
  IF s.operations = {} THEN {Ops[1]}
  ELSE UNION {{Select(mix, u) : u \in 0 .. Total(mix) - 1} : mix \in s.operations}

\* ZipfianDistribution: the two lowest indices have branches of their own, the
\* first one taken for a single record; n stands for a sum that rounds up.
Clamp(i, n) == IF i >= n THEN n - 1 ELSE i
Zipfian(n) == {0} \cup (IF n = 1 THEN {} ELSE {1} \cup {Clamp(i, n) : i \in 0 .. n})

\* The names UnmarshalJSON takes.
Distributions == {"uniform", "zipfian", ""}
GasPickers == {"random", "fixed", ""}

\* SampleIndex; a Distribution without a name always draws 0.
SampleIndex(d, n) ==
  CASE d = "uniform" -> 0 .. n - 1 [] d = "zipfian" -> Zipfian(n) [] d = "" -> {0}

PickSlot(s) == IF s.recordCount = 0 THEN {0} ELSE UNION {SampleIndex(d, s.recordCount) : d \in s.keyDistribution}
PickPad(s) ==
  IF s.sizeBuckets = <<>> THEN {0}
  ELSE {s.sizeBuckets[i + 1] : i \in UNION {SampleIndex(d, Len(s.sizeBuckets)) : d \in s.sizeDistribution}}

\* GenerateGas; a random range is refused when it is empty, and the width of
\* the full one wraps to 0, which Uint64N panics on.
EmptyRange(g) == g.name = "random" /\ g.min >= g.max
FullRange(g) == g.name = "random" /\ g.min < g.max /\ (g.max - g.min + 1) % Word = 0
GenerateGas(g) ==
  CASE g.name = "random" -> {g.min + u : u \in 0 .. g.max - g.min}
    [] g.name = "fixed" -> {g.min}
    [] g.name = "" -> {0}

\* The int64 a picked fee is converted to.
Int64(v) == IF 2 * v >= Word THEN v - Word ELSE v

-----------------------------------------------------------------------------
(* The scenarios.  Each is a type with a name; what one differs in is whether *)
(* it has a contract (DeployContract, GetBindFunc, SetContract and Attach; a *)
(* transfer deploys and attaches nothing), the Operation it names, and what  *)
(* its CreateTransaction or CreateContractTransaction sets before the draws. *)

\* The values of a transfer: seconds since the epoch, in wei; 10^12 wei.
now == 1
fast == 1000

EVMTransfer ==
  [contract |-> FALSE, op |-> "transfer", to |-> "receiver", value |-> now, gas |-> 21000, tip |-> 2, cap |-> 200]
EVMTransferFast ==
  [contract |-> FALSE, op |-> "transfer", to |-> "receiver", value |-> fast, gas |-> 21000, tip |-> 0, cap |-> 200]
EVMTransferNoop ==
  [contract |-> FALSE, op |-> "self_transfer", to |-> "sender", value |-> 0, gas |-> 21000, tip |-> 2, cap |-> 20]

\* A call of a contract, with CreateTransactionOpts but for the gas limit.
txGasLimit == 200000
Call(op, gas) ==
  [contract |-> TRUE, op |-> op, to |-> "contract", value |-> 0, gas |-> gas, tip |-> 2, cap |-> 20]

ERC20 == Call("erc20_transfer", 72156)
ERC20Conflict == Call("erc20_transfer", 22460)
ERC20Noop == Call("erc20_transfer", 22460)
ERC721 == Call("erc721_mint", 22460)
Disperse == Call("disperse_ether", txGasLimit)
StorageRW == Call(Ops[1], txGasLimit)

scenarioFactories ==
  [evmtransfer |-> EVMTransfer, evmtransferfast |-> EVMTransferFast, evmtransfernoop |-> EVMTransferNoop,
   disperse |-> Disperse, erc20conflict |-> ERC20Conflict, erc20noop |-> ERC20Noop, erc20 |-> ERC20,
   erc721 |-> ERC721, storagerw |-> StorageRW]
Kinds == DOMAIN scenarioFactories
Contracts == {kind \in Kinds : scenarioFactories[kind].contract}
Transfers == Kinds \ Contracts

-----------------------------------------------------------------------------
(* The transactions.                                                       *)

\* The pickers of a transfer, in the order they are asked.
Pickers(s) == IF s.kind \in Transfers THEN <<s.gas, s.tip, s.cap>> ELSE <<>>
Picked(picker, default) == IF picker = {} THEN {default} ELSE UNION {GenerateGas(g) : g \in picker}
PickedFee(picker, default) == IF picker = {} THEN {default} ELSE {Int64(v) : v \in Picked(picker, 0)}
WithFees(tx, gas, tip, cap) == [tx EXCEPT !.gas = gas, !.tip = tip, !.cap = cap]
PickFees(s, tx) ==
  {WithFees(tx, gas, tip, cap) :
     gas \in Picked(s.gas, tx.gas), tip \in PickedFee(s.tip, tx.tip), cap \in PickedFee(s.cap, tx.cap)}

\* The first picker that has no value to give decides how the turn ends.
FirstBad(s) ==
  LET bad == {i \in DOMAIN Pickers(s) : \E g \in Pickers(s)[i] : EmptyRange(g) \/ FullRange(g)}
  IN UNION {Pickers(s)[i] : i \in {j \in bad : \A k \in bad : j <= k}}
PickerFails(s) == \E g \in FirstBad(s) : EmptyRange(g)
PickerPanics(s) == \E g \in FirstBad(s) : FullRange(g)

\* The pad on the wire, in whole words, and the gas limit that pays for it.
Padded(pad) == ((pad + 31) \div 32) * 32
storageRWBaseGas == 50000
GasLimit_OldRate(pad) == storageRWBaseGas + Padded(pad) * 4
GasLimit(pad) == storageRWBaseGas + Padded(pad) * 10
WithDraws(tx, slot, pad, op) == [tx EXCEPT !.op = op, !.gas = GasLimit(pad), !.slot = slot, !.pad = pad]
StorageRWTxs(s, tx) ==
  {WithDraws(tx, slot, pad, op) : slot \in PickSlot(s), pad \in PickPad(s), op \in PickOperation(s)}

\* CreateTransaction; id is the token an ERC721 mints next.
CreateTransaction(s, sender, receiver, id) ==
  LET type == scenarioFactories[s.kind]
      to   == CASE type.to = "receiver" -> receiver [] type.to = "sender" -> sender [] type.to = "contract" -> s.kind
      tx   == [op |-> type.op, to |-> to, value |-> type.value, gas |-> type.gas,
               tip |-> type.tip, cap |-> type.cap, slot |-> 0, pad |-> 0, id |-> 0]
  IN CASE s.kind \in Transfers   -> PickFees(s, tx)
       [] s.kind = "storagerw" -> StorageRWTxs(s, tx)
       [] s.kind = "erc721"    -> {[tx EXCEPT !.id = id]}
       [] OTHER                -> {tx}

-----------------------------------------------------------------------------
(* What the chain makes of them.                                           *)

\* The bytes of a call beside its pad, <<not 0, 0>>, at the most costly: an
\* address has 20 bytes that are not 0, a token's id and the value 1 have one;
\* disperseEtherFixed has 100 addresses.
HeadBytes(kind) ==
  CASE kind \in Transfers -> <<0, 0>>
    [] kind = "storagerw" -> <<4 + 4 * 32, 0>>
    [] kind = "disperse"  -> <<4 + 2 + 100 * 20, 62 + 100 * 12>>
    [] OTHER              -> <<4 + 20 + 1, 12 + 31>>

\* What the call data costs, and what EIP-7623 charges for it at least.
Intrinsic(kind, pad) == 21000 + 16 * HeadBytes(kind)[1] + 4 * (HeadBytes(kind)[2] + Padded(pad))
CalldataFloor(kind, pad) == 21000 + 40 * HeadBytes(kind)[1] + 10 * (HeadBytes(kind)[2] + Padded(pad))

\* The slots a call writes that may have been 0, in an account's first call.
Writes(kind) ==
  CASE kind \in {"erc20", "erc721"} -> 2
    [] kind = "erc20conflict"       -> 3
    [] kind = "storagerw"           -> 1
    [] OTHER                        -> 0

\* The chain admits fees that can be encoded and agree with each other.
Admitted(tx) == 0 <= tx.tip /\ tx.tip <= tx.cap

\* The call succeeds: a slot takes 22100 gas and the rest of a call that writes
\* no more than 4500 (a call left with 2300 fails at its first write);
\* disperseEtherFixed requires 1 wei for each of its 100 addresses.
Executes(kind, tx) ==
  /\ tx.gas >= CalldataFloor(kind, tx.pad)
  /\ Writes(kind) > 0 => tx.gas >= Intrinsic(kind, tx.pad) + 4500 + 22100 * Writes(kind)
  /\ kind = "disperse" => tx.value = 100
=============================================================================
