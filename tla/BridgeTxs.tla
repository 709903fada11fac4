------------------------------ MODULE BridgeTxs ------------------------------
(***************************************************************************)
(* The transactions of one deposit and how they are signed                 *)
(* (core/src/builder/, core/src/actor.rs, core/src/musig2.rs,              *)
(* core/src/aggregator.rs, core/src/utils.rs), and what a Bitcoin node     *)
(* asks of them.                                                           *)
(*                                                                         *)
(*   deposit --> move -----------> take i --> operator i's wallet          *)
(*      |                           |                                      *)
(*      +------> recovery           |                                      *)
(*   fund i --> gen i --> sot i ----+                                      *)
(*                                                                         *)
(* A transaction is named by its kind and its operator.  A key is a party's*)
(* key, raw or tweaked with a taproot tree; a signature is the key that    *)
(* made it and the sighash, which commits to the inputs, the outputs, the  *)
(* outputs that are spent (as the signer believes them to be) and the leaf.*)
(* Signatures are unforgeable and hashes have no collisions.               *)
(***************************************************************************)
EXTENDS Integers, Sequences, Arithmetic

CONSTANTS
    NumVerifiers,       \* Len(config.verifiers_public_keys)
    N,                  \* config.num_operators
    NumKickoffs,        \* config.operator_num_kickoff_utxos_per_tx
    UserTakesAfter,     \* config.user_takes_after
    OperatorTakesAfter, \* config.operator_takes_after
    BridgeAmount,       \* config.bridge_amount_sats
    FundingAmount       \* the value of an operator's funding UTXO

ASSUME ParticipantsAssumption ==
    NumVerifiers \in Nat \ {0} /\ N \in 1 .. NumVerifiers /\ NumKickoffs \in Nat \ {0}

(* A relative timelock in blocks is a u16.                                 *)
MaxBlocksOfTimelock == 65535

ASSUME TimelocksAssumption ==
    /\ UserTakesAfter \in 1 .. MaxBlocksOfTimelock
    /\ OperatorTakesAfter \in 1 .. MaxBlocksOfTimelock
ASSUME AmountsAssumption == BridgeAmount \in Nat /\ FundingAmount \in Nat

-----------------------------------------------------------------------------
(* Keys, scripts and addresses *)

Ops         == 0 .. N-1
NofN        == -1
User        == -2
Unspendable == -3

RawKey(p)         == [party |-> p, tweaked |-> FALSE, tree |-> <<>>]
TweakedKey(p, tr) == [party |-> p, tweaked |-> TRUE, tree |-> tr]

NoLock == -1

(* Scripts: the keys in the order they are checked, the relative timelock, *)
(* the data of an inscription or of an output without keys.                *)
DataScript(data) == [checks |-> <<>>, csv |-> NoLock, data |-> data]

CreateDepositScript ==
    [checks |-> <<RawKey(NofN)>>, csv |-> NoLock, data |-> <<"citrea", "evm", BridgeAmount>>]

CreateMusig2AndOperatorMultisigScript(i) ==
    [checks |-> <<RawKey(NofN), RawKey(i)>>, csv |-> NoLock, data |-> <<>>]

GenerateRelativeTimelockScript(key, blocks) ==
    [checks |-> <<key>>, csv |-> blocks, data |-> <<>>]

(* The depth of leaf i (from 0) of n: m = ceil(log2 n), and one less for   *)
(* the last k leaves.                                                      *)
LeafDepth(n, i) ==
    IF n = 1 THEN 0
    ELSE LET m == CHOOSE e \in 1 .. n : Power(2)[e] >= n /\ Power(2)[e-1] < n
             k == Power(2)[m] - n
         IN  m - (IF i >= n - k THEN 1 ELSE 0)

(* A taproot address is its output key.                                    *)
CreateTaprootAddress(scripts, internal) == TweakedKey(internal, scripts)

(* Mutant: the internal key of the recovery address goes into the script.  *)
GenerateDepositAddressUntweaked ==
    CreateTaprootAddress(<<CreateDepositScript,
        GenerateRelativeTimelockScript(RawKey(User), UserTakesAfter)>>, Unspendable)

(* The key in the timelock script is read off the user's recovery address. *)
GenerateDepositAddress ==
    CreateTaprootAddress(<<CreateDepositScript,
        GenerateRelativeTimelockScript(TweakedKey(User, <<>>), UserTakesAfter)>>, Unspendable)

CreateMusig2Address == CreateTaprootAddress(<<>>, NofN)

CreateKickoffAddress(i) ==
    CreateTaprootAddress(<<CreateMusig2AndOperatorMultisigScript(i)>>, Unspendable)

SlashOrTakeAddress(i) ==
    CreateTaprootAddress(
        <<GenerateRelativeTimelockScript(RawKey(i), OperatorTakesAfter)>>, NofN)

-----------------------------------------------------------------------------
(* Transactions *)

Tx(kind, i) == [kind |-> kind, op |-> i]
DepositTx   == Tx("deposit", User)
RecoveryTx  == Tx("recovery", User)
MoveTx      == Tx("move", NofN)
Gen(i)      == Tx("gen", i)
Sot(i)      == Tx("sot", i)
Take(i)     == Tx("take", i)
Txs == {DepositTx, RecoveryTx, MoveTx}
       \cup UNION {{Gen(i), Sot(i), Take(i)} : i \in Ops}

Out(value, address) == [value |-> value, to |-> address]

MoveTxMinRelayFee          == 190
SlashOrTakeTxMinRelayFee   == 240
OperatorTakesTxMinRelayFee == 230
KickoffUtxoAmountSats      == 100000

KickoffTxMinRelayFee(n) == (IF n <= 250 THEN 154 ELSE 156) + 43 * n

(* anyone_can_spend_txout: P2WSH of OP_1; op_return_txout: the move txid   *)
(* and the operator's index.                                               *)
AnyoneCanSpend ==
    Out(330, [party |-> Unspendable, tweaked |-> FALSE, tree |-> <<DataScript(<<"true">>)>>])
OpReturn(i) ==
    Out(0, [party |-> i, tweaked |-> FALSE, tree |-> <<DataScript(<<"return">>)>>])

(* create_tx_ins: BIP 68 is off; create_tx_ins_with_sequence: the sequence *)
(* is a u16 of blocks.                                                     *)
TxIn(t, vout)               == [tx |-> t, vout |-> vout, sequence |-> NoLock]
TxInWithSequence(t, vout, n) == [tx |-> t, vout |-> vout, sequence |-> n % 65536]

(* A TxHandler: the transaction, the outputs it is believed to spend, the  *)
(* scripts per input and the addresses whose spend info it holds.          *)
Handler(t, ins, outs, prevouts, scripts, infos) ==
    [tx |-> t, ins |-> ins, outs |-> outs, prevouts |-> prevouts, scripts |-> scripts,
     infos |-> infos]

(* The output the bridge asks for, and others a wallet may make instead.   *)
DepositOut(variant) ==
    CASE variant = "amount"  -> Out(BridgeAmount - 1, GenerateDepositAddress)
      [] variant = "address" -> Out(BridgeAmount, TweakedKey(User, <<>>))
      [] OTHER               -> Out(BridgeAmount, GenerateDepositAddress)

CreateMoveTxHandler ==
    Handler(MoveTx, <<TxIn(DepositTx, 0)>>,
        <<Out(BridgeAmount - MoveTxMinRelayFee - AnyoneCanSpend.value, CreateMusig2Address),
          AnyoneCanSpend>>,
        <<DepositOut("right")>>, <<<<CreateDepositScript>>>>, <<GenerateDepositAddress>>)

(* create_kickoff_utxo_tx spends output 0 of the operator's wallet.        *)
FundingOut(i) == Out(FundingAmount, TweakedKey(i, <<>>))

CreateKickoffUtxoTx(i) ==
    LET change == FundingAmount - KickoffUtxoAmountSats * NumKickoffs
                  - AnyoneCanSpend.value - KickoffTxMinRelayFee(NumKickoffs)
    IN  Handler(Gen(i), <<TxIn(Tx("fund", i), 0)>>,
            [k \in 1 .. NumKickoffs |-> Out(KickoffUtxoAmountSats, CreateKickoffAddress(i))]
                \o <<Out(change, TweakedKey(i, <<>>)), AnyoneCanSpend>>,
            <<FundingOut(i)>>, <<<<>>>>, <<>>)

(* Mutant: the fee is the one of operator_takes.                           *)
CreateSlashOrTakeTxCheap(i, kickoff) ==
    Handler(Sot(i), <<TxIn(Gen(i), 0)>>,
        <<Out(kickoff.value - 330 - OperatorTakesTxMinRelayFee, SlashOrTakeAddress(i)),
          AnyoneCanSpend, OpReturn(i)>>,
        <<kickoff>>, <<<<CreateMusig2AndOperatorMultisigScript(i)>>>>,
        <<CreateKickoffAddress(i)>>)

(* kickoff: the txout of the kickoff UTXO, as the caller gives it.         *)
CreateSlashOrTakeTx(i, kickoff) ==
    Handler(Sot(i), <<TxIn(Gen(i), 0)>>,
        <<Out(kickoff.value - 330 - SlashOrTakeTxMinRelayFee, SlashOrTakeAddress(i)),
          AnyoneCanSpend, OpReturn(i)>>,
        <<kickoff>>, <<<<CreateMusig2AndOperatorMultisigScript(i)>>>>,
        <<CreateKickoffAddress(i)>>)

CreateOperatorTakesTx(i, kickoff) ==
    LET sot    == CreateSlashOrTakeTx(i, kickoff).outs[1]
        bridge == BridgeAmount - MoveTxMinRelayFee - AnyoneCanSpend.value
    IN  Handler(Take(i),
            <<TxIn(MoveTx, 0), TxInWithSequence(Sot(i), 0, OperatorTakesAfter)>>,
            <<Out(sot.value + bridge - OperatorTakesTxMinRelayFee - AnyoneCanSpend.value,
                  TweakedKey(i, <<>>)), AnyoneCanSpend>>,
            <<Out(bridge, CreateMusig2Address), sot>>,
            <<<<>>, <<GenerateRelativeTimelockScript(RawKey(i), OperatorTakesAfter)>>>>,
            <<CreateMusig2Address, SlashOrTakeAddress(i)>>)

(* The user's wallet: its fee is its own affair.                           *)
CreateRecoveryTx(variant) ==
    Handler(RecoveryTx, <<TxInWithSequence(DepositTx, 0, UserTakesAfter)>>,
        <<Out(BridgeAmount \div 2, TweakedKey(User, <<>>))>>,
        <<DepositOut(variant)>>,
        <<<<GenerateRelativeTimelockScript(TweakedKey(User, <<>>), UserTakesAfter)>>>>,
        <<GenerateDepositAddress>>)

-----------------------------------------------------------------------------
(* Signing *)

KeySpend == DataScript(<<>>)

(* SighashCache with Prevouts::All, in the two ways it is called.          *)
Sighash(h, input, leaf) ==
    [tx |-> h.tx, ins |-> h.ins, outs |-> h.outs, input |-> input, prevouts |-> h.prevouts,
     leaf |-> leaf]

ConvertTxToSighashScriptSpend(h, input, script) == Sighash(h, input, h.scripts[input][script])
ConvertTxToSighashPubkeySpend(h, input)         == Sighash(h, input, KeySpend)

(* An actor's signatures, with its key and with its key tweaked.           *)
Sign(p, sighash)          == [key |-> RawKey(p), msg |-> sighash]
SignWithTweak(p, sighash) == [key |-> TweakedKey(p, <<>>), msg |-> sighash]

SignTaprootScriptSpendTx(p, h, input, script) ==
    Sign(p, ConvertTxToSighashScriptSpend(h, input, script))
SignTaprootScriptSpendTxNewTweaked(p, h, input, script) ==
    SignWithTweak(p, ConvertTxToSighashScriptSpend(h, input, script))
SignTaprootPubkeySpend(p, h, input) ==
    SignWithTweak(p, ConvertTxToSighashPubkeySpend(h, input))

(* The n-of-n key of the key aggregation context.                          *)
CreateKeyAggCtx(tweakFlag) ==
    IF tweakFlag THEN TweakedKey(NofN, <<>>) ELSE RawKey(NofN)

(* Nonces are named by verifier and index; an aggregate is the list of     *)
(* what was summed.                                                        *)
NoncePair(v, idx)     == [v |-> v, idx |-> idx]

(* Mutant: as many as the comment in the aggregator says.                  *)
NumRequiredNoncesThree == 3 * N + 1

NumRequiredNonces      == 2 * N + 1

PartialSign(v, tweakFlag, aggNonce, sighash) ==
    [v |-> v, key |-> CreateKeyAggCtx(tweakFlag), agg |-> aggNonce, msg |-> sighash]

(* aggregate_partial_signatures fails unless every verifier signed under   *)
(* this context, nonce and message.                                        *)
PartialSignaturesAgree(psigs, tweakFlag, aggNonce, sighash) ==
    /\ Len(psigs) = NumVerifiers
    /\ \A v \in 1 .. NumVerifiers : psigs[v] = PartialSign(v, tweakFlag, aggNonce, sighash)

AggregatePartialSignatures(tweakFlag, sighash) ==
    [key |-> CreateKeyAggCtx(tweakFlag), msg |-> sighash]

(* aggregate_pub_nonces: the first list decides how many there are, a      *)
(* shorter one is NoncesNotFound.                                          *)
PubNoncesComplete(lists)   == \A v \in DOMAIN lists : Len(lists[v]) >= Len(lists[1])
AggregatePubNonces(lists)  ==
    [j \in 1 .. Len(lists[1]) |-> [v \in DOMAIN lists |-> lists[v][j]]]

(* A witness: what is pushed, then the script and its control block.       *)
HandleTaprootWitnessNew(h, elements, input, script) ==
    [elements |-> elements,
     leaf     |-> IF script = 0 THEN KeySpend ELSE h.scripts[input][script],
     control  |-> IF script = 0 THEN RawKey(Unspendable) ELSE h.infos[input]]

-----------------------------------------------------------------------------
(* What the Bitcoin network asks: the witness satisfies the output that is *)
(* really spent.  The top of the stack is the last element and goes to the *)
(* first check.                                                            *)
SignedBy(sig, key, sighash) == sig.key = key /\ sig.msg = sighash

(* OP_CSV, with the sequence of the input.                                 *)
TimelockMet(leaf, in) ==
    leaf.csv # NoLock => in.sequence # NoLock /\ leaf.csv % 65536 <= in.sequence

WitnessSatisfies(w, h, input, spent) ==
    LET sighash == Sighash([h EXCEPT !.prevouts = spent], input, w.leaf)
        to      == spent[input].to
        n       == Len(w.elements)
    IN  IF w.leaf = KeySpend
        THEN n = 1 /\ SignedBy(w.elements[1], to, sighash)
        ELSE /\ w.control = to
             /\ \E j \in DOMAIN to.tree : to.tree[j] = w.leaf
             /\ n = Len(w.leaf.checks)
             /\ \A j \in 1 .. n : SignedBy(w.elements[n + 1 - j], w.leaf.checks[j], sighash)
             /\ TimelockMet(w.leaf, h.ins[input])

(* Sizes, in bytes.                                                        *)
PushLen(n) == IF n <= 16 THEN 1 ELSE IF n <= 127 THEN 2 ELSE IF n <= 32767 THEN 3 ELSE 4

(* usize_to_var_len_bytes                                                  *)
VarLenBytes(x) == IF x < 256 THEN 1 ELSE IF x < 65536 THEN 2 ELSE 3

VSize(base, witness) == (4 * base + 2 + witness + 3) \div 4

DepositScriptLen     == 33 + 1 + 2 + 7 + 21 + 9 + 1
MultisigScriptLen    == 2 * (33 + 1)
TimelockScriptLen(n) == PushLen(n) + 2 + 33 + 1
ControlBlockLen(d)   == 33 + 32 * d
ScriptPathLen(sigs, script, d) == 1 + 65 * sigs + 1 + script + 1 + ControlBlockLen(d)
KeyPathLen           == 1 + 65
Overhead(outs)       == 10 + (IF outs <= 252 THEN 0 ELSE 2)

MoveVSize    == VSize(Overhead(2) + 41 + 2 * 43, ScriptPathLen(1, DepositScriptLen, LeafDepth(2, 0)))
GenVSize(n)  == VSize(Overhead(n + 2) + 41 + (n + 2) * 43, KeyPathLen)
SotVSize(i)  == VSize(Overhead(3) + 41 + 2 * 43 + 8 + 1 + 2 + 32 + VarLenBytes(i),
                      ScriptPathLen(2, MultisigScriptLen, LeafDepth(1, 0)))
TakeVSize(n) == VSize(Overhead(2) + 2 * 41 + 2 * 43,
                      KeyPathLen + ScriptPathLen(1, TimelockScriptLen(n), LeafDepth(1, 0)))

TxVSize(t) ==
    CASE t.kind = "move" -> MoveVSize
      [] t.kind = "gen"  -> GenVSize(NumKickoffs)
      [] t.kind = "sot"  -> SotVSize(t.op)
      [] t.kind = "take" -> TakeVSize(OperatorTakesAfter)
      [] OTHER           -> 0

(* The least value of an output that relays: script.minimal_non_dust().    *)
DustLimit(out) == IF out.to.tree = <<DataScript(<<"return">>)>> THEN 0 ELSE 330
=============================================================================
