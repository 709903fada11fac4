----------------------------- MODULE BridgeChain -----------------------------
(***************************************************************************)
(* One deposit from the user's payment to its end: the Bitcoin chain with  *)
(* its mempool, confirmations and reorganisations, the checks the bridge   *)
(* makes on it (core/src/extended_rpc.rs), the signing ceremony as a       *)
(* client drives it (core/tests/common/deposit.rs) through verifiers,      *)
(* operators and aggregator, the user's recovery and the operators'        *)
(* reimbursement (core/src/operator.rs).                                   *)
(*                                                                         *)
(* The client makes one call after the other.  VerifierSigning is about    *)
(* calls that race; here the transactions, keys and signatures are real,   *)
(* and what races is the chain: blocks are mined and disconnected and the  *)
(* user's timelock runs out while the ceremony goes on.  The client and    *)
(* the verifiers may stop at any call.                                     *)
(***************************************************************************)
EXTENDS BridgeTxs, Functions

CONSTANTS
    ConfirmationThreshold,  \* config.confirmation_threshold
    MaxReorg,               \* blocks a reorganisation disconnects, at most
    MaxReorgs               \* bound: reorganisations

(* What the confirmation threshold is chosen for.                          *)
ASSUME ReorgAssumption ==
    /\ MaxReorgs \in Nat /\ ConfirmationThreshold \in Nat
    /\ MaxReorg \in 0 .. ConfirmationThreshold - 1

VARIABLES
    output,     \* what the deposit transaction pays, "none" before there is one
    age,        \* confirmations; 0 in the mempool, -1 unknown to the node
    lag,        \* blocks the chain is behind the one that was abandoned
    reorgs,     \* counter for the bound
    wit,        \* per transaction: its witnesses, <<>> until it is complete
    stage,      \* the client: which calls it is at
    nonces, agg, kicks, psigs,  \* the answers the client holds
    sigs,       \* the n-of-n signatures the client holds
    db          \* per verifier: signatures saved in deposit_kickoff_utxos

chainVars  == <<output, age, lag, reorgs>>
clientVars == <<stage, nonces, agg, kicks, psigs, sigs>>
vars       == <<chainVars, wit, clientVars, db>>

-----------------------------------------------------------------------------
(* The node *)

Unknown == -1

Variants == {"none", "right", "amount", "address"}

KickoffOut(i) == CreateKickoffUtxoTx(i).outs[1]

(* The transactions as they are built for a deposit that pays variant.     *)
Built(variant) ==
    [t \in Txs \ {DepositTx} |->
        CASE t.kind = "recovery" -> CreateRecoveryTx(variant)
          [] t.kind = "move"     -> CreateMoveTxHandler
          [] t.kind = "gen"      -> CreateKickoffUtxoTx(t.op)
          [] t.kind = "sot"      -> CreateSlashOrTakeTx(t.op, KickoffOut(t.op))
          [] t.kind = "take"     -> CreateOperatorTakesTx(t.op, KickoffOut(t.op))]
BuiltTxs     == [variant \in Variants |-> Built(variant)]
HandlerOf(t) == BuiltTxs[output][t]

(* Wallet transactions, which are always there, are left out.              *)
ParentTxs ==
    [t \in Txs |-> IF t = DepositTx THEN {}
                   ELSE Txs \cap {in.tx : in \in Range(BuiltTxs["none"][t].ins)}]
Parents(t) == ParentTxs[t]

Completed    == {t \in Txs : wit[t] # <<>>}
Mempool      == {t \in Txs : age[t] = 0}

(* Confirmations are counted up to where they make no difference.          *)
Larger(a, b) == IF a > b THEN a ELSE b
Horizon(t) ==
    MaxReorg + (CASE t.kind = "deposit" -> Larger(ConfirmationThreshold, UserTakesAfter)
                  [] t.kind = "sot"     -> OperatorTakesAfter
                  [] OTHER              -> 1)

Final(t) == age[t] = Horizon(t)

(* The outputs that a transaction really spends.                           *)
SpentOut(in) ==
    CASE in.tx.kind = "fund"    -> FundingOut(in.tx.op)
      [] in.tx.kind = "deposit" -> DepositOut(output)
      [] OTHER                  -> HandlerOf(in.tx).outs[in.vout + 1]

Spent(t) == [j \in DOMAIN HandlerOf(t).ins |-> SpentOut(HandlerOf(t).ins[j])]

SpendsValid(t) ==
    \A j \in DOMAIN Spent(t) : WitnessSatisfies(wit[t][j], HandlerOf(t), j, Spent(t))

(* What is spent and not paid out again.                                   *)
Values(outs) == [j \in DOMAIN outs |-> outs[j].value]
Fee(t)       == SumFunction(Values(Spent(t))) - SumFunction(Values(HandlerOf(t).outs))

(* One satoshi per virtual byte, and no output below the dust limit.       *)
PolicyMet(t) ==
    /\ Fee(t) >= TxVSize(t)
    /\ \A out \in Range(HandlerOf(t).outs) : out.value >= DustLimit(out)

(* BIP 68, with the confirmations a.                                       *)
SequenceLocksPass(t, a) ==
    \A in \in Range(HandlerOf(t).ins) : in.sequence # NoLock => a[in.tx] >= in.sequence

(* Both spend the same output: every output that is spent is output 0.     *)
Conflict(t, u) == t # u /\ Parents(t) \cap Parents(u) # {}

SendRawTransaction(t) ==
    /\ lag = 0
    /\ t \in Completed /\ age[t] = Unknown
    /\ \A u \in Parents(t) : age[u] > Unknown
    /\ \A u \in Completed : Conflict(t, u) => age[u] = Unknown
    /\ SequenceLocksPass(t, age)
    /\ SpendsValid(t)
    /\ PolicyMet(t)
    /\ age' = [age EXCEPT ![t] = 0]
    /\ UNCHANGED <<output, lag, reorgs, wit, clientVars, db>>

ParentsIn(t, a, s) == \A u \in Parents(t) : u \in s \/ a[u] >= 1

(* A block with transactions s of the mempool.                             *)
Mine(s) ==
    /\ \A t \in s : ParentsIn(t, age, s)
    /\ age' = [t \in Txs |->
                 IF t \in s \/ (age[t] >= 1 /\ ~ Final(t)) THEN age[t] + 1 ELSE age[t]]
    /\ lag' = Larger(lag - 1, 0)
    /\ UNCHANGED <<output, reorgs, wit, clientVars, db>>

(* k blocks are disconnected; a longer chain is on its way.  Their         *)
(* transactions go back to the mempool, where those in lost, or with a     *)
(* parent that is gone or a timelock that is closed again, do not stay.    *)
Disconnect(k, lost) ==
    LET back == [t \in Txs |-> IF age[t] >= 1 THEN Larger(age[t] - k, 0) ELSE age[t]]
        stay == {t \in Txs : \/ back[t] >= 1
                             \/ back[t] = 0 /\ t \notin lost
                                /\ (t # DepositTx => SequenceLocksPass(t, back))}
        kept == UNION {s \in SUBSET stay : \A t \in s : ParentsIn(t, back, s)}
    IN
    /\ lag = 0 /\ reorgs < MaxReorgs
    /\ age' = [t \in Txs |-> IF t \in kept THEN back[t] ELSE Unknown]
    /\ output' = IF DepositTx \in kept THEN output ELSE "none"
    /\ lag' = k + 1
    /\ reorgs' = reorgs + 1
    /\ UNCHANGED <<wit, clientVars, db>>

-----------------------------------------------------------------------------
(* Init and the user *)

Init ==
    /\ output = "none"
    /\ age = [t \in Txs |-> Unknown]
    /\ lag = 0 /\ reorgs = 0
    /\ wit = [t \in Txs |-> <<>>]
    /\ stage = "nonces"
    /\ nonces = <<>> /\ agg = <<>> /\ kicks = <<>> /\ psigs = <<>> /\ sigs = <<>>
    /\ db = [v \in 1 .. NumVerifiers |-> [sot |-> <<>>, take |-> <<>>]]

(* deposit_tx pays the bridge amount to the deposit address; other wallets *)
(* may pay something else.                                                 *)
UserDeposit(variant) ==
    /\ output = "none"
    /\ output' = variant
    /\ age' = [age EXCEPT ![DepositTx] = 0]
    /\ UNCHANGED <<lag, reorgs, wit, clientVars, db>>

(* The user signs with the key of its recovery address.                    *)
UserRecover ==
    LET h == HandlerOf(RecoveryTx) IN
    /\ output \in {"right", "amount"}
    /\ age[DepositTx] >= UserTakesAfter
    /\ RecoveryTx \notin Completed
    /\ wit' = [wit EXCEPT ![RecoveryTx] = <<HandleTaprootWitnessNew(h,
                    <<SignTaprootScriptSpendTxNewTweaked(User, h, 1, 1)>>, 1, 1)>>]
    /\ UNCHANGED <<chainVars, clientVars, db>>

-----------------------------------------------------------------------------
(* The ceremony *)

ConfirmationBlocks             == age[DepositTx]
CheckUtxoAddressAndAmount(out) == DepositOut(output) = out
IsUtxoSpent == \E t \in Completed : DepositTx \in Parents(t) /\ age[t] > Unknown

(* Mutant: one confirmation less.                                          *)
CheckDepositUtxoEarly ==
    /\ ConfirmationBlocks >= ConfirmationThreshold - 1
    /\ CheckUtxoAddressAndAmount(Out(BridgeAmount, GenerateDepositAddress))
    /\ ~ IsUtxoSpent

(* check_deposit_utxo: confirmed deep enough, the address and amount that  *)
(* are expected, and not spent, not even in the mempool.                   *)
CheckDepositUtxo ==
    /\ ConfirmationBlocks >= ConfirmationThreshold
    /\ CheckUtxoAddressAndAmount(Out(BridgeAmount, GenerateDepositAddress))
    /\ ~ IsUtxoSpent

VerifierNewDeposit ==
    LET v == Len(nonces) + 1 IN
    /\ stage = "nonces" /\ v <= NumVerifiers
    /\ lag = 0 /\ CheckDepositUtxo
    /\ nonces' = Append(nonces, [j \in 1 .. NumRequiredNonces |-> NoncePair(v, j-1)])
    /\ UNCHANGED <<chainVars, wit, stage, agg, kicks, psigs, sigs, db>>

AggregateNonces ==
    /\ stage = "nonces" /\ Len(nonces) = NumVerifiers
    /\ PubNoncesComplete(nonces)
    /\ agg' = AggregatePubNonces(nonces)
    /\ stage' = "operators"
    /\ UNCHANGED <<chainVars, wit, nonces, kicks, psigs, sigs, db>>

(* The operator signs and stores a generator transaction and returns its   *)
(* first output.                                                           *)
OperatorNewDeposit ==
    LET i == Len(kicks)
        h == CreateKickoffUtxoTx(i)
    IN
    /\ stage = "operators"
    /\ lag = 0 /\ CheckDepositUtxo
    /\ wit' = [wit EXCEPT ![Gen(i)] =
                 <<HandleTaprootWitnessNew(h, <<SignTaprootPubkeySpend(i, h, 1)>>, 1, 0)>>]
    /\ kicks' = Append(kicks, h.outs[1])
    /\ stage' = IF i = N - 1 THEN "kickoffs" ELSE stage
    /\ UNCHANGED <<chainVars, nonces, agg, psigs, sigs, db>>

(* The sighashes that verifiers and aggregator compute for operator i.     *)
SotSighash(i) ==
    ConvertTxToSighashScriptSpend(CreateSlashOrTakeTx(i, kicks[i + 1]), 1, 1)
TakeSighash(i) ==
    ConvertTxToSighashPubkeySpend(CreateOperatorTakesTx(i, kicks[i + 1]), 1)
MoveSighash == ConvertTxToSighashScriptSpend(CreateMoveTxHandler, 1, 1)

(* One call per verifier; the answers so far are psigs.                    *)
Caller(st) == stage = st /\ Len(psigs) < NumVerifiers
Called     == Len(psigs) + 1

OperatorKickoffsGenerated ==
    /\ Caller("kickoffs")
    /\ \A i \in Ops : /\ kicks[i + 1].value >= KickoffUtxoAmountSats
                      /\ kicks[i + 1].to = CreateKickoffAddress(i)
    /\ psigs' = Append(psigs, [j \in 1 .. N |->
                    PartialSign(Called, FALSE, agg[N + 1 + j], SotSighash(j - 1))])
    /\ UNCHANGED <<chainVars, wit, stage, nonces, agg, kicks, sigs, db>>

(* The aggregator's loop over operators, with the client's slice of the    *)
(* aggregate nonces.                                                       *)
AggregateSigs(st, next, tweakFlag, slice, sighashes) ==
    /\ stage = st /\ Len(psigs) = NumVerifiers
    /\ \A j \in 1 .. N : PartialSignaturesAgree(
            [v \in 1 .. NumVerifiers |-> psigs[v][j]], tweakFlag, slice[j], sighashes[j])
    /\ sigs' = [j \in 1 .. N |-> AggregatePartialSignatures(tweakFlag, sighashes[j])]
    /\ psigs' = <<>>
    /\ stage' = next
    /\ UNCHANGED <<chainVars, wit, nonces, agg, kicks, db>>

AggregateSlashOrTakeSigs ==
    AggregateSigs("kickoffs", "burn", FALSE, SubSeq(agg, N + 2, 2*N + 1),
        [j \in 1 .. N |-> SotSighash(j - 1)])

BurnTxsSigned ==
    /\ Caller("burn")
    /\ \A i \in Ops : SignedBy(sigs[i + 1], RawKey(NofN), SotSighash(i))
    /\ db' = [db EXCEPT ![Called].sot = sigs]
    /\ psigs' = Append(psigs, [j \in 1 .. N |->
                    PartialSign(Called, TRUE, agg[1 + j], TakeSighash(j - 1))])
    /\ UNCHANGED <<chainVars, wit, stage, nonces, agg, kicks, sigs>>

AggregateOperatorTakeSigs ==
    AggregateSigs("burn", "take", TRUE, SubSeq(agg, 2, N + 1),
        [j \in 1 .. N |-> TakeSighash(j - 1)])

(* The n-of-n key is the one in the address of the moved deposit.          *)
OperatorTakeTxsSigned ==
    /\ Caller("take")
    /\ \A i \in Ops : SignedBy(sigs[i + 1], CreateMusig2Address, TakeSighash(i))
    /\ db' = [db EXCEPT ![Called].take = sigs]
    /\ psigs' = Append(psigs, PartialSign(Called, FALSE, agg[1], MoveSighash))
    /\ UNCHANGED <<chainVars, wit, stage, nonces, agg, kicks, sigs>>

AggregateMoveTxSigs ==
    /\ stage = "take" /\ Len(psigs) = NumVerifiers
    /\ PartialSignaturesAgree(psigs, FALSE, agg[1], MoveSighash)
    /\ wit' = [wit EXCEPT ![MoveTx] = <<HandleTaprootWitnessNew(CreateMoveTxHandler,
                    <<AggregatePartialSignatures(FALSE, MoveSighash)>>, 1, 1)>>]
    /\ stage' = "done"
    /\ psigs' = <<>> /\ sigs' = <<>> /\ nonces' = <<>> /\ agg' = <<>>
    /\ UNCHANGED <<chainVars, kicks, db>>

-----------------------------------------------------------------------------
(* Mutant: the signatures are pushed in the order of the script.           *)
WithdrawalProvedOnCitreaSwapped(i) ==
    LET sot  == CreateSlashOrTakeTx(i, kicks[i + 1])
        take == CreateOperatorTakesTx(i, kicks[i + 1])
    IN
    /\ age[MoveTx] >= 1
    /\ db[i + 1].sot # <<>> /\ db[i + 1].take # <<>>
    /\ Sot(i) \notin Completed
    /\ wit' = [wit EXCEPT
         ![Sot(i)] = <<HandleTaprootWitnessNew(sot,
             <<db[i + 1].sot[i + 1], SignTaprootScriptSpendTx(i, sot, 1, 1)>>, 1, 1)>>,
         ![Take(i)] =
             <<HandleTaprootWitnessNew(take, <<db[i + 1].take[i + 1]>>, 1, 0),
               HandleTaprootWitnessNew(take, <<SignTaprootScriptSpendTx(i, take, 2, 1)>>, 2, 1)>>]
    /\ UNCHANGED <<chainVars, clientVars, db>>

(* Operator i, which shares the database of verifier i+1, completes its    *)
(* transactions.  Citrea has it as a filler only of a deposit that moved.  *)
WithdrawalProvedOnCitrea(i) ==
    LET sot  == CreateSlashOrTakeTx(i, kicks[i + 1])
        take == CreateOperatorTakesTx(i, kicks[i + 1])
    IN
    /\ age[MoveTx] >= 1
    /\ db[i + 1].sot # <<>> /\ db[i + 1].take # <<>>
    /\ Sot(i) \notin Completed
    /\ wit' = [wit EXCEPT
         ![Sot(i)] = <<HandleTaprootWitnessNew(sot,
             <<SignTaprootScriptSpendTx(i, sot, 1, 1), db[i + 1].sot[i + 1]>>, 1, 1)>>,
         ![Take(i)] =
             <<HandleTaprootWitnessNew(take, <<db[i + 1].take[i + 1]>>, 1, 0),
               HandleTaprootWitnessNew(take, <<SignTaprootScriptSpendTx(i, take, 2, 1)>>, 2, 1)>>]
    /\ UNCHANGED <<chainVars, clientVars, db>>

Ceremony ==
    \/ VerifierNewDeposit
    \/ AggregateNonces
    \/ OperatorNewDeposit
    \/ OperatorKickoffsGenerated
    \/ AggregateSlashOrTakeSigs
    \/ BurnTxsSigned
    \/ AggregateOperatorTakeSigs
    \/ OperatorTakeTxsSigned
    \/ AggregateMoveTxSigs

Next ==
    \/ \E variant \in Variants \ {"none"} : UserDeposit(variant)
    \/ UserRecover
    \/ Ceremony
    \/ \E i \in Ops : WithdrawalProvedOnCitrea(i)
    \/ \E t \in Txs : SendRawTransaction(t)
    \/ \E s \in SUBSET Mempool : Mine(s)
    \/ \E k \in 1 .. MaxReorg : \E lost \in SUBSET {t \in Txs : age[t] \in 1 .. k} :
            Disconnect(k, lost)

Spec == Init /\ [][Next]_vars

-----------------------------------------------------------------------------
(* Properties *)

(* Nothing is on the chain that nobody completed; the client's lists are   *)
(* as long as the calls that were made, with a nonce for the move and two  *)
(* per operator; a database that holds operator_takes signatures holds the *)
(* slash_or_take ones.                                                     *)
TypeOK ==
    /\ output \in Variants
    /\ \A t \in Txs : age[t] \in Unknown .. Horizon(t)
    /\ lag \in 0 .. MaxReorg + 1 /\ reorgs \in 0 .. MaxReorgs
    /\ \A t \in Txs \ {DepositTx} : age[t] > Unknown => t \in Completed
    /\ age[DepositTx] = Unknown <=> output = "none"
    /\ stage \in {"nonces", "operators", "kickoffs", "burn", "take", "done"}
    /\ Len(nonces) <= NumVerifiers /\ Len(kicks) <= N /\ Len(psigs) <= NumVerifiers
    /\ stage \notin {"nonces", "done"} => Len(agg) = 2 * N + 1
    /\ Len(sigs) = IF stage \in {"burn", "take"} THEN N ELSE 0
    /\ \A v \in 1 .. NumVerifiers : db[v].take # <<>> => Len(db[v].sot) = N

(* Every transaction that the program completes is one the network takes:  *)
(* its witnesses satisfy, with the right keys, tweaks, order and amounts,  *)
(* the outputs that are really spent, not the ones the signers rebuilt.    *)
CompletedTxsValid == \A t \in Completed : SpendsValid(t)

(* ... and one that nodes relay: the fee constants cover the size that the *)
(* scripts, signatures and indices really have, and no output is dust.     *)
RelayPolicyMet == \A t \in Completed : PolicyMet(t)

(* A deposit that a verifier or an operator has accepted stays: no         *)
(* reorganisation takes it off the chain, and what it pays is what was     *)
(* asked for.                                                              *)
AcceptedDepositsStay ==
    (nonces # <<>> \/ kicks # <<>>) => age[DepositTx] >= 1 /\ output = "right"

-----------------------------------------------------------------------------
(* Liveness.  Blocks are mined with what is in the mempool, a user whose   *)
(* deposit is not moved takes it back, and operators claim what is theirs. *)
(* Nobody else is fair: the ceremony may stop at any call.                 *)
Fairness ==
    /\ WF_vars(Mine(Mempool))
    /\ WF_vars(UserRecover)
    /\ WF_vars(SendRawTransaction(RecoveryTx))
    /\ \A i \in Ops :
        /\ WF_vars(WithdrawalProvedOnCitrea(i))
        /\ \A t \in {Gen(i), Sot(i), Take(i)} : WF_vars(SendRawTransaction(t))

FairSpec == Spec /\ Fairness

(* What is paid to the deposit address is never stuck: in the end, whoever *)
(* stops, the user has it back or an operator, who paid the withdrawal,    *)
(* has taken it; or a reorganisation undid the deposit.                    *)
DepositSettles ==
    output \in {"right", "amount"} ~>
        \/ output = "none"
        \/ Final(RecoveryTx)
        \/ \E i \in Ops : Final(Take(i))
=============================================================================
