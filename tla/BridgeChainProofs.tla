-------------------------- MODULE BridgeChainProofs --------------------------
(***************************************************************************)
(* Theorems about BridgeChain for every number of verifiers, operators and *)
(* kickoffs, every pair of timelocks, and every confirmation threshold     *)
(* with reorganisations of fewer blocks than it; and about the fees, for   *)
(* every index and number that enters the size of a transaction.           *)
(***************************************************************************)
EXTENDS BridgeChain, ArithmeticProofs, SequenceTheorems

Accepted == nonces # <<>> \/ kicks # <<>>

(* The node knows the deposit if and only if there is one, and only the    *)
(* user's wallet makes it.                                                 *)
DepositInv ==
    /\ age \in [Txs -> Int] /\ lag \in Nat /\ output \in Variants
    /\ age[DepositTx] = Unknown <=> output = "none"
    /\ DOMAIN wit = Txs /\ wit[DepositTx] = <<>>

(* The deposit has d confirmations, or the chain is behind the one where   *)
(* it had them by the blocks that are missing.                             *)
Buried(d) == age[DepositTx] >= 1 /\ age[DepositTx] + lag >= d

(* More confirmations than a reorganisation takes away, and not more than  *)
(* are counted.                                                            *)
Deep(d) ==
    d \in Nat /\ MaxReorg < d /\ d <= Larger(ConfirmationThreshold, UserTakesAfter)

(* An accepted deposit has as many confirmations as it needs.              *)
BuriedInv == Accepted => output = "right" /\ Buried(ConfirmationThreshold)

IInv == DepositInv /\ BuriedInv

-----------------------------------------------------------------------------
(* The deposit is a transaction of its own, without parents in the model.  *)
LEMMA DepositTxFacts ==
    /\ DepositTx \in Txs /\ RecoveryTx # DepositTx /\ MoveTx # DepositTx
    /\ \A i : Gen(i) # DepositTx /\ Sot(i) # DepositTx /\ Take(i) # DepositTx
    /\ Parents(DepositTx) = {}
<1>1. DepositTx \in Txs
  BY DEF Txs
<1>2. DepositTx.kind = "deposit" /\ RecoveryTx.kind = "recovery" /\ MoveTx.kind = "move"
  BY DEF DepositTx, RecoveryTx, MoveTx, Tx
<1>3. \A i : Gen(i).kind = "gen" /\ Sot(i).kind = "sot" /\ Take(i).kind = "take"
  BY DEF Gen, Sot, Take, Tx
<1>4. Parents(DepositTx) = {}
  BY <1>1 DEF Parents, ParentTxs
<1>5. QED
  BY <1>1, <1>2, <1>3, <1>4

(* The timelocks and the threshold; the user's timelock is deep, when it   *)
(* is longer than a reorganisation.                                        *)
LEMMA Timelocks ==
    /\ OperatorTakesAfter \in Nat /\ OperatorTakesAfter >= 1 /\ MaxReorg \in Nat
    /\ UserTakesAfter \in Nat /\ UserTakesAfter >= 1 /\ ConfirmationThreshold \in Nat
    /\ MaxReorg < UserTakesAfter => Deep(UserTakesAfter)
<1>1. UserTakesAfter \in Nat /\ UserTakesAfter >= 1
  BY TimelocksAssumption
<1>2. OperatorTakesAfter \in Nat /\ OperatorTakesAfter >= 1
  BY TimelocksAssumption
<1>3. ConfirmationThreshold \in Nat /\ MaxReorg \in Nat
  BY ReorgAssumption
<1>4. MaxReorg < UserTakesAfter => Deep(UserTakesAfter)
  BY <1>1, <1>3 DEF Deep, Larger
<1>5. QED
  BY <1>1, <1>2, <1>3, <1>4

(* Confirmations of the deposit are counted as far as they matter.         *)
LEMMA DepositHorizon ==
    /\ Horizon(DepositTx) = MaxReorg + Larger(ConfirmationThreshold, UserTakesAfter)
    /\ Horizon(DepositTx) \in Nat
    /\ \A d : Deep(d) => Horizon(DepositTx) >= d
<1>1. DepositTx.kind = "deposit"
  BY DEF DepositTx, Tx
<1>2. Horizon(DepositTx) = MaxReorg + Larger(ConfirmationThreshold, UserTakesAfter)
  BY <1>1 DEF Horizon
<1>3. MaxReorg \in Nat /\ Larger(ConfirmationThreshold, UserTakesAfter) \in Nat
  BY Timelocks DEF Larger
<1> HIDE DEF Horizon
<1>4. QED
  BY <1>2, <1>3 DEF Deep

(* check_deposit_utxo lets only the output through that the bridge asks    *)
(* for, and only with enough confirmations.                                *)
LEMMA CheckedDeposit ==
    ASSUME DepositInv, CheckDepositUtxo
    PROVE  output = "right" /\ age[DepositTx] >= ConfirmationThreshold
<1>1. age[DepositTx] >= ConfirmationThreshold /\ age[DepositTx] # Unknown
  BY ReorgAssumption, DepositTxFacts DEF CheckDepositUtxo, ConfirmationBlocks, DepositInv, Unknown
<1>2. output # "none"
  BY <1>1 DEF DepositInv
<1>3. DepositOut(output) = Out(BridgeAmount, GenerateDepositAddress)
  BY DEF CheckDepositUtxo, CheckUtxoAddressAndAmount
<1>4. output # "amount"
  <2> SUFFICES ASSUME output = "amount" PROVE FALSE
    OBVIOUS
  <2>1. DepositOut(output) = Out(BridgeAmount - 1, GenerateDepositAddress)
    BY DEF DepositOut
  <2>2. DepositOut(output).value = BridgeAmount - 1
    BY <2>1 DEF Out
  <2>3. DepositOut(output).value = BridgeAmount
    BY <1>3 DEF Out
  <2>4. QED
    BY <2>2, <2>3, AmountsAssumption
<1>5. output # "address"
  <2> SUFFICES ASSUME output = "address" PROVE FALSE
    OBVIOUS
  <2>1. DepositOut(output) = Out(BridgeAmount, TweakedKey(User, <<>>))
    BY DEF DepositOut
  <2>2. DepositOut(output).to = TweakedKey(User, <<>>)
    BY <2>1 DEF Out
  <2>3. DepositOut(output).to = GenerateDepositAddress
    BY <1>3 DEF Out
  <2>4. TweakedKey(User, <<>>).party = User
    BY DEF TweakedKey
  <2>5. GenerateDepositAddress.party = Unspendable
    BY DEF GenerateDepositAddress, CreateTaprootAddress, TweakedKey
  <2>6. QED
    BY <2>2, <2>3, <2>4, <2>5 DEF User, Unspendable
<1>6. QED
  BY <1>1, <1>2, <1>4, <1>5 DEF DepositInv, Variants

-----------------------------------------------------------------------------
(* A call of the ceremony leaves the chain alone.                          *)
LEMMA CeremonyChain == Ceremony => UNCHANGED chainVars
  BY DEF Ceremony, VerifierNewDeposit, AggregateNonces, OperatorNewDeposit,
     OperatorKickoffsGenerated, AggregateSlashOrTakeSigs, AggregateSigs, BurnTxsSigned,
     AggregateOperatorTakeSigs, OperatorTakeTxsSigned, AggregateMoveTxSigs

(* Every block adds a confirmation, unless they are counted no further.    *)
LEMMA MineKeeps ==
    ASSUME DepositInv, NEW s \in SUBSET Mempool, Mine(s)
    PROVE  DepositInv' /\ \A d : Deep(d) /\ Buried(d) => Buried(d)' /\ output' = output
<1>1. age \in [Txs -> Int] /\ lag \in Nat /\ DepositTx \in Txs
  BY DepositTxFacts DEF DepositInv
<1>2. /\ age' = [t \in Txs |->
                 IF t \in s \/ (age[t] >= 1 /\ ~ Final(t)) THEN age[t] + 1 ELSE age[t]]
      /\ lag' = Larger(lag - 1, 0)
      /\ UNCHANGED <<output, wit>>
  BY DEF Mine
<1>3. \A t \in s : age[t] = 0
  BY DEF Mempool
<1>4. age' \in [Txs -> Int]
  BY <1>1, <1>2
<1>5. lag' \in Nat /\ lag' >= lag - 1
  BY <1>1, <1>2 DEF Larger
<1>6. age'[DepositTx] = IF DepositTx \in s \/ (age[DepositTx] >= 1 /\ ~ Final(DepositTx))
                        THEN age[DepositTx] + 1 ELSE age[DepositTx]
  BY <1>1, <1>2
<1>7. age'[DepositTx] = Unknown <=> age[DepositTx] = Unknown
  BY <1>1, <1>3, <1>6 DEF Unknown
<1>8. DepositInv'
  BY <1>2, <1>4, <1>5, <1>7 DEF DepositInv
<1>9. ASSUME NEW d, Deep(d), Buried(d) PROVE Buried(d)'
  <2>1. d \in Nat /\ age[DepositTx] >= 1 /\ age[DepositTx] + lag >= d
    BY <1>9 DEF Deep, Buried
  <2>2. CASE Final(DepositTx)
    <3>1. age[DepositTx] >= d
      BY <1>9, <2>2, DepositHorizon DEF Final
    <3>2. age'[DepositTx] >= age[DepositTx]
      BY <1>1, <1>6
    <3>3. QED
      BY <1>1, <1>4, <1>5, <2>1, <3>1, <3>2 DEF Buried
  <2>3. CASE ~ Final(DepositTx)
    BY <1>1, <1>2, <1>5, <1>6, <2>1, <2>3 DEF Buried
  <2>4. QED
    BY <2>2, <2>3
<1>10. QED
  BY <1>2, <1>8, <1>9

(* A reorganisation happens to a chain that has caught up with the last    *)
(* one, and disconnects at most MaxReorg blocks.                           *)
LEMMA DisconnectKeeps ==
    ASSUME DepositInv, NEW k \in 1 .. MaxReorg, NEW lost, Disconnect(k, lost)
    PROVE  DepositInv' /\ \A d : Deep(d) /\ Buried(d) => Buried(d)' /\ output' = output
<1> DEFINE back == [t \in Txs |-> IF age[t] >= 1 THEN Larger(age[t] - k, 0) ELSE age[t]]
           stay == {t \in Txs : \/ back[t] >= 1
                                \/ back[t] = 0 /\ t \notin lost
                                   /\ (t # DepositTx => SequenceLocksPass(t, back))}
           kept == UNION {s \in SUBSET stay : \A t \in s : ParentsIn(t, back, s)}
<1>1. age \in [Txs -> Int] /\ lag = 0 /\ DepositTx \in Txs /\ Parents(DepositTx) = {}
      /\ k \in Nat /\ k >= 1 /\ k <= MaxReorg
  BY DepositTxFacts, ReorgAssumption DEF DepositInv, Disconnect
<1>2. /\ age' = [t \in Txs |-> IF t \in kept THEN back[t] ELSE Unknown]
      /\ output' = IF DepositTx \in kept THEN output ELSE "none"
      /\ lag' = k + 1 /\ UNCHANGED wit
  BY Zenon DEF Disconnect
<1>3. back \in [Txs -> Int]
  BY <1>1 DEF Larger
<1>4. kept \subseteq stay
  OBVIOUS
<1>5. back[DepositTx] = IF age[DepositTx] >= 1 THEN Larger(age[DepositTx] - k, 0)
                        ELSE age[DepositTx]
  BY <1>1
<1>6. DepositTx \in kept => back[DepositTx] >= 0
  BY <1>3, <1>4
<1>7. back[DepositTx] >= 1 => DepositTx \in kept
  <2> SUFFICES ASSUME back[DepositTx] >= 1 PROVE DepositTx \in kept
    OBVIOUS
  <2>1. {DepositTx} \in SUBSET stay
    BY <1>1
  <2>2. \A t \in {DepositTx} : ParentsIn(t, back, {DepositTx})
    BY <1>1 DEF ParentsIn
  <2>3. QED
    BY <2>1, <2>2
<1> HIDE DEF back, stay, kept
<1>8. age' \in [Txs -> Int] /\ lag' \in Nat
  BY <1>1, <1>2, <1>3 DEF Unknown
<1>9. age'[DepositTx] = IF DepositTx \in kept THEN back[DepositTx] ELSE Unknown
  BY <1>1, <1>2
<1>10. output' \in Variants /\ (age'[DepositTx] = Unknown <=> output' = "none")
  <2>1. CASE DepositTx \in kept
    <3>1. back[DepositTx] >= 0 /\ age'[DepositTx] = back[DepositTx] /\ output' = output
      BY <1>2, <1>6, <1>9, <2>1
    <3>2. age[DepositTx] # Unknown
      BY <1>1, <1>5, <3>1 DEF Unknown
    <3>3. QED
      BY <1>3, <3>1, <3>2 DEF DepositInv, Unknown
  <2>2. CASE DepositTx \notin kept
    BY <1>2, <1>9, <2>2 DEF Variants
  <2>3. QED
    BY <2>1, <2>2
<1>11. DepositInv'
  BY <1>2, <1>8, <1>10 DEF DepositInv
<1>12. ASSUME NEW d, Deep(d), Buried(d) PROVE Buried(d)' /\ output' = output
  <2>1. d \in Nat /\ MaxReorg < d /\ age[DepositTx] >= d /\ age[DepositTx] \in Int
    BY <1>1, <1>12 DEF Deep, Buried
  <2>2. back[DepositTx] = age[DepositTx] - k /\ back[DepositTx] >= 1
    BY <1>1, <1>5, <2>1, ReorgAssumption DEF Larger
  <2>3. QED
    BY <1>1, <1>2, <1>7, <1>9, <2>1, <2>2, ReorgAssumption DEF Buried
<1>13. QED
  BY <1>11, <1>12

(* Whatever happens, a deposit with more confirmations than a              *)
(* reorganisation disconnects stays what it is.                            *)
LEMMA NextDeposit ==
    ASSUME DepositInv, [Next]_vars
    PROVE  DepositInv' /\ \A d : Deep(d) /\ Buried(d) => Buried(d)' /\ output' = output
<1> DEFINE Goal == DepositInv' /\ \A d : Deep(d) /\ Buried(d) => Buried(d)' /\ output' = output
<1>1. ASSUME NEW variant \in Variants \ {"none"}, UserDeposit(variant) PROVE Goal
  <2>1. output = "none" /\ output' = variant /\ age' = [age EXCEPT ![DepositTx] = 0]
        /\ UNCHANGED <<lag, wit>>
    BY <1>1 DEF UserDeposit
  <2>2. DepositInv'
    BY <2>1, DepositTxFacts DEF DepositInv, Unknown
  <2>3. \A d : ~ Buried(d)
    BY <2>1 DEF DepositInv, Buried, Unknown
  <2>4. QED
    BY <2>2, <2>3
<1>2. ASSUME UNCHANGED <<age, lag, output>>, DOMAIN wit' = DOMAIN wit,
             wit'[DepositTx] = wit[DepositTx]
      PROVE  Goal
  BY <1>2 DEF DepositInv, Buried
<1>3. ASSUME UserRecover \/ \E i \in Ops : WithdrawalProvedOnCitrea(i) PROVE Goal
  <2>1. UNCHANGED <<age, lag, output>>
    BY <1>3 DEF UserRecover, WithdrawalProvedOnCitrea, chainVars
  <2>2. DOMAIN wit' = DOMAIN wit /\ wit'[DepositTx] = wit[DepositTx]
    BY <1>3, DepositTxFacts DEF DepositInv, UserRecover, WithdrawalProvedOnCitrea
  <2>3. QED
    BY <1>2, <2>1, <2>2
<1>4. ASSUME Ceremony PROVE Goal
  <2>1. UNCHANGED <<age, lag, output>>
    BY <1>4, CeremonyChain DEF chainVars
  <2>2. DOMAIN wit' = DOMAIN wit /\ wit'[DepositTx] = wit[DepositTx]
    BY <1>4, DepositTxFacts DEF DepositInv, Ceremony, VerifierNewDeposit, AggregateNonces,
       OperatorNewDeposit, OperatorKickoffsGenerated, AggregateSlashOrTakeSigs, AggregateSigs,
       BurnTxsSigned, AggregateOperatorTakeSigs, OperatorTakeTxsSigned, AggregateMoveTxSigs
  <2>3. QED
    BY <1>2, <2>1, <2>2
<1>5. ASSUME NEW t \in Txs, SendRawTransaction(t) PROVE Goal
  <2>1. t # DepositTx
    BY <1>5 DEF SendRawTransaction, Completed, DepositInv
  <2>2. age' = [age EXCEPT ![t] = 0] /\ UNCHANGED <<output, lag, wit>>
    BY <1>5 DEF SendRawTransaction
  <2>3. age' \in [Txs -> Int] /\ age'[DepositTx] = age[DepositTx]
    BY <2>1, <2>2, DepositTxFacts DEF DepositInv
  <2>4. QED
    BY <2>2, <2>3 DEF DepositInv, Buried
<1>6. ASSUME NEW s \in SUBSET Mempool, Mine(s) PROVE Goal
  BY <1>6, MineKeeps
<1>7. ASSUME NEW k \in 1 .. MaxReorg, NEW lost, Disconnect(k, lost) PROVE Goal
  BY <1>7, DisconnectKeeps
<1>8. ASSUME UNCHANGED vars PROVE Goal
  BY <1>2, <1>8 DEF vars, chainVars
<1> HIDE DEF Goal
<1>9. Goal
  BY <1>1, <1>3, <1>4, <1>5, <1>6, <1>7, <1>8 DEF Next
<1>10. QED
  BY <1>9 DEF Goal

(* A deposit is accepted after check_deposit_utxo, deep enough to stay.    *)
LEMMA NextIInv == IInv /\ [Next]_vars => IInv'
<1> SUFFICES ASSUME IInv, [Next]_vars PROVE IInv'
  OBVIOUS
<1>1. DepositInv' /\ \A d : Deep(d) /\ Buried(d) => Buried(d)' /\ output' = output
  BY NextDeposit DEF IInv
<1>2. Deep(ConfirmationThreshold)
  BY ReorgAssumption, Timelocks DEF Deep, Larger
<1>3. CASE Accepted
  BY <1>1, <1>2, <1>3 DEF IInv, BuriedInv
<1>4. CASE ~ Accepted /\ Accepted'
  <2>1. Ceremony /\ CheckDepositUtxo
    BY <1>4 DEF Accepted, Next, vars, chainVars, clientVars, UserDeposit, UserRecover,
       WithdrawalProvedOnCitrea, SendRawTransaction, Mine, Disconnect, Ceremony,
       VerifierNewDeposit, AggregateNonces, OperatorNewDeposit, OperatorKickoffsGenerated,
       AggregateSlashOrTakeSigs, AggregateSigs, BurnTxsSigned, AggregateOperatorTakeSigs,
       OperatorTakeTxsSigned, AggregateMoveTxSigs
  <2>2. output = "right" /\ age[DepositTx] >= ConfirmationThreshold
    BY <2>1, CheckedDeposit DEF IInv
  <2>3. age[DepositTx] \in Int /\ lag \in Nat
    BY DepositTxFacts DEF IInv, DepositInv
  <2>4. Buried(ConfirmationThreshold)
    BY <2>2, <2>3, ReorgAssumption DEF Buried
  <2>5. QED
    BY <1>1, <1>2, <2>2, <2>4 DEF IInv, BuriedInv
<1>5. QED
  BY <1>1, <1>3, <1>4 DEF IInv, BuriedInv

(* A deposit that check_deposit_utxo accepted for a verifier or an         *)
(* operator is on the chain ever after, with the amount and the address    *)
(* that were asked for, when reorganisations are shorter than              *)
(* confirmation_threshold.                                                 *)
THEOREM AcceptedDepositsAlwaysStay == Spec => []AcceptedDepositsStay
<1>1. Init => IInv
  BY DepositTxFacts DEF Init, IInv, DepositInv, BuriedInv, Accepted, Variants, Unknown
<1>2. IInv => AcceptedDepositsStay
  BY DEF IInv, BuriedInv, Buried, Accepted, AcceptedDepositsStay
<1>3. QED
  BY <1>1, <1>2, NextIInv, PTL DEF Spec

-----------------------------------------------------------------------------
(* What the parties hold when they follow the protocol: the signatures of  *)
(* all for the transactions as they are built, and complete witnesses.     *)

SotTx(i)  == CreateSlashOrTakeTx(i, KickoffOut(i))
TakeTx(i) == CreateOperatorTakesTx(i, KickoffOut(i))

SotSigs ==
    [j \in 1 .. N |->
        AggregatePartialSignatures(FALSE, ConvertTxToSighashScriptSpend(SotTx(j - 1), 1, 1))]
TakeSigs ==
    [j \in 1 .. N |->
        AggregatePartialSignatures(TRUE, ConvertTxToSighashPubkeySpend(TakeTx(j - 1), 1))]

RecoveryWitness(variant) ==
    <<HandleTaprootWitnessNew(CreateRecoveryTx(variant),
        <<SignTaprootScriptSpendTxNewTweaked(User, CreateRecoveryTx(variant), 1, 1)>>, 1, 1)>>
MoveWitness ==
    <<HandleTaprootWitnessNew(CreateMoveTxHandler,
        <<AggregatePartialSignatures(FALSE, MoveSighash)>>, 1, 1)>>
GenWitness(i) ==
    <<HandleTaprootWitnessNew(CreateKickoffUtxoTx(i),
        <<SignTaprootPubkeySpend(i, CreateKickoffUtxoTx(i), 1)>>, 1, 0)>>
SotWitness(i) ==
    <<HandleTaprootWitnessNew(SotTx(i),
        <<SignTaprootScriptSpendTx(i, SotTx(i), 1, 1), SotSigs[i + 1]>>, 1, 1)>>
TakeWitness(i) ==
    <<HandleTaprootWitnessNew(TakeTx(i), <<TakeSigs[i + 1]>>, 1, 0),
      HandleTaprootWitnessNew(TakeTx(i), <<SignTaprootScriptSpendTx(i, TakeTx(i), 2, 1)>>, 2, 1)>>

IsSeq(s) == s \in Seq({s[k] : k \in DOMAIN s})

(* The client's lists: how far the calls have come, and what the operators *)
(* answered.                                                               *)
ListInv ==
    /\ stage \in {"nonces", "operators", "kickoffs", "burn", "take", "done"}
    /\ IsSeq(nonces) /\ IsSeq(kicks) /\ IsSeq(psigs)
    /\ Len(nonces) <= NumVerifiers /\ Len(psigs) <= NumVerifiers
    /\ \A v \in 1 .. Len(nonces) : Len(nonces[v]) = NumRequiredNonces
    /\ stage = "nonces" => Len(kicks) = 0
    /\ stage = "operators" => Len(kicks) < N
    /\ stage \notin {"nonces", "operators"} => Len(kicks) = N
    /\ \A i \in 0 .. Len(kicks) - 1 : kicks[i + 1] = KickoffOut(i)
    /\ stage \notin {"nonces", "done"} => Len(agg) = NumRequiredNonces

(* The signatures that the client holds and the ones that are saved.  A    *)
(* verifier is asked for operator_takes only when all of them have saved   *)
(* slash_or_take.                                                          *)
SigsInv ==
    /\ stage = "burn" => sigs = SotSigs
    /\ stage = "take" => sigs = TakeSigs
    /\ stage \notin {"burn", "take"} => sigs = <<>>
    /\ db \in [1 .. NumVerifiers -> [sot : {<<>>, SotSigs}, take : {<<>>, TakeSigs}]]
    /\ stage \in {"nonces", "operators", "kickoffs"} =>
            \A v \in 1 .. NumVerifiers : db[v].sot = <<>>
    /\ stage = "burn" => \A v \in 1 .. Len(psigs) : db[v].sot = SotSigs
    /\ stage \in {"take", "done"} => \A v \in 1 .. NumVerifiers : db[v].sot = SotSigs
    /\ stage \notin {"take", "done"} => \A v \in 1 .. NumVerifiers : db[v].take = <<>>

(* Complete transactions have the right witnesses.  The deposit that the   *)
(* user takes back is old enough to stay what it is, when the user's       *)
(* timelock is longer than a reorganisation.                               *)
WitInv ==
    /\ MaxReorg < UserTakesAfter /\ RecoveryTx \in Completed =>
            /\ output \in {"right", "amount"}
            /\ wit[RecoveryTx] = RecoveryWitness(output)
            /\ Buried(UserTakesAfter)
    /\ MoveTx \in Completed => stage = "done" /\ wit[MoveTx] = MoveWitness
    /\ \A i \in Ops :
        /\ Gen(i) \in Completed => wit[Gen(i)] = GenWitness(i)
        /\ Sot(i) \in Completed => wit[Sot(i)] = SotWitness(i)
        /\ Take(i) \in Completed => wit[Take(i)] = TakeWitness(i) /\ Sot(i) \in Completed

(* Confirmations are in their bounds, and what has any is complete.        *)
AgeInv ==
    /\ \A t \in Txs : age[t] \in Unknown .. Horizon(t)
    /\ \A t \in Txs \ {DepositTx} : age[t] > Unknown => t \in Completed
    /\ lag \in 0 .. MaxReorg + 1 /\ reorgs \in 0 .. MaxReorgs
-----------------------------------------------------------------------------
(* Lists.                                                                  *)

(* What a list is after a call has added to it.                            *)
LEMMA AppendFacts ==
    ASSUME NEW s, IsSeq(s), NEW e
    PROVE  /\ IsSeq(Append(s, e)) /\ Len(s) \in Nat /\ Len(Append(s, e)) = Len(s) + 1
           /\ \A k \in 1 .. Len(s) : Append(s, e)[k] = s[k]
           /\ Append(s, e)[Len(s) + 1] = e
<1> DEFINE S == {s[k] : k \in DOMAIN s}
           T == S \cup {e}
<1>1. s \in Seq(S)
  BY DEF IsSeq
<1> HIDE DEF S
<1>2. s \in Seq(T) /\ e \in T
  BY <1>1
<1> HIDE DEF T
<1> DEFINE a == Append(s, e)
<1>3. a \in Seq(T) /\ Len(s) \in Nat /\ Len(a) = Len(s) + 1 /\ DOMAIN a = 1 .. Len(s) + 1
  BY <1>2
<1>4. (\A k \in 1 .. Len(s) : a[k] = s[k]) /\ a[Len(s) + 1] = e
  BY <1>2
<1>5. IsSeq(a)
  <2> HIDE DEF a
  <2> DEFINE R == {a[k] : k \in DOMAIN a}
  <2>1. \A k \in 1 .. Len(a) : a[k] \in R
    BY <1>3
  <2>2. a \in Seq(R)
    <3> HIDE DEF R
    <3>1. QED
      BY <1>3, <2>1
  <2>3. QED
    BY <2>2 DEF IsSeq
<1>6. QED
  BY <1>3, <1>4, <1>5

(* Short and empty lists.                                                  *)
LEMMA SmallLists ==
    /\ IsSeq(<<>>) /\ Len(<<>>) = 0
    /\ \A x : <<x>> # <<>> /\ Len(<<x>>) = 1
    /\ \A x, y : <<x, y>> # <<>> /\ Len(<<x, y>>) = 2
    /\ \A s : IsSeq(s) /\ s = <<>> => Len(s) = 0
    /\ \A s : IsSeq(s) /\ Len(s) = 0 => s = <<>>
  BY DEF IsSeq

(* A function on 1 .. n is a list of length n.                             *)
LEMMA FunctionLength ==
    ASSUME NEW n \in Nat, NEW f, f = [j \in 1 .. n |-> f[j]]
    PROVE  Len(f) = n /\ (n > 0 => f # <<>>)
<1> DEFINE R == {f[j] : j \in 1 .. n}
<1>1. f \in [1 .. n -> R]
  OBVIOUS
<1> HIDE DEF R
<1>2. f \in Seq(R)
  BY <1>1
<1>3. DOMAIN f = 1 .. n
  BY <1>1
<1>4. Len(f) = n
  BY <1>2, <1>3
<1>5. QED
  BY <1>4, SmallLists

(* There is an operator, and no more of them than verifiers.               *)
LEMMA Counts ==
    /\ NumVerifiers \in Nat \ {0} /\ N \in Nat \ {0} /\ N <= NumVerifiers
    /\ NumRequiredNonces = 2 * N + 1 /\ NumRequiredNonces \in Nat
  BY ParticipantsAssumption DEF NumRequiredNonces

(* The calls of the ceremony keep the lists in step with the stage.        *)
LEMMA ListsKeep == ListInv /\ [Next]_vars => ListInv'
<1> SUFFICES ASSUME ListInv, [Next]_vars PROVE ListInv'
  OBVIOUS
<1> USE Counts, SmallLists
<1> DEFINE lists == <<stage, nonces, agg, kicks, psigs>>
<1>0. Len(nonces) \in Nat /\ Len(kicks) \in Nat /\ Len(psigs) \in Nat
  BY AppendFacts DEF ListInv
<1>1. CASE UNCHANGED lists
  BY <1>1 DEF ListInv
<1>2. CASE VerifierNewDeposit
  <2> DEFINE e == [j \in 1 .. NumRequiredNonces |-> NoncePair(Len(nonces) + 1, j-1)]
  <2>1. Len(e) = NumRequiredNonces
    BY FunctionLength
  <2>2. /\ nonces' = Append(nonces, e) /\ Len(nonces) + 1 <= NumVerifiers
        /\ UNCHANGED <<stage, agg, kicks, psigs>>
    BY <1>2 DEF VerifierNewDeposit
  <2> HIDE DEF e
  <2>3. /\ IsSeq(nonces') /\ Len(nonces') = Len(nonces) + 1
        /\ \A k \in 1 .. Len(nonces) : nonces'[k] = nonces[k]
        /\ nonces'[Len(nonces) + 1] = e
    BY <2>2, AppendFacts DEF ListInv
  <2>4. \A v \in 1 .. Len(nonces') : Len(nonces'[v]) = NumRequiredNonces
    BY <1>0, <2>1, <2>3 DEF ListInv
  <2>5. QED
    BY <1>0, <2>2, <2>3, <2>4 DEF ListInv
<1>3. CASE AggregateNonces
  <2>1. /\ agg' = AggregatePubNonces(nonces) /\ Len(nonces) = NumVerifiers
        /\ stage = "nonces" /\ stage' = "operators" /\ UNCHANGED <<nonces, kicks, psigs>>
    BY <1>3 DEF AggregateNonces
  <2>2. Len(nonces[1]) = NumRequiredNonces
    BY <2>1 DEF ListInv
  <2>3. agg' = [j \in 1 .. NumRequiredNonces |-> [v \in DOMAIN nonces |-> nonces[v][j]]]
    BY <2>1, <2>2 DEF AggregatePubNonces
  <2>4. Len(agg') = NumRequiredNonces
    BY <2>3, FunctionLength
  <2>5. nonces' = nonces /\ kicks' = kicks /\ psigs' = psigs /\ stage' = "operators"
    BY <2>1
  <2>6. Len(kicks) = 0 /\ 0 < N
    BY <2>1 DEF ListInv
  <2>7. /\ IsSeq(nonces) /\ IsSeq(kicks) /\ IsSeq(psigs)
        /\ Len(nonces) <= NumVerifiers /\ Len(psigs) <= NumVerifiers
        /\ \A v \in 1 .. Len(nonces) : Len(nonces[v]) = NumRequiredNonces
        /\ \A i \in 0 .. Len(kicks) - 1 : kicks[i + 1] = KickoffOut(i)
    BY DEF ListInv
  <2>8. QED
    <3> HIDE Counts, SmallLists
    <3>1. QED
      BY <2>4, <2>5, <2>6, <2>7 DEF ListInv
<1>4. CASE OperatorNewDeposit
  <2>1. /\ kicks' = Append(kicks, KickoffOut(Len(kicks)))
        /\ stage = "operators" /\ stage' = IF Len(kicks) = N - 1 THEN "kickoffs" ELSE stage
        /\ UNCHANGED <<nonces, agg, psigs>>
    BY <1>4 DEF OperatorNewDeposit, KickoffOut
  <2>2. /\ IsSeq(kicks') /\ Len(kicks') = Len(kicks) + 1
        /\ \A k \in 1 .. Len(kicks) : kicks'[k] = kicks[k]
        /\ kicks'[Len(kicks) + 1] = KickoffOut(Len(kicks))
    BY <2>1, AppendFacts DEF ListInv
  <2>3. ASSUME NEW i \in 0 .. Len(kicks') - 1 PROVE kicks'[i + 1] = KickoffOut(i)
    <3>1. CASE i = Len(kicks)
      BY <2>2, <3>1
    <3>2. CASE i # Len(kicks)
      <4>1. i \in 0 .. Len(kicks) - 1 /\ i + 1 \in 1 .. Len(kicks)
        BY <1>0, <2>2, <3>2
      <4>2. QED
        BY <2>2, <4>1 DEF ListInv
    <3>3. QED
      BY <3>1, <3>2
  <2>4. QED
    BY <1>0, <2>1, <2>2, <2>3 DEF ListInv
<1>5. CASE OperatorKickoffsGenerated \/ BurnTxsSigned \/ OperatorTakeTxsSigned
  <2>1. PICK e : psigs' = Append(psigs, e)
    BY <1>5 DEF OperatorKickoffsGenerated, BurnTxsSigned, OperatorTakeTxsSigned
  <2>2. Len(psigs) < NumVerifiers /\ UNCHANGED <<stage, nonces, agg, kicks>>
    BY <1>5 DEF OperatorKickoffsGenerated, BurnTxsSigned, OperatorTakeTxsSigned, Caller
  <2>3. IsSeq(psigs') /\ Len(psigs') = Len(psigs) + 1
    BY <2>1, AppendFacts DEF ListInv
  <2>4. QED
    BY <1>0, <2>2, <2>3 DEF ListInv
<1>6. CASE AggregateSlashOrTakeSigs \/ AggregateOperatorTakeSigs
  <2>1. /\ psigs' = <<>> /\ UNCHANGED <<nonces, agg, kicks>>
        /\ \/ stage = "kickoffs" /\ stage' = "burn"
           \/ stage = "burn" /\ stage' = "take"
    BY <1>6 DEF AggregateSlashOrTakeSigs, AggregateOperatorTakeSigs, AggregateSigs
  <2>2. QED
    BY <1>0, <2>1 DEF ListInv
<1>7. CASE AggregateMoveTxSigs
  <2>1. psigs' = <<>> /\ nonces' = <<>> /\ agg' = <<>> /\ kicks' = kicks
        /\ stage = "take" /\ stage' = "done"
    BY <1>7 DEF AggregateMoveTxSigs
  <2>2. QED
    BY <1>0, <2>1 DEF ListInv
<1>8. CASE UNCHANGED vars
  BY <1>1, <1>8 DEF vars, clientVars
<1>9. CASE Next /\ ~ Ceremony
  BY <1>1, <1>9 DEF Next, UserDeposit, UserRecover, WithdrawalProvedOnCitrea, SendRawTransaction,
     Mine, Disconnect, clientVars
<1>10. QED
  BY <1>2, <1>3, <1>4, <1>5, <1>6, <1>7, <1>8, <1>9 DEF Ceremony

(* The sighashes the parties compute are those of the transactions as they *)
(* are built: the operators answered with the kickoff that they made.      *)
LEMMA Sighashes ==
    ASSUME ListInv, stage \notin {"nonces", "operators"}, NEW i \in Ops
    PROVE  /\ kicks[i + 1] = KickoffOut(i)
           /\ SotSighash(i) = ConvertTxToSighashScriptSpend(SotTx(i), 1, 1)
           /\ TakeSighash(i) = ConvertTxToSighashPubkeySpend(TakeTx(i), 1)
<1>1. i \in 0 .. Len(kicks) - 1
  BY Counts DEF ListInv, Ops
<1>2. kicks[i + 1] = KickoffOut(i)
  BY <1>1 DEF ListInv
<1>3. QED
  BY <1>2 DEF SotSighash, TakeSighash, SotTx, TakeTx

(* What is signed by all, as the aggregator returns it.                    *)
LEMMA AggregatedSigs ==
    ASSUME ListInv, stage \notin {"nonces", "operators"}
    PROVE  /\ [j \in 1 .. N |-> AggregatePartialSignatures(FALSE, SotSighash(j - 1))] = SotSigs
           /\ [j \in 1 .. N |-> AggregatePartialSignatures(TRUE, TakeSighash(j - 1))] = TakeSigs
<1>1. \A j \in 1 .. N : j - 1 \in Ops
  BY Counts DEF Ops
<1>2. \A j \in 1 .. N :
        /\ SotSighash(j - 1) = ConvertTxToSighashScriptSpend(SotTx(j - 1), 1, 1)
        /\ TakeSighash(j - 1) = ConvertTxToSighashPubkeySpend(TakeTx(j - 1), 1)
  BY <1>1, Sighashes
<1>3. QED
  BY <1>2 DEF SotSigs, TakeSigs

(* There are N of them, so they are not the empty list.                    *)
LEMMA SigsLength == Len(SotSigs) = N /\ Len(TakeSigs) = N /\ SotSigs # <<>> /\ TakeSigs # <<>>
<1>1. N \in Nat /\ N > 0
  BY Counts
<1>2. SotSigs = [j \in 1 .. N |-> SotSigs[j]] /\ TakeSigs = [j \in 1 .. N |-> TakeSigs[j]]
  BY DEF SotSigs, TakeSigs
<1>3. QED
  BY <1>1, <1>2, FunctionLength

(* A call of one verifier replaces one field of its row.                   *)
LEMMA RowUpdate ==
    ASSUME NEW T, NEW U, NEW d \in [1 .. NumVerifiers -> [sot : T, take : U]],
           NEW c \in 1 .. NumVerifiers, NEW x
    PROVE  /\ x \in T =>
                /\ [d EXCEPT ![c].sot = x] \in [1 .. NumVerifiers -> [sot : T, take : U]]
                /\ [d EXCEPT ![c].sot = x][c] = [sot |-> x, take |-> d[c].take]
                /\ \A v \in 1 .. NumVerifiers \ {c} : [d EXCEPT ![c].sot = x][v] = d[v]
           /\ x \in U =>
                /\ [d EXCEPT ![c].take = x] \in [1 .. NumVerifiers -> [sot : T, take : U]]
                /\ [d EXCEPT ![c].take = x][c] = [sot |-> d[c].sot, take |-> x]
                /\ \A v \in 1 .. NumVerifiers \ {c} : [d EXCEPT ![c].take = x][v] = d[v]
  OBVIOUS

(* The calls of the ceremony keep the signatures right.                    *)
LEMMA SigsKeep == ListInv /\ SigsInv /\ [Next]_vars => SigsInv'
<1> SUFFICES ASSUME ListInv, SigsInv, [Next]_vars PROVE SigsInv'
  OBVIOUS
<1> USE Counts
<1>0. Len(psigs) \in Nat
  BY AppendFacts DEF ListInv
<1>1. CASE UNCHANGED <<stage, psigs, sigs, db>>
  BY <1>1 DEF SigsInv
<1>2. CASE VerifierNewDeposit \/ AggregateNonces \/ OperatorNewDeposit \/ OperatorKickoffsGenerated
  <2>1. /\ stage \in {"nonces", "operators", "kickoffs"}
        /\ stage' \in {"nonces", "operators", "kickoffs"} /\ UNCHANGED <<sigs, db>>
    BY <1>2 DEF VerifierNewDeposit, AggregateNonces, OperatorNewDeposit,
       OperatorKickoffsGenerated, Caller
  <2>2. QED
    BY <2>1 DEF SigsInv
<1>3. CASE AggregateSlashOrTakeSigs
  <2>1. /\ stage = "kickoffs" /\ stage' = "burn" /\ psigs' = <<>> /\ UNCHANGED db
        /\ sigs' = [j \in 1 .. N |-> AggregatePartialSignatures(FALSE, SotSighash(j - 1))]
    BY <1>3 DEF AggregateSlashOrTakeSigs, AggregateSigs
  <2>2. sigs' = SotSigs /\ UNCHANGED db
    BY <2>1, AggregatedSigs
  <2>3. Len(psigs') = 0
    BY <2>1, SmallLists
  <2>4. \A v : v \notin 1 .. Len(psigs')
    BY <2>3
  <2>5. stage = "kickoffs" /\ stage' = "burn"
    BY <2>1
  <2>6. QED
    BY <2>2, <2>4, <2>5 DEF SigsInv
<1>4. CASE AggregateOperatorTakeSigs
  <2>1. /\ stage = "burn" /\ stage' = "take" /\ Len(psigs) = NumVerifiers /\ UNCHANGED db
        /\ sigs' = [j \in 1 .. N |-> AggregatePartialSignatures(TRUE, TakeSighash(j - 1))]
    BY <1>4 DEF AggregateOperatorTakeSigs, AggregateSigs
  <2>2. sigs' = TakeSigs
    BY <2>1, AggregatedSigs
  <2>3. QED
    BY <2>1, <2>2 DEF SigsInv
<1>5. CASE BurnTxsSigned
  <2> DEFINE c == Len(psigs) + 1
  <2>1. /\ stage = "burn" /\ Len(psigs) < NumVerifiers /\ UNCHANGED <<stage, sigs>>
        /\ db' = [db EXCEPT ![c].sot = SotSigs]
    BY <1>5 DEF BurnTxsSigned, Caller, Called, SigsInv
  <2>2. Len(psigs') = c
    <3>1. PICK e : psigs' = Append(psigs, e)
      BY <1>5 DEF BurnTxsSigned
    <3>2. QED
      BY <3>1, AppendFacts DEF ListInv
  <2>3. c \in 1 .. NumVerifiers
    BY <1>0, <2>1
  <2>4. /\ db' \in [1 .. NumVerifiers -> [sot : {<<>>, SotSigs}, take : {<<>>, TakeSigs}]]
        /\ db'[c] = [sot |-> SotSigs, take |-> db[c].take]
        /\ \A v \in 1 .. NumVerifiers \ {c} : db'[v] = db[v]
    BY <2>1, <2>3, RowUpdate DEF SigsInv
  <2> HIDE DEF c
  <2>5. \A v \in 1 .. NumVerifiers : db'[v].take = <<>>
    BY <2>1, <2>3, <2>4 DEF SigsInv
  <2>6. \A v \in 1 .. c : db'[v].sot = SotSigs
    <3>1. \A v \in 1 .. c : v = c \/ v \in 1 .. Len(psigs)
      BY <1>0 DEF c
    <3>2. QED
      BY <2>1, <2>3, <2>4, <3>1 DEF SigsInv
  <2>7. QED
    BY <2>1, <2>2, <2>4, <2>5, <2>6 DEF SigsInv
<1>6. CASE OperatorTakeTxsSigned
  <2> DEFINE c == Len(psigs) + 1
  <2>1. /\ stage = "take" /\ Len(psigs) < NumVerifiers /\ UNCHANGED <<stage, sigs>>
        /\ db' = [db EXCEPT ![c].take = TakeSigs]
    BY <1>6 DEF OperatorTakeTxsSigned, Caller, Called, SigsInv
  <2>2. c \in 1 .. NumVerifiers
    BY <1>0, <2>1
  <2>3. /\ db' \in [1 .. NumVerifiers -> [sot : {<<>>, SotSigs}, take : {<<>>, TakeSigs}]]
        /\ db'[c] = [sot |-> db[c].sot, take |-> TakeSigs]
        /\ \A v \in 1 .. NumVerifiers \ {c} : db'[v] = db[v]
    BY <2>1, <2>2, RowUpdate DEF SigsInv
  <2> HIDE DEF c
  <2>4. \A v \in 1 .. NumVerifiers : db'[v].sot = SotSigs
    BY <2>1, <2>2, <2>3 DEF SigsInv
  <2>5. QED
    BY <2>1, <2>3, <2>4 DEF SigsInv
<1>7. CASE AggregateMoveTxSigs
  BY <1>7 DEF AggregateMoveTxSigs, SigsInv
<1>8. CASE UNCHANGED vars
  BY <1>1, <1>8 DEF vars, clientVars
<1>9. CASE Next /\ ~ Ceremony
  BY <1>1, <1>9 DEF Next, UserDeposit, UserRecover, WithdrawalProvedOnCitrea, SendRawTransaction,
     Mine, Disconnect, clientVars
<1>10. QED
  BY <1>2, <1>3, <1>4, <1>5, <1>6, <1>7, <1>8, <1>9 DEF Ceremony

-----------------------------------------------------------------------------
(* The transactions and their confirmations.                               *)

(* Which transactions there are; no two of their names are the same.       *)
LEMMA TxNames ==
    /\ \A t \in Txs : \/ t \in {DepositTx, RecoveryTx, MoveTx}
                      \/ \E i \in Ops : t \in {Gen(i), Sot(i), Take(i)}
    /\ {DepositTx, RecoveryTx, MoveTx} \subseteq Txs
    /\ \A i \in Ops : Gen(i) \in Txs /\ Sot(i) \in Txs /\ Take(i) \in Txs
    /\ RecoveryTx \notin {DepositTx, MoveTx} /\ MoveTx # DepositTx
    /\ \A i : /\ Gen(i) \notin {DepositTx, RecoveryTx, MoveTx}
              /\ Sot(i) \notin {DepositTx, RecoveryTx, MoveTx}
              /\ Take(i) \notin {DepositTx, RecoveryTx, MoveTx}
    /\ \A i, j : /\ Gen(i) \notin {Sot(j), Take(j)} /\ Sot(i) # Take(j)
                 /\ (i # j => Gen(i) # Gen(j) /\ Sot(i) # Sot(j) /\ Take(i) # Take(j))
<1>1. /\ DepositTx.kind = "deposit" /\ RecoveryTx.kind = "recovery" /\ MoveTx.kind = "move"
      /\ \A i : /\ Gen(i).kind = "gen" /\ Sot(i).kind = "sot" /\ Take(i).kind = "take"
                /\ Gen(i).op = i /\ Sot(i).op = i /\ Take(i).op = i
  BY DEF DepositTx, RecoveryTx, MoveTx, Gen, Sot, Take, Tx
<1>2. \A t \in Txs : \/ t \in {DepositTx, RecoveryTx, MoveTx}
                     \/ \E i \in Ops : t \in {Gen(i), Sot(i), Take(i)}
  BY DEF Txs
<1>3. /\ {DepositTx, RecoveryTx, MoveTx} \subseteq Txs
      /\ \A i \in Ops : Gen(i) \in Txs /\ Sot(i) \in Txs /\ Take(i) \in Txs
  BY DEF Txs
<1>4. /\ RecoveryTx \notin {DepositTx, MoveTx} /\ MoveTx # DepositTx
      /\ \A i : /\ Gen(i) \notin {DepositTx, RecoveryTx, MoveTx}
                /\ Sot(i) \notin {DepositTx, RecoveryTx, MoveTx}
                /\ Take(i) \notin {DepositTx, RecoveryTx, MoveTx}
  BY <1>1
<1>5. \A i, j : /\ Gen(i) \notin {Sot(j), Take(j)} /\ Sot(i) # Take(j)
                /\ (i # j => Gen(i) # Gen(j) /\ Sot(i) # Sot(j) /\ Take(i) # Take(j))
  BY <1>1
<1>6. QED
  BY <1>2, <1>3, <1>4, <1>5

(* At least one confirmation is counted.                                   *)
LEMMA HorizonPositive == \A t \in Txs : Horizon(t) \in Nat /\ Horizon(t) >= 1
<1> SUFFICES ASSUME NEW t \in Txs PROVE Horizon(t) \in Nat /\ Horizon(t) >= 1
  OBVIOUS
<1> DEFINE c == CASE t.kind = "deposit" -> Larger(ConfirmationThreshold, UserTakesAfter)
                  [] t.kind = "sot"     -> OperatorTakesAfter
                  [] OTHER              -> 1
<1>1. /\ Larger(ConfirmationThreshold, UserTakesAfter) \in Nat
      /\ Larger(ConfirmationThreshold, UserTakesAfter) >= 1
  BY Timelocks DEF Larger
<1>2. c \in {Larger(ConfirmationThreshold, UserTakesAfter), OperatorTakesAfter, 1}
  BY Zenon
<1> HIDE DEF c
<1>3. c \in Nat /\ c >= 1
  BY Timelocks, <1>1, <1>2
<1>4. Horizon(t) = MaxReorg + c
  BY DEF Horizon, c
<1>5. QED
  BY Timelocks, <1>3, <1>4

(* What is complete stays complete.                                        *)
LEMMA CompletedGrows ==
    ASSUME DOMAIN wit = Txs, ListInv, [Next]_vars
    PROVE  DOMAIN wit' = Txs /\ \A t \in Completed : t \in Completed'
<1> USE SmallLists
<1>1. CASE UNCHANGED wit
  BY <1>1 DEF Completed
<1>2. ASSUME NEW t, NEW w, w # <<>>, wit' = [wit EXCEPT ![t] = w]
      PROVE  DOMAIN wit' = Txs /\ \A u \in Completed : u \in Completed'
  BY <1>2 DEF Completed
<1>3. ASSUME UserRecover \/ OperatorNewDeposit \/ AggregateMoveTxSigs
      PROVE  DOMAIN wit' = Txs /\ \A u \in Completed : u \in Completed'
  <2>1. PICK t, x : wit' = [wit EXCEPT ![t] = <<x>>]
    BY <1>3 DEF UserRecover, OperatorNewDeposit, AggregateMoveTxSigs
  <2>2. QED
    BY <1>2, <2>1
<1>4. ASSUME NEW i \in Ops, WithdrawalProvedOnCitrea(i)
      PROVE  DOMAIN wit' = Txs /\ \A u \in Completed : u \in Completed'
  <2>1. PICK x, y, z : wit' = [wit EXCEPT ![Sot(i)] = <<x>>, ![Take(i)] = <<y, z>>]
    BY <1>4 DEF WithdrawalProvedOnCitrea
  <2>2. <<x>> # <<>> /\ <<y, z>> # <<>>
    OBVIOUS
  <2>3. QED
    BY <2>1, <2>2 DEF Completed
<1>5. CASE UNCHANGED vars
  BY <1>1, <1>5 DEF vars
<1>6. QED
  BY <1>1, <1>3, <1>4, <1>5 DEF Next, Ceremony, UserDeposit, SendRawTransaction, Mine, Disconnect,
     VerifierNewDeposit, AggregateNonces, OperatorKickoffsGenerated, AggregateSlashOrTakeSigs,
     AggregateSigs, BurnTxsSigned, AggregateOperatorTakeSigs, OperatorTakeTxsSigned

(* Blocks, reorganisations and the mempool keep confirmations in bounds    *)
(* and only ever know what somebody completed.                             *)
LEMMA AgesKeep == IInv /\ ListInv /\ AgeInv /\ [Next]_vars => AgeInv'
<1> SUFFICES ASSUME IInv, ListInv, AgeInv, [Next]_vars PROVE AgeInv'
  OBVIOUS
<1> USE DEF Unknown
<1>0. /\ age \in [Txs -> Int] /\ lag \in Nat /\ DOMAIN wit = Txs
      /\ DepositTx \in Txs /\ MaxReorg \in Nat /\ MaxReorgs \in Nat
  BY DepositTxFacts, ReorgAssumption DEF IInv, DepositInv
<1>1. \A t \in Txs : t \in Completed => t \in Completed'
  BY <1>0, CompletedGrows
<1>2. CASE UNCHANGED <<age, lag, reorgs>>
  BY <1>1, <1>2 DEF AgeInv
<1>3. ASSUME NEW t \in Txs, age' = [age EXCEPT ![t] = 0], t = DepositTx \/ t \in Completed,
             UNCHANGED <<lag, reorgs>>
      PROVE  AgeInv'
  <2>1. \A u \in Txs : age'[u] = IF u = t THEN 0 ELSE age[u]
    BY <1>0, <1>3
  <2>2. \A u \in Txs : age'[u] \in Unknown .. Horizon(u)
    BY <2>1, HorizonPositive DEF AgeInv
  <2>3. \A u \in Txs \ {DepositTx} : age'[u] > Unknown => u \in Completed'
    BY <1>1, <1>3, <2>1 DEF AgeInv
  <2>4. QED
    BY <1>3, <2>2, <2>3 DEF AgeInv
<1>4. ASSUME NEW s \in SUBSET Mempool, Mine(s) PROVE AgeInv'
  <2>1. /\ age' = [t \in Txs |->
                 IF t \in s \/ (age[t] >= 1 /\ ~ Final(t)) THEN age[t] + 1 ELSE age[t]]
        /\ lag' = Larger(lag - 1, 0) /\ reorgs' = reorgs
    BY <1>4 DEF Mine
  <2>2. \A t \in s : age[t] = 0
    BY DEF Mempool
  <2>3. ASSUME NEW t \in Txs
        PROVE  age'[t] \in Unknown .. Horizon(t) /\ (age'[t] > Unknown => age[t] > Unknown)
    <3>1. age[t] \in Unknown .. Horizon(t) /\ Horizon(t) \in Nat /\ Horizon(t) >= 1
      BY HorizonPositive DEF AgeInv
    <3>2. age'[t] = IF t \in s \/ (age[t] >= 1 /\ age[t] # Horizon(t)) THEN age[t] + 1 ELSE age[t]
      BY <2>1 DEF Final
    <3>3. QED
      BY <2>2, <3>1, <3>2
  <2>4. lag' \in 0 .. MaxReorg + 1
    BY <1>0, <2>1 DEF Larger, AgeInv
  <2>5. QED
    BY <1>1, <2>1, <2>3, <2>4 DEF AgeInv
<1>5. ASSUME NEW k \in 1 .. MaxReorg, NEW lost, Disconnect(k, lost) PROVE AgeInv'
  <2> DEFINE back == [t \in Txs |-> IF age[t] >= 1 THEN Larger(age[t] - k, 0) ELSE age[t]]
             stay == {t \in Txs : \/ back[t] >= 1
                                  \/ back[t] = 0 /\ t \notin lost
                                     /\ (t # DepositTx => SequenceLocksPass(t, back))}
             kept == UNION {s \in SUBSET stay : \A t \in s : ParentsIn(t, back, s)}
  <2>1. /\ age' = [t \in Txs |-> IF t \in kept THEN back[t] ELSE Unknown]
        /\ lag' = k + 1 /\ reorgs' = reorgs + 1 /\ reorgs < MaxReorgs
    BY <1>5, Zenon DEF Disconnect
  <2>2. \A t \in Txs : back[t] = IF age[t] >= 1 THEN Larger(age[t] - k, 0) ELSE age[t]
    OBVIOUS
  <2> HIDE DEF back, stay, kept
  <2>3. ASSUME NEW t \in Txs
        PROVE  age'[t] \in Unknown .. Horizon(t) /\ (age'[t] > Unknown => age[t] > Unknown)
    <3>1. age[t] \in Unknown .. Horizon(t) /\ Horizon(t) \in Nat /\ Horizon(t) >= 1
      BY HorizonPositive DEF AgeInv
    <3>2. k \in Nat
      BY <1>0
    <3>3. back[t] \in Unknown .. Horizon(t) /\ (back[t] > Unknown => age[t] > Unknown)
      BY <2>2, <3>1, <3>2 DEF Larger
    <3>4. age'[t] = IF t \in kept THEN back[t] ELSE Unknown
      BY <2>1
    <3>5. QED
      BY <3>1, <3>3, <3>4
  <2>4. lag' \in 0 .. MaxReorg + 1 /\ reorgs' \in 0 .. MaxReorgs
    BY <1>0, <2>1 DEF AgeInv
  <2>5. QED
    BY <1>1, <2>3, <2>4 DEF AgeInv
<1>6. ASSUME NEW variant \in Variants \ {"none"}, UserDeposit(variant) PROVE AgeInv'
  BY <1>0, <1>3, <1>6 DEF UserDeposit
<1>7. ASSUME NEW t \in Txs, SendRawTransaction(t) PROVE AgeInv'
  BY <1>3, <1>7 DEF SendRawTransaction
<1>8. ASSUME UserRecover \/ Ceremony \/ UNCHANGED vars \/ \E i \in Ops : WithdrawalProvedOnCitrea(i)
      PROVE  AgeInv'
  <2>1. UNCHANGED chainVars
    BY <1>8, CeremonyChain DEF UserRecover, WithdrawalProvedOnCitrea, vars
  <2>2. QED
    BY <1>2, <2>1 DEF chainVars
<1>9. QED
  BY <1>4, <1>5, <1>6, <1>7, <1>8 DEF Next

(* What the type invariant rests on.                                       *)
StateInv == IInv /\ ListInv /\ SigsInv /\ AgeInv

LEMMA StateInvHolds == Spec => []StateInv
<1>1. Init => StateInv
  <2> SUFFICES ASSUME Init PROVE StateInv
    OBVIOUS
  <2>1. IInv
    BY DepositTxFacts DEF Init, IInv, DepositInv, BuriedInv, Accepted, Variants, Unknown
  <2>2. Len(nonces) = 0 /\ Len(kicks) = 0 /\ Len(psigs) = 0
        /\ IsSeq(nonces) /\ IsSeq(kicks) /\ IsSeq(psigs)
    BY SmallLists DEF Init
  <2>3. ListInv
    BY <2>2, Counts DEF Init, ListInv
  <2>4. SigsInv
    BY DEF Init, SigsInv
  <2>5. AgeInv
    BY HorizonPositive, ReorgAssumption DEF Init, AgeInv, Unknown
  <2>6. QED
    BY <2>1, <2>3, <2>4, <2>5 DEF StateInv
<1>2. StateInv /\ [Next]_vars => StateInv'
  BY NextIInv, ListsKeep, SigsKeep, AgesKeep DEF StateInv
<1>3. QED
  BY <1>1, <1>2, PTL DEF Spec

(* Nothing is on the chain that nobody completed; the client's lists are   *)
(* as long as the calls that were made, with the nonces every call needs;  *)
(* a database with operator_takes signatures has all the slash_or_take     *)
(* ones.                                                                   *)
THEOREM TypeCorrect == Spec => []TypeOK
<1>1. StateInv => TypeOK
  <2> SUFFICES ASSUME StateInv PROVE TypeOK
    OBVIOUS
  <2> USE Counts
  <2>1. /\ output \in Variants
        /\ \A t \in Txs : age[t] \in Unknown .. Horizon(t)
        /\ lag \in 0 .. MaxReorg + 1 /\ reorgs \in 0 .. MaxReorgs
        /\ \A t \in Txs \ {DepositTx} : age[t] > Unknown => t \in Completed
        /\ age[DepositTx] = Unknown <=> output = "none"
    BY DEF StateInv, IInv, DepositInv, AgeInv
  <2>2. /\ stage \in {"nonces", "operators", "kickoffs", "burn", "take", "done"}
        /\ Len(nonces) <= NumVerifiers /\ Len(kicks) <= N /\ Len(psigs) <= NumVerifiers
        /\ stage \notin {"nonces", "done"} => Len(agg) = 2 * N + 1
    BY AppendFacts DEF StateInv, ListInv
  <2>3. Len(sigs) = IF stage \in {"burn", "take"} THEN N ELSE 0
    BY SigsLength, SmallLists DEF StateInv, SigsInv
  <2>4. \A v \in 1 .. NumVerifiers : db[v].take # <<>> => Len(db[v].sot) = N
    BY SigsLength DEF StateInv, SigsInv
  <2>5. QED
    BY <2>1, <2>2, <2>3, <2>4 DEF TypeOK
<1>2. QED
  BY <1>1, StateInvHolds, PTL

-----------------------------------------------------------------------------
(* Witnesses.                                                              *)

(* The transactions as they are built for this deposit.                    *)
LEMMA Handlers ==
    ASSUME output \in Variants
    PROVE  /\ HandlerOf(RecoveryTx) = CreateRecoveryTx(output)
           /\ HandlerOf(MoveTx) = CreateMoveTxHandler
           /\ \A i \in Ops : /\ HandlerOf(Gen(i)) = CreateKickoffUtxoTx(i)
                             /\ HandlerOf(Sot(i)) = SotTx(i)
                             /\ HandlerOf(Take(i)) = TakeTx(i)
<1>1. \A t : HandlerOf(t) = Built(output)[t]
  BY DEF HandlerOf, BuiltTxs
<1>2. HandlerOf(RecoveryTx) = CreateRecoveryTx(output) /\ HandlerOf(MoveTx) = CreateMoveTxHandler
  <2>1. RecoveryTx.kind = "recovery" /\ MoveTx.kind = "move"
    BY DEF RecoveryTx, MoveTx, Tx
  <2>2. RecoveryTx \in Txs \ {DepositTx} /\ MoveTx \in Txs \ {DepositTx}
    BY TxNames
  <2>3. QED
    BY <1>1, <2>1, <2>2 DEF Built
<1>3. ASSUME NEW i \in Ops
      PROVE  /\ HandlerOf(Gen(i)) = CreateKickoffUtxoTx(i)
             /\ HandlerOf(Sot(i)) = SotTx(i)
             /\ HandlerOf(Take(i)) = TakeTx(i)
  <2>1. /\ Gen(i).kind = "gen" /\ Sot(i).kind = "sot" /\ Take(i).kind = "take"
        /\ Gen(i).op = i /\ Sot(i).op = i /\ Take(i).op = i
    BY DEF Gen, Sot, Take, Tx
  <2>2. {Gen(i), Sot(i), Take(i)} \subseteq Txs \ {DepositTx}
    BY TxNames
  <2>3. QED
    BY <1>1, <2>1, <2>2 DEF Built, SotTx, TakeTx
<1>4. QED
  BY <1>2, <1>3

(* When the outputs that are spent are the ones the signer believed in,    *)
(* the node and the signer compute the same sighash.                       *)
LEMMA SameSighash ==
    ASSUME NEW t, NEW ins, NEW outs, NEW prevouts, NEW scripts, NEW infos, NEW input, NEW leaf
    PROVE  LET h == Handler(t, ins, outs, prevouts, scripts, infos)
           IN  Sighash([h EXCEPT !.prevouts = prevouts], input, leaf) = Sighash(h, input, leaf)
  BY DEF Handler, Sighash

(* A signature with the key of the address spends its output.              *)
LEMMA KeyPathValid ==
    ASSUME NEW t, NEW ins, NEW outs, NEW prevouts, NEW scripts, NEW infos, NEW input, NEW sig,
           NEW h, h = Handler(t, ins, outs, prevouts, scripts, infos),
           SignedBy(sig, prevouts[input].to, ConvertTxToSighashPubkeySpend(h, input))
    PROVE  WitnessSatisfies(HandleTaprootWitnessNew(h, <<sig>>, input, 0), h, input, prevouts)
<1> DEFINE w == HandleTaprootWitnessNew(h, <<sig>>, input, 0)
<1>1. w.leaf = KeySpend /\ w.elements = <<sig>>
  BY DEF HandleTaprootWitnessNew
<1>2. Sighash([h EXCEPT !.prevouts = prevouts], input, KeySpend)
        = ConvertTxToSighashPubkeySpend(h, input)
  BY SameSighash DEF ConvertTxToSighashPubkeySpend
<1>3. Len(w.elements) = 1 /\ w.elements[1] = sig
  BY <1>1
<1> HIDE DEF w
<1>4. WitnessSatisfies(w, h, input, prevouts)
  BY <1>1, <1>2, <1>3 DEF WitnessSatisfies
<1>5. QED
  BY <1>4 DEF w

(* So do signatures for the checks of a script of its tree, the last       *)
(* element for the first check, when the timelock of the script is within  *)
(* the sequence of the input.                                              *)
LEMMA ScriptPathValid ==
    ASSUME NEW t, NEW ins, NEW outs, NEW prevouts, NEW scripts, NEW infos, NEW input,
           NEW elements, NEW leaf,
           NEW h, h = Handler(t, ins, outs, prevouts, scripts, infos),
           leaf = scripts[input][1], leaf # KeySpend,
           infos[input] = prevouts[input].to,
           \E j \in DOMAIN prevouts[input].to.tree : prevouts[input].to.tree[j] = leaf,
           Len(elements) = Len(leaf.checks),
           \A j \in 1 .. Len(elements) :
                SignedBy(elements[Len(elements) + 1 - j], leaf.checks[j],
                         ConvertTxToSighashScriptSpend(h, input, 1)),
           TimelockMet(leaf, ins[input])
    PROVE  WitnessSatisfies(HandleTaprootWitnessNew(h, elements, input, 1), h, input, prevouts)
<1> DEFINE w == HandleTaprootWitnessNew(h, elements, input, 1)
           sh == Sighash([h EXCEPT !.prevouts = prevouts], input, leaf)
<1>1. h.scripts = scripts /\ h.infos = infos /\ h.ins = ins
  BY SMT DEF Handler
<1>2. w = [elements |-> elements, leaf |-> leaf, control |-> infos[input]]
  BY <1>1, SMT DEF HandleTaprootWitnessNew
<1>3. w.leaf = leaf /\ w.elements = elements /\ w.control = infos[input]
  BY <1>2, SMT
<1>4. sh = ConvertTxToSighashScriptSpend(h, input, 1)
  BY <1>1, SameSighash, SMT DEF ConvertTxToSighashScriptSpend
<1> HIDE DEF w, sh
<1>5. WitnessSatisfies(w, h, input, prevouts) <=>
        /\ infos[input] = prevouts[input].to
        /\ \E j \in DOMAIN prevouts[input].to.tree : prevouts[input].to.tree[j] = leaf
        /\ Len(elements) = Len(leaf.checks)
        /\ \A j \in 1 .. Len(elements) : SignedBy(elements[Len(elements) + 1 - j], leaf.checks[j], sh)
        /\ TimelockMet(leaf, h.ins[input])
  BY <1>3, Zenon DEF WitnessSatisfies, sh
<1>6. WitnessSatisfies(w, h, input, prevouts)
  BY <1>1, <1>4, <1>5, SMT
<1>7. QED
  BY <1>6 DEF w

(* Lists of one and of two, by their elements.                             *)
LEMMA Singles ==
    /\ \A x : DOMAIN <<x>> = {1} /\ <<x>>[1] = x
    /\ \A x, y : DOMAIN <<x, y>> = {1, 2} /\ <<x, y>>[1] = x /\ <<x, y>>[2] = y
    /\ \A f : f = [j \in {1} |-> f[j]] => f = <<f[1]>>
    /\ \A f : f = [j \in {1, 2} |-> f[j]] => f = <<f[1], f[2]>>
<1>1. \A x : DOMAIN <<x>> = {1} /\ <<x>>[1] = x
  OBVIOUS
<1>2. \A x, y : DOMAIN <<x, y>> = {1, 2} /\ <<x, y>>[1] = x /\ <<x, y>>[2] = y
  OBVIOUS
<1>3. \A f : f = [j \in {1} |-> f[j]] => f = <<f[1]>>
  BY <1>1
<1>4. \A f : f = [j \in {1, 2} |-> f[j]] => f = <<f[1], f[2]>>
  BY <1>2
<1>5. QED
  BY <1>1, <1>2, <1>3, <1>4

(* An input with the timelock of a script as its sequence meets it.        *)
LEMMA OwnTimelock ==
    ASSUME NEW n \in Nat, NEW key, NEW t
    PROVE  TimelockMet(GenerateRelativeTimelockScript(key, n), TxInWithSequence(t, 0, n))
<1> DEFINE leaf == GenerateRelativeTimelockScript(key, n)
           in   == TxInWithSequence(t, 0, n)
<1>1. leaf.csv = n /\ in.sequence = n % 65536
  BY SMT DEF GenerateRelativeTimelockScript, TxInWithSequence
<1> HIDE DEF leaf, in
<1>2. TimelockMet(leaf, in)
  BY <1>1, SMT DEF TimelockMet, NoLock
<1>3. QED
  BY <1>2 DEF leaf, in

(* The timelocks of the constants.                                         *)
LEMMA ConstantTimelocks ==
    \A key, t :
        /\ TimelockMet(GenerateRelativeTimelockScript(key, UserTakesAfter),
                       TxInWithSequence(t, 0, UserTakesAfter))
        /\ TimelockMet(GenerateRelativeTimelockScript(key, OperatorTakesAfter),
                       TxInWithSequence(t, 0, OperatorTakesAfter))
  BY Timelocks, OwnTimelock

(* What is spent by a transaction with one input, and by one with two.     *)
LEMMA SpentLists ==
    ASSUME NEW t
    PROVE  /\ \A x : HandlerOf(t).ins = <<x>> => Spent(t) = <<SpentOut(x)>>
           /\ \A x, y : HandlerOf(t).ins = <<x, y>> => Spent(t) = <<SpentOut(x), SpentOut(y)>>
<1>1. ASSUME NEW x, HandlerOf(t).ins = <<x>> PROVE Spent(t) = <<SpentOut(x)>>
  <2>1. DOMAIN HandlerOf(t).ins = {1} /\ HandlerOf(t).ins[1] = x
    BY <1>1, Singles
  <2>2. Spent(t) = [j \in {1} |-> Spent(t)[j]] /\ Spent(t)[1] = SpentOut(x)
    BY <2>1 DEF Spent
  <2>3. QED
    BY <2>2, Singles
<1>2. ASSUME NEW x, NEW y, HandlerOf(t).ins = <<x, y>>
      PROVE  Spent(t) = <<SpentOut(x), SpentOut(y)>>
  <2>1. DOMAIN HandlerOf(t).ins = {1, 2} /\ HandlerOf(t).ins[1] = x /\ HandlerOf(t).ins[2] = y
    BY <1>2, Singles
  <2>2. /\ Spent(t) = [j \in {1, 2} |-> Spent(t)[j]]
        /\ Spent(t)[1] = SpentOut(x) /\ Spent(t)[2] = SpentOut(y)
    BY <2>1 DEF Spent
  <2>3. QED
    BY <2>2, Singles
<1>3. QED
  BY <1>1, <1>2

(* The outputs that are spent are the ones of the transactions as they are *)
(* built, and the one that the deposit has.                                *)
MovedOut == Out(BridgeAmount - MoveTxMinRelayFee - AnyoneCanSpend.value, CreateMusig2Address)

LEMMA SpentOuts ==
    ASSUME output \in Variants
    PROVE  /\ Spent(RecoveryTx) = <<DepositOut(output)>>
           /\ Spent(MoveTx) = <<DepositOut(output)>>
           /\ \A i \in Ops : /\ Spent(Gen(i)) = <<FundingOut(i)>>
                             /\ Spent(Sot(i)) = <<KickoffOut(i)>>
                             /\ Spent(Take(i)) = <<MovedOut, SotTx(i).outs[1]>>
<1>1. /\ DepositTx.kind = "deposit" /\ MoveTx.kind = "move"
      /\ \A i : Gen(i).kind = "gen" /\ Sot(i).kind = "sot"
      /\ \A i : Tx("fund", i).kind = "fund" /\ Tx("fund", i).op = i
  BY DEF DepositTx, MoveTx, Gen, Sot, Tx
<1>2. \A t, k : /\ TxIn(t, k).tx = t /\ TxIn(t, k).vout = k
               /\ \A n : TxInWithSequence(t, k, n).tx = t /\ TxInWithSequence(t, k, n).vout = k
  BY DEF TxIn, TxInWithSequence
<1>3. \A in : in.tx = DepositTx => SpentOut(in) = DepositOut(output)
  BY <1>1 DEF SpentOut
<1>4. ASSUME NEW in, in.tx.kind \in {"gen", "move", "sot"}
      PROVE  SpentOut(in) = HandlerOf(in.tx).outs[in.vout + 1]
  <2>1. in.tx.kind # "fund" /\ in.tx.kind # "deposit"
    BY <1>4
  <2>2. QED
    BY <2>1, Zenon DEF SpentOut
<1>5. Spent(RecoveryTx) = <<DepositOut(output)>>
  <2> DEFINE in == TxInWithSequence(DepositTx, 0, UserTakesAfter)
  <2>1. HandlerOf(RecoveryTx).ins = <<in>>
    BY Handlers DEF CreateRecoveryTx, Handler
  <2>2. in.tx = DepositTx
    BY <1>2
  <2> HIDE DEF in
  <2>3. QED
    BY <1>3, <2>1, <2>2, SpentLists
<1>6. Spent(MoveTx) = <<DepositOut(output)>>
  <2> DEFINE in == TxIn(DepositTx, 0)
  <2>1. HandlerOf(MoveTx).ins = <<in>>
    BY Handlers DEF CreateMoveTxHandler, Handler
  <2>2. in.tx = DepositTx
    BY <1>2
  <2> HIDE DEF in
  <2>3. QED
    BY <1>3, <2>1, <2>2, SpentLists
<1>7. ASSUME NEW i \in Ops PROVE Spent(Gen(i)) = <<FundingOut(i)>>
  <2> DEFINE in == TxIn(Tx("fund", i), 0)
  <2>0. PICK outs : CreateKickoffUtxoTx(i) =
                Handler(Gen(i), <<in>>, outs, <<FundingOut(i)>>, <<<<>>>>, <<>>)
    BY Zenon DEF CreateKickoffUtxoTx
  <2>1. HandlerOf(Gen(i)).ins = <<in>>
    <3>1. CreateKickoffUtxoTx(i).ins = <<in>>
      BY <2>0 DEF Handler
    <3>2. QED
      BY <3>1, Handlers
  <2>2. in.tx.kind = "fund" /\ in.tx.op = i
    BY <1>1, <1>2
  <2> HIDE DEF in
  <2>3. SpentOut(in) = FundingOut(i)
    BY <2>2 DEF SpentOut
  <2>4. QED
    BY <2>1, <2>3, SpentLists
<1>8. ASSUME NEW i \in Ops PROVE Spent(Sot(i)) = <<KickoffOut(i)>>
  <2> DEFINE in == TxIn(Gen(i), 0)
  <2>1. HandlerOf(Sot(i)).ins = <<in>>
    BY Handlers DEF SotTx, CreateSlashOrTakeTx, Handler
  <2>2. in.tx = Gen(i) /\ in.tx.kind \in {"gen", "move", "sot"} /\ in.vout + 1 = 1
    BY <1>1, <1>2
  <2> HIDE DEF in
  <2>3. SpentOut(in) = KickoffOut(i)
    BY <1>4, <2>2, Handlers DEF KickoffOut
  <2>4. QED
    BY <2>1, <2>3, SpentLists
<1>9. ASSUME NEW i \in Ops PROVE Spent(Take(i)) = <<MovedOut, SotTx(i).outs[1]>>
  <2> DEFINE inm == TxIn(MoveTx, 0)
             ins == TxInWithSequence(Sot(i), 0, OperatorTakesAfter)
  <2>1. HandlerOf(Take(i)).ins = <<inm, ins>>
    BY Handlers DEF TakeTx, CreateOperatorTakesTx, Handler
  <2>2. /\ inm.tx = MoveTx /\ inm.tx.kind \in {"gen", "move", "sot"} /\ inm.vout + 1 = 1
        /\ ins.tx = Sot(i) /\ ins.tx.kind \in {"gen", "move", "sot"} /\ ins.vout + 1 = 1
    BY <1>1, <1>2
  <2>3. CreateMoveTxHandler.outs[1] = MovedOut
    BY DEF CreateMoveTxHandler, Handler, MovedOut
  <2> HIDE DEF inm, ins
  <2>4. SpentOut(inm) = MovedOut /\ SpentOut(ins) = SotTx(i).outs[1]
    BY <1>4, <2>2, <2>3, Handlers
  <2>5. QED
    BY <2>1, <2>4, SpentLists
<1>10. QED
  BY <1>5, <1>6, <1>7, <1>8, <1>9

(* Witnesses for all of what is spent make a valid transaction.            *)
LEMMA OneInput ==
    ASSUME NEW t, NEW h, NEW x, NEW w, HandlerOf(t) = h, Spent(t) = <<x>>, wit[t] = <<w>>,
           WitnessSatisfies(w, h, 1, <<x>>)
    PROVE  SpendsValid(t)
<1>1. \A j \in DOMAIN Spent(t) : j = 1
  BY Singles
<1>2. wit[t][1] = w
  OBVIOUS
<1>3. QED
  BY <1>1, <1>2, Zenon DEF SpendsValid

LEMMA TwoInputs ==
    ASSUME NEW t, NEW h, NEW x, NEW y, NEW v, NEW w, HandlerOf(t) = h, Spent(t) = <<x, y>>,
           wit[t] = <<v, w>>,
           WitnessSatisfies(v, h, 1, <<x, y>>), WitnessSatisfies(w, h, 2, <<x, y>>)
    PROVE  SpendsValid(t)
<1>1. \A j \in DOMAIN Spent(t) : j = 1 \/ j = 2
  BY Singles
<1>2. wit[t][1] = v /\ wit[t][2] = w
  OBVIOUS
<1>3. QED
  BY <1>1, <1>2, Zenon DEF SpendsValid

(* The user's signature with its tweaked key satisfies the timelock script *)
(* of the deposit address.                                                 *)
LEMMA RecoveryValid ==
    ASSUME output \in {"right", "amount"}, wit[RecoveryTx] = RecoveryWitness(output)
    PROVE  SpendsValid(RecoveryTx)
<1> DEFINE h    == CreateRecoveryTx(output)
           leaf == GenerateRelativeTimelockScript(TweakedKey(User, <<>>), UserTakesAfter)
           in   == TxInWithSequence(DepositTx, 0, UserTakesAfter)
           outs == <<Out(BridgeAmount \div 2, TweakedKey(User, <<>>))>>
           prev == <<DepositOut(output)>>
           scr  == <<<<leaf>>>>
           info == <<GenerateDepositAddress>>
           sig  == SignTaprootScriptSpendTxNewTweaked(User, h, 1, 1)
<1>1. h = Handler(RecoveryTx, <<in>>, outs, prev, scr, info)
  BY DEF CreateRecoveryTx
<1>2. DepositOut(output).to = GenerateDepositAddress
  BY DEF DepositOut, Out
<1>3. prev[1] = DepositOut(output) /\ info[1] = GenerateDepositAddress /\ scr[1][1] = leaf
  OBVIOUS
<1>4. GenerateDepositAddress.tree = <<CreateDepositScript, leaf>>
  BY DEF GenerateDepositAddress, CreateTaprootAddress, TweakedKey
<1>5. \E j \in DOMAIN prev[1].to.tree : prev[1].to.tree[j] = leaf
  <2>1. 2 \in DOMAIN <<CreateDepositScript, leaf>> /\ <<CreateDepositScript, leaf>>[2] = leaf
    OBVIOUS
  <2>2. QED
    BY <1>2, <1>3, <1>4, <2>1
<1>6. leaf.checks = <<TweakedKey(User, <<>>)>> /\ leaf.csv = UserTakesAfter
  BY DEF GenerateRelativeTimelockScript
<1>7. leaf # KeySpend
  <2>1. KeySpend.checks = <<>>
    BY DEF KeySpend, DataScript
  <2>2. QED
    BY <1>6, <2>1, SmallLists
<1>8. TimelockMet(leaf, in)
  BY ConstantTimelocks
<1>9. TimelockMet(leaf, <<in>>[1])
  <2> HIDE DEF leaf, in
  <2>1. <<in>>[1] = in
    OBVIOUS
  <2>2. QED
    BY <1>8, <2>1, Zenon
<1>10. SignedBy(sig, TweakedKey(User, <<>>), ConvertTxToSighashScriptSpend(h, 1, 1))
  BY DEF SignedBy, SignTaprootScriptSpendTxNewTweaked, SignWithTweak
<1>11. wit[RecoveryTx] = <<HandleTaprootWitnessNew(h, <<sig>>, 1, 1)>>
  BY DEF RecoveryWitness
<1>12. HandlerOf(RecoveryTx) = h /\ Spent(RecoveryTx) = prev
  BY Handlers, SpentOuts DEF Variants
<1> DEFINE x == DepositOut(output)
<1>13. prev = <<x>>
  OBVIOUS
<1> HIDE DEF h, leaf, in, outs, prev, scr, info, sig, x
<1>14. /\ Len(<<sig>>) = Len(leaf.checks)
       /\ \A j \in 1 .. Len(<<sig>>) :
            SignedBy(<<sig>>[Len(<<sig>>) + 1 - j], leaf.checks[j],
                     ConvertTxToSighashScriptSpend(h, 1, 1))
  BY <1>6, <1>10, SMT
<1>15. WitnessSatisfies(HandleTaprootWitnessNew(h, <<sig>>, 1, 1), h, 1, prev)
  BY <1>1, <1>2, <1>3, <1>5, <1>7, <1>9, <1>14, ScriptPathValid
<1>16. QED
  BY <1>11, <1>12, <1>13, <1>15, OneInput

(* The n-of-n signature satisfies the deposit script, when the deposit     *)
(* pays what the verifiers signed for.                                     *)
LEMMA MoveValid ==
    ASSUME output = "right", wit[MoveTx] = MoveWitness
    PROVE  SpendsValid(MoveTx)
<1> DEFINE h    == CreateMoveTxHandler
           leaf == CreateDepositScript
           in   == TxIn(DepositTx, 0)
           outs == <<Out(BridgeAmount - MoveTxMinRelayFee - AnyoneCanSpend.value,
                         CreateMusig2Address), AnyoneCanSpend>>
           prev == <<DepositOut("right")>>
           scr  == <<<<leaf>>>>
           info == <<GenerateDepositAddress>>
           sig  == AggregatePartialSignatures(FALSE, MoveSighash)
<1>1. h = Handler(MoveTx, <<in>>, outs, prev, scr, info)
  BY DEF CreateMoveTxHandler
<1>2. DepositOut("right").to = GenerateDepositAddress
  BY DEF DepositOut, Out
<1>3. prev[1] = DepositOut("right") /\ info[1] = GenerateDepositAddress /\ scr[1][1] = leaf
  OBVIOUS
<1>4. GenerateDepositAddress.tree = <<leaf,
          GenerateRelativeTimelockScript(TweakedKey(User, <<>>), UserTakesAfter)>>
  BY DEF GenerateDepositAddress, CreateTaprootAddress, TweakedKey
<1>5. \E j \in DOMAIN prev[1].to.tree : prev[1].to.tree[j] = leaf
  <2>1. \A y : 1 \in DOMAIN <<leaf, y>> /\ <<leaf, y>>[1] = leaf
    OBVIOUS
  <2>2. QED
    BY <1>2, <1>3, <1>4, <2>1
<1>6. leaf.checks = <<RawKey(NofN)>> /\ leaf.csv = NoLock
  BY DEF CreateDepositScript
<1>7. leaf # KeySpend
  <2>1. KeySpend.checks = <<>>
    BY DEF KeySpend, DataScript
  <2>2. QED
    BY <1>6, <2>1, SmallLists
<1>8. TimelockMet(leaf, <<in>>[1])
  BY <1>6, SMT DEF TimelockMet
<1>9. SignedBy(sig, RawKey(NofN), ConvertTxToSighashScriptSpend(h, 1, 1))
  BY DEF SignedBy, AggregatePartialSignatures, CreateKeyAggCtx, MoveSighash
<1>10. wit[MoveTx] = <<HandleTaprootWitnessNew(h, <<sig>>, 1, 1)>>
  BY DEF MoveWitness
<1>11. HandlerOf(MoveTx) = h /\ Spent(MoveTx) = prev
  BY Handlers, SpentOuts DEF Variants
<1> DEFINE x == DepositOut("right")
<1>12. prev = <<x>>
  OBVIOUS
<1> HIDE DEF h, leaf, in, outs, prev, scr, info, sig, x
<1>13. /\ Len(<<sig>>) = Len(leaf.checks)
       /\ \A j \in 1 .. Len(<<sig>>) :
            SignedBy(<<sig>>[Len(<<sig>>) + 1 - j], leaf.checks[j],
                     ConvertTxToSighashScriptSpend(h, 1, 1))
  BY <1>6, <1>9, SMT
<1>14. WitnessSatisfies(HandleTaprootWitnessNew(h, <<sig>>, 1, 1), h, 1, prev)
  BY <1>1, <1>2, <1>3, <1>5, <1>7, <1>8, <1>13, ScriptPathValid
<1>15. QED
  BY <1>10, <1>11, <1>12, <1>14, OneInput

(* The operator's signature with its tweaked key spends its funding UTXO.  *)
LEMMA GenValid ==
    ASSUME output \in Variants, NEW i \in Ops, wit[Gen(i)] = GenWitness(i)
    PROVE  SpendsValid(Gen(i))
<1> DEFINE h    == CreateKickoffUtxoTx(i)
           in   == TxIn(Tx("fund", i), 0)
           prev == <<FundingOut(i)>>
           sig  == SignTaprootPubkeySpend(i, h, 1)
<1>1. PICK outs : h = Handler(Gen(i), <<in>>, outs, prev, <<<<>>>>, <<>>)
  BY DEF CreateKickoffUtxoTx
<1>2. prev[1].to = TweakedKey(i, <<>>)
  BY DEF FundingOut, Out
<1>3. SignedBy(sig, prev[1].to, ConvertTxToSighashPubkeySpend(h, 1))
  BY <1>2 DEF SignedBy, SignTaprootPubkeySpend, SignWithTweak
<1>4. wit[Gen(i)] = <<HandleTaprootWitnessNew(h, <<sig>>, 1, 0)>>
  BY DEF GenWitness
<1>5. HandlerOf(Gen(i)) = h /\ Spent(Gen(i)) = prev
  BY Handlers, SpentOuts
<1> DEFINE x == FundingOut(i)
<1>6. prev = <<x>>
  OBVIOUS
<1> HIDE DEF h, in, prev, sig, x
<1>7. WitnessSatisfies(HandleTaprootWitnessNew(h, <<sig>>, 1, 0), h, 1, prev)
  BY <1>1, <1>3, KeyPathValid
<1>8. QED
  BY <1>4, <1>5, <1>6, <1>7, OneInput

(* The first output of the generator transaction, the kickoff, goes to     *)
(* the address of the multisignature script.                               *)
LEMMA KickoffFacts ==
    ASSUME NEW i
    PROVE  KickoffOut(i) = Out(KickoffUtxoAmountSats, CreateKickoffAddress(i))
<1> DEFINE k    == [j \in 1 .. NumKickoffs |-> Out(KickoffUtxoAmountSats, CreateKickoffAddress(i))]
           O    == Out(KickoffUtxoAmountSats, CreateKickoffAddress(i))
<1>1. PICK x : CreateKickoffUtxoTx(i).outs = k \o <<x, AnyoneCanSpend>>
  BY DEF CreateKickoffUtxoTx, Handler
<1>2. NumKickoffs \in Nat /\ NumKickoffs >= 1
  BY ParticipantsAssumption
<1> DEFINE T == {O, x, AnyoneCanSpend}
<1>3. k \in Seq(T) /\ Len(k) = NumKickoffs /\ k[1] = O /\ <<x, AnyoneCanSpend>> \in Seq(T)
  BY <1>2
<1> HIDE DEF k, T, O
<1>4. (k \o <<x, AnyoneCanSpend>>)[1] = k[1]
  BY <1>2, <1>3
<1>5. QED
  BY <1>1, <1>3, <1>4 DEF KickoffOut, O

(* Operator and n-of-n signature satisfy the script of the kickoff, in the *)
(* order that the stack asks for.                                          *)
LEMMA SotValid ==
    ASSUME output \in Variants, NEW i \in Ops, wit[Sot(i)] = SotWitness(i)
    PROVE  SpendsValid(Sot(i))
<1> DEFINE h    == SotTx(i)
           leaf == CreateMusig2AndOperatorMultisigScript(i)
           in   == TxIn(Gen(i), 0)
           prev == <<KickoffOut(i)>>
           scr  == <<<<leaf>>>>
           info == <<CreateKickoffAddress(i)>>
           op   == SignTaprootScriptSpendTx(i, h, 1, 1)
           all  == SotSigs[i + 1]
<1>1. PICK outs : h = Handler(Sot(i), <<in>>, outs, prev, scr, info)
  BY DEF SotTx, CreateSlashOrTakeTx
<1>2. KickoffOut(i).to = CreateKickoffAddress(i)
  BY KickoffFacts DEF Out
<1>3. prev[1] = KickoffOut(i) /\ info[1] = CreateKickoffAddress(i) /\ scr[1][1] = leaf
  OBVIOUS
<1>4. CreateKickoffAddress(i).tree = <<leaf>>
  BY DEF CreateKickoffAddress, CreateTaprootAddress, TweakedKey
<1>5. \E j \in DOMAIN prev[1].to.tree : prev[1].to.tree[j] = leaf
  <2>1. 1 \in DOMAIN <<leaf>> /\ <<leaf>>[1] = leaf
    OBVIOUS
  <2>2. QED
    BY <1>2, <1>3, <1>4, <2>1
<1>6. leaf.checks = <<RawKey(NofN), RawKey(i)>> /\ leaf.csv = NoLock
  BY DEF CreateMusig2AndOperatorMultisigScript
<1>7. leaf # KeySpend
  <2>1. KeySpend.checks = <<>>
    BY DEF KeySpend, DataScript
  <2>2. QED
    BY <1>6, <2>1, SmallLists
<1>8. TimelockMet(leaf, <<in>>[1])
  BY <1>6, SMT DEF TimelockMet
<1>9. SignedBy(op, RawKey(i), ConvertTxToSighashScriptSpend(h, 1, 1))
  BY DEF SignedBy, SignTaprootScriptSpendTx, Sign
<1>10. SignedBy(all, RawKey(NofN), ConvertTxToSighashScriptSpend(h, 1, 1))
  <2>1. i + 1 \in 1 .. N /\ (i + 1) - 1 = i
    BY Counts DEF Ops
  <2>2. all = AggregatePartialSignatures(FALSE, ConvertTxToSighashScriptSpend(SotTx(i), 1, 1))
    BY <2>1 DEF SotSigs
  <2>3. QED
    BY <2>2 DEF SignedBy, AggregatePartialSignatures, CreateKeyAggCtx
<1>11. wit[Sot(i)] = <<HandleTaprootWitnessNew(h, <<op, all>>, 1, 1)>>
  BY DEF SotWitness
<1>12. HandlerOf(Sot(i)) = h /\ Spent(Sot(i)) = prev
  BY Handlers, SpentOuts
<1> DEFINE x == KickoffOut(i)
<1>13. prev = <<x>>
  OBVIOUS
<1> HIDE DEF h, leaf, in, prev, scr, info, op, all, x
<1>14. /\ Len(<<op, all>>) = Len(leaf.checks)
       /\ \A j \in 1 .. Len(<<op, all>>) :
            SignedBy(<<op, all>>[Len(<<op, all>>) + 1 - j], leaf.checks[j],
                     ConvertTxToSighashScriptSpend(h, 1, 1))
  <2>1. Len(<<op, all>>) = 2 /\ Len(leaf.checks) = 2
    BY <1>6, SmallLists
  <2>2. /\ <<op, all>>[1] = op /\ <<op, all>>[2] = all
        /\ leaf.checks[1] = RawKey(NofN) /\ leaf.checks[2] = RawKey(i)
    BY <1>6
  <2>3. \A j \in 1 .. 2 : (j = 1 /\ 2 + 1 - j = 2) \/ (j = 2 /\ 2 + 1 - j = 1)
    OBVIOUS
  <2>4. QED
    BY <1>9, <1>10, <2>1, <2>2, <2>3
<1>15. WitnessSatisfies(HandleTaprootWitnessNew(h, <<op, all>>, 1, 1), h, 1, prev)
  BY <1>1, <1>2, <1>3, <1>5, <1>7, <1>8, <1>14, ScriptPathValid
<1>16. QED
  BY <1>11, <1>12, <1>13, <1>15, OneInput

(* The n-of-n signature with the tweaked key spends the moved deposit, and *)
(* the operator's one the timelocked output of slash_or_take.              *)
LEMMA TakeValid ==
    ASSUME output \in Variants, NEW i \in Ops, wit[Take(i)] = TakeWitness(i)
    PROVE  SpendsValid(Take(i))
<1> DEFINE h    == TakeTx(i)
           leaf == GenerateRelativeTimelockScript(RawKey(i), OperatorTakesAfter)
           inm  == TxIn(MoveTx, 0)
           ins  == TxInWithSequence(Sot(i), 0, OperatorTakesAfter)
           moved == Out(BridgeAmount - MoveTxMinRelayFee - AnyoneCanSpend.value,
                        CreateMusig2Address)
           burnt == SotTx(i).outs[1]
           prev == <<moved, burnt>>
           scr  == <<<<>>, <<leaf>>>>
           info == <<CreateMusig2Address, SlashOrTakeAddress(i)>>
           all  == TakeSigs[i + 1]
           op   == SignTaprootScriptSpendTx(i, h, 2, 1)
<1>1. PICK outs : h = Handler(Take(i), <<inm, ins>>, outs, prev, scr, info)
  BY DEF TakeTx, SotTx, CreateOperatorTakesTx
<1>2. prev[1] = moved /\ prev[2] = burnt /\ info[2] = SlashOrTakeAddress(i) /\ scr[2][1] = leaf
  BY Zenon, Singles
<1>3. moved.to = CreateMusig2Address
  BY DEF Out
<1>4. burnt.to = SlashOrTakeAddress(i)
  BY DEF SotTx, CreateSlashOrTakeTx, Handler, Out
<1>5. SlashOrTakeAddress(i).tree = <<leaf>>
  BY DEF SlashOrTakeAddress, CreateTaprootAddress, TweakedKey
<1>6. \E j \in DOMAIN prev[2].to.tree : prev[2].to.tree[j] = leaf
  <2>1. 1 \in DOMAIN <<leaf>> /\ <<leaf>>[1] = leaf
    OBVIOUS
  <2>2. QED
    BY <1>2, <1>4, <1>5, <2>1
<1>7. leaf.checks = <<RawKey(i)>> /\ leaf.csv = OperatorTakesAfter
  BY DEF GenerateRelativeTimelockScript
<1>8. leaf # KeySpend
  <2>1. KeySpend.checks = <<>>
    BY DEF KeySpend, DataScript
  <2>2. QED
    BY <1>7, <2>1, SmallLists
<1>9. TimelockMet(leaf, <<inm, ins>>[2])
  <2>1. TimelockMet(leaf, ins)
    BY ConstantTimelocks
  <2> HIDE DEF leaf, inm, ins
  <2>2. <<inm, ins>>[2] = ins
    OBVIOUS
  <2>3. QED
    BY <2>1, <2>2, Zenon
<1>10. SignedBy(op, RawKey(i), ConvertTxToSighashScriptSpend(h, 2, 1))
  BY DEF SignedBy, SignTaprootScriptSpendTx, Sign
<1>11. SignedBy(all, prev[1].to, ConvertTxToSighashPubkeySpend(h, 1))
  <2>1. i + 1 \in 1 .. N /\ (i + 1) - 1 = i
    BY Counts DEF Ops
  <2>2. all = AggregatePartialSignatures(TRUE, ConvertTxToSighashPubkeySpend(TakeTx(i), 1))
    BY <2>1 DEF TakeSigs
  <2>3. CreateMusig2Address = TweakedKey(NofN, <<>>)
    BY DEF CreateMusig2Address, CreateTaprootAddress
  <2>4. QED
    BY <1>2, <1>3, <2>2, <2>3 DEF SignedBy, AggregatePartialSignatures, CreateKeyAggCtx
<1>12. wit[Take(i)] = <<HandleTaprootWitnessNew(h, <<all>>, 1, 0),
                        HandleTaprootWitnessNew(h, <<op>>, 2, 1)>>
  BY DEF TakeWitness
<1>13. HandlerOf(Take(i)) = h /\ Spent(Take(i)) = prev
  BY Handlers, SpentOuts DEF MovedOut
<1>14. prev = <<moved, burnt>>
  OBVIOUS
<1> HIDE DEF h, leaf, inm, ins, moved, burnt, prev, scr, info, op, all
<1>15. /\ Len(<<op>>) = Len(leaf.checks)
       /\ \A j \in 1 .. Len(<<op>>) :
            SignedBy(<<op>>[Len(<<op>>) + 1 - j], leaf.checks[j],
                     ConvertTxToSighashScriptSpend(h, 2, 1))
  BY <1>7, <1>10, SMT
<1>16. WitnessSatisfies(HandleTaprootWitnessNew(h, <<all>>, 1, 0), h, 1, prev)
  BY <1>1, <1>11, KeyPathValid
<1>17. WitnessSatisfies(HandleTaprootWitnessNew(h, <<op>>, 2, 1), h, 2, prev)
  BY <1>1, <1>2, <1>4, <1>6, <1>8, <1>9, <1>15, ScriptPathValid
<1>18. QED
  BY <1>12, <1>13, <1>14, <1>16, <1>17, TwoInputs

(* Every handler completes its transaction with the right witness, and no  *)
(* step takes the deposit away that the user's one was made for.           *)
LEMMA WitnessesKeep ==
    ASSUME StateInv, WitInv, [Next]_vars
    PROVE  WitInv'
<1>0. DOMAIN wit = Txs /\ output \in Variants /\ age[DepositTx] \in Int /\ lag \in Nat
  BY TxNames DEF StateInv, IInv, DepositInv
<1>1. MaxReorg < UserTakesAfter => Deep(UserTakesAfter)
  BY Timelocks
<1>2. MaxReorg < UserTakesAfter /\ Buried(UserTakesAfter) => Buried(UserTakesAfter)' /\ output' = output
  BY <1>1, NextDeposit DEF StateInv, IInv
<1>3. stage = "done" => stage' = "done"
  BY DEF Next, vars, chainVars, clientVars, UserDeposit, UserRecover, Caller,
     WithdrawalProvedOnCitrea, SendRawTransaction, Mine, Disconnect, Ceremony,
     VerifierNewDeposit, AggregateNonces, OperatorNewDeposit, OperatorKickoffsGenerated,
     AggregateSlashOrTakeSigs, AggregateSigs, BurnTxsSigned, AggregateOperatorTakeSigs,
     OperatorTakeTxsSigned, AggregateMoveTxSigs
<1>4. CASE UNCHANGED wit
  BY <1>2, <1>3, <1>4 DEF WitInv, Completed
<1>5. CASE UserRecover
  <2>1. /\ wit' = [wit EXCEPT ![RecoveryTx] = RecoveryWitness(output)]
        /\ output \in {"right", "amount"} /\ age[DepositTx] >= UserTakesAfter
        /\ UNCHANGED <<output, age, lag>>
    BY <1>0, <1>5, Handlers DEF UserRecover, RecoveryWitness, chainVars
  <2>2. Buried(UserTakesAfter)
    BY <1>0, <2>1, Timelocks DEF Buried
  <2>3. MaxReorg < UserTakesAfter => Buried(UserTakesAfter)'
    BY <1>2, <2>2
  <2>4. wit'[RecoveryTx] = RecoveryWitness(output') /\ \A t \in Txs \ {RecoveryTx} : wit'[t] = wit[t]
    BY <1>0, <2>1, TxNames
  <2>5. QED
    BY <1>3, <2>1, <2>3, <2>4, TxNames DEF WitInv, Completed
<1>6. CASE OperatorNewDeposit
  <2> DEFINE i == Len(kicks)
  <2>1. i \in Ops
    BY <1>6, Counts, AppendFacts DEF OperatorNewDeposit, StateInv, ListInv, Ops
  <2>2. wit' = [wit EXCEPT ![Gen(i)] = GenWitness(i)]
    BY <1>6 DEF OperatorNewDeposit, GenWitness
  <2> HIDE DEF i
  <2>3. wit'[Gen(i)] = GenWitness(i) /\ \A t \in Txs \ {Gen(i)} : wit'[t] = wit[t]
    BY <1>0, <2>1, <2>2, TxNames
  <2>4. QED
    BY <1>2, <1>3, <2>1, <2>3, TxNames DEF WitInv, Completed
<1>7. CASE AggregateMoveTxSigs
  <2>1. wit' = [wit EXCEPT ![MoveTx] = MoveWitness] /\ stage' = "done"
    BY <1>7 DEF AggregateMoveTxSigs, MoveWitness
  <2>2. wit'[MoveTx] = MoveWitness /\ \A t \in Txs \ {MoveTx} : wit'[t] = wit[t]
    BY <1>0, <2>1, TxNames
  <2>3. QED
    BY <1>2, <2>1, <2>2, TxNames DEF WitInv, Completed
<1>8. ASSUME NEW i \in Ops, WithdrawalProvedOnCitrea(i) PROVE WitInv'
  <2>1. db[i + 1].sot # <<>> /\ db[i + 1].take # <<>> /\ i + 1 \in 1 .. NumVerifiers
    BY <1>8, Counts DEF WithdrawalProvedOnCitrea, Ops
  <2>2. /\ db[i + 1].sot = SotSigs /\ db[i + 1].take = TakeSigs
        /\ stage \notin {"nonces", "operators"}
    BY <2>1 DEF StateInv, SigsInv
  <2>3. kicks[i + 1] = KickoffOut(i)
    BY <2>2, Sighashes DEF StateInv
  <2>4. wit' = [wit EXCEPT ![Sot(i)] = SotWitness(i), ![Take(i)] = TakeWitness(i)]
    BY <1>8, <2>2, <2>3 DEF WithdrawalProvedOnCitrea, SotWitness, TakeWitness, SotTx, TakeTx
  <2>5. /\ wit'[Sot(i)] = SotWitness(i) /\ wit'[Take(i)] = TakeWitness(i)
        /\ \A t \in Txs \ {Sot(i), Take(i)} : wit'[t] = wit[t]
    BY <1>0, <2>4, TxNames
  <2>6. Sot(i) \in Completed'
    BY <2>5, SmallLists, TxNames DEF Completed, SotWitness
  <2>7. QED
    BY <1>2, <1>3, <2>5, <2>6, TxNames DEF WitInv, Completed
<1>9. CASE UNCHANGED vars
  BY <1>4, <1>9 DEF vars
<1>10. QED
  BY <1>4, <1>5, <1>6, <1>7, <1>8, <1>9 DEF Next, Ceremony, UserDeposit, SendRawTransaction, Mine,
     Disconnect, VerifierNewDeposit, AggregateNonces, OperatorKickoffsGenerated,
     AggregateSlashOrTakeSigs, AggregateSigs, BurnTxsSigned, AggregateOperatorTakeSigs,
     OperatorTakeTxsSigned

(* All of it is an invariant.                                              *)
LEMMA WitInvHolds == Spec => [](StateInv /\ WitInv)
<1>1. Init => WitInv
  BY TxNames DEF Init, WitInv, Completed
<1>2. StateInv /\ WitInv /\ [Next]_vars => WitInv'
  BY WitnessesKeep
<1>3. QED
  BY <1>1, <1>2, StateInvHolds, PTL DEF Spec

(* Every transaction that the program completes satisfies, with its keys,  *)
(* tweaks, order of signatures and amounts, the outputs that are really    *)
(* spent, for every number of participants and all amounts, whatever       *)
(* reorganisations there are, as long as the user's timelock is longer     *)
(* than one: a deposit that is undone and made again with another amount   *)
(* leaves the user with a signature for the first.                         *)
THEOREM CompletedTxsAlwaysValid ==
    ASSUME MaxReorg < UserTakesAfter
    PROVE  Spec => []CompletedTxsValid
<1>1. ASSUME StateInv, WitInv PROVE CompletedTxsValid
  <2> SUFFICES ASSUME NEW t \in Completed PROVE SpendsValid(t)
    BY DEF CompletedTxsValid
  <2>0. t \in Txs /\ wit[t] # <<>> /\ wit[DepositTx] = <<>> /\ output \in Variants
    BY <1>1 DEF Completed, StateInv, IInv, DepositInv
  <2>1. CASE t = RecoveryTx
    BY <1>1, <2>1, RecoveryValid DEF WitInv
  <2>2. CASE t = MoveTx
    <3>1. stage = "done" /\ wit[MoveTx] = MoveWitness
      BY <1>1, <2>2 DEF WitInv
    <3>2. Len(kicks) = N /\ IsSeq(kicks)
      BY <1>1, <3>1 DEF StateInv, ListInv
    <3>3. kicks # <<>>
      BY <3>2, Counts, SmallLists
    <3>4. output = "right"
      BY <1>1, <3>3 DEF StateInv, IInv, BuriedInv, Accepted
    <3>5. QED
      BY <2>2, <3>1, <3>4, MoveValid
  <2>3. ASSUME NEW i \in Ops, t \in {Gen(i), Sot(i), Take(i)} PROVE SpendsValid(t)
    BY <1>1, <2>0, <2>3, GenValid, SotValid, TakeValid DEF WitInv
  <2>4. QED
    BY <2>0, <2>1, <2>2, <2>3, TxNames
<1>2. QED
  BY <1>1, WitInvHolds, PTL

-----------------------------------------------------------------------------
(* The fees of builder/transaction.rs against the sizes of what is built,  *)
(* in virtual bytes.                                                       *)

(* The size of a generator transaction is counted the way the fee is.      *)
LEMMA GenSize == \A n \in Nat : GenVSize(n) = KickoffTxMinRelayFee(n)
<1> SUFFICES ASSUME NEW n \in Nat PROVE GenVSize(n) = KickoffTxMinRelayFee(n)
  OBVIOUS
<1>1. CASE n <= 250
  <2>1. GenVSize(n) = (4 * (10 + 41 + (n + 2) * 43) + 2 + 66 + 3) \div 4
    BY <1>1, SMT DEF GenVSize, VSize, Overhead, KeyPathLen
  <2>2. QED
    BY <1>1, <2>1, SMT DEF KickoffTxMinRelayFee
<1>2. CASE n > 250
  <2>1. GenVSize(n) = (4 * (12 + 41 + (n + 2) * 43) + 2 + 66 + 3) \div 4
    BY <1>2, SMT DEF GenVSize, VSize, Overhead, KeyPathLen
  <2>2. QED
    BY <1>2, <2>1, SMT DEF KickoffTxMinRelayFee
<1>3. QED
  BY <1>1, <1>2

(* The size of slash_or_take depends on the operator's index.              *)
LEMMA SotSize == \A i \in Nat : SotVSize(i) <= SlashOrTakeTxMinRelayFee <=> i <= 255
<1> SUFFICES ASSUME NEW i \in Nat PROVE SotVSize(i) <= SlashOrTakeTxMinRelayFee <=> i <= 255
  OBVIOUS
<1> DEFINE v == VarLenBytes(i)
<1>1. v \in 1 .. 3 /\ (v = 1 <=> i <= 255)
  BY SMT DEF VarLenBytes
<1>2. LeafDepth(1, 0) = 0
  BY DEF LeafDepth
<1> HIDE DEF v
<1>3. SotVSize(i) = (4 * (180 + v) + 239) \div 4
  BY <1>1, <1>2, SMT DEF SotVSize, MultisigScriptLen, VSize, Overhead, ScriptPathLen,
     ControlBlockLen, v
<1>4. QED
  BY <1>1, <1>3, SMT DEF SlashOrTakeTxMinRelayFee

(* The size of operator_takes depends on the timelock's script number.     *)
LEMMA TakeSize == \A n \in Nat : TakeVSize(n) <= OperatorTakesTxMinRelayFee <=> n <= 32767
<1> SUFFICES ASSUME NEW n \in Nat
             PROVE  TakeVSize(n) <= OperatorTakesTxMinRelayFee <=> n <= 32767
  OBVIOUS
<1> DEFINE k == PushLen(n)
<1>1. k \in 1 .. 4 /\ (k <= 3 <=> n <= 32767)
  BY SMT DEF PushLen
<1>2. LeafDepth(1, 0) = 0
  BY DEF LeafDepth
<1> HIDE DEF k
<1>3. TakeVSize(n) = (4 * 178 + 2 + 66 + (137 + k) + 3) \div 4
  BY <1>1, <1>2, SMT DEF TakeVSize, TimelockScriptLen, VSize, Overhead, KeyPathLen, ScriptPathLen,
     ControlBlockLen, k
<1>4. QED
  BY <1>1, <1>3, SMT DEF OperatorTakesTxMinRelayFee

(* kickoff_tx_min_relay_fee is the size of a generator transaction for     *)
(* every number of kickoffs, on both sides of the step at 250, as far as   *)
(* the number of outputs is written in three bytes.                        *)
THEOREM KickoffFeeIsExact ==
    \A n \in Nat \ {0} : n <= 65533 => GenVSize(n) = KickoffTxMinRelayFee(n)
  BY GenSize

(* SLASH_OR_TAKE_TX_MIN_RELAY_FEE covers the transaction of operators with *)
(* an index of one byte in the OP_RETURN output, and of no others.         *)
THEOREM SlashOrTakeFeeCovers ==
    \A i \in Nat : i <= 65535 => (SotVSize(i) <= SlashOrTakeTxMinRelayFee <=> i <= 255)
  BY SotSize

(* OPERATOR_TAKES_TX_MIN_RELAY_FEE covers the transaction for timelocks    *)
(* whose script number has at most two bytes, and for no others.           *)
THEOREM OperatorTakesFeeCovers ==
    \A n \in Nat \ {0} :
        n <= MaxBlocksOfTimelock =>
            (TakeVSize(n) <= OperatorTakesTxMinRelayFee <=> n <= 32767)
  BY TakeSize

-----------------------------------------------------------------------------
(* What nodes relay.                                                       *)

(* What the fee constants were made for: indices of one byte, script       *)
(* numbers of at most two, amounts that leave no output below the dust     *)
(* limit.                                                                  *)
RelayConditions ==
    /\ N <= 256 /\ OperatorTakesAfter <= 32767 /\ NumKickoffs <= 65533
    /\ BridgeAmount >= MoveTxMinRelayFee + 330 + 330
    /\ FundingAmount >=
            KickoffUtxoAmountSats * NumKickoffs + KickoffTxMinRelayFee(NumKickoffs) + 330 + 330

(* Sums of the values of one, two and three outputs.                       *)
LEMMA SmallSums ==
    /\ \A a : a.value \in Int => SumFunction(Values(<<a>>)) = a.value
    /\ \A a, b : a.value \in Int /\ b.value \in Int =>
            SumFunction(Values(<<a, b>>)) = a.value + b.value
    /\ \A a, b, c : a.value \in Int /\ b.value \in Int /\ c.value \in Int =>
            SumFunction(Values(<<a, b, c>>)) = a.value + b.value + c.value
<1>1. ASSUME NEW a, a.value \in Int PROVE SumFunction(Values(<<a>>)) = a.value
  <2> DEFINE f == Values(<<a>>)
             p == [j \in 0 .. 1 |-> IF j = 0 THEN 0 ELSE a.value]
  <2>1. Numbers(f, 1) /\ f[1] = a.value
    BY <1>1 DEF Numbers, Values
  <2> HIDE DEF f
  <2>2. PartialSums(p, f, 1)
    BY <1>1, <2>1 DEF PartialSums
  <2>3. p[1] = a.value
    OBVIOUS
  <2> HIDE DEF p
  <2>4. SumFunction(f) = p[1]
    BY <2>1, <2>2, SumOfList
  <2>5. QED
    BY <2>3, <2>4 DEF f
<1>2. ASSUME NEW a, NEW b, a.value \in Int, b.value \in Int
      PROVE  SumFunction(Values(<<a, b>>)) = a.value + b.value
  <2> DEFINE f == Values(<<a, b>>)
             p == [j \in 0 .. 2 |-> IF j = 0 THEN 0 ELSE IF j = 1 THEN a.value
                                    ELSE a.value + b.value]
  <2>1. Numbers(f, 2) /\ f[1] = a.value /\ f[2] = b.value
    BY <1>2 DEF Numbers, Values
  <2> HIDE DEF f
  <2>2. PartialSums(p, f, 2)
    BY <1>2, <2>1 DEF PartialSums
  <2>3. p[2] = a.value + b.value
    OBVIOUS
  <2> HIDE DEF p
  <2>4. SumFunction(f) = p[2]
    BY <2>1, <2>2, SumOfList
  <2>5. QED
    BY <2>3, <2>4 DEF f
<1>3. ASSUME NEW a, NEW b, NEW c, a.value \in Int, b.value \in Int, c.value \in Int
      PROVE  SumFunction(Values(<<a, b, c>>)) = a.value + b.value + c.value
  <2> DEFINE f == Values(<<a, b, c>>)
             p == [j \in 0 .. 3 |-> IF j = 0 THEN 0 ELSE IF j = 1 THEN a.value
                                    ELSE IF j = 2 THEN a.value + b.value
                                    ELSE a.value + b.value + c.value]
  <2>1. Numbers(f, 3) /\ f[1] = a.value /\ f[2] = b.value /\ f[3] = c.value
    BY <1>3 DEF Numbers, Values
  <2> HIDE DEF f
  <2>2. PartialSums(p, f, 3)
    BY <1>3, <2>1 DEF PartialSums
  <2>3. p[3] = a.value + b.value + c.value
    OBVIOUS
  <2> HIDE DEF p
  <2>4. SumFunction(f) = p[3]
    BY <2>1, <2>2, SumOfList
  <2>5. QED
    BY <2>3, <2>4 DEF f
<1>4. QED
  BY <1>1, <1>2, <1>3

(* n equal outputs and two more.                                           *)
KickoffList(n, o, a, b) == [k \in 1 .. n |-> o] \o <<a, b>>

LEMMA KickoffSum ==
    ASSUME NEW n \in Nat, NEW o, NEW a, NEW b, NEW v \in Int, v = o.value,
           a.value \in Int, b.value \in Int
    PROVE  SumFunction(Values(KickoffList(n, o, a, b))) = v * n + a.value + b.value
<1> DEFINE outs == [k \in 1 .. n |-> o] \o <<a, b>>
           f    == Values(outs)
           m    == [j \in Nat |-> v * j]
<1>1. /\ DOMAIN outs = 1 .. n + 2 /\ \A j \in 1 .. n : outs[j] = o
      /\ outs[n + 1] = a /\ outs[n + 2] = b
  <2> DEFINE T == {o, a, b}
             k == [j \in 1 .. n |-> o]
             t == <<a, b>>
  <2>1. k \in Seq(T) /\ Len(k) = n /\ t \in Seq(T) /\ Len(t) = 2
    OBVIOUS
  <2>2. (\A j \in 1 .. n : k[j] = o) /\ t[1] = a /\ t[2] = b
    OBVIOUS
  <2> HIDE DEF T, k, t
  <2>3. /\ k \o t \in Seq(T)
        /\ Len(k \o t) = Len(k) + Len(t)
        /\ \A j \in 1 .. Len(k) + Len(t) :
              (k \o t)[j] = IF j <= Len(k) THEN k[j] ELSE t[j - Len(k)]
    BY <2>1, ConcatProperties, Zenon
  <2> DEFINE c == k \o t
  <2> HIDE DEF c
  <2>4. /\ c \in Seq(T) /\ Len(c) = n + 2
        /\ \A j \in 1 .. n + 2 : c[j] = IF j <= n THEN k[j] ELSE t[j - n]
    BY <2>1, <2>3 DEF c
  <2>5. DOMAIN c = 1 .. n + 2
    BY <2>4
  <2>6. \A j \in 1 .. n : c[j] = k[j]
    BY <2>4
  <2>7. c[n + 1] = t[1] /\ c[n + 2] = t[2]
    <3>1. (n + 1) - n = 1 /\ (n + 2) - n = 2 /\ n + 1 \in 1 .. n + 2 /\ n + 2 \in 1 .. n + 2
      OBVIOUS
    <3>2. QED
      BY <2>4, <3>1
  <2>8. QED
    BY <2>2, <2>5, <2>6, <2>7 DEF c, k, t
<1> HIDE DEF outs
<1>2. /\ DOMAIN f = 1 .. n + 2 /\ \A j \in 1 .. n : f[j] = v
      /\ f[n + 1] = a.value /\ f[n + 2] = b.value
  BY <1>1 DEF Values
<1>3. f = [j \in 1 .. n + 2 |-> f[j]]
  BY <1>1 DEF Values
<1> HIDE DEF f
<1>4. \A j \in 1 .. n + 2 : f[j] \in Int
  <2>1. \A j \in 1 .. n + 2 : j \in 1 .. n \/ j = n + 1 \/ j = n + 2
    OBVIOUS
  <2>2. QED
    BY <1>2, <2>1
<1>5. Numbers(f, n + 2)
  BY <1>3, <1>4 DEF Numbers
<1>6. m[0] = 0 /\ \A j \in Nat : m[j] \in Int /\ m[j + 1] = m[j] + v
  OBVIOUS
<1> HIDE DEF m
<1> DEFINE p == [j \in 0 .. n + 2 |-> IF j <= n THEN m[j]
                                      ELSE IF j = n + 1 THEN m[n] + a.value
                                      ELSE m[n] + a.value + b.value]
<1>7. PartialSums(p, f, n + 2)
  <2>1. p \in [0 .. n + 2 -> Int] /\ p[0] = 0
    <3>1. \A j \in 0 .. n + 2 : (IF j <= n THEN m[j]
                                 ELSE IF j = n + 1 THEN m[n] + a.value
                                 ELSE m[n] + a.value + b.value) \in Int
      BY <1>6
    <3>2. p \in [0 .. n + 2 -> Int]
      BY <3>1, Zenon
    <3>3. 0 \in 0 .. n + 2 /\ 0 <= n
      OBVIOUS
    <3>4. p[0] = 0
      BY <1>6, <3>3, Zenon
    <3>5. QED
      BY <3>2, <3>4
  <2>2. ASSUME NEW j \in 0 .. (n + 2) - 1 PROVE p[j + 1] = p[j] + f[j + 1]
    <3>1. CASE j + 1 \in 1 .. n
      BY <1>2, <1>6, <3>1
    <3>2. CASE j = n
      BY <1>2, <1>6, <3>2
    <3>3. CASE j = n + 1
      <4>1. p[j] = m[n] + a.value /\ p[j + 1] = m[n] + a.value + b.value /\ f[j + 1] = b.value
        BY <1>2, <3>3
      <4>2. QED
        BY <4>1
    <3>4. QED
      BY <3>1, <3>2, <3>3
  <2>3. QED
    BY <2>1, <2>2 DEF PartialSums
<1>8. p[n + 2] = m[n] + a.value + b.value
  OBVIOUS
<1> HIDE DEF p
<1>9. SumFunction(f) = p[n + 2]
  BY <1>5, <1>7, SumOfList
<1>10. QED
  <2>1. m[n] = v * n
    BY DEF m
  <2>2. QED
    BY <1>8, <1>9, <2>1 DEF f, outs, KickoffList

(* What lists of outputs hold.                                             *)
LEMMA Ranges ==
    /\ \A a, b : Range(<<a, b>>) = {a, b}
    /\ \A a, b, c : Range(<<a, b, c>>) = {a, b, c}
    /\ \A a : Range(<<a>>) = {a}
    /\ \A n \in Nat : \A o, a, b : Range([k \in 1 .. n |-> o] \o <<a, b>>) \subseteq {o, a, b}
<1>1. ASSUME NEW n \in Nat, NEW o, NEW a, NEW b
      PROVE  Range([k \in 1 .. n |-> o] \o <<a, b>>) \subseteq {o, a, b}
  <2> DEFINE T == {o, a, b}
             k == [j \in 1 .. n |-> o]
             t == <<a, b>>
  <2>1. k \in Seq(T) /\ t \in Seq(T)
    OBVIOUS
  <2> HIDE DEF T, k, t
  <2>2. k \o t \in Seq(T)
    BY <2>1, ConcatProperties, Zenon
  <2> DEFINE c == k \o t
  <2> HIDE DEF c
  <2>3. \A j \in DOMAIN c : c[j] \in T
    <3>1. c \in Seq(T)
      BY <2>2 DEF c
    <3>2. QED
      BY <3>1
  <2>4. Range(c) \subseteq T
    BY <2>3 DEF Range
  <2>5. QED
    BY <2>4 DEF c, k, t, T
<1>2. ASSUME NEW a, NEW b PROVE Range(<<a, b>>) = {a, b}
  BY DEF Range
<1>3. ASSUME NEW a, NEW b, NEW c PROVE Range(<<a, b, c>>) = {a, b, c}
  BY DEF Range
<1>4. ASSUME NEW a PROVE Range(<<a>>) = {a}
  BY DEF Range
<1>5. QED
  BY <1>1, <1>2, <1>3, <1>4

(* Nothing needs more than 330 satoshis, and the data of an OP_RETURN      *)
(* needs none.                                                             *)
LEMMA DustLimits ==
    /\ \A out, limit : limit >= 330 /\ limit \in Int => limit >= DustLimit(out)
    /\ \A i : DustLimit(OpReturn(i)) = 0
  BY SMT DEF DustLimit, OpReturn, Out

(* Two leaves are at depth one, a single leaf is the root.                 *)
LEMMA LeafDepths == LeafDepth(2, 0) = 1 /\ LeafDepth(1, 0) = 0
<1>1. Power(2)[0] = 1 /\ Power(2)[1] = 2 /\ Power(2)[2] = 4
  <2>1. Power(2)[0] = 1 /\ \A e \in Nat : Power(2)[e+1] = 2 * Power(2)[e]
    BY PowerDef
  <2>2. Power(2)[0+1] = 2 * Power(2)[0] /\ Power(2)[1+1] = 2 * Power(2)[1]
    BY <2>1
  <2>3. QED
    BY <2>1, <2>2
<1> DEFINE m == CHOOSE e \in 1 .. 2 : Power(2)[e] >= 2 /\ Power(2)[e-1] < 2
<1>2. m = 1
  <2>1. \A e \in 1 .. 2 : Power(2)[e] >= 2 /\ Power(2)[e-1] < 2 <=> e = 1
    BY <1>1
  <2>2. QED
    BY <2>1
<1>3. LeafDepth(2, 0) = m - (IF 0 >= 2 - (Power(2)[m] - 2) THEN 1 ELSE 0)
  BY DEF LeafDepth
<1> HIDE DEF m
<1>4. QED
  BY <1>1, <1>2, <1>3 DEF LeafDepth

(* MOVE_TX_MIN_RELAY_FEE is the size of the transaction.                   *)
LEMMA MoveFeeIsExact == MoveVSize = MoveTxMinRelayFee
  BY LeafDepths, SMT DEF MoveVSize, MoveTxMinRelayFee, DepositScriptLen, VSize, Overhead,
     ScriptPathLen, ControlBlockLen

(* The values of what is spent and paid.                                   *)
LEMMA Amounts ==
    /\ \A v, to : Out(v, to).value = v
    /\ AnyoneCanSpend.value = 330
    /\ \A i : OpReturn(i).value = 0
  BY DEF Out, AnyoneCanSpend, OpReturn
(* What the transactions pay, and what they are built with.                *)
LEMMA MovePolicy ==
    ASSUME RelayConditions, output = "right" PROVE PolicyMet(MoveTx)
<1> DEFINE v == BridgeAmount - MoveTxMinRelayFee - 330
           o == Out(v, CreateMusig2Address)
           a == AnyoneCanSpend
           d == Out(BridgeAmount, GenerateDepositAddress)
<1>1. BridgeAmount \in Nat /\ MoveTxMinRelayFee = 190 /\ BridgeAmount >= 850
  BY AmountsAssumption DEF RelayConditions, MoveTxMinRelayFee
<1>2. HandlerOf(MoveTx).outs = <<o, a>>
  <2>1. output \in Variants
    BY DEF Variants
  <2>2. CreateMoveTxHandler.outs = <<o, a>>
    BY Amounts DEF CreateMoveTxHandler, Handler
  <2>3. QED
    BY <2>1, <2>2, Handlers
<1>3. Spent(MoveTx) = <<d>>
  BY SpentOuts DEF Variants, DepositOut
<1>4. o.value = v /\ a.value = 330 /\ d.value = BridgeAmount
  BY Amounts
<1>5. TxVSize(MoveTx) = MoveTxMinRelayFee
  BY MoveFeeIsExact DEF TxVSize, MoveTx, Tx
<1> HIDE DEF o, a, d
<1>6. Fee(MoveTx) = MoveTxMinRelayFee
  <2>1. SumFunction(Values(<<d>>)) = BridgeAmount
    BY <1>1, <1>4, SmallSums
  <2>2. SumFunction(Values(<<o, a>>)) = v + 330
    BY <1>1, <1>4, SmallSums
  <2>3. QED
    BY <1>1, <1>2, <1>3, <2>1, <2>2 DEF Fee
<1>7. \A out \in {o, a} : out.value >= DustLimit(out)
  BY <1>1, <1>4, DustLimits
<1>8. QED
  BY <1>1, <1>2, <1>5, <1>6, <1>7, Ranges DEF PolicyMet

LEMMA GenPolicy ==
    ASSUME RelayConditions, output \in Variants, NEW i \in Ops PROVE PolicyMet(Gen(i))
<1> DEFINE K   == KickoffUtxoAmountSats
           n   == NumKickoffs
           fee == KickoffTxMinRelayFee(NumKickoffs)
           c   == FundingAmount - K * n - 330 - fee
           o   == Out(K, CreateKickoffAddress(i))
           b   == Out(c, TweakedKey(i, <<>>))
           a   == AnyoneCanSpend
           f   == FundingOut(i)
<1>1. n \in Nat /\ FundingAmount \in Nat
  BY ParticipantsAssumption, AmountsAssumption
<1>2. K \in Nat /\ K >= 330
  BY SMT DEF KickoffUtxoAmountSats
<1>3. fee \in Nat
  BY <1>1, SMT DEF KickoffTxMinRelayFee
<1>4. HandlerOf(Gen(i)).outs = [k \in 1 .. n |-> o] \o <<b, a>>
  <2>1. CreateKickoffUtxoTx(i).outs = [k \in 1 .. n |-> o] \o <<b, a>>
    BY Amounts DEF CreateKickoffUtxoTx, Handler
  <2>2. QED
    BY <2>1, Handlers
<1>5. Spent(Gen(i)) = <<f>>
  BY SpentOuts
<1>6. o.value = K /\ b.value = c /\ a.value = 330 /\ f.value = FundingAmount
  BY Amounts DEF FundingOut
<1>7. TxVSize(Gen(i)) = fee
  <2>1. TxVSize(Gen(i)) = GenVSize(n)
    BY DEF TxVSize, Gen, Tx
  <2>2. QED
    BY <1>1, <2>1, GenSize
<1>8. FundingAmount >= K * n + fee + 330 + 330
  BY DEF RelayConditions
<1> HIDE DEF o, b, a, f, K, n, fee
<1>9. K * n \in Nat
  BY <1>1, <1>2
<1>10. c \in Int /\ c >= 330
  BY <1>1, <1>3, <1>8, <1>9
<1>11. FundingAmount - (K * n + c + 330) = fee
  BY <1>1, <1>3, <1>9
<1> HIDE DEF c
<1>12. Fee(Gen(i)) = fee
  <2>1. SumFunction(Values(<<f>>)) = FundingAmount
    BY <1>1, <1>6, SmallSums
  <2>2. SumFunction(Values([k \in 1 .. n |-> o] \o <<b, a>>)) = K * n + c + 330
    <3>1. n \in Nat /\ K \in Int /\ K = o.value /\ b.value \in Int /\ a.value \in Int
      BY <1>1, <1>2, <1>6, <1>10
    <3>2. SumFunction(Values(KickoffList(n, o, b, a))) = K * n + b.value + a.value
      BY <3>1, KickoffSum
    <3>3. QED
      BY <1>6, <3>2 DEF KickoffList
  <2>3. QED
    BY <1>4, <1>5, <1>11, <2>1, <2>2 DEF Fee
<1>13. \A out \in {o, b, a} : out.value >= DustLimit(out)
  BY <1>2, <1>6, <1>10, DustLimits
<1>14. \A out \in Range(HandlerOf(Gen(i)).outs) : out \in {o, b, a}
  BY <1>1, <1>4, Ranges
<1>15. QED
  BY <1>3, <1>7, <1>12, <1>13, <1>14 DEF PolicyMet

(* The output that slashes or takes.                                       *)
LEMMA SotOuts ==
    ASSUME output \in Variants, NEW i \in Ops
    PROVE  \E o : /\ o.value = KickoffUtxoAmountSats - 330 - SlashOrTakeTxMinRelayFee
                  /\ SotTx(i).outs = <<o, AnyoneCanSpend, OpReturn(i)>>
                  /\ HandlerOf(Sot(i)).outs = <<o, AnyoneCanSpend, OpReturn(i)>>
<1> DEFINE o == Out(KickoffOut(i).value - 330 - SlashOrTakeTxMinRelayFee, SlashOrTakeAddress(i))
<1>1. SotTx(i).outs = <<o, AnyoneCanSpend, OpReturn(i)>>
  BY DEF SotTx, CreateSlashOrTakeTx, Handler
<1>2. o.value = KickoffUtxoAmountSats - 330 - SlashOrTakeTxMinRelayFee
  BY KickoffFacts, Amounts
<1>3. QED
  BY <1>1, <1>2, Handlers

LEMMA SotPolicy ==
    ASSUME RelayConditions, output \in Variants, NEW i \in Ops PROVE PolicyMet(Sot(i))
<1> DEFINE a == AnyoneCanSpend
           r == OpReturn(i)
           f == KickoffOut(i)
<1>1. /\ KickoffUtxoAmountSats \in Nat /\ KickoffUtxoAmountSats >= 5000
      /\ SlashOrTakeTxMinRelayFee = 240
  BY SMT DEF KickoffUtxoAmountSats, SlashOrTakeTxMinRelayFee
<1>2. PICK o : /\ o.value = KickoffUtxoAmountSats - 330 - SlashOrTakeTxMinRelayFee
               /\ HandlerOf(Sot(i)).outs = <<o, a, r>>
  BY SotOuts
<1>3. Spent(Sot(i)) = <<f>>
  BY SpentOuts
<1>4. a.value = 330 /\ r.value = 0 /\ f.value = KickoffUtxoAmountSats
  BY Amounts, KickoffFacts
<1>5. TxVSize(Sot(i)) <= SlashOrTakeTxMinRelayFee
  <2>1. TxVSize(Sot(i)) = SotVSize(i)
    BY DEF TxVSize, Sot, Tx
  <2>2. N <= 256
    BY DEF RelayConditions
  <2>3. i \in Nat /\ i <= 255
    BY <2>2, Counts DEF Ops
  <2>4. QED
    BY <2>1, <2>3, SotSize
<1>6. DustLimit(r) = 0
  BY DustLimits
<1> HIDE DEF a, r, f
<1>7. Fee(Sot(i)) = SlashOrTakeTxMinRelayFee
  <2>1. SumFunction(Values(<<f>>)) = KickoffUtxoAmountSats
    BY <1>1, <1>4, SmallSums
  <2>2. SumFunction(Values(<<o, a, r>>)) =
            (KickoffUtxoAmountSats - 330 - SlashOrTakeTxMinRelayFee) + 330 + 0
    BY <1>1, <1>2, <1>4, SmallSums
  <2>3. QED
    BY <1>1, <1>2, <1>3, <2>1, <2>2 DEF Fee
<1>8. \A out \in {o, a, r} : out.value >= DustLimit(out)
  BY <1>1, <1>2, <1>4, <1>6, DustLimits
<1>9. QED
  BY <1>1, <1>2, <1>5, <1>7, <1>8, Ranges DEF PolicyMet

LEMMA TakePolicy ==
    ASSUME RelayConditions, output \in Variants, NEW i \in Ops PROVE PolicyMet(Take(i))
<1> DEFINE a == AnyoneCanSpend
           m == MovedOut
           s == SotTx(i).outs[1]
           u == KickoffUtxoAmountSats - 330 - SlashOrTakeTxMinRelayFee
           w == BridgeAmount - MoveTxMinRelayFee - 330
           v == u + w - OperatorTakesTxMinRelayFee - 330
           o == Out(s.value + w - OperatorTakesTxMinRelayFee - 330, TweakedKey(i, <<>>))
<1>1. /\ KickoffUtxoAmountSats \in Nat /\ KickoffUtxoAmountSats >= 5000
      /\ SlashOrTakeTxMinRelayFee = 240 /\ OperatorTakesTxMinRelayFee = 230
  BY SMT DEF KickoffUtxoAmountSats, SlashOrTakeTxMinRelayFee, OperatorTakesTxMinRelayFee
<1>2. BridgeAmount \in Nat /\ MoveTxMinRelayFee = 190 /\ BridgeAmount >= 850
  BY AmountsAssumption DEF RelayConditions, MoveTxMinRelayFee
<1>3. s.value = u
  BY SotOuts
<1>4. HandlerOf(Take(i)).outs = <<o, a>>
  <2>1. TakeTx(i).outs = <<o, a>>
    BY Amounts DEF TakeTx, SotTx, CreateOperatorTakesTx, Handler
  <2>2. QED
    BY <2>1, Handlers
<1>5. Spent(Take(i)) = <<m, s>>
  BY SpentOuts
<1>6. o.value = v /\ a.value = 330 /\ m.value = w
  BY <1>3, Amounts DEF MovedOut
<1>7. TxVSize(Take(i)) <= OperatorTakesTxMinRelayFee
  <2>1. TxVSize(Take(i)) = TakeVSize(OperatorTakesAfter)
    BY DEF TxVSize, Take, Tx
  <2>2. OperatorTakesAfter \in Nat /\ OperatorTakesAfter <= 32767
    BY Timelocks DEF RelayConditions
  <2>3. QED
    BY <2>1, <2>2, TakeSize
<1> HIDE DEF a, m, s, o
<1>8. u \in Int /\ w \in Int /\ v \in Int /\ v >= 330
  BY <1>1, <1>2
<1>9. (w + u) - (v + 330) = OperatorTakesTxMinRelayFee
  BY <1>1, <1>2
<1> HIDE DEF u, w, v
<1>10. Fee(Take(i)) = OperatorTakesTxMinRelayFee
  <2>1. SumFunction(Values(<<m, s>>)) = w + u
    BY <1>3, <1>6, <1>8, SmallSums
  <2>2. SumFunction(Values(<<o, a>>)) = v + 330
    BY <1>6, <1>8, SmallSums
  <2>3. QED
    BY <1>4, <1>5, <1>9, <2>1, <2>2 DEF Fee
<1>11. \A out \in {o, a} : out.value >= DustLimit(out)
  BY <1>6, <1>8, DustLimits
<1>12. QED
  BY <1>1, <1>4, <1>7, <1>10, <1>11, Ranges DEF PolicyMet

(* The fee of the recovery is what the user's wallet leaves.               *)
LEMMA RecoveryPolicy ==
    ASSUME RelayConditions, output \in Variants PROVE PolicyMet(RecoveryTx)
<1> DEFINE h == BridgeAmount \div 2
           o == Out(h, TweakedKey(User, <<>>))
           d == DepositOut(output)
<1>1. BridgeAmount \in Nat /\ BridgeAmount >= 850
  BY AmountsAssumption DEF RelayConditions, MoveTxMinRelayFee
<1>2. h \in Int /\ h >= 330 /\ h <= BridgeAmount - 1
  BY <1>1
<1>3. HandlerOf(RecoveryTx).outs = <<o>>
  <2>1. CreateRecoveryTx(output).outs = <<o>>
    BY DEF CreateRecoveryTx, Handler
  <2>2. QED
    BY <2>1, Handlers
<1>4. Spent(RecoveryTx) = <<d>>
  BY SpentOuts
<1>5. d.value \in {BridgeAmount, BridgeAmount - 1} /\ o.value = h
  <2>1. d.value \in {BridgeAmount, BridgeAmount - 1}
    BY Amounts DEF DepositOut
  <2>2. QED
    BY <2>1, Amounts
<1>6. TxVSize(RecoveryTx) = 0
  <2>1. RecoveryTx.kind \notin {"move", "gen", "sot", "take"}
    BY DEF RecoveryTx, Tx
  <2>2. QED
    BY <2>1, Zenon DEF TxVSize
<1> HIDE DEF h, o, d
<1>7. Fee(RecoveryTx) \in Int /\ Fee(RecoveryTx) >= 0
  <2>1. SumFunction(Values(<<d>>)) = d.value
    BY <1>1, <1>5, SmallSums
  <2>2. SumFunction(Values(<<o>>)) = h
    BY <1>2, <1>5, SmallSums
  <2>3. QED
    BY <1>1, <1>2, <1>3, <1>4, <1>5, <2>1, <2>2 DEF Fee
<1>8. o.value >= DustLimit(o)
  BY <1>2, <1>5, DustLimits
<1>9. QED
  BY <1>3, <1>6, <1>7, <1>8, Ranges DEF PolicyMet

(* Every transaction that the program completes is one that nodes relay:   *)
(* it pays for its size and has no output below the dust limit, for every  *)
(* number of operators and kickoffs, timelock and amount that the fee      *)
(* constants were made for.                                                *)
THEOREM RelayPolicyAlwaysMet ==
    ASSUME RelayConditions
    PROVE  Spec => []RelayPolicyMet
<1>1. ASSUME StateInv, WitInv PROVE RelayPolicyMet
  <2> SUFFICES ASSUME NEW t \in Completed PROVE PolicyMet(t)
    BY DEF RelayPolicyMet
  <2>0. t \in Txs /\ wit[t] # <<>> /\ wit[DepositTx] = <<>> /\ output \in Variants
    BY <1>1 DEF Completed, StateInv, IInv, DepositInv
  <2>1. CASE t = RecoveryTx
    BY <2>0, <2>1, RecoveryPolicy
  <2>2. CASE t = MoveTx
    <3>1. stage = "done"
      BY <1>1, <2>2 DEF WitInv
    <3>2. Len(kicks) = N /\ IsSeq(kicks)
      BY <1>1, <3>1 DEF StateInv, ListInv
    <3>3. kicks # <<>>
      BY <3>2, Counts, SmallLists
    <3>4. output = "right"
      BY <1>1, <3>3 DEF StateInv, IInv, BuriedInv, Accepted
    <3>5. QED
      BY <2>2, <3>4, MovePolicy
  <2>3. ASSUME NEW i \in Ops, t \in {Gen(i), Sot(i), Take(i)} PROVE PolicyMet(t)
    BY <2>0, <2>3, GenPolicy, SotPolicy, TakePolicy
  <2>4. QED
    BY <2>0, <2>1, <2>2, <2>3, TxNames
<1>2. QED
  BY <1>1, WitInvHolds, PTL
=============================================================================
