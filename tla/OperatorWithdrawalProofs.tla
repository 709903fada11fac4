---------------------- MODULE OperatorWithdrawalProofs ----------------------
(***************************************************************************)
(* Theorems about OperatorWithdrawal for every width, bridge amount, fee   *)
(* and set of amounts, and any number of operators, calls and withdrawals. *)
(***************************************************************************)
EXTENDS OperatorWithdrawal, TLAPS

(* What passed is_profitable stays profitable: a request is never changed, *)
(* so the check made before fundrawtransaction holds when it is sent.      *)
Checked(w) == request[w] # NULL /\ IsProfitable(DustValue, request[w].amount)

IInv ==
    /\ TypeOK
    /\ \A h \in Handlers : job[h] # NULL => Checked(job[h].withdrawal)
    /\ \A p \in payments : Checked(p.withdrawal)

-----------------------------------------------------------------------------
(* Before any request there is no call and no payment.                     *)
LEMMA InitIInv == Init => IInv
  BY DEF Init, IInv, TypeOK

(* A funded call becomes a payment, whose coin is not NULL; a checked      *)
(* request stays as it is.                                                 *)
LEMMA NextIInv == IInv /\ [Next]_vars => IInv'
<1> SUFFICES ASSUME IInv, [Next]_vars PROVE IInv'
  OBVIOUS
<1> USE DEF IInv, TypeOK
<1>1. CASE UNCHANGED vars
  BY <1>1 DEF vars, Checked
<1>2. ASSUME NEW w \in Withdrawals, NEW vout \in {0, 1}, NEW a \in Amounts,
             GenerateWithdrawal(w, vout, a)
      PROVE IInv'
  <2>1. \A u \in Withdrawals : Checked(u) => Checked(u)'
    BY <1>2 DEF GenerateWithdrawal, Checked
  <2>2. TypeOK'
    BY <1>2 DEF GenerateWithdrawal
  <2>3. QED
    BY <1>2, <2>1, <2>2 DEF GenerateWithdrawal
<1>3. ASSUME NEW h \in Handlers, NEW o \in Operators, NEW idx \in Withdrawals,
             NEW w \in Withdrawals, NewWithdrawalSig(h, o, idx, w)
      PROVE IInv'
  BY <1>3 DEF NewWithdrawalSig, Checked
<1>4. ASSUME NEW h \in Handlers, FundRawTransaction(h) PROVE IInv'
  BY <1>4 DEF FundRawTransaction, Checked
<1>5. ASSUME NEW h \in Handlers, FundError(h) \/ SendConflict(h) PROVE IInv'
  BY <1>5 DEF FundError, SendConflict, Checked
<1>6. ASSUME NEW h \in Handlers, SendRawTransaction(h) PROVE IInv'
  BY <1>6 DEF SendRawTransaction, Checked
<1>7. QED
  BY <1>1, <1>2, <1>3, <1>4, <1>5, <1>6 DEF Next, Proceed

(* Every running call and every payment is for a request that passed       *)
(* is_profitable.                                                          *)
THEOREM Invariance == Spec => []IInv
  BY InitIInv, NextIInv, PTL DEF Spec

(* Requests, calls and payments are always well-formed; in particular only *)
(* funded transactions are sent.                                           *)
THEOREM TypeCorrect == Spec => []TypeOK
<1>1. IInv => TypeOK
  BY DEF IInv
<1>2. QED
  BY Invariance, <1>1, PTL

(* No payment leaves the operator less than its fee or less than it is     *)
(* reimbursed, whatever the wrapping subtraction of is_profitable yields.  *)
THEOREM PaymentsAlwaysCovered == Spec => []PaymentsAreCovered
<1>1. IInv => PaymentsAreCovered
  <2> SUFFICES ASSUME IInv, NEW p \in payments
               PROVE  /\ request[p.withdrawal].amount + WithdrawalFee < BridgeAmount
                      /\ request[p.withdrawal].amount < OperatorTakesValue
    BY DEF PaymentsAreCovered
  <2> DEFINE a == request[p.withdrawal].amount
  <2>1. /\ p.withdrawal \in Withdrawals
        /\ request[p.withdrawal] # NULL
        /\ IsProfitable(DustValue, a)
    BY DEF IInv, TypeOK, Checked
  <2>2. a \in Amounts
    BY <2>1 DEF IInv, TypeOK
  <2> HIDE DEF a
  <2>3. a \in 0 .. U64-1 /\ BridgeAmount \in 0 .. U64-1 /\ WithdrawalFee \in 0 .. U64-1
    BY <2>2, AmountsAssumption
  <2>4. a <= BridgeAmount /\ BridgeAmount - a > WithdrawalFee
    BY <2>1 DEF IsProfitable
  <2>5. QED
    BY <2>3, <2>4, U64Assumption DEF a, OperatorTakesValue, SlashOrTakeValue, KickoffUtxoAmountSats,
       AnyoneCanSpendSats, MoveTxMinRelayFee, SlashOrTakeTxMinRelayFee,
       OperatorTakesTxMinRelayFee
<1>2. QED
  BY Invariance, <1>1, PTL
=============================================================================
