-------------------------- MODULE OperatorWithdrawal --------------------------
(***************************************************************************)
(* Paying a withdrawal: User::generate_withdrawal_transaction_and_signature*)
(* (core/src/user.rs) and Operator::new_withdrawal_sig with is_profitable  *)
(* (core/src/operator.rs), for several operators that may pay the same     *)
(* withdrawal at the same time.                                            *)
(*                                                                         *)
(* The user makes a dust UTXO, registers it on Citrea and signs a          *)
(* transaction that spends it for the amount to be withdrawn, to which     *)
(* others may add inputs and outputs.  An operator that is asked to pay    *)
(* checks Citrea, its profit and the signature, then has its wallet fund,  *)
(* sign and send the transaction: three calls of the node, and nothing is  *)
(* locked between them.                                                    *)
(*                                                                         *)
(* Amounts are 64-bit unsigned integers of modulus U64.  A withdrawal is   *)
(* identified with the UTXO made for it.                                   *)
(***************************************************************************)
EXTENDS Integers

CONSTANTS
    Withdrawals,
    Operators,
    Handlers,       \* concurrent calls of new_withdrawal_sig
    Coins,          \* wallet UTXOs, each enough for one payment
    Owner,          \* the operator whose wallet holds a coin
    Amounts,        \* amounts that users withdraw
    BridgeAmount,   \* config.bridge_amount_sats
    WithdrawalFee,  \* config.operator_withdrawal_fee_sats
    DustValue,      \* WITHDRAWAL_EMPTY_UTXO_SATS
    U64,            \* 2^64
    CitreaChecks,   \* whether config.citrea_rpc_url is set
    NULL

ASSUME U64Assumption == U64 \in Nat \ {0}
ASSUME AmountsAssumption ==
    /\ Amounts \subseteq 0 .. U64-1
    /\ BridgeAmount \in 0 .. U64-1
    /\ WithdrawalFee \in 0 .. U64-1
    /\ DustValue \in 0 .. U64-1
ASSUME OwnerAssumption == Owner \in [Coins -> Operators]

VARIABLES
    request,    \* per withdrawal: what its user has signed, or NULL
    job,        \* per handler: the call it executes, or NULL
    payments    \* accepted payments: [withdrawal, operator, coin]

vars == <<request, job, payments>>

-----------------------------------------------------------------------------
(* u64::wrapping_sub                                                       *)
WrappingSub(a, b) == (a - b) % U64

(* Mutant: the operands are swapped.                                       *)
DifferenceSwapped(input, amount) == WrappingSub(input, amount) > BridgeAmount

(* The first test of is_profitable.                                        *)
DifferenceTooBig(input, amount) == WrappingSub(amount, input) > BridgeAmount

(* Amount - Amount panics on underflow.                                    *)
ProfitPanics(input, amount) ==
    ~ DifferenceTooBig(input, amount) /\ BridgeAmount < amount

(* Mutant: the fee is enough.                                              *)
IsNotUnprofitable(input, amount) ==
    /\ ~ DifferenceTooBig(input, amount)
    /\ amount <= BridgeAmount
    /\ BridgeAmount - amount >= WithdrawalFee

IsProfitable(input, amount) ==
    /\ ~ DifferenceTooBig(input, amount)
    /\ amount <= BridgeAmount
    /\ BridgeAmount - amount > WithdrawalFee

(* Output 0 of the operator_takes transaction for a kickoff UTXO of the    *)
(* minimal value: what the operator is reimbursed.                         *)
KickoffUtxoAmountSats      == 100000
AnyoneCanSpendSats         == 330
MoveTxMinRelayFee          == 190
SlashOrTakeTxMinRelayFee   == 240
OperatorTakesTxMinRelayFee == 230

SlashOrTakeValue ==
    KickoffUtxoAmountSats - AnyoneCanSpendSats - SlashOrTakeTxMinRelayFee

OperatorTakesValue ==
    SlashOrTakeValue + BridgeAmount - MoveTxMinRelayFee - OperatorTakesTxMinRelayFee
        - AnyoneCanSpendSats - AnyoneCanSpendSats

-----------------------------------------------------------------------------
Init ==
    /\ request = [w \in Withdrawals |-> NULL]
    /\ job = [h \in Handlers |-> NULL]
    /\ payments = {}

(* The user's wallet places the dust output: it may be output 0 or 1.      *)
GenerateWithdrawal(w, vout, amount) ==
    /\ request[w] = NULL
    /\ request' = [request EXCEPT ![w] = [vout |-> vout, amount |-> amount]]
    /\ UNCHANGED <<job, payments>>

(* new_withdrawal_sig for index idx and the input of withdrawal w, which   *)
(* must be the one that Citrea has for idx; every check passes.            *)
NewWithdrawalSig(h, o, idx, w) ==
    /\ job[h] = NULL
    /\ request[w] # NULL
    /\ CitreaChecks => idx = w /\ request[w].vout = 0
    /\ IsProfitable(DustValue, request[w].amount)
    /\ job' = [job EXCEPT ![h] = [operator |-> o, withdrawal |-> w, coin |-> NULL]]
    /\ UNCHANGED <<request, payments>>

SpentCoins == {p.coin : p \in payments}
Paid       == {p.withdrawal : p \in payments}

(* fund_raw_transaction adds a coin of the operator's wallet; with         *)
(* lock_unspents unset another call may be given the same one.             *)
FundRawTransaction(h) ==
    /\ job[h] # NULL
    /\ job[h].coin = NULL
    /\ job[h].withdrawal \notin Paid
    /\ \E c \in Coins \ SpentCoins :
        /\ Owner[c] = job[h].operator
        /\ job' = [job EXCEPT ![h].coin = c]
    /\ UNCHANGED <<request, payments>>

(* It fails when the wallet has no coin left or the input is spent.        *)
FundError(h) ==
    /\ job[h] # NULL
    /\ job[h].coin = NULL
    /\ \/ job[h].withdrawal \in Paid
       \/ \A c \in Coins \ SpentCoins : Owner[c] # job[h].operator
    /\ job' = [job EXCEPT ![h] = NULL]
    /\ UNCHANGED <<request, payments>>

(* send_raw_transaction: the node accepts it if no input is spent, ...     *)
SendRawTransaction(h) ==
    /\ job[h] # NULL
    /\ job[h].coin # NULL
    /\ job[h].coin \notin SpentCoins
    /\ job[h].withdrawal \notin Paid
    /\ payments' = payments \cup {job[h]}
    /\ job' = [job EXCEPT ![h] = NULL]
    /\ UNCHANGED request

(* ... and refuses it as a conflict otherwise.                             *)
SendConflict(h) ==
    /\ job[h] # NULL
    /\ job[h].coin # NULL
    /\ job[h].coin \in SpentCoins \/ job[h].withdrawal \in Paid
    /\ job' = [job EXCEPT ![h] = NULL]
    /\ UNCHANGED <<request, payments>>

Proceed(h) ==
    \/ FundRawTransaction(h)
    \/ FundError(h)
    \/ SendRawTransaction(h)
    \/ SendConflict(h)

Next ==
    \/ \E w \in Withdrawals, vout \in {0, 1}, a \in Amounts :
        GenerateWithdrawal(w, vout, a)
    \/ \E h \in Handlers, o \in Operators, idx, w \in Withdrawals :
        NewWithdrawalSig(h, o, idx, w)
    \/ \E h \in Handlers : Proceed(h)

Spec == Init /\ [][Next]_vars

-----------------------------------------------------------------------------
(* Properties *)

(* Requests, running calls and payments are well-formed: what is sent has  *)
(* been funded.                                                            *)
TypeOK ==
    /\ request \in [Withdrawals -> [vout : {0, 1}, amount : Amounts] \cup {NULL}]
    /\ job \in [Handlers -> [operator : Operators, withdrawal : Withdrawals,
                             coin : Coins \cup {NULL}] \cup {NULL}]
    /\ payments \subseteq [operator : Operators, withdrawal : Withdrawals, coin : Coins]

(* is_profitable, with its wrapping subtraction, lets no payment through   *)
(* that leaves less than the fee, nor one that the operator_takes          *)
(* transaction does not cover (core/tests/flow.rs asserts the latter).     *)
PaymentsAreCovered ==
    \A p \in payments :
        /\ request[p.withdrawal].amount + WithdrawalFee < BridgeAmount
        /\ request[p.withdrawal].amount < OperatorTakesValue

(* operator.rs, tests: "Smaller input amount must not cause a panic.",     *)
(* "Bigger input amount must not cause a panic."                           *)
ProfitCheckDoesNotPanic ==
    \A w \in Withdrawals :
        request[w] # NULL => ~ ProfitPanics(DustValue, request[w].amount)

-----------------------------------------------------------------------------
(* Liveness.  Servers run their handlers, and users ask every operator     *)
(* again until they are paid.                                              *)
Fairness ==
    /\ \A h \in Handlers : WF_vars(Proceed(h))
    /\ \A w \in Withdrawals, o \in Operators :
        SF_vars(\E h \in Handlers : w \notin Paid /\ NewWithdrawalSig(h, o, w, w))

FairSpec == Spec /\ Fairness

(* A withdrawal that leaves the operator more than its fee is paid in the  *)
(* end, whoever races for it and for the coins, if an operator has a coin. *)
(* Two kinds are not, whatever they leave: below the dust value, where the *)
(* subtraction wraps, and, with Citrea's check, output 1.                  *)
Payable(w) ==
    /\ request[w] # NULL
    /\ request[w].vout = 0
    /\ request[w].amount >= DustValue
    /\ request[w].amount + WithdrawalFee < BridgeAmount

ProfitableIsPaid == \A w \in Withdrawals : Payable(w) ~> w \in Paid
=============================================================================
