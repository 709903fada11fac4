------------------------- MODULE MCOperatorWithdrawal -------------------------
(* Instances of OperatorWithdrawal for TLC.                                *)
EXTENDS OperatorWithdrawal, TLC

CONSTANTS o1, o2, b1, b2, b3, h1, h2, h3, u1, u2

(* Two coins in the first operator's wallet and one in the second's.       *)
Wallets == [c \in Coins |-> IF c = b3 THEN o2 ELSE o1]

(* The amounts around every boundary of is_profitable.                     *)
Edges == {0, DustValue - 1, DustValue,
          BridgeAmount - WithdrawalFee - 1, BridgeAmount - WithdrawalFee,
          BridgeAmount, BridgeAmount + 1, BridgeAmount + DustValue,
          BridgeAmount + DustValue + 1, U64 - 1}

Symm == Permutations(Handlers) \cup Permutations(Withdrawals)
=============================================================================
