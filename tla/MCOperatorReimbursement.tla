----------------------- MODULE MCOperatorReimbursement -----------------------
(* Instances of OperatorReimbursement for TLC.                             *)
EXTENDS OperatorReimbursement, TLC

CONSTANTS d1, d2, d3, h1, c1, c2, w1, w2

(* What create_kickoff_utxo_tx takes from the funding.                     *)
Cost == -ChangeAmount(0)

(* w1 funds a chain of three generator transactions, w2 of one.            *)
Funding == [w \in Wallet |-> IF w = w1 THEN 3 * Cost ELSE Cost]

(* Bound of the safety run, whose properties end where the money is taken:  *)
(* what follows the signatures of a deposit is left to the other run.      *)
NothingMoved == moved = {}

Symm == Permutations(Deposits) \cup Permutations(Callers)
=============================================================================
