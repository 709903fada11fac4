------------------------- MODULE MCOperatorKickoffs -------------------------
(* Instances of OperatorKickoffs for TLC.                                  *)
EXTENDS OperatorKickoffs, TLC

CONSTANTS d1, d2, d3, h1, h2, w1, w2, w3

(* What create_kickoff_utxo_tx takes from the funding.                     *)
Cost == -ChangeAmount(0)

(* w1 funds exactly two generator transactions, the second with a change   *)
(* of 0; w2 is one satoshi short of that; w3 funds none.                   *)
Tight == (w1 :> 2 * Cost) @@ (w2 :> 2 * Cost - 1) @@ (w3 :> Cost - 1)

(* Room for every deposit of the instance.                                 *)
Ample == [w \in {w1, w2, w3} |-> 5 * Cost]

(* The RPC names the output of w1 with and without its true value, and the *)
(* change of the generator that spends it.                                 *)
SomeNamed == {WalletUtxo(w1), [WalletUtxo(w1) EXCEPT !.value = Cost],
              ChangeUtxo(WalletUtxo(w1))}

Symm == Permutations({d1, d2, d3}) \cup Permutations({h1, h2})
=============================================================================
