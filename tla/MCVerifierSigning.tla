-------------------------- MODULE MCVerifierSigning --------------------------
(* Instances of VerifierSigning for TLC.                                   *)
EXTENDS VerifierSigning, TLC

CONSTANTS v1, v2, d1, d2, k1, k2, k3

(* Operator 0 signed two kickoffs for a deposit, the others one.           *)
TwoSigned == [x \in Deposits \X Ops |-> IF x[2] = 0 THEN {k1, k2} ELSE {k3}]

(* Every operator signed one kickoff, as KickoffRegistry promises.         *)
OneSigned == [x \in Deposits \X Ops |-> IF x[2] = 0 THEN {k1} ELSE {k3}]

Symm == Permutations({v1, v2})
=============================================================================
