----------------------------- MODULE Arithmetic -----------------------------
(***************************************************************************)
(* Powers of a number, as a function of the exponent that proofs can       *)
(* reason about by induction.                                              *)
(***************************************************************************)
EXTENDS Integers

Power(b) ==
    LET power[e \in Nat] == IF e = 0 THEN 1 ELSE b * power[e-1]
    IN  power
=============================================================================
