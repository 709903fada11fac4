---------------------------- MODULE MCBridgeProof ----------------------------
(* Two periods of at most two blocks, a tree of four leaves.               *)
EXTENDS BridgeProof, TLC

(* A block contains a payment to one address, or spends of both outputs,   *)
(* by different transactions, for every claim.                             *)
MCTxRoots ==
    {{Payment(a)} : a \in Addresses} \cup {{Spend(c, o) : c \in Claims, o \in Outputs}}

(* A target of 117 and work 2.                                             *)
MCBits == {[exponent |-> 5, value |-> 13]}

(* Addresses are interchangeable.                                          *)
Symm == Permutations(Addresses)
=============================================================================
