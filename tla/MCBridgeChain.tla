---------------------------- MODULE MCBridgeChain ----------------------------
(* Instances of BridgeChain for TLC.                                       *)
EXTENDS BridgeChain, TLC
=============================================================================
