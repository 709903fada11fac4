----------------------------- MODULE BitcoinWork -----------------------------
(***************************************************************************)
(* The proof of work of a block header as the circuits check it            *)
(* (circuits/src/bitcoin.rs): the target of the bits field, the hash       *)
(* against the target, the work.                                           *)
(*                                                                         *)
(* Numbers of 32 bytes are little-endian functions on 0 .. 31; the number  *)
(* of bytes and their base are parameters, so that an instance can go      *)
(* through all of them.  A bits field is its exponent and its mantissa of  *)
(* three bytes.                                                            *)
(***************************************************************************)
EXTENDS Arithmetic

CONSTANTS
    Base,           \* 256
    TargetBytes     \* 32

ASSUME WidthAssumption == Base \in Nat \ {0, 1} /\ TargetBytes \in Nat /\ TargetBytes > 3

Positions == 0 .. TargetBytes - 1
U256      == Power(Base)[TargetBytes]
Bytes     == [Positions -> 0 .. Base - 1]
BitsField == [exponent : 0 .. TargetBytes, value : 0 .. Power(Base)[3] - 1]

(* (value >> 8k) as u8                                                     *)
ByteOf(value, k) == (value \div Power(Base)[k]) % Base

(* The number that the k highest bytes are, and the whole of it.           *)
HighBytes(b) ==
    LET high[k \in 0 .. TargetBytes] ==
            IF k = 0 THEN 0 ELSE Base * high[k-1] + b[TargetBytes - k]
    IN  high

FromLeBytes(b) == HighBytes(b)[TargetBytes]

(* Mutant: the mantissa is written from its other end.                     *)
DecodeCompactTargetBigEndian(bits) ==
    [k \in Positions |->
        IF k - (bits.exponent - 3) \in 0 .. 2
        THEN ByteOf(bits.value, 2 - (k - (bits.exponent - 3)))
        ELSE 0]

(* A short target is written from index 31 down, any other one from index  *)
(* exponent - 3 up.  An exponent above 32 indexes out of bounds: a panic.  *)
DecodeCompactTarget(bits) ==
    IF bits.exponent <= 3
    THEN [k \in Positions |->
            LET i == TargetBytes - 1 - k IN
            IF i < bits.exponent THEN ByteOf(bits.value, 4 - bits.exponent + i) ELSE 0]
    ELSE [k \in Positions |->
            LET i == k - (bits.exponent - 3) IN
            IF i \in 0 .. 2 THEN ByteOf(bits.value, i) ELSE 0]

(* From the last byte down, the first one that differs decides.            *)
CheckHashValid(hash, target) ==
    \/ hash = target
    \/ \E k \in Positions :
        /\ hash[k] < target[k]
        /\ \A j \in Positions : j > k => hash[j] = target[j]

(* U256::MAX / (target + 1), which saturates.                              *)
CalculateWork(target) ==
    LET t == FromLeBytes(target)
    IN  (U256 - 1) \div (IF t = U256 - 1 THEN t ELSE t + 1)

(* old_work.wrapping_add(&work)                                            *)
AddWork(old, bits) == (old + CalculateWork(DecodeCompactTarget(bits))) % U256
=============================================================================
