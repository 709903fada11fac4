-------------------------- MODULE BridgeProofProofs --------------------------
(***************************************************************************)
(* What the bridge proof's circuit guarantees, for every tree depth, every *)
(* number of rounds, blocks and payments within the capacity of the trees, *)
(* every base and width of the numbers, and every input of the host.       *)
(***************************************************************************)
EXTENDS BridgeProof, IncrementalMerkleProofs

-----------------------------------------------------------------------------
(* Numbers of TargetBytes bytes *)

(* Powers of the base are positive, and there are at least two numbers.    *)
LEMMA BaseFacts ==
    /\ Base \in Nat \ {0} /\ Base > 1
    /\ TargetBytes \in Nat /\ TargetBytes > 3
    /\ Power(Base)[0] = 1
    /\ \A e \in Nat : Power(Base)[e] \in Nat \ {0} /\ Power(Base)[e+1] = Base * Power(Base)[e]
    /\ U256 \in Nat /\ U256 > 1
<1>1. Base \in Nat \ {0} /\ Base > 1 /\ TargetBytes \in Nat /\ TargetBytes > 3
  BY WidthAssumption
<1>2. /\ Power(Base)[0] = 1
      /\ \A e \in Nat : Power(Base)[e] \in Nat \ {0} /\ Power(Base)[e+1] = Base * Power(Base)[e]
  BY <1>1, PowerDef
<1>3. U256 \in Nat /\ U256 > 1
  <2>1. TargetBytes - 1 \in Nat /\ (TargetBytes - 1) + 1 = TargetBytes
    BY <1>1
  <2>2. U256 = Base * Power(Base)[TargetBytes - 1] /\ Power(Base)[TargetBytes - 1] \in Nat \ {0}
    BY <1>2, <2>1 DEF U256
  <2>3. \A b, p \in Nat \ {0} : b > 1 => b * p \in Nat /\ b * p > 1
    OBVIOUS
  <2>4. QED
    BY <1>1, <2>2, <2>3
<1>4. QED
  BY <1>1, <1>2, <1>3

(* The number of the highest bytes, byte by byte.                          *)
LEMMA HighBytesDef ==
    ASSUME NEW b \in Bytes
    PROVE  /\ HighBytes(b)[0] = 0
           /\ \A k \in 0 .. TargetBytes : HighBytes(b)[k] \in Nat
           /\ \A k \in 0 .. TargetBytes - 1 :
                /\ TargetBytes - (k+1) \in Positions
                /\ HighBytes(b)[k+1] = Base * HighBytes(b)[k] + b[TargetBytes - (k+1)]
           /\ FromLeBytes(b) \in Nat
<1> DEFINE Step(k, x) == Base * x + b[TargetBytes - k]
           Body(m, h) == [k \in 0 .. m |-> IF k = 0 THEN 0 ELSE Step(k, h[k-1])]
           S          == {m \in Nat : \E h : h = Body(m, h)}
           p          == HighBytes(b)
<1>0. Base \in Nat /\ TargetBytes \in Nat
  BY BaseFacts
<1>1. p = CHOOSE h : h = Body(TargetBytes, h)
  BY DEF HighBytes
<1> HIDE DEF Step
<1>2. 0 \in S
  <2> DEFINE h == [k \in 0 .. 0 |-> 0]
  <2>1. h = Body(0, h)
    OBVIOUS
  <2>2. QED
    BY <2>1
<1>3. ASSUME NEW m \in Nat, m \in S PROVE m + 1 \in S
  <2>1. PICK h : h = Body(m, h)
    BY <1>3
  <2> DEFINE g == [k \in 0 .. m + 1 |-> IF k = 0 THEN 0 ELSE Step(k, h[k-1])]
  <2>2. \A k \in 0 .. m : g[k] = h[k]
    BY <2>1
  <2>3. g = [k \in 0 .. m + 1 |-> IF k = 0 THEN 0 ELSE Step(k, h[k-1])]
    OBVIOUS
  <2> HIDE DEF g
  <2>4. \A k \in 0 .. m + 1 : k # 0 => g[k-1] = h[k-1]
    BY <2>2
  <2>5. g = Body(m + 1, g)
    BY <2>3, <2>4
  <2> HIDE DEF Body
  <2>6. QED
    BY <2>5
<1>4. TargetBytes \in S
  <2> HIDE DEF S
  <2>1. QED
    BY <1>0, <1>2, <1>3, SetInduction
<1>5. p = Body(TargetBytes, p)
  <2>1. \E h : h = Body(TargetBytes, h)
    BY <1>4
  <2> HIDE DEF Body
  <2>2. QED
    BY <1>1, <2>1
<1> HIDE DEF p
<1>6. p[0] = 0
  BY <1>0, <1>5
<1>7. ASSUME NEW k \in 0 .. TargetBytes - 1 PROVE p[k+1] = Step(k+1, p[k])
  <2>1. k + 1 \in 0 .. TargetBytes /\ k + 1 # 0 /\ (k + 1) - 1 = k
    BY <1>0
  <2>2. p[k+1] = IF k + 1 = 0 THEN 0 ELSE Step(k+1, p[(k+1)-1])
    BY <1>5, <2>1
  <2>3. QED
    BY <2>1, <2>2
<1>8. \A k \in 0 .. TargetBytes - 1 :
         TargetBytes - (k+1) \in Positions /\ b[TargetBytes - (k+1)] \in Nat
  BY <1>0 DEF Positions, Bytes
<1>9. \A k \in 0 .. TargetBytes : p[k] \in Nat
  <2> DEFINE T == {k \in 0 .. TargetBytes : p[k] \in Nat}
  <2>1. 0 \in T
    BY <1>0, <1>6
  <2>2. ASSUME NEW k \in 0 .. TargetBytes - 1, k \in T PROVE k + 1 \in T
    <3>1. p[k+1] = Base * p[k] + b[TargetBytes - (k+1)]
      BY <1>7 DEF Step
    <3>2. \A x, y, z \in Nat : x * y + z \in Nat
      OBVIOUS
    <3>3. p[k+1] \in Nat
      BY <1>0, <1>8, <2>2, <3>1, <3>2
    <3>4. k + 1 \in 0 .. TargetBytes
      BY <1>0
    <3>5. QED
      BY <3>3, <3>4
  <2>3. \A k \in 0 .. TargetBytes : k \in T
    <3> HIDE DEF T
    <3>1. QED
      BY <1>0, <2>1, <2>2, UpInduction
  <2>4. QED
    BY <2>3
<1>10. FromLeBytes(b) \in Nat
  BY <1>0, <1>9 DEF FromLeBytes, p
<1>11. QED
  BY <1>6, <1>7, <1>8, <1>9, <1>10 DEF p, Step

(* A decoded target is a number of TargetBytes bytes.                      *)
LEMMA TargetIsBytes ==
    ASSUME NEW bits \in BitsField
    PROVE  DecodeCompactTarget(bits) \in Bytes
<1> DEFINE e == bits.exponent
           v == bits.value
<1>1. e \in 0 .. TargetBytes /\ v \in Nat
  BY BaseFacts DEF BitsField
<1>2. \A k \in Nat : ByteOf(v, k) \in 0 .. Base - 1
  <2>1. \A x \in Nat : \A p, q \in Nat \ {0} : (x \div p) % q \in 0 .. q - 1
    OBVIOUS
  <2>2. QED
    BY <1>1, <2>1, BaseFacts DEF ByteOf
<1>3. 0 \in 0 .. Base - 1
  BY BaseFacts
<1>4. CASE e <= 3
  <2>1. DecodeCompactTarget(bits) =
          [k \in Positions |-> IF TargetBytes - 1 - k < e
                               THEN ByteOf(v, 4 - e + (TargetBytes - 1 - k)) ELSE 0]
    BY <1>4 DEF DecodeCompactTarget
  <2>2. \A k \in Positions : 4 - e + (TargetBytes - 1 - k) \in Nat
    BY <1>1, <1>4, BaseFacts DEF Positions
  <2> HIDE DEF e, v
  <2>3. QED
    BY <1>2, <1>3, <2>1, <2>2 DEF Bytes
<1>5. CASE ~ (e <= 3)
  <2>1. DecodeCompactTarget(bits) =
          [k \in Positions |-> IF k - (e - 3) \in 0 .. 2 THEN ByteOf(v, k - (e - 3)) ELSE 0]
    BY <1>5 DEF DecodeCompactTarget
  <2> HIDE DEF e, v
  <2>2. QED
    BY <1>2, <1>3, <2>1 DEF Bytes
<1>6. QED
  BY <1>4, <1>5

(* Work is a number, and so is the sum of it.                              *)
LEMMA WorkIsNat ==
    ASSUME NEW bits \in BitsField
    PROVE  /\ CalculateWork(DecodeCompactTarget(bits)) \in Nat
           /\ \A old \in Nat : AddWork(old, bits) \in Nat
                               /\ AddWork(old, bits) <= old + CalculateWork(DecodeCompactTarget(bits))
<1> DEFINE w == CalculateWork(DecodeCompactTarget(bits))
           t == FromLeBytes(DecodeCompactTarget(bits))
<1>1. t \in Nat
  BY TargetIsBytes, HighBytesDef
<1>2. U256 \in Nat /\ U256 > 1
  BY BaseFacts
<1>3. w \in Nat
  <2>1. w = (U256 - 1) \div (IF t = U256 - 1 THEN t ELSE t + 1)
    BY DEF CalculateWork
  <2>2. \A x, y \in Nat : y # 0 => x \div y \in Nat
    OBVIOUS
  <2>3. U256 - 1 \in Nat /\ U256 - 1 # 0 /\ t + 1 \in Nat /\ t + 1 # 0
    BY <1>1, <1>2
  <2> HIDE DEF w, t
  <2>4. QED
    BY <1>1, <2>1, <2>2, <2>3
<1>4. \A old \in Nat : AddWork(old, bits) = (old + w) % U256
  BY DEF AddWork
<1>5. \A x \in Nat : \A u \in Nat \ {0} : x % u \in Nat /\ x % u <= x
  OBVIOUS
<1> HIDE DEF w
<1>6. \A old \in Nat : (old + w) % U256 \in Nat /\ (old + w) % U256 <= old + w
  <2>1. \A old \in Nat : old + w \in Nat
    BY <1>3
  <2>2. QED
    BY <1>2, <1>5, <2>1
<1>7. QED
  BY <1>3, <1>4, <1>6 DEF w

-----------------------------------------------------------------------------
(* Types and bookkeeping *)

(* The constants, as the steps below use them.                             *)
LEMMA ConstantFacts ==
    /\ Depth \in Nat /\ ClaimDepth \in Nat /\ NumRounds \in Nat /\ NumRounds > 0
    /\ MaxBlockHandleOps \in Nat
    /\ MaxBlocks \in Nat /\ MaxPayments \in Nat /\ MaxDeep \in Nat /\ MaxPow \in Nat
    /\ [period |-> 0, count |-> 0] \in Claims
<1>1. Capacity(ClaimDepth) \in Nat \ {0}
  BY SizesAssumption, CapacityDef
<1>2. 0 \in 0 .. NumRounds - 1 /\ 0 \in 0 .. Capacity(ClaimDepth) - 1
  BY <1>1, SizesAssumption
<1>3. [period |-> 0, count |-> 0] \in Claims
  <2>1. Leaf(0, 0) \in Claims
    BY <1>2 DEF Claims
  <2>2. QED
    BY <2>1 DEF Leaf
<1>4. QED
  BY <1>3, SizesAssumption, BoundsAssumption

(* Loops stay within their bounds, periods within the rounds, and the work *)
(* within 2^256, whatever the host makes the circuit read.                 *)
THEOREM TypeCorrect == Spec => []TypeOK
<1>1. Init => TypeOK
  <2> SUFFICES ASSUME Init PROVE TypeOK
    OBVIOUS
  <2>1. claim \in Claims
    BY ConstantFacts DEF Init
  <2>2. QED
    BY <2>1, ConstantFacts DEF Init, TypeOK
<1>2. TypeOK /\ [Next]_vars => TypeOK'
  <2> SUFFICES ASSUME TypeOK, [Next]_vars PROVE TypeOK'
    OBVIOUS
  <2> USE ConstantFacts DEF TypeOK
  <2>1. CASE \E k \in 0 .. MaxBlocks : ReadCount(k)
    BY <2>1 DEF ReadCount, Loop, claimVars, gameVars
  <2>2. CASE \E root \in TxRoots, bits \in Bits : ReadBlock(root, bits)
    <3>1. PICK root \in TxRoots, bits \in Bits : ReadBlock(root, bits)
      BY <2>2
    <3>2. pow' \in Nat
      <4>1. bits \in BitsField
        BY BitsAssumption
      <4>2. pow' = AddWork(pow, bits)
        BY <3>1 DEF ReadBlock
      <4>3. QED
        BY <4>1, <4>2, WorkIsNat
    <3>3. UNCHANGED <<phase, claimVars, gameVars>> /\ Again
      BY <3>1 DEF ReadBlock
    <3>4. QED
      BY <3>2, <3>3 DEF Again, claimVars, gameVars
  <2>3. CASE \E k \in 0 .. MaxPayments : ReadNumWithdrawals(k)
    BY <2>3 DEF ReadNumWithdrawals, Loop, chainVars, claimVars, gameVars
  <2>4. CASE \E a \in Addresses, b \in Headers : ReadWithdrawalProof(a, b)
    <3>1. UNCHANGED <<phase, total, claim, chainVars, gameVars>> /\ Again
      BY <2>4 DEF ReadWithdrawalProof
    <3>2. QED
      BY <3>1 DEF Again, chainVars, gameVars
  <2>5. CASE EndProving
    BY <2>5 DEF EndProving, CountPayments, chainVars
  <2>6. CASE NextPeriod
    BY <2>6 DEF NextPeriod, CountPayments, chainVars
  <2>7. CASE RoundsOver
    BY <2>7 DEF RoundsOver, CountPayments, chainVars
  <2>8. CASE \E c \in Challenges, k \in 0 .. MaxDeep : ReadChallenge(c, k)
    BY <2>8 DEF ReadChallenge, Loop, chainVars, claimVars
  <2>9. CASE \E bits \in Bits : ReadDeepBlock(bits)
    <3>1. PICK bits \in Bits : ReadDeepBlock(bits)
      BY <2>9
    <3>2. pow' \in Nat
      <4>1. bits \in BitsField
        BY BitsAssumption
      <4>2. pow' = AddWork(pow, bits)
        BY <3>1 DEF ReadDeepBlock
      <4>3. QED
        BY <4>1, <4>2, WorkIsNat
    <3>3. UNCHANGED <<phase, claimVars, gameVars>> /\ Again
      BY <3>1 DEF ReadDeepBlock
    <3>4. QED
      BY <3>2, <3>3 DEF Again, claimVars, gameVars
  <2>10. CASE GoOn \/ Lose
    BY <2>10 DEF GoOn, Lose, chainVars, claimVars, gameVars
  <2>11. CASE \E hash \in {lc, ZeroHash}, root \in {wtree.root} : ReadAndVerifyLcProof(hash, root)
    BY <2>11 DEF ReadAndVerifyLcProof, chainVars, claimVars, gameVars
  <2>12. CASE \E c \in Claims, o \in Outputs, b \in Headers : ProveClaim(c, o, b)
    BY <2>12 DEF ProveClaim, chainVars, gameVars
  <2>13. CASE BadInput
    BY <2>13 DEF BadInput, chainVars, claimVars, gameVars
  <2>14. CASE UNCHANGED vars
    BY <2>14 DEF vars, chainVars, claimVars, gameVars
  <2>15. QED
    BY <2>1, <2>2, <2>3, <2>4, <2>5, <2>6, <2>7, <2>8, <2>9, <2>10, <2>11, <2>12, <2>13, <2>14
       DEF Next
<1>3. QED
  BY <1>1, <1>2, PTL DEF Spec

-----------------------------------------------------------------------------
(* The trees *)

(* What appending does to a sequence and its range.                        *)
LEMMA AppendFacts ==
    ASSUME NEW T, NEW q \in Seq(T), NEW x
    PROVE  /\ Append(q, x) \in Seq(T \cup {x})
           /\ Len(q) \in Nat /\ Len(Append(q, x)) = Len(q) + 1
           /\ \A k \in 1 .. Len(q) : Append(q, x)[k] = q[k]
           /\ Append(q, x)[Len(q) + 1] = x
           /\ \A z : z \in Range(Append(q, x)) <=> z \in Range(q) \/ z = x
<1>0. q \in Seq(T \cup {x})
  <2>1. T \subseteq T \cup {x}
    OBVIOUS
  <2>2. \A k \in 1 .. Len(q) : q[k] \in T \cup {x}
    OBVIOUS
  <2>3. QED
    BY <2>2
<1>1. Append(q, x) \in Seq(T \cup {x})
  BY <1>0
<1>2. Len(q) \in Nat /\ Len(Append(q, x)) = Len(q) + 1
  OBVIOUS
<1>3. \A k \in 1 .. Len(q) : Append(q, x)[k] = q[k]
  BY <1>0
<1>4. Append(q, x)[Len(q) + 1] = x
  BY <1>0
<1>5. DOMAIN q = 1 .. Len(q) /\ DOMAIN Append(q, x) = 1 .. Len(q) + 1
  BY <1>0
<1>6. \A k \in 1 .. Len(q) + 1 : k \in 1 .. Len(q) \/ k = Len(q) + 1
  BY <1>2
<1>7. \A k \in 1 .. Len(q) : k \in 1 .. Len(q) + 1
  BY <1>2
<1>8. Len(q) + 1 \in 1 .. Len(q) + 1
  BY <1>2
<1>9. Range(Append(q, x)) = Range(q) \cup {x}
  <2> DEFINE a == Append(q, x)
             l == Len(q)
             r == l + 1
  <2>1. /\ DOMAIN q = 1 .. l /\ DOMAIN a = 1 .. r
        /\ \A k \in 1 .. r : k \in 1 .. l \/ k = r
        /\ \A k \in 1 .. l : k \in 1 .. r
        /\ r \in 1 .. r
        /\ \A k \in 1 .. l : a[k] = q[k]
        /\ a[r] = x
    BY <1>3, <1>4, <1>5, <1>6, <1>7, <1>8
  <2> HIDE DEF a, l, r
  <2>2. Range(a) = Range(q) \cup {x}
    BY <2>1, Zenon DEF Range
  <2>3. QED
    BY <2>2 DEF a
<1>10. QED
  BY <1>1, <1>2, <1>3, <1>4, <1>9

(* The same of a sequence of whatever is in it.                            *)
LEMMA AppendRange ==
    ASSUME NEW q, NEW x, q \in Seq(Range(q))
    PROVE  /\ Append(q, x) \in Seq(Range(Append(q, x)))
           /\ \A z : z \in Range(Append(q, x)) <=> z \in Range(q) \/ z = x
           /\ Len(q) \in Nat /\ Len(Append(q, x)) = Len(q) + 1
           /\ \A k \in 1 .. Len(q) : Append(q, x)[k] = q[k]
           /\ Append(q, x)[Len(q) + 1] = x
<1> DEFINE T == Range(q)
<1>1. q \in Seq(T)
  OBVIOUS
<1> HIDE DEF T
<1>2. \A z : z \in Range(Append(q, x)) <=> z \in Range(q) \/ z = x
  BY <1>1, AppendFacts
<1>3. Append(q, x) \in Seq(Range(Append(q, x)))
  <2>1. Append(q, x) \in Seq(T \cup {x})
    BY <1>1, AppendFacts
  <2>2. Range(Append(q, x)) = T \cup {x}
    BY <1>2 DEF T
  <2>3. QED
    BY <2>1, <2>2
<1>4. /\ Len(q) \in Nat /\ Len(Append(q, x)) = Len(q) + 1
      /\ \A k \in 1 .. Len(q) : Append(q, x)[k] = q[k]
      /\ Append(q, x)[Len(q) + 1] = x
  BY <1>1, AppendFacts
<1>5. QED
  BY <1>2, <1>3, <1>4

(* The histories are sequences.                                            *)
HistInv ==
    /\ blocks \in Seq(Range(blocks))
    /\ payments \in Seq(Addresses)
    /\ deep \in Seq(Bits)

(* Three actions add to them.                                              *)
LEMMA HistorySteps ==
    ASSUME [Next]_vars
    PROVE  \/ UNCHANGED <<tree, wtree, blocks, payments, deep>>
           \/ \E root \in TxRoots, bits \in Bits : ReadBlock(root, bits)
           \/ \E a \in Addresses, b \in Headers : ReadWithdrawalProof(a, b)
           \/ \E bits \in Bits : ReadDeepBlock(bits)
<1>1. CASE \E k \in 0 .. MaxBlocks : ReadCount(k)
  BY <1>1 DEF ReadCount, claimVars
<1>2. CASE \E k \in 0 .. MaxPayments : ReadNumWithdrawals(k)
  BY <1>2 DEF ReadNumWithdrawals, chainVars, claimVars
<1>3. CASE EndProving \/ NextPeriod \/ RoundsOver
  BY <1>3 DEF EndProving, NextPeriod, RoundsOver, CountPayments, chainVars
<1>4. CASE \E c \in Challenges, k \in 0 .. MaxDeep : ReadChallenge(c, k)
  BY <1>4 DEF ReadChallenge, chainVars, claimVars
<1>5. CASE GoOn \/ Lose \/ BadInput
  BY <1>5 DEF GoOn, Lose, BadInput, chainVars, claimVars
<1>6. CASE \E hash \in {lc, ZeroHash}, root \in {wtree.root} : ReadAndVerifyLcProof(hash, root)
  BY <1>6 DEF ReadAndVerifyLcProof, chainVars, claimVars
<1>7. CASE \E c \in Claims, o \in Outputs, b \in Headers : ProveClaim(c, o, b)
  BY <1>7 DEF ProveClaim, chainVars
<1>8. CASE UNCHANGED vars
  BY <1>8 DEF vars, chainVars, claimVars
<1>9. QED
  BY <1>1, <1>2, <1>3, <1>4, <1>5, <1>6, <1>7, <1>8 DEF Next

(* The histories stay sequences.                                           *)
LEMMA HistoriesAreSequences == Spec => []HistInv
<1>1. Init => HistInv
  BY DEF Init, HistInv
<1>2. HistInv /\ [Next]_vars => HistInv'
  <2> SUFFICES ASSUME HistInv, [Next]_vars PROVE HistInv'
    OBVIOUS
  <2>1. CASE UNCHANGED <<tree, wtree, blocks, payments, deep>>
    BY <2>1 DEF HistInv
  <2>2. CASE \E root \in TxRoots, bits \in Bits : ReadBlock(root, bits)
    <3>1. PICK root \in TxRoots, bits \in Bits : ReadBlock(root, bits)
      BY <2>2
    <3> DEFINE x == BlockHash(cur, root, bits)
    <3>2. blocks' = Append(blocks, x) /\ payments' = payments /\ deep' = deep
      BY <3>1 DEF ReadBlock, claimVars
    <3> HIDE DEF x
    <3>3. blocks \in Seq(Range(blocks))
      BY DEF HistInv
    <3>4. Append(blocks, x) \in Seq(Range(Append(blocks, x)))
      BY <3>3, AppendRange
    <3>5. QED
      BY <3>2, <3>4 DEF HistInv
  <2>3. CASE \E a \in Addresses, b \in Headers : ReadWithdrawalProof(a, b)
    <3>1. PICK a \in Addresses : \E b : ReadWithdrawalProof(a, b)
      BY <2>3
    <3>2. blocks' = blocks /\ payments' = Append(payments, a) /\ deep' = deep
      BY <3>1 DEF ReadWithdrawalProof, chainVars
    <3>3. QED
      BY <3>2 DEF HistInv
  <2>4. CASE \E bits \in Bits : ReadDeepBlock(bits)
    <3>1. PICK bits \in Bits : ReadDeepBlock(bits)
      BY <2>4
    <3>2. blocks' = blocks /\ payments' = payments /\ deep' = Append(deep, bits)
      BY <3>1 DEF ReadDeepBlock, claimVars
    <3>3. QED
      BY <3>2 DEF HistInv
  <2>5. QED
    BY <2>1, <2>2, <2>3, <2>4, HistorySteps
<1>3. QED
  BY <1>1, <1>2, PTL DEF Spec

(* How many leaves the trees have at most, and what the counter of the     *)
(* payments counts: all of them except in the loop that reads them.        *)
BookInv ==
    /\ phase = "count" =>
        /\ Len(blocks) <= period * MaxBlocks
        /\ Len(payments) <= period * MaxPayments
        /\ total = Len(payments)
    /\ phase = "blocks" =>
        /\ n <= MaxBlocks
        /\ Len(blocks) <= period * MaxBlocks + i
        /\ Len(payments) <= period * MaxPayments
        /\ total = Len(payments)
    /\ phase = "payments" =>
        /\ n <= MaxPayments
        /\ Len(blocks) <= period * MaxBlocks + MaxBlocks
        /\ Len(payments) <= period * MaxPayments + i
        /\ total + i = Len(payments)
    /\ phase \in {"challenge", "deep", "lc", "claim", "proved"} => total = Len(payments)

(* The products of the bounds.                                             *)
LEMMA Products ==
    ASSUME NEW p \in Nat, NEW m \in Nat
    PROVE  /\ p * m \in Nat /\ (p + 1) * m = p * m + m
           /\ p < NumRounds => p * m + m <= NumRounds * m
<1>1. NumRounds \in Nat
  BY ConstantFacts
<1>2. p * m \in Nat /\ (p + 1) * m = p * m + m
  OBVIOUS
<1>3. \A x, y, z \in Nat : x + 1 <= y => (x + 1) * z <= y * z
  OBVIOUS
<1>4. p < NumRounds => p + 1 <= NumRounds
  BY <1>1
<1>5. QED
  BY <1>1, <1>2, <1>3, <1>4

(* Every step keeps the books.                                             *)
LEMMA BooksKept == Spec => []BookInv
<1>1. Init => BookInv
  <2> SUFFICES ASSUME Init PROVE BookInv
    OBVIOUS
  <2>1. Len(blocks) = 0 /\ Len(payments) = 0 /\ phase = "count" /\ period = 0 /\ total = 0
    BY DEF Init
  <2>2. 0 * MaxBlocks = 0 /\ 0 * MaxPayments = 0
    BY ConstantFacts
  <2>3. QED
    BY <2>1, <2>2 DEF BookInv
<1>2. BookInv /\ TypeOK /\ HistInv /\ [Next]_vars => BookInv'
  <2> SUFFICES ASSUME BookInv, TypeOK, HistInv, [Next]_vars PROVE BookInv'
    OBVIOUS
  <2> DEFINE lb == Len(blocks)
             lp == Len(payments)
             mb == period * MaxBlocks
             mp == period * MaxPayments
  <2>0. /\ lb \in Nat /\ lp \in Nat
        /\ mb \in Nat /\ (period + 1) * MaxBlocks = mb + MaxBlocks
        /\ mp \in Nat /\ (period + 1) * MaxPayments = mp + MaxPayments
        /\ n \in Nat /\ i \in Nat /\ i <= n /\ total \in Nat
        /\ MaxBlocks \in Nat /\ MaxPayments \in Nat
    <3>1. lb \in Nat /\ lp \in Nat
      BY DEF HistInv
    <3>2. period \in Nat /\ n \in Nat /\ i \in Nat /\ i <= n /\ total \in Nat
      BY ConstantFacts DEF TypeOK
    <3>3. MaxBlocks \in Nat /\ MaxPayments \in Nat
      BY ConstantFacts
    <3>4. QED
      BY <3>1, <3>2, <3>3, Products
  <2>a. /\ phase = "count" => lb <= mb /\ lp <= mp /\ total = lp
        /\ phase = "blocks" => n <= MaxBlocks /\ lb <= mb + i /\ lp <= mp /\ total = lp
        /\ phase = "payments" => n <= MaxPayments /\ lb <= mb + MaxBlocks /\ lp <= mp + i /\ total + i = lp
        /\ phase \in {"challenge", "deep", "lc", "claim", "proved"} => total = lp
    BY DEF BookInv
  <2>1. CASE \E k \in 0 .. MaxBlocks : ReadCount(k)
    <3>1. /\ phase = "count" /\ phase' = "blocks" /\ i' = 0 /\ n' <= MaxBlocks
          /\ UNCHANGED <<blocks, payments, total, period>>
      BY <2>1, ConstantFacts DEF ReadCount, Loop, claimVars, gameVars
    <3>2. /\ Len(blocks)' = lb /\ Len(payments)' = lp
          /\ period' * MaxBlocks = mb /\ period' * MaxPayments = mp
      BY <3>1
    <3> HIDE DEF lb, lp, mb, mp
    <3>3. QED
      BY <2>0, <2>a, <3>1, <3>2 DEF BookInv
  <2>2. CASE \E root \in TxRoots, bits \in Bits : ReadBlock(root, bits)
    <3>1. PICK root \in TxRoots, bits \in Bits : ReadBlock(root, bits)
      BY <2>2
    <3>2. /\ phase = "blocks" /\ i < n /\ i' = i + 1
          /\ UNCHANGED <<phase, n, payments, total, period>>
      BY <3>1 DEF ReadBlock, Again, claimVars, gameVars
    <3>3. Len(blocks)' = lb + 1
      <4> DEFINE x == BlockHash(cur, root, bits)
      <4>1. blocks' = Append(blocks, x)
        BY <3>1 DEF ReadBlock
      <4> HIDE DEF x
      <4>2. QED
        BY <4>1, AppendRange DEF HistInv
    <3>4. /\ Len(payments)' = lp
          /\ period' * MaxBlocks = mb /\ period' * MaxPayments = mp
      BY <3>2
    <3> HIDE DEF lb, lp, mb, mp
    <3>5. QED
      BY <2>0, <2>a, <3>2, <3>3, <3>4 DEF BookInv
  <2>3. CASE \E k \in 0 .. MaxPayments : ReadNumWithdrawals(k)
    <3>1. /\ phase = "blocks" /\ phase' = "payments" /\ i = n /\ i' = 0 /\ n' <= MaxPayments
          /\ UNCHANGED <<blocks, payments, total, period>>
      BY <2>3, ConstantFacts DEF ReadNumWithdrawals, Loop, chainVars, claimVars, gameVars
    <3>2. /\ Len(blocks)' = lb /\ Len(payments)' = lp
          /\ period' * MaxBlocks = mb /\ period' * MaxPayments = mp
      BY <3>1
    <3> HIDE DEF lb, lp, mb, mp
    <3>3. QED
      BY <2>0, <2>a, <3>1, <3>2 DEF BookInv
  <2>4. CASE \E a \in Addresses, b \in Headers : ReadWithdrawalProof(a, b)
    <3>1. PICK a \in Addresses : \E b : ReadWithdrawalProof(a, b)
      BY <2>4
    <3>2. /\ phase = "payments" /\ i < n /\ i' = i + 1
          /\ UNCHANGED <<phase, n, blocks, total, period>>
          /\ payments' = Append(payments, a)
      BY <3>1 DEF ReadWithdrawalProof, Again, chainVars, gameVars
    <3>3. Len(payments)' = lp + 1
      BY <3>2 DEF HistInv
    <3>4. /\ Len(blocks)' = lb
          /\ period' * MaxBlocks = mb /\ period' * MaxPayments = mp
      BY <3>2
    <3> HIDE DEF lb, lp, mb, mp
    <3>5. QED
      BY <2>0, <2>a, <3>2, <3>3, <3>4 DEF BookInv
  <2>5. CASE EndProving \/ RoundsOver
    <3>1. /\ phase = "payments" /\ phase' = "challenge" /\ i = n /\ total' = total + n
          /\ UNCHANGED payments
      BY <2>5 DEF EndProving, RoundsOver, CountPayments
    <3>2. Len(payments)' = lp
      BY <3>1
    <3> HIDE DEF lb, lp, mb, mp
    <3>3. QED
      BY <2>0, <2>a, <3>1, <3>2 DEF BookInv
  <2>6. CASE NextPeriod
    <3>1. /\ phase = "payments" /\ phase' = "count" /\ i = n /\ total' = total + n
          /\ period' = period + 1 /\ UNCHANGED <<blocks, payments>>
      BY <2>6 DEF NextPeriod, CountPayments, chainVars
    <3>2. /\ Len(blocks)' = lb /\ Len(payments)' = lp
          /\ period' * MaxBlocks = mb + MaxBlocks /\ period' * MaxPayments = mp + MaxPayments
      BY <2>0, <3>1
    <3> HIDE DEF lb, lp, mb, mp
    <3>3. QED
      BY <2>0, <2>a, <3>1, <3>2 DEF BookInv
  <2>7. CASE \/ \E c \in Challenges, k \in 0 .. MaxDeep : ReadChallenge(c, k)
             \/ \E bits \in Bits : ReadDeepBlock(bits)
             \/ GoOn \/ Lose \/ BadInput
             \/ \E hash \in {lc, ZeroHash}, root \in {wtree.root} : ReadAndVerifyLcProof(hash, root)
             \/ \E c \in Claims, o \in Outputs, b \in Headers : ProveClaim(c, o, b)
    <3>1. /\ \/ phase \in {"challenge", "deep", "lc", "claim"}
                /\ phase' \in {"deep", "lc", "claim", "proved", "failed"}
             \/ phase' = "failed"
          /\ UNCHANGED <<payments, total>>
      BY <2>7 DEF ReadChallenge, ReadDeepBlock, GoOn, Lose, BadInput, ReadAndVerifyLcProof,
                  ProveClaim, claimVars
    <3>2. Len(payments)' = lp
      BY <3>1
    <3> HIDE DEF lb, lp, mb, mp
    <3>3. QED
      BY <2>a, <3>1, <3>2 DEF BookInv
  <2>8. CASE UNCHANGED vars
    BY <2>8 DEF vars, chainVars, claimVars, gameVars, BookInv
  <2>9. QED
    BY <2>1, <2>2, <2>3, <2>4, <2>5, <2>6, <2>7, <2>8 DEF Next
<1>3. QED
  BY <1>1, <1>2, TypeCorrect, HistoriesAreSequences, PTL DEF Spec

(* The trees stand for the histories.                                      *)
TreeInv ==
    /\ Represents(Depth, tree, blocks)
    /\ Represents(Depth, wtree, payments)

(* There is room for what the circuit adds.                                *)
LEMMA TreesStandForHistories == Spec => []TreeInv
<1>1. Init => TreeInv
  <2> SUFFICES ASSUME Init PROVE TreeInv
    OBVIOUS
  <2>1. tree = NewTree(Depth) /\ wtree = NewTree(Depth) /\ blocks = <<>> /\ payments = <<>>
    BY DEF Init
  <2>2. Represents(Depth, NewTree(Depth), <<>>)
    BY ConstantFacts, NewTreeRepresents
  <2>3. QED
    BY <2>1, <2>2 DEF TreeInv
<1>2. TreeInv /\ BookInv /\ TypeOK /\ HistInv /\ [Next]_vars => TreeInv'
  <2> SUFFICES ASSUME TreeInv, BookInv, TypeOK, HistInv, [Next]_vars PROVE TreeInv'
    OBVIOUS
  <2>0. /\ phase \in {"blocks", "payments"} =>
             /\ period * MaxBlocks + MaxBlocks <= Capacity(Depth)
             /\ period * MaxPayments + MaxPayments <= Capacity(Depth)
        /\ period * MaxBlocks \in Nat /\ period * MaxPayments \in Nat
        /\ Capacity(Depth) \in Nat /\ Depth \in Nat
    <3>1. period \in Nat /\ (phase \in {"blocks", "payments"} => period < NumRounds)
      BY ConstantFacts DEF TypeOK
    <3>2. MaxBlocks \in Nat /\ MaxPayments \in Nat /\ NumRounds \in Nat /\ Depth \in Nat
      BY ConstantFacts
    <3>3. Capacity(Depth) \in Nat
      BY <3>2, CapacityDef
    <3>4. /\ phase \in {"blocks", "payments"} =>
               /\ period * MaxBlocks + MaxBlocks <= NumRounds * MaxBlocks
               /\ period * MaxPayments + MaxPayments <= NumRounds * MaxPayments
          /\ period * MaxBlocks \in Nat /\ period * MaxPayments \in Nat
      BY <3>1, <3>2, Products
    <3>5. QED
      BY <3>2, <3>3, <3>4, CapacityAssumption
  <2>1. CASE UNCHANGED <<tree, wtree, blocks, payments, deep>>
    BY <2>1 DEF TreeInv
  <2>2. CASE \E root \in TxRoots, bits \in Bits : ReadBlock(root, bits)
    <3>1. PICK root \in TxRoots, bits \in Bits : ReadBlock(root, bits)
      BY <2>2
    <3> DEFINE x == BlockHash(cur, root, bits)
               T == Range(blocks) \cup {x}
    <3>2. /\ phase = "blocks" /\ i < n
          /\ tree' = Add(Depth, tree, x) /\ blocks' = Append(blocks, x)
          /\ wtree' = wtree /\ payments' = payments
      BY <3>1 DEF ReadBlock, Again, claimVars
    <3> HIDE DEF x
    <3>3. Len(blocks) < Capacity(Depth)
      <4>1. Len(blocks) <= period * MaxBlocks + i /\ n <= MaxBlocks
        BY <3>2 DEF BookInv
      <4>2. Len(blocks) \in Nat /\ i \in Nat /\ n \in Nat /\ MaxBlocks \in Nat
        BY ConstantFacts DEF HistInv, TypeOK
      <4> DEFINE l == Len(blocks)
                 pm == period * MaxBlocks
                 c == Capacity(Depth)
      <4>3. l <= pm + i /\ n <= MaxBlocks /\ i < n /\ pm + MaxBlocks <= c
            /\ l \in Nat /\ i \in Nat /\ n \in Nat /\ MaxBlocks \in Nat /\ pm \in Nat /\ c \in Nat
        BY <2>0, <3>2, <4>1, <4>2
      <4> HIDE DEF l, pm, c
      <4>4. l < c
        BY <4>3
      <4>5. QED
        BY <4>4 DEF l, c
    <3>4. blocks \in Seq(T) /\ x \in T
      <4>1. blocks \in Seq(Range(blocks))
        BY DEF HistInv
      <4>2. \A R : blocks \in Seq(R) => blocks \in Seq(R \cup {x})
        OBVIOUS
      <4>3. QED
        BY <4>1, <4>2
    <3>5. Represents(Depth, Add(Depth, tree, x), Append(blocks, x))
      <4>1. Represents(Depth, tree, blocks)
        BY DEF TreeInv
      <4> HIDE DEF T
      <4>2. QED
        BY <2>0, <3>3, <3>4, <4>1, AddRepresents
    <3>6. QED
      BY <3>2, <3>5 DEF TreeInv
  <2>3. CASE \E a \in Addresses, b \in Headers : ReadWithdrawalProof(a, b)
    <3>1. PICK a \in Addresses : \E b : ReadWithdrawalProof(a, b)
      BY <2>3
    <3>2. /\ phase = "payments" /\ i < n
          /\ wtree' = Add(Depth, wtree, a) /\ payments' = Append(payments, a)
          /\ tree' = tree /\ blocks' = blocks
      BY <3>1 DEF ReadWithdrawalProof, Again, chainVars
    <3>3. Len(payments) < Capacity(Depth)
      <4>1. Len(payments) <= period * MaxPayments + i /\ n <= MaxPayments
        BY <3>2 DEF BookInv
      <4>2. Len(payments) \in Nat /\ i \in Nat /\ n \in Nat /\ MaxPayments \in Nat
        BY ConstantFacts DEF HistInv, TypeOK
      <4> DEFINE l == Len(payments)
                 pm == period * MaxPayments
                 c == Capacity(Depth)
      <4>3. l <= pm + i /\ n <= MaxPayments /\ i < n /\ pm + MaxPayments <= c
            /\ l \in Nat /\ i \in Nat /\ n \in Nat /\ MaxPayments \in Nat /\ pm \in Nat /\ c \in Nat
        BY <2>0, <3>2, <4>1, <4>2
      <4> HIDE DEF l, pm, c
      <4>4. l < c
        BY <4>3
      <4>5. QED
        BY <4>4 DEF l, c
    <3>4. Represents(Depth, Add(Depth, wtree, a), Append(payments, a))
      <4>1. Represents(Depth, wtree, payments) /\ payments \in Seq(Addresses)
        BY DEF TreeInv, HistInv
      <4>2. QED
        BY <2>0, <3>3, <4>1, AddRepresents
    <3>5. QED
      BY <3>2, <3>4 DEF TreeInv
  <2>4. CASE \E bits \in Bits : ReadDeepBlock(bits)
    BY <2>4 DEF ReadDeepBlock, claimVars, TreeInv
  <2>5. QED
    BY <2>1, <2>2, <2>3, <2>4, HistorySteps
<1>3. QED
  BY <1>1, <1>2, TypeCorrect, HistoriesAreSequences, BooksKept, PTL DEF Spec

(* At every step the incremental trees have the roots of the whole trees   *)
(* of the blocks and the payments read so far, and their numbers.          *)
THEOREM TreesAlwaysMatchReference == Spec => []TreesMatchReference
<1>1. TreeInv => TreesMatchReference
  BY DEF TreeInv, TreesMatchReference, Represents
<1>2. QED
  BY <1>1, TreesStandForHistories, PTL

(* At every step, a block hash has a proof at an index exactly if it is    *)
(* the leaf there.                                                         *)
THEOREM ProofsAlwaysExact == Spec => []ProofsExact
<1>1. TreeInv => ProofsExact
  <2> SUFFICES ASSUME TreeInv, NEW b \in Headers, NEW k \in 0 .. Capacity(Depth) - 1
               PROVE  Proves(Depth, tree.root, b, k) <=> b = LeafAt(blocks, k)
    BY DEF ProofsExact
  <2>1. tree.root = RootOf(Depth, blocks)
    BY DEF TreeInv, Represents
  <2>2. Depth \in Nat
    BY ConstantFacts
  <2>3. QED
    BY <2>1, <2>2, ProofsAreExact
<1>2. QED
  BY <1>1, TreesStandForHistories, PTL

-----------------------------------------------------------------------------
(* Payments and claims *)

(* A header that is found in the tree is one of a block that was read: the *)
(* empty leaf is no hash of a header.                                      *)
LEMMA InTreeIsRead ==
    ASSUME TreeInv, HistInv, NEW b \in Headers, InTree(b)
    PROVE  b \in Range(blocks)
<1>1. b # EmptyData
  <2>1. PICK prev, root, bits : b = <<prev, root, bits>>
    BY DEF Headers, BlockHash
  <2>2. Len(b) = 3 /\ Len(EmptyData) = 1
    BY <2>1 DEF EmptyData
  <2>3. QED
    BY <2>2
<1>2. PICK k \in 0 .. Capacity(Depth) - 1 : Proves(Depth, tree.root, b, k)
  BY DEF InTree
<1>3. tree.root = RootOf(Depth, blocks) /\ Depth \in Nat
  BY ConstantFacts DEF TreeInv, Represents
<1>4. b = LeafAt(blocks, k)
  BY <1>2, <1>3, ProofsAreExact
<1>5. k \in Nat /\ k < Len(blocks) /\ b = blocks[k+1]
  <2>1. k \in Nat
    BY <1>3, CapacityDef
  <2>2. QED
    BY <1>1, <1>4, <2>1 DEF LeafAt
<1>6. k + 1 \in DOMAIN blocks
  <2>1. DOMAIN blocks = 1 .. Len(blocks) /\ Len(blocks) \in Nat
    BY DEF HistInv
  <2>2. QED
    BY <1>5, <2>1
<1>7. QED
  BY <1>5, <1>6 DEF Range

(* Every payment that enters the withdrawal tree was made in a block that  *)
(* was read, whatever proofs the host makes up.                            *)
THEOREM PaymentsAlwaysOnChain == Spec => []PaymentsOnChain
<1>1. Init => PaymentsOnChain
  <2> SUFFICES ASSUME Init PROVE Range(payments) = {}
    BY DEF PaymentsOnChain
  <2>1. DOMAIN payments = {}
    BY DEF Init
  <2>2. QED
    BY <2>1 DEF Range
<1>2. PaymentsOnChain /\ TreeInv /\ HistInv /\ [Next]_vars => PaymentsOnChain'
  <2> SUFFICES ASSUME PaymentsOnChain, TreeInv, HistInv, [Next]_vars PROVE PaymentsOnChain'
    OBVIOUS
  <2>1. CASE UNCHANGED <<tree, wtree, blocks, payments, deep>>
    BY <2>1 DEF PaymentsOnChain, Range
  <2>2. CASE \E root \in TxRoots, bits \in Bits : ReadBlock(root, bits)
    <3>1. PICK root \in TxRoots, bits \in Bits : ReadBlock(root, bits)
      BY <2>2
    <3> DEFINE x == BlockHash(cur, root, bits)
    <3>2. blocks' = Append(blocks, x) /\ payments' = payments
      BY <3>1 DEF ReadBlock, claimVars
    <3> HIDE DEF x
    <3>3. \A z : z \in Range(blocks) => z \in Range(Append(blocks, x))
      BY AppendRange DEF HistInv
    <3>4. Range(payments)' = Range(payments) /\ Range(blocks)' = Range(Append(blocks, x))
      BY <3>2 DEF Range
    <3>5. QED
      BY <3>3, <3>4 DEF PaymentsOnChain
  <2>3. CASE \E a \in Addresses, b \in Headers : ReadWithdrawalProof(a, b)
    <3>1. PICK a \in Addresses, b \in Headers : ReadWithdrawalProof(a, b)
      BY <2>3
    <3>2. /\ Payment(a) \in BlockTxs(b) /\ InTree(b)
          /\ payments' = Append(payments, a) /\ blocks' = blocks
      BY <3>1 DEF ReadWithdrawalProof, chainVars
    <3>3. b \in Range(blocks)
      BY <3>2, InTreeIsRead
    <3>4. \A z : z \in Range(Append(payments, a)) => z \in Range(payments) \/ z = a
      <4>1. payments \in Seq(Addresses)
        BY DEF HistInv
      <4>2. QED
        BY <4>1, AppendFacts
    <3>5. Range(payments)' = Range(Append(payments, a)) /\ Range(blocks)' = Range(blocks)
      BY <3>2 DEF Range
    <3>6. QED
      BY <3>2, <3>3, <3>4, <3>5 DEF PaymentsOnChain
  <2>4. CASE \E bits \in Bits : ReadDeepBlock(bits)
    BY <2>4 DEF ReadDeepBlock, claimVars, PaymentsOnChain, Range
  <2>5. QED
    BY <2>1, <2>2, <2>3, <2>4, HistorySteps
<1>3. QED
  BY <1>1, <1>2, TreesStandForHistories, HistoriesAreSequences, PTL DEF Spec

(* A claim with a proof in a period's tree is the one of the period for    *)
(* the number of withdrawals, modulo the leaves.                           *)
LEMMA ClaimProofSound ==
    ASSUME NEW p, NEW c, NEW k \in Nat, Proves(ClaimDepth, ClaimRoot(p), c, k)
    PROVE  c = Leaf(p, k % Capacity(ClaimDepth))
<1> DEFINE N == Capacity(ClaimDepth)
           L == [j \in 1 .. N |-> Leaf(p, j - 1)]
           m == k % N
<1>1. ClaimDepth \in Nat /\ N \in Nat \ {0}
  BY ConstantFacts, CapacityDef
<1>2. Len(L) = N /\ \A j \in 1 .. N : L[j] = Leaf(p, j - 1)
  BY <1>1
<1>3. Proves(ClaimDepth, RootOf(ClaimDepth, L), c, k)
  BY DEF ClaimRoot
<1> HIDE DEF L
<1>4. c = LeafAt(L, m)
  BY <1>1, <1>3, ProofsAreSound
<1>5. m \in Nat /\ m < N /\ m + 1 \in 1 .. N /\ (m + 1) - 1 = m
  <2>1. m \in 0 .. N - 1
    BY <1>1, DivMod
  <2> HIDE DEF N, m
  <2>2. QED
    BY <1>1, <2>1
<1> HIDE DEF N, m
<1>6. c = Leaf(p, m)
  BY <1>2, <1>4, <1>5 DEF LeafAt
<1>7. QED
  BY <1>6 DEF N, m

(* The claim of a proof is the one that the challenged period has for the  *)
(* payments of all periods, modulo the leaves of the claim tree, and an    *)
(* output of a transaction that commits to it was spent in a block that    *)
(* was read.                                                               *)
THEOREM ClaimAlwaysCountsPayments == Spec => []ClaimCountsPayments
<1>1. Init => ClaimCountsPayments
  BY DEF Init, ClaimCountsPayments
<1>2. ClaimCountsPayments /\ TypeOK /\ BookInv /\ TreeInv /\ HistInv /\ [Next]_vars
        => ClaimCountsPayments'
  <2> SUFFICES ASSUME ClaimCountsPayments, TypeOK, BookInv, TreeInv, HistInv, [Next]_vars,
                      phase' = "proved"
               PROVE  ClaimCountsPayments'
    BY DEF ClaimCountsPayments
  <2>1. CASE \E c \in Claims, o \in Outputs, b \in Headers : ProveClaim(c, o, b)
    <3>1. PICK c \in Claims, o \in Outputs, b \in Headers : ProveClaim(c, o, b)
      BY <2>1
    <3>2. /\ phase = "claim" /\ InTree(b) /\ Spend(c, o) \in BlockTxs(b)
          /\ Proves(ClaimDepth, ClaimRoot(chal.period), c, total)
          /\ claim' = c /\ UNCHANGED <<blocks, payments, chal>>
      BY <3>1 DEF ProveClaim, chainVars, gameVars
    <3>3. b \in Range(blocks)
      BY <3>2, InTreeIsRead
    <3>4. total \in Nat /\ total = Len(payments)
      BY <3>2 DEF TypeOK, BookInv
    <3>5. c = Leaf(chal.period, total % Capacity(ClaimDepth))
      BY <3>2, <3>4, ClaimProofSound
    <3>6. Range(blocks)' = Range(blocks) /\ Len(payments)' = Len(payments) /\ chal' = chal
      BY <3>2 DEF Range
    <3>7. QED
      BY <3>2, <3>3, <3>4, <3>5, <3>6 DEF ClaimCountsPayments
  <2>2. CASE UNCHANGED vars
    BY <2>2 DEF vars, chainVars, claimVars, gameVars, ClaimCountsPayments, Range
  <2>3. CASE Next /\ ~ \E c \in Claims, o \in Outputs, b \in Headers : ProveClaim(c, o, b)
    <3>1. phase' # "proved"
      BY <2>3 DEF Next, ReadCount, ReadBlock, ReadNumWithdrawals, ReadWithdrawalProof,
                  EndProving, NextPeriod, RoundsOver, ReadChallenge, ReadDeepBlock,
                  GoOn, Lose, ReadAndVerifyLcProof, BadInput
    <3>2. QED
      BY <3>1
  <2>4. QED
    BY <2>1, <2>2, <2>3
<1>3. QED
  BY <1>1, <1>2, TypeCorrect, BooksKept, TreesStandForHistories, HistoriesAreSequences, PTL
     DEF Spec

-----------------------------------------------------------------------------
(* The light client's block *)

Chain(q) == <<StartHash>> \o q

(* A block that is read goes to the end of the chain.                      *)
LEMMA ChainFacts ==
    ASSUME NEW q, NEW x, q \in Seq(Range(q))
    PROVE  /\ Len(Chain(q)) \in Nat \ {0}
           /\ Len(Chain(Append(q, x))) = Len(Chain(q)) + 1
           /\ \A k \in 1 .. Len(Chain(q)) : Chain(Append(q, x))[k] = Chain(q)[k]
           /\ Chain(Append(q, x))[Len(Chain(q)) + 1] = x
<1> DEFINE a == Append(q, x)
           l == Len(q)
<1>1. /\ a \in Seq(Range(a)) /\ l \in Nat /\ Len(a) = l + 1
      /\ \A k \in 1 .. l : a[k] = q[k]
      /\ a[l+1] = x
  BY AppendRange
<1>2. ASSUME NEW T, NEW r \in Seq(T)
      PROVE  /\ Len(Chain(r)) = Len(r) + 1
             /\ Chain(r)[1] = StartHash
             /\ \A k \in 1 .. Len(r) : Chain(r)[k+1] = r[k]
  <2> DEFINE U == T \cup {StartHash}
  <2>1. r \in Seq(U) /\ <<StartHash>> \in Seq(U) /\ Len(<<StartHash>>) = 1
    OBVIOUS
  <2>2. Len(Chain(r)) = Len(r) + 1
    BY <2>1 DEF Chain
  <2>3. Chain(r)[1] = StartHash
    BY <2>1 DEF Chain
  <2>4. ASSUME NEW k \in 1 .. Len(r) PROVE Chain(r)[k+1] = r[k]
    <3>1. k + 1 \in 1 .. Len(r) + 1 /\ k + 1 > 1 /\ (k + 1) - 1 = k
      OBVIOUS
    <3>2. QED
      BY <2>1, <3>1 DEF Chain
  <2>5. QED
    BY <2>2, <2>3, <2>4
<1>3. /\ Len(Chain(q)) = l + 1 /\ Chain(q)[1] = StartHash
      /\ \A k \in 1 .. l : Chain(q)[k+1] = q[k]
  BY <1>2
<1>4. /\ Len(Chain(a)) = l + 2 /\ Chain(a)[1] = StartHash
      /\ \A k \in 1 .. l + 1 : Chain(a)[k+1] = a[k]
  <2>1. a \in Seq(Range(a)) /\ Len(a) = l + 1
    BY <1>1
  <2> HIDE DEF a
  <2>2. /\ Len(Chain(a)) = Len(a) + 1 /\ Chain(a)[1] = StartHash
        /\ \A k \in 1 .. Len(a) : Chain(a)[k+1] = a[k]
    BY <1>2, <2>1
  <2> HIDE DEF l
  <2>3. QED
    BY <1>1, <2>1, <2>2
<1> HIDE DEF a, l
<1>5. ASSUME NEW k \in 1 .. l + 1 PROVE Chain(a)[k] = Chain(q)[k]
  <2>1. CASE k = 1
    BY <1>3, <1>4, <2>1
  <2>2. CASE k # 1
    <3>1. k - 1 \in 1 .. l /\ (k - 1) + 1 = k /\ k - 1 \in 1 .. l + 1
      BY <1>1, <2>2
    <3>2. Chain(a)[(k-1)+1] = a[k-1] /\ Chain(q)[(k-1)+1] = q[k-1] /\ a[k-1] = q[k-1]
      BY <1>1, <1>3, <1>4, <3>1
    <3>3. QED
      BY <3>1, <3>2
  <2>3. QED
    BY <2>1, <2>2
<1>6. Chain(a)[(l+1)+1] = x
  <2>1. l + 1 \in 1 .. l + 1
    BY <1>1
  <2>2. QED
    BY <1>1, <1>4, <2>1
<1>7. Len(Chain(q)) \in Nat \ {0} /\ Len(Chain(a)) = Len(Chain(q)) + 1
  BY <1>1, <1>3, <1>4
<1>8. QED
  BY <1>3, <1>5, <1>6, <1>7 DEF a

(* The current hash is the chain's last one; while a period's blocks are   *)
(* read, the light client's block is as deep as the counter is past it.    *)
LcInv ==
    /\ cur = Chain(blocks)[Len(Chain(blocks))]
    /\ (phase = "blocks" /\ lc # ZeroHash) =>
        LET deeper == i - (n - MaxBlockHandleOps) IN
        /\ deeper > 0
        /\ Len(Chain(blocks)) > deeper
        /\ lc = Chain(blocks)[Len(Chain(blocks)) - deeper]

(* The light client's block is always MaxBlockHandleOps blocks before the  *)
(* end of the period, if the period has that many.                         *)
THEOREM LcAlwaysBuried == Spec => []LcBuried
<1> DEFINE IInv == LcInv /\ LcBuried
<1>1. Init => IInv
  <2> SUFFICES ASSUME Init PROVE IInv
    OBVIOUS
  <2>1. blocks = <<>> /\ cur = StartHash /\ lc = ZeroHash
    BY DEF Init
  <2>2. Len(Chain(<<>>)) = 1 /\ Chain(<<>>)[1] = StartHash
    BY DEF Chain
  <2>3. QED
    BY <2>1, <2>2 DEF LcInv, LcBuried
<1>2. IInv /\ TypeOK /\ HistInv /\ [Next]_vars => IInv'
  <2> SUFFICES ASSUME LcInv, LcBuried, TypeOK, HistInv, [Next]_vars PROVE IInv'
    OBVIOUS
  <2>0. n \in Nat /\ i \in Nat /\ i <= n /\ MaxBlockHandleOps \in Nat
    BY ConstantFacts DEF TypeOK
  <2>1. CASE \E k \in 0 .. MaxBlocks : ReadCount(k)
    <3>1. lc' = ZeroHash /\ UNCHANGED <<cur, blocks>>
      BY <2>1 DEF ReadCount
    <3>2. QED
      BY <3>1 DEF LcInv, LcBuried
  <2>2. CASE \E root \in TxRoots, bits \in Bits : ReadBlock(root, bits)
    <3>1. PICK root \in TxRoots, bits \in Bits : ReadBlock(root, bits)
      BY <2>2
    <3> DEFINE x == BlockHash(cur, root, bits)
               C == Chain(blocks)
               D == Chain(Append(blocks, x))
               m == MaxBlockHandleOps
    <3>2. /\ phase = "blocks" /\ phase' = "blocks" /\ i < n /\ i' = i + 1 /\ n' = n
          /\ lc' = IF i = n - m THEN cur ELSE lc
          /\ cur' = x /\ blocks' = Append(blocks, x)
      BY <3>1 DEF ReadBlock, Again, IsLcBlock
    <3> HIDE DEF x
    <3>3. /\ Len(C) \in Nat \ {0} /\ Len(D) = Len(C) + 1
          /\ \A k \in 1 .. Len(C) : D[k] = C[k]
          /\ D[Len(C) + 1] = x
      BY ChainFacts DEF HistInv
    <3>4. Chain(blocks)' = D
      BY <3>2 DEF Chain
    <3>5. /\ cur = C[Len(C)]
          /\ lc # ZeroHash => /\ i - (n - m) > 0 /\ Len(C) > i - (n - m)
                              /\ lc = C[Len(C) - (i - (n - m))]
      BY <3>2 DEF LcInv
    <3> HIDE DEF C, D, m
    <3>6. m \in Nat
      BY <2>0 DEF m
    <3>7. cur' = D[Len(D)]
      BY <3>2, <3>3
    <3>8. ASSUME lc' # ZeroHash
          PROVE  /\ i' - (n' - m) > 0 /\ Len(D) > i' - (n' - m)
                 /\ lc' = D[Len(D) - (i' - (n' - m))]
      <4>1. CASE i = n - m
        <5>1. i' - (n' - m) = 1
          BY <2>0, <3>2, <3>6, <4>1
        <5>2. Len(D) > 1 /\ Len(D) - 1 = Len(C) /\ Len(C) \in 1 .. Len(C)
          BY <3>3
        <5>3. lc' = C[Len(C)] /\ D[Len(C)] = C[Len(C)]
          BY <3>2, <3>3, <3>5, <4>1, <5>2
        <5>4. QED
          BY <5>1, <5>2, <5>3
      <4>2. CASE i # n - m
        <5> DEFINE e == i - (n - m)
                   l == Len(C)
        <5>1. lc' = lc /\ e > 0 /\ l > e /\ lc = C[l - e]
          BY <3>2, <3>5, <3>8, <4>2
        <5>2. e \in Int /\ i' - (n' - m) = e + 1 /\ l \in Nat
          <6>1. n \in Int /\ i \in Int /\ m \in Int
            BY <2>0, <3>6
          <6>2. i' = i + 1 /\ n' = n
            BY <3>2
          <6>3. e \in Int /\ i' - (n' - m) = e + 1
            BY <6>1, <6>2
          <6>4. l \in Nat
            BY <3>3
          <6>5. QED
            BY <6>3, <6>4
        <5> HIDE DEF e
        <5>3. Len(D) = l + 1
          BY <3>3
        <5> HIDE DEF l
        <5>4. l - e \in 1 .. l /\ (l + 1) - (e + 1) = l - e /\ l + 1 > e + 1 /\ e + 1 > 0
          BY <5>1, <5>2
        <5>5. D[l - e] = C[l - e]
          BY <3>3, <5>4 DEF l
        <5>6. QED
          BY <5>1, <5>2, <5>3, <5>4, <5>5
      <4>3. QED
        BY <4>1, <4>2
    <3>9. LcInv'
      BY <3>4, <3>7, <3>8 DEF LcInv, m
    <3>10. LcBuried'
      BY <3>2 DEF LcBuried
    <3>11. QED
      BY <3>9, <3>10
  <2>3. CASE \E k \in 0 .. MaxPayments : ReadNumWithdrawals(k)
    <3>1. phase = "blocks" /\ i = n /\ phase' = "payments" /\ UNCHANGED <<cur, lc, blocks>>
      BY <2>3 DEF ReadNumWithdrawals, chainVars
    <3>2. i - (n - MaxBlockHandleOps) = MaxBlockHandleOps
      BY <2>0, <3>1
    <3>3. QED
      BY <3>1, <3>2 DEF LcInv, LcBuried, Chain
  <2>4. CASE \/ \E a \in Addresses, b \in Headers : ReadWithdrawalProof(a, b)
             \/ EndProving \/ NextPeriod \/ RoundsOver
             \/ \E c \in Challenges, k \in 0 .. MaxDeep : ReadChallenge(c, k)
             \/ \E bits \in Bits : ReadDeepBlock(bits)
             \/ GoOn \/ Lose \/ BadInput
             \/ \E hash \in {lc, ZeroHash}, root \in {wtree.root} : ReadAndVerifyLcProof(hash, root)
             \/ \E c \in Claims, o \in Outputs, b \in Headers : ProveClaim(c, o, b)
    <3>1. /\ \/ phase \notin {"blocks", "failed"} /\ phase' # "blocks"
             \/ phase' = "failed"
          /\ UNCHANGED <<cur, lc, blocks>>
      BY <2>4 DEF ReadWithdrawalProof, EndProving, NextPeriod, RoundsOver, CountPayments,
                  ReadChallenge, ReadDeepBlock, GoOn, Lose, BadInput, ReadAndVerifyLcProof,
                  ProveClaim, chainVars
    <3>2. QED
      BY <3>1 DEF LcInv, LcBuried
  <2>5. CASE UNCHANGED vars
    BY <2>5 DEF vars, chainVars, LcInv, LcBuried
  <2>6. QED
    BY <2>1, <2>2, <2>3, <2>4, <2>5 DEF Next
<1>3. IInv => LcBuried
  OBVIOUS
<1>4. QED
  BY <1>1, <1>2, <1>3, TypeCorrect, HistoriesAreSequences, PTL DEF Spec

-----------------------------------------------------------------------------
(* Targets and work *)

(* Bits fields of the sizes that occur: larger exponents than 3, and a     *)
(* target that is not 0.                                                   *)
Usual(bits) == bits.exponent > 3 /\ bits.value > 0

(* The small powers of the base.                                           *)
LEMMA SmallPowers ==
    /\ Power(Base)[0] = 1 /\ Power(Base)[1] = Base /\ Power(Base)[2] = Base * Base
    /\ \A e \in Nat : Power(Base)[e+3] = Power(Base)[3] * Power(Base)[e]
<1>1. /\ Base \in Nat /\ Power(Base)[0] = 1
      /\ \A e \in Nat : Power(Base)[e] \in Nat /\ Power(Base)[e+1] = Base * Power(Base)[e]
  BY BaseFacts
<1>2. Power(Base)[0+1] = Base * 1 /\ Power(Base)[1+1] = Base * Power(Base)[1]
  BY <1>1
<1>3. 0 + 1 = 1 /\ 1 + 1 = 2 /\ 2 + 1 = 3 /\ Base * 1 = Base
  BY <1>1
<1>4. Power(Base)[1] = Base /\ Power(Base)[2] = Base * Base
  BY <1>2, <1>3
<1>5. Power(Base)[3] = Base * (Base * Base)
  BY <1>1, <1>3, <1>4
<1>6. ASSUME NEW e \in Nat PROVE Power(Base)[e+3] = Power(Base)[3] * Power(Base)[e]
  <2> DEFINE P == Power(Base)[e]
  <2>1. e + 1 \in Nat /\ e + 2 \in Nat /\ (e + 1) + 1 = e + 2 /\ (e + 2) + 1 = e + 3
    OBVIOUS
  <2>2. Power(Base)[e+1] = Base * P /\ Power(Base)[(e+1)+1] = Base * Power(Base)[e+1]
        /\ Power(Base)[(e+2)+1] = Base * Power(Base)[e+2] /\ P \in Nat
    BY <1>1, <2>1
  <2>3. Power(Base)[e+3] = Base * (Base * (Base * P))
    BY <2>1, <2>2
  <2> HIDE DEF P
  <2>4. Base * (Base * (Base * P)) = (Base * (Base * Base)) * P
    BY <1>1, <2>2
  <2>5. QED
    BY <1>5, <2>3, <2>4 DEF P
<1>7. QED
  BY <1>1, <1>4, <1>6

(* The three bytes of a mantissa make it up.                               *)
LEMMA Mantissa ==
    ASSUME NEW v \in 0 .. Power(Base)[3] - 1
    PROVE  /\ \A k \in 0 .. 2 : ByteOf(v, k) \in Nat
           /\ Base * (Base * ByteOf(v, 2) + ByteOf(v, 1)) + ByteOf(v, 0) = v
<1> DEFINE y == v \div Base
           z == y \div Base
           r == v % Base
           s == y % Base
<1>1. Base \in Nat \ {0} /\ v \in Nat /\ v < Power(Base)[3] /\ Power(Base)[3] \in Nat
  BY BaseFacts
<1>2. y \in Nat /\ r \in 0 .. Base - 1 /\ v = Base * y + r
  BY <1>1, DivMod
<1> HIDE DEF y, r
<1>3. z \in Nat /\ s \in 0 .. Base - 1 /\ y = Base * z + s
  BY <1>1, <1>2, DivMod
<1> HIDE DEF z, s
<1>4. ByteOf(v, 0) = r
  <2>1. v \div 1 = v
    BY <1>1
  <2>2. QED
    BY <2>1, SmallPowers DEF ByteOf, r
<1>5. ByteOf(v, 1) = s
  BY SmallPowers DEF ByteOf, s, y
<1>6. ByteOf(v, 2) = z
  <2>1. v \div Power(Base)[2] = z
    BY <1>1, DivTwice, SmallPowers DEF z, y
  <2>2. z < Base
    <3>1. Power(Base)[3] = Base * (Base * Base)
      <4>1. Power(Base)[2+1] = Base * Power(Base)[2] /\ 2 + 1 = 3
        BY BaseFacts
      <4>2. QED
        BY <4>1, SmallPowers
    <3>2. Base * (Base * z) <= v
      <4>1. Base * y = Base * (Base * z) + Base * s /\ Base * s \in Nat /\ Base * (Base * z) \in Nat
            /\ Base * y \in Nat
        BY <1>1, <1>2, <1>3
      <4> DEFINE p == Base * y
                 q == Base * (Base * z)
                 o == Base * s
      <4>2. p = q + o /\ o \in Nat /\ q \in Nat /\ p \in Nat /\ v = p + r
        BY <1>2, <4>1
      <4> HIDE DEF p, q, o
      <4>3. q <= v
        BY <1>2, <4>2
      <4>4. QED
        BY <4>3 DEF q
    <3>3. \A w \in Nat : w >= Base => Base * (Base * w) >= Base * (Base * Base)
      <4>1. \A a, b, c \in Nat : a <= b => c * a <= c * b
        OBVIOUS
      <4>2. \A a, b \in Nat : a * b \in Nat
        OBVIOUS
      <4>3. QED
        BY <1>1, <4>1, <4>2
    <3> DEFINE q == Base * (Base * z)
               c == Base * (Base * Base)
    <3>4. q \in Nat /\ c \in Nat /\ q <= v /\ v < c /\ (z >= Base => q >= c)
      BY <1>1, <1>3, <3>1, <3>2, <3>3
    <3> HIDE DEF q, c
    <3>5. QED
      BY <1>1, <1>3, <3>4
  <2>3. z % Base = z
    BY <1>1, <1>3, <2>2
  <2>4. QED
    BY <2>1, <2>3 DEF ByteOf
<1>7. Base * (Base * z + s) + r = v
  BY <1>2, <1>3
<1>8. \A k \in 0 .. 2 : k = 0 \/ k = 1 \/ k = 2
  OBVIOUS
<1>9. r \in Nat /\ s \in Nat
  BY <1>1, <1>2, <1>3
<1>10. QED
  BY <1>3, <1>4, <1>5, <1>6, <1>7, <1>8, <1>9

(* The decoded target is the network's: the bytes above the mantissa are   *)
(* zero, the mantissa follows, and each byte below it is a factor.         *)
LEMMA TargetIsNetworks ==
    ASSUME NEW bits \in BitsField, Usual(bits)
    PROVE  FromLeBytes(DecodeCompactTarget(bits)) = NetworkTarget(bits)
<1> DEFINE t == DecodeCompactTarget(bits)
           e == bits.exponent
           v == bits.value
           h == HighBytes(t)
           W == TargetBytes
           z == W - e
<1>1. /\ e \in Nat /\ e <= W /\ e > 3 /\ W \in Nat /\ z \in Nat
      /\ v \in 0 .. Power(Base)[3] - 1 /\ v \in Nat /\ Base \in Nat
  BY BaseFacts DEF BitsField, Usual
<1>2. \A k \in Positions : t[k] = IF k - (e - 3) \in 0 .. 2 THEN ByteOf(v, k - (e - 3)) ELSE 0
  BY <1>1 DEF DecodeCompactTarget
<1>3. /\ h[0] = 0
      /\ \A k \in 0 .. W : h[k] \in Nat
      /\ \A k \in 0 .. W - 1 : /\ W - (k+1) \in Positions
                               /\ h[k+1] = Base * h[k] + t[W - (k+1)]
  BY TargetIsBytes, HighBytesDef
<1>4. NetworkTarget(bits) = v * Power(Base)[e-3] /\ FromLeBytes(t) = h[W]
  BY DEF NetworkTarget, FromLeBytes
<1>5. z = W - e
  OBVIOUS
<1>6. /\ \A k \in 0 .. 2 : ByteOf(v, k) \in Nat
      /\ Base * (Base * ByteOf(v, 2) + ByteOf(v, 1)) + ByteOf(v, 0) = v
  BY <1>1, Mantissa
<1> HIDE DEF t, h, e, v, W, z
<1>7. \A k \in 0 .. z : h[k] = 0
  <2> DEFINE S == {k \in 0 .. z : h[k] = 0}
  <2>1. 0 \in S
    BY <1>1, <1>3
  <2>2. ASSUME NEW k \in 0 .. z - 1, k \in S PROVE k + 1 \in S
    <3>1. k \in 0 .. W - 1 /\ k + 1 \in 0 .. z /\ ~ ((W - (k+1)) - (e - 3) \in 0 .. 2)
      BY <1>1, <1>5
    <3>2. t[W - (k+1)] = 0 /\ h[k+1] = Base * h[k] + t[W - (k+1)]
      BY <1>2, <1>3, <3>1
    <3>3. h[k+1] = Base * 0 + 0
      BY <2>2, <3>2
    <3>4. h[k+1] = 0
      BY <1>1, <3>3
    <3>5. QED
      BY <3>1, <3>4
  <2>3. \A k \in 0 .. z : k \in S
    <3> HIDE DEF S
    <3>1. QED
      BY <1>1, <2>1, <2>2, UpInduction
  <2>4. QED
    BY <2>3
<1>8. h[z+3] = v
  <2>1. /\ z \in 0 .. W - 1 /\ z + 1 \in 0 .. W - 1 /\ z + 2 \in 0 .. W - 1
        /\ (z + 1) + 1 = z + 2 /\ (z + 2) + 1 = z + 3
        /\ (W - (z+1)) - (e - 3) = 2 /\ (W - (z+2)) - (e - 3) = 1 /\ (W - (z+3)) - (e - 3) = 0
    BY <1>1, <1>5
  <2>2. h[z] = 0
    BY <1>1, <1>7
  <2>3. t[W - (z+1)] = ByteOf(v, 2) /\ t[W - (z+2)] = ByteOf(v, 1) /\ t[W - (z+3)] = ByteOf(v, 0)
    <3>1. W - (z+1) \in Positions /\ W - (z+2) \in Positions /\ W - (z+3) \in Positions
      BY <1>3, <2>1
    <3>2. 0 \in 0 .. 2 /\ 1 \in 0 .. 2 /\ 2 \in 0 .. 2
      OBVIOUS
    <3>3. QED
      BY <1>2, <2>1, <3>1, <3>2
  <2>4. h[z+1] = Base * h[z] + ByteOf(v, 2)
    BY <1>3, <2>1, <2>3
  <2>5. h[z+2] = Base * h[z+1] + ByteOf(v, 1)
    BY <1>3, <2>1, <2>3
  <2>6. h[z+3] = Base * h[z+2] + ByteOf(v, 0)
    BY <1>3, <2>1, <2>3
  <2>7. h[z+1] = ByteOf(v, 2)
    <3>1. h[z+1] = Base * 0 + ByteOf(v, 2) /\ ByteOf(v, 2) \in Nat
      BY <1>6, <2>2, <2>4
    <3>2. QED
      BY <1>1, <3>1
  <2>8. QED
    BY <1>6, <2>5, <2>6, <2>7
<1>9. \A j \in 0 .. e - 3 : h[(z+3)+j] = v * Power(Base)[j]
  <2> DEFINE S == {j \in 0 .. e - 3 : h[(z+3)+j] = v * Power(Base)[j]}
  <2>1. 0 \in S
    <3>1. v * Power(Base)[0] = v /\ (z + 3) + 0 = z + 3 /\ 0 \in 0 .. e - 3
      BY <1>1, BaseFacts
    <3>2. QED
      BY <1>8, <3>1
  <2>2. ASSUME NEW j \in 0 .. (e - 3) - 1, j \in S PROVE j + 1 \in S
    <3> DEFINE k == (z + 3) + j
    <3>1. /\ k \in 0 .. W - 1 /\ j + 1 \in 0 .. e - 3 /\ (z + 3) + (j + 1) = k + 1 /\ j \in Nat
          /\ ~ ((W - (k+1)) - (e - 3) \in 0 .. 2)
      BY <1>1, <1>5
    <3>2. h[k] = v * Power(Base)[j]
      BY <2>2
    <3> HIDE DEF k
    <3>3. t[W - (k+1)] = 0 /\ h[k+1] = Base * h[k] + t[W - (k+1)]
      BY <1>2, <1>3, <3>1
    <3>4. Power(Base)[j+1] = Base * Power(Base)[j] /\ Power(Base)[j] \in Nat
      BY <3>1, BaseFacts
    <3>5. \A a, b, c \in Nat : a * (b * c) + 0 = b * (a * c)
      OBVIOUS
    <3>6. h[k+1] = v * Power(Base)[j+1]
      BY <1>1, <3>2, <3>3, <3>4, <3>5
    <3>7. QED
      BY <3>1, <3>6
  <2>3. \A j \in 0 .. e - 3 : j \in S
    <3>1. e - 3 \in Nat
      BY <1>1
    <3> DEFINE d == e - 3
    <3>2. d \in Nat /\ \A j \in 0 .. d - 1 : j \in S => j + 1 \in S
      BY <2>2, <3>1
    <3> HIDE DEF S, d
    <3>3. \A j \in 0 .. d : j \in S
      BY <2>1, <3>2, UpInduction
    <3>4. QED
      BY <3>3 DEF d
  <2>4. QED
    BY <2>3
<1>10. (z + 3) + (e - 3) = W /\ e - 3 \in 0 .. e - 3
  BY <1>1, <1>5
<1>11. h[W] = v * Power(Base)[e-3]
  BY <1>9, <1>10
<1>12. QED
  BY <1>4, <1>11 DEF t

(* The work the circuit adds is the network's, although it divides one     *)
(* less: the target plus one is 1 modulo the base, so it divides no power  *)
(* of it, and it never is so large that it saturates.                      *)
LEMMA WorkIsNetworks ==
    ASSUME NEW bits \in BitsField, Usual(bits)
    PROVE  /\ CalculateWork(DecodeCompactTarget(bits)) = BlockProof(bits)
           /\ AddWork(0, bits) = BlockProof(bits)
           /\ BlockProof(bits) \in Nat
<1> DEFINE e == bits.exponent
           v == bits.value
           t == NetworkTarget(bits)
           P == Power(Base)[e-3]
           R == Power(Base)[e-4]
           q == v * R
           m == t + 1
           U == U256
           w == U \div m
           r == U % m
<1>1. /\ e \in Nat /\ e <= TargetBytes /\ e > 3 /\ TargetBytes \in Nat
      /\ v \in Nat \ {0} /\ v <= Power(Base)[3] - 1
      /\ Base \in Nat \ {0} /\ Base > 1 /\ U \in Nat /\ U > 1
  BY BaseFacts DEF BitsField, Usual
<1>2. e - 3 \in Nat /\ e - 4 \in Nat /\ (e - 4) + 1 = e - 3 /\ (e - 3) + 3 = e
  BY <1>1
<1>3. P \in Nat \ {0} /\ R \in Nat \ {0} /\ P = Base * R /\ Power(Base)[3] \in Nat
  <2>1. 3 \in Nat
    OBVIOUS
  <2>2. Power(Base)[(e-4)+1] = Base * R
    BY <1>2, BaseFacts
  <2>3. QED
    BY <1>2, <2>1, <2>2, BaseFacts
<1>4. t = v * P
  BY DEF NetworkTarget
<1>5. Power(Base)[e] = Power(Base)[3] * P /\ Power(Base)[e] <= U
  <2>1. Power(Base)[(e-3)+3] = Power(Base)[3] * P
    BY <1>2, SmallPowers
  <2>2. Power(Base)[e] <= Power(Base)[e + (TargetBytes - e)]
    <3>1. TargetBytes - e \in Nat
      BY <1>1
    <3>2. QED
      BY <1>1, <3>1, PowerMonotonic
  <2>3. e + (TargetBytes - e) = TargetBytes
    BY <1>1
  <2>4. QED
    BY <1>2, <2>1, <2>2, <2>3 DEF U256
<1> HIDE DEF e, v, t, P, R, U
<1>6. t \in Nat /\ t + P <= U /\ P >= 2
  <2> DEFINE c == Power(Base)[3]
  <2>1. c \in Nat /\ v <= c - 1 /\ c * P <= U
    BY <1>1, <1>3, <1>5
  <2> HIDE DEF c
  <2>2. \A a, b, p \in Nat : a <= b - 1 => a * p + p <= b * p
    <3>1. \A a, b, p \in Nat : a <= b => a * p <= b * p
      OBVIOUS
    <3>2. \A a, p \in Nat : (a + 1) * p = a * p + p /\ a + 1 \in Nat
      OBVIOUS
    <3>3. \A a, b \in Nat : a <= b - 1 => a + 1 <= b
      OBVIOUS
    <3>4. QED
      BY <3>1, <3>2, <3>3
  <2>3. v * P + P <= c * P /\ v * P \in Nat /\ c * P \in Nat
    BY <1>1, <1>3, <2>1, <2>2
  <2>4. t + P <= c * P
    BY <1>4, <2>3
  <2>5. P >= 2
    <3>1. \A x, y \in Nat \ {0} : x > 1 => x * y >= 2
      OBVIOUS
    <3>2. QED
      BY <1>1, <1>3, <3>1
  <2>6. t \in Nat
    BY <1>4, <2>3
  <2> DEFINE x == c * P
  <2>7. t + P <= x /\ x <= U /\ x \in Nat /\ t \in Nat /\ P \in Nat /\ U \in Nat
    BY <1>1, <1>3, <2>1, <2>3, <2>4, <2>6
  <2> HIDE DEF x
  <2>8. t + P <= U
    BY <2>7
  <2>9. QED
    BY <2>5, <2>6, <2>8
<1>7. t # U - 1 /\ m \in Nat \ {0}
  BY <1>1, <1>3, <1>6
<1>8. m = Base * q + 1 /\ q \in Nat \ {0}
  <2>1. \A x, y, z \in Nat \ {0} : x * (y * z) = y * (x * z) /\ x * z \in Nat \ {0}
    OBVIOUS
  <2>2. QED
    BY <1>1, <1>3, <1>4, <2>1
<1>9. w \in Nat /\ r \in 0 .. m - 1 /\ U = m * w + r
  BY <1>1, <1>7, DivMod
<1>10. r # 0
  <2>1. \A c \in Nat : Power(Base)[TargetBytes] # (Base * q + 1) * c
    BY <1>1, <1>8, NotMultiple
  <2>2. U # m * w
    BY <1>8, <1>9, <2>1 DEF U, U256
  <2>3. m * w \in Nat
    BY <1>7, <1>9
  <2> HIDE DEF m, w, r
  <2>4. QED
    BY <1>9, <2>2, <2>3
<1> HIDE DEF m, w, r
<1>11. (U - 1) \div m = w
  <2>1. r - 1 \in 0 .. m - 1 /\ U - 1 \in Nat
    BY <1>1, <1>7, <1>9, <1>10
  <2>2. U - 1 = m * w + (r - 1)
    <3>1. m * w \in Nat /\ r \in Nat
      BY <1>7, <1>9
    <3> DEFINE x == m * w
    <3>2. U = x + r /\ x \in Nat
      BY <1>9, <3>1
    <3> HIDE DEF x
    <3>3. U - 1 = x + (r - 1)
      BY <3>1, <3>2
    <3>4. QED
      BY <3>3 DEF x
  <2>3. QED
    BY <1>7, <1>9, <2>1, <2>2, DivUnique
<1>12. CalculateWork(DecodeCompactTarget(bits)) = w
  <2>1. FromLeBytes(DecodeCompactTarget(bits)) = t
    BY TargetIsNetworks DEF t
  <2>2. QED
    BY <1>7, <1>11, <2>1 DEF CalculateWork, U, m
<1>13. BlockProof(bits) = w
  BY DEF BlockProof, w, m, t, U
<1>14. w < U
  <2>1. m >= 2
    <3>1. \A x, y \in Nat \ {0} : x * y \in Nat /\ x * y >= 1
      OBVIOUS
    <3>2. Base * q \in Nat /\ Base * q >= 1
      BY <1>1, <1>8, <3>1
    <3>3. QED
      BY <1>8, <3>2
  <2>2. m * w >= 2 * w /\ m * w \in Nat
    BY <1>7, <1>9, <2>1
  <2> DEFINE x == m * w
  <2>3. U = x + r /\ x >= 2 * w /\ x \in Nat
    BY <1>9, <2>2
  <2> HIDE DEF x
  <2>4. QED
    BY <1>1, <1>7, <1>9, <1>10, <2>3
<1>15. AddWork(0, bits) = w
  <2>1. AddWork(0, bits) = (0 + w) % U
    BY <1>12 DEF AddWork, U
  <2>2. (0 + w) % U = w
    BY <1>1, <1>9, <1>14
  <2>3. QED
    BY <2>1, <2>2
<1>16. QED
  BY <1>9, <1>12, <1>13, <1>15

(* Of two numbers that agree above a byte, the one with the smaller byte   *)
(* is smaller, whatever follows.                                           *)
LEMMA FirstDifferenceDecides ==
    ASSUME NEW a \in Bytes, NEW b \in Bytes, NEW k \in Positions, a[k] < b[k],
           \A j \in Positions : j > k => a[j] = b[j]
    PROVE  FromLeBytes(a) < FromLeBytes(b)
<1> DEFINE A == HighBytes(a)
           B == HighBytes(b)
           W == TargetBytes
           top == W - (k + 1)
<1>1. W \in Nat /\ Base \in Nat /\ k \in 0 .. W - 1 /\ top \in Nat /\ top \in 0 .. W - 1 /\ W - (top + 1) = k
  BY BaseFacts DEF Positions
<1>2. /\ A[0] = 0
      /\ \A x \in 0 .. W : A[x] \in Nat
      /\ \A x \in 0 .. W - 1 : W - (x+1) \in Positions /\ A[x+1] = Base * A[x] + a[W - (x+1)]
  BY HighBytesDef
<1>3. /\ B[0] = 0
      /\ \A x \in 0 .. W : B[x] \in Nat
      /\ \A x \in 0 .. W - 1 : W - (x+1) \in Positions /\ B[x+1] = Base * B[x] + b[W - (x+1)]
  BY HighBytesDef
<1>4. \A x \in Positions : a[x] \in 0 .. Base - 1 /\ b[x] \in 0 .. Base - 1
  BY DEF Bytes
<1>5. top = W - (k + 1)
  OBVIOUS
<1> HIDE DEF A, B, W, top
<1>6. \A x \in 0 .. top : A[x] = B[x]
  <2> DEFINE S == {x \in 0 .. top : A[x] = B[x]}
  <2>1. 0 \in S
    BY <1>1, <1>2, <1>3
  <2>2. ASSUME NEW x \in 0 .. top - 1, x \in S PROVE x + 1 \in S
    <3>1. x \in 0 .. W - 1 /\ x + 1 \in 0 .. top /\ W - (x+1) > k
      BY <1>1, <1>5
    <3>2. a[W - (x+1)] = b[W - (x+1)]
      BY <1>2, <3>1
    <3>3. A[x+1] = B[x+1]
      BY <1>2, <1>3, <2>2, <3>1, <3>2
    <3>4. QED
      BY <3>1, <3>3
  <2>3. \A x \in 0 .. top : x \in S
    <3> HIDE DEF S
    <3>1. QED
      BY <1>1, <2>1, <2>2, UpInduction
  <2>4. QED
    BY <2>3
<1>7. A[top+1] < B[top+1]
  <2>1. A[top] = B[top] /\ A[top] \in Nat
    BY <1>1, <1>2, <1>6
  <2>2. A[top+1] = Base * A[top] + a[k] /\ B[top+1] = Base * A[top] + b[k]
    BY <1>1, <1>2, <1>3, <2>1
  <2>3. a[k] \in Nat /\ b[k] \in Nat /\ Base * A[top] \in Nat
    BY <1>1, <1>4, <2>1
  <2> DEFINE x == Base * A[top]
  <2>4. A[top+1] = x + a[k] /\ B[top+1] = x + b[k] /\ x \in Nat
    BY <2>2, <2>3
  <2> HIDE DEF x
  <2>5. QED
    BY <2>3, <2>4
<1>8. \A y \in 0 .. k : A[(top+1)+y] < B[(top+1)+y]
  <2> DEFINE S == {y \in 0 .. k : A[(top+1)+y] < B[(top+1)+y]}
  <2>1. 0 \in S
    <3>1. (top + 1) + 0 = top + 1 /\ 0 \in 0 .. k
      BY <1>1
    <3>2. QED
      BY <1>7, <3>1
  <2>2. ASSUME NEW y \in 0 .. k - 1, y \in S PROVE y + 1 \in S
    <3> DEFINE x == (top + 1) + y
               p == W - (x + 1)
    <3>1. x \in 0 .. W - 1 /\ x \in 0 .. W /\ y + 1 \in 0 .. k /\ (top + 1) + (y + 1) = x + 1
      BY <1>1, <1>5
    <3>2. A[x] < B[x]
      BY <2>2
    <3> HIDE DEF x
    <3>3. /\ A[x] \in Nat /\ B[x] \in Nat /\ p \in Positions
          /\ A[x+1] = Base * A[x] + a[p] /\ B[x+1] = Base * B[x] + b[p]
      BY <1>2, <1>3, <3>1
    <3> HIDE DEF p
    <3>4. a[p] \in 0 .. Base - 1 /\ b[p] \in Nat
      BY <1>1, <1>4, <3>3
    <3>5. \A c, d \in Nat : c < d => Base * c + Base <= Base * d /\ Base * c \in Nat /\ Base * d \in Nat
      <4>1. \A c, d \in Nat : c < d => d = c + 1 + (d - c - 1) /\ d - c - 1 \in Nat
        OBVIOUS
      <4>2. \A c, u \in Nat : Base * (c + 1 + u) = Base * c + Base + Base * u /\ Base * u \in Nat
                              /\ Base * c \in Nat
        BY <1>1
      <4>3. SUFFICES ASSUME NEW c \in Nat, NEW d \in Nat, c < d
                     PROVE  Base * c + Base <= Base * d /\ Base * c \in Nat /\ Base * d \in Nat
        OBVIOUS
      <4> DEFINE u == d - c - 1
      <4>4. d = c + 1 + u /\ u \in Nat
        BY <4>1, <4>3
      <4> HIDE DEF u
      <4>5. Base * d = Base * c + Base + Base * u /\ Base * u \in Nat /\ Base * c \in Nat
        BY <4>2, <4>4
      <4>6. QED
        BY <1>1, <4>5
    <3> DEFINE c == Base * A[x]
               d == Base * B[x]
    <3>6. c + Base <= d /\ c \in Nat /\ d \in Nat /\ A[x+1] = c + a[p] /\ B[x+1] = d + b[p]
      BY <3>2, <3>3, <3>5
    <3> HIDE DEF c, d
    <3>7. A[x+1] < B[x+1]
      BY <1>1, <3>4, <3>6
    <3>8. QED
      BY <3>1, <3>7
  <2>3. \A y \in 0 .. k : y \in S
    <3>1. k \in Nat
      BY <1>1
    <3> HIDE DEF S
    <3>2. QED
      BY <2>1, <2>2, <3>1, UpInduction
  <2>4. QED
    BY <2>3
<1>9. (top + 1) + k = W /\ k \in 0 .. k
  BY <1>1, <1>5
<1>10. A[W] < B[W]
  BY <1>8, <1>9
<1>11. QED
  BY <1>10 DEF FromLeBytes, A, B, W

(* The circuit accepts a hash exactly if, as a number, it is at most the   *)
(* target.                                                                 *)
LEMMA CheckHashIsComparison ==
    ASSUME NEW hash \in Bytes, NEW target \in Bytes
    PROVE  CheckHashValid(hash, target) <=> FromLeBytes(hash) <= FromLeBytes(target)
<1>0. FromLeBytes(hash) \in Nat /\ FromLeBytes(target) \in Nat
  BY HighBytesDef
<1>1. CASE hash = target
  BY <1>0, <1>1 DEF CheckHashValid
<1>2. CASE hash # target
  <2> DEFINE D == {x \in Nat : \E k \in Positions : hash[k] # target[k] /\ x = TargetBytes - 1 - k}
  <2>1. TargetBytes \in Nat /\ \A k \in Positions : k \in Int /\ TargetBytes - 1 - k \in Nat
    BY BaseFacts DEF Positions
  <2>2. \E k \in Positions : hash[k] # target[k]
    BY <1>2 DEF Bytes
  <2>3. D # {} /\ D \subseteq Nat
    BY <2>1, <2>2
  <2>4. PICK x \in D : \A y \in D : x <= y
    <3> HIDE DEF D
    <3>1. QED
      BY <2>3, LeastNumber
  <2>5. PICK k \in Positions : hash[k] # target[k] /\ x = TargetBytes - 1 - k
    BY <2>4
  <2>6. \A j \in Positions : j > k => hash[j] = target[j]
    <3> SUFFICES ASSUME NEW j \in Positions, j > k, hash[j] # target[j] PROVE FALSE
      OBVIOUS
    <3>1. TargetBytes - 1 - j \in D
      BY <2>1
    <3>2. x <= TargetBytes - 1 - j
      BY <2>4, <3>1
    <3>3. QED
      BY <2>1, <2>5, <3>2
  <2>7. hash[k] \in Int /\ target[k] \in Int
    BY BaseFacts DEF Bytes
  <2>8. CASE hash[k] < target[k]
    <3>1. FromLeBytes(hash) < FromLeBytes(target)
      BY <2>6, <2>8, FirstDifferenceDecides
    <3>2. CheckHashValid(hash, target)
      BY <2>6, <2>8 DEF CheckHashValid
    <3>3. QED
      BY <1>0, <3>1, <3>2
  <2>9. CASE target[k] < hash[k]
    <3>1. FromLeBytes(target) < FromLeBytes(hash)
      <4>1. \A j \in Positions : j > k => target[j] = hash[j]
        BY <2>6
      <4>2. QED
        BY <2>9, <4>1, FirstDifferenceDecides
    <3>2. ~ CheckHashValid(hash, target)
      <4> SUFFICES ASSUME NEW l \in Positions, hash[l] < target[l],
                          \A j \in Positions : j > l => hash[j] = target[j]
                   PROVE  FALSE
        BY <1>2 DEF CheckHashValid
      <4>1. FromLeBytes(hash) < FromLeBytes(target)
        BY FirstDifferenceDecides
      <4>2. QED
        BY <1>0, <3>1, <4>1
    <3>3. QED
      BY <1>0, <3>1, <3>2
  <2>10. QED
    BY <2>5, <2>7, <2>8, <2>9
<1>3. QED
  BY <1>1, <1>2

(* For every base, every width, every usual bits field and every hash, the *)
(* circuit's target, work and check of the hash are the network's.         *)
THEOREM WorkAlwaysMatchesNetwork == Spec => []WorkMatchesNetwork
<1>1. WorkMatchesNetwork
  <2> SUFFICES ASSUME NEW bits \in BitsField, bits.exponent > 3, bits.value > 0
               PROVE  LET target == DecodeCompactTarget(bits) IN
                      /\ FromLeBytes(target) = NetworkTarget(bits)
                      /\ AddWork(0, bits) = BlockProof(bits)
                      /\ \A hash \in Bytes : CheckHashValid(hash, target)
                                                <=> FromLeBytes(hash) <= NetworkTarget(bits)
    BY DEF WorkMatchesNetwork
  <2>1. Usual(bits)
    BY DEF Usual
  <2>2. FromLeBytes(DecodeCompactTarget(bits)) = NetworkTarget(bits)
    BY <2>1, TargetIsNetworks
  <2>3. AddWork(0, bits) = BlockProof(bits)
    BY <2>1, WorkIsNetworks
  <2>4. ASSUME NEW hash \in Bytes
        PROVE  CheckHashValid(hash, DecodeCompactTarget(bits))
                  <=> FromLeBytes(hash) <= NetworkTarget(bits)
    BY <2>2, TargetIsBytes, CheckHashIsComparison
  <2>5. QED
    BY <2>2, <2>3, <2>4
<1>2. QED
  BY <1>1, PTL

-----------------------------------------------------------------------------
(* The verifier's challenge *)

(* The work that one header adds, if nothing wraps.                        *)
HeaderWork(bits) == CalculateWork(DecodeCompactTarget(bits))

(* The sums that WorkOf takes the last of.                                 *)
WorkSums(fields) ==
    LET sum[k \in 0 .. Len(fields)] ==
            IF k = 0 THEN 0 ELSE sum[k-1] + HeaderWork(fields[k])
    IN  sum

(* A list of bits fields, and one that has another at its end.             *)
Fields(q) == Len(q) \in Nat /\ \A k \in 1 .. Len(q) : q[k] \in BitsField

Longer(q, a, x) ==
    /\ Len(a) = Len(q) + 1
    /\ \A k \in 1 .. Len(q) : a[k] = q[k]
    /\ a[Len(q) + 1] = x

(* The sums, one by one.                                                   *)
LEMMA WorkSumsDef ==
    ASSUME NEW q, Fields(q)
    PROVE  /\ WorkSums(q)[0] = 0
           /\ \A k \in 0 .. Len(q) - 1 : WorkSums(q)[k+1] = WorkSums(q)[k] + HeaderWork(q[k+1])
           /\ WorkOf(q) = WorkSums(q)[Len(q)]
           /\ WorkOf(q) \in Nat
<1> DEFINE Step(k, x) == x + HeaderWork(q[k])
           Body(m, h) == [k \in 0 .. m |-> IF k = 0 THEN 0 ELSE Step(k, h[k-1])]
           S          == {m \in Nat : \E h : h = Body(m, h)}
           l          == Len(q)
           p          == WorkSums(q)
<1>0. l \in Nat /\ \A k \in 1 .. l : HeaderWork(q[k]) \in Nat
  BY WorkIsNat DEF Fields, HeaderWork
<1>1. p = CHOOSE h : h = Body(l, h)
  BY DEF WorkSums, HeaderWork
<1>w. WorkOf(q) = p[l]
  BY DEF WorkOf, WorkSums, HeaderWork
<1> HIDE DEF Step
<1>2. 0 \in S
  <2> DEFINE h == [k \in 0 .. 0 |-> 0]
  <2>1. h = Body(0, h)
    OBVIOUS
  <2>2. QED
    BY <2>1
<1>3. ASSUME NEW m \in Nat, m \in S PROVE m + 1 \in S
  <2>1. PICK h : h = Body(m, h)
    BY <1>3
  <2> DEFINE g == [k \in 0 .. m + 1 |-> IF k = 0 THEN 0 ELSE Step(k, h[k-1])]
  <2>2. \A k \in 0 .. m : g[k] = h[k]
    BY <2>1
  <2>3. g = [k \in 0 .. m + 1 |-> IF k = 0 THEN 0 ELSE Step(k, h[k-1])]
    OBVIOUS
  <2> HIDE DEF g
  <2>4. \A k \in 0 .. m + 1 : k # 0 => g[k-1] = h[k-1]
    BY <2>2
  <2>5. g = Body(m + 1, g)
    BY <2>3, <2>4
  <2> HIDE DEF Body
  <2>6. QED
    BY <2>5
<1> HIDE DEF l
<1>4. l \in S
  <2> HIDE DEF S
  <2>1. QED
    BY <1>0, <1>2, <1>3, SetInduction
<1>5. p = Body(l, p)
  <2>1. \E h : h = Body(l, h)
    BY <1>4
  <2> HIDE DEF Body, p
  <2>2. QED
    BY <1>1, <2>1
<1> HIDE DEF p
<1>6. p[0] = 0
  BY <1>0, <1>5
<1>7. ASSUME NEW k \in 0 .. l - 1 PROVE p[k+1] = p[k] + HeaderWork(q[k+1])
  <2>1. k + 1 \in 0 .. l /\ k + 1 # 0 /\ (k + 1) - 1 = k
    BY <1>0
  <2>2. p[k+1] = IF k + 1 = 0 THEN 0 ELSE Step(k+1, p[(k+1)-1])
    BY <1>5, <2>1
  <2>3. QED
    BY <2>1, <2>2 DEF Step
<1>8. \A k \in 0 .. l : p[k] \in Nat
  <2> DEFINE T == {k \in 0 .. l : p[k] \in Nat}
  <2>1. 0 \in T
    BY <1>0, <1>6
  <2>2. ASSUME NEW k \in 0 .. l - 1, k \in T PROVE k + 1 \in T
    <3>1. k + 1 \in 1 .. l /\ k + 1 \in 0 .. l
      BY <1>0
    <3>2. p[k+1] \in Nat
      BY <1>0, <1>7, <2>2, <3>1
    <3>3. QED
      BY <3>1, <3>2
  <2>3. \A k \in 0 .. l : k \in T
    <3> HIDE DEF T
    <3>1. QED
      BY <1>0, <2>1, <2>2, UpInduction
  <2>4. QED
    BY <2>3
<1>9. WorkOf(q) \in Nat
  BY <1>0, <1>8, <1>w
<1>10. QED
  BY <1>6, <1>7, <1>9, <1>w DEF p, l

(* One more header adds its work.                                          *)
LEMMA WorkGrows ==
    ASSUME NEW q, NEW a, NEW x, Fields(q), Longer(q, a, x), x \in BitsField
    PROVE  Fields(a) /\ WorkOf(a) = WorkOf(q) + HeaderWork(x)
<1> DEFINE l == Len(q)
           f == WorkSums(q)
           g == WorkSums(a)
           S == {k \in 0 .. l : f[k] = g[k]}
<1>1. /\ l \in Nat /\ Len(a) = l + 1 /\ a[l+1] = x
      /\ \A k \in 1 .. l : a[k] = q[k]
  BY DEF Longer, Fields
<1>2. Fields(a)
  <2>1. \A k \in 1 .. l + 1 : k \in 1 .. l \/ k = l + 1
    BY <1>1
  <2>2. QED
    BY <1>1, <2>1 DEF Fields
<1>3. f[0] = 0 /\ WorkOf(q) = f[l] /\ \A k \in 0 .. l - 1 : f[k+1] = f[k] + HeaderWork(q[k+1])
  BY WorkSumsDef
<1>4. g[0] = 0 /\ WorkOf(a) = g[l+1] /\ \A k \in 0 .. l : g[k+1] = g[k] + HeaderWork(a[k+1])
  <2>1. (l + 1) - 1 = l
    BY <1>1
  <2>2. QED
    BY <1>1, <1>2, <2>1, WorkSumsDef
<1> HIDE DEF f, g, l
<1>5. 0 \in S
  BY <1>1, <1>3, <1>4
<1>6. ASSUME NEW k \in 0 .. l - 1, k \in S PROVE k + 1 \in S
  <2>1. k + 1 \in 0 .. l /\ k + 1 \in 1 .. l /\ k \in 0 .. l
    BY <1>1
  <2>2. f[k+1] = f[k] + HeaderWork(q[k+1]) /\ g[k+1] = g[k] + HeaderWork(a[k+1])
    BY <1>3, <1>4, <2>1
  <2>3. f[k] = g[k] /\ a[k+1] = q[k+1]
    BY <1>1, <1>6, <2>1
  <2>4. QED
    BY <2>1, <2>2, <2>3
<1>7. l \in S
  <2>1. l \in 0 .. l
    BY <1>1
  <2> HIDE DEF S
  <2>2. QED
    BY <1>1, <1>5, <1>6, <2>1, UpInduction
<1>8. g[l+1] = g[l] + HeaderWork(a[l+1])
  BY <1>1, <1>4
<1>9. QED
  BY <1>1, <1>2, <1>3, <1>4, <1>7, <1>8

(* The work is at most that of the headers, less only where it wraps, and  *)
(* what lets a proof go on is not undone.                                  *)
PowInv ==
    /\ Fields(BitsOf(blocks)) /\ Fields(deep)
    /\ pow <= WorkOf(BitsOf(blocks)) + WorkOf(deep)
    /\ chal.pow \in Nat
    /\ phase \in {"lc", "claim", "proved"} => Holds

(* Initially there is no work.                                             *)
LEMMA InitPowInv == Init => PowInv
<1> SUFFICES ASSUME Init PROVE PowInv
  OBVIOUS
<1>1. Len(<<>>) = 0 /\ Len(BitsOf(<<>>)) = 0
  BY DEF BitsOf
<1>2. \A q : Len(q) = 0 => Fields(q)
  BY DEF Fields
<1>3. Fields(<<>>) /\ Fields(BitsOf(<<>>))
  BY <1>1, <1>2
<1>4. WorkOf(<<>>) \in Nat /\ WorkOf(BitsOf(<<>>)) \in Nat
  BY <1>3, WorkSumsDef
<1>5. blocks = <<>> /\ deep = <<>> /\ pow = 0 /\ chal.pow = 0 /\ phase = "count"
  BY DEF Init
<1>6. 0 <= WorkOf(BitsOf(<<>>)) + WorkOf(<<>>)
  BY <1>4
<1>7. QED
  BY <1>3, <1>5, <1>6 DEF PowInv

(* Every step keeps it.                                                    *)
LEMMA NextPowInv ==
    ASSUME PowInv, TypeOK, HistInv, [Next]_vars
    PROVE  PowInv'
<1> DEFINE wb == WorkOf(BitsOf(blocks))
           wd == WorkOf(deep)
<1>1. wb \in Nat /\ wd \in Nat /\ pow \in Nat /\ pow <= wb + wd
  BY WorkSumsDef DEF PowInv, TypeOK
<1>2. ASSUME NEW bits \in Bits
      PROVE  /\ bits \in BitsField /\ HeaderWork(bits) \in Nat
             /\ AddWork(pow, bits) \in Nat /\ AddWork(pow, bits) <= pow + HeaderWork(bits)
  <2>1. bits \in BitsField
    BY BitsAssumption
  <2>2. HeaderWork(bits) \in Nat
    BY <2>1, WorkIsNat DEF HeaderWork
  <2>3. AddWork(pow, bits) \in Nat /\ AddWork(pow, bits) <= pow + HeaderWork(bits)
    BY <1>1, <2>1, WorkIsNat DEF HeaderWork
  <2>4. QED
    BY <2>1, <2>2, <2>3
<1>3. CASE \E root \in TxRoots, bits \in Bits : ReadBlock(root, bits)
  <2>1. PICK root \in TxRoots, bits \in Bits : ReadBlock(root, bits)
    BY <1>3
  <2> DEFINE x == BlockHash(cur, root, bits)
             a == Append(blocks, x)
             w == AddWork(pow, bits)
  <2>2. /\ blocks' = a /\ pow' = w /\ deep' = deep /\ chal' = chal
        /\ phase' = "blocks"
    BY <2>1 DEF ReadBlock, gameVars
  <2>3. BlockBits(x) = bits
    BY DEF BlockBits, BlockHash
  <2> HIDE DEF x
  <2>4. /\ Len(blocks) \in Nat /\ Len(a) = Len(blocks) + 1
        /\ \A k \in 1 .. Len(blocks) : a[k] = blocks[k]
        /\ a[Len(blocks) + 1] = x
    BY AppendRange DEF HistInv
  <2> HIDE DEF a
  <2>5. Longer(BitsOf(blocks), BitsOf(a), bits)
    <3> DEFINE l == Len(blocks)
    <3>1. /\ l \in Nat /\ Len(a) = l + 1 /\ a[l+1] = x /\ \A k \in 1 .. l : a[k] = blocks[k]
      BY <2>4
    <3>2. BitsOf(blocks) = [k \in 1 .. l |-> BlockBits(blocks[k])]
          /\ BitsOf(a) = [k \in 1 .. l + 1 |-> BlockBits(a[k])]
      BY <3>1 DEF BitsOf
    <3> HIDE DEF l
    <3>3. Len(BitsOf(blocks)) = l /\ Len(BitsOf(a)) = l + 1
      BY <3>1, <3>2
    <3>4. BitsOf(a)[l+1] = bits
      BY <2>3, <3>1, <3>2
    <3>5. \A k \in 1 .. l : BitsOf(a)[k] = BitsOf(blocks)[k]
      BY <3>1, <3>2
    <3>6. QED
      BY <3>1, <3>3, <3>4, <3>5 DEF Longer
  <2>6. Fields(BitsOf(a)) /\ WorkOf(BitsOf(a)) = wb + HeaderWork(bits)
    <3>1. Fields(BitsOf(blocks)) /\ bits \in BitsField
      BY <1>2 DEF PowInv
    <3>2. QED
      BY <2>5, <3>1, WorkGrows
  <2>7. w <= pow + HeaderWork(bits) /\ w \in Nat /\ HeaderWork(bits) \in Nat
    BY <1>2
  <2> HIDE DEF w, wb, wd
  <2>8. w <= WorkOf(BitsOf(a)) + wd
    BY <1>1, <2>6, <2>7
  <2>9. BitsOf(blocks)' = BitsOf(a)
    BY <2>2 DEF BitsOf
  <2>10. QED
    BY <2>2, <2>6, <2>8, <2>9 DEF PowInv, wd
<1>4. CASE \E bits \in Bits : ReadDeepBlock(bits)
  <2>1. PICK bits \in Bits : ReadDeepBlock(bits)
    BY <1>4
  <2> DEFINE a == Append(deep, bits)
             w == AddWork(pow, bits)
  <2>2. /\ deep' = a /\ pow' = w /\ blocks' = blocks /\ chal' = chal
        /\ phase' = "deep"
    BY <2>1 DEF ReadDeepBlock, gameVars
  <2>3. Longer(deep, a, bits)
    <3>1. /\ Len(deep) \in Nat /\ Len(a) = Len(deep) + 1
          /\ \A k \in 1 .. Len(deep) : a[k] = deep[k]
          /\ a[Len(deep) + 1] = bits
      BY DEF HistInv
    <3>2. QED
      BY <3>1 DEF Longer
  <2> HIDE DEF a
  <2>4. Fields(a) /\ WorkOf(a) = wd + HeaderWork(bits)
    <3>1. Fields(deep) /\ bits \in BitsField
      BY <1>2 DEF PowInv
    <3>2. QED
      BY <2>3, <3>1, WorkGrows
  <2>5. w <= pow + HeaderWork(bits) /\ w \in Nat /\ HeaderWork(bits) \in Nat
    BY <1>2
  <2> HIDE DEF w, wb, wd
  <2>6. w <= wb + WorkOf(a)
    BY <1>1, <2>4, <2>5
  <2>7. BitsOf(blocks)' = BitsOf(blocks)
    BY <2>2 DEF BitsOf
  <2>8. QED
    BY <2>2, <2>4, <2>6, <2>7 DEF PowInv, wb
<1>5. CASE \E c \in Challenges, k \in 0 .. MaxDeep : ReadChallenge(c, k)
  <2>1. PICK c \in Challenges : \E k : ReadChallenge(c, k)
    BY <1>5
  <2>2. c.pow \in Nat
    BY ConstantFacts DEF Challenges
  <2>3. chal' = c /\ phase' = "deep" /\ UNCHANGED <<pow, blocks, deep>>
    BY <2>1 DEF ReadChallenge, chainVars
  <2>4. QED
    BY <2>2, <2>3 DEF PowInv, BitsOf
<1>6. CASE GoOn
  <2>1. Holds /\ UNCHANGED <<pow, blocks, deep, chal, last, cur>>
    BY <1>6 DEF GoOn, chainVars, gameVars
  <2>2. QED
    BY <2>1 DEF PowInv, BitsOf, Holds
<1>7. CASE \/ \E hash \in {lc, ZeroHash}, root \in {wtree.root} : ReadAndVerifyLcProof(hash, root)
           \/ \E c \in Claims, o \in Outputs, b \in Headers : ProveClaim(c, o, b)
  <2>1. phase \in {"lc", "claim"} /\ UNCHANGED <<pow, blocks, deep, chal, last, cur>>
    BY <1>7 DEF ReadAndVerifyLcProof, ProveClaim, chainVars, gameVars
  <2>2. QED
    BY <2>1 DEF PowInv, BitsOf, Holds
<1>8. CASE \/ \E k \in 0 .. MaxBlocks : ReadCount(k)
           \/ \E k \in 0 .. MaxPayments : ReadNumWithdrawals(k)
           \/ \E a \in Addresses, b \in Headers : ReadWithdrawalProof(a, b)
           \/ EndProving \/ NextPeriod \/ RoundsOver \/ Lose \/ BadInput
  <2>1. phase' \notin {"lc", "claim", "proved"} /\ UNCHANGED <<pow, blocks, deep, chal>>
    BY <1>8 DEF ReadCount, ReadNumWithdrawals, ReadWithdrawalProof, EndProving, NextPeriod,
                RoundsOver, CountPayments, Lose, BadInput, chainVars, gameVars
  <2>2. QED
    BY <2>1 DEF PowInv, BitsOf
<1>9. CASE UNCHANGED vars
  <2>1. UNCHANGED <<phase, pow, blocks, deep, chal, last, cur>>
    BY <1>9 DEF vars, chainVars, gameVars
  <2>2. QED
    BY <2>1 DEF PowInv, BitsOf, Holds
<1>10. QED
  BY <1>3, <1>4, <1>5, <1>6, <1>7, <1>8, <1>9 DEF Next

(* last_period is the period of the proof once the rounds are over, and    *)
(* was not set before.                                                     *)
LastInv ==
    IF phase \in {"count", "blocks", "payments"}
    THEN period < NumRounds /\ last = 0
    ELSE phase = "failed" \/ last = EndPeriod

(* Every step keeps that.                                                  *)
LEMMA NextLastInv ==
    ASSUME LastInv, TypeOK, [Next]_vars
    PROVE  LastInv'
<1> USE ConstantFacts DEF LastInv, TypeOK, EndPeriod
<1>1. CASE \/ \E k \in 0 .. MaxBlocks : ReadCount(k)
           \/ \E root \in TxRoots, bits \in Bits : ReadBlock(root, bits)
           \/ \E k \in 0 .. MaxPayments : ReadNumWithdrawals(k)
           \/ \E a \in Addresses, b \in Headers : ReadWithdrawalProof(a, b)
  <2>1. phase \in {"count", "blocks", "payments"} /\ phase' \in {"blocks", "payments"}
    BY <1>1 DEF ReadCount, ReadBlock, ReadNumWithdrawals, ReadWithdrawalProof
  <2>2. UNCHANGED <<period, last>>
    BY <1>1 DEF ReadCount, ReadBlock, ReadNumWithdrawals, ReadWithdrawalProof, gameVars
  <2>3. QED
    BY <2>1, <2>2
<1>2. CASE EndProving
  BY <1>2 DEF EndProving, CountPayments
<1>3. CASE NextPeriod
  BY <1>3 DEF NextPeriod, CountPayments
<1>4. CASE RoundsOver
  BY <1>4 DEF RoundsOver, CountPayments
<1>5. CASE \/ \E c \in Challenges, k \in 0 .. MaxDeep : ReadChallenge(c, k)
           \/ \E bits \in Bits : ReadDeepBlock(bits)
           \/ GoOn
           \/ \E hash \in {lc, ZeroHash}, root \in {wtree.root} : ReadAndVerifyLcProof(hash, root)
           \/ \E c \in Claims, o \in Outputs, b \in Headers : ProveClaim(c, o, b)
  <2>1. /\ phase \in {"challenge", "deep", "lc", "claim"}
        /\ phase' \in {"deep", "lc", "claim", "proved"}
    BY <1>5 DEF ReadChallenge, ReadDeepBlock, GoOn, ReadAndVerifyLcProof, ProveClaim
  <2>2. UNCHANGED <<period, last>>
    BY <1>5 DEF ReadChallenge, ReadDeepBlock, GoOn, ReadAndVerifyLcProof, ProveClaim, gameVars
  <2>3. QED
    BY <2>1, <2>2
<1>6. CASE Lose \/ BadInput
  BY <1>6 DEF Lose, BadInput
<1>7. CASE UNCHANGED vars
  BY <1>7 DEF vars, gameVars
<1>8. QED
  BY <1>1, <1>2, <1>3, <1>4, <1>5, <1>6, <1>7 DEF Next

(* A proof exists only if the challenge is about the end of the proved     *)
(* chain and the period of the proof (0 when it went through all rounds),  *)
(* or shows less work than the circuit counts for the headers, whatever    *)
(* the host puts in them.                                                  *)
THEOREM ProvedAlwaysBeatsChallenge == Spec => []ProvedBeatsChallenge
<1>1. Init => PowInv /\ LastInv
  BY InitPowInv, SizesAssumption DEF Init, LastInv
<1>2. PowInv /\ TypeOK /\ HistInv /\ [Next]_vars => PowInv'
  BY NextPowInv
<1>3. LastInv /\ TypeOK /\ [Next]_vars => LastInv'
  BY NextLastInv
<1>4. PowInv /\ LastInv /\ TypeOK => ProvedBeatsChallenge
  <2> SUFFICES ASSUME PowInv, LastInv, TypeOK, phase = "proved",
                      ~ (chal.hash = cur /\ chal.period = EndPeriod)
               PROVE  chal.pow < WorkOf(BitsOf(blocks)) + WorkOf(deep)
    BY DEF ProvedBeatsChallenge
  <2>1. pow > chal.pow
    BY DEF PowInv, Holds, LastInv
  <2> DEFINE wb == WorkOf(BitsOf(blocks))
             wd == WorkOf(deep)
  <2>2. wb \in Nat /\ wd \in Nat /\ pow \in Nat /\ pow <= wb + wd /\ chal.pow \in Nat
    BY WorkSumsDef DEF PowInv, TypeOK
  <2> HIDE DEF wb, wd
  <2>3. chal.pow < wb + wd
    BY <2>1, <2>2
  <2>4. QED
    BY <2>3 DEF wb, wd
<1>5. QED
  BY <1>1, <1>2, <1>3, <1>4, TypeCorrect, HistoriesAreSequences, PTL DEF Spec
=============================================================================
