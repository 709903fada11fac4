----------------------- MODULE IncrementalMerkleProofs -----------------------
(***************************************************************************)
(* What the incremental Merkle tree and the check of its proofs compute,   *)
(* for every depth: adding leaves one by one yields the root of the tree   *)
(* they stand for, and a proof for an index passes exactly for the leaf    *)
(* that is there.                                                          *)
(*                                                                         *)
(* First each recursive function gets its equations: CHOOSE yields one     *)
(* that satisfies its definition because, by induction, there is one.      *)
(***************************************************************************)
EXTENDS IncrementalMerkle, ArithmeticProofs

(* The index of a path is halved from level to level.                      *)
LEMMA LevelIndexDef ==
    ASSUME NEW k \in Nat
    PROVE  /\ LevelIndex(k)[0] = k
           /\ \A i \in Nat : /\ LevelIndex(k)[i] \in Nat
                             /\ LevelIndex(k)[i+1] = LevelIndex(k)[i] \div 2
<1> DEFINE F == [x \in Nat \X Nat |-> x[2] \div 2]
           Body(p) == [i \in Nat |-> IF i = 0 THEN k ELSE p[i-1] \div 2]
<1>1. Steps(Nat, k, F)
  <2>1. \A x \in Nat : x \div 2 \in Nat
    OBVIOUS
  <2>2. QED
    BY <2>1 DEF Steps
<1>2. PICK f \in [Nat -> Nat] : f[0] = k /\ \A n \in Nat : f[n+1] = F[<<n, f[n]>>]
  <2> HIDE DEF F
  <2>1. QED
    BY <1>1, NatRecursion
<1>3. f[0] = k /\ \A n \in Nat : f[n+1] = f[n] \div 2
  BY <1>2
<1>4. f = Body(f)
  <2>1. ASSUME NEW i \in Nat PROVE f[i] = IF i = 0 THEN k ELSE f[i-1] \div 2
    <3>1. CASE i = 0
      BY <1>3, <3>1
    <3>2. CASE i # 0
      <4>1. i - 1 \in Nat /\ (i - 1) + 1 = i
        BY <3>2
      <4>2. QED
        BY <1>3, <3>2, <4>1
    <3>3. QED
      BY <3>1, <3>2
  <2>2. f = [i \in Nat |-> f[i]]
    BY <1>2
  <2>3. QED
    BY <2>1, <2>2
<1>5. LevelIndex(k) = Body(LevelIndex(k))
  <2>1. LevelIndex(k) = CHOOSE p : p = Body(p)
    BY DEF LevelIndex
  <2> HIDE DEF Body
  <2>2. QED
    BY <1>4, <2>1
<1> DEFINE p == LevelIndex(k)
<1>6. p = [i \in Nat |-> IF i = 0 THEN k ELSE p[i-1] \div 2]
  BY <1>5
<1> HIDE DEF p
<1>7. p[0] = k
  BY <1>6
<1>8. ASSUME NEW i \in Nat PROVE p[i+1] = p[i] \div 2
  <2>1. i + 1 \in Nat /\ i + 1 # 0 /\ (i + 1) - 1 = i
    OBVIOUS
  <2>2. p[i+1] = IF i + 1 = 0 THEN k ELSE p[(i+1)-1] \div 2
    BY <1>6, <2>1
  <2>3. QED
    BY <2>1, <2>2
<1>9. \A i \in Nat : p[i] \in Nat
  <2> DEFINE S == {i \in Nat : p[i] \in Nat}
  <2>1. 0 \in S
    BY <1>7
  <2>2. ASSUME NEW i \in Nat, i \in S PROVE i + 1 \in S
    <3>1. \A x \in Nat : x \div 2 \in Nat
      OBVIOUS
    <3>2. QED
      BY <1>8, <2>2, <3>1
  <2>3. \A i \in Nat : i \in S
    <3> HIDE DEF S
    <3>1. QED
      BY <2>1, <2>2, SetInduction
  <2>4. QED
    BY <2>3
<1>10. QED
  BY <1>7, <1>8, <1>9 DEF p

(* A path starts with its leaf and hashes with one sibling per level.      *)
LEMMA PathOfDef ==
    ASSUME NEW d \in Nat, NEW leaf, NEW k, NEW s
    PROVE  /\ PathOf(d, leaf, k, s)[0] = leaf
           /\ \A i \in 0 .. d-1 :
                PathOf(d, leaf, k, s)[i+1] = IF IsLeft(k, i)
                                             THEN Hash(PathOf(d, leaf, k, s)[i], s[i])
                                             ELSE Hash(s[i], PathOf(d, leaf, k, s)[i])
<1> DEFINE Step(i, x) == IF IsLeft(k, i) THEN Hash(x, s[i]) ELSE Hash(s[i], x)
           Body(n, h) == [i \in 0 .. n |-> IF i = 0 THEN leaf ELSE Step(i-1, h[i-1])]
           S          == {n \in Nat : \E h : h = Body(n, h)}
           p          == PathOf(d, leaf, k, s)
<1>1. p = CHOOSE h : h = Body(d, h)
  BY DEF PathOf
<1> HIDE DEF Step
<1>2. 0 \in S
  <2> DEFINE h == [i \in 0 .. 0 |-> leaf]
  <2>1. h = Body(0, h)
    OBVIOUS
  <2>2. QED
    BY <2>1
<1>3. ASSUME NEW n \in Nat, n \in S PROVE n + 1 \in S
  <2>1. PICK h : h = Body(n, h)
    BY <1>3
  <2> DEFINE g == [i \in 0 .. n + 1 |-> IF i = 0 THEN leaf ELSE Step(i-1, h[i-1])]
  <2>2. \A i \in 0 .. n : g[i] = h[i]
    BY <2>1
  <2>3. g = [i \in 0 .. n + 1 |-> IF i = 0 THEN leaf ELSE Step(i-1, h[i-1])]
    OBVIOUS
  <2> HIDE DEF g
  <2>4. \A i \in 0 .. n + 1 : i # 0 => g[i-1] = h[i-1]
    BY <2>2
  <2>5. g = Body(n + 1, g)
    BY <2>3, <2>4
  <2> HIDE DEF Body
  <2>6. QED
    BY <2>5
<1>4. d \in S
  <2> HIDE DEF S
  <2>1. QED
    BY <1>2, <1>3, SetInduction
<1>5. p = Body(d, p)
  <2>1. \E h : h = Body(d, h)
    BY <1>4
  <2> HIDE DEF Body
  <2>2. QED
    BY <1>1, <2>1
<1> HIDE DEF p
<1>6. p[0] = leaf
  BY <1>5
<1>7. ASSUME NEW i \in 0 .. d-1 PROVE p[i+1] = Step(i, p[i])
  <2>1. i + 1 \in 0 .. d /\ i + 1 # 0 /\ (i + 1) - 1 = i
    OBVIOUS
  <2>2. p[i+1] = IF i + 1 = 0 THEN leaf ELSE Step((i+1)-1, p[(i+1)-1])
    BY <1>5, <2>1
  <2>3. QED
    BY <2>1, <2>2
<1>8. QED
  BY <1>6, <1>7 DEF p, Step

(* Below a root are the halves of the pairs one level up.                  *)
LEMMA BelowDef ==
    ASSUME NEW d \in Nat, NEW root
    PROVE  /\ Below(d, root)[0] = {root}
           /\ \A i \in 0 .. d-1 :
                Below(d, root)[i+1] = UNION {{x[1], x[2]} : x \in Below(d, root)[i]}
<1> DEFINE top        == {root}
           Step(X)    == UNION {{x[1], x[2]} : x \in X}
           Body(n, h) == [i \in 0 .. n |-> IF i = 0 THEN top ELSE Step(h[i-1])]
           S          == {n \in Nat : \E h : h = Body(n, h)}
           p          == Below(d, root)
<1>1. p = CHOOSE h : h = Body(d, h)
  BY DEF Below
<1> HIDE DEF Step, top
<1>2. 0 \in S
  <2> DEFINE h == [i \in 0 .. 0 |-> top]
  <2>1. h = Body(0, h)
    OBVIOUS
  <2>2. QED
    BY <2>1
<1>3. ASSUME NEW n \in Nat, n \in S PROVE n + 1 \in S
  <2>1. PICK h : h = Body(n, h)
    BY <1>3
  <2> DEFINE g == [i \in 0 .. n + 1 |-> IF i = 0 THEN top ELSE Step(h[i-1])]
  <2>2. \A i \in 0 .. n : g[i] = h[i]
    BY <2>1
  <2>3. g = [i \in 0 .. n + 1 |-> IF i = 0 THEN top ELSE Step(h[i-1])]
    OBVIOUS
  <2> HIDE DEF g
  <2>4. \A i \in 0 .. n + 1 : i # 0 => g[i-1] = h[i-1]
    BY <2>2
  <2>5. g = Body(n + 1, g)
    BY <2>3, <2>4
  <2> HIDE DEF Body
  <2>6. QED
    BY <2>5
<1>4. d \in S
  <2> HIDE DEF S
  <2>1. QED
    BY <1>2, <1>3, SetInduction
<1>5. p = Body(d, p)
  <2>1. \E h : h = Body(d, h)
    BY <1>4
  <2> HIDE DEF Body
  <2>2. QED
    BY <1>1, <2>1
<1> HIDE DEF p
<1>6. p[0] = top
  BY <1>5
<1>7. ASSUME NEW i \in 0 .. d-1 PROVE p[i+1] = Step(p[i])
  <2>1. i + 1 \in 0 .. d /\ i + 1 # 0 /\ (i + 1) - 1 = i
    OBVIOUS
  <2>2. p[i+1] = IF i + 1 = 0 THEN top ELSE Step(p[(i+1)-1])
    BY <1>5, <2>1
  <2>3. QED
    BY <2>1, <2>2
<1>8. QED
  BY <1>6, <1>7 DEF p, Step, top

(* The nodes of a tree: the leaves, then hashes of pairs of nodes.         *)
LEMMA NodesDef ==
    ASSUME NEW d \in Nat, NEW leaves
    PROVE  /\ \A k \in 0 .. Capacity(d) - 1 : Nodes(d, leaves)[0][k] = LeafAt(leaves, k)
           /\ \A i \in 0 .. d-1 : \A k \in 0 .. Capacity(d-(i+1)) - 1 :
                Nodes(d, leaves)[i+1][k] =
                    Hash(Nodes(d, leaves)[i][2*k], Nodes(d, leaves)[i][2*k + 1])
<1> DEFINE Row(i, x)  == [k \in 0 .. Capacity(d-i) - 1 |->
                             IF i = 0 THEN LeafAt(leaves, k) ELSE Hash(x[2*k], x[2*k + 1])]
           Body(n, h) == [i \in 0 .. n |-> Row(i, h[i-1])]
           S          == {n \in Nat : \E h : h = Body(n, h)}
           p          == Nodes(d, leaves)
<1>1. p = CHOOSE h : h = Body(d, h)
  BY DEF Nodes
<1>a. \A x, y : Row(0, x) = Row(0, y)
  OBVIOUS
<1>b. ASSUME NEW x, NEW k \in 0 .. Capacity(d) - 1 PROVE Row(0, x)[k] = LeafAt(leaves, k)
  OBVIOUS
<1>c. ASSUME NEW x, NEW i \in 1 .. d, NEW k \in 0 .. Capacity(d-i) - 1
      PROVE  Row(i, x)[k] = Hash(x[2*k], x[2*k + 1])
  OBVIOUS
<1> HIDE DEF Row
<1>2. 0 \in S
  <2> DEFINE h == [i \in 0 .. 0 |-> Row(0, <<>>)]
  <2>1. h = Body(0, h)
    BY <1>a
  <2>2. QED
    BY <2>1
<1>3. ASSUME NEW n \in Nat, n \in S PROVE n + 1 \in S
  <2>1. PICK h : h = Body(n, h)
    BY <1>3
  <2> DEFINE g == [i \in 0 .. n + 1 |-> Row(i, h[i-1])]
  <2>2. \A i \in 0 .. n : g[i] = h[i]
    BY <2>1
  <2>3. g = [i \in 0 .. n + 1 |-> Row(i, h[i-1])]
    OBVIOUS
  <2> HIDE DEF g
  <2>4. \A i \in 0 .. n + 1 : i # 0 => g[i-1] = h[i-1]
    BY <2>2
  <2>5. \A i \in 0 .. n + 1 : Row(i, h[i-1]) = Row(i, g[i-1])
    BY <2>4, <1>a
  <2>6. g = Body(n + 1, g)
    BY <2>3, <2>5
  <2> HIDE DEF Body
  <2>7. QED
    BY <2>6
<1>4. d \in S
  <2> HIDE DEF S
  <2>1. QED
    BY <1>2, <1>3, SetInduction
<1>5. p = Body(d, p)
  <2>1. \E h : h = Body(d, h)
    BY <1>4
  <2> HIDE DEF Body
  <2>2. QED
    BY <1>1, <2>1
<1> HIDE DEF p
<1>6. \A k \in 0 .. Capacity(d) - 1 : p[0][k] = LeafAt(leaves, k)
  <2>1. p[0] = Row(0, p[0-1])
    BY <1>5
  <2>2. QED
    BY <1>b, <2>1
<1>7. ASSUME NEW i \in 0 .. d-1, NEW k \in 0 .. Capacity(d-(i+1)) - 1
      PROVE  p[i+1][k] = Hash(p[i][2*k], p[i][2*k + 1])
  <2>1. i + 1 \in 1 .. d /\ i + 1 \in 0 .. d /\ (i + 1) - 1 = i
    OBVIOUS
  <2>2. p[i+1] = Row(i+1, p[(i+1)-1])
    BY <1>5, <2>1
  <2>3. p[i+1] = Row(i+1, p[i])
    BY <2>1, <2>2
  <2>4. QED
    BY <1>c, <2>1, <2>3
<1>8. QED
  BY <1>6, <1>7 DEF p

(* The roots of empty trees, each the hash of two of the one below it.     *)
LEMMA ZeroesDef ==
    /\ ZEROES[0] = EmptyData
    /\ \A i \in Nat : ZEROES[i+1] = Hash(ZEROES[i], ZEROES[i])
<1> DEFINE Step(x)    == Hash(x, x)
           Body(n, h) == [i \in 0 .. n |-> IF i = 0 THEN EmptyData ELSE Step(h[i-1])]
           S          == {n \in Nat : \E h : h = Body(n, h)}
           G(n)       == CHOOSE h : h = Body(n, h)
           All(f)     == [i \in Nat |-> IF i = 0 THEN EmptyData ELSE Step(f[i-1])]
<1>1. ZEROES = CHOOSE f : f = All(f)
  BY DEF ZEROES
<1> HIDE DEF Step
<1>2. 0 \in S
  <2> DEFINE h == [i \in 0 .. 0 |-> EmptyData]
  <2>1. h = Body(0, h)
    OBVIOUS
  <2>2. QED
    BY <2>1
<1>3. ASSUME NEW n \in Nat, n \in S PROVE n + 1 \in S
  <2>1. PICK h : h = Body(n, h)
    BY <1>3
  <2> DEFINE g == [i \in 0 .. n + 1 |-> IF i = 0 THEN EmptyData ELSE Step(h[i-1])]
  <2>2. \A i \in 0 .. n : g[i] = h[i]
    BY <2>1
  <2>3. g = [i \in 0 .. n + 1 |-> IF i = 0 THEN EmptyData ELSE Step(h[i-1])]
    OBVIOUS
  <2> HIDE DEF g
  <2>4. \A i \in 0 .. n + 1 : i # 0 => g[i-1] = h[i-1]
    BY <2>2
  <2>5. g = Body(n + 1, g)
    BY <2>3, <2>4
  <2> HIDE DEF Body
  <2>6. QED
    BY <2>5
<1>4. \A n \in Nat : n \in S
  <2> HIDE DEF S
  <2>1. QED
    BY <1>2, <1>3, SetInduction
<1>5. ASSUME NEW n \in Nat PROVE G(n) = Body(n, G(n))
  <2>1. \E h : h = Body(n, h)
    BY <1>4
  <2> HIDE DEF Body
  <2>2. QED
    BY <2>1
<1> HIDE DEF G
<1>6. ASSUME NEW n \in Nat PROVE G(n)[n] = G(n+1)[n]
  <2> DEFINE g == G(n)
             h == G(n+1)
             T == {i \in Nat : i <= n => g[i] = h[i]}
  <2>1. g = Body(n, g) /\ h = Body(n + 1, h)
    BY <1>5
  <2> HIDE DEF g, h
  <2>2. 0 \in T
    BY <2>1
  <2>3. ASSUME NEW i \in Nat, i \in T PROVE i + 1 \in T
    <3> SUFFICES ASSUME i + 1 <= n PROVE g[i+1] = h[i+1]
      OBVIOUS
    <3>1. i + 1 \in 0 .. n /\ i + 1 \in 0 .. n + 1 /\ i + 1 # 0 /\ (i + 1) - 1 = i
      OBVIOUS
    <3>2. g[i+1] = Step(g[(i+1)-1]) /\ h[i+1] = Step(h[(i+1)-1])
      BY <2>1, <3>1
    <3>3. g[i] = h[i]
      BY <2>3
    <3>4. QED
      BY <3>1, <3>2, <3>3
  <2>4. n \in T
    <3> HIDE DEF T
    <3>1. QED
      BY <2>2, <2>3, SetInduction
  <2>5. QED
    BY <2>4 DEF g, h
<1> DEFINE f == [i \in Nat |-> G(i)[i]]
<1>7. f = All(f)
  <2>1. ASSUME NEW i \in Nat PROVE f[i] = IF i = 0 THEN EmptyData ELSE Step(f[i-1])
    <3>1. CASE i = 0
      BY <1>5, <3>1
    <3>2. CASE i # 0
      <4>1. i - 1 \in Nat /\ (i - 1) + 1 = i /\ i \in 0 .. i
        BY <3>2
      <4>2. G(i)[i] = Step(G(i)[i-1])
        BY <1>5, <3>2, <4>1
      <4>3. G(i-1)[i-1] = G(i)[i-1]
        BY <1>6, <4>1
      <4>4. f[i] = G(i)[i] /\ f[i-1] = G(i-1)[i-1]
        BY <4>1
      <4>5. QED
        BY <3>2, <4>2, <4>3, <4>4
    <3>3. QED
      BY <3>1, <3>2
  <2>2. f = [i \in Nat |-> f[i]]
    OBVIOUS
  <2> HIDE DEF f
  <2>3. QED
    BY <2>1, <2>2
<1>8. ZEROES = All(ZEROES)
  <2> HIDE DEF All
  <2>1. QED
    BY <1>1, <1>7
<1> DEFINE z == ZEROES
<1>9. z = All(z)
  BY <1>8
<1> HIDE DEF z
<1>10. z[0] = EmptyData
  BY <1>9
<1>11. ASSUME NEW i \in Nat PROVE z[i+1] = Step(z[i])
  <2>1. i + 1 \in Nat /\ i + 1 # 0 /\ (i + 1) - 1 = i
    OBVIOUS
  <2>2. z[i+1] = IF i + 1 = 0 THEN EmptyData ELSE Step(z[(i+1)-1])
    BY <1>9, <2>1
  <2>3. QED
    BY <2>1, <2>2
<1>12. QED
  BY <1>10, <1>11 DEF z, Step

-----------------------------------------------------------------------------
(* Every level has half as many nodes as the one below it.                 *)
LEMMA CapacityDef ==
    /\ Capacity(0) = 1
    /\ \A e \in Nat : Capacity(e) \in Nat \ {0} /\ Capacity(e+1) = 2 * Capacity(e)
BY PowerDef DEF Capacity

(* Two hashes are equal only if they are of the same values.               *)
LEMMA HashInjective ==
    ASSUME NEW a, NEW b, NEW x, NEW y, Hash(a, b) = Hash(x, y)
    PROVE  a = x /\ b = y
BY DEF Hash

(* The capacity one level down.                                            *)
LEMMA CapacityBelow ==
    ASSUME NEW d \in Nat, NEW i \in 0 .. d-1
    PROVE  Capacity(d-i) = 2 * Capacity(d-(i+1)) /\ Capacity(d-(i+1)) \in Nat \ {0}
<1>1. d - (i + 1) \in Nat /\ (d - (i + 1)) + 1 = d - i
  OBVIOUS
<1>2. Capacity((d-(i+1)) + 1) = 2 * Capacity(d-(i+1)) /\ Capacity(d-(i+1)) \in Nat \ {0}
  BY <1>1, CapacityDef
<1>3. QED
  BY <1>1, <1>2

(* The path of a leaf stays within the tree and ends at the root.          *)
LEMMA LevelIndexBound ==
    ASSUME NEW d \in Nat, NEW k \in 0 .. Capacity(d) - 1
    PROVE  /\ \A i \in 0 .. d : LevelIndex(k)[i] \in 0 .. Capacity(d-i) - 1
           /\ LevelIndex(k)[d] = 0
<1> DEFINE S == {i \in 0 .. d : LevelIndex(k)[i] \in 0 .. Capacity(d-i) - 1}
<1>0. k \in Nat /\ d - 0 = d /\ d - d = 0 /\ Capacity(d) \in Nat
  BY CapacityDef
<1>1. 0 \in S
  BY <1>0, LevelIndexDef
<1>2. ASSUME NEW i \in 0 .. d-1, i \in S PROVE i + 1 \in S
  <2> DEFINE x == LevelIndex(k)[i]
             c == Capacity(d-(i+1))
  <2>1. LevelIndex(k)[i+1] = x \div 2 /\ x \in Nat
    BY <1>0, LevelIndexDef
  <2>2. Capacity(d-i) = 2 * c /\ c \in Nat
    BY CapacityBelow
  <2>3. x \in 0 .. 2 * c - 1
    BY <1>2, <2>2
  <2> HIDE DEF x, c
  <2>4. x \div 2 \in 0 .. c - 1
    BY <2>1, <2>2, <2>3
  <2>5. LevelIndex(k)[i+1] \in 0 .. Capacity(d-(i+1)) - 1
    BY <2>1, <2>4 DEF c
  <2>6. QED
    BY <2>5
<1>3. \A i \in 0 .. d : i \in S
  <2> HIDE DEF S
  <2>1. QED
    BY <1>1, <1>2, UpInduction
<1>4. LevelIndex(k)[d] \in 0 .. Capacity(0) - 1
  BY <1>0, <1>3
<1>5. QED
  BY <1>3, <1>4, CapacityDef

-----------------------------------------------------------------------------
(* The remainder of a number, one bit at a time.                           *)
LEMMA RemainderByBits ==
    ASSUME NEW x \in Nat, NEW c \in Nat \ {0}
    PROVE  /\ x % 2 = 0 => 2 * ((x \div 2) % c) = x % (2 * c)
           /\ x % 2 # 0 => 2 * ((x \div 2) % c) + 1 = x % (2 * c)
<1> DEFINE y == x \div 2
           b == x % 2
           q == y \div c
           r == y % c
<1>1. y \in Nat /\ b \in 0 .. 1 /\ x = 2 * y + b
  OBVIOUS
<1> HIDE DEF y, b
<1>2. q \in Nat /\ r \in 0 .. c - 1 /\ y = c * q + r
  BY <1>1, DivMod
<1> HIDE DEF q, r
<1>3. 2 * c \in Nat \ {0} /\ 2 * r + b \in 0 .. 2 * c - 1
  BY <1>1, <1>2
<1>4. x = (2 * c) * q + (2 * r + b)
  <2>1. \A u, v, w \in Nat : 2 * (u * v + w) = (2 * u) * v + 2 * w
    OBVIOUS
  <2>2. 2 * y = (2 * c) * q + 2 * r
    BY <1>2, <2>1
  <2>3. (2 * c) * q \in Nat
    BY <1>2
  <2> DEFINE z == (2 * c) * q
  <2>4. x = z + 2 * r + b /\ z \in Nat
    BY <1>1, <2>2, <2>3
  <2> HIDE DEF z
  <2>5. x = z + (2 * r + b)
    BY <1>1, <1>2, <2>4
  <2>6. QED
    BY <2>5 DEF z
<1>5. x % (2 * c) = 2 * r + b
  BY <1>2, <1>3, <1>4, DivUnique
<1>6. QED
  BY <1>1, <1>5 DEF b, r, y

(* A proof that leads to the root of a tree is about the leaf at its index,*)
(* counted modulo the leaves: from the root down, the path's hash at each  *)
(* level is a node of the tree.                                            *)
LEMMA PathSound ==
    ASSUME NEW d \in Nat, NEW leaves, NEW leaf, NEW k \in Nat, NEW s,
           ReadMerkleTreeProof(d, leaf, k, s) = RootOf(d, leaves)
    PROVE  leaf = LeafAt(leaves, k % Capacity(d))
<1> DEFINE p      == PathOf(d, leaf, k, s)
           node   == Nodes(d, leaves)
           m(j)   == LevelIndex(k)[j] % Capacity(d-j)
           S      == {j \in 0 .. d : p[j] = node[j][m(j)]}
<1>1. p[0] = leaf /\ \A j \in 0 .. d-1 : p[j+1] = IF IsLeft(k, j) THEN Hash(p[j], s[j])
                                                                  ELSE Hash(s[j], p[j])
  BY PathOfDef
<1>2. /\ \A i \in 0 .. Capacity(d) - 1 : node[0][i] = LeafAt(leaves, i)
      /\ \A j \in 0 .. d-1 : \A i \in 0 .. Capacity(d-(j+1)) - 1 :
            node[j+1][i] = Hash(node[j][2*i], node[j][2*i + 1])
  BY NodesDef
<1>3. p[d] = node[d][0]
  BY DEF ReadMerkleTreeProof, RootOf
<1>4. Capacity(d) \in Nat \ {0} /\ Capacity(0) = 1
  BY CapacityDef
<1>5. \A j \in 0 .. d : LevelIndex(k)[j] \in Nat
  BY LevelIndexDef
<1> HIDE DEF p, node
<1>6. d \in S
  <2>1. \A x \in Nat : x % 1 = 0
    OBVIOUS
  <2>2. m(d) = 0
    BY <1>4, <1>5, <2>1
  <2>3. QED
    BY <1>3, <2>2
<1>7. ASSUME NEW j1 \in 1 .. d, j1 \in S PROVE j1 - 1 \in S
  <2> DEFINE j == j1 - 1
             c == Capacity(d-(j+1))
             x == LevelIndex(k)[j]
             i == (x \div 2) % c
  <2>1. j \in 0 .. d-1 /\ j + 1 = j1 /\ j \in 0 .. d /\ j \in Nat
    OBVIOUS
  <2> HIDE DEF j
  <2>2. Capacity(d-j) = 2 * c /\ c \in Nat \ {0}
    BY <2>1, CapacityBelow
  <2>3. x \in Nat /\ LevelIndex(k)[j+1] = x \div 2
    BY <2>1, LevelIndexDef
  <2>4. p[j+1] = node[j+1][i]
    BY <1>7, <2>1, <2>3
  <2>5. m(j) = x % (2 * c)
    BY <2>2
  <2> HIDE DEF c, x
  <2>6. i \in 0 .. c - 1
    <3>1. x \div 2 \in Nat
      BY <2>3
    <3>2. QED
      BY <2>2, <3>1, DivMod
  <2>7. /\ x % 2 = 0 => 2 * i = m(j)
        /\ x % 2 # 0 => 2 * i + 1 = m(j)
    BY <2>2, <2>3, <2>5, RemainderByBits
  <2> HIDE DEF i
  <2>8. node[j+1][i] = Hash(node[j][2*i], node[j][2*i + 1])
    BY <1>2, <2>1, <2>6 DEF c
  <2>9. p[j+1] = IF x % 2 = 0 THEN Hash(p[j], s[j]) ELSE Hash(s[j], p[j])
    BY <1>1, <2>1 DEF IsLeft, x
  <2> HIDE DEF m
  <2>10. p[j] = node[j][m(j)]
    <3>1. CASE x % 2 = 0
      <4>1. p[j] = node[j][2*i]
        BY <2>4, <2>8, <2>9, <3>1, HashInjective
      <4>2. QED
        BY <2>7, <3>1, <4>1
    <3>2. CASE x % 2 # 0
      <4>1. p[j] = node[j][2*i + 1]
        BY <2>4, <2>8, <2>9, <3>2, HashInjective
      <4>2. QED
        BY <2>7, <3>2, <4>1
    <3>3. QED
      BY <3>1, <3>2
  <2>11. j \in S
    BY <2>1, <2>10
  <2>12. QED
    BY <2>11 DEF j
<1>8. 0 \in S
  <2> HIDE DEF S
  <2>1. \A j \in 0 .. d : j \in S
    BY <1>6, <1>7, DownInduction
  <2>2. QED
    BY <2>1
<1>9. LevelIndex(k)[0] = k /\ d - 0 = d
  BY LevelIndexDef
<1>10. k % Capacity(d) \in 0 .. Capacity(d) - 1
  BY <1>4, DivMod
<1>11. leaf = node[0][k % Capacity(d)]
  BY <1>1, <1>8, <1>9
<1>12. QED
  BY <1>2, <1>10, <1>11

(* Every node of a tree is a hash below its root, so its siblings are      *)
(* among the lists that Proves looks at.                                   *)
LEMMA NodesBelow ==
    ASSUME NEW d \in Nat, NEW leaves
    PROVE  \A j \in 0 .. d : \A m \in 0 .. Capacity(d-j) - 1 :
              Nodes(d, leaves)[j][m] \in Below(d, RootOf(d, leaves))[d-j]
<1> DEFINE node == Nodes(d, leaves)
           root == RootOf(d, leaves)
           below == Below(d, root)
           S    == {j \in 0 .. d : \A m \in 0 .. Capacity(d-j) - 1 : node[j][m] \in below[d-j]}
<1>1. below[0] = {root} /\ \A i \in 0 .. d-1 : below[i+1] = UNION {{x[1], x[2]} : x \in below[i]}
  BY BelowDef
<1>2. \A j \in 0 .. d-1 : \A m \in 0 .. Capacity(d-(j+1)) - 1 :
            node[j+1][m] = Hash(node[j][2*m], node[j][2*m + 1])
  BY NodesDef
<1>3. root = node[d][0]
  BY DEF RootOf
<1>4. Capacity(0) = 1
  BY CapacityDef
<1> HIDE DEF node, root, below
<1>5. d \in S
  <2>1. d - d = 0
    OBVIOUS
  <2>2. \A m \in 0 .. Capacity(d-d) - 1 : m = 0
    BY <1>4, <2>1
  <2>3. QED
    BY <1>1, <1>3, <2>1, <2>2
<1>6. ASSUME NEW j1 \in 1 .. d, j1 \in S PROVE j1 - 1 \in S
  <2> DEFINE j == j1 - 1
             e == d - (j + 1)
  <2>1. /\ j \in 0 .. d-1 /\ j + 1 = j1 /\ j \in 0 .. d /\ j \in Nat
        /\ e \in 0 .. d-1 /\ e + 1 = d - j
    OBVIOUS
  <2>2. e = d - (j + 1)
    OBVIOUS
  <2> HIDE DEF j, e
  <2>3. ASSUME NEW m \in 0 .. Capacity(d-j) - 1 PROVE node[j][m] \in below[d-j]
    <3> DEFINE h == m \div 2
    <3>1. Capacity(d-j) = 2 * Capacity(e) /\ Capacity(e) \in Nat
      BY <2>1, <2>2, CapacityBelow
    <3>2. h \in 0 .. Capacity(e) - 1 /\ (m = 2*h \/ m = 2*h + 1)
      <4>1. \A c \in Nat : \A x \in 0 .. 2*c - 1 :
               x \div 2 \in 0 .. c - 1 /\ (x = 2 * (x \div 2) \/ x = 2 * (x \div 2) + 1)
        OBVIOUS
      <4>2. QED
        BY <3>1, <4>1
    <3> HIDE DEF h
    <3>3. node[j+1][h] \in below[e]
      BY <1>6, <2>1, <2>2, <3>2
    <3>4. node[j+1][h] = Hash(node[j][2*h], node[j][2*h + 1])
      BY <1>2, <2>1, <2>2, <3>2
    <3>5. below[e+1] = UNION {{x[1], x[2]} : x \in below[e]}
      BY <1>1, <2>1
    <3>6. \A a, b : Hash(a, b)[1] = a /\ Hash(a, b)[2] = b
      BY DEF Hash
    <3>7. {node[j+1][h][1], node[j+1][h][2]} \in {{x[1], x[2]} : x \in below[e]}
      BY <3>3
    <3>8. node[j][2*h] \in below[e+1] /\ node[j][2*h + 1] \in below[e+1]
      BY <3>4, <3>5, <3>6, <3>7
    <3>9. QED
      BY <2>1, <3>2, <3>8
  <2>4. j \in S
    BY <2>1, <2>3
  <2>5. QED
    BY <2>4 DEF j
<1>7. \A j \in 0 .. d : j \in S
  <2> HIDE DEF S
  <2>1. QED
    BY <1>5, <1>6, DownInduction
<1>8. QED
  BY <1>7 DEF node, below, root

(* The siblings of a path in the tree lead from its leaf to the root.      *)
LEMMA PathComplete ==
    ASSUME NEW d \in Nat, NEW leaves, NEW k \in 0 .. Capacity(d) - 1
    PROVE  \E s \in SiblingLists(d, RootOf(d, leaves)) :
              ReadMerkleTreeProof(d, LeafAt(leaves, k), k, s) = RootOf(d, leaves)
<1> DEFINE node  == Nodes(d, leaves)
           root  == RootOf(d, leaves)
           below == Below(d, root)
           li    == LevelIndex(k)
           sib(i) == IF IsLeft(k, i) THEN li[i] + 1 ELSE li[i] - 1
           s     == [i \in 0 .. d-1 |-> node[i][sib(i)]]
           leaf  == LeafAt(leaves, k)
           p     == PathOf(d, leaf, k, s)
           S     == {i \in 0 .. d : p[i] = node[i][li[i]]}
<1>0. k \in Nat
  BY CapacityDef
<1>1. li[0] = k /\ \A i \in Nat : li[i] \in Nat /\ li[i+1] = li[i] \div 2
  BY <1>0, LevelIndexDef
<1>2. li[d] = 0 /\ \A i \in 0 .. d : li[i] \in 0 .. Capacity(d-i) - 1
  BY LevelIndexBound
<1>3. /\ \A m \in 0 .. Capacity(d) - 1 : node[0][m] = LeafAt(leaves, m)
      /\ \A j \in 0 .. d-1 : \A m \in 0 .. Capacity(d-(j+1)) - 1 :
            node[j+1][m] = Hash(node[j][2*m], node[j][2*m + 1])
  BY NodesDef
<1>4. \A i \in 0 .. d-1 : IsLeft(k, i) <=> li[i] % 2 = 0
  BY DEF IsLeft
<1>5. p[0] = leaf /\ \A j \in 0 .. d-1 : p[j+1] = IF IsLeft(k, j) THEN Hash(p[j], s[j])
                                                                  ELSE Hash(s[j], p[j])
  <2> HIDE DEF s, leaf
  <2>1. QED
    BY PathOfDef
<1>6. ASSUME NEW i \in 0 .. d-1
      PROVE  /\ sib(i) \in 0 .. Capacity(d-i) - 1
             /\ IsLeft(k, i) => li[i] = 2 * li[i+1] /\ sib(i) = 2 * li[i+1] + 1
             /\ ~ IsLeft(k, i) => li[i] = 2 * li[i+1] + 1 /\ sib(i) = 2 * li[i+1]
  <2> DEFINE c == Capacity(d-(i+1))
  <2>1. Capacity(d-i) = 2 * c /\ c \in Nat
    BY CapacityBelow
  <2>2. li[i] \in Nat /\ li[i+1] = li[i] \div 2 /\ li[i] \in 0 .. 2 * c - 1
    BY <1>1, <1>2, <2>1
  <2>3. \A e \in Nat : \A x \in 0 .. 2*e - 1 :
           /\ x % 2 = 0 => x = 2 * (x \div 2) /\ x + 1 = 2 * (x \div 2) + 1 /\ x + 1 \in 0 .. 2*e - 1
           /\ x % 2 # 0 => x = 2 * (x \div 2) + 1 /\ x - 1 = 2 * (x \div 2) /\ x - 1 \in 0 .. 2*e - 1
    OBVIOUS
  <2> HIDE DEF c, li
  <2>4. QED
    BY <1>4, <2>1, <2>2, <2>3
<1>7. \A i \in 0 .. d-1 : s[i] = node[i][sib(i)]
  OBVIOUS
<1> HIDE DEF s, p, li, leaf
<1>8. 0 \in S
  BY <1>1, <1>3, <1>5 DEF leaf
<1>9. ASSUME NEW i \in 0 .. d-1, i \in S PROVE i + 1 \in S
  <2>1. i + 1 \in 0 .. d
    OBVIOUS
  <2>2. node[i+1][li[i+1]] = Hash(node[i][2 * li[i+1]], node[i][2 * li[i+1] + 1])
    BY <1>2, <1>3, <2>1
  <2>3. p[i+1] = IF IsLeft(k, i) THEN Hash(p[i], s[i]) ELSE Hash(s[i], p[i])
    BY <1>5
  <2>4. p[i] = node[i][li[i]] /\ s[i] = node[i][sib(i)]
    BY <1>7, <1>9
  <2> HIDE DEF node, sib
  <2>5. p[i+1] = node[i+1][li[i+1]]
    BY <1>6, <2>2, <2>3, <2>4
  <2>6. QED
    BY <2>1, <2>5
<1>10. \A i \in 0 .. d : i \in S
  <2> HIDE DEF S
  <2>1. QED
    BY <1>8, <1>9, UpInduction
<1>11. p[d] = root
  <2>1. d \in S
    BY <1>10
  <2>2. QED
    BY <1>2, <2>1 DEF RootOf
<1>12. s \in SiblingLists(d, root)
  <2>1. ASSUME NEW i \in 0 .. d-1 PROVE s[i] \in below[d-i] /\ d - i \in 1 .. d
    <3>1. node[i][sib(i)] \in below[d-i]
      BY <1>6, NodesBelow
    <3>2. QED
      BY <1>7, <3>1
  <2>2. DOMAIN s = 0 .. d-1 /\ s = [i \in 0 .. d-1 |-> s[i]]
    BY DEF s
  <2> DEFINE U == UNION {below[i] : i \in 1 .. d}
  <2>3. \A i \in 0 .. d-1 : s[i] \in U
    BY <2>1
  <2>4. s \in [0 .. d-1 -> U]
    <3> HIDE DEF U
    <3>1. QED
      BY <2>2, <2>3
  <2>5. QED
    BY <2>1, <2>4 DEF SiblingLists
<1>13. ReadMerkleTreeProof(d, leaf, k, s) = root
  BY <1>11 DEF ReadMerkleTreeProof, p
<1>14. QED
  BY <1>12, <1>13 DEF leaf

(* Proofs are exact: some input makes the circuit accept a leaf at an      *)
(* index of the tree exactly if the leaf is there.                         *)
THEOREM ProofsAreExact ==
    ASSUME NEW d \in Nat, NEW leaves, NEW leaf, NEW k \in 0 .. Capacity(d) - 1
    PROVE  Proves(d, RootOf(d, leaves), leaf, k) <=> leaf = LeafAt(leaves, k)
<1>1. k \in Nat /\ k < Capacity(d)
  BY CapacityDef
<1>2. ASSUME Proves(d, RootOf(d, leaves), leaf, k) PROVE leaf = LeafAt(leaves, k)
  <2>1. PICK s : ReadMerkleTreeProof(d, leaf, k, s) = RootOf(d, leaves)
    BY <1>2 DEF Proves
  <2>2. k % Capacity(d) = k
    <3>1. \A x, y \in Nat : x < y => x % y = x
      OBVIOUS
    <3>2. QED
      BY <1>1, <3>1, CapacityDef
  <2>3. QED
    BY <1>1, <2>1, <2>2, PathSound
<1>3. ASSUME leaf = LeafAt(leaves, k) PROVE Proves(d, RootOf(d, leaves), leaf, k)
  BY <1>3, PathComplete DEF Proves
<1>4. QED
  BY <1>2, <1>3

(* Whatever the index, which the code reads from the host and does not     *)
(* check, a leaf that is accepted is a leaf of the tree: the one at the    *)
(* index modulo the number of leaves.                                      *)
THEOREM ProofsAreSound ==
    ASSUME NEW d \in Nat, NEW leaves, NEW leaf, NEW k \in Nat,
           Proves(d, RootOf(d, leaves), leaf, k)
    PROVE  leaf = LeafAt(leaves, k % Capacity(d))
<1>1. PICK s : ReadMerkleTreeProof(d, leaf, k, s) = RootOf(d, leaves)
  BY DEF Proves
<1>2. QED
  BY <1>1, PathSound

-----------------------------------------------------------------------------
(* Nodes right of every leaf are roots of empty trees, where c bounds the  *)
(* leaves and, halved, what is above them.                                 *)
LEMMA NodesRight ==
    ASSUME NEW d \in Nat, NEW leaves, NEW c,
           \A i \in 0 .. d : c[i] \in Int,
           \A k \in Nat : k > c[0] => LeafAt(leaves, k) = EmptyData,
           \A i \in 0 .. d-1 : \A k \in Nat : k > c[i+1] => 2*k > c[i]
    PROVE  \A i \in 0 .. d : \A k \in 0 .. Capacity(d-i) - 1 :
              k > c[i] => Nodes(d, leaves)[i][k] = ZEROES[i]
<1> DEFINE node == Nodes(d, leaves)
           S    == {i \in 0 .. d : \A k \in 0 .. Capacity(d-i) - 1 :
                                      k > c[i] => node[i][k] = ZEROES[i]}
<1>1. /\ \A m \in 0 .. Capacity(d) - 1 : node[0][m] = LeafAt(leaves, m)
      /\ \A j \in 0 .. d-1 : \A m \in 0 .. Capacity(d-(j+1)) - 1 :
            node[j+1][m] = Hash(node[j][2*m], node[j][2*m + 1])
  BY NodesDef
<1>2. ZEROES[0] = EmptyData /\ \A i \in 0 .. d-1 : ZEROES[i+1] = Hash(ZEROES[i], ZEROES[i])
  BY ZeroesDef
<1> HIDE DEF node
<1>3. 0 \in S
  <2>1. d - 0 = d /\ Capacity(d) \in Nat
    BY CapacityDef
  <2>2. \A k \in 0 .. Capacity(d) - 1 : k \in Nat
    BY <2>1
  <2>3. QED
    BY <1>1, <1>2, <2>1, <2>2
<1>4. ASSUME NEW i \in 0 .. d-1, i \in S PROVE i + 1 \in S
  <2>1. i + 1 \in 0 .. d /\ i \in 0 .. d
    OBVIOUS
  <2>2. ASSUME NEW k \in 0 .. Capacity(d-(i+1)) - 1, k > c[i+1] PROVE node[i+1][k] = ZEROES[i+1]
    <3>1. Capacity(d-i) = 2 * Capacity(d-(i+1)) /\ Capacity(d-(i+1)) \in Nat
      BY CapacityBelow
    <3>2. k \in Nat /\ 2*k \in 0 .. Capacity(d-i) - 1 /\ 2*k + 1 \in 0 .. Capacity(d-i) - 1
      BY <3>1
    <3>3. 2*k > c[i] /\ 2*k + 1 > c[i]
      BY <2>1, <2>2, <3>2
    <3>4. node[i][2*k] = ZEROES[i] /\ node[i][2*k + 1] = ZEROES[i]
      BY <1>4, <3>2, <3>3
    <3>5. QED
      BY <1>1, <1>2, <3>4
  <2>3. QED
    BY <2>1, <2>2
<1>5. \A i \in 0 .. d : i \in S
  <2> HIDE DEF S
  <2>1. QED
    BY <1>3, <1>4, UpInduction
<1>6. QED
  BY <1>5 DEF node

(* Two lists have the same leaves before m; a list has none after m.       *)
SameBefore(L, M, m) == \A k \in Nat : k < m => LeafAt(M, k) = LeafAt(L, k)

EmptyAfter(M, m) == \A k \in Nat : k > m => LeafAt(M, k) = EmptyData

(* Appending a leaf leaves the leaves before it alone, and no leaf after.  *)
LEMMA AppendedLeaves ==
    ASSUME NEW T, NEW L \in Seq(T), NEW a \in T
    PROVE  /\ Len(L) \in Nat /\ Len(Append(L, a)) = Len(L) + 1
           /\ SameBefore(L, Append(L, a), Len(L))
           /\ LeafAt(Append(L, a), Len(L)) = a
           /\ EmptyAfter(Append(L, a), Len(L))
<1>1. Len(L) \in Nat /\ Len(Append(L, a)) = Len(L) + 1
  OBVIOUS
<1>2. ASSUME NEW k \in Nat, k < Len(L) PROVE LeafAt(Append(L, a), k) = LeafAt(L, k)
  <2>1. k + 1 \in 1 .. Len(L) /\ k < Len(Append(L, a))
    BY <1>1, <1>2
  <2>2. Append(L, a)[k+1] = L[k+1]
    BY <2>1
  <2>3. QED
    BY <1>2, <2>1, <2>2 DEF LeafAt
<1>3. LeafAt(Append(L, a), Len(L)) = a
  BY <1>1 DEF LeafAt
<1>4. \A k \in Nat : k > Len(L) => LeafAt(Append(L, a), k) = EmptyData
  BY <1>1 DEF LeafAt
<1>5. QED
  BY <1>1, <1>2, <1>3, <1>4 DEF SameBefore, EmptyAfter

(* Leaves up to m that are the same make the nodes left of m's path the    *)
(* same, ...                                                               *)
LEMMA NodesLeft ==
    ASSUME NEW d \in Nat, NEW L, NEW M, NEW m \in Nat,
           SameBefore(L, M, m)
    PROVE  \A i \in 0 .. d : \A k \in 0 .. Capacity(d-i) - 1 :
              k < LevelIndex(m)[i] => Nodes(d, M)[i][k] = Nodes(d, L)[i][k]
<1> DEFINE new == Nodes(d, M)
           old == Nodes(d, L)
           li  == LevelIndex(m)
           S   == {i \in 0 .. d : \A k \in 0 .. Capacity(d-i) - 1 :
                                     k < li[i] => new[i][k] = old[i][k]}
<1>1. /\ \A k \in 0 .. Capacity(d) - 1 : new[0][k] = LeafAt(M, k)
      /\ \A j \in 0 .. d-1 : \A k \in 0 .. Capacity(d-(j+1)) - 1 :
            new[j+1][k] = Hash(new[j][2*k], new[j][2*k + 1])
  BY NodesDef
<1>2. /\ \A k \in 0 .. Capacity(d) - 1 : old[0][k] = LeafAt(L, k)
      /\ \A j \in 0 .. d-1 : \A k \in 0 .. Capacity(d-(j+1)) - 1 :
            old[j+1][k] = Hash(old[j][2*k], old[j][2*k + 1])
  BY NodesDef
<1>4. li[0] = m /\ \A i \in Nat : li[i] \in Nat /\ li[i+1] = li[i] \div 2
  BY LevelIndexDef
<1> HIDE DEF new, old, li
<1>5. 0 \in S
  <2>1. d - 0 = d /\ Capacity(d) \in Nat
    BY CapacityDef
  <2>2. \A k \in 0 .. Capacity(d) - 1 : k \in Nat
    BY <2>1
  <2>3. QED
    BY <1>1, <1>2, <1>4, <2>1, <2>2 DEF SameBefore
<1>6. ASSUME NEW i \in 0 .. d-1, i \in S PROVE i + 1 \in S
  <2>1. i + 1 \in 0 .. d /\ i \in 0 .. d /\ i \in Nat
    OBVIOUS
  <2>2. ASSUME NEW k \in 0 .. Capacity(d-(i+1)) - 1, k < li[i+1] PROVE new[i+1][k] = old[i+1][k]
    <3>1. Capacity(d-i) = 2 * Capacity(d-(i+1)) /\ Capacity(d-(i+1)) \in Nat
      BY CapacityBelow
    <3>2. k \in Nat /\ 2*k \in 0 .. Capacity(d-i) - 1 /\ 2*k + 1 \in 0 .. Capacity(d-i) - 1
      BY <3>1
    <3>3. 2*k < li[i] /\ 2*k + 1 < li[i]
      <4>1. \A x, y \in Nat : y < x \div 2 => 2*y + 1 < x /\ 2*y < x
        OBVIOUS
      <4>2. QED
        BY <1>4, <2>1, <2>2, <3>2, <4>1
    <3>4. new[i][2*k] = old[i][2*k] /\ new[i][2*k + 1] = old[i][2*k + 1]
      BY <1>6, <3>2, <3>3
    <3>5. QED
      BY <1>1, <1>2, <3>4
  <2>3. QED
    BY <2>1, <2>2
<1>7. \A i \in 0 .. d : i \in S
  <2> HIDE DEF S
  <2>1. QED
    BY <1>5, <1>6, UpInduction
<1>8. QED
  BY <1>7 DEF new, old, li

(* ... and with no leaf after m there is no node right of its path.        *)
LEMMA NodesBeyond ==
    ASSUME NEW d \in Nat, NEW M, NEW m \in Nat,
           EmptyAfter(M, m)
    PROVE  \A i \in 0 .. d : \A k \in 0 .. Capacity(d-i) - 1 :
              k > LevelIndex(m)[i] => Nodes(d, M)[i][k] = ZEROES[i]
<1> DEFINE c == LevelIndex(m)
<1>2. c[0] = m /\ \A i \in Nat : c[i] \in Nat /\ c[i+1] = c[i] \div 2
  BY LevelIndexDef
<1> HIDE DEF c
<1>3. \A i \in 0 .. d : c[i] \in Int
  BY <1>2
<1>4. \A k \in Nat : k > c[0] => LeafAt(M, k) = EmptyData
  BY <1>2 DEF EmptyAfter
<1>5. \A i \in 0 .. d-1 : \A k \in Nat : k > c[i+1] => 2*k > c[i]
  <2>1. \A x, y \in Nat : y > x \div 2 => 2*y > x
    OBVIOUS
  <2>2. QED
    BY <1>2, <2>1
<1>6. \A i \in 0 .. d : \A k \in 0 .. Capacity(d-i) - 1 :
         k > c[i] => Nodes(d, M)[i][k] = ZEROES[i]
  BY <1>3, <1>4, <1>5, NodesRight
<1>7. QED
  BY <1>6 DEF c

(* The path of the next index is the same or one to the right.             *)
LEMMA LevelIndexNext ==
    ASSUME NEW m \in Nat
    PROVE  \A i \in Nat : LevelIndex(m+1)[i] \in {LevelIndex(m)[i], LevelIndex(m)[i] + 1}
<1> DEFINE p == LevelIndex(m)
           q == LevelIndex(m+1)
           S == {i \in Nat : q[i] \in {p[i], p[i] + 1}}
<1>1. p[0] = m /\ \A i \in Nat : p[i] \in Nat /\ p[i+1] = p[i] \div 2
  BY LevelIndexDef
<1>2. q[0] = m + 1 /\ \A i \in Nat : q[i] \in Nat /\ q[i+1] = q[i] \div 2
  BY LevelIndexDef
<1> HIDE DEF p, q
<1>3. 0 \in S
  BY <1>1, <1>2
<1>4. ASSUME NEW i \in Nat, i \in S PROVE i + 1 \in S
  <2>1. \A x \in Nat : (x + 1) \div 2 \in {x \div 2, x \div 2 + 1}
    OBVIOUS
  <2>2. p[i] \in Nat /\ p[i+1] = p[i] \div 2 /\ q[i+1] = q[i] \div 2 /\ q[i] \in {p[i], p[i] + 1}
    BY <1>1, <1>2, <1>4
  <2>3. q[i+1] \in {p[i+1], p[i+1] + 1}
    BY <2>1, <2>2
  <2>4. QED
    BY <2>3
<1>5. \A i \in Nat : i \in S
  <2> HIDE DEF S
  <2>1. QED
    BY <1>3, <1>4, SetInduction
<1>6. QED
  BY <1>5 DEF p, q

-----------------------------------------------------------------------------
(* What the remembered hashes are when m leaves are in the tree: where the *)
(* path of the next leaf goes through a right child, its left sibling.     *)
Remembers(d, filled, L, m) ==
    \A i \in 0 .. d-1 : ~ IsLeft(m, i) => filled[i] = Nodes(d, L)[i][LevelIndex(m)[i] - 1]

(* The tree t stands for the leaves L.                                     *)
Represents(d, t, L) ==
    /\ t.index = Len(L)
    /\ t.root = RootOf(d, L)
    /\ Remembers(d, t.filled_subtrees, L, Len(L))

(* The hashes that Add calculates are the nodes on the path of the leaf.   *)
LEMMA AddPath ==
    ASSUME NEW d \in Nat, NEW t, NEW L, NEW M, NEW m \in Nat, NEW a,
           m < Capacity(d), t.index = m, Remembers(d, t.filled_subtrees, L, m),
           SameBefore(L, M, m),
           LeafAt(M, m) = a,
           EmptyAfter(M, m)
    PROVE  \A i \in 0 .. d : PathOf(d, a, m, AddSiblings(d, t))[i] = Nodes(d, M)[i][LevelIndex(m)[i]]
<1> DEFINE s    == AddSiblings(d, t)
           p    == PathOf(d, a, m, s)
           node == Nodes(d, M)
           old  == Nodes(d, L)
           li   == LevelIndex(m)
           f    == t.filled_subtrees
           S    == {i \in 0 .. d : p[i] = node[i][li[i]]}
<1>0. m \in 0 .. Capacity(d) - 1
  BY CapacityDef
<1>1. p[0] = a /\ \A j \in 0 .. d-1 : p[j+1] = IF IsLeft(m, j) THEN Hash(p[j], s[j])
                                                               ELSE Hash(s[j], p[j])
  <2> HIDE DEF s
  <2>1. QED
    BY PathOfDef
<1>2. \A i \in 0 .. d-1 : s[i] = IF IsLeft(m, i) THEN ZEROES[i] ELSE f[i]
  BY DEF AddSiblings
<1>3. /\ \A k \in 0 .. Capacity(d) - 1 : node[0][k] = LeafAt(M, k)
      /\ \A j \in 0 .. d-1 : \A k \in 0 .. Capacity(d-(j+1)) - 1 :
            node[j+1][k] = Hash(node[j][2*k], node[j][2*k + 1])
  BY NodesDef
<1>4. li[0] = m /\ \A i \in Nat : li[i] \in Nat /\ li[i+1] = li[i] \div 2
  BY LevelIndexDef
<1>5. \A i \in 0 .. d : li[i] \in 0 .. Capacity(d-i) - 1
  BY <1>0, LevelIndexBound
<1>6. \A i \in 0 .. d-1 : IsLeft(m, i) <=> li[i] % 2 = 0
  BY DEF IsLeft
<1>7. \A i \in 0 .. d : \A k \in 0 .. Capacity(d-i) - 1 : k < li[i] => node[i][k] = old[i][k]
  BY NodesLeft
<1>8. \A i \in 0 .. d : \A k \in 0 .. Capacity(d-i) - 1 : k > li[i] => node[i][k] = ZEROES[i]
  BY NodesBeyond
<1>9. \A i \in 0 .. d-1 : ~ IsLeft(m, i) => f[i] = old[i][li[i] - 1]
  BY DEF Remembers
<1> HIDE DEF s, p, node, old, li, f
<1>10. 0 \in S
  BY <1>0, <1>1, <1>3, <1>4
<1>11. ASSUME NEW i \in 0 .. d-1, i \in S PROVE i + 1 \in S
  <2> DEFINE c == Capacity(d-(i+1))
             x == li[i]
             y == li[i+1]
  <2>1. i + 1 \in 0 .. d /\ i \in 0 .. d /\ i \in Nat
    OBVIOUS
  <2>2. Capacity(d-i) = 2 * c /\ c \in Nat
    BY CapacityBelow
  <2>3. x \in Nat /\ y = x \div 2 /\ x \in 0 .. 2 * c - 1 /\ y \in 0 .. c - 1
    BY <1>4, <1>5, <2>1, <2>2
  <2>4. node[i+1][y] = Hash(node[i][2*y], node[i][2*y + 1])
    BY <1>3, <2>3
  <2>5. p[i] = node[i][x] /\ (IsLeft(m, i) <=> x % 2 = 0)
    BY <1>6, <1>11
  <2>6. p[i+1] = IF IsLeft(m, i) THEN Hash(p[i], s[i]) ELSE Hash(s[i], p[i])
    BY <1>1
  <2>7. \A b \in Nat : \A z \in 0 .. 2*b - 1 :
           /\ z % 2 = 0 => z = 2 * (z \div 2) /\ z + 1 = 2 * (z \div 2) + 1 /\ z + 1 \in 0 .. 2*b - 1
           /\ z % 2 # 0 => z = 2 * (z \div 2) + 1 /\ z - 1 = 2 * (z \div 2) /\ z - 1 \in 0 .. 2*b - 1
    OBVIOUS
  <2>8. CASE IsLeft(m, i)
    <3>1. x = 2*y /\ x + 1 = 2*y + 1 /\ x + 1 \in 0 .. Capacity(d-i) - 1 /\ x + 1 > x
      <4> HIDE DEF c, x, y
      <4>1. QED
        BY <2>2, <2>3, <2>5, <2>7, <2>8
    <3>2. s[i] = ZEROES[i] /\ node[i][x+1] = ZEROES[i]
      BY <1>2, <1>8, <2>1, <2>8, <3>1
    <3>3. p[i+1] = Hash(node[i][x], node[i][x+1])
      BY <2>5, <2>6, <2>8, <3>2
    <3>4. p[i+1] = node[i+1][y]
      BY <2>4, <3>1, <3>3
    <3>5. QED
      BY <2>1, <3>4
  <2>9. CASE ~ IsLeft(m, i)
    <3>1. x = 2*y + 1 /\ x - 1 = 2*y /\ x - 1 \in 0 .. Capacity(d-i) - 1 /\ x - 1 < x
      <4> HIDE DEF c, x, y
      <4>1. QED
        BY <2>2, <2>3, <2>5, <2>7, <2>9
    <3>2. s[i] = old[i][x-1] /\ node[i][x-1] = old[i][x-1]
      BY <1>2, <1>7, <1>9, <2>1, <2>9, <3>1
    <3>3. p[i+1] = Hash(node[i][x-1], node[i][x])
      BY <2>5, <2>6, <2>9, <3>2
    <3>4. p[i+1] = node[i+1][y]
      BY <2>4, <3>1, <3>3
    <3>5. QED
      BY <2>1, <3>4
  <2>10. QED
    BY <2>8, <2>9
<1>12. \A i \in 0 .. d : i \in S
  <2> HIDE DEF S
  <2>1. QED
    BY <1>10, <1>11, UpInduction
<1>13. QED
  BY <1>12 DEF p, s, node, li

(* What Add remembers, for the leaf after the one it adds.                 *)
LEMMA AddRemembers ==
    ASSUME NEW d \in Nat, NEW filled, NEW level, NEW L, NEW M, NEW m \in Nat,
           m < Capacity(d), Remembers(d, filled, L, m),
           SameBefore(L, M, m),
           \A i \in 0 .. d : level[i] = Nodes(d, M)[i][LevelIndex(m)[i]]
    PROVE  Remembers(d, [i \in 0 .. d-1 |-> IF IsLeft(m, i) THEN level[i] ELSE filled[i]],
                     M, m + 1)
<1> DEFINE node == Nodes(d, M)
           old  == Nodes(d, L)
           p    == LevelIndex(m)
           q    == LevelIndex(m+1)
           new  == [i \in 0 .. d-1 |-> IF IsLeft(m, i) THEN level[i] ELSE filled[i]]
<1>1. \A i \in Nat : p[i] \in Nat /\ q[i] \in {p[i], p[i] + 1}
  BY LevelIndexDef, LevelIndexNext
<1>2. \A i \in Nat : /\ IsLeft(m, i) <=> p[i] % 2 = 0
                     /\ IsLeft(m+1, i) <=> q[i] % 2 = 0
  BY DEF IsLeft
<1>3. \A i \in 0 .. d : \A k \in 0 .. Capacity(d-i) - 1 : k < p[i] => node[i][k] = old[i][k]
  BY NodesLeft
<1>4. \A i \in 0 .. d-1 : ~ IsLeft(m, i) => filled[i] = old[i][p[i] - 1]
  BY DEF Remembers
<1>5. \A i \in 0 .. d : p[i] \in 0 .. Capacity(d-i) - 1
  <2>1. m \in 0 .. Capacity(d) - 1
    BY CapacityDef
  <2>2. QED
    BY <2>1, LevelIndexBound
<1>6. \A i \in 0 .. d : level[i] = node[i][p[i]]
  OBVIOUS
<1>7. \A i \in 0 .. d-1 : new[i] = IF IsLeft(m, i) THEN level[i] ELSE filled[i]
  OBVIOUS
<1> HIDE DEF node, old, p, q, new
<1>8. ASSUME NEW i \in 0 .. d-1, ~ IsLeft(m+1, i) PROVE new[i] = node[i][q[i] - 1]
  <2>1. i \in Nat /\ i \in 0 .. d /\ p[i] \in Nat
    BY <1>1
  <2>2. \A x \in Nat : x % 2 # 0 => (x + 1) % 2 = 0
    OBVIOUS
  <2>3. \A x \in Nat : (x + 1) - 1 = x
    OBVIOUS
  <2>4. CASE q[i] = p[i] + 1
    <3>1. IsLeft(m, i) /\ q[i] - 1 = p[i]
      BY <1>2, <1>8, <2>1, <2>2, <2>3, <2>4
    <3>2. QED
      BY <1>6, <1>7, <2>1, <3>1
  <2>5. CASE q[i] = p[i]
    <3>1. ~ IsLeft(m, i)
      BY <1>2, <1>8, <2>1, <2>5
    <3>2. p[i] - 1 \in 0 .. Capacity(d-i) - 1 /\ p[i] - 1 < p[i]
      <4>1. p[i] # 0
        BY <1>2, <2>1, <3>1
      <4>2. \A c \in Int : \A x \in 0 .. c : x # 0 => x - 1 \in 0 .. c /\ x - 1 < x
        OBVIOUS
      <4>3. d - i \in Nat /\ Capacity(d-i) - 1 \in Int
        BY CapacityDef
      <4>4. QED
        BY <1>5, <2>1, <4>1, <4>2, <4>3
    <3>3. QED
      BY <1>3, <1>4, <1>7, <2>1, <2>5, <3>1, <3>2
  <2>6. QED
    BY <1>1, <2>1, <2>4, <2>5
<1>9. QED
  BY <1>8 DEF Remembers, new, node, q

(* Adding a leaf while there is room appends it to what the tree stands    *)
(* for.                                                                    *)
THEOREM AddRepresents ==
    ASSUME NEW d \in Nat, NEW T, NEW L \in Seq(T), NEW a \in T, NEW t,
           Represents(d, t, L), Len(L) < Capacity(d)
    PROVE  Represents(d, Add(d, t, a), Append(L, a))
<1> DEFINE m     == Len(L)
           M     == Append(L, a)
           level == PathOf(d, a, m, AddSiblings(d, t))
           f     == [i \in 0 .. d-1 |-> IF IsLeft(m, i) THEN level[i] ELSE t.filled_subtrees[i]]
<1>1. /\ m \in Nat /\ Len(M) = m + 1
      /\ SameBefore(L, M, m)
      /\ LeafAt(M, m) = a
      /\ EmptyAfter(M, m)
  BY AppendedLeaves
<1>2. t.index = m /\ Remembers(d, t.filled_subtrees, L, m) /\ m < Capacity(d)
  BY DEF Represents
<1>3. /\ Add(d, t, a).index = m + 1
      /\ Add(d, t, a).root = level[d]
      /\ Add(d, t, a).filled_subtrees = f
  BY <1>2 DEF Add
<1>4. \A i \in 0 .. d : level[i] = Nodes(d, M)[i][LevelIndex(m)[i]]
  <2> HIDE DEF m, M
  <2>1. QED
    BY <1>1, <1>2, AddPath
<1>5. level[d] = RootOf(d, M)
  <2>1. m \in 0 .. Capacity(d) - 1
    BY <1>1, <1>2, CapacityDef
  <2>2. LevelIndex(m)[d] = 0
    BY <2>1, LevelIndexBound
  <2>3. QED
    BY <1>4, <2>2 DEF RootOf
<1>6. Remembers(d, f, M, m + 1)
  <2> DEFINE filled == t.filled_subtrees
  <2>1. Remembers(d, filled, L, m)
    BY <1>2
  <2>2. f = [i \in 0 .. d-1 |-> IF IsLeft(m, i) THEN level[i] ELSE filled[i]]
    OBVIOUS
  <2> HIDE DEF m, M, level, filled, f
  <2>3. QED
    BY <1>1, <1>2, <1>4, <2>1, <2>2, AddRemembers
<1> HIDE DEF f, level, M, m
<1>7. Len(M) = m + 1
  BY <1>1
<1>8. QED
  BY <1>3, <1>5, <1>6, <1>7 DEF Represents, M, m

(* A new tree stands for no leaves.                                        *)
THEOREM NewTreeRepresents ==
    ASSUME NEW d \in Nat
    PROVE  Represents(d, NewTree(d), <<>>)
<1> DEFINE c == [i \in 0 .. d |-> -1]
<1>1. NewTree(d).index = 0 /\ NewTree(d).root = ZEROES[d]
  BY DEF NewTree
<1>2. Len(<<>>) = 0
  OBVIOUS
<1>3. Nodes(d, <<>>)[d][0] = ZEROES[d]
  <2>1. \A i \in 0 .. d : c[i] \in Int
    OBVIOUS
  <2>2. \A k \in Nat : k > c[0] => LeafAt(<<>>, k) = EmptyData
    BY <1>2 DEF LeafAt
  <2>3. \A i \in 0 .. d-1 : \A k \in Nat : k > c[i+1] => 2*k > c[i]
    OBVIOUS
  <2>4. d \in 0 .. d /\ 0 \in 0 .. Capacity(d-d) - 1 /\ 0 > c[d]
    BY CapacityDef
  <2> HIDE DEF c
  <2>5. QED
    BY <2>1, <2>2, <2>3, <2>4, NodesRight
<1>4. \A i \in Nat : LevelIndex(0)[i] = 0
  <2> DEFINE S == {i \in Nat : LevelIndex(0)[i] = 0}
  <2>1. 0 \in S
    BY LevelIndexDef
  <2>2. ASSUME NEW i \in Nat, i \in S PROVE i + 1 \in S
    <3>1. LevelIndex(0)[i+1] = LevelIndex(0)[i] \div 2
      BY LevelIndexDef
    <3>2. LevelIndex(0)[i+1] = 0
      BY <2>2, <3>1
    <3>3. QED
      BY <3>2
  <2>3. \A i \in Nat : i \in S
    <3> HIDE DEF S
    <3>1. QED
      BY <2>1, <2>2, SetInduction
  <2>4. QED
    BY <2>3
<1>5. \A i \in 0 .. d-1 : IsLeft(0, i)
  BY <1>4 DEF IsLeft
<1>6. Remembers(d, NewTree(d).filled_subtrees, <<>>, 0)
  BY <1>5 DEF Remembers
<1>7. QED
  BY <1>1, <1>2, <1>3, <1>6 DEF Represents, RootOf
=============================================================================
