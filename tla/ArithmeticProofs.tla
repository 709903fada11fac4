-------------------------- MODULE ArithmeticProofs --------------------------
(***************************************************************************)
(* Induction on the natural numbers, in a form that first-order provers    *)
(* can use: the property is a set of numbers.  Existence of recursively    *)
(* defined functions follows from it case by case, and with it what powers *)
(* are.                                                                    *)
(***************************************************************************)
EXTENDS Arithmetic, FiniteSetTheorems, WellFoundedInduction, TLAPS

(* A set of numbers that is not empty has a least element: of the          *)
(* intervals 0 .. x, which are finite, one has no other below it.          *)
LEMMA LeastNumber ==
    ASSUME NEW T, T \subseteq Nat, T # {}
    PROVE  \E x \in T : \A y \in T : x <= y
<1> DEFINE F == {0 .. x : x \in T}
<1>1. F \subseteq FiniteSubsetsOf(Nat) /\ F # {}
  <2>1. \A x \in T : 0 .. x \in SUBSET Nat /\ IsFiniteSet(0 .. x)
    BY FS_Interval
  <2>2. QED
    BY <2>1 DEF FiniteSubsetsOf
<1>2. IsWellFoundedOn(StrictSubsetOrdering(Nat), FiniteSubsetsOf(Nat))
  BY FS_StrictSubsetOrderingWellFounded
<1>3. PICK I \in F : \A J \in F : ~ (<<J, I>> \in StrictSubsetOrdering(Nat))
  <2> HIDE DEF F
  <2>1. QED
    BY <1>1, <1>2, WFMin
<1>4. PICK x \in T : I = 0 .. x
  OBVIOUS
<1>5. ASSUME NEW y \in T, y < x PROVE FALSE
  <2>1. 0 .. y \in F /\ 0 .. y \subseteq I /\ x \in I /\ x \notin 0 .. y
    BY <1>4, <1>5
  <2>2. I \in SUBSET Nat /\ 0 .. y \in SUBSET Nat
    BY <1>4
  <2>3. <<0 .. y, I>> \in StrictSubsetOrdering(Nat)
    BY <2>1, <2>2 DEF StrictSubsetOrdering
  <2>4. QED
    BY <1>3, <2>1, <2>3
<1>6. QED
  BY <1>5

(* A set with 0 and the successor of each of its numbers has all of them.  *)
LEMMA SetInduction ==
    ASSUME NEW S, 0 \in S, \A n \in Nat : n \in S => n + 1 \in S
    PROVE  \A n \in Nat : n \in S
<1> DEFINE T == {n \in Nat : n \notin S}
<1>1. CASE T = {}
  BY <1>1
<1>2. CASE T # {}
  <2>1. PICK x \in T : \A y \in T : x <= y
    <3>1. T \subseteq Nat
      OBVIOUS
    <3> HIDE DEF T
    <3>2. QED
      BY <1>2, <3>1, LeastNumber
  <2>2. x # 0 /\ x \in Nat
    OBVIOUS
  <2>3. x - 1 \in Nat /\ x - 1 \notin T
    BY <2>1, <2>2
  <2>4. QED
    BY <2>2, <2>3
<1>3. QED
  BY <1>1, <1>2

(* The same from 0 to d, ...                                               *)
LEMMA UpInduction ==
    ASSUME NEW d \in Nat, NEW S, 0 \in S,
           \A n \in 0 .. d-1 : n \in S => n + 1 \in S
    PROVE  \A n \in 0 .. d : n \in S
<1> DEFINE T == {n \in Nat : n <= d => n \in S}
<1>1. 0 \in T
  OBVIOUS
<1>2. \A n \in Nat : n \in T => n + 1 \in T
  OBVIOUS
<1>3. \A n \in Nat : n \in T
  <2> HIDE DEF T
  <2>1. QED
    BY <1>1, <1>2, SetInduction
<1>4. QED
  BY <1>3

(* ... and from d down to 0.                                               *)
LEMMA DownInduction ==
    ASSUME NEW d \in Nat, NEW S, d \in S,
           \A n \in 1 .. d : n \in S => n - 1 \in S
    PROVE  \A n \in 0 .. d : n \in S
<1> DEFINE T == {n \in Nat : n <= d => d - n \in S}
<1>1. 0 \in T
  OBVIOUS
<1>2. ASSUME NEW n \in Nat, n \in T PROVE n + 1 \in T
  <2> SUFFICES ASSUME n + 1 <= d PROVE d - (n + 1) \in S
    OBVIOUS
  <2>1. d - n \in 1 .. d /\ d - n \in S
    BY <1>2
  <2>2. (d - n) - 1 \in S
    BY <2>1
  <2>3. (d - n) - 1 = d - (n + 1)
    OBVIOUS
  <2>4. QED
    BY <2>2, <2>3
<1>3. \A n \in Nat : n \in T
  <2> HIDE DEF T
  <2>1. QED
    BY <1>1, <1>2, SetInduction
<1>4. ASSUME NEW n \in 0 .. d PROVE n \in S
  <2>1. d - n \in Nat /\ d - n <= d /\ d - (d - n) = n
    OBVIOUS
  <2>2. d - n \in T
    BY <1>3, <2>1
  <2>3. QED
    BY <2>1, <2>2
<1>5. QED
  BY <1>4

-----------------------------------------------------------------------------
(* What recursion is by: a first value, and a value from the one before.   *)
Steps(V, c, F) == c \in V /\ F \in [Nat \X V -> V]

(* A function on the numbers up to n that starts with c and goes on by F.  *)
Prefix(g, n, V, c, F) ==
    /\ g \in [0 .. n -> V]
    /\ g[0] = c
    /\ \A i \in 0 .. n-1 : g[i+1] = F[<<i, g[i]>>]

(* Two such functions agree as far as both go.                             *)
LEMMA PrefixUnique ==
    ASSUME NEW V, NEW c, NEW F, Steps(V, c, F), NEW m \in Nat, NEW n \in Nat,
           NEW g, NEW h, m <= n, Prefix(g, m, V, c, F), Prefix(h, n, V, c, F)
    PROVE  \A i \in 0 .. m : g[i] = h[i]
<1> DEFINE S == {i \in 0 .. m : g[i] = h[i]}
<1>1. 0 \in S
  BY DEF Prefix
<1>2. ASSUME NEW i \in 0 .. m-1, i \in S PROVE i + 1 \in S
  <2>1. i \in 0 .. n-1 /\ i + 1 \in 0 .. m /\ g[i] = h[i]
    BY <1>2
  <2>2. g[i+1] = F[<<i, g[i]>>] /\ h[i+1] = F[<<i, h[i]>>]
    BY <2>1 DEF Prefix
  <2>3. QED
    BY <2>1, <2>2
<1>3. \A i \in 0 .. m : i \in S
  <2> HIDE DEF S
  <2>1. QED
    BY <1>1, <1>2, UpInduction
<1>4. QED
  BY <1>3

(* There is one for every n.                                               *)
LEMMA PrefixExists ==
    ASSUME NEW V, NEW c, NEW F, Steps(V, c, F)
    PROVE  \A n \in Nat : \E g : Prefix(g, n, V, c, F)
<1> DEFINE S == {n \in Nat : \E g : Prefix(g, n, V, c, F)}
<1>1. 0 \in S
  <2>1. Prefix([i \in 0 .. 0 |-> c], 0, V, c, F)
    BY DEF Prefix, Steps
  <2>2. QED
    BY <2>1
<1>2. ASSUME NEW n \in Nat, n \in S PROVE n + 1 \in S
  <2>1. PICK g : Prefix(g, n, V, c, F)
    BY <1>2
  <2> DEFINE h == [i \in 0 .. n + 1 |-> IF i = n + 1 THEN F[<<n, g[n]>>] ELSE g[i]]
  <2>2. g[n] \in V /\ <<n, g[n]>> \in Nat \X V
    BY <2>1 DEF Prefix
  <2>3. F[<<n, g[n]>>] \in V
    BY <2>2 DEF Steps
  <2>4. h \in [0 .. n + 1 -> V]
    BY <2>1, <2>3 DEF Prefix
  <2>5. h[0] = c
    BY <2>1 DEF Prefix
  <2>6. ASSUME NEW i \in 0 .. n PROVE h[i+1] = F[<<i, h[i]>>]
    <3>1. h[i] = g[i] /\ i + 1 \in 0 .. n + 1
      OBVIOUS
    <3>2. CASE i = n
      <4>1. h[i+1] = F[<<n, g[n]>>]
        BY <3>1, <3>2
      <4>2. QED
        BY <3>1, <3>2, <4>1
    <3>3. CASE i # n
      BY <2>1, <3>1, <3>3 DEF Prefix
    <3>4. QED
      BY <3>2, <3>3
  <2> HIDE DEF h
  <2>7. Prefix(h, n + 1, V, c, F)
    BY <2>4, <2>5, <2>6 DEF Prefix
  <2>8. QED
    BY <2>7
<1>3. \A n \in Nat : n \in S
  <2> HIDE DEF S
  <2>1. QED
    BY <1>1, <1>2, SetInduction
<1>4. QED
  BY <1>3

(* Definition by recursion on the natural numbers.                         *)
LEMMA NatRecursion ==
    ASSUME NEW V, NEW c, NEW F, Steps(V, c, F)
    PROVE  \E f \in [Nat -> V] : f[0] = c /\ \A n \in Nat : f[n+1] = F[<<n, f[n]>>]
<1> DEFINE G(n) == CHOOSE g : Prefix(g, n, V, c, F)
           f == [n \in Nat |-> G(n)[n]]
<1>1. \A n \in Nat : Prefix(G(n), n, V, c, F)
  BY PrefixExists
<1> HIDE DEF G
<1>2. f \in [Nat -> V]
  BY <1>1 DEF Prefix
<1>3. f[0] = c
  BY <1>1 DEF Prefix
<1>4. ASSUME NEW n \in Nat PROVE f[n+1] = F[<<n, f[n]>>]
  <2>1. Prefix(G(n), n, V, c, F) /\ Prefix(G(n+1), n+1, V, c, F)
    BY <1>1
  <2>2. G(n)[n] = G(n+1)[n]
    <3> DEFINE g == G(n)
               h == G(n+1)
               m == n + 1
    <3>1. m \in Nat /\ n <= m /\ n \in 0 .. n
      OBVIOUS
    <3>2. Prefix(g, n, V, c, F) /\ Prefix(h, m, V, c, F)
      BY <2>1
    <3>3. \A i \in 0 .. n : g[i] = h[i]
      <4> HIDE DEF g, h, m
      <4>1. QED
        BY <3>1, <3>2, PrefixUnique
    <3>4. QED
      BY <3>1, <3>3
  <2>3. G(n+1)[n+1] = F[<<n, G(n+1)[n]>>]
    BY <2>1 DEF Prefix
  <2>4. f[n] = G(n)[n] /\ f[n+1] = G(n+1)[n+1]
    OBVIOUS
  <2> HIDE DEF f
  <2>5. QED
    BY <2>2, <2>3, <2>4
<1>5. QED
  BY <1>2, <1>3, <1>4

-----------------------------------------------------------------------------
(* Powers of a positive number: how they go on, and that they are positive.*)
LEMMA PowerDef ==
    ASSUME NEW b \in Nat \ {0}
    PROVE  /\ Power(b)[0] = 1
           /\ \A e \in Nat : Power(b)[e] \in Nat \ {0} /\ Power(b)[e+1] = b * Power(b)[e]
<1> DEFINE V == Nat \ {0}
           F == [x \in Nat \X V |-> b * x[2]]
           Body(p) == [e \in Nat |-> IF e = 0 THEN 1 ELSE b * p[e-1]]
<1>1. Steps(V, 1, F)
  <2>1. \A x \in V : b * x \in V
    OBVIOUS
  <2>2. QED
    BY <2>1 DEF Steps
<1>2. PICK f \in [Nat -> V] : f[0] = 1 /\ \A n \in Nat : f[n+1] = F[<<n, f[n]>>]
  <2> HIDE DEF F, V
  <2>1. \E f \in [Nat -> V] : f[0] = 1 /\ \A n \in Nat : f[n+1] = F[<<n, f[n]>>]
    BY <1>1, NatRecursion
  <2>2. QED
    BY <2>1
<1>3. f[0] = 1 /\ \A n \in Nat : f[n+1] = b * f[n]
  BY <1>2
<1>4. f = Body(f)
  <2>1. ASSUME NEW e \in Nat PROVE f[e] = IF e = 0 THEN 1 ELSE b * f[e-1]
    <3>1. CASE e = 0
      BY <1>3, <3>1
    <3>2. CASE e # 0
      <4>1. e - 1 \in Nat /\ (e - 1) + 1 = e
        BY <3>2
      <4>2. QED
        BY <1>3, <3>2, <4>1
    <3>3. QED
      BY <3>1, <3>2
  <2>2. f = [e \in Nat |-> f[e]]
    BY <1>2
  <2>3. QED
    BY <2>1, <2>2
<1>5. Power(b) = Body(Power(b))
  <2>1. Power(b) = CHOOSE p : p = Body(p)
    BY DEF Power
  <2> HIDE DEF Body
  <2>2. QED
    BY <1>4, <2>1
<1>6. Power(b)[0] = 1 /\ \A e \in Nat : Power(b)[e+1] = b * Power(b)[e]
  <2> DEFINE p == Power(b)
  <2>1. p = [e \in Nat |-> IF e = 0 THEN 1 ELSE b * p[e-1]]
    BY <1>5
  <2> HIDE DEF p
  <2>2. p[0] = 1
    BY <2>1
  <2>3. ASSUME NEW e \in Nat PROVE p[e+1] = b * p[e]
    <3>1. e + 1 \in Nat /\ e + 1 # 0 /\ (e + 1) - 1 = e
      OBVIOUS
    <3>2. p[e+1] = IF e + 1 = 0 THEN 1 ELSE b * p[(e+1)-1]
      BY <2>1, <3>1
    <3>3. QED
      BY <3>1, <3>2
  <2>4. QED
    BY <2>2, <2>3 DEF p
<1>7. \A e \in Nat : Power(b)[e] \in Nat \ {0}
  <2> DEFINE S == {e \in Nat : Power(b)[e] \in Nat \ {0}}
  <2>1. 0 \in S
    BY <1>6
  <2>2. ASSUME NEW e \in Nat, e \in S PROVE e + 1 \in S
    <3>1. \A x \in Nat \ {0} : b * x \in Nat \ {0}
      OBVIOUS
    <3>2. QED
      BY <1>6, <2>2, <3>1
  <2>3. \A e \in Nat : e \in S
    <3> HIDE DEF S
    <3>1. QED
      BY <2>1, <2>2, SetInduction
  <2>4. QED
    BY <2>3
<1>8. QED
  BY <1>6, <1>7

(* Larger exponents, larger powers.                                        *)
LEMMA PowerMonotonic ==
    ASSUME NEW b \in Nat \ {0}, NEW e \in Nat
    PROVE  \A k \in Nat : Power(b)[e] <= Power(b)[e+k]
<1> DEFINE S == {k \in Nat : Power(b)[e] <= Power(b)[e+k]}
<1>1. 0 \in S
  <2>1. e + 0 = e /\ Power(b)[e] \in Nat
    BY PowerDef
  <2>2. QED
    BY <2>1
<1>2. ASSUME NEW k \in Nat, k \in S PROVE k + 1 \in S
  <2>1. e + (k + 1) = (e + k) + 1 /\ e + k \in Nat
    OBVIOUS
  <2>2. Power(b)[(e+k)+1] = b * Power(b)[e+k] /\ Power(b)[e+k] \in Nat /\ Power(b)[e] \in Nat
    BY <2>1, PowerDef
  <2>3. \A x, y \in Nat : x <= y => x <= b * y
    OBVIOUS
  <2>4. Power(b)[e] <= Power(b)[e+(k+1)]
    BY <1>2, <2>1, <2>2, <2>3
  <2>5. QED
    BY <2>4
<1>3. \A k \in Nat : k \in S
  <2> HIDE DEF S
  <2>1. QED
    BY <1>1, <1>2, SetInduction
<1>4. QED
  BY <1>3

(* Quotient and remainder are what they should be, ...                     *)
LEMMA DivMod ==
    ASSUME NEW x \in Nat, NEW b \in Nat \ {0}
    PROVE  x \div b \in Nat /\ x % b \in 0 .. b - 1 /\ x = b * (x \div b) + (x % b)
OBVIOUS

(* ... and nothing else is.                                                *)
LEMMA DivUnique ==
    ASSUME NEW x \in Nat, NEW b \in Nat \ {0}, NEW q \in Nat, NEW r \in 0 .. b - 1,
           x = b * q + r
    PROVE  x \div b = q /\ x % b = r
<1> DEFINE p == x \div b
           s == x % b
<1>1. p \in Nat /\ s \in 0 .. b - 1 /\ x = b * p + s
  BY DivMod
<1> HIDE DEF p, s
<1>2. \A y, z \in Nat : y < z => b * y + b <= b * z
  <2>1. \A y, z \in Nat : y < z => z = y + 1 + (z - y - 1) /\ z - y - 1 \in Nat
    OBVIOUS
  <2>2. \A y, w \in Nat : b * (y + 1 + w) = b * y + b + b * w /\ b * w \in Nat /\ b * y \in Nat
    OBVIOUS
  <2>3. SUFFICES ASSUME NEW y \in Nat, NEW z \in Nat, y < z PROVE b * y + b <= b * z
    OBVIOUS
  <2> DEFINE w == z - y - 1
  <2>4. z = y + 1 + w /\ w \in Nat
    BY <2>1, <2>3
  <2> HIDE DEF w
  <2>5. b * z = b * y + b + b * w /\ b * w \in Nat /\ b * y \in Nat
    BY <2>2, <2>4
  <2>6. QED
    BY <2>5
<1>3. b * p \in Nat /\ b * q \in Nat
  BY <1>1
<1>4. ~ (p < q)
  <2>1. p < q => b * p + b <= b * q
    BY <1>1, <1>2
  <2> DEFINE bp == b * p
             bq == b * q
  <2>2. x = bp + s /\ x = bq + r /\ bp \in Nat /\ bq \in Nat /\ (p < q => bp + b <= bq)
    BY <1>1, <1>3, <2>1
  <2> HIDE DEF bp, bq
  <2>3. QED
    BY <1>1, <2>2
<1>5. ~ (q < p)
  <2>1. q < p => b * q + b <= b * p
    BY <1>1, <1>2
  <2> DEFINE bp == b * p
             bq == b * q
  <2>2. x = bp + s /\ x = bq + r /\ bp \in Nat /\ bq \in Nat /\ (q < p => bq + b <= bp)
    BY <1>1, <1>3, <2>1
  <2> HIDE DEF bp, bq
  <2>3. QED
    BY <1>1, <2>2
<1>6. p = q
  BY <1>1, <1>4, <1>5
<1>7. s = r
  <2> DEFINE bq == b * q
  <2>1. x = bq + s /\ x = bq + r /\ bq \in Nat
    BY <1>1, <1>3, <1>6
  <2> HIDE DEF bq
  <2>2. QED
    BY <1>1, <2>1
<1>8. QED
  BY <1>6, <1>7 DEF p, s

(* Dividing twice is dividing by the square.                               *)
LEMMA DivTwice ==
    ASSUME NEW x \in Nat, NEW b \in Nat \ {0}
    PROVE  x \div (b * b) = (x \div b) \div b
<1> DEFINE y == x \div b
           r == x % b
           z == y \div b
           s == y % b
           c == b * b
           t == b * s + r
<1>1. y \in Nat /\ r \in 0 .. b - 1 /\ x = b * y + r
  BY DivMod
<1> HIDE DEF y, r
<1>2. z \in Nat /\ s \in 0 .. b - 1 /\ y = b * z + s
  BY <1>1, DivMod
<1> HIDE DEF z, s
<1>3. c \in Nat \ {0}
  OBVIOUS
<1>4. x = c * z + t
  <2>1. \A m, k, l : m \in Nat /\ k \in Nat /\ l \in Nat => b * (b * m + k) + l = (b * b) * m + (b * k + l)
    OBVIOUS
  <2>2. QED
    BY <1>1, <1>2, <2>1
<1>5. t \in 0 .. c - 1
  <2>1. b * s <= b * (b - 1) /\ b * s \in Nat
    BY <1>2
  <2>2. b * (b - 1) = c - b
    OBVIOUS
  <2> DEFINE bs == b * s
  <2>3. bs <= c - b /\ bs \in Nat /\ t = bs + r /\ c \in Nat
    BY <1>3, <2>1, <2>2
  <2> HIDE DEF bs, c, t
  <2>4. QED
    BY <1>1, <2>3
<1> HIDE DEF c, t
<1>6. x \div c = z
  BY <1>2, <1>3, <1>4, <1>5, DivUnique
<1>7. QED
  BY <1>6 DEF c, z, y

(* No power of b is a multiple of a number b * q + 1 that is more than 1:  *)
(* the other factor would be a multiple of b, and the power before it      *)
(* would be one as well.                                                   *)
LEMMA NotMultiple ==
    ASSUME NEW b \in Nat \ {0}, NEW q \in Nat \ {0}
    PROVE  \A e \in Nat : \A c \in Nat : Power(b)[e] # (b * q + 1) * c
<1> DEFINE m == b * q + 1
           S == {e \in Nat : \A c \in Nat : Power(b)[e] # m * c}
<1>1. m \in Nat /\ m > 1
  <2>1. \A x, y \in Nat \ {0} : x * y \in Nat /\ x * y > 0
    OBVIOUS
  <2>2. QED
    BY <2>1
<1>2. 0 \in S
  <2>1. Power(b)[0] = 1
    BY PowerDef
  <2>2. \A x, c \in Nat : x > 1 => x * c # 1
    OBVIOUS
  <2> HIDE DEF m
  <2>3. QED
    BY <1>1, <2>1, <2>2
<1>3. ASSUME NEW e \in Nat, e \in S PROVE e + 1 \in S
  <2> SUFFICES ASSUME NEW c \in Nat, Power(b)[e+1] = m * c PROVE FALSE
    OBVIOUS
  <2> DEFINE P == Power(b)[e]
             d == P - q * c
  <2>1. P \in Nat /\ b * P = (b * q + 1) * c
    BY PowerDef
  <2> HIDE DEF P
  <2>2. b * d = c
    BY <2>1
  <2>3. d \in Int
    BY <2>1
  <2>4. P = d + q * c
    BY <2>1
  <2> HIDE DEF d
  <2>5. d \in Nat
    <3>1. \A x \in Int : b * x >= 0 => x >= 0
      OBVIOUS
    <3>2. QED
      BY <2>2, <2>3, <3>1
  <2>6. P = d + q * (b * d)
    BY <2>2, <2>4
  <2>7. q * (b * d) = (b * q) * d /\ (b * q + 1) * d = (b * q) * d + d
    BY <2>5
  <2>8. P = (b * q + 1) * d
    BY <2>5, <2>6, <2>7
  <2>9. QED
    BY <1>3, <2>5, <2>8 DEF P
<1>4. \A e \in Nat : e \in S
  <2> HIDE DEF S
  <2>1. QED
    BY <1>2, <1>3, SetInduction
<1>5. QED
  BY <1>4

-----------------------------------------------------------------------------
(* The sum of a list.  SumFunction adds in an order that is not specified, *)
(* so any order gives it: it is what the partial sums end with.            *)

(* p: the sums of the first numbers of f, of n.                            *)
PartialSums(p, f, n) ==
    p \in [0 .. n -> Int] /\ p[0] = 0 /\ \A j \in 0 .. n-1 : p[j+1] = p[j] + f[j+1]

(* The same, of the numbers with an index in s.                            *)
Term(f, s, k) == IF k \in s THEN f[k] ELSE 0
SumsOver(p, f, s) ==
    p \in [Nat -> Int] /\ p[0] = 0 /\ \A j \in Nat : p[j+1] = p[j] + Term(f, s, j+1)

(* A list of n numbers, and a set of indices.                              *)
Numbers(f, n)    == n \in Nat /\ f \in [1 .. n -> Int]
Indices(s, n)    == s \in SUBSET (1 .. n)
SumOver(f, s, n) == (CHOOSE p : SumsOver(p, f, s))[n]

LEMMA SumsOverExist ==
    ASSUME NEW f, NEW n, NEW s, Numbers(f, n), Indices(s, n)
    PROVE  SumsOver(CHOOSE p : SumsOver(p, f, s), f, s)
<1> DEFINE F == [x \in Nat \X Int |-> x[2] + Term(f, s, x[1] + 1)]
<1>1. \A k \in Nat : Term(f, s, k) \in Int
  BY DEF Numbers, Indices, Term
<1>2. Steps(Int, 0, F)
  <2>1. \A k \in Nat, x \in Int : x + Term(f, s, k + 1) \in Int
    BY <1>1
  <2>2. QED
    BY <2>1 DEF Steps
<1>3. PICK p \in [Nat -> Int] : p[0] = 0 /\ \A j \in Nat : p[j+1] = F[<<j, p[j]>>]
  <2> HIDE DEF F
  <2>1. \E p \in [Nat -> Int] : p[0] = 0 /\ \A j \in Nat : p[j+1] = F[<<j, p[j]>>]
    BY <1>2, NatRecursion
  <2>2. QED
    BY <2>1
<1>4. SumsOver(p, f, s)
  BY <1>3 DEF SumsOver
<1>5. QED
  BY <1>4

(* Nothing adds up to nothing, and an index that is taken out takes its    *)
(* number with it.                                                         *)
LEMMA SumOverEmpty ==
    ASSUME NEW f, NEW n, Numbers(f, n)
    PROVE  SumOver(f, {}, n) = 0
<1> DEFINE p == CHOOSE u : SumsOver(u, f, {})
<1>1. SumsOver(p, f, {})
  <2>1. Indices({}, n)
    BY DEF Indices
  <2>2. QED
    BY <2>1, SumsOverExist
<1> HIDE DEF p
<1> DEFINE S == {j \in Nat : p[j] = 0}
<1>2. 0 \in S
  BY <1>1 DEF SumsOver
<1>3. ASSUME NEW j \in Nat, j \in S PROVE j + 1 \in S
  BY <1>1, <1>3 DEF SumsOver, Term
<1>4. \A j \in Nat : j \in S
  <2> HIDE DEF S
  <2>1. QED
    BY <1>2, <1>3, SetInduction
<1>5. QED
  BY <1>4 DEF SumOver, p, Numbers

LEMMA SumOverRemove ==
    ASSUME NEW f, NEW n, NEW s, NEW x, Numbers(f, n), Indices(s, n), x \in s
    PROVE  SumOver(f, s, n) = f[x] + SumOver(f, s \ {x}, n)
<1> DEFINE p == CHOOSE u : SumsOver(u, f, s)
           q == CHOOSE u : SumsOver(u, f, s \ {x})
<1>1. SumsOver(p, f, s) /\ SumsOver(q, f, s \ {x})
  <2>1. Indices(s \ {x}, n)
    BY DEF Indices
  <2>2. QED
    BY <2>1, SumsOverExist
<1> HIDE DEF p, q
<1>2. n \in Nat /\ x \in 1 .. n /\ f[x] \in Int
  BY DEF Numbers, Indices
<1> DEFINE S == {j \in Nat : p[j] = IF x <= j THEN f[x] + q[j] ELSE q[j]}
<1>3. 0 \in S
  BY <1>1, <1>2 DEF SumsOver
<1>4. ASSUME NEW j \in Nat, j \in S PROVE j + 1 \in S
  <2>1. /\ p[j+1] = p[j] + Term(f, s, j+1) /\ q[j+1] = q[j] + Term(f, s \ {x}, j+1)
        /\ p[j] \in Int /\ q[j] \in Int
    BY <1>1 DEF SumsOver
  <2>2. CASE x = j + 1
    <3>1. Term(f, s, j+1) = f[x] /\ Term(f, s \ {x}, j+1) = 0 /\ ~ (x <= j) /\ x <= j + 1
      BY <1>2, <2>2 DEF Term
    <3>2. QED
      BY <1>2, <1>4, <2>1, <3>1
  <2>3. CASE x # j + 1
    <3> DEFINE y == Term(f, s, j+1)
    <3>1. Term(f, s \ {x}, j+1) = y /\ (x <= j <=> x <= j + 1)
      BY <1>2, <2>3 DEF Term
    <3>2. y \in Int
      BY <1>2 DEF Term, Numbers, Indices
    <3> HIDE DEF y
    <3>3. p[j+1] = p[j] + y /\ q[j+1] = q[j] + y
      BY <2>1, <3>1 DEF y
    <3>4. QED
      BY <1>2, <1>4, <2>1, <3>1, <3>2, <3>3
  <2>4. QED
    BY <2>2, <2>3
<1>5. n \in S
  <2>1. \A j \in Nat : j \in S
    <3> HIDE DEF S
    <3>1. QED
      BY <1>3, <1>4, SetInduction
  <2>2. QED
    BY <1>2, <2>1
<1>6. QED
  BY <1>2, <1>5 DEF SumOver, p, q

(* How SumFunction goes on, with the element it chooses.                   *)
Pick(s) == CHOOSE x \in s : TRUE
SumBody(f, g) ==
    [s \in SUBSET DOMAIN f |-> IF s = {} THEN 0 ELSE f[Pick(s)] + g[s \ {Pick(s)}]]

LEMMA SumFunctionDef ==
    ASSUME NEW f
    PROVE  SumFunction(f) = (CHOOSE g : g = SumBody(f, g))[DOMAIN f]
  BY Zenon DEF SumFunction, SumFunctionOnSet, FoldFunctionOnSet, MapThenFoldSet, SumBody, Pick

(* It is the sum of the numbers with an index in its argument: of the      *)
(* finite sets where it is not, none is the smallest.                      *)
LEMMA SumFunctionIsSum ==
    ASSUME NEW f, NEW n, Numbers(f, n)
    PROVE  SumFunction(f) = SumOver(f, 1 .. n, n)
<1> DEFINE D == 1 .. n
           G == [s \in SUBSET D |-> SumOver(f, s, n)]
           g == CHOOSE h : h = SumBody(f, h)
<1>1. DOMAIN f = D
  BY DEF Numbers
<1>2. \A s \in SUBSET D : s # {} => Pick(s) \in s /\ s \ {Pick(s)} \in SUBSET D
  BY DEF Pick
<1>3. ASSUME NEW s \in SUBSET D
      PROVE  SumOver(f, s, n) = IF s = {} THEN 0
                                ELSE f[Pick(s)] + SumOver(f, s \ {Pick(s)}, n)
  <2>1. CASE s = {}
    BY <2>1, SumOverEmpty
  <2>2. CASE s # {}
    <3> DEFINE x == Pick(s)
    <3>1. Indices(s, n) /\ x \in s
      BY <1>2, <2>2 DEF Indices
    <3> HIDE DEF x, D
    <3>2. SumOver(f, s, n) = f[x] + SumOver(f, s \ {x}, n)
      BY <3>1, SumOverRemove
    <3>3. QED
      BY <2>2, <3>2 DEF x
  <2>3. QED
    BY <2>1, <2>2
<1> HIDE DEF D
<1>4. G = SumBody(f, G)
  <2>1. \A s \in SUBSET D : G[s] = SumOver(f, s, n)
    OBVIOUS
  <2>2. \A s \in SUBSET D : G[s] = IF s = {} THEN 0 ELSE f[Pick(s)] + G[s \ {Pick(s)}]
    BY <1>2, <1>3, <2>1
  <2>3. G = [s \in SUBSET D |-> G[s]]
    OBVIOUS
  <2> HIDE DEF G
  <2>4. QED
    BY <1>1, <2>2, <2>3 DEF SumBody
<1>5. g = SumBody(f, g)
  <2> HIDE DEF G
  <2>1. QED
    BY <1>4
<1> HIDE DEF g
<1>6. \A s \in SUBSET D : g[s] = IF s = {} THEN 0 ELSE f[Pick(s)] + g[s \ {Pick(s)}]
  <2>1. g = [s \in SUBSET D |-> IF s = {} THEN 0 ELSE f[Pick(s)] + g[s \ {Pick(s)}]]
    BY <1>1, <1>5 DEF SumBody
  <2>2. QED
    BY <2>1
<1>7. \A s \in SUBSET D : g[s] = SumOver(f, s, n)
  <2> DEFINE B == {s \in SUBSET D : g[s] # SumOver(f, s, n)}
  <2> SUFFICES ASSUME B # {} PROVE FALSE
    OBVIOUS
  <2>1. B \subseteq FiniteSubsetsOf(D)
    <3>1. IsFiniteSet(D)
      BY FS_Interval DEF D, Numbers
    <3>2. \A s \in SUBSET D : IsFiniteSet(s)
      BY <3>1, FS_Subset
    <3>3. QED
      BY <3>2 DEF FiniteSubsetsOf
  <2>2. IsWellFoundedOn(StrictSubsetOrdering(D), FiniteSubsetsOf(D))
    BY FS_StrictSubsetOrderingWellFounded
  <2>3. PICK s \in B : \A r \in B : ~ (<<r, s>> \in StrictSubsetOrdering(D))
    <3> HIDE DEF B
    <3>1. QED
      BY <2>1, <2>2, WFMin
  <2>4. s # {} /\ s \in SUBSET D
    BY <1>3, <1>6
  <2> DEFINE r == s \ {Pick(s)}
  <2>5. r \in SUBSET D /\ r \subseteq s /\ r # s
    BY <1>2, <2>4
  <2>6. <<r, s>> \in StrictSubsetOrdering(D)
    BY <2>4, <2>5 DEF StrictSubsetOrdering
  <2>7. g[r] = SumOver(f, r, n)
    BY <2>3, <2>5, <2>6
  <2>8. g[s] = f[Pick(s)] + g[r] /\ SumOver(f, s, n) = f[Pick(s)] + SumOver(f, r, n)
    BY <1>3, <1>6, <2>4
  <2>9. QED
    BY <2>7, <2>8
<1>8. SumFunction(f) = g[D]
  BY <1>1, SumFunctionDef DEF g
<1>9. QED
  BY <1>7, <1>8 DEF D

(* The sum of a list is the last of its partial sums.                      *)
LEMMA SumOfList ==
    ASSUME NEW f, NEW n, NEW p, Numbers(f, n), PartialSums(p, f, n)
    PROVE  SumFunction(f) = p[n]
<1> DEFINE q == CHOOSE u : SumsOver(u, f, 1 .. n)
           S == {j \in 0 .. n : q[j] = p[j]}
<1>1. SumsOver(q, f, 1 .. n)
  <2>1. Indices(1 .. n, n)
    BY DEF Indices
  <2>2. QED
    BY <2>1, SumsOverExist
<1> HIDE DEF q
<1>2. 0 \in S /\ n \in Nat
  BY <1>1 DEF SumsOver, PartialSums, Numbers
<1>3. ASSUME NEW j \in 0 .. n-1, j \in S PROVE j + 1 \in S
  <2>1. j \in Nat /\ j + 1 \in 1 .. n
    BY <1>2
  <2>2. q[j+1] = q[j] + f[j+1]
    BY <1>1, <2>1 DEF SumsOver, Term
  <2>3. p[j+1] = p[j] + f[j+1]
    BY DEF PartialSums
  <2>4. QED
    BY <1>3, <2>1, <2>2, <2>3
<1>4. n \in S
  <2>1. \A j \in 0 .. n : j \in S
    <3> HIDE DEF S
    <3>1. QED
      BY <1>2, <1>3, UpInduction
  <2>2. QED
    BY <1>2, <2>1
<1>5. SumFunction(f) = q[n]
  BY SumFunctionIsSum DEF SumOver, q
<1>6. QED
  BY <1>4, <1>5
=============================================================================
