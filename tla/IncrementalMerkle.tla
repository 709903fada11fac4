-------------------------- MODULE IncrementalMerkle --------------------------
(***************************************************************************)
(* The incremental Merkle tree of the circuits (circuits/src/              *)
(* incremental_merkle.rs), the check of a Merkle proof (read_merkle_tree_  *)
(* proof of circuits/src/bridge.rs), and the tree they stand for.          *)
(*                                                                         *)
(* Hashes are terms: two are equal only if they are hashes of the same     *)
(* values.  The depth d of a tree is a parameter, as it is in the code.    *)
(***************************************************************************)
EXTENDS Arithmetic, Sequences

Hash(l, r) == <<l, r>>

(* The empty leaf, the hash of nothing else.                               *)
EmptyData == <<"EMPTYDATA">>

(* Roots of trees with no leaf.                                            *)
ZEROES[i \in Nat] ==
    IF i = 0 THEN EmptyData ELSE Hash(ZEROES[i-1], ZEROES[i-1])

NewTree(d) == [filled_subtrees |-> [i \in 0 .. d-1 |-> EmptyData],
               root            |-> ZEROES[d],
               index           |-> 0]

(* current_index and level_idx at level i: halved once per level.          *)
LevelIndex(k) ==
    LET index[i \in Nat] == IF i = 0 THEN k ELSE index[i-1] \div 2
    IN  index

(* Whether the path from leaf k goes through a left child at level i.      *)
IsLeft(k, i) == LevelIndex(k)[i] % 2 = 0

(* The hashes on the path from a leaf at an index up, next to the siblings.*)
PathOf(d, leaf, index, siblings) ==
    LET hash[i \in 0 .. d] ==
            IF i = 0 THEN leaf
            ELSE IF IsLeft(index, i-1)
                 THEN Hash(hash[i-1], siblings[i-1])
                 ELSE Hash(siblings[i-1], hash[i-1])
    IN  hash

(* What a new leaf's path is hashed with: nothing to the right of it, the  *)
(* remembered hashes to the left of it.                                    *)
AddSiblings(d, t) ==
    [i \in 0 .. d-1 |-> IF IsLeft(t.index, i) THEN ZEROES[i] ELSE t.filled_subtrees[i]]

(* Mutant: a right child is remembered as well.                            *)
AddRemembersRight(d, t, a) ==
    LET level == PathOf(d, a, t.index, AddSiblings(d, t))
    IN  [filled_subtrees |-> [i \in 0 .. d-1 |-> level[i]],
         root            |-> level[d],
         index           |-> t.index + 1]

(* Leaf a is added: level[i] is the hash on its path at level i.           *)
Add(d, t, a) ==
    LET level == PathOf(d, a, t.index, AddSiblings(d, t))
    IN  [filled_subtrees |-> [i \in 0 .. d-1 |->
                                IF IsLeft(t.index, i) THEN level[i]
                                                      ELSE t.filled_subtrees[i]],
         root            |-> level[d],
         index           |-> t.index + 1]

(* Mutant: the index is not halved.                                        *)
ReadMerkleTreeProofFlat(d, leaf, index, siblings) ==
    LET hash[i \in 0 .. d] ==
            IF i = 0 THEN leaf
            ELSE IF IsLeft(index, 0)
                 THEN Hash(hash[i-1], siblings[i-1])
                 ELSE Hash(siblings[i-1], hash[i-1])
    IN  hash[d]

(* The root that a leaf, its index and the siblings on its path lead to.   *)
ReadMerkleTreeProof(d, leaf, index, siblings) == PathOf(d, leaf, index, siblings)[d]

(* The hashes that are i levels below a root: only they can lead to it.    *)
Below(d, root) ==
    LET below[i \in 0 .. d] ==
            IF i = 0 THEN {root} ELSE UNION {{x[1], x[2]} : x \in below[i-1]}
    IN  below

(* The lists of siblings worth reading.                                    *)
SiblingLists(d, root) ==
    {s \in [0 .. d-1 -> UNION {Below(d, root)[i] : i \in 1 .. d}] :
        \A i \in 0 .. d-1 : s[i] \in Below(d, root)[d-i]}

(* Whether some input makes the check of a proof for leaf at index pass.   *)
Proves(d, root, leaf, index) ==
    \E s \in SiblingLists(d, root) : ReadMerkleTreeProof(d, leaf, index, s) = root

-----------------------------------------------------------------------------
(* The tree itself: the leaves, then empty ones, hashed level by level.    *)
LeafAt(leaves, k) == IF k < Len(leaves) THEN leaves[k+1] ELSE EmptyData

Capacity(d) == Power(2)[d]

Nodes(d, leaves) ==
    LET node[i \in 0 .. d] ==
            [k \in 0 .. Capacity(d-i) - 1 |->
                IF i = 0 THEN LeafAt(leaves, k)
                         ELSE Hash(node[i-1][2*k], node[i-1][2*k + 1])]
    IN  node

RootOf(d, leaves) == Nodes(d, leaves)[d][0]
=============================================================================
