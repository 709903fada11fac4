----------------------------- MODULE BridgeProof -----------------------------
(***************************************************************************)
(* The statement an operator proves when it is challenged: bridge_proof    *)
(* (circuits/src/bridge.rs), run by risc0-guests/operator.                 *)
(*                                                                         *)
(* The circuit reads, period by period, block headers, which it chains and *)
(* puts in a Merkle tree, and payments of withdrawals with proofs that a   *)
(* block of the tree contains them; then the verifier's challenge, more    *)
(* headers for their work, and a claim: as many preimages as withdrawals   *)
(* were paid, a transaction that commits to them, and one in a block of    *)
(* the tree that spends an output of it.                                   *)
(*                                                                         *)
(* All input comes from the host, an operator that may lie, so every value *)
(* read is chosen freely.  A panic ends the run without a proof.           *)
(*                                                                         *)
(* A block hash is the term of what it commits to: <<previous hash,        *)
(* transactions, bits>>; a transaction root is the set of transactions     *)
(* under it.  A block whose hash misses its target makes the circuit panic.*)
(***************************************************************************)
EXTENDS IncrementalMerkle, BitcoinWork, Functions

CONSTANTS
    Depth,              \* BLOCKHASH_ and WITHDRAWAL_MERKLE_TREE_DEPTH, 32
    ClaimDepth,         \* CLAIM_MERKLE_TREE_DEPTH, 4
    NumRounds,          \* NUM_ROUNDS, 4
    MaxBlockHandleOps,  \* MAX_BLOCK_HANDLE_OPS, 3
    Addresses,          \* taproot addresses that withdrawals are paid to
    TxRoots,            \* sets of transactions that a block may contain
    Bits,               \* bits fields that a header may have
    StartHash,          \* the first block hash, read from the host
    ZeroHash,           \* [0; 32]
    MaxBlocks,          \* bound: headers per period
    MaxPayments,        \* bound: payments per period
    MaxDeep,            \* bound: headers after the last period
    MaxPow              \* bound: the verifier's work

ASSUME SizesAssumption ==
    /\ Depth \in Nat /\ ClaimDepth \in Nat
    /\ NumRounds \in Nat \ {0} /\ MaxBlockHandleOps \in Nat
ASSUME BoundsAssumption ==
    MaxBlocks \in Nat /\ MaxPayments \in Nat /\ MaxDeep \in Nat /\ MaxPow \in Nat

(* A header whose bits field has a larger exponent makes the circuit panic.*)
ASSUME BitsAssumption == Bits \subseteq BitsField

(* The index of a tree is a u32 and its depth 32: no input reads more      *)
(* leaves than there are.                                                  *)
ASSUME CapacityAssumption ==
    NumRounds * MaxBlocks <= Capacity(Depth) /\ NumRounds * MaxPayments <= Capacity(Depth)

VARIABLES
    phase,      \* what the circuit reads next
    period,     \* period_count; NumRounds when the for loop ran out of rounds
    n, i,       \* the bound of the present loop and its counter
    tree,       \* blockhashes_mt
    wtree,      \* withdrawal_mt
    pow,        \* total_pow
    cur,        \* cur_block_hash
    lc,         \* lc_blockhash
    total,      \* total_num_withdrawals
    last,       \* last_period
    chal,       \* the verifier's challenge: [pow, hash, period]
    claim,      \* the claim that was proved
    blocks,     \* history: the block hashes in the tree
    payments,   \* history: the addresses in the withdrawal tree
    deep        \* history: the bits of the headers after the last period

chainVars == <<tree, pow, cur, lc, blocks, deep>>
claimVars == <<wtree, total, payments, claim>>
gameVars  == <<period, last, chal>>
vars      == <<phase, n, i, chainVars, claimVars, gameVars>>

-----------------------------------------------------------------------------
(* Values *)

BlockHash(prev, root, bits) == <<prev, root, bits>>

BlockTxs(b) == b[2]

BlockBits(b) == b[3]

(* A transaction that pays BRIDGE_AMOUNT_SATS to address a, and one that   *)
(* spends an output of the transaction that commits to claim c: the one    *)
(* that pays to the taproot address of the preimages, which reveals them,  *)
(* or another one, which does not.                                         *)
Payment(a)  == <<"payment", a>>
Outputs     == {"commit", "change"}
Spend(c, o) == <<"spend", c, o>>

(* The leaf for k preimages of period p: the hash of their hashes.  No     *)
(* preimages at all hash to the same leaf in every period.                 *)
Leaf(p, k) == [period |-> IF k = 0 THEN 0 ELSE p, count |-> k]

Claims == {Leaf(p, k) : p \in 0 .. NumRounds - 1, k \in 0 .. Capacity(ClaimDepth) - 1}

(* The preimages for k withdrawals in period p are leaf k of the period's  *)
(* tree, PERIOD_CLAIM_MT_ROOTS[p].                                         *)
ClaimRoot(p) ==
    RootOf(ClaimDepth, [k \in 1 .. Capacity(ClaimDepth) |-> Leaf(p, k - 1)])

(* The block hashes that the host may calculate from a transaction root    *)
(* and the rest of a header, as far as they can be in the tree.            *)
Headers == {BlockHash(prev, root, bits) :
              prev \in {StartHash} \cup Range(blocks), root \in TxRoots, bits \in Bits}

(* The header is that of a block in the tree.                              *)
InTree(b) == \E k \in 0 .. Capacity(Depth) - 1 : Proves(Depth, tree.root, b, k)

-----------------------------------------------------------------------------
Init ==
    /\ phase = "count" /\ period = 0 /\ n = 0 /\ i = 0
    /\ tree = NewTree(Depth) /\ wtree = NewTree(Depth)
    /\ pow = 0 /\ cur = StartHash /\ lc = ZeroHash
    /\ total = 0 /\ last = 0
    /\ chal = [pow |-> 0, hash |-> ZeroHash, period |-> 0]
    /\ claim = [period |-> 0, count |-> 0]
    /\ blocks = <<>> /\ payments = <<>> /\ deep = <<>>

(* Mutant: the counter is not reset.                                       *)
LoopOn(k) == n' = k /\ i' = i

(* A loop of k rounds begins, and goes on.                                 *)
Loop(k) == n' = k /\ i' = 0

Again == i < n /\ i' = i + 1 /\ UNCHANGED n

(* read_blocks_and_add_to_merkle_tree: the number of headers ...           *)
ReadCount(k) ==
    /\ phase = "count"
    /\ phase' = "blocks"
    /\ Loop(k)
    /\ lc' = ZeroHash
    /\ UNCHANGED <<tree, pow, cur, blocks, deep, claimVars, gameVars>>

(* Mutant: one block off.                                                  *)
IsLcBlockLate == i = n - MaxBlockHandleOps + 1

(* i == n - max_block_handle_ops.  Where that underflows, the wrapped      *)
(* number is never reached (and a build that checks panics, BadInput).     *)
IsLcBlock == i = n - MaxBlockHandleOps

(* ... and each of them: the hash before it may be the light client's.     *)
ReadBlock(root, bits) ==
    LET next == BlockHash(cur, root, bits) IN
    /\ phase = "blocks"
    /\ Again
    /\ lc' = IF IsLcBlock THEN cur ELSE lc
    /\ cur' = next
    /\ tree' = Add(Depth, tree, next)
    /\ pow' = AddWork(pow, bits)
    /\ blocks' = Append(blocks, next)
    /\ UNCHANGED <<phase, deep, claimVars, gameVars>>

ReadNumWithdrawals(k) ==
    /\ phase = "blocks" /\ i = n
    /\ phase' = "payments"
    /\ Loop(k)
    /\ UNCHANGED <<chainVars, claimVars, gameVars>>

(* Mutant: the block is not looked for in the tree.                        *)
ReadWithdrawalUnproved(a, b) ==
    /\ phase = "payments"
    /\ Again
    /\ Payment(a) \in BlockTxs(b)
    /\ wtree' = Add(Depth, wtree, a)
    /\ payments' = Append(payments, a)
    /\ UNCHANGED <<phase, total, claim, chainVars, gameVars>>

(* read_withdrawal_proof: a transaction that pays address a, under the     *)
(* root of block b, which is in the tree.                                  *)
ReadWithdrawalProof(a, b) ==
    /\ phase = "payments"
    /\ Again
    /\ Payment(a) \in BlockTxs(b)
    /\ InTree(b)
    /\ wtree' = Add(Depth, wtree, a)
    /\ payments' = Append(payments, a)
    /\ UNCHANGED <<phase, total, claim, chainVars, gameVars>>

(* Mutant: only the payments of the last period count.                     *)
CountLastPayments ==
    /\ phase = "payments" /\ i = n
    /\ total' = n
    /\ UNCHANGED <<n, i, wtree, payments, claim, chainVars>>

CountPayments ==
    /\ phase = "payments" /\ i = n
    /\ total' = total + n
    /\ UNCHANGED <<n, i, wtree, payments, claim, chainVars>>

(* Mutant: last_period is not set.                                         *)
EndProvingUnrecorded ==
    /\ CountPayments
    /\ phase' = "challenge"
    /\ UNCHANGED gameVars

(* do_you_want_to_end_proving == 1                                         *)
EndProving ==
    /\ CountPayments
    /\ phase' = "challenge"
    /\ last' = period
    /\ UNCHANGED <<period, chal>>

(* ... or not, and the for loop goes on ...                                *)
NextPeriod ==
    /\ CountPayments
    /\ period < NumRounds - 1
    /\ phase' = "count"
    /\ period' = period + 1
    /\ UNCHANGED <<last, chal>>

(* ... or is over, with last_period still 0.                               *)
RoundsOver ==
    /\ CountPayments
    /\ period = NumRounds - 1
    /\ phase' = "challenge"
    /\ period' = NumRounds
    /\ UNCHANGED <<last, chal>>

(* read_and_verify_verifiers_challenge_proof, whose proof is not verified  *)
(* yet, and the number k of headers after the last period.                 *)
ReadChallenge(c, k) ==
    /\ phase = "challenge"
    /\ phase' = "deep"
    /\ chal' = c
    /\ Loop(k)
    /\ UNCHANGED <<period, last, chainVars, claimVars>>

(* read_blocks_and_calculate_work                                          *)
ReadDeepBlock(bits) ==
    /\ phase = "deep"
    /\ Again
    /\ pow' = AddWork(pow, bits)
    /\ deep' = Append(deep, bits)
    /\ UNCHANGED <<phase, tree, cur, lc, blocks, claimVars, gameVars>>

(* A challenge for another period or from another fork is overruled by     *)
(* work only.                                                              *)
Holds == pow > chal.pow \/ (chal.period = last /\ chal.hash = cur)

(* win() does nothing: a proof that overrules the challenge goes on, like  *)
(* one that agrees with it.                                                *)
GoOn ==
    /\ phase = "deep" /\ i = n
    /\ Holds
    /\ phase' = "lc"
    /\ UNCHANGED <<n, i, chainVars, claimVars, gameVars>>

(* "Operator can't prove ...": no proof.                                   *)
Lose ==
    /\ phase = "deep" /\ i = n
    /\ ~ Holds
    /\ phase' = "failed"
    /\ UNCHANGED <<n, i, chainVars, claimVars, gameVars>>

(* The host repeats lc_blockhash and the root of the withdrawal tree; the  *)
(* light client proof itself is not verified yet.                          *)
ReadAndVerifyLcProof(hash, root) ==
    /\ phase = "lc"
    /\ hash = lc /\ root = wtree.root
    /\ phase' = "claim"
    /\ UNCHANGED <<n, i, chainVars, claimVars, gameVars>>

(* The preimages of claim c, the transaction that commits to them, output  *)
(* o of it, the transaction that spends this output, its block b, and the  *)
(* claim's place in the tree of the challenged period.  Which output it is *)
(* the host says (vout, with a TODO), and it need not be the one that pays *)
(* to the preimages' address.                                              *)
ProveClaim(c, o, b) ==
    /\ phase = "claim"
    /\ chal.period < NumRounds
    /\ Proves(ClaimDepth, ClaimRoot(chal.period), c, total)
    /\ Spend(c, o) \in BlockTxs(b)
    /\ InTree(b)
    /\ phase' = "proved"
    /\ claim' = c
    /\ UNCHANGED <<n, i, wtree, total, payments, chainVars, gameVars>>

(* A check fails: a header misses its target, a transaction or a block is  *)
(* not where its proof says, a period is out of range.                     *)
BadInput ==
    /\ \/ phase \in {"blocks", "payments", "deep"} /\ i < n
       \/ phase \in {"lc", "claim"}
    /\ phase' = "failed"
    /\ UNCHANGED <<n, i, chainVars, claimVars, gameVars>>

Challenges == [pow : 0 .. MaxPow, hash : {cur, ZeroHash}, period : 0 .. NumRounds]

Next ==
    \/ \E k \in 0 .. MaxBlocks : ReadCount(k)
    \/ \E root \in TxRoots, bits \in Bits : ReadBlock(root, bits)
    \/ \E k \in 0 .. MaxPayments : ReadNumWithdrawals(k)
    \/ \E a \in Addresses, b \in Headers : ReadWithdrawalProof(a, b)
    \/ EndProving \/ NextPeriod \/ RoundsOver
    \/ \E c \in Challenges, k \in 0 .. MaxDeep : ReadChallenge(c, k)
    \/ \E bits \in Bits : ReadDeepBlock(bits)
    \/ GoOn \/ Lose
    \/ \E hash \in {lc, ZeroHash}, root \in {wtree.root} : ReadAndVerifyLcProof(hash, root)
    \/ \E c \in Claims, o \in Outputs, b \in Headers : ProveClaim(c, o, b)
    \/ BadInput

Spec == Init /\ [][Next]_vars

-----------------------------------------------------------------------------
(* Properties *)

(* Loops stay within their bounds and periods within the rounds.           *)
TypeOK ==
    /\ phase \in {"count", "blocks", "payments", "challenge", "deep", "lc",
                  "claim", "proved", "failed"}
    /\ n \in Nat /\ i \in 0 .. n
    /\ period \in 0 .. NumRounds
    /\ phase \in {"count", "blocks", "payments"} => period < NumRounds
    /\ last \in 0 .. NumRounds - 1
    /\ pow \in Nat /\ total \in Nat
    /\ claim \in Claims

(* Adding leaves one by one, with one remembered hash per level, yields    *)
(* the root of the whole tree.                                             *)
TreesMatchReference ==
    /\ tree.root = RootOf(Depth, blocks) /\ tree.index = Len(blocks)
    /\ wtree.root = RootOf(Depth, payments) /\ wtree.index = Len(payments)

(* A block hash has a proof at an index exactly if it is the leaf there:   *)
(* honest proofs pass and no other does, against every tree that           *)
(* payments and claims are checked with.                                   *)
ProofsExact ==
    (phase = "blocks" /\ i = n) =>
        \A b \in Headers, k \in 0 .. Capacity(Depth) - 1 :
            Proves(Depth, tree.root, b, k) <=> b = LeafAt(blocks, k)

(* Every withdrawal that enters the withdrawal tree was paid in a block    *)
(* that was read, in this period or an earlier one.                        *)
PaymentsOnChain ==
    \A a \in Range(payments) : \E b \in Range(blocks) : Payment(a) \in BlockTxs(b)

(* The light client's block, if the period has one, is MaxBlockHandleOps   *)
(* blocks before the period's end.                                         *)
LcBuried ==
    (lc # ZeroHash /\ phase \notin {"blocks", "failed"}) =>
        LET chain == <<StartHash>> \o blocks IN
        /\ Len(chain) > MaxBlockHandleOps
        /\ lc = chain[Len(chain) - MaxBlockHandleOps]

(* The target and the work of a bits field as the Bitcoin network has them:*)
(* mantissa * 256^(exponent - 3), and 2^256 / (target + 1).                *)
NetworkTarget(bits) == bits.value * Power(Base)[bits.exponent - 3]
BlockProof(bits)    == U256 \div (NetworkTarget(bits) + 1)

(* For every bits field of the sizes that occur, and every hash, the       *)
(* circuit decodes the network's target, accepts the hashes the network    *)
(* accepts and adds the network's work, although it divides 2^256 - 1.     *)
(* Exponents up to 3 are decoded otherwise, and a target of 0 is none.     *)
WorkMatchesNetwork ==
    (phase = "count" /\ blocks = <<>>) =>
        \A bits \in BitsField : (bits.exponent > 3 /\ bits.value > 0) =>
            LET target == DecodeCompactTarget(bits) IN
            /\ FromLeBytes(target) = NetworkTarget(bits)
            /\ AddWork(0, bits) = BlockProof(bits)
            /\ \A hash \in Bytes :
                CheckHashValid(hash, target) <=> FromLeBytes(hash) <= NetworkTarget(bits)

(* The work that the circuit counts for headers with these bits fields,    *)
(* with nothing wrapped.                                                   *)
WorkOf(fields) ==
    LET sum[k \in 0 .. Len(fields)] ==
            IF k = 0 THEN 0
            ELSE sum[k-1] + CalculateWork(DecodeCompactTarget(fields[k]))
    IN  sum[Len(fields)]

BitsOf(chain) == [k \in 1 .. Len(chain) |-> BlockBits(chain[k])]

(* The period that the circuit takes a proof to end in: the one in which   *)
(* the host asked it to end.  If it never did, it is period 0, although    *)
(* the proof went on to the last one.                                      *)
EndPeriod == IF period = NumRounds THEN 0 ELSE period

(* A proof exists only if the challenge is about the end of the proved     *)
(* chain and the period of the proof, or shows less work than the headers  *)
(* of all periods and those after them add up to.                          *)
ProvedBeatsChallenge ==
    phase = "proved" =>
        \/ chal.hash = cur /\ chal.period = EndPeriod
        \/ chal.pow < WorkOf(BitsOf(blocks)) + WorkOf(deep)

(* The claim of a proof is the one that the challenged period has for the  *)
(* number of payments of all periods; past the last leaf of the claim tree *)
(* the number starts over.  A block of the chain has a transaction that    *)
(* spends an output of the one that commits to the claim, which need not   *)
(* be the output that reveals the preimages.                               *)
ClaimCountsPayments ==
    phase = "proved" =>
        /\ claim = Leaf(chal.period, Len(payments) % Capacity(ClaimDepth))
        /\ \E b \in Range(blocks), o \in Outputs : Spend(claim, o) \in BlockTxs(b)
=============================================================================
