# Clementine in TLA+

TLA+ modules, TLC configurations and TLAPS proofs for Clementine, the bridge
between Bitcoin and Citrea in this repository (`core/`, `circuits/`,
`risc0-guests/`, `scripts/schema.sql`). Paths below are relative to the
repository root.

## 1. The system

A user deposits a fixed amount on Bitcoin. The N verifiers (n-of-n MuSig2)
sign, in reverse order of use, the transactions that will later spend it; then
the deposit is *moved* to the n-of-n address and minted on Citrea. To withdraw,
a user asks an operator to pay from the operator's own wallet; the operator is
reimbursed from a moved deposit through its *kickoff* UTXO:
`generator tx -> kickoff -> slash_or_take -> (timelock) -> operator_takes`.

| Component | State it keeps | Operations | Hard behaviour |
|---|---|---|---|
| Operator (`core/src/operator.rs`) | tables `operators_kickoff_utxo`, `deposit_kickoff_generator_txs`, `funding_utxos` | `new`, `new_deposit`, `set_funding_utxo`, `new_withdrawal_sig`, `withdrawal_proved_on_citrea` | concurrent requests under one table lock; aborted transactions; chains of transactions that are stored and not sent; checks on amounts |
| Verifier (`core/src/verifier.rs`) | tables `deposit_infos`, `nonces`, `deposit_kickoff_utxos` | `new_deposit`, `operator_kickoffs_generated`, `burn_txs_signed`, `operator_take_txs_signed` | secret nonces must not sign twice; handlers of several autocommitted statements; calls in any order, repeated, concurrent |
| Database (`core/src/database/`, `scripts/schema.sql`) | the tables above, keys, UNIQUE constraints, the trigger on `nonces.sighash` | one function per statement | what is atomic and what is not |
| Aggregator (`core/src/aggregator.rs`) | none | aggregates nonces and partial signatures | none of its own |
| User (`core/src/user.rs`) | none | deposit, withdrawal request | pre-signed withdrawal input |
| Bitcoin node (`core/src/extended_rpc.rs`) | chain, mempool, wallet | send, fund, look up | errors read as "not found"; coins not locked |
| Builders (`core/src/builder/`) | none | transactions, addresses, scripts | amounts and fees in unsigned arithmetic |
| Circuits (`circuits/`, `risc0-guests/`) | Merkle tree, chain of headers | bridge proof, challenge proof | all input comes from a host that may lie; index arithmetic; nothing in `core` calls them yet |
| Servers, configuration, CLI, mocks | none of the protocol | | |

How they interact: a client drives the ceremony by calling every verifier, every
operator and the aggregator over JSON-RPC (`core/tests/common/deposit.rs`). No
component calls another one, except that operators and verifiers ask the Bitcoin
node. Operator i and verifier i share a database (`core/src/servers.rs:189`),
which is how the n-of-n signatures reach the operator.

What makes each part correct:

- operator, kickoffs: a kickoff belongs to one deposit and a deposit to one
  kickoff, for ever, whatever fails; every kickoff can be traced to the wallet;
- verifier: a nonce signs one message; a deposit is moved only when every
  operator can be reimbursed for it; the ceremony ends;
- reimbursement: the answer can be sent; only paid withdrawals are reimbursed,
  and all of them;
- withdrawal: only payments that leave the fee are made, and those are made;
- circuits: the trees are the real ones, a proof passes only for what is in them, and a finished
  proof has more work than the challenge or agrees with it.

## 2. Modules

| Module | Contents |
|---|---|
| `KickoffRegistry` | abstract: what an operator promises about kickoffs |
| `OperatorKickoffs` | detailed: start-up, `new_deposit`, `set_funding_utxo`, database, lock, crashes |
| `OperatorKickoffsProofs` | theorems about `OperatorKickoffs` |
| `OperatorReimbursement` | extends `OperatorKickoffs` with `withdrawal_proved_on_citrea`, the sending of its answer, the chain and Citrea |
| `OperatorReimbursementProofs` | theorems about `OperatorReimbursement` |
| `OperatorWithdrawal` | `is_profitable`, `new_withdrawal_sig`, racing operators |
| `OperatorWithdrawalProofs` | theorems about `OperatorWithdrawal` |
| `VerifierSigning` | the signing ceremony at the verifiers, with racing calls |
| `VerifierSigningProofs` | theorems about `VerifierSigning` |
| `BridgeTxs` | addresses, scripts, transactions, sighashes, witnesses, signatures and sizes of one deposit (`builder/`, `actor.rs`, `musig2.rs`), and the network's rules for them |
| `BridgeChain` | extends `BridgeTxs` with the node, the client's ceremony, the user's recovery and the operators' claims |
| `BridgeChainProofs` | theorems about `BridgeChain` and the fees of `BridgeTxs` |
| `BitcoinWork` | compact targets, the comparison of hashes, work (`circuits/src/bitcoin.rs`) |
| `IncrementalMerkle` | `IncrementalMerkleTree`, `read_merkle_tree_proof`, and the tree they stand for |
| `BridgeProof` | extends `IncrementalMerkle` and `BitcoinWork` with `bridge_proof` and every input the host may give it |
| `Arithmetic` | powers as a function of the exponent, which the three modules above and `BridgeTxs` use |
| `ArithmeticProofs` | induction over numbers, functions defined by recursion, powers, digits, sums of lists |
| `IncrementalMerkleProofs` | theorems about the tree and its proofs, for every depth |
| `BridgeProofProofs` | theorems about `BridgeProof` and `BitcoinWork` |
| `MC*` | instances for TLC |

Definitions whose comment begins with "Mutant" are faulty variants of the
definition that follows; nothing uses them. Each property of a run is violated
when one of them replaces the definition it varies (`PROJECT.json`, `mutants`),
which shows that the property depends on that piece of code.

### OperatorKickoffs

The tables are sets of rows. `new_deposit` is split where another process can
observe or disturb it: call, lock (`LOCK TABLE ... ACCESS EXCLUSIVE`), reading
(`ReturnExisting`, `UseUnused`, `ReadFunding`, `FundingError`), the INSERT of the
change, which consumes a serial value at once (`InsertChange`, `TxidConflict`),
commit, reply. Writes of a transaction appear at its commit. `Abort` ends a
handler anywhere, `Crash` the process. `set_funding_utxo` runs outside lock and
transaction and checks nothing (`database/common.rs:134`), so the model stores whatever the
constant `Named` holds: true outputs, unknown or spent ones, misstated values. `Operator::new` pays (`StartPay`),
then records (`StartCommit`), with
a crash possible between the two.

A transaction id is a wallet transaction and a path, the outputs and values that the
generators on the way spend: the id of a generator is determined by the outpoint it spends, the value
claimed for it (which its change shows) and the configuration, because witnesses do not enter a
txid. One outpoint with two values therefore gives two generators, the UNIQUE txid does not stop the
second, and the operator would hold two that cannot both be sent. No property denies this; an operator that calls
the RPC has to name each output once and with its value ("Make sure this comes from the operator's
address", `transaction.rs:95`, is left to the caller as well). `FundingNeeded` is the sum of `operator.rs:224-232`,
`ChangeAmount` that of `transaction.rs:108-125`, each with its own copy of the fee; `ChangeNotNegative` compares them.
`NumKickoffs` is the same across restarts. Amounts are integers; the constants are those of
`builder/transaction.rs` and `builder/script.rs`.

### OperatorReimbursement

Adds the chain (`known`, `sots`, `ripe`, `taken`), the ceremony and Citrea as
environment (`signed`, `moved`, `filled`) and one walk per caller. Each iteration
of the loop at `operator.rs:550` asks the node, then the database. A failed
question counts as "unknown", as in the code. The SELECT of the kickoff waits for
the table lock, which is ACCESS EXCLUSIVE. The two signatures are one set `signed`,
since both reads can only turn from missing to present. The caller sends the list
in order, as `core/tests/flow.rs` does. `gap` and `failed` are histories: how much of the list the node
lacked when it was last asked for something it lacked, and how many questions failed. `TrueFunding`: here the
RPC names outputs of the operator's own wallet with their values, since the node would not know others. Left out:
reorganisations, evictions, the
mempool's limit on ancestors.

### OperatorWithdrawal

`WrappingSub` keeps the width of `u64` (modulus `U64`). A call that passes its checks
funds, signs and sends in separate steps with other calls between them; the wallet
may choose a coin another call has chosen too. A coin covers one payment, and miners'
fees are not counted. TLC computes with 32-bit integers, so the instance uses the
modulus 2^20 with amounts around every boundary, the wrapped ones too.

### VerifierSigning

The clients keep no state, so the RPCs are called at any time with any argument made
of released data. `operator_kickoffs_generated` is one database transaction and one
action. `burn_txs_signed` and `operator_take_txs_signed` run autocommitted statements and
are three actions each: read and verify, save signatures, save sighashes and sign.
`burn_txs_signed` verifies one signature per kickoff it read and then saves *all* it was passed, by operator index,
over what the rows have by then (`verifier.rs:382`, `SotUpdate`); NULL stands for a signature that nobody verified. So
where callers pass lists of different lengths, a call that read fewer kickoffs may replace the verified
`slash_or_take` signature of a later operator after `operator_takes` was signed, and the operator reads that column
(`operator.rs:598`). The signature still exists and can be saved again; the properties on stored signatures are about
the operators below `MinKickoffs`, whom every list contains. No comment or test denies this, so it is
no expected violation.
`OtherAgg` are byte strings a caller may pass in place of the true aggregate nonce.
A message is named by what its transaction depends on; a "kickoff" here is the
outpoint with its amount, because the sighash covers both while the operator's
signature covers the outpoint only. An n-of-n signature exists if and only if every
verifier signed the message under the aggregate nonce: cryptography is taken as
sound. Every operator's own signature is data of the caller (`KickoffsSigned`); that an
honest operator signs one kickoff per deposit is what `KickoffRegistry` states.

### BridgeTxs, BridgeChain

`VerifierSigning` is about calls that race, with messages as names. `BridgeChain` is about what is
signed: one client makes the calls of `core/tests/common/deposit.rs` one after the other, the
transactions are built as the builders build them, and the chain moves meanwhile.

A key is a party's key, raw or tweaked with a taproot tree; an address is its output key, that is,
internal key and scripts. A sighash is the record of what it commits to: inputs, outputs, the outputs
the signer *believes* to be spent and the leaf. A signature is a key and a sighash; a partial
signature has the key aggregation context and the list of public nonces it was made under, and
`AggregatePartialSignatures` accepts only partial signatures that agree on all of them. A witness
satisfies an output (`WitnessSatisfies`) if the leaf is in the tree of the output that is *really*
spent and every check of the script, from the top of the stack, gets a signature of its key on the
sighash of the real transaction. So a wrong tweak, a wrong nonce slice, swapped witness elements, an
amount rebuilt differently by verifier and operator, or a timelock that differs between script and
sequence are all visible. Sizes are formulas in what they depend on (number of kickoffs, operator
index, timelock), and `PolicyMet` asks for one satoshi per virtual byte and no dust.

The node keeps confirmations per transaction (`age`), counted up to `Horizon`. A block may contain any
part of the mempool that is closed under parents. `Disconnect` takes up to `MaxReorg` blocks off; their transactions
go back to the mempool, or are lost, and nobody sees the node between that and the longer chain
(`lag`). The deposit may pay the wrong amount or address. The user's recovery is the wallet's
business and external; it uses the key of the recovery address. The client may stop at any call.
The fee rate at which blocks are filled, replacement and eviction are left out.

Two keys are easily confused here. The timelock script of the deposit gets the *tweaked* key of the recovery address;
the one of `slash_or_take` gets the operator's *untweaked* key, and the operator signs without a
tweak (`operator.rs:646`). Both match; the comment at `script.rs:74` describes the first only.

### IncrementalMerkle, BitcoinWork, BridgeProof

Hashes are terms, so equal hashes are hashes of equal values. `Add` computes the path of the
new leaf as a function of the level; `RootOf` is the reference: all leaves, padded, hashed level
by level. `ReadMerkleTreeProof` hashes the same path (`PathOf`) with the siblings that the host
gives. `SiblingLists` are the siblings a host can usefully pass: under an injective hash only
subtrees of the root lead to it. `BridgeProof` is a sequential program with free inputs: one
action per read, `BadInput` for the checks that the host's input can fail, `Lose` for the two
explicit panics. A transaction root is the set of transactions below it; a transaction is named
by what the circuit requires of it (a payment to an address, a spend of one output of the transaction
that commits to a claim). Which output that is the host says (`vout`, `bridge.rs:297`, a TODO), so the change of
the committing transaction will do, and the preimages need not be revealed: `ProveClaim` takes either. The leaf for no
preimages is the hash of the empty string in every period (`Leaf`). `BitcoinWork` has the bytes of a target as a
function on positions, with base and number of bytes as
parameters; TLC goes through every bits field and every hash of an instance with 5 digits of base 3
(the reference is the network's `mantissa * 256^(exponent - 3)` and `2^256 / (target + 1)`). The
subtraction at `bridge.rs:36` wraps or panics, depending on the build: a
wrapped index is never reached, and the panic is a `BadInput`. `blocks`, `payments` and `deep`
are histories for the properties.

## 3. Runs

| Run | What it checks | Bounds |
|---|---|---|
| `kickoffs_safety` | types, distinct kickoffs, durable replies, generated kickoffs, recorded ancestry, conflicts only on repeated funding, no underflow of the change, one payment at start-up becomes funding; `OperatorKickoffs` implements `KickoffRegistry` | 3 deposits, 2 handlers, 2 kickoffs per generator, 3 wallet transactions, 2 RPC calls that name a wallet output, the same with another value, or the change of a generator, 2 failures |
| `kickoffs_live` | repeated requests are served, every call ends | the same without the RPC (a spent UTXO that is named again and again as the latest stops `new_deposit` for good), 1 failure, ample funding |
| `signing_safety` | one message per nonce, `operator_takes` signed only after `slash_or_take` is signed and, for the operator in every list, stored for good, a moved deposit is reimbursable and agreed on, the last statement of a handler is never refused | 2 verifiers, 2 operators, one of which signed two kickoffs, lists of 1 or 2 kickoffs, 2 handlers per verifier, 1 crash |
| `signing_live` | types, the nonces that clients hold are the ones in use, every deposit is moved in the end | one kickoff per operator, full lists, up to 3 racing draws of nonces, 1 crash |
| `reimburse_safety` | answers stay sendable; the limit is met only by deep kickoffs of which the node lacked, but for one per failing answer, everything within the limit | 2 callers, 3 deposits, a chain of 3 with a limit of 3, 2 failing answers, no Citrea, so that calls come before the signatures too; the constraint `NothingMoved` ends behaviours at the first move transaction |
| `reimburse_live` | the walk never misses a record, only filled withdrawals are taken, a filled withdrawal is reimbursed in the end | Citrea, 1 caller, 2 deposits, a chain below the limit of 3, one fault, one crash, no RPC |
| `withdrawal` | payments are covered, profitable withdrawals are paid in the end | 2 withdrawals, 2 operators, 2 concurrent calls, 3 coins, 10 amounts |
| `bridge_proof` | loops in bounds, trees match the reference, proofs pass exactly for the leaves, payments are on chain, the light client's block is buried, target and work are the network's, a proof beats the challenge, the claim counts the payments | 2 periods of at most 2 blocks and 1 payment, trees of 4 leaves, claim trees of 2, 2 addresses, 1 header after the last period |
| `bridge_chain` | types, completed transactions are valid and relayed, an accepted deposit stays, a deposit is settled in the end | 2 verifiers, 2 operators, 2 kickoffs per generator, timelocks of 3 and 2 blocks, threshold 2, 2 reorganisations of 1 block, right and wrong deposits |
| `nonce_reuse`, `kickoffs_early`, `profit_panic` | expected violations, see below | as the runs above |

Why these bounds are enough: with two kickoffs per generator and three deposits a
generator is exhausted and a second one is made from the first one's change; two
handlers race for everything that is shared; the wallet amounts cover the cost of a
generator exactly and one satoshi short of it. Two verifiers are enough for one to be
ahead of the other at every stage. Three generators reach below and up to the
walk's limit, whose value (25 in the code) is a constant. `NothingMoved` cuts off only what follows a move (the
deposit's `operator_takes`, Citrea), which `reimburse_live` has. With a user timelock one block longer than the
threshold,
the recovery opens in the middle of the ceremony and races the move transaction, and a reorganisation can
close it again; two reorganisations let the second hit a chain that the first has shortened. Four leaves and two levels reach
every combination of left and right on a path, two periods make the trees and the count carry
over, the second ends with and without the host asking for it, and two payments are as many as the claim tree of
the instance has leaves, so the index starts over. Symmetry is used in runs without
liveness only; deposits, handlers, callers, verifiers and addresses are interchangeable there.
Deadlock is checked except for the withdrawals, where the system stops when every
withdrawal that can be paid is paid, and for the circuit, which ends.

Fairness. Running servers run their handlers (weak fairness of the steps of a handler).
PostgreSQL queues lock requests (strong fairness of the lock). A process that is down is
started again. Clients repeat a call that was not answered: strong fairness of calls in
`VerifierSigning`, `OperatorReimbursement` and `OperatorWithdrawal`, strong because the
bound on running handlers belongs to the model and may disable a call for a moment.
In `BridgeChain` blocks with the whole mempool are mined, the user recovers, operators claim and
send (weak fairness); nobody else is fair, so the ceremony may stop at any call.
Failures are bounded by the model, so they stop.

### Disagreements between comments and code

- `nonce_reuse`. `scripts/schema.sql:16` says the sighash is held "to prevent reuse of
  the nonces". The trigger keeps the sighash; the aggregate nonce is overwritten by every
  `operator_kickoffs_generated` (`database/common.rs:420`). A nonce never signs two
  messages (`NonceSignsOneMessage` holds), but it makes two signatures of one message
  under two aggregate nonces.
- `kickoffs_early`. `verifier.rs:142` says every `slash_or_take_tx` is signed. For a deposit
  without nonces the call commits the kickoffs and returns no signature, because
  `fetch_all` does not return `RowNotFound` (`database/common.rs:405`).
- `profit_panic`. `operator.rs:355` subtracts from the bridge amount and panics for
  amounts between it and the bridge amount plus the input; the tests at
  `operator.rs:772` say that no panic is wanted.

More observations, without a run of their own. The comment at `schema.sql:14` counts
2 + N nonces per deposit and the one at `aggregator.rs:22` 3N + 1, where the code uses 2N + 1. A prefix of the operators'
kickoffs is accepted (`verifier.rs:164`), so `MovedImpliesReimbursable` covers the operators below
`MinKickoffs`, which are all of them only if callers pass all. `script.rs:71` asks for a strict inequality of
the timelock in script, sequence and chain, where equality is enough. `verifier.rs:72` says "6 blocks
confirmation"; the number is `confirmation_threshold`, 1 in the shipped configuration, and `AcceptedDepositsStay` needs
reorganisations to be shorter than it. The fee constants are exactly tight: `slash_or_take` is a satoshi short from
operator index 256 on, `operator_takes` for timelocks above 32767 (`SlashOrTakeFeeCovers`,
`OperatorTakesFeeCovers`). `operator_takes_after` is a u32 in the script and is cut to 16 bits in the
sequence (`transaction.rs:242`); no check keeps it below 65536. Change of 1 to 329 satoshis in a generator transaction is dust
(`operator.rs:228`). Targets with an exponent of at most 3 are written at the most significant end (`bitcoin.rs:62`), so
`WorkMatchesNetwork` is stated for larger ones; the network's sign bit of the mantissa is ignored. In the circuit,
`win()` is empty
(`bridge.rs:250`), so the comment at `bridge.rs:277` ("the verifier and operator agreed on
last_period and last_finalized_blockhash") is not true of a proof that overruled the challenge
by work; after all rounds `last_period` is 0 (`bridge.rs:240`), so a proof that went on to the last period agrees with a
challenge for period 0, which `EndPeriod` spells out in `ProvedBeatsChallenge`; the number of payments
indexes a claim tree of 16 leaves without a check (`bridge.rs:325`), so it counts modulo 16, which
`ClaimCountsPayments` spells out; a payment may be counted twice; and the output spent in the "reveal" is the
host's choice (`bridge.rs:297`).

## 4. Proofs

`OperatorKickoffsProofs` proves, for every set of deposits, handlers and wallet
transactions, every number of kickoffs per generator and every bound: `TypeOK`,
`KickoffsDistinct`, `RepliesDurable`, `KickoffsGenerated`, `ImplementsRegistry`,
`ChangeNotNegative`, `AncestryRecorded`, `OneOpenGenerator`,
`ConflictOnlyOnRepeatedFunding` and `StartupPaysOnce`. The only
assumptions are the named ones on the constants: `NumKickoffs` is a positive natural, `NULL`
is no handler, amounts are naturals, the bounds are naturals, and what the RPC names has a natural number as
value; it may be any UTXO whatever.

None of these invariants is inductive. The argument goes through `IInv`:

- `LockInv`: only the holder of the table lock is between its lock and its commit;
- `TableInv`: generator ids are unique, the unused index is in `1 .. NumKickoffs`, deposits
  and kickoffs in use are matched one to one and lie below the unused index;
- `CallInv`: what a handler has read (the deposit has no kickoff, no generator has an unused
  output, its generator is new) stays true until it commits, because of `LockInv`; a
  handler about to reply has its answer in the table;
- `BootInv`: a starting operator holds the UTXO it paid.

`KickoffsDistinct` needs all of them: `UseUnused` hands out the output at the unused index,
which is fresh because everything in use is below it; `CommitGenerated` hands out
output 0 of a generator whose id is in no row. The refinement follows step by step.
`FundInv`, on top of `IInv`, carries amounts and ancestry: the parent of each generator is recorded or comes from
outside, and a funding UTXO that was read passed the sum of `new_deposit`, from which
`ChangeAmount` is not negative.

`OperatorReimbursementProofs` proves, for every limit of the walk, any number of callers, faults
and crashes, with or without Citrea: `RTypeOK`, `WalkNeverLost`, `AnswerSendable`,
`LimitOnlyWhenDeep` and `TakenWasFilled`. First, a step of the larger system is a step of the
operator or changes nothing of it (`StillAnOperator`), so `IInv` and `FundInv` hold. On top of them
`RInv` says of every call (`Good`): its list is a chain of stored transactions that ends in the
kickoff's generator (`Chained`); while it searches, the current transaction is the parent of the
list, it is on chain or stored, the kickoff's path is as long as the number of steps or longer, and the list is what the node
lacked or was wrongly said to lack (`Ahead`); afterwards the first of the list can be sent (`Sendable`). `Good`
depends on tables and
on a chain that only grow, so the steps of others preserve it (`GoodStable`); each step of the
call itself has a lemma. The additional assumptions are that the limit is a positive natural,
the bound on faults a natural, `CitreaChecks` a Boolean, and `TrueFunding`.

`OperatorWithdrawalProofs` proves `TypeOK` and `PaymentsAreCovered` for every width of the
amounts, bridge amount and fee. Its invariant adds that the request of every running call and of
every payment passed `is_profitable`; requests never change.

`VerifierSigningProofs` proves, for any number of verifiers, deposits and operators, any kickoffs the
operators signed, any byte string passed as aggregate nonce (`OtherAgg`), any shortest list (`MinKickoffs`) and any
number of handlers and crashes: `TypeOK`, `NonceSignsOneMessage`, `NoncesGivenAreSaved`,
`TakeSignedAfterSot`, `SignStepNotRefused`, `MovedImpliesReimbursable` and `MovedImpliesAgreement`. This is more than the
runs can show, which fix two verifiers and leave foreign aggregate nonces to `nonce_reuse`. The assumptions: N is
a positive natural, `MinKickoffs` is between 1 and N, `NULL` is no aggregate nonce. The argument:

- `Grow`: no step deletes a row, takes back a partial or `operator_takes` signature or sets an aggregate nonce to NULL, and
  `SotKept`: a save never replaces the stored `slash_or_take` signature of an operator below `MinKickoffs`, because whoever
  saves has verified it. So an n-of-n
  signature that could be made once can always be made (`NofNStable`), and what a handler has verified stays
  true while others run (`JobStable`);
- `SighashInv`: the trigger leaves one sighash per nonce, and the index says of which kind it is: a saved
  kickoff's `operator_takes` for the indices 1 to N, the move transaction for 0. So a handler's rows never
  contradict the table (`SignStepNotRefused`), and `SignedInv`, a saved sighash for every signature, gives
  `NonceSignsOneMessage`;
- `JobInv`: what a handler read is saved, verified, and after its second statement stored;
- `StageInv`: whoever signed `operator_takes` had verified the slash_or_take signature of that kickoff and, below
  `MinKickoffs`, has it stored, whoever signed
  the move had those of `operator_takes` for the operators below `MinKickoffs`. A moved deposit has the signature of every
  verifier on the move, hence on `operator_takes` of the kickoff that *one* verifier saved; since each of them signs only for
  its own saved kickoff and has one per operator (`KickInv`), they agree.

On top of `IInv`, `SpendInv` says which funding a generator spends: serial values grow, an outpoint determines
the UTXO, and each recorded generator left its change in a row *after* the one it spent. The newest row is
therefore spent only if it was named again, which is `ConflictOnlyOnRepeatedFunding`. `StartInv` counts payments:
those a row names, at most one more than the calls of `set_funding_utxo`, and the others, at most one per crash
and one in flight; `StartupPaysOnce` follows.

`BridgeChainProofs` proves the four invariants of `BridgeChain` for every number of verifiers, operators and kickoffs,
all timelocks of 16 bits, all amounts, every threshold T and any number of reorganisations of fewer than T blocks.

- `AcceptedDepositsStay`. `DepositInv` and `BuriedInv`: once a deposit is accepted, its confirmations plus the lag are at
  least T. A reorganisation finds a lag of 0 and takes k < T confirmations, and every block gives one back.
- `TypeOK`. `ListInv`: how long the client's lists are at each stage of the ceremony. `SigsInv`: what is in them,
  and in the databases: the n-of-n signatures of `slash_or_take` and `operator_takes`, made with the aggregate nonce, key
  and sighash of each operator. `AgeInv`: confirmations are below their horizon and belong to complete transactions.
- `CompletedTxsValid`. `WitInv` says that each complete transaction has the witness that `SigsInv` makes for it. Then one lemma
  per transaction (`MoveValid`, `GenValid`, `SotValid`, `TakeValid`, `RecoveryValid`) compares that witness with the output
  that is really spent: the signer's sighash is the network's because the outputs it believed in are the real ones
  (`SameSighash`), the leaf is in the tree of the real output, keys and their order match, and the sequence meets
  the timelock (`OwnTimelock`, which is where 16 bits matter).
- `RelayPolicyMet`. Fee and size of each transaction (`MovePolicy` ...), with the sum of the values of a generator's outputs for
  every number of kickoffs (`KickoffSum`) and the exact sizes of `KickoffFeeIsExact`, `SlashOrTakeFeeCovers` and
  `OperatorTakesFeeCovers`.

Two hypotheses are needed there, and both are facts about the configuration that the code does not check.
`CompletedTxsAlwaysValid` assumes `MaxReorg < UserTakesAfter`. Without it the user may sign the recovery of a deposit with
one amount, a reorganisation undoes the deposit, the user deposits another amount, and the old witness is invalid. The default
`user_takes_after` is 5 and the one of the test configuration 200, with a threshold of 1. `RelayPolicyAlwaysMet`
assumes `RelayConditions`: operator indices of one byte, an
`operator_takes_after` of at most 32767, at most 65533 kickoffs per generator, and amounts that leave no output
below the dust limit. The
first two are exactly where the fee constants stop being enough, as the two theorems on fees show.

`ArithmeticProofs` makes induction available to the proofs about the circuits and about fees. The theorems of the
library that state induction
take an operator as parameter and cannot be used here; but a set of numbers that is not empty has a least
element, which is proved for sets (`LeastNumber`), and induction over the elements of a set follows (`SetInduction`,
`UpInduction`). The equation of a function defined by recursion is not given either: that such a function exists is proved from
its approximations, and the equation follows from the choice. In this way `PowerDef`, the hashes on a path,
the nodes of a tree, the digits of a target and the sum of a list (`SumOfList`) get their equations.

`IncrementalMerkleProofs` proves for every depth d: `NewTreeRepresents` and `AddRepresents`, that is, `Represents` is kept
while there is room. `Represents(d, t, L)` is the relation that the code never writes down: the root is the one of the whole
tree of L, the index is the length, and at each level to the left of the next leaf's path the remembered hash is
that of the full subtree there. `ProofsAreExact` and `ProofsAreSound` say that siblings that lead to the root exist
for a leaf and an index exactly if the leaf is there, where an index beyond the leaves counts modulo their number.
Hashes are injective terms (`Hash`); that is the only assumption.

`BridgeProofProofs` proves all eight invariants of `BridgeProof`, for every depth, number of rounds, set of addresses, transaction
roots and bits fields, base, width and bound:

- `HistInv` and `BookInv` keep the books: how many headers and payments were read in each phase, and that the count of
  payments is their number except in the loop that reads them. With `CapacityAssumption` there is always room in the
  trees, so `TreeInv`, `Represents` for both, is kept; `TreesMatchReference`, `ProofsExact` and `PaymentsOnChain` follow from the
  theorems on trees, `ClaimCountsPayments` from them and `BookInv`.
- `LcInv`: while headers are read, the light client's block lies as far back as the counter is past it.
- `WorkMatchesNetwork` is arithmetic: the bytes of a target are the digits of the network's number, the
  comparison from the last byte down is the order of numbers, and dividing 2^256 - 1 instead of 2^256 changes
  nothing, because such a target plus one is 1 modulo the base and divides no power of it.
- `PowInv`: the work is at most that of the headers, and less only where it wraps. So an operator gains nothing by wrapping
  and `ProvedBeatsChallenge` holds, whatever bits the host puts in the headers: the property counts the work as the circuit
  decodes it, and `WorkMatchesNetwork` says for which bits that is the network's.
- `ClaimCountsPayments` needs that a check at an index beyond the leaves is a check at its remainder (`RemainderByBits`).

`SizesAssumption`, `BoundsAssumption`, `BitsAssumption` (an exponent above 32 makes the circuit panic) and
`CapacityAssumption` (a tree of depth 32 has room for every index of 32 bits) are the assumptions.

Proved and in no run: `OneOpenGenerator`, `RTypeOK`, the `TypeOK` of `OperatorWithdrawal`, and two action properties,
`NothingTakenBack` (no step of the ceremony deletes a row, a partial or `operator_takes` signature or an aggregate
nonce, nor the stored `slash_or_take` signature of an operator in every list) and `NothingUndone` (no step unbinds
a kickoff,
forgets a generator or takes back what is known to the node), on which the stability of what a handler has read rests.

Every invariant that a passing run checks, and the refinement of `KickoffRegistry`, is proved. Only model-checked are the
liveness properties (`PersistentCallerServed`, `CallsEnd`, `DepositsMoved`, `FilledIsReimbursed`, `ProfitableIsPaid`,
`DepositSettles`), which are out of the prover's reach, and the three expected violations, which
are counterexamples.

## 5. Not modelled

- Cryptography: MuSig2, Schnorr, taproot commitments and hashes are terms with ideal behaviour. What is
  modelled is which key signs what under which context.
- In the circuits: the subtraction of work, which nothing calls, and the proofs that the code itself does
  not verify yet (light client, verifier's challenge). Nothing in `core` uses the circuits at this commit
  (`env_writer.rs` is commented out).
- Of the node: replacement by fee, eviction, the mempool's limits on ancestors; fee bumping through the
  anyone-can-spend outputs, which the repository does not do.
- Crash of `Operator::new` between payment and commit loses the 2 BTC outpoint from the database (the wallet still has
  it); `StartupPaysOnce` bounds how often, nothing in the code recovers it.
- Citrea's answers as integers: `operator_idx - 1` and `deposit_idx - 1` (`operator.rs:502`, `:531`) are relations here.
- Servers, configuration, CLI, logging, mocks: no state of the protocol.
- Commented-out files: `core/src/merkle.rs`, `core/src/env_writer.rs`, `core/src/mock/env.rs`.

## 6. Plan

Done, in this order: kickoff allocation with its abstract specification and proofs; the
signing ceremony; reimbursement on top of the allocation, with proofs; withdrawals, with
proofs; the circuits' trees and bridge proof; transactions, keys and chain (`BridgeTxs`, `BridgeChain`);
targets and work; proofs for the ceremony and for accepted deposits; proofs of every remaining invariant:
conflicts and start-up of the operator, the trees for every depth, the bridge proof, the validity and the relay of
transactions.

Next:

1. An abstract specification of the ceremony (a deposit is prepared, then moved) that `VerifierSigning` implements.
2. Operators and verifiers together, so that `KickoffsSigned` is what `OperatorKickoffs` hands out.

## 7. Running

    tlc -workers 2 -config OperatorKickoffs_safety.cfg MCOperatorKickoffs
    tlapm OperatorKickoffsProofs.tla

`PROJECT.json` lists every run with its module and configuration, the source lines of every
definition, the hazards and the properties that cover them.
