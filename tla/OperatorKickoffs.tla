--------------------------- MODULE OperatorKickoffs ---------------------------
(***************************************************************************)
(* One operator and its PostgreSQL database: how new_deposit hands out a   *)
(* kickoff UTXO per deposit (core/src/operator.rs, core/src/database/      *)
(* common.rs, scripts/schema.sql).                                         *)
(*                                                                         *)
(* Kickoff UTXOs are outputs of "generator" transactions that are signed   *)
(* and stored but not broadcast.  A generator transaction spends the       *)
(* operator's latest funding UTXO, has NumKickoffs kickoff outputs, then   *)
(* the change (the next funding UTXO) and an anyone-can-spend output.      *)
(*                                                                         *)
(* new_deposit runs in one database transaction under an ACCESS EXCLUSIVE  *)
(* lock of operators_kickoff_utxo.  The lock covers neither funding_utxos  *)
(* nor its serial, so the set_funding_utxo RPC interleaves with it.  Every *)
(* write of a transaction becomes visible at commit; what an abort leaves  *)
(* behind is the consumed serial value.  Connections and the process may   *)
(* fail at every step and replies may be lost.                             *)
(*                                                                         *)
(* The RPC stores any UTXO it is given: nobody looks whether the outpoint  *)
(* exists, pays the operator, is unspent or has the value that is claimed. *)
(*                                                                         *)
(* A transaction id is modelled as a wallet transaction and a path: the    *)
(* output and value that each generator on the way from it spends.  So a   *)
(* generator's id is determined by the outpoint it spends and the value    *)
(* claimed for it (which its change output shows), as the real txid is,    *)
(* and the same outpoint with two values gives two generators.             *)
(***************************************************************************)
EXTENDS Integers, Sequences, FiniteSets

CONSTANTS
    Deposits,       \* deposit outpoints that pass check_deposit_utxo
    Handlers,       \* concurrent executions of new_deposit
    Wallet,         \* wallet transactions that pay the operator's address
    WalletValue,    \* the amount each of them pays, in satoshis
    Named,          \* UTXOs that callers of set_funding_utxo name, true or not
    NumKickoffs,    \* config.operator_num_kickoff_utxos_per_tx
    NULL,
    MaxSets,        \* bound: calls of the set_funding_utxo RPC
    MaxFailures     \* bound: aborted handlers and crashes

ASSUME NumKickoffsAssumption == NumKickoffs \in Nat \ {0}
ASSUME NULLAssumption == NULL \notin Handlers
ASSUME WalletValueAssumption == WalletValue \in [Wallet -> Nat]
ASSUME BoundsAssumption == MaxSets \in Nat /\ MaxFailures \in Nat

VARIABLES
    kickoffs,   \* table operators_kickoff_utxo: rows [deposit, kickoff]
    gens,       \* table deposit_kickoff_generator_txs
    fundings,   \* table funding_utxos: rows [id, utxo]
    nextId,     \* serial of funding_utxos.id
    lock,       \* holder of the table lock, or NULL
    pc,         \* per handler: where its new_deposit is
    dep,        \* per handler: the deposit it was called for
    src,        \* per handler: the funding UTXO it read
    slot,       \* per handler: the funding_utxos.id its INSERT obtained
    ans,        \* per handler: the kickoff it is about to return
    status,     \* the process: "down", "paying" (in Operator::new) or "up"
    boot,       \* the UTXO Operator::new paid and has not committed
    paid,       \* wallet transactions made by send_to_address
    replies,    \* history: pairs [deposit, kickoff] received by clients
    sets, failures   \* counters for the bounds

dbVars   == <<kickoffs, gens, fundings, nextId>>
callVars == <<lock, pc, dep, src, slot, ans>>
procVars == <<status, boot, paid>>
vars     == <<dbVars, callVars, procVars, replies, sets, failures>>

-----------------------------------------------------------------------------
(* Values *)

Spent   == Nat \X Int      \* an output and the value claimed for it
Txid    == [root : Wallet, path : Seq(Spent)]
Kickoff == [txid : Txid, vout : Nat]
Utxo    == [txid : Txid, vout : Nat, value : Int]
GenRow  == [id : Nat, txid : Txid, cur : Nat, funding : Txid]

ASSUME NamedAssumption == Named \subseteq [txid : Txid, vout : Nat, value : Nat]

KickoffUtxoAmountSats == 100000

(* Mutant: new_deposit asks for nothing but the kickoffs and the fee.      *)
FundingNeededShort ==
    KickoffUtxoAmountSats * NumKickoffs
        + (IF NumKickoffs <= 250 THEN 154 ELSE 156) + 43 * NumKickoffs

(* The amount that new_deposit asks of a funding UTXO, with its own copy   *)
(* of the fee and of the value of the last output.                         *)
FundingNeeded ==
    KickoffUtxoAmountSats * NumKickoffs
        + (IF NumKickoffs <= 250 THEN 154 ELSE 156) + 43 * NumKickoffs
        + 330

(* builder::script::anyone_can_spend_txout().value                         *)
AnyoneCanSpendSats == 330

(* The minimum relay fee that create_kickoff_utxo_tx leaves.               *)
KickoffTxMinRelayFee ==
    (IF NumKickoffs <= 250 THEN 154 ELSE 156) + 43 * NumKickoffs

(* What create_kickoff_utxo_tx puts on the change output; a result below 0 *)
(* is the underflow that panics.                                           *)
ChangeAmount(value) ==
    value - KickoffUtxoAmountSats * NumKickoffs - AnyoneCanSpendSats
          - KickoffTxMinRelayFee

(* The UTXO that wallet transaction w pays to the operator.                *)
WalletUtxo(w) ==
    [txid |-> [root |-> w, path |-> <<>>], vout |-> 0, value |-> WalletValue[w]]

(* Id of the generator transaction that spends UTXO u.                     *)
GenTxid(u) ==
    [root |-> u.txid.root, path |-> Append(u.txid.path, <<u.vout, u.value>>)]

(* Its change output: the one after the NumKickoffs kickoff outputs.       *)
ChangeUtxo(u) == [txid  |-> GenTxid(u),
                  vout  |-> NumKickoffs,
                  value |-> ChangeAmount(u.value)]

(* Its first kickoff output.                                               *)
FirstKickoff(u) == [txid |-> GenTxid(u), vout |-> 0]

(* The row that records it, its first output already in use.  Only the     *)
(* order of the table's ids matters: it is the order of the serial values  *)
(* that the same transactions draw for their change.                       *)
NewGenRow(u, id) == [id      |-> id,
                     txid    |-> GenTxid(u),
                     cur     |-> 1,
                     funding |-> u.txid]

-----------------------------------------------------------------------------
(* Queries *)

(* Mutant: the lookup of an existing kickoff is skipped.                   *)
HasKickoffForgotten(d) == FALSE

HasKickoff(d) == \E row \in kickoffs : row.deposit = d

(* Mutant: ORDER BY id ASC.                                                *)
IsOldestFunding(f) == f \in fundings /\ \A g \in fundings : g.id >= f.id

(* SELECT ... FROM funding_utxos ORDER BY id DESC LIMIT 1                   *)
IsLatestFunding(f) == f \in fundings /\ \A g \in fundings : g.id <= f.id

(* Mutant: cur_unused_kickoff_index <= num_kickoffs.                       *)
HasUnusedOrChange(r) == r.cur <= NumKickoffs

(* A generator row with an unused kickoff output, and the newest of those. *)
HasUnused(r) == r.cur < NumKickoffs

IsNewestUnused(r) ==
    /\ r \in gens
    /\ HasUnused(r)
    /\ \A s \in gens : HasUnused(s) => s.id <= r.id

(* The row that the UPDATE returns, and the output it stands for.          *)
Advance(r) == [r EXCEPT !.cur = r.cur + 1]

(* Mutant: the returned index is taken for the one before the update.      *)
LastTakenTwice(r) == [txid |-> r.txid, vout |-> r.cur - 2]

LastTaken(r) == [txid |-> r.txid, vout |-> r.cur - 1]

-----------------------------------------------------------------------------
Init ==
    /\ kickoffs = {} /\ gens = {} /\ fundings = {} /\ nextId = 1
    /\ lock = NULL
    /\ pc   = [h \in Handlers |-> "idle"]
    /\ dep  = [h \in Handlers |-> NULL]
    /\ src  = [h \in Handlers |-> NULL]
    /\ slot = [h \in Handlers |-> 0]
    /\ ans  = [h \in Handlers |-> NULL]
    /\ status = "down" /\ boot = NULL /\ paid = {}
    /\ replies = {}
    /\ sets = 0 /\ failures = 0

(* Mutant: the lock outlives the call.                                     *)
EndCallLocked(h) ==
    /\ pc'   = [pc EXCEPT ![h] = "idle"]
    /\ dep'  = [dep EXCEPT ![h] = NULL]
    /\ src'  = [src EXCEPT ![h] = NULL]
    /\ slot' = [slot EXCEPT ![h] = 0]
    /\ ans'  = [ans EXCEPT ![h] = NULL]
    /\ UNCHANGED lock

(* The call of h ends, without or with an error: its transaction is over   *)
(* and its lock is free.                                                   *)
EndCall(h) ==
    /\ pc'   = [pc EXCEPT ![h] = "idle"]
    /\ dep'  = [dep EXCEPT ![h] = NULL]
    /\ src'  = [src EXCEPT ![h] = NULL]
    /\ slot' = [slot EXCEPT ![h] = 0]
    /\ ans'  = [ans EXCEPT ![h] = NULL]
    /\ lock' = IF lock = h THEN NULL ELSE lock

(* Mutant: the answer is not set.                                          *)
CommitUnanswered(h, k) ==
    /\ pc'  = [pc EXCEPT ![h] = "replying"]
    /\ lock' = NULL
    /\ UNCHANGED <<ans, dep, src, slot>>

(* The transaction of h commits and h goes on to return kickoff k.         *)
CommitWith(h, k) ==
    /\ pc'  = [pc EXCEPT ![h] = "replying"]
    /\ ans' = [ans EXCEPT ![h] = k]
    /\ lock' = NULL
    /\ UNCHANGED <<dep, src, slot>>

(* new_deposit is called for d; check_deposit_utxo has passed (a failing   *)
(* one returns before any state is touched) and a transaction is begun.    *)
NewDeposit(h, d) ==
    /\ status = "up"
    /\ pc[h] = "idle"
    /\ pc'  = [pc EXCEPT ![h] = "locking"]
    /\ dep' = [dep EXCEPT ![h] = d]
    /\ UNCHANGED <<dbVars, lock, src, slot, ans, procVars, replies, sets, failures>>

(* Mutant: a lock mode that does not conflict with itself.                 *)
AcquireSharedLock(h) ==
    /\ pc[h] = "locking"
    /\ lock' = h
    /\ pc' = [pc EXCEPT ![h] = "locked"]
    /\ UNCHANGED <<dbVars, dep, src, slot, ans, procVars, replies, sets, failures>>

(* LOCK TABLE operators_kickoff_utxo IN ACCESS EXCLUSIVE MODE               *)
AcquireLock(h) ==
    /\ pc[h] = "locking"
    /\ lock = NULL
    /\ lock' = h
    /\ pc' = [pc EXCEPT ![h] = "locked"]
    /\ UNCHANGED <<dbVars, dep, src, slot, ans, procVars, replies, sets, failures>>

(* Mutant: a SELECT without its WHERE clause.                              *)
ReturnAnyRow(h) ==
    /\ pc[h] = "locked"
    /\ \E row \in kickoffs : CommitWith(h, row.kickoff)
    /\ UNCHANGED <<dbVars, procVars, replies, sets, failures>>

(* The deposit already has a kickoff: commit and return it.                *)
ReturnExisting(h) ==
    /\ pc[h] = "locked"
    /\ \E row \in kickoffs :
        /\ row.deposit = dep[h]
        /\ CommitWith(h, row.kickoff)
    /\ UNCHANGED <<dbVars, procVars, replies, sets, failures>>

(* get_unused_kickoff_utxo_and_increase_idx found a row r: the next unused *)
(* output of r is saved for the deposit, and the transaction commits.      *)
UseUnused(h) ==
    /\ pc[h] = "locked"
    /\ ~ HasKickoff(dep[h])
    /\ \E r \in gens :
        /\ IsNewestUnused(r)
        /\ gens' = (gens \ {r}) \cup {Advance(r)}
        /\ kickoffs' = kickoffs \cup
                {[deposit |-> dep[h], kickoff |-> LastTaken(Advance(r))]}
        /\ CommitWith(h, LastTaken(Advance(r)))
    /\ UNCHANGED <<fundings, nextId, procVars, replies, sets, failures>>

(* No unused kickoff: the latest funding UTXO is read and it is enough.    *)
ReadFunding(h) ==
    /\ pc[h] = "locked"
    /\ ~ HasKickoff(dep[h])
    /\ \A r \in gens : ~ HasUnused(r)
    /\ \E f \in fundings :
        /\ IsLatestFunding(f)
        /\ f.utxo.value >= FundingNeeded
        /\ src' = [src EXCEPT ![h] = f.utxo]
    /\ pc' = [pc EXCEPT ![h] = "funded"]
    /\ UNCHANGED <<dbVars, lock, dep, slot, ans, procVars, replies, sets, failures>>

(* OperatorFundingUtxoNotFound or OperatorFundingUtxoAmountNotEnough: the  *)
(* transaction is dropped.                                                 *)
FundingError(h) ==
    /\ pc[h] = "locked"
    /\ ~ HasKickoff(dep[h])
    /\ \A r \in gens : ~ HasUnused(r)
    /\ \A f \in fundings : IsLatestFunding(f) => f.utxo.value < FundingNeeded
    /\ EndCall(h)
    /\ UNCHANGED <<dbVars, procVars, replies, sets, failures>>

(* add_deposit_kickoff_generator_tx violates the UNIQUE txid: the          *)
(* transaction is dropped.                                                 *)
TxidConflict(h) ==
    /\ pc[h] = "funded"
    /\ \E r \in gens : r.txid = GenTxid(src[h])
    /\ EndCall(h)
    /\ UNCHANGED <<dbVars, procVars, replies, sets, failures>>

(* The kickoff row, the generator row and the change are inserted; the     *)
(* change takes the next value of the serial, which others see at once.    *)
InsertChange(h) ==
    /\ pc[h] = "funded"
    /\ \A r \in gens : r.txid # GenTxid(src[h])
    /\ slot' = [slot EXCEPT ![h] = nextId]
    /\ nextId' = nextId + 1
    /\ pc' = [pc EXCEPT ![h] = "inserted"]
    /\ UNCHANGED <<kickoffs, gens, fundings, lock, dep, src, ans, procVars,
                   replies, sets, failures>>

(* Mutant: the generator transaction is not recorded.                      *)
CommitUnrecorded(h) ==
    /\ pc[h] = "inserted"
    /\ kickoffs' = kickoffs \cup
            {[deposit |-> dep[h], kickoff |-> FirstKickoff(src[h])]}
    /\ fundings' = fundings \cup {[id |-> slot[h], utxo |-> ChangeUtxo(src[h])]}
    /\ CommitWith(h, FirstKickoff(src[h]))
    /\ UNCHANGED <<gens, nextId, procVars, replies, sets, failures>>

(* The commit that makes the three inserted rows visible.                  *)
CommitGenerated(h) ==
    /\ pc[h] = "inserted"
    /\ kickoffs' = kickoffs \cup
            {[deposit |-> dep[h], kickoff |-> FirstKickoff(src[h])]}
    /\ gens' = gens \cup {NewGenRow(src[h], slot[h])}
    /\ fundings' = fundings \cup {[id |-> slot[h], utxo |-> ChangeUtxo(src[h])]}
    /\ CommitWith(h, FirstKickoff(src[h]))
    /\ UNCHANGED <<nextId, procVars, replies, sets, failures>>

(* The signed kickoff reaches the client.                                  *)
Reply(h) ==
    /\ pc[h] = "replying"
    /\ replies' = replies \cup {[deposit |-> dep[h], kickoff |-> ans[h]]}
    /\ EndCall(h)
    /\ UNCHANGED <<dbVars, procVars, sets, failures>>

(* The connection to the database or to the client breaks: an open         *)
(* transaction is rolled back, a committed one stays, the reply is lost.   *)
Abort(h) ==
    /\ pc[h] # "idle"
    /\ failures < MaxFailures
    /\ failures' = failures + 1
    /\ EndCall(h)
    /\ UNCHANGED <<dbVars, procVars, replies, sets>>

(* The set_funding_utxo RPC: one autocommitted INSERT, under no lock and   *)
(* without a check.  The caller may name a UTXO again, name a spent or an  *)
(* unknown one, or misstate its value.                                     *)
SetFundingUtxo(u) ==
    /\ status = "up"
    /\ sets < MaxSets
    /\ sets' = sets + 1
    /\ fundings' = fundings \cup {[id |-> nextId, utxo |-> u]}
    /\ nextId' = nextId + 1
    /\ UNCHANGED <<kickoffs, gens, callVars, procVars, replies, failures>>

(* Operator::new: with a funding UTXO in the database there is nothing to  *)
(* pay ...                                                                 *)
StartFunded ==
    /\ status = "down"
    /\ fundings # {}
    /\ status' = "up"
    /\ UNCHANGED <<dbVars, callVars, boot, paid, replies, sets, failures>>

(* Mutant: the operator pays itself on every start.                        *)
StartPayAlways(w) ==
    /\ status = "down"
    /\ w \notin paid
    /\ paid' = paid \cup {w}
    /\ boot' = WalletUtxo(w)
    /\ status' = "paying"
    /\ UNCHANGED <<dbVars, callVars, replies, sets, failures>>

(* ... else send_to_address pays one, which is durable at once ...         *)
StartPay(w) ==
    /\ status = "down"
    /\ fundings = {}
    /\ w \notin paid
    /\ paid' = paid \cup {w}
    /\ boot' = WalletUtxo(w)
    /\ status' = "paying"
    /\ UNCHANGED <<dbVars, callVars, replies, sets, failures>>

(* ... and the row is committed.                                           *)
StartCommit ==
    /\ status = "paying"
    /\ fundings' = fundings \cup {[id |-> nextId, utxo |-> boot]}
    /\ nextId' = nextId + 1
    /\ boot' = NULL
    /\ status' = "up"
    /\ UNCHANGED <<kickoffs, gens, callVars, paid, replies, sets, failures>>

(* The process stops: every open transaction is rolled back.               *)
Crash ==
    /\ status # "down"
    /\ failures < MaxFailures
    /\ failures' = failures + 1
    /\ status' = "down"
    /\ boot' = NULL
    /\ lock' = NULL
    /\ pc'   = [h \in Handlers |-> "idle"]
    /\ dep'  = [h \in Handlers |-> NULL]
    /\ src'  = [h \in Handlers |-> NULL]
    /\ slot' = [h \in Handlers |-> 0]
    /\ ans'  = [h \in Handlers |-> NULL]
    /\ UNCHANGED <<dbVars, paid, replies, sets>>

(* The steps of new_deposit after the call is made and the lock granted.   *)
Proceed(h) ==
    \/ ReturnExisting(h)
    \/ UseUnused(h)
    \/ ReadFunding(h)
    \/ FundingError(h)
    \/ TxidConflict(h)
    \/ InsertChange(h)
    \/ CommitGenerated(h)
    \/ Reply(h)

Start ==
    \/ StartFunded
    \/ \E w \in Wallet : StartPay(w)
    \/ StartCommit

(* Everything but a crash of the process, which modules that add state to  *)
(* the process extend.                                                     *)
Work ==
    \/ \E h \in Handlers, d \in Deposits : NewDeposit(h, d)
    \/ \E h \in Handlers : AcquireLock(h) \/ Proceed(h) \/ Abort(h)
    \/ \E u \in Named : SetFundingUtxo(u)
    \/ Start

Next == Work \/ Crash

Spec == Init /\ [][Next]_vars

-----------------------------------------------------------------------------
(* Properties *)

States == {"idle", "locking", "locked", "funded", "inserted", "replying"}

(* The tables hold rows of their columns' types; a handler holds the       *)
(* values its position needs.                                              *)
TypeOK ==
    /\ kickoffs \subseteq [deposit : Deposits, kickoff : Kickoff]
    /\ gens \subseteq GenRow
    /\ fundings \subseteq [id : Nat, utxo : Utxo]
    /\ nextId \in Nat
    /\ lock \in Handlers \cup {NULL}
    /\ pc \in [Handlers -> States]
    /\ dep \in [Handlers -> Deposits \cup {NULL}]
    /\ src \in [Handlers -> Utxo \cup {NULL}]
    /\ slot \in [Handlers -> Nat]
    /\ ans \in [Handlers -> Kickoff \cup {NULL}]
    /\ status \in {"down", "paying", "up"}
    /\ boot \in Utxo \cup {NULL}
    /\ paid \subseteq Wallet
    /\ replies \subseteq [deposit : Deposits, kickoff : Kickoff]
    /\ sets \in Nat /\ failures \in Nat

(* No kickoff UTXO serves two deposits: the operator could be reimbursed   *)
(* for one of them only.                                                   *)
KickoffsDistinct ==
    \A a, b \in kickoffs : a.kickoff = b.kickoff => a = b

(* A client that was given a kickoff for a deposit finds it, and no other, *)
(* in the operator's database, whatever crashed or was retried since.      *)
RepliesDurable ==
    \A r \in replies, row \in kickoffs :
        r \in kickoffs /\ (row.deposit = r.deposit => row = r)

(* Every kickoff in use is an output below the unused index of a recorded  *)
(* generator transaction, and so never its change or fee-bump output.      *)
KickoffsGenerated ==
    \A row \in kickoffs : \E r \in gens :
        /\ row.kickoff.txid = r.txid
        /\ row.kickoff.vout < r.cur
        /\ r.cur <= NumKickoffs

(* Transactions that no generator of the operator made: those of its       *)
(* wallet, and those that set_funding_utxo was told of.                    *)
Outside(t) ==
    (\E w \in Wallet : t = WalletUtxo(w).txid) \/ (\E u \in Named : t = u.txid)

(* The chain of generators has no gap: the parent of a generator is in the *)
(* table too, or comes from outside, so withdrawal_proved_on_citrea can    *)
(* walk from any kickoff back to the wallet or to what the RPC named.      *)
AncestryRecorded ==
    /\ \A r \in gens : Outside(r.funding) \/ \E s \in gens : s.txid = r.funding
    /\ \A f \in fundings :
        Outside(f.utxo.txid) \/ \E s \in gens : s.txid = f.utxo.txid

(* The lock keeps concurrent new_deposits from colliding: an INSERT of a   *)
(* generator row fails only if its funding UTXO was stored twice, which    *)
(* takes a call of set_funding_utxo.                                       *)
ConflictOnlyOnRepeatedFunding ==
    \A h \in Handlers :
        (pc[h] = "funded" /\ \E r \in gens : r.txid = GenTxid(src[h]))
            => \E f, g \in fundings : f # g /\ f.utxo = src[h] /\ g.utxo = src[h]

(* A funding UTXO that passes the sum of new_deposit never makes the sum   *)
(* of create_kickoff_utxo_tx underflow, whoever stored it: the wallet's    *)
(* outputs, values stated by the RPC, and the changes computed before.     *)
ChangeNotNegative ==
    /\ \A h \in Handlers :
        pc[h] \in {"funded", "inserted"} => ChangeAmount(src[h].value) >= 0
    /\ \A f \in fundings : f.utxo.value >= 0

(* Operator::new pays the operator's own address before the row with the   *)
(* outpoint is committed: at most one of its payments becomes funding,     *)
(* besides those that set_funding_utxo names, and each of the others is    *)
(* one that a crash cut off.                                               *)
StartupPaysOnce ==
    LET used == {w \in paid : \E f \in fundings : f.utxo = WalletUtxo(w)}
    IN  /\ Cardinality(used) <= 1 + sets
        /\ Cardinality(paid \ used) <= failures + (IF status = "paying" THEN 1 ELSE 0)

(* At most one generator has unused kickoffs: which row the query picks    *)
(* never depends on more than the WHERE clause.                            *)
OneOpenGenerator ==
    \A r, s \in gens : HasUnused(r) /\ HasUnused(s) => r = s

(* The operator implements the registry: a deposit is bound once, to a     *)
(* fresh kickoff, and only bound pairs are handed out.                     *)
Registry == INSTANCE KickoffRegistry WITH
    KickoffSet <- Kickoff, bound <- kickoffs, handed <- replies

ImplementsRegistry == Registry!RegSpec

-----------------------------------------------------------------------------
(* Liveness.  A running server runs its handlers (weak fairness), and      *)
(* PostgreSQL queues lock requests, so a request that is repeatedly        *)
(* grantable is granted (strong fairness).  An operator process that is    *)
(* down is started again.  Callers are free to stop.                       *)
Fairness ==
    /\ \A h \in Handlers : SF_vars(AcquireLock(h)) /\ WF_vars(Proceed(h))
    /\ WF_vars(Start)

FairSpec == Spec /\ Fairness

(* A client that keeps asking for a kickoff for d obtains it; meant for    *)
(* instances whose funding suffices.                                       *)
Asked(d) == \E h \in Handlers : pc[h] = "locking" /\ dep[h] = d

PersistentCallerServed ==
    \A d \in Deposits :
        []<>Asked(d) => <>(\E r \in replies : r.deposit = d)

(* Every call ends: no handler waits for the lock for ever.                *)
CallsEnd == \A h \in Handlers : pc[h] = "locking" ~> pc[h] = "idle"
=============================================================================
