--------------------------- MODULE VerifierSigning ---------------------------
(***************************************************************************)
(* The n-of-n signing of a deposit: the verifiers' RPC handlers and their  *)
(* databases (core/src/verifier.rs, core/src/database/common.rs,           *)
(* scripts/schema.sql), with the aggregator (core/src/aggregator.rs) and   *)
(* the clients that drive them.                                            *)
(*                                                                         *)
(* For a deposit and N operators every verifier draws 2N+1 nonces: one for *)
(* the move transaction, one per operator for operator_takes and one per   *)
(* operator for slash_or_take.  The transactions are signed in the         *)
(* opposite order: slash_or_take, operator_takes, move; a verifier signs a *)
(* stage only when it is shown the n-of-n signatures of the one before, so *)
(* that the deposit is moved only when every operator can be reimbursed.   *)
(*                                                                         *)
(* Clients and the aggregator keep no state: an RPC may be called at any   *)
(* time, by anyone, again and again, with arguments made of what has been  *)
(* released so far.  A call whose checks fail changes nothing and has no   *)
(* action here.  Signatures are unforgeable: an n-of-n signature on a      *)
(* message exists only if each verifier has signed that message with the   *)
(* aggregate nonce.                                                        *)
(***************************************************************************)
EXTENDS Integers, FiniteSets

CONSTANTS
    Verifiers,
    Deposits,
    N,              \* config.num_operators
    Kickoffs,       \* kickoff UTXOs
    KickoffsSigned, \* per deposit and operator, what the operator has signed
    AggNonce,       \* the sum of the verifiers' public nonces
    OtherAgg,       \* other byte strings a caller may pass as agg_nonces
    MinKickoffs,    \* callers pass the kickoffs of at least this many operators
    NULL,
    MaxJobs,        \* bound: handlers running at a time in one verifier
    MaxNonceDraws,  \* bound: nonce sets drawn in one verifier
    MaxCrashes      \* bound: verifier crashes

ASSUME NAssumption == N \in Nat \ {0}
ASSUME KickoffsSignedAssumption ==
    KickoffsSigned \in [Deposits \X (0 .. N-1) -> SUBSET Kickoffs]
ASSUME MinKickoffsAssumption == MinKickoffs \in 1 .. N
ASSUME AggNonceAssumption == AggNonce \notin OtherAgg /\ NULL \notin OtherAgg \cup {AggNonce}

VARIABLES
    nonces,     \* tables deposit_infos and nonces: a nonce set per deposit
    agg,        \* column agg_nonce of nonces
    sighashes,  \* column sighash of nonces, the rows where it is not NULL
    kicks,      \* table deposit_kickoff_utxos
    sotSigs,    \* column slash_or_take_sig: the message it signs, NULL if none
    takeSigs,   \* column operator_take_sig: the message it signs
    drawn,      \* new_deposit handlers that drew nonces and did not commit
    jobs,       \* burn_txs_signed and operator_take_txs_signed handlers
    signed,     \* history: the partial signatures that were made
    given,      \* history: nonce sets returned by new_deposit
    moved,      \* deposits whose move transaction is fully signed
    draws, crashes   \* counters for the bounds

vars == <<nonces, agg, sighashes, kicks, sotSigs, takeSigs, drawn, jobs,
          signed, given, moved, draws, crashes>>

-----------------------------------------------------------------------------
(* Values *)

Ops == 0 .. N-1
Idx == 0 .. 2*N

(* internal_idx of the nonce for each transaction.                         *)
MoveIdx    == 0
TakeIdx(i) == 1 + i

(* Mutants of SotIdx: the move nonce is forgotten; 2N is the base.         *)
SotIdxShifted(i) == N + i
SotIdxDoubled(i) == 2*N + i

SotIdx(i)  == N + 1 + i

(* What is signed: the sighash of a transaction, named by what the         *)
(* transaction depends on.                                                 *)
Msg == [kind : {"move", "take", "sot"}, deposit : Deposits,
        op : Ops \cup {NULL}, kickoff : Kickoffs \cup {NULL}]

MoveMsg(d)       == [kind |-> "move", deposit |-> d, op |-> NULL, kickoff |-> NULL]
TakeMsg(d, i, k) == [kind |-> "take", deposit |-> d, op |-> i, kickoff |-> k]
SotMsg(d, i, k)  == [kind |-> "sot",  deposit |-> d, op |-> i, kickoff |-> k]

Aggs == {AggNonce} \cup OtherAgg

(* kickoff_utxos arguments: the code takes any number up to N.             *)
KickoffLists == UNION {[0 .. m-1 -> Kickoffs] : m \in MinKickoffs .. N}

-----------------------------------------------------------------------------
(* Queries *)

HasNonces(v, d) == \E n \in nonces : n.v = v /\ n.d = d

(* get_kickoff_utxos: the saved kickoffs of d by operator index.  The code  *)
(* takes the position in this list for the operator's index: a verifier    *)
(* saves the kickoffs of operators 0, 1, ... without a gap.                *)
SavedKicks(v, d) == {r \in kicks : r.v = v /\ r.d = d}

(* The aggregator turns partial signatures into an n-of-n signature only   *)
(* if every verifier signed m under the aggregate nonce.                   *)
NofN(m) ==
    \A v \in Verifiers : \E p \in signed :
        p.v = v /\ p.msg = m /\ p.agg = AggNonce

(* Mutant: no trigger.                                                     *)
SighashesAlwaysFree(rows) == TRUE

(* The trigger prevent_sighash_update lets new sighash rows in.            *)
SighashesFree(rows) ==
    \A r \in rows, s \in sighashes :
        r.v = s.v /\ r.d = s.d /\ r.idx = s.idx => r.msg = s.msg

(* musig2::partial_sign with the nonces of the given rows.                 *)
PartialSigs(rows, a) ==
    UNION {{[v |-> r.v, d |-> r.d, idx |-> r.idx, nonce |-> n.id, msg |-> r.msg, agg |-> a]
                : n \in {m \in nonces : m.v = r.v /\ m.d = r.d}} : r \in rows}

(* save_sighashes_and_get_nonces, then partial_sign of every row.          *)
SaveAndSign(rows, a) ==
    /\ SighashesFree(rows)
    /\ sighashes' = sighashes \cup rows
    /\ signed' = signed \cup PartialSigs(rows, a)

Running(v) == Cardinality({j \in jobs : j.v = v}) + Cardinality({j \in drawn : j.v = v})

-----------------------------------------------------------------------------
Init ==
    /\ nonces = {} /\ sighashes = {} /\ kicks = {} /\ sotSigs = {} /\ takeSigs = {}
    /\ agg = [x \in Verifiers \X Deposits |-> NULL]
    /\ drawn = {} /\ jobs = {}
    /\ signed = {} /\ given = {} /\ moved = {}
    /\ draws = [v \in Verifiers |-> 0]
    /\ crashes = 0

(* new_deposit, nonces are in the database: they are returned.             *)
NewDepositAgain(v, d) ==
    /\ \E n \in nonces : n.v = v /\ n.d = d /\ given' = given \cup {n}
    /\ UNCHANGED <<nonces, agg, sighashes, kicks, sotSigs, takeSigs, drawn, jobs,
                   signed, moved, draws, crashes>>

(* new_deposit, none are: a fresh set is drawn ...                         *)
NewDepositDraw(v, d) ==
    /\ ~ HasNonces(v, d)
    /\ Running(v) < MaxJobs
    /\ draws[v] < MaxNonceDraws
    /\ draws' = [draws EXCEPT ![v] = @ + 1]
    /\ drawn' = drawn \cup {[v |-> v, d |-> d, id |-> draws[v] + 1]}
    /\ UNCHANGED <<nonces, agg, sighashes, kicks, sotSigs, takeSigs, jobs,
                   signed, given, moved, crashes>>

(* Mutant: no primary key on (deposit, internal_idx).                      *)
NewDepositCommitTwice(n) ==
    /\ n \in drawn
    /\ drawn' = drawn \ {n}
    /\ nonces' = nonces \cup {n}
    /\ given' = given \cup {n}
    /\ UNCHANGED <<agg, sighashes, kicks, sotSigs, takeSigs, jobs, signed, moved,
                   draws, crashes>>

(* ... and inserted with the deposit's details.  When another call was     *)
(* faster the primary key refuses the rows and the call fails.             *)
NewDepositCommit(n) ==
    /\ n \in drawn
    /\ drawn' = drawn \ {n}
    /\ IF HasNonces(n.v, n.d)
       THEN UNCHANGED <<nonces, given>>
       ELSE nonces' = nonces \cup {n} /\ given' = given \cup {n}
    /\ UNCHANGED <<agg, sighashes, kicks, sotSigs, takeSigs, jobs, signed, moved,
                   draws, crashes>>

(* save_kickoff_utxos: ON CONFLICT (deposit, operator) DO NOTHING.          *)
NewKicks(v, d, ks) ==
    {[v |-> v, d |-> d, op |-> i, kickoff |-> ks[i]] :
        i \in {j \in DOMAIN ks : \A r \in kicks : ~(r.v = v /\ r.d = d /\ r.op = j)}}

(* The sighashes of the slash_or_take transactions of the kickoffs passed. *)
SotRows(v, d, ks) ==
    {[v |-> v, d |-> d, idx |-> SotIdx(i), msg |-> SotMsg(d, i, ks[i])] : i \in DOMAIN ks}

(* operator_kickoffs_generated, one transaction: kickoffs ks carry their   *)
(* operators' signatures; they are saved where none was, the slash_or_take *)
(* transactions of the kickoffs that were passed are signed.               *)
OperatorKickoffsGenerated(v, d, ks, a) ==
    /\ \A i \in DOMAIN ks : ks[i] \in KickoffsSigned[<<d, i>>]
    /\ HasNonces(v, d)
    /\ agg' = [agg EXCEPT ![<<v, d>>] = a]
    /\ kicks' = kicks \cup NewKicks(v, d, ks)
    /\ SaveAndSign(SotRows(v, d, ks), a)
    /\ UNCHANGED <<nonces, sotSigs, takeSigs, drawn, jobs, given, moved, draws, crashes>>

(* The same call for a deposit without nonces: both UPDATEs touch no row,  *)
(* fetch_all returns an empty list rather than RowNotFound, and the        *)
(* transaction commits the kickoffs and returns no signature.              *)
OperatorKickoffsEarly(v, d, ks) ==
    /\ \A i \in DOMAIN ks : ks[i] \in KickoffsSigned[<<d, i>>]
    /\ ~ HasNonces(v, d)
    /\ kicks' = kicks \cup NewKicks(v, d, ks)
    /\ UNCHANGED <<nonces, agg, sighashes, sotSigs, takeSigs, drawn, jobs, signed,
                   given, moved, draws, crashes>>

(* The sighashes a handler signs in the end.                               *)
JobRows(j) ==
    IF j.call = "burn"
    THEN {[v |-> j.v, d |-> j.d, idx |-> TakeIdx(r.op),
           msg |-> TakeMsg(j.d, r.op, r.kickoff)] : r \in j.read}
    ELSE {[v |-> j.v, d |-> j.d, idx |-> MoveIdx, msg |-> MoveMsg(j.d)]}

(* A handler that has read the kickoffs of d; n signatures were passed.    *)
NewJob(v, d, c, st, n) ==
    [v |-> v, d |-> d, call |-> c, step |-> st, read |-> SavedKicks(v, d), passed |-> n]

(* slash_or_take_sigs[index] exists for every kickoff read.                *)
EnoughPassed(v, d, n) == \A r \in SavedKicks(v, d) : r.op < n

(* Mutants: the signatures are not verified; they are not saved.           *)
BurnTxsUnverified(v, d) ==
    /\ Running(v) < MaxJobs
    /\ SavedKicks(v, d) # {}
    /\ HasNonces(v, d)
    /\ \E n \in 0 .. N :
        /\ EnoughPassed(v, d, n)
        /\ jobs' = jobs \cup {NewJob(v, d, "burn", "save", n)}
    /\ UNCHANGED <<nonces, agg, sighashes, kicks, sotSigs, takeSigs, drawn, signed,
                   given, moved, draws, crashes>>

BurnTxsUnsaved(v, d) ==
    /\ Running(v) < MaxJobs
    /\ SavedKicks(v, d) # {}
    /\ HasNonces(v, d)
    /\ \A r \in SavedKicks(v, d) : NofN(SotMsg(d, r.op, r.kickoff))
    /\ \E n \in 0 .. N :
        /\ EnoughPassed(v, d, n)
        /\ jobs' = jobs \cup {NewJob(v, d, "burn", "sign", n)}
    /\ UNCHANGED <<nonces, agg, sighashes, kicks, sotSigs, takeSigs, drawn, signed,
                   given, moved, draws, crashes>>

(* burn_txs_signed: the saved kickoffs are read and the n-of-n signatures  *)
(* on their slash_or_take transactions verified.  The caller may pass more *)
(* signatures than there are kickoffs; those are looked at by nobody ...   *)
BurnTxsSigned(v, d) ==
    /\ Running(v) < MaxJobs
    /\ SavedKicks(v, d) # {}
    /\ HasNonces(v, d)
    /\ \A r \in SavedKicks(v, d) : NofN(SotMsg(d, r.op, r.kickoff))
    /\ \E n \in 0 .. N :
        /\ EnoughPassed(v, d, n)
        /\ jobs' = jobs \cup {NewJob(v, d, "burn", "save", n)}
    /\ UNCHANGED <<nonces, agg, sighashes, kicks, sotSigs, takeSigs, drawn, signed,
                   given, moved, draws, crashes>>

(* save_slash_or_take_sigs updates the rows that are there now, by operator *)
(* index, with all that was passed.  The signatures beyond the kickoffs    *)
(* read were not verified, and no valid one existed when they were passed: *)
(* the verifier signs a slash_or_take as it saves the operator's kickoff.  *)
SotUpdate(j) ==
    {[v |-> j.v, d |-> j.d, op |-> r.op,
      msg |-> IF r \in j.read THEN SotMsg(j.d, r.op, r.kickoff) ELSE NULL] :
        r \in {k \in SavedKicks(j.v, j.d) : k.op < j.passed}}

(* ... the signatures are saved over those that are there ...              *)
BurnSaveSigs(j) ==
    /\ j \in jobs /\ j.call = "burn" /\ j.step = "save"
    /\ sotSigs' = SotUpdate(j) \cup
        {s \in sotSigs : \A u \in SotUpdate(j) : ~(u.v = s.v /\ u.d = s.d /\ u.op = s.op)}
    /\ jobs' = (jobs \ {j}) \cup {[j EXCEPT !.step = "sign"]}
    /\ UNCHANGED <<nonces, agg, sighashes, kicks, takeSigs, drawn, signed, given,
                   moved, draws, crashes>>

(* ... and the operator_takes transactions are signed, with the aggregate  *)
(* nonce that is in the table now.                                         *)
BurnSign(j) ==
    /\ j \in jobs /\ j.call = "burn" /\ j.step = "sign"
    /\ agg[<<j.v, j.d>>] # NULL
    /\ SaveAndSign(JobRows(j), agg[<<j.v, j.d>>])
    /\ jobs' = jobs \ {j}
    /\ UNCHANGED <<nonces, agg, kicks, sotSigs, takeSigs, drawn, given, moved, draws,
                   crashes>>

(* Mutant: the signatures are not verified.                                *)
OperatorTakesUnverified(v, d) ==
    /\ Running(v) < MaxJobs
    /\ SavedKicks(v, d) # {}
    /\ HasNonces(v, d)
    /\ jobs' = jobs \cup {NewJob(v, d, "take", "save", N)}
    /\ UNCHANGED <<nonces, agg, sighashes, kicks, sotSigs, takeSigs, drawn, signed,
                   given, moved, draws, crashes>>

(* operator_take_txs_signed: the kickoffs are read and the n-of-n          *)
(* signatures on their operator_takes transactions verified; any more that *)
(* were passed are dropped ...                                             *)
OperatorTakeTxsSigned(v, d) ==
    /\ Running(v) < MaxJobs
    /\ SavedKicks(v, d) # {}
    /\ HasNonces(v, d)
    /\ \A r \in SavedKicks(v, d) : NofN(TakeMsg(d, r.op, r.kickoff))
    /\ jobs' = jobs \cup {NewJob(v, d, "take", "save", N)}
    /\ UNCHANGED <<nonces, agg, sighashes, kicks, sotSigs, takeSigs, drawn, signed,
                   given, moved, draws, crashes>>

(* ... saved in the rows with the same kickoff ...                         *)
TakeSaveSigs(j) ==
    /\ j \in jobs /\ j.call = "take" /\ j.step = "save"
    /\ takeSigs' = takeSigs \cup
        {[v |-> j.v, d |-> j.d, op |-> r.op, msg |-> TakeMsg(j.d, r.op, r.kickoff)]
            : r \in j.read \cap kicks}
    /\ jobs' = (jobs \ {j}) \cup {[j EXCEPT !.step = "sign"]}
    /\ UNCHANGED <<nonces, agg, sighashes, kicks, sotSigs, drawn, signed, given,
                   moved, draws, crashes>>

(* ... and the move transaction is signed.                                 *)
TakeSign(j) ==
    /\ j \in jobs /\ j.call = "take" /\ j.step = "sign"
    /\ agg[<<j.v, j.d>>] # NULL
    /\ SaveAndSign(JobRows(j), agg[<<j.v, j.d>>])
    /\ jobs' = jobs \ {j}
    /\ UNCHANGED <<nonces, agg, kicks, sotSigs, takeSigs, drawn, given, moved, draws,
                   crashes>>

(* aggregate_move_tx_sigs: the move transaction is complete and can be     *)
(* broadcast.                                                              *)
AggregateMoveTxSigs(d) ==
    /\ NofN(MoveMsg(d))
    /\ moved' = moved \cup {d}
    /\ UNCHANGED <<nonces, agg, sighashes, kicks, sotSigs, takeSigs, drawn, jobs,
                   signed, given, draws, crashes>>

(* A verifier stops: its handlers are gone, what they committed stays.     *)
Crash(v) ==
    /\ crashes < MaxCrashes
    /\ crashes' = crashes + 1
    /\ jobs' = {j \in jobs : j.v # v}
    /\ drawn' = {n \in drawn : n.v # v}
    /\ UNCHANGED <<nonces, agg, sighashes, kicks, sotSigs, takeSigs, signed, given,
                   moved, draws>>

NewDeposit(v, d) ==
    \/ NewDepositAgain(v, d)
    \/ NewDepositDraw(v, d)

Call(v, d) ==
    \/ NewDeposit(v, d)
    \/ \E ks \in KickoffLists :
        \/ \E a \in Aggs : OperatorKickoffsGenerated(v, d, ks, a)
        \/ OperatorKickoffsEarly(v, d, ks)
    \/ BurnTxsSigned(v, d)
    \/ OperatorTakeTxsSigned(v, d)

Step(j) == BurnSaveSigs(j) \/ BurnSign(j) \/ TakeSaveSigs(j) \/ TakeSign(j)

Next ==
    \/ \E v \in Verifiers, d \in Deposits : Call(v, d)
    \/ \E n \in drawn : NewDepositCommit(n)
    \/ \E j \in jobs : Step(j)
    \/ \E d \in Deposits : AggregateMoveTxSigs(d)
    \/ \E v \in Verifiers : Crash(v)

Spec == Init /\ [][Next]_vars

-----------------------------------------------------------------------------
(* Properties *)

(* The tables, the running handlers and the signatures are well-formed; a  *)
(* handler works on kickoffs that are in the table.                        *)
TypeOK ==
    /\ nonces \subseteq [v : Verifiers, d : Deposits, id : Nat]
    /\ agg \in [Verifiers \X Deposits -> Aggs \cup {NULL}]
    /\ sighashes \subseteq [v : Verifiers, d : Deposits, idx : Idx, msg : Msg]
    /\ kicks \subseteq [v : Verifiers, d : Deposits, op : Ops, kickoff : Kickoffs]
    /\ sotSigs \subseteq [v : Verifiers, d : Deposits, op : Ops, msg : Msg \cup {NULL}]
    /\ takeSigs \subseteq [v : Verifiers, d : Deposits, op : Ops, msg : Msg]
    /\ drawn \subseteq [v : Verifiers, d : Deposits, id : Nat]
    /\ jobs \subseteq [v : Verifiers, d : Deposits, call : {"burn", "take"},
                       step : {"save", "sign"}, read : SUBSET kicks, passed : 0 .. N]
    /\ signed \subseteq [v : Verifiers, d : Deposits, idx : Idx, nonce : Nat,
                         msg : Msg, agg : Aggs]
    /\ given \subseteq [v : Verifiers, d : Deposits, id : Nat]
    /\ moved \subseteq Deposits
    /\ draws \in [Verifiers -> Nat]
    /\ crashes \in Nat

(* A nonce never signs two different messages, whatever is called, raced   *)
(* or retried.                                                             *)
NonceSignsOneMessage ==
    \A p, q \in signed :
        p.v = q.v /\ p.d = q.d /\ p.nonce = q.nonce /\ p.idx = q.idx => p.msg = q.msg

(* Every client of new_deposit gets the same nonces for a deposit, the     *)
(* ones the verifier signs with.                                           *)
NoncesGivenAreSaved ==
    \A g \in given : g \in nonces /\ \A n \in nonces : n.v = g.v /\ n.d = g.d => n = g

(* A verifier signs operator_takes only for the kickoff it has saved and   *)
(* once the n-of-n signature on its slash_or_take exists.  Where every     *)
(* caller passes the operator's kickoff that signature is in the table and *)
(* no later save replaces it.  (For the other operators one may: a call    *)
(* that read fewer kickoffs saves over the row what it did not verify.)    *)
TakeSignedAfterSot ==
    \A p \in signed : p.msg.kind = "take" =>
        \E r \in kicks :
            /\ r.v = p.v /\ r.d = p.d /\ r.op = p.msg.op /\ r.kickoff = p.msg.kickoff
            /\ NofN(SotMsg(p.d, r.op, r.kickoff))
            /\ r.op < MinKickoffs => \E s \in sotSigs :
                s.v = p.v /\ s.d = p.d /\ s.op = r.op /\ s.msg = SotMsg(p.d, r.op, r.kickoff)

(* The bridge's promise to its operators: when the move transaction of a   *)
(* deposit is fully signed, every verifier's database holds the n-of-n     *)
(* signatures that reimburse each operator whose kickoff every caller      *)
(* passes, and these are all of them when callers pass N.                  *)
MovedImpliesReimbursable ==
    \A d \in moved, v \in Verifiers, i \in 0 .. MinKickoffs-1 :
        \E r \in kicks, s \in sotSigs, t \in takeSigs :
            /\ r.v = v /\ r.d = d /\ r.op = i
            /\ s.v = v /\ s.d = d /\ s.op = i /\ s.msg = SotMsg(d, i, r.kickoff)
            /\ t.v = v /\ t.d = d /\ t.op = i /\ t.msg = TakeMsg(d, i, r.kickoff)
            /\ NofN(s.msg) /\ NofN(t.msg)

(* Verifiers that took part in a moved deposit agree on those kickoffs,    *)
(* even if an operator signed several.                                     *)
MovedImpliesAgreement ==
    \A d \in moved : \A r, s \in kicks :
        r.d = d /\ s.d = d /\ r.op = s.op /\ r.op < MinKickoffs => r.kickoff = s.kickoff

(* A handler that has saved signatures goes on to sign: the statement that *)
(* follows, outside any transaction, is never refused by the trigger and   *)
(* never meets a NULL aggregate nonce.                                     *)
SignStepNotRefused ==
    \A j \in jobs : j.step = "sign" =>
        /\ agg[<<j.v, j.d>>] # NULL
        /\ SighashesFree(JobRows(j))

-----------------------------------------------------------------------------
(* What comments of the repository say and the code does not do.           *)

(* schema.sql: the sighash is held "to prevent reuse of the nonces".  The  *)
(* agg_nonce column is not protected: a nonce can be used again, for the   *)
(* same message, with another aggregate nonce.                             *)
NonceUsedOnce ==
    \A p, q \in signed :
        p.v = q.v /\ p.d = q.d /\ p.nonce = q.nonce /\ p.idx = q.idx => p = q

(* verifier.rs, operator_kickoffs_generated: "for every slash_or_take_tx,  *)
(* partial sign slash_or_take_tx".                                         *)
KickoffsSavedAreSigned ==
    \A r \in kicks : \E p \in signed :
        p.v = r.v /\ p.d = r.d /\ p.idx = SotIdx(r.op)

-----------------------------------------------------------------------------
(* Liveness.  The servers run their handlers, and the depositor repeats    *)
(* each call until it is answered (core/tests/deposit.rs retries them).    *)
(* Calls are strongly fair because MaxJobs, a bound of the model and not   *)
(* of the servers, may disable them for a while.                           *)
Fairness ==
    /\ WF_vars(\E n \in drawn : NewDepositCommit(n))
    /\ \A v \in Verifiers, d \in Deposits, c \in {"burn", "take"}, st \in {"save", "sign"} :
        WF_vars(\E j \in jobs :
            j.v = v /\ j.d = d /\ j.call = c /\ j.step = st /\ Step(j))
    /\ \A v \in Verifiers, d \in Deposits :
        /\ SF_vars(NewDeposit(v, d))
        /\ SF_vars(\E ks \in KickoffLists : OperatorKickoffsGenerated(v, d, ks, AggNonce))
        /\ SF_vars(BurnTxsSigned(v, d))
        /\ SF_vars(OperatorTakeTxsSigned(v, d))
    /\ \A d \in Deposits : WF_vars(AggregateMoveTxSigs(d))

FairSpec == Spec /\ Fairness

(* Every deposit is moved in the end, when operators sign one kickoff per  *)
(* deposit and callers pass the aggregate nonce.                           *)
DepositsMoved == \A d \in Deposits : <>(d \in moved)
=============================================================================
