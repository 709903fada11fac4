------------------------ MODULE VerifierSigningProofs ------------------------
(***************************************************************************)
(* Theorems about VerifierSigning for any number of verifiers, deposits    *)
(* and operators, whatever the operators signed, whatever is passed as the *)
(* aggregate nonce and however short the lists of kickoffs are.            *)
(*                                                                         *)
(* Rows, sighashes and the history of signatures only grow, and what a     *)
(* handler has verified stays true while others run.  The one column that  *)
(* is written again and again is slash_or_take_sig; SotKept says for which *)
(* operators a good signature in it survives.                              *)
(* The invariant says what each row of a table stands for (NonceInv,       *)
(* KickInv, SighashInv), that a signature has its sighash in the table     *)
(* (SignedInv), what a handler has verified and saved (JobInv), and what   *)
(* the order of the stages guarantees (StageInv).                          *)
(***************************************************************************)
EXTENDS VerifierSigning, TLAPS

(* The primary key of nonces, and what new_deposit has returned.           *)
NonceInv ==
    /\ \A n, m \in nonces : n.v = m.v /\ n.d = m.d => n = m
    /\ given \subseteq nonces

(* The primary key of deposit_kickoff_utxos; as soon as one kickoff is     *)
(* there, those that every caller passes and those of all lower operators  *)
(* are, so that the n-th row is the row of operator n-1.                   *)
KickInv ==
    /\ \A r, s \in kicks : r.v = s.v /\ r.d = s.d /\ r.op = s.op => r = s
    /\ \A r \in kicks, i \in Ops : i < MinKickoffs \/ i < r.op =>
        \E s \in kicks : s.v = r.v /\ s.d = r.d /\ s.op = i

(* Which message the nonce at an index is for.                             *)
RowMeans(s) ==
    \/ s.idx = MoveIdx /\ s.msg = MoveMsg(s.d)
    \/ \E r \in kicks : /\ r.v = s.v /\ r.d = s.d
                        /\ s.idx = TakeIdx(r.op) /\ s.msg = TakeMsg(s.d, r.op, r.kickoff)
    \/ \E i \in Ops, k \in Kickoffs : s.idx = SotIdx(i) /\ s.msg = SotMsg(s.d, i, k)

(* A nonce has one sighash, of the right kind.                             *)
SighashInv ==
    /\ \A r, s \in sighashes : r.v = s.v /\ r.d = s.d /\ r.idx = s.idx => r.msg = s.msg
    /\ \A s \in sighashes : RowMeans(s)

(* A signature is made of a saved sighash, after an aggregate nonce was.   *)
SignedInv ==
    \A p \in signed :
        /\ [v |-> p.v, d |-> p.d, idx |-> p.idx, msg |-> p.msg] \in sighashes
        /\ agg[<<p.v, p.d>>] # NULL

SavedSot(v, d, r) ==
    [v |-> v, d |-> d, op |-> r.op, msg |-> SotMsg(d, r.op, r.kickoff)] \in sotSigs
SavedTake(v, d, r) ==
    [v |-> v, d |-> d, op |-> r.op, msg |-> TakeMsg(d, r.op, r.kickoff)] \in takeSigs

(* What a handler has read, verified and saved.                            *)
JobGood(j) ==
    /\ j.read \subseteq SavedKicks(j.v, j.d)
    /\ agg[<<j.v, j.d>>] # NULL
    /\ \A i \in 0 .. MinKickoffs-1 : \E r \in j.read : r.op = i
    /\ \A r \in j.read : r.op < j.passed
    /\ j.call = "burn" =>
        \A r \in j.read :
            /\ NofN(SotMsg(j.d, r.op, r.kickoff))
            /\ j.step = "sign" /\ r.op < MinKickoffs => SavedSot(j.v, j.d, r)
    /\ j.call = "take" =>
        \A r \in j.read : /\ NofN(TakeMsg(j.d, r.op, r.kickoff))
                          /\ j.step = "sign" => SavedTake(j.v, j.d, r)
JobInv == \A j \in jobs : JobGood(j)

(* What a verifier has when it signs a stage.                              *)
TakeReady(p) ==
    \E r \in kicks : /\ r.v = p.v /\ r.d = p.d /\ p.msg = TakeMsg(p.d, r.op, r.kickoff)
                     /\ r.op < MinKickoffs => SavedSot(p.v, p.d, r)
                     /\ NofN(SotMsg(p.d, r.op, r.kickoff))
MoveReady(p) ==
    \A i \in 0 .. MinKickoffs-1 : \E r \in kicks :
        /\ r.v = p.v /\ r.d = p.d /\ r.op = i
        /\ SavedTake(p.v, p.d, r) /\ NofN(TakeMsg(p.d, r.op, r.kickoff))
StageInv ==
    /\ \A p \in signed : /\ p.msg.kind = "take" => TakeReady(p)
                         /\ p.msg.kind = "move" => MoveReady(p)
    /\ \A d \in moved : NofN(MoveMsg(d))

IInv == TypeOK /\ NonceInv /\ KickInv /\ SighashInv /\ SignedInv /\ JobInv /\ StageInv

-----------------------------------------------------------------------------
(* What never goes back: rows, sighashes and signatures stay, a set        *)
(* aggregate nonce stays set.                                              *)
Grow ==
    /\ kicks \subseteq kicks' /\ sighashes \subseteq sighashes' /\ signed \subseteq signed'
    /\ takeSigs \subseteq takeSigs'
    /\ \A v \in Verifiers, d \in Deposits : agg[<<v, d>>] # NULL => agg'[<<v, d>>] # NULL

(* The slash_or_take signature of an operator whose kickoff every caller   *)
(* passes, once saved, is not replaced.                                    *)
SotKept ==
    \A r \in kicks : r.op < MinKickoffs /\ SavedSot(r.v, r.d, r) => SavedSot(r.v, r.d, r)'

(* No row is ever deleted, no sighash changed and no aggregate nonce set   *)
(* back to NULL.                                                           *)
LEMMA GrowNext == TypeOK /\ [Next]_vars => Grow
<1> SUFFICES ASSUME TypeOK, [Next]_vars PROVE Grow
  OBVIOUS
<1> USE DEF Grow
<1>1. ASSUME NEW v \in Verifiers, NEW d \in Deposits, NEW ks \in KickoffLists, NEW a \in Aggs,
             OperatorKickoffsGenerated(v, d, ks, a)
      PROVE  Grow
  <2>1. a # NULL
    BY AggNonceAssumption DEF Aggs
  <2>2. QED
    BY <1>1, <2>1 DEF OperatorKickoffsGenerated, SaveAndSign, TypeOK
<1>2. ASSUME NEW v \in Verifiers, NEW d \in Deposits, Call(v, d) PROVE Grow
  BY <1>1, <1>2 DEF Call, NewDeposit, NewDepositAgain, NewDepositDraw, OperatorKickoffsEarly,
     BurnTxsSigned, OperatorTakeTxsSigned
<1>3. ASSUME NEW n \in drawn, NewDepositCommit(n) PROVE Grow
  BY <1>3 DEF NewDepositCommit
<1>4. ASSUME NEW j \in jobs, Step(j) PROVE Grow
  BY <1>4 DEF Step, BurnSaveSigs, BurnSign, TakeSaveSigs, TakeSign, SaveAndSign
<1>5. ASSUME NEW d \in Deposits, AggregateMoveTxSigs(d) PROVE Grow
  BY <1>5 DEF AggregateMoveTxSigs
<1>6. ASSUME NEW v \in Verifiers, Crash(v) PROVE Grow
  BY <1>6 DEF Crash
<1>7. CASE UNCHANGED vars
  BY <1>7 DEF vars
<1>8. QED
  BY <1>2, <1>3, <1>4, <1>5, <1>6, <1>7 DEF Next

(* burn_txs_signed saves the right signature over the row of an operator   *)
(* whose kickoff every caller passes: it has read that row.                *)
LEMMA SotKeptNext == TypeOK /\ KickInv /\ JobInv /\ [Next]_vars => SotKept
<1> SUFFICES ASSUME TypeOK, KickInv, JobInv, [Next]_vars PROVE SotKept
  OBVIOUS
<1>1. CASE sotSigs' = sotSigs
  BY <1>1 DEF SotKept, SavedSot
<1>2. ASSUME NEW j \in jobs, BurnSaveSigs(j), NEW r \in kicks, r.op < MinKickoffs,
             SavedSot(r.v, r.d, r)
      PROVE  SavedSot(r.v, r.d, r)'
  <2> DEFINE row == [v |-> r.v, d |-> r.d, op |-> r.op, msg |-> SotMsg(r.d, r.op, r.kickoff)]
  <2>1. sotSigs' = SotUpdate(j) \cup
          {s \in sotSigs : \A u \in SotUpdate(j) : ~(u.v = s.v /\ u.d = s.d /\ u.op = s.op)}
    BY <1>2 DEF BurnSaveSigs
  <2>2. JobGood(j) /\ j.read \subseteq kicks
    BY DEF JobInv, TypeOK
  <2>3. CASE r.v = j.v /\ r.d = j.d
    <3>1. r.op \in 0 .. MinKickoffs-1
      BY <1>2, MinKickoffsAssumption DEF TypeOK, Ops
    <3> PICK s \in j.read : s.op = r.op
      BY <2>2, <3>1 DEF JobGood
    <3>2. s = r
      BY <2>2, <2>3 DEF JobGood, SavedKicks, KickInv
    <3>3. r \in SavedKicks(j.v, j.d) /\ r.op < j.passed /\ r \in j.read
      BY <2>2, <2>3, <3>2 DEF JobGood, SavedKicks
    <3>4. row \in SotUpdate(j)
      BY <2>3, <3>3 DEF SotUpdate
    <3>5. QED
      BY <2>1, <3>4 DEF SavedSot
  <2>4. CASE ~(r.v = j.v /\ r.d = j.d)
    <3>1. \A u \in SotUpdate(j) : u.v = j.v /\ u.d = j.d
      BY DEF SotUpdate
    <3>2. row \in sotSigs /\ row.v = r.v /\ row.d = r.d
      BY <1>2 DEF SavedSot
    <3>3. row \in sotSigs'
      BY <2>1, <2>4, <3>1, <3>2
    <3>4. QED
      BY <3>3 DEF SavedSot
  <2>5. QED
    BY <2>3, <2>4
<1>3. ASSUME NEW v \in Verifiers, NEW d \in Deposits, Call(v, d) PROVE sotSigs' = sotSigs
  BY <1>3 DEF Call, NewDeposit, NewDepositAgain, NewDepositDraw, OperatorKickoffsGenerated,
     OperatorKickoffsEarly, BurnTxsSigned, OperatorTakeTxsSigned
<1>4. ASSUME NEW n \in drawn, NewDepositCommit(n) PROVE sotSigs' = sotSigs
  BY <1>4 DEF NewDepositCommit
<1>5. ASSUME NEW j \in jobs, Step(j) PROVE SotKept
  <2>1. CASE BurnSaveSigs(j)
    BY <1>2, <2>1 DEF SotKept
  <2>2. CASE BurnSign(j) \/ TakeSaveSigs(j) \/ TakeSign(j)
    BY <1>1, <2>2 DEF BurnSign, TakeSaveSigs, TakeSign
  <2>3. QED
    BY <1>5, <2>1, <2>2 DEF Step
<1>6. ASSUME NEW d \in Deposits, AggregateMoveTxSigs(d) PROVE sotSigs' = sotSigs
  BY <1>6 DEF AggregateMoveTxSigs
<1>7. ASSUME NEW v \in Verifiers, Crash(v) PROVE sotSigs' = sotSigs
  BY <1>7 DEF Crash
<1>8. CASE UNCHANGED vars
  BY <1>1, <1>8 DEF vars
<1>9. QED
  BY <1>1, <1>3, <1>4, <1>5, <1>6, <1>7, <1>8 DEF Next

(* An n-of-n signature that exists can be made again.                      *)
LEMMA NofNStable == ASSUME NEW m, Grow, NofN(m) PROVE NofN(m)'
  BY DEF Grow, NofN

(* What a signature was based on stays in the tables.                      *)
LEMMA ReadyStable ==
    ASSUME Grow, NEW p
    PROVE  /\ SotKept /\ TakeReady(p) => TakeReady(p)'
           /\ MoveReady(p) => MoveReady(p)'
           /\ RowMeans(p) => RowMeans(p)'
<1>1. ASSUME SotKept, TakeReady(p) PROVE TakeReady(p)'
  <2> PICK r \in kicks : /\ r.v = p.v /\ r.d = p.d /\ p.msg = TakeMsg(p.d, r.op, r.kickoff)
                         /\ r.op < MinKickoffs => SavedSot(p.v, p.d, r)
                         /\ NofN(SotMsg(p.d, r.op, r.kickoff))
    BY <1>1 DEF TakeReady
  <2>1. NofN(SotMsg(p.d, r.op, r.kickoff))'
    BY NofNStable
  <2>2. r.op < MinKickoffs => SavedSot(p.v, p.d, r)'
    BY <1>1 DEF SotKept
  <2>3. QED
    BY <2>1, <2>2 DEF Grow, TakeReady
<1>2. ASSUME MoveReady(p) PROVE MoveReady(p)'
  <2> SUFFICES ASSUME NEW i \in 0 .. MinKickoffs-1
               PROVE  \E r \in kicks' :
                        /\ r.v = p.v /\ r.d = p.d /\ r.op = i
                        /\ SavedTake(p.v, p.d, r)' /\ NofN(TakeMsg(p.d, r.op, r.kickoff))'
    BY DEF MoveReady
  <2> PICK r \in kicks : /\ r.v = p.v /\ r.d = p.d /\ r.op = i
                         /\ SavedTake(p.v, p.d, r) /\ NofN(TakeMsg(p.d, r.op, r.kickoff))
    BY <1>2 DEF MoveReady
  <2>1. NofN(TakeMsg(p.d, r.op, r.kickoff))'
    BY NofNStable
  <2>2. SavedTake(p.v, p.d, r)' /\ r \in kicks'
    BY DEF Grow, SavedTake
  <2>3. QED
    BY <2>1, <2>2
<1>3. ASSUME RowMeans(p) PROVE RowMeans(p)'
  BY <1>3 DEF Grow, RowMeans
<1>4. QED
  BY <1>1, <1>2, <1>3

(* What a handler relies on is not taken away by the steps of others.      *)
LEMMA JobStable ==
    ASSUME Grow, SotKept, TypeOK, NEW j \in jobs, JobGood(j)
    PROVE  JobGood(j)'
<1>1. (j.read \subseteq SavedKicks(j.v, j.d))'
  BY DEF Grow, JobGood, SavedKicks
<1>2. (agg[<<j.v, j.d>>] # NULL)'
  BY DEF Grow, JobGood, TypeOK
<1>3. ASSUME j.call = "burn", NEW r \in j.read
      PROVE  /\ NofN(SotMsg(j.d, r.op, r.kickoff))'
             /\ j.step = "sign" /\ r.op < MinKickoffs => SavedSot(j.v, j.d, r)'
  <2>1. NofN(SotMsg(j.d, r.op, r.kickoff))'
    BY <1>3, NofNStable DEF JobGood
  <2>2. r \in kicks /\ r.v = j.v /\ r.d = j.d
    BY <1>3 DEF JobGood, SavedKicks
  <2>3. j.step = "sign" /\ r.op < MinKickoffs => SavedSot(j.v, j.d, r)'
    BY <1>3, <2>2 DEF JobGood, SotKept
  <2>4. QED
    BY <2>1, <2>3
<1>4. ASSUME j.call = "take", NEW r \in j.read
      PROVE  NofN(TakeMsg(j.d, r.op, r.kickoff))' /\ (j.step = "sign" => SavedTake(j.v, j.d, r)')
  <2>1. NofN(TakeMsg(j.d, r.op, r.kickoff))'
    BY <1>4, NofNStable DEF JobGood
  <2>2. QED
    BY <1>4, <2>1 DEF JobGood, Grow, SavedTake
<1>5. /\ \A i \in 0 .. MinKickoffs-1 : \E r \in j.read : r.op = i
      /\ \A r \in j.read : r.op < j.passed
  BY DEF JobGood
<1>6. QED
  BY <1>1, <1>2, <1>3, <1>4, <1>5 DEF JobGood

-----------------------------------------------------------------------------
(* Signing. *)

(* A partial signature is made of a row and the nonce set of its deposit.  *)
LEMMA PartialSigMeans ==
    ASSUME NEW rows, NEW a, NEW p \in PartialSigs(rows, a)
    PROVE  \E r \in rows, n \in nonces :
                p = [v |-> r.v, d |-> r.d, idx |-> r.idx, nonce |-> n.id, msg |-> r.msg,
                     agg |-> a]
  BY DEF PartialSigs

Rows == [v : Verifiers, d : Deposits, idx : Idx, msg : Msg]

(* The sighashes of slash_or_take transactions are well-formed rows, one   *)
(* per index.                                                              *)
LEMMA SotRowsGood ==
    ASSUME NEW v \in Verifiers, NEW d \in Deposits, NEW ks \in KickoffLists
    PROVE  /\ SotRows(v, d, ks) \subseteq Rows
           /\ \A r \in SotRows(v, d, ks) :
                /\ r.v = v /\ r.d = d /\ r.msg.kind = "sot"
                /\ \E i \in Ops, k \in Kickoffs : r.idx = SotIdx(i) /\ r.msg = SotMsg(r.d, i, k)
           /\ \A r, s \in SotRows(v, d, ks) : r.idx = s.idx => r.msg = s.msg
<1> PICK m \in MinKickoffs .. N : ks \in [0 .. m-1 -> Kickoffs]
  BY DEF KickoffLists
<1>1. \A i \in DOMAIN ks : i \in Ops /\ ks[i] \in Kickoffs
  BY NAssumption, MinKickoffsAssumption DEF Ops
<1>2. \A i \in Ops : SotIdx(i) \in Idx
  BY NAssumption DEF Ops, SotIdx, Idx
<1>3. \A i \in Ops, j \in Ops : SotIdx(i) = SotIdx(j) => i = j
  BY NAssumption DEF Ops, SotIdx
<1>4. \A i \in Ops, k \in Kickoffs : SotMsg(d, i, k) \in Msg /\ SotMsg(d, i, k).kind = "sot"
  BY DEF SotMsg, Msg
<1>5. SotRows(v, d, ks) \subseteq Rows
  BY <1>1, <1>2, <1>4 DEF SotRows, Rows
<1>6. ASSUME NEW r \in SotRows(v, d, ks)
      PROVE  /\ r.v = v /\ r.d = d /\ r.msg.kind = "sot"
             /\ \E i \in Ops, k \in Kickoffs : r.idx = SotIdx(i) /\ r.msg = SotMsg(r.d, i, k)
  <2> PICK i \in DOMAIN ks :
        r = [v |-> v, d |-> d, idx |-> SotIdx(i), msg |-> SotMsg(d, i, ks[i])]
    BY DEF SotRows
  <2>1. r.v = v /\ r.d = d /\ r.idx = SotIdx(i) /\ r.msg = SotMsg(d, i, ks[i])
    OBVIOUS
  <2>2. QED
    BY <1>1, <1>4, <2>1
<1>7. ASSUME NEW r \in SotRows(v, d, ks), NEW s \in SotRows(v, d, ks), r.idx = s.idx
      PROVE  r.msg = s.msg
  <2> PICK i \in DOMAIN ks :
        r = [v |-> v, d |-> d, idx |-> SotIdx(i), msg |-> SotMsg(d, i, ks[i])]
    BY DEF SotRows
  <2> PICK j \in DOMAIN ks :
        s = [v |-> v, d |-> d, idx |-> SotIdx(j), msg |-> SotMsg(d, j, ks[j])]
    BY DEF SotRows
  <2>1. r.idx = SotIdx(i) /\ s.idx = SotIdx(j) /\ r.msg = SotMsg(d, i, ks[i])
        /\ s.msg = SotMsg(d, j, ks[j])
    OBVIOUS
  <2>2. i = j
    BY <1>1, <1>3, <1>7, <2>1
  <2>3. QED
    BY <2>1, <2>2
<1>8. QED
  BY <1>5, <1>6, <1>7

(* The same of the sighashes a handler saves: each is the operator_takes   *)
(* of a kickoff it has read, or the move transaction.                      *)
LEMMA JobRowsGood ==
    ASSUME TypeOK, KickInv, NEW j \in jobs, JobGood(j)
    PROVE  /\ JobRows(j) \subseteq Rows
           /\ \A r \in JobRows(j) :
                /\ r.v = j.v /\ r.d = j.d
                /\ j.call = "burn" => \E k \in j.read :
                    r.idx = TakeIdx(k.op) /\ r.msg = TakeMsg(j.d, k.op, k.kickoff)
                /\ j.call = "take" => r.idx = MoveIdx /\ r.msg = MoveMsg(j.d)
           /\ \A r, s \in JobRows(j) : r.idx = s.idx => r.msg = s.msg
<1>1. j.v \in Verifiers /\ j.d \in Deposits /\ j.call \in {"burn", "take"} /\ j.read \subseteq kicks
  BY DEF TypeOK
<1>2. \A k \in j.read : k.op \in Ops /\ k.kickoff \in Kickoffs /\ k.v = j.v /\ k.d = j.d
  BY <1>1 DEF TypeOK, JobGood, SavedKicks
<1>3. \A i \in Ops : TakeIdx(i) \in Idx
  BY NAssumption DEF Ops, TakeIdx, Idx
<1>4. \A i, h \in Ops : TakeIdx(i) = TakeIdx(h) => i = h
  BY NAssumption DEF Ops, TakeIdx
<1>5. \A i \in Ops, k \in Kickoffs : TakeMsg(j.d, i, k) \in Msg
  BY <1>1 DEF TakeMsg, Msg
<1>6. MoveMsg(j.d) \in Msg /\ MoveIdx \in Idx
  BY <1>1, NAssumption DEF MoveMsg, Msg, MoveIdx, Idx
<1>7. CASE j.call = "burn"
  <2>1. JobRows(j) = {[v |-> j.v, d |-> j.d, idx |-> TakeIdx(k.op),
                       msg |-> TakeMsg(j.d, k.op, k.kickoff)] : k \in j.read}
    BY <1>7 DEF JobRows
  <2>2. JobRows(j) \subseteq Rows
    BY <1>1, <1>2, <1>3, <1>5, <2>1 DEF Rows
  <2>3. \A r \in JobRows(j) : r.v = j.v /\ r.d = j.d /\ \E k \in j.read :
            r.idx = TakeIdx(k.op) /\ r.msg = TakeMsg(j.d, k.op, k.kickoff)
    BY <2>1
  <2>4. ASSUME NEW r \in JobRows(j), NEW s \in JobRows(j), r.idx = s.idx PROVE r.msg = s.msg
    <3> PICK k \in j.read : r.idx = TakeIdx(k.op) /\ r.msg = TakeMsg(j.d, k.op, k.kickoff)
      BY <2>3
    <3> PICK l \in j.read : s.idx = TakeIdx(l.op) /\ s.msg = TakeMsg(j.d, l.op, l.kickoff)
      BY <2>3
    <3>1. k.op = l.op
      BY <1>2, <1>4, <2>4
    <3>2. k = l
      BY <1>1, <1>2, <3>1 DEF KickInv
    <3>3. QED
      BY <3>2
  <2>5. QED
    BY <1>7, <2>2, <2>3, <2>4
<1>8. CASE j.call = "take"
  <2>1. JobRows(j) = {[v |-> j.v, d |-> j.d, idx |-> MoveIdx, msg |-> MoveMsg(j.d)]}
    BY <1>8 DEF JobRows
  <2>2. QED
    BY <1>1, <1>6, <1>8, <2>1 DEF Rows
<1>9. QED
  BY <1>1, <1>7, <1>8

Sigs == [v : Verifiers, d : Deposits, idx : Idx, nonce : Nat, msg : Msg, agg : Aggs]
SignatureInv ==
    sighashes \subseteq Rows /\ signed \subseteq Sigs /\ SighashInv /\ SignedInv

(* Saving well-formed rows that the trigger lets in, and signing them,     *)
(* keeps one sighash per nonce and a sighash for every signature.          *)
LEMMA SaveAndSignKeeps ==
    ASSUME TypeOK, SighashInv, SignedInv, Grow,
           NEW rows \in SUBSET Rows, NEW a \in Aggs, SaveAndSign(rows, a),
           \A r \in rows : RowMeans(r)' /\ agg'[<<r.v, r.d>>] # NULL,
           \A r, s \in rows : r.v = s.v /\ r.d = s.d /\ r.idx = s.idx => r.msg = s.msg
    PROVE  /\ SignatureInv'
           /\ \A p \in signed' : p \in signed \/ \E r \in rows :
                p.v = r.v /\ p.d = r.d /\ p.msg = r.msg
<1>1. sighashes' = sighashes \cup rows /\ signed' = signed \cup PartialSigs(rows, a)
  BY DEF SaveAndSign
<1>2. sighashes \subseteq Rows /\ signed \subseteq Sigs
  BY DEF TypeOK, Rows, Sigs
<1>3. ASSUME NEW p \in PartialSigs(rows, a)
      PROVE  /\ p \in Sigs
             /\ \E r \in rows : p.v = r.v /\ p.d = r.d /\ p.idx = r.idx /\ p.msg = r.msg
  <2> PICK r \in rows, n \in nonces :
        p = [v |-> r.v, d |-> r.d, idx |-> r.idx, nonce |-> n.id, msg |-> r.msg, agg |-> a]
    BY <1>3, PartialSigMeans
  <2>1. r \in Rows /\ n.id \in Nat
    BY DEF TypeOK
  <2>2. QED
    BY <2>1 DEF Rows, Sigs
<1>4. \A r, s \in sighashes' : r.v = s.v /\ r.d = s.d /\ r.idx = s.idx => r.msg = s.msg
  BY <1>1 DEF SaveAndSign, SighashesFree, SighashInv
<1>5. \A s \in sighashes' : RowMeans(s)'
  <2> SUFFICES ASSUME NEW s \in sighashes' PROVE RowMeans(s)'
    OBVIOUS
  <2>1. CASE s \in rows
    BY <2>1
  <2>2. CASE s \in sighashes
    BY <2>2, ReadyStable DEF SighashInv
  <2>3. QED
    BY <1>1, <2>1, <2>2
<1>6. ASSUME NEW p \in signed'
      PROVE  /\ [v |-> p.v, d |-> p.d, idx |-> p.idx, msg |-> p.msg] \in sighashes'
             /\ agg'[<<p.v, p.d>>] # NULL
  <2>1. CASE p \in signed
    <3>1. p.v \in Verifiers /\ p.d \in Deposits
      BY <1>2, <2>1 DEF Sigs
    <3>2. QED
      BY <2>1, <3>1 DEF SignedInv, Grow
  <2>2. CASE p \in PartialSigs(rows, a)
    <3> PICK r \in rows : p.v = r.v /\ p.d = r.d /\ p.idx = r.idx /\ p.msg = r.msg
      BY <1>3, <2>2
    <3>1. r = [v |-> r.v, d |-> r.d, idx |-> r.idx, msg |-> r.msg]
      BY DEF Rows
    <3>2. QED
      BY <1>1, <3>1
  <2>3. QED
    BY <1>1, <2>1, <2>2
<1>7. SignatureInv'
  <2>1. sighashes' \subseteq Rows
    BY <1>1, <1>2
  <2>2. signed' \subseteq Sigs
    BY <1>1, <1>2, <1>3
  <2>3. SighashInv'
    BY <1>4, <1>5 DEF SighashInv
  <2>4. SignedInv'
    BY <1>6 DEF SignedInv
  <2>5. Rows' = Rows /\ Sigs' = Sigs
    BY DEF Rows, Sigs
  <2>6. QED
    BY <2>1, <2>2, <2>3, <2>4, <2>5 DEF SignatureInv
<1>8. QED
  BY <1>1, <1>3, <1>7

(* operator_kickoffs_generated signs slash_or_take transactions only.      *)
LEMMA KickoffsSign ==
    ASSUME IInv, Grow, NEW v \in Verifiers, NEW d \in Deposits, NEW ks \in KickoffLists,
           NEW a \in Aggs, OperatorKickoffsGenerated(v, d, ks, a)
    PROVE  /\ SignatureInv'
           /\ \A p \in signed' : p \in signed \/ p.msg.kind = "sot"
<1> DEFINE rows == SotRows(v, d, ks)
<1>1. rows \in SUBSET Rows
  BY SotRowsGood
<1>2. a # NULL /\ agg' = [agg EXCEPT ![<<v, d>>] = a] /\ SaveAndSign(rows, a)
  BY AggNonceAssumption DEF OperatorKickoffsGenerated, Aggs
<1>3. ASSUME NEW r \in rows PROVE RowMeans(r)' /\ agg'[<<r.v, r.d>>] # NULL
  <2>1. r.v = v /\ r.d = d
    BY SotRowsGood
  <2>2. \E i \in Ops, k \in Kickoffs : r.idx = SotIdx(i) /\ r.msg = SotMsg(r.d, i, k)
    BY SotRowsGood
  <2>3. QED
    BY <1>2, <2>1, <2>2 DEF RowMeans, IInv, TypeOK
<1>4. \A r, s \in rows : r.v = s.v /\ r.d = s.d /\ r.idx = s.idx => r.msg = s.msg
  BY SotRowsGood
<1>5. /\ SignatureInv'
      /\ \A p \in signed' : p \in signed \/ \E r \in rows :
            p.v = r.v /\ p.d = r.d /\ p.msg = r.msg
  BY <1>1, <1>2, <1>3, <1>4, SaveAndSignKeeps DEF IInv
<1>6. \A r \in rows : r.msg.kind = "sot"
  BY SotRowsGood
<1> HIDE DEF rows
<1>7. QED
  BY <1>5, <1>6

(* A handler signs what it has prepared.                                   *)
LEMMA JobSigns ==
    ASSUME IInv, Grow, NEW j \in jobs, BurnSign(j) \/ TakeSign(j)
    PROVE  /\ SignatureInv'
           /\ \A p \in signed' : p \in signed \/ \E r \in JobRows(j) :
                p.v = r.v /\ p.d = r.d /\ p.msg = r.msg
<1> DEFINE rows == JobRows(j)
<1> PICK a : a = agg[<<j.v, j.d>>]
  OBVIOUS
<1>1. j.v \in Verifiers /\ j.d \in Deposits /\ JobGood(j) /\ TypeOK /\ KickInv
      /\ j.call \in {"burn", "take"} /\ j.read \subseteq kicks
  BY DEF IInv, TypeOK, JobInv
<1>2. a \in Aggs /\ a # NULL /\ UNCHANGED agg /\ SaveAndSign(rows, a) /\ kicks' = kicks
  BY <1>1 DEF TypeOK, BurnSign, TakeSign
<1>3. rows \in SUBSET Rows
  BY <1>1, JobRowsGood
<1>4. ASSUME NEW r \in rows PROVE RowMeans(r)' /\ agg'[<<r.v, r.d>>] # NULL
  <2>1. r.v = j.v /\ r.d = j.d
    BY <1>1, JobRowsGood
  <2>2. RowMeans(r)'
    <3>1. CASE j.call = "burn"
      <4> PICK k \in j.read : r.idx = TakeIdx(k.op) /\ r.msg = TakeMsg(j.d, k.op, k.kickoff)
        BY <1>1, <3>1, JobRowsGood
      <4>1. k \in kicks' /\ k.v = j.v /\ k.d = j.d
        BY <1>1, <1>2 DEF JobGood, SavedKicks
      <4>2. QED
        BY <2>1, <4>1 DEF RowMeans
    <3>2. CASE j.call = "take"
      <4>1. r.idx = MoveIdx /\ r.msg = MoveMsg(j.d)
        BY <1>1, <3>2, JobRowsGood
      <4>2. QED
        BY <2>1, <4>1 DEF RowMeans
    <3>3. QED
      BY <1>1, <3>1, <3>2
  <2>3. QED
    BY <1>2, <2>1, <2>2
<1>5. \A r, s \in rows : r.v = s.v /\ r.d = s.d /\ r.idx = s.idx => r.msg = s.msg
  BY <1>1, JobRowsGood
<1>6. QED
  BY <1>2, <1>3, <1>4, <1>5, SaveAndSignKeeps DEF IInv

-----------------------------------------------------------------------------
(* Preservation, one lemma per conjunct of the invariant.                  *)

(* The calls and steps that sign; all others leave sighashes and           *)
(* signatures alone.                                                       *)
LEMMA SigningSteps ==
    ASSUME [Next]_vars
    PROVE  \/ UNCHANGED <<sighashes, signed>>
           \/ \E v \in Verifiers, d \in Deposits, ks \in KickoffLists, a \in Aggs :
                OperatorKickoffsGenerated(v, d, ks, a)
           \/ \E j \in jobs : BurnSign(j) \/ TakeSign(j)
<1>1. ASSUME NEW v \in Verifiers, NEW d \in Deposits, Call(v, d)
      PROVE  \/ UNCHANGED <<sighashes, signed>>
             \/ \E ks \in KickoffLists, a \in Aggs : OperatorKickoffsGenerated(v, d, ks, a)
  BY <1>1 DEF Call, NewDeposit, NewDepositAgain, NewDepositDraw, OperatorKickoffsEarly,
     BurnTxsSigned, OperatorTakeTxsSigned
<1>2. ASSUME NEW n \in drawn, NewDepositCommit(n) PROVE UNCHANGED <<sighashes, signed>>
  BY <1>2 DEF NewDepositCommit
<1>3. ASSUME NEW j \in jobs, Step(j)
      PROVE  UNCHANGED <<sighashes, signed>> \/ BurnSign(j) \/ TakeSign(j)
  BY <1>3 DEF Step, BurnSaveSigs, TakeSaveSigs
<1>4. ASSUME NEW d \in Deposits, AggregateMoveTxSigs(d) PROVE UNCHANGED <<sighashes, signed>>
  BY <1>4 DEF AggregateMoveTxSigs
<1>5. ASSUME NEW v \in Verifiers, Crash(v) PROVE UNCHANGED <<sighashes, signed>>
  BY <1>5 DEF Crash
<1>6. CASE UNCHANGED vars
  BY <1>6 DEF vars
<1>7. QED
  BY <1>1, <1>2, <1>3, <1>4, <1>5, <1>6 DEF Next

(* One sighash per nonce, one saved sighash per signature.                 *)
LEMMA NextSignatureInv == IInv /\ [Next]_vars => SignatureInv'
<1> SUFFICES ASSUME IInv, [Next]_vars PROVE SignatureInv'
  OBVIOUS
<1>1. Grow
  BY GrowNext DEF IInv
<1>2. CASE UNCHANGED <<sighashes, signed>>
  <2>1. \A s \in sighashes' : RowMeans(s)'
    BY <1>1, <1>2, ReadyStable DEF IInv, SighashInv
  <2>2. SighashInv'
    BY <1>2, <2>1 DEF IInv, SighashInv
  <2>3. \A p \in signed : p.v \in Verifiers /\ p.d \in Deposits
    BY DEF IInv, TypeOK
  <2>4. SignedInv'
    BY <1>1, <1>2, <2>3 DEF IInv, SignedInv, Grow
  <2>5. (sighashes \subseteq Rows /\ signed \subseteq Sigs)'
    BY <1>2 DEF IInv, TypeOK, Rows, Sigs
  <2>6. QED
    BY <2>2, <2>4, <2>5 DEF SignatureInv
<1>3. ASSUME NEW v \in Verifiers, NEW d \in Deposits, NEW ks \in KickoffLists, NEW a \in Aggs,
             OperatorKickoffsGenerated(v, d, ks, a)
      PROVE  SignatureInv'
  BY <1>1, <1>3, KickoffsSign
<1>4. ASSUME NEW j \in jobs, BurnSign(j) \/ TakeSign(j) PROVE SignatureInv'
  BY <1>1, <1>4, JobSigns
<1>5. QED
  BY <1>2, <1>3, <1>4, SigningSteps

(* A signed transaction belongs to the deposit of the nonce that signed.   *)
LEMMA SignedDeposit ==
    ASSUME SighashInv, SignedInv, NEW p \in signed
    PROVE  p.msg.deposit = p.d
<1> DEFINE s == [v |-> p.v, d |-> p.d, idx |-> p.idx, msg |-> p.msg]
<1>1. s \in sighashes /\ s.d = p.d /\ s.msg = p.msg
  BY DEF SignedInv
<1>2. RowMeans(s)
  BY <1>1 DEF SighashInv
<1>3. MoveMsg(p.d).deposit = p.d
  BY DEF MoveMsg
<1>4. \A i, k : TakeMsg(p.d, i, k).deposit = p.d /\ SotMsg(p.d, i, k).deposit = p.d
  BY DEF TakeMsg, SotMsg
<1>5. s.msg = MoveMsg(p.d) \/ \E i, k : s.msg = TakeMsg(p.d, i, k) \/ s.msg = SotMsg(p.d, i, k)
  BY <1>1, <1>2 DEF RowMeans
<1>6. QED
  BY <1>1, <1>3, <1>4, <1>5

(* The primary key of nonces.                                              *)
LEMMA NextNonceInv == IInv /\ [Next]_vars => NonceInv'
<1> SUFFICES ASSUME IInv, [Next]_vars PROVE NonceInv'
  OBVIOUS
<1> USE DEF IInv, NonceInv
<1>1. ASSUME NEW v \in Verifiers, NEW d \in Deposits, Call(v, d) PROVE NonceInv'
  BY <1>1 DEF Call, NewDeposit, NewDepositAgain, NewDepositDraw, OperatorKickoffsGenerated,
     OperatorKickoffsEarly, BurnTxsSigned, OperatorTakeTxsSigned
<1>2. ASSUME NEW n \in drawn, NewDepositCommit(n) PROVE NonceInv'
  BY <1>2 DEF NewDepositCommit, HasNonces
<1>3. ASSUME NEW j \in jobs, Step(j) PROVE NonceInv'
  BY <1>3 DEF Step, BurnSaveSigs, BurnSign, TakeSaveSigs, TakeSign
<1>4. ASSUME NEW d \in Deposits, AggregateMoveTxSigs(d) PROVE NonceInv'
  BY <1>4 DEF AggregateMoveTxSigs
<1>5. ASSUME NEW v \in Verifiers, Crash(v) PROVE NonceInv'
  BY <1>5 DEF Crash
<1>6. CASE UNCHANGED vars
  BY <1>6 DEF vars
<1>7. QED
  BY <1>1, <1>2, <1>3, <1>4, <1>5, <1>6 DEF Next

(* ON CONFLICT DO NOTHING keeps the kickoff that was saved first, and a    *)
(* list covers the operators below MinKickoffs.                            *)
LEMMA NewKicksKeep ==
    ASSUME TypeOK, KickInv, NEW v \in Verifiers, NEW d \in Deposits, NEW ks \in KickoffLists,
           kicks' = kicks \cup NewKicks(v, d, ks)
    PROVE  /\ KickInv'
           /\ kicks' \subseteq [v : Verifiers, d : Deposits, op : Ops, kickoff : Kickoffs]
<1> PICK m \in MinKickoffs .. N : ks \in [0 .. m-1 -> Kickoffs]
  BY DEF KickoffLists
<1>1. \A i \in DOMAIN ks : i \in Ops /\ ks[i] \in Kickoffs
  BY NAssumption, MinKickoffsAssumption DEF Ops
<1>2. \A r \in NewKicks(v, d, ks) : \E i \in DOMAIN ks :
        /\ r = [v |-> v, d |-> d, op |-> i, kickoff |-> ks[i]]
        /\ \A s \in kicks : ~(s.v = v /\ s.d = d /\ s.op = i)
  BY DEF NewKicks
<1>3. \A r, s \in kicks' : r.v = s.v /\ r.d = s.d /\ r.op = s.op => r = s
  BY <1>2 DEF KickInv
<1>4. ASSUME NEW r \in kicks', NEW i \in Ops, i < MinKickoffs \/ i < r.op
      PROVE  \E s \in kicks' : s.v = r.v /\ s.d = r.d /\ s.op = i
  <2>1. CASE r \in kicks
    BY <1>4, <2>1 DEF KickInv
  <2>2. CASE r \in NewKicks(v, d, ks)
    <3>1. r.v = v /\ r.d = d /\ r.op \in DOMAIN ks
      BY <1>2, <2>2
    <3>2. i \in DOMAIN ks
      BY <1>4, <3>1, NAssumption, MinKickoffsAssumption DEF Ops
    <3>3. CASE \E s \in kicks : s.v = v /\ s.d = d /\ s.op = i
      BY <3>1, <3>3
    <3>4. CASE ~ \E s \in kicks : s.v = v /\ s.d = d /\ s.op = i
      <4>1. [v |-> v, d |-> d, op |-> i, kickoff |-> ks[i]] \in NewKicks(v, d, ks)
        BY <3>2, <3>4 DEF NewKicks
      <4>2. QED
        BY <3>1, <4>1
    <3>5. QED
      BY <3>3, <3>4
  <2>3. QED
    BY <2>1, <2>2
<1>5. kicks' \subseteq [v : Verifiers, d : Deposits, op : Ops, kickoff : Kickoffs]
  BY <1>1, <1>2 DEF TypeOK
<1>6. QED
  BY <1>3, <1>4, <1>5 DEF KickInv

(* The primary key of deposit_kickoff_utxos.                               *)
LEMMA NextKickInv == IInv /\ [Next]_vars => KickInv'
<1> SUFFICES ASSUME IInv, [Next]_vars PROVE KickInv'
  OBVIOUS
<1>1. CASE kicks' = kicks
  BY <1>1 DEF IInv, KickInv
<1>2. ASSUME NEW v \in Verifiers, NEW d \in Deposits, Call(v, d) PROVE KickInv'
  <2>1. ASSUME NEW ks \in KickoffLists, kicks' = kicks \cup NewKicks(v, d, ks) PROVE KickInv'
    BY <2>1, NewKicksKeep DEF IInv
  <2>2. QED
    BY <1>1, <1>2, <2>1 DEF Call, NewDeposit, NewDepositAgain, NewDepositDraw,
       OperatorKickoffsGenerated, OperatorKickoffsEarly, BurnTxsSigned, OperatorTakeTxsSigned
<1>3. ASSUME NEW n \in drawn, NewDepositCommit(n) PROVE KickInv'
  BY <1>1, <1>3 DEF NewDepositCommit
<1>4. ASSUME NEW j \in jobs, Step(j) PROVE KickInv'
  BY <1>1, <1>4 DEF Step, BurnSaveSigs, BurnSign, TakeSaveSigs, TakeSign
<1>5. ASSUME NEW d \in Deposits, AggregateMoveTxSigs(d) PROVE KickInv'
  BY <1>1, <1>5 DEF AggregateMoveTxSigs
<1>6. ASSUME NEW v \in Verifiers, Crash(v) PROVE KickInv'
  BY <1>1, <1>6 DEF Crash
<1>7. CASE UNCHANGED vars
  BY <1>1, <1>7 DEF vars
<1>8. QED
  BY <1>2, <1>3, <1>4, <1>5, <1>6, <1>7 DEF Next

(* A handler that saved its signatures goes on to its last statement.      *)
LEMMA SaveStep ==
    ASSUME TypeOK, NEW j \in jobs, BurnSaveSigs(j) \/ TakeSaveSigs(j)
    PROVE  \E k \in [v : Verifiers, d : Deposits, call : {"burn", "take"},
                     step : {"save", "sign"}, read : SUBSET kicks, passed : 0 .. N] :
                /\ jobs' = (jobs \ {j}) \cup {k}
                /\ k.v = j.v /\ k.d = j.d /\ k.call = j.call /\ k.read = j.read
                /\ k.passed = j.passed /\ k.step = "sign"
<1> DEFINE JobSet == [v : Verifiers, d : Deposits, call : {"burn", "take"},
                      step : {"save", "sign"}, read : SUBSET kicks, passed : 0 .. N]
<1> PICK k : k = [j EXCEPT !.step = "sign"]
  OBVIOUS
<1>1. j \in JobSet
  BY DEF TypeOK
<1>2. /\ k \in JobSet
      /\ k.v = j.v /\ k.d = j.d /\ k.call = j.call /\ k.read = j.read
      /\ k.passed = j.passed /\ k.step = "sign"
  BY <1>1
<1>3. jobs' = (jobs \ {j}) \cup {[j EXCEPT !.step = "sign"]}
  BY Zenon DEF BurnSaveSigs, TakeSaveSigs
<1>4. jobs' = (jobs \ {j}) \cup {k}
  BY <1>3, Zenon
<1>5. QED
  BY <1>2, <1>4

(* The rows and the running handlers stay well-formed.                     *)
LEMMA NextTypeOK == IInv /\ [Next]_vars => TypeOK'
<1> SUFFICES ASSUME IInv, [Next]_vars PROVE TypeOK'
  OBVIOUS
<1>1. SignatureInv'
  BY NextSignatureInv
<1>2. sighashes' \subseteq Rows /\ signed' \subseteq Sigs
  BY <1>1 DEF SignatureInv, Rows, Sigs
<1> USE <1>2 DEF IInv, TypeOK, Rows, Sigs
<1>3. ASSUME NEW v \in Verifiers, NEW d \in Deposits, NewDeposit(v, d) PROVE TypeOK'
  BY <1>3 DEF NewDeposit, NewDepositAgain, NewDepositDraw
<1>4. ASSUME NEW v \in Verifiers, NEW d \in Deposits, NEW ks \in KickoffLists, NEW a \in Aggs,
             OperatorKickoffsGenerated(v, d, ks, a)
      PROVE  TypeOK'
  <2>1. kicks' \subseteq [v : Verifiers, d : Deposits, op : Ops, kickoff : Kickoffs]
    BY <1>4, NewKicksKeep DEF OperatorKickoffsGenerated
  <2>2. kicks \subseteq kicks'
    BY <1>4 DEF OperatorKickoffsGenerated
  <2>3. QED
    BY <1>4, <2>1, <2>2 DEF OperatorKickoffsGenerated
<1>5. ASSUME NEW v \in Verifiers, NEW d \in Deposits, NEW ks \in KickoffLists,
             OperatorKickoffsEarly(v, d, ks)
      PROVE  TypeOK'
  <2>1. kicks' \subseteq [v : Verifiers, d : Deposits, op : Ops, kickoff : Kickoffs]
    BY <1>5, NewKicksKeep DEF OperatorKickoffsEarly
  <2>2. QED
    BY <1>5, <2>1 DEF OperatorKickoffsEarly
<1>6. ASSUME NEW v \in Verifiers, NEW d \in Deposits,
             BurnTxsSigned(v, d) \/ OperatorTakeTxsSigned(v, d)
      PROVE  TypeOK'
  <2>1. SavedKicks(v, d) \subseteq kicks /\ N \in 0 .. N
    BY NAssumption DEF SavedKicks
  <2>2. \A c \in {"burn", "take"}, n \in 0 .. N : NewJob(v, d, c, "save", n) \in
          [v : Verifiers, d : Deposits, call : {"burn", "take"},
           step : {"save", "sign"}, read : SUBSET kicks, passed : 0 .. N]
    BY <2>1 DEF NewJob
  <2>3. QED
    BY <1>6, <2>1, <2>2 DEF BurnTxsSigned, OperatorTakeTxsSigned
<1>7. ASSUME NEW n \in drawn, NewDepositCommit(n) PROVE TypeOK'
  BY <1>7 DEF NewDepositCommit
<1>8. ASSUME NEW j \in jobs, BurnSaveSigs(j) \/ TakeSaveSigs(j) PROVE TypeOK'
  <2>1. \A r \in j.read : /\ r \in kicks
                          /\ SotMsg(j.d, r.op, r.kickoff) \in Msg
                          /\ TakeMsg(j.d, r.op, r.kickoff) \in Msg
    BY DEF SotMsg, TakeMsg, Msg
  <2>5. SotUpdate(j) \subseteq
            [v : Verifiers, d : Deposits, op : Ops, msg : Msg \cup {NULL}]
    BY <2>1 DEF SotUpdate, SavedKicks
  <2>6. sotSigs' \subseteq [v : Verifiers, d : Deposits, op : Ops, msg : Msg \cup {NULL}]
    BY <1>8, <2>5 DEF BurnSaveSigs, TakeSaveSigs
  <2>2. /\ sotSigs' \subseteq [v : Verifiers, d : Deposits, op : Ops, msg : Msg \cup {NULL}]
        /\ takeSigs' \subseteq [v : Verifiers, d : Deposits, op : Ops, msg : Msg]
        /\ UNCHANGED <<nonces, agg, kicks, drawn, given, moved, draws, crashes>>
    BY <1>8, <2>1, <2>6 DEF BurnSaveSigs, TakeSaveSigs
  <2>3. jobs' \subseteq [v : Verifiers, d : Deposits, call : {"burn", "take"},
                         step : {"save", "sign"}, read : SUBSET kicks, passed : 0 .. N]
    BY <1>8, SaveStep
  <2>4. QED
    BY <2>2, <2>3
<1>9. ASSUME NEW j \in jobs, BurnSign(j) \/ TakeSign(j) PROVE TypeOK'
  BY <1>9 DEF BurnSign, TakeSign
<1>10. ASSUME NEW d \in Deposits, AggregateMoveTxSigs(d) PROVE TypeOK'
  BY <1>10 DEF AggregateMoveTxSigs
<1>11. ASSUME NEW v \in Verifiers, Crash(v) PROVE TypeOK'
  BY <1>11 DEF Crash
<1>12. CASE UNCHANGED vars
  BY <1>12 DEF vars
<1>13. QED
  BY <1>3, <1>4, <1>5, <1>6, <1>7, <1>8, <1>9, <1>10, <1>11, <1>12
     DEF Next, Call, Step

(* A verifier that took part in an n-of-n signature has saved an aggregate *)
(* nonce for the deposit.                                                  *)
LEMMA NofNHasAgg ==
    ASSUME IInv, NEW v \in Verifiers, NEW m, NofN(m)
    PROVE  agg[<<v, m.deposit>>] # NULL
<1> PICK p \in signed : p.v = v /\ p.msg = m
  BY DEF NofN
<1>1. p.d = m.deposit
  BY SignedDeposit DEF IInv
<1>2. QED
  BY <1>1 DEF IInv, SignedInv

(* A handler that starts has verified n-of-n signatures on what it read,   *)
(* which covers the operators below MinKickoffs.                           *)
LEMMA JobStarts ==
    ASSUME IInv, NEW v \in Verifiers, NEW d \in Deposits, NEW c \in {"burn", "take"},
           SavedKicks(v, d) # {},
           c = "burn" => \A r \in SavedKicks(v, d) : NofN(SotMsg(d, r.op, r.kickoff)),
           c = "take" => \A r \in SavedKicks(v, d) : NofN(TakeMsg(d, r.op, r.kickoff)),
           NEW n \in 0 .. N, EnoughPassed(v, d, n),
           NEW j, j = NewJob(v, d, c, "save", n)
    PROVE  JobGood(j)
<1>1. /\ j.v = v /\ j.d = d /\ j.call = c /\ j.step = "save" /\ j.read = SavedKicks(v, d)
      /\ j.passed = n
  BY DEF NewJob
<1>2. PICK r \in SavedKicks(v, d) : TRUE
  OBVIOUS
<1>3. agg[<<v, d>>] # NULL
  <2>1. SotMsg(d, r.op, r.kickoff).deposit = d /\ TakeMsg(d, r.op, r.kickoff).deposit = d
    BY DEF SotMsg, TakeMsg
  <2>2. CASE c = "burn"
    <3>1. NofN(SotMsg(d, r.op, r.kickoff))
      BY <2>2
    <3>2. agg[<<v, SotMsg(d, r.op, r.kickoff).deposit>>] # NULL
      BY <3>1, NofNHasAgg
    <3>3. QED
      BY <2>1, <3>2
  <2>3. CASE c = "take"
    <3>1. NofN(TakeMsg(d, r.op, r.kickoff))
      BY <2>3
    <3>2. agg[<<v, TakeMsg(d, r.op, r.kickoff).deposit>>] # NULL
      BY <3>1, NofNHasAgg
    <3>3. QED
      BY <2>1, <3>2
  <2>4. QED
    BY <2>2, <2>3
<1>4. \A i \in 0 .. MinKickoffs-1 : \E s \in SavedKicks(v, d) : s.op = i
  BY <1>2, NAssumption, MinKickoffsAssumption DEF IInv, KickInv, SavedKicks, Ops
<1>5. QED
  BY <1>1, <1>3, <1>4 DEF JobGood, EnoughPassed

(* The handlers: their own steps establish what they rely on, the steps of *)
(* others keep it.                                                         *)
LEMMA NextJobInv == IInv /\ [Next]_vars => JobInv'
<1> SUFFICES ASSUME IInv, [Next]_vars PROVE JobInv'
  OBVIOUS
<1>1. Grow /\ SotKept /\ TypeOK
  BY GrowNext, SotKeptNext DEF IInv
<1>2. \A j \in jobs : JobGood(j)'
  BY <1>1, JobStable DEF IInv, JobInv
<1>3. CASE jobs' \subseteq jobs
  BY <1>2, <1>3 DEF JobInv
<1>4. ASSUME NEW v \in Verifiers, NEW d \in Deposits,
             BurnTxsSigned(v, d) \/ OperatorTakeTxsSigned(v, d)
      PROVE  JobInv'
  <2>5. \A r \in SavedKicks(v, d) : r.op < N
    BY NAssumption DEF SavedKicks, IInv, TypeOK, Ops
  <2> PICK c \in {"burn", "take"}, n \in 0 .. N :
        /\ jobs' = jobs \cup {NewJob(v, d, c, "save", n)}
        /\ EnoughPassed(v, d, n)
        /\ SavedKicks(v, d) # {}
        /\ c = "burn" => \A r \in SavedKicks(v, d) : NofN(SotMsg(d, r.op, r.kickoff))
        /\ c = "take" => \A r \in SavedKicks(v, d) : NofN(TakeMsg(d, r.op, r.kickoff))
    BY <1>4, <2>5, NAssumption DEF BurnTxsSigned, OperatorTakeTxsSigned, EnoughPassed
  <2> PICK j : j = NewJob(v, d, c, "save", n)
    OBVIOUS
  <2>1. JobGood(j)
    BY JobStarts
  <2>2. UNCHANGED <<agg, kicks, sotSigs, takeSigs, signed>>
    BY <1>4 DEF BurnTxsSigned, OperatorTakeTxsSigned
  <2>3. JobGood(j)'
    BY <2>1, <2>2 DEF JobGood, SavedKicks, NofN, SavedSot, SavedTake
  <2>4. QED
    BY <1>2, <2>3 DEF JobInv
<1>5. ASSUME NEW j \in jobs, BurnSaveSigs(j) \/ TakeSaveSigs(j) PROVE JobInv'
  <2> PICK k : /\ jobs' = (jobs \ {j}) \cup {k}
               /\ k.v = j.v /\ k.d = j.d /\ k.call = j.call /\ k.read = j.read
               /\ k.passed = j.passed /\ k.step = "sign"
    BY <1>1, <1>5, SaveStep
  <2>1. JobGood(j)' /\ JobGood(j) /\ j.read \subseteq kicks
    BY <1>1, <1>2 DEF TypeOK, IInv, JobInv
  <2>2. ASSUME k.call = "burn", NEW r \in k.read PROVE SavedSot(k.v, k.d, r)'
    <3>1. BurnSaveSigs(j)
      BY <1>5, <2>2 DEF TakeSaveSigs
    <3>2. r \in SavedKicks(j.v, j.d) /\ r.op < j.passed /\ r \in j.read
      BY <2>1, <2>2 DEF JobGood
    <3>3. [v |-> j.v, d |-> j.d, op |-> r.op, msg |-> SotMsg(j.d, r.op, r.kickoff)]
            \in SotUpdate(j)
      BY <3>2 DEF SotUpdate
    <3>4. QED
      BY <3>1, <3>3 DEF BurnSaveSigs, SavedSot
  <2>3. k.call = "take" => \A r \in k.read : SavedTake(k.v, k.d, r)'
    BY <1>5, <2>1 DEF BurnSaveSigs, TakeSaveSigs, SavedTake
  <2>4. JobGood(k)'
    BY <2>1, <2>2, <2>3 DEF JobGood
  <2>5. QED
    BY <1>2, <2>4 DEF JobInv
<1>6. ASSUME NEW v \in Verifiers, NEW d \in Deposits, Call(v, d) PROVE JobInv'
  BY <1>3, <1>4, <1>6 DEF Call, NewDeposit, NewDepositAgain, NewDepositDraw,
     OperatorKickoffsGenerated, OperatorKickoffsEarly
<1>7. ASSUME NEW n \in drawn, NewDepositCommit(n) PROVE JobInv'
  BY <1>3, <1>7 DEF NewDepositCommit
<1>8. ASSUME NEW j \in jobs, Step(j) PROVE JobInv'
  BY <1>3, <1>5, <1>8 DEF Step, BurnSign, TakeSign
<1>9. ASSUME NEW d \in Deposits, AggregateMoveTxSigs(d) PROVE JobInv'
  BY <1>3, <1>9 DEF AggregateMoveTxSigs
<1>10. ASSUME NEW v \in Verifiers, Crash(v) PROVE JobInv'
  BY <1>3, <1>10 DEF Crash
<1>11. CASE UNCHANGED vars
  BY <1>3, <1>11 DEF vars
<1>12. QED
  BY <1>6, <1>7, <1>8, <1>9, <1>10, <1>11 DEF Next

(* The order of the stages: whoever signs operator_takes has the           *)
(* slash_or_take signatures, whoever signs move has those of operator_takes. *)
LEMMA NextStageInv == IInv /\ [Next]_vars => StageInv'
<1> SUFFICES ASSUME IInv, [Next]_vars PROVE StageInv'
  OBVIOUS
<1>1. Grow /\ SotKept /\ TypeOK
  BY GrowNext, SotKeptNext DEF IInv
<1> DEFINE Staged(p) == /\ p.msg.kind = "take" => TakeReady(p)
                        /\ p.msg.kind = "move" => MoveReady(p)
<1>2. \A p \in signed : Staged(p)'
  BY <1>1, ReadyStable DEF IInv, StageInv
<1>3. ASSUME NEW j \in jobs, BurnSign(j) \/ TakeSign(j), NEW p \in signed' PROVE Staged(p)'
  <2>1. CASE p \in signed
    BY <1>2, <2>1
  <2>2. CASE p \notin signed
    <3> PICK r \in JobRows(j) : p.v = r.v /\ p.d = r.d /\ p.msg = r.msg
      BY <1>1, <1>3, <2>2, JobSigns
    <3>1. JobGood(j) /\ JobGood(j)' /\ KickInv
      BY <1>1, JobStable DEF IInv, JobInv
    <3>2. r.v = j.v /\ r.d = j.d
      BY <1>1, <3>1, JobRowsGood
    <3>3. j.step = "sign"
      BY <1>3 DEF BurnSign, TakeSign
    <3>4. CASE j.call = "burn"
      <4> PICK k \in j.read : r.msg = TakeMsg(j.d, k.op, k.kickoff)
        BY <1>1, <3>1, <3>4, JobRowsGood
      <4>1. /\ k \in kicks' /\ k.v = j.v /\ k.d = j.d
            /\ k.op < MinKickoffs => SavedSot(j.v, j.d, k)'
            /\ NofN(SotMsg(j.d, k.op, k.kickoff))'
        BY <3>1, <3>3, <3>4 DEF JobGood, SavedKicks
      <4>2. TakeReady(p)'
        BY <3>2, <4>1 DEF TakeReady
      <4>3. p.msg.kind = "take"
        BY DEF TakeMsg
      <4>4. QED
        BY <4>2, <4>3
    <3>5. CASE j.call = "take"
      <4>1. p.msg.kind = "move"
        <5>1. p.msg = MoveMsg(j.d)
          BY <1>1, <3>1, <3>5, JobRowsGood
        <5>2. QED
          BY <5>1 DEF MoveMsg
      <4>2. MoveReady(p)'
        <5> SUFFICES ASSUME NEW i \in 0 .. MinKickoffs-1
                     PROVE  \E k \in kicks' :
                              /\ k.v = p.v /\ k.d = p.d /\ k.op = i
                              /\ SavedTake(p.v, p.d, k)'
                              /\ NofN(TakeMsg(p.d, k.op, k.kickoff))'
          BY DEF MoveReady
        <5> PICK k \in j.read : k.op = i
          BY <3>1, <3>5 DEF JobGood
        <5>1. /\ k \in kicks' /\ k.v = j.v /\ k.d = j.d
              /\ SavedTake(j.v, j.d, k)' /\ NofN(TakeMsg(j.d, k.op, k.kickoff))'
          BY <3>1, <3>3, <3>5 DEF JobGood, SavedKicks
        <5>2. QED
          BY <3>2, <5>1
      <4>3. QED
        BY <4>1, <4>2
    <3>6. QED
      BY <1>1, <3>4, <3>5 DEF TypeOK
  <2>3. QED
    BY <2>1, <2>2
<1>4. ASSUME NEW v \in Verifiers, NEW d \in Deposits, NEW ks \in KickoffLists, NEW a \in Aggs,
             OperatorKickoffsGenerated(v, d, ks, a), NEW p \in signed'
      PROVE  Staged(p)'
  <2>1. p \in signed \/ p.msg.kind = "sot"
    BY <1>1, <1>4, KickoffsSign
  <2>2. QED
    BY <1>2, <2>1
<1>5. \A p \in signed' : Staged(p)'
  BY <1>2, <1>3, <1>4, SigningSteps
<1>6. \A d \in moved' : NofN(MoveMsg(d))'
  <2>1. \A d \in moved : NofN(MoveMsg(d))'
    BY <1>1, NofNStable DEF IInv, StageInv
  <2>2. \A d \in moved' : d \in moved \/ NofN(MoveMsg(d))
    <3>1. ASSUME NEW v \in Verifiers, NEW d \in Deposits, Call(v, d) PROVE moved' = moved
      BY <3>1 DEF Call, NewDeposit, NewDepositAgain, NewDepositDraw, OperatorKickoffsEarly,
         OperatorKickoffsGenerated, BurnTxsSigned, OperatorTakeTxsSigned
    <3>2. ASSUME NEW n \in drawn, NewDepositCommit(n) PROVE moved' = moved
      BY <3>2 DEF NewDepositCommit
    <3>3. ASSUME NEW j \in jobs, Step(j) PROVE moved' = moved
      BY <3>3, Zenon DEF Step, BurnSaveSigs, BurnSign, TakeSaveSigs, TakeSign
    <3>4. ASSUME NEW v \in Verifiers, Crash(v) PROVE moved' = moved
      BY <3>4 DEF Crash
    <3>5. ASSUME NEW d \in Deposits, AggregateMoveTxSigs(d)
          PROVE  \A e \in moved' : e \in moved \/ NofN(MoveMsg(e))
      BY <3>5 DEF AggregateMoveTxSigs
    <3>6. QED
      BY <3>1, <3>2, <3>3, <3>4, <3>5 DEF Next, vars
  <2>3. QED
    BY <1>1, <2>1, <2>2, NofNStable
<1>7. QED
  BY <1>5, <1>6 DEF StageInv

-----------------------------------------------------------------------------
(* Theorems. *)

(* The invariant holds in every reachable state of the verifiers, for any  *)
(* number of them and any interleaving of the RPCs.                        *)
THEOREM Invariance == Spec => []IInv
<1>1. Init => IInv
  <2> SUFFICES ASSUME Init PROVE IInv
    OBVIOUS
  <2>1. TypeOK
    BY DEF Init, TypeOK
  <2>2. NonceInv /\ KickInv /\ SighashInv /\ SignedInv /\ JobInv /\ StageInv
    BY DEF Init, NonceInv, KickInv, SighashInv, SignedInv, JobInv, StageInv
  <2>3. QED
    BY <2>1, <2>2 DEF IInv
<1>2. IInv /\ [Next]_vars => IInv'
  BY NextTypeOK, NextNonceInv, NextKickInv, NextSignatureInv, NextJobInv, NextStageInv
     DEF IInv, SignatureInv
<1>3. QED
  BY <1>1, <1>2, PTL DEF Spec

(* The tables of the verifiers, their handlers and the signatures they     *)
(* made are always well-formed.                                            *)
THEOREM TypeCorrect == Spec => []TypeOK
<1>1. IInv => TypeOK
  BY DEF IInv
<1>2. QED
  BY <1>1, Invariance, PTL

(* A secret nonce never signs two messages: the sighash saved with it is   *)
(* the only one partial_sign is ever called with.                          *)
THEOREM NonceAlwaysSignsOneMessage == Spec => []NonceSignsOneMessage
<1>1. IInv => NonceSignsOneMessage
  <2> SUFFICES ASSUME IInv, NEW p \in signed, NEW q \in signed,
                      p.v = q.v, p.d = q.d, p.idx = q.idx
               PROVE  p.msg = q.msg
    BY DEF NonceSignsOneMessage
  <2> DEFINE r == [v |-> p.v, d |-> p.d, idx |-> p.idx, msg |-> p.msg]
             s == [v |-> q.v, d |-> q.d, idx |-> q.idx, msg |-> q.msg]
  <2>1. r \in sighashes /\ s \in sighashes
    BY DEF IInv, SignedInv
  <2>2. QED
    BY <2>1 DEF IInv, SighashInv
<1>2. QED
  BY <1>1, Invariance, PTL

(* new_deposit returns the nonces the verifier will sign with, to every    *)
(* caller the same.                                                        *)
THEOREM NoncesGivenAlwaysSaved == Spec => []NoncesGivenAreSaved
<1>1. IInv => NoncesGivenAreSaved
  BY DEF IInv, NonceInv, NoncesGivenAreSaved
<1>2. QED
  BY <1>1, Invariance, PTL

(* operator_takes is signed only when the slash_or_take signatures for the *)
(* same kickoff are complete, and those of the operators whose kickoff     *)
(* every caller passes stay in the table, whatever is saved later.         *)
THEOREM TakeAlwaysSignedAfterSot == Spec => []TakeSignedAfterSot
<1>1. IInv => TakeSignedAfterSot
  <2> SUFFICES ASSUME IInv, NEW p \in signed, p.msg.kind = "take"
               PROVE  \E r \in kicks :
                /\ r.v = p.v /\ r.d = p.d /\ r.op = p.msg.op /\ r.kickoff = p.msg.kickoff
                /\ NofN(SotMsg(p.d, r.op, r.kickoff))
                /\ r.op < MinKickoffs => \E s \in sotSigs :
                    /\ s.v = p.v /\ s.d = p.d /\ s.op = r.op
                    /\ s.msg = SotMsg(p.d, r.op, r.kickoff)
    BY DEF TakeSignedAfterSot
  <2> PICK r \in kicks :
        /\ r.v = p.v /\ r.d = p.d /\ p.msg = TakeMsg(p.d, r.op, r.kickoff)
        /\ r.op < MinKickoffs => SavedSot(p.v, p.d, r)
        /\ NofN(SotMsg(p.d, r.op, r.kickoff))
    BY DEF IInv, StageInv, TakeReady
  <2>1. p.msg.op = r.op /\ p.msg.kickoff = r.kickoff
    BY DEF TakeMsg
  <2>2. r.op < MinKickoffs => \E s \in sotSigs :
            s.v = p.v /\ s.d = p.d /\ s.op = r.op /\ s.msg = SotMsg(p.d, r.op, r.kickoff)
    BY DEF SavedSot
  <2>3. QED
    BY <2>1, <2>2
<1>2. QED
  BY <1>1, Invariance, PTL

(* The last statement of burn_txs_signed and operator_take_txs_signed is   *)
(* never refused by the trigger and finds an aggregate nonce.              *)
THEOREM SignStepNeverRefused == Spec => []SignStepNotRefused
<1>1. IInv => SignStepNotRefused
  <2> SUFFICES ASSUME IInv, NEW j \in jobs
               PROVE  agg[<<j.v, j.d>>] # NULL /\ SighashesFree(JobRows(j))
    BY DEF SignStepNotRefused
  <2>1. JobGood(j) /\ TypeOK /\ KickInv
    BY DEF IInv, JobInv
  <2>2. ASSUME NEW r \in JobRows(j), NEW s \in sighashes, r.v = s.v, r.d = s.d, r.idx = s.idx
        PROVE  r.msg = s.msg
    <3>1. RowMeans(s) /\ r.v = j.v /\ r.d = j.d /\ r \in Rows
      BY <2>1, JobRowsGood DEF IInv, SighashInv
    <3>2. \A i \in Ops : /\ MoveIdx # TakeIdx(i) /\ MoveIdx # SotIdx(i)
                         /\ \A h \in Ops : /\ TakeIdx(i) # SotIdx(h)
                                           /\ TakeIdx(i) = TakeIdx(h) => i = h
      BY NAssumption DEF Ops, MoveIdx, TakeIdx, SotIdx
    <3>3. \A k \in kicks : k.op \in Ops
      BY <2>1 DEF TypeOK
    <3>4. CASE j.call = "burn"
      <4> PICK k \in j.read : r.idx = TakeIdx(k.op) /\ r.msg = TakeMsg(j.d, k.op, k.kickoff)
        BY <2>1, <3>4, JobRowsGood
      <4>1. k \in kicks /\ k.v = j.v /\ k.d = j.d
        BY <2>1 DEF JobGood, SavedKicks
      <4> PICK l \in kicks : /\ l.v = s.v /\ l.d = s.d
                             /\ s.idx = TakeIdx(l.op) /\ s.msg = TakeMsg(s.d, l.op, l.kickoff)
        BY <2>2, <3>1, <3>2, <3>3, <4>1 DEF RowMeans
      <4>2. k.op = l.op
        BY <2>2, <3>2, <3>3, <4>1
      <4>3. k = l
        BY <2>1, <2>2, <3>1, <4>1, <4>2 DEF KickInv
      <4>4. QED
        BY <2>2, <3>1, <4>3
    <3>5. CASE j.call = "take"
      <4>1. r.idx = MoveIdx /\ r.msg = MoveMsg(j.d)
        BY <2>1, <3>5, JobRowsGood
      <4>2. s.msg = MoveMsg(s.d)
        BY <2>2, <3>1, <3>2, <3>3, <4>1 DEF RowMeans
      <4>3. QED
        BY <2>2, <3>1, <4>1, <4>2
    <3>6. QED
      BY <2>1, <3>4, <3>5 DEF TypeOK
  <2>3. QED
    BY <2>1, <2>2 DEF JobGood, SighashesFree
<1>2. QED
  BY <1>1, Invariance, PTL

(* What a completely signed move transaction shows of one verifier: it has *)
(* saved a kickoff of each operator below MinKickoffs with both n-of-n     *)
(* signatures.                                                             *)
LEMMA MovedHasKickoffs ==
    ASSUME IInv, NEW d \in moved, NEW v \in Verifiers, NEW i \in 0 .. MinKickoffs-1
    PROVE  \E r \in kicks :
                /\ r.v = v /\ r.d = d /\ r.op = i
                /\ SavedTake(v, d, r) /\ NofN(TakeMsg(d, i, r.kickoff))
                /\ SavedSot(v, d, r) /\ NofN(SotMsg(d, i, r.kickoff))
<1>1. NofN(MoveMsg(d)) /\ MoveMsg(d).kind = "move" /\ MoveMsg(d).deposit = d
  BY DEF IInv, StageInv, MoveMsg
<1> PICK p \in signed : p.v = v /\ p.msg = MoveMsg(d)
  BY <1>1 DEF NofN
<1>2. p.d = d
  BY <1>1, SignedDeposit DEF IInv
<1> PICK r \in kicks : /\ r.v = v /\ r.d = d /\ r.op = i
                       /\ SavedTake(v, d, r) /\ NofN(TakeMsg(d, r.op, r.kickoff))
  BY <1>1, <1>2 DEF IInv, StageInv, MoveReady
<1> DEFINE m == TakeMsg(d, i, r.kickoff)
<1>3. m.kind = "take" /\ m.deposit = d /\ m.op = i /\ m.kickoff = r.kickoff
  BY DEF TakeMsg
<1> PICK q \in signed : q.v = v /\ q.msg = m
  BY DEF NofN
<1>4. q.d = d
  BY <1>3, SignedDeposit DEF IInv
<1> PICK s \in kicks : /\ s.v = v /\ s.d = d /\ m = TakeMsg(d, s.op, s.kickoff)
                       /\ s.op < MinKickoffs => SavedSot(v, d, s)
                       /\ NofN(SotMsg(d, s.op, s.kickoff))
  BY <1>3, <1>4 DEF IInv, StageInv, TakeReady
<1>5. s.op = i
  <2>1. TakeMsg(d, s.op, s.kickoff).op = s.op
    BY DEF TakeMsg
  <2>2. QED
    BY <1>3, <2>1
<1>6. s = r
  BY <1>5 DEF IInv, KickInv
<1>7. i < MinKickoffs
  BY NAssumption, MinKickoffsAssumption
<1>8. QED
  BY <1>5, <1>6, <1>7

(* When a deposit is moved, every verifier holds the signatures that       *)
(* reimburse each operator whose kickoff all callers pass.                 *)
THEOREM MovedAlwaysReimbursable == Spec => []MovedImpliesReimbursable
<1>1. IInv => MovedImpliesReimbursable
  <2> SUFFICES ASSUME IInv, NEW d \in moved, NEW v \in Verifiers, NEW i \in 0 .. MinKickoffs-1
               PROVE  \E r \in kicks, s \in sotSigs, t \in takeSigs :
                /\ r.v = v /\ r.d = d /\ r.op = i
                /\ s.v = v /\ s.d = d /\ s.op = i /\ s.msg = SotMsg(d, i, r.kickoff)
                /\ t.v = v /\ t.d = d /\ t.op = i /\ t.msg = TakeMsg(d, i, r.kickoff)
                /\ NofN(s.msg) /\ NofN(t.msg)
    BY DEF MovedImpliesReimbursable
  <2> PICK r \in kicks :
        /\ r.v = v /\ r.d = d /\ r.op = i
        /\ SavedTake(v, d, r) /\ NofN(TakeMsg(d, i, r.kickoff))
        /\ SavedSot(v, d, r) /\ NofN(SotMsg(d, i, r.kickoff))
    BY MovedHasKickoffs
  <2> PICK s \in sotSigs : s.v = v /\ s.d = d /\ s.op = i /\ s.msg = SotMsg(d, i, r.kickoff)
    BY DEF SavedSot
  <2> PICK t \in takeSigs : t.v = v /\ t.d = d /\ t.op = i /\ t.msg = TakeMsg(d, i, r.kickoff)
    BY DEF SavedTake
  <2>1. QED
    OBVIOUS
<1>2. QED
  BY <1>1, Invariance, PTL

(* When a deposit is moved, all verifiers have saved the same kickoffs of  *)
(* these operators.                                                        *)
THEOREM MovedAlwaysAgreed == Spec => []MovedImpliesAgreement
<1>1. IInv => MovedImpliesAgreement
  <2> SUFFICES ASSUME IInv, NEW d \in moved, NEW r \in kicks, NEW s \in kicks,
                      r.d = d, s.d = d, r.op = s.op, r.op < MinKickoffs
               PROVE  r.kickoff = s.kickoff
    BY DEF MovedImpliesAgreement
  <2>1. r.v \in Verifiers /\ s.v \in Verifiers /\ r.op \in 0 .. MinKickoffs-1
    BY NAssumption, MinKickoffsAssumption DEF IInv, TypeOK, Ops
  <2> PICK t \in kicks : /\ t.v = r.v /\ t.d = d /\ t.op = r.op
                         /\ NofN(TakeMsg(d, r.op, t.kickoff))
    BY <2>1, MovedHasKickoffs
  <2>2. t = r
    BY DEF IInv, KickInv
  <2> DEFINE m == TakeMsg(d, r.op, r.kickoff)
  <2>3. m.kind = "take" /\ m.deposit = d /\ m.op = r.op /\ m.kickoff = r.kickoff
    BY DEF TakeMsg
  <2> PICK q \in signed : q.v = s.v /\ q.msg = m
    BY <2>1, <2>2 DEF NofN
  <2>4. q.d = d
    BY <2>3, SignedDeposit DEF IInv
  <2> PICK u \in kicks : u.v = s.v /\ u.d = d /\ m = TakeMsg(d, u.op, u.kickoff)
    BY <2>3, <2>4 DEF IInv, StageInv, TakeReady
  <2>5. u.op = r.op /\ u.kickoff = r.kickoff
    <3>1. TakeMsg(d, u.op, u.kickoff).op = u.op
          /\ TakeMsg(d, u.op, u.kickoff).kickoff = u.kickoff
      BY DEF TakeMsg
    <3>2. QED
      BY <2>3, <3>1
  <2>6. u = s
    BY <2>5 DEF IInv, KickInv
  <2>7. QED
    BY <2>5, <2>6
<1>2. QED
  BY <1>1, Invariance, PTL

(* No call, however it is repeated, raced or cut off, takes back a row, a  *)
(* sighash, an operator_takes signature or a partial signature; an         *)
(* aggregate nonce is replaced but never removed.  The slash_or_take       *)
(* signature of an operator whose kickoff every caller passes is not       *)
(* replaced by another one; of the other operators this is not true.       *)
THEOREM NothingTakenBack == Spec => [][Grow /\ SotKept]_vars
<1>1. IInv /\ [Next]_vars => [Grow /\ SotKept]_vars
  BY GrowNext, SotKeptNext DEF IInv
<1>2. QED
  BY <1>1, Invariance, PTL DEF Spec
=============================================================================
