----------------------- MODULE OperatorKickoffsProofs -----------------------
(***************************************************************************)
(* Theorems about OperatorKickoffs for every set of deposits, handlers and *)
(* wallet transactions and every number of kickoffs per generator.         *)
(*                                                                         *)
(* The invariant the proofs rest on says, beside the types, what the lock  *)
(* protects (LockInv), that the unused index of a generator row is ahead   *)
(* of every kickoff in use (TableInv), and what a handler may rely on      *)
(* between its reads and its commit (CallInv).                             *)
(***************************************************************************)
EXTENDS OperatorKickoffs, FiniteSetTheorems, SequenceTheorems, TLAPS

(* Only the lock holder is past the lock.                                  *)
LockInv ==
    \A h \in Handlers : pc[h] \in {"locked", "funded", "inserted"} => lock = h

(* The tables: txid is unique, the unused index is in range, deposits and  *)
(* kickoffs in use are matched one to one, and below the unused index.     *)
TableInv ==
    /\ \A r, s \in gens : r.txid = s.txid => r = s
    /\ \A r \in gens : r.cur \in 1 .. NumKickoffs
    /\ \A a, b \in kickoffs : a.deposit = b.deposit => a = b
    /\ KickoffsDistinct
    /\ KickoffsGenerated
    /\ replies \subseteq kickoffs

(* What a handler has checked stays true until it commits.                 *)
CallInv ==
    \A h \in Handlers :
        /\ pc[h] # "idle" => dep[h] \in Deposits
        /\ pc[h] \in {"funded", "inserted"} =>
            /\ src[h] \in Utxo
            /\ ~ HasKickoff(dep[h])
            /\ \A r \in gens : ~ HasUnused(r)
        /\ pc[h] = "inserted" => \A r \in gens : r.txid # GenTxid(src[h])
        /\ pc[h] = "replying" =>
            /\ ans[h] \in Kickoff
            /\ [deposit |-> dep[h], kickoff |-> ans[h]] \in kickoffs
        
BootInv == status = "paying" => boot \in Utxo

IInv == TypeOK /\ LockInv /\ TableInv /\ CallInv /\ BootInv

-----------------------------------------------------------------------------
(* One more step on the path of a transaction id.                          *)
LEMMA PathAppend ==
    ASSUME NEW p \in Seq(Spent), NEW q \in Seq(Spent), NEW a \in Spent, NEW b \in Spent
    PROVE  /\ Append(p, a) \in Seq(Spent)
           /\ Append(p, a) # <<>>
           /\ Append(p, a) = Append(q, b) => p = q /\ a = b
  BY AppendProperties, AppendInjective

(* What new_deposit asks of a funding UTXO is a number of satoshis.        *)
LEMMA CostType == FundingNeeded \in Nat
<1>1. \A n \in Nat : 100000 * n + 154 + 43 * n + 330 \in Nat
                   /\ 100000 * n + 156 + 43 * n + 330 \in Nat
  OBVIOUS
<1>2. QED
  BY <1>1, NumKickoffsAssumption DEF FundingNeeded, KickoffUtxoAmountSats

(* The sum that new_deposit checks and the sums that create_kickoff_utxo_tx *)
(* subtracts, which the code writes out twice, agree for every number of   *)
(* kickoffs per transaction.                                               *)
LEMMA SumsAgree == \A v \in Int : ChangeAmount(v) = v - FundingNeeded
  BY NumKickoffsAssumption DEF ChangeAmount, FundingNeeded, KickoffTxMinRelayFee,
     KickoffUtxoAmountSats, AnyoneCanSpendSats

(* A generator transaction of a well-formed UTXO is well-formed, and so    *)
(* are its change and its first kickoff.                                   *)
LEMMA GeneratedTypes ==
    ASSUME NEW u \in Utxo
    PROVE  /\ GenTxid(u) \in Txid
           /\ ChangeUtxo(u) \in Utxo
           /\ FirstKickoff(u) \in Kickoff
           /\ \A id \in Nat : NewGenRow(u, id) \in GenRow
<1>1. /\ u.txid \in Txid /\ u.vout \in Nat /\ u.value \in Int
      /\ u.txid.root \in Wallet /\ u.txid.path \in Seq(Spent)
  BY DEF Utxo, Txid
<1>2. GenTxid(u) \in Txid
  <2>1. <<u.vout, u.value>> \in Spent
    BY <1>1 DEF Spent
  <2>2. Append(u.txid.path, <<u.vout, u.value>>) \in Seq(Spent)
    BY <1>1, <2>1, PathAppend
  <2>3. QED
    BY <1>1, <2>2, Zenon DEF GenTxid, Txid
<1>3. ChangeAmount(u.value) \in Int
  BY <1>1, CostType, SumsAgree
<1>4. ChangeUtxo(u) \in Utxo
  BY <1>2, <1>3, NumKickoffsAssumption DEF ChangeUtxo, Utxo
<1>5. FirstKickoff(u) \in Kickoff
  BY <1>2 DEF FirstKickoff, Kickoff
<1>6. \A id \in Nat : NewGenRow(u, id) \in GenRow
  BY <1>1, <1>2 DEF NewGenRow, GenRow
<1>7. QED
  BY <1>2, <1>4, <1>5, <1>6

(* Taking the next output of a row keeps it a row, and the output taken is *)
(* the one at the old unused index.                                        *)
LEMMA AdvanceTypes ==
    ASSUME NEW r \in GenRow
    PROVE  /\ Advance(r) \in GenRow
           /\ Advance(r).cur = r.cur + 1
           /\ Advance(r).txid = r.txid
           /\ Advance(r).funding = r.funding
           /\ LastTaken(Advance(r)) = [txid |-> r.txid, vout |-> r.cur]
           /\ LastTaken(Advance(r)) \in Kickoff
  BY DEF Advance, LastTaken, GenRow, Kickoff

(* The output of send_to_address is a well-formed UTXO.                    *)
LEMMA WalletUtxoType == \A w \in Wallet : WalletUtxo(w) \in Utxo
<1>1. <<>> \in Seq(Spent)
  BY EmptySeq
<1>2. QED
  BY <1>1, WalletValueAssumption DEF WalletUtxo, Utxo, Txid

(* Whatever the RPC names is a well-formed UTXO.                           *)
LEMMA NamedType == \A u \in Named : u \in Utxo /\ u.value >= 0
  BY NamedAssumption DEF Utxo

(* The fresh database with no handler running satisfies the invariant.     *)
LEMMA InitIInv == Init => IInv
<1> SUFFICES ASSUME Init PROVE IInv
  OBVIOUS
<1>1. TypeOK
  BY DEF Init, TypeOK, States
<1>2. LockInv /\ TableInv /\ CallInv /\ BootInv
  BY DEF Init, LockInv, TableInv, CallInv, BootInv, KickoffsDistinct, KickoffsGenerated
<1>3. QED
  BY <1>1, <1>2 DEF IInv

-----------------------------------------------------------------------------
(* Preservation, one lemma per conjunct of the invariant.                  *)

(* Every action leaves the tables and the handlers well-formed.            *)
LEMMA NextTypeOK == IInv /\ [Next]_vars => TypeOK'
<1> SUFFICES ASSUME IInv, [Next]_vars PROVE TypeOK'
  OBVIOUS
<1> USE DEF IInv, TypeOK, dbVars, callVars, procVars
<1>1. ASSUME NEW h \in Handlers, NEW d \in Deposits, NewDeposit(h, d) PROVE TypeOK'
  BY <1>1 DEF NewDeposit, States
<1>2. ASSUME NEW h \in Handlers, AcquireLock(h) PROVE TypeOK'
  BY <1>2 DEF AcquireLock, States
<1>3. ASSUME NEW h \in Handlers, ReturnExisting(h) PROVE TypeOK'
  BY <1>3 DEF ReturnExisting, CommitWith, States
<1>4. ASSUME NEW h \in Handlers, UseUnused(h) PROVE TypeOK'
  <2> PICK r \in gens :
        /\ gens' = (gens \ {r}) \cup {Advance(r)}
        /\ kickoffs' = kickoffs \cup
                {[deposit |-> dep[h], kickoff |-> LastTaken(Advance(r))]}
        /\ CommitWith(h, LastTaken(Advance(r)))
    BY <1>4 DEF UseUnused
  <2>1. Advance(r) \in GenRow /\ LastTaken(Advance(r)) \in Kickoff /\ dep[h] \in Deposits
    BY <1>4, AdvanceTypes DEF UseUnused, CallInv
  <2>2. QED
    BY <1>4, <2>1 DEF UseUnused, CommitWith, States
<1>5. ASSUME NEW h \in Handlers, ReadFunding(h) PROVE TypeOK'
  BY <1>5 DEF ReadFunding, States
<1>6. ASSUME NEW h \in Handlers, EndCall(h),
             UNCHANGED <<dbVars, procVars, sets>>,
             replies' \subseteq [deposit : Deposits, kickoff : Kickoff],
             failures' \in Nat
      PROVE TypeOK'
  BY <1>6 DEF EndCall, States
<1>7. ASSUME NEW h \in Handlers, FundingError(h) \/ TxidConflict(h) PROVE TypeOK'
  BY <1>6, <1>7 DEF FundingError, TxidConflict
<1>8. ASSUME NEW h \in Handlers, InsertChange(h) PROVE TypeOK'
  BY <1>8 DEF InsertChange, States
<1>9. ASSUME NEW h \in Handlers, CommitGenerated(h) PROVE TypeOK'
  <2>1. src[h] \in Utxo /\ dep[h] \in Deposits /\ slot[h] \in Nat
    BY <1>9 DEF CommitGenerated, CallInv
  <2>2. /\ ChangeUtxo(src[h]) \in Utxo
        /\ FirstKickoff(src[h]) \in Kickoff
        /\ NewGenRow(src[h], slot[h]) \in GenRow
    BY <2>1, GeneratedTypes
  <2>3. QED
    BY <1>9, <2>1, <2>2 DEF CommitGenerated, CommitWith, States
<1>10. ASSUME NEW h \in Handlers, Reply(h) PROVE TypeOK'
  BY <1>6, <1>10 DEF Reply, CallInv
<1>11. ASSUME NEW h \in Handlers, Abort(h) PROVE TypeOK'
  BY <1>6, <1>11 DEF Abort
<1>12. ASSUME NEW u \in Named, SetFundingUtxo(u) PROVE TypeOK'
  BY <1>12, NamedType DEF SetFundingUtxo
<1>13. CASE StartFunded
  BY <1>13 DEF StartFunded
<1>14. ASSUME NEW w \in Wallet, StartPay(w) PROVE TypeOK'
  BY <1>14, WalletUtxoType DEF StartPay
<1>15. CASE StartCommit
  BY <1>15 DEF StartCommit, BootInv
<1>16. CASE Crash
  BY <1>16 DEF Crash, States
<1>17. CASE UNCHANGED vars
  BY <1>17 DEF vars
<1>18. QED
  BY <1>1, <1>2, <1>3, <1>4, <1>5, <1>7, <1>8, <1>9, <1>10, <1>11, <1>12, <1>13,
     <1>14, <1>15, <1>16, <1>17 DEF Next, Work, Proceed, Start

(* The table lock keeps its holder, or has none.                           *)
LEMMA NextLockInv == IInv /\ [Next]_vars => LockInv'
<1> SUFFICES ASSUME IInv, [Next]_vars PROVE LockInv'
  OBVIOUS
<1> USE NULLAssumption DEF IInv, TypeOK, LockInv, dbVars, callVars, procVars
<1>1. ASSUME NEW h \in Handlers, NEW d \in Deposits, NewDeposit(h, d) PROVE LockInv'
  BY <1>1 DEF NewDeposit
<1>2. ASSUME NEW h \in Handlers, AcquireLock(h) PROVE LockInv'
  BY <1>2 DEF AcquireLock
<1>3. ASSUME NEW h \in Handlers, NEW k, pc[h] \in {"locked", "inserted"}, CommitWith(h, k)
      PROVE LockInv'
  BY <1>3 DEF CommitWith
<1>4. ASSUME NEW h \in Handlers, ReturnExisting(h) \/ UseUnused(h) \/ CommitGenerated(h)
      PROVE LockInv'
  BY <1>3, <1>4 DEF ReturnExisting, UseUnused, CommitGenerated
<1>5. ASSUME NEW h \in Handlers, ReadFunding(h) \/ InsertChange(h) PROVE LockInv'
  BY <1>5 DEF ReadFunding, InsertChange
<1>6. ASSUME NEW h \in Handlers, EndCall(h) PROVE LockInv'
  BY <1>6 DEF EndCall
<1>7. ASSUME NEW h \in Handlers,
             FundingError(h) \/ TxidConflict(h) \/ Reply(h) \/ Abort(h)
      PROVE LockInv'
  BY <1>6, <1>7 DEF FundingError, TxidConflict, Reply, Abort
<1>8. CASE Crash
  BY <1>8 DEF Crash
<1>9. CASE UNCHANGED callVars
  BY <1>9
<1>10. CASE (\E u \in Named : SetFundingUtxo(u)) \/ (\E w \in Wallet : StartPay(w))
  BY <1>9, <1>10 DEF SetFundingUtxo, StartPay
<1>11. CASE StartFunded \/ StartCommit \/ UNCHANGED vars
  BY <1>9, <1>11 DEF StartFunded, StartCommit, vars
<1>12. QED
  BY <1>1, <1>2, <1>4, <1>5, <1>7, <1>8, <1>10, <1>11 DEF Next, Work, Proceed, Start

(* No handler runs while the operator is starting.                         *)
LEMMA NextBootInv == IInv /\ [Next]_vars => BootInv'
<1> SUFFICES ASSUME IInv, [Next]_vars PROVE BootInv'
  OBVIOUS
<1> USE DEF IInv, BootInv, procVars
<1>1. CASE UNCHANGED procVars
  BY <1>1
<1>2. ASSUME NEW w \in Wallet, StartPay(w) PROVE BootInv'
  BY <1>2, WalletUtxoType DEF StartPay
<1>3. CASE StartFunded \/ StartCommit \/ Crash
  BY <1>3 DEF StartFunded, StartCommit, Crash
<1>4. ASSUME NEW h \in Handlers, NEW d \in Deposits, NewDeposit(h, d) PROVE BootInv'
  BY <1>1, <1>4 DEF NewDeposit
<1>5. ASSUME NEW h \in Handlers, AcquireLock(h) \/ Proceed(h) \/ Abort(h) PROVE BootInv'
  BY <1>1, <1>5 DEF AcquireLock, Proceed, Abort, ReturnExisting, UseUnused, ReadFunding,
     FundingError, TxidConflict, InsertChange, CommitGenerated, Reply
<1>6. ASSUME NEW u \in Named, SetFundingUtxo(u) PROVE BootInv'
  BY <1>1, <1>6 DEF SetFundingUtxo
<1>7. CASE UNCHANGED vars
  BY <1>1, <1>7 DEF vars
<1>8. QED
  BY <1>2, <1>3, <1>4, <1>5, <1>6, <1>7 DEF Next, Work, Start

(* The keys of the tables stay unique and the rows of one table keep their *)
(* partners in the others.                                                 *)
LEMMA NextTableInv == IInv /\ [Next]_vars => TableInv'
<1> SUFFICES ASSUME IInv, [Next]_vars PROVE TableInv'
  OBVIOUS
<1> USE DEF IInv
<1>1. CASE UNCHANGED <<kickoffs, gens, replies>>
  BY <1>1 DEF TableInv, KickoffsDistinct, KickoffsGenerated
<1>2. ASSUME NEW h \in Handlers, UseUnused(h) PROVE TableInv'
  <2> PICK r \in gens :
        /\ IsNewestUnused(r)
        /\ gens' = (gens \ {r}) \cup {Advance(r)}
        /\ kickoffs' = kickoffs \cup
                {[deposit |-> dep[h], kickoff |-> LastTaken(Advance(r))]}
    BY <1>2 DEF UseUnused
  <2> DEFINE new == [deposit |-> dep[h], kickoff |-> LastTaken(Advance(r))]
  <2>1. /\ r \in GenRow /\ r.cur \in Nat
        /\ Advance(r).cur = r.cur + 1 /\ Advance(r).txid = r.txid
        /\ new.kickoff.txid = r.txid /\ new.kickoff.vout = r.cur
        /\ new.deposit = dep[h]
    BY AdvanceTypes DEF TypeOK, GenRow
  <2>2. \A a, b \in gens' : a.txid = b.txid => a = b
    BY <2>1 DEF TableInv
  <2>3. \A a \in gens' : a.cur \in 1 .. NumKickoffs
    BY <2>1, NumKickoffsAssumption DEF TableInv, IsNewestUnused, HasUnused
  <2>4. \A row \in kickoffs : row.deposit # new.deposit
    BY <1>2, <2>1 DEF UseUnused, HasKickoff
  <2>5. \A row \in kickoffs : row.kickoff # new.kickoff
    <3> SUFFICES ASSUME NEW row \in kickoffs, row.kickoff = new.kickoff PROVE FALSE
      OBVIOUS
    <3>1. PICK s \in gens : row.kickoff.txid = s.txid /\ row.kickoff.vout < s.cur
      BY DEF TableInv, KickoffsGenerated
    <3>2. s = r
      BY <2>1, <3>1 DEF TableInv
    <3>3. QED
      BY <2>1, <3>1, <3>2
  <2>6. KickoffsDistinct' /\ \A a, b \in kickoffs' : a.deposit = b.deposit => a = b
    BY <2>4, <2>5 DEF TableInv, KickoffsDistinct
  <2>7. KickoffsGenerated'
    <3> SUFFICES ASSUME NEW row \in kickoffs'
                 PROVE  \E s \in gens' : /\ row.kickoff.txid = s.txid
                                         /\ row.kickoff.vout < s.cur
                                         /\ s.cur <= NumKickoffs
      BY DEF KickoffsGenerated
    <3>1. CASE row = new
      BY <2>1, <2>3, <3>1, NumKickoffsAssumption
    <3>2. CASE row \in kickoffs
      <4>1. PICK s \in gens : row.kickoff.txid = s.txid /\ row.kickoff.vout < s.cur
                              /\ s.cur <= NumKickoffs
        BY <3>2 DEF TableInv, KickoffsGenerated
      <4>2. CASE s = r
        <5>1. row.kickoff.vout \in Nat
          BY <3>2 DEF TypeOK, Kickoff
        <5>2. Advance(r) \in gens' /\ row.kickoff.vout < Advance(r).cur
              /\ row.kickoff.txid = Advance(r).txid
          BY <2>1, <4>1, <4>2, <5>1
        <5>3. QED
          BY <2>3, <5>2, NumKickoffsAssumption
      <4>3. CASE s # r
        BY <4>1, <4>3
      <4>4. QED
        BY <4>2, <4>3
    <3>3. QED
      BY <3>1, <3>2
  <2>8. replies' \subseteq kickoffs'
    BY <1>2 DEF UseUnused, TableInv
  <2>9. QED
    BY <2>2, <2>3, <2>6, <2>7, <2>8 DEF TableInv
<1>3. ASSUME NEW h \in Handlers, CommitGenerated(h) PROVE TableInv'
  <2> DEFINE g == NewGenRow(src[h], slot[h])
             new == [deposit |-> dep[h], kickoff |-> FirstKickoff(src[h])]
  <2>1. /\ kickoffs' = kickoffs \cup {new}
        /\ gens' = gens \cup {g}
        /\ replies' = replies
        /\ pc[h] = "inserted"
    BY <1>3 DEF CommitGenerated
  <2>2. /\ g.txid = GenTxid(src[h]) /\ g.cur = 1
        /\ new.kickoff.txid = GenTxid(src[h]) /\ new.kickoff.vout = 0
        /\ new.deposit = dep[h]
    BY DEF NewGenRow, FirstKickoff
  <2>3. \A r \in gens : r.txid # GenTxid(src[h])
    BY <2>1 DEF CallInv
  <2>4. \A a, b \in gens' : a.txid = b.txid => a = b
    BY <2>1, <2>2, <2>3 DEF TableInv
  <2>5. \A a \in gens' : a.cur \in 1 .. NumKickoffs
    BY <2>1, <2>2, NumKickoffsAssumption DEF TableInv
  <2>6. \A row \in kickoffs : row.deposit # new.deposit
    BY <2>1, <2>2 DEF CallInv, HasKickoff
  <2>7. \A row \in kickoffs : row.kickoff # new.kickoff
    BY <2>2, <2>3 DEF TableInv, KickoffsGenerated
  <2>8. KickoffsDistinct' /\ \A a, b \in kickoffs' : a.deposit = b.deposit => a = b
    BY <2>1, <2>6, <2>7 DEF TableInv, KickoffsDistinct
  <2>9. KickoffsGenerated'
    <3>1. g.cur <= NumKickoffs /\ new.kickoff.vout < g.cur
      BY <2>2, NumKickoffsAssumption
    <3>2. QED
      BY <2>1, <2>2, <3>1 DEF TableInv, KickoffsGenerated
  <2>10. QED
    BY <2>1, <2>4, <2>5, <2>8, <2>9 DEF TableInv
<1>4. ASSUME NEW h \in Handlers, Reply(h) PROVE TableInv'
  BY <1>4 DEF Reply, CallInv, TableInv, KickoffsDistinct, KickoffsGenerated, dbVars
<1>5. ASSUME NEW h \in Handlers, NEW d \in Deposits, NewDeposit(h, d) PROVE TableInv'
  BY <1>1, <1>5 DEF NewDeposit, dbVars
<1>6. ASSUME NEW h \in Handlers,
             \/ AcquireLock(h) \/ Abort(h) \/ ReturnExisting(h) \/ ReadFunding(h)
             \/ FundingError(h) \/ TxidConflict(h) \/ InsertChange(h)
      PROVE TableInv'
  BY <1>1, <1>6 DEF AcquireLock, Abort, ReturnExisting, ReadFunding, FundingError,
     TxidConflict, InsertChange, dbVars
<1>7. CASE (\E u \in Named : SetFundingUtxo(u)) \/ (\E w \in Wallet : StartPay(w))
  BY <1>1, <1>7 DEF SetFundingUtxo, StartPay, dbVars
<1>8. CASE StartFunded \/ StartCommit \/ Crash \/ UNCHANGED vars
  BY <1>1, <1>8 DEF StartFunded, StartCommit, Crash, vars, dbVars
<1>9. QED
  BY <1>2, <1>3, <1>4, <1>5, <1>6, <1>7, <1>8 DEF Next, Work, Proceed, Start

(* What a running handler has read from the tables stays true until it     *)
(* writes.                                                                 *)
LEMMA NextCallInv == IInv /\ [Next]_vars => CallInv'
<1> SUFFICES ASSUME IInv, [Next]_vars PROVE CallInv'
  OBVIOUS
<1> USE DEF IInv, TypeOK
<1>1. ASSUME NEW h \in Handlers, NEW d \in Deposits, NewDeposit(h, d) PROVE CallInv'
  BY <1>1 DEF NewDeposit, CallInv, HasKickoff, HasUnused, GenTxid, dbVars
<1>2. ASSUME NEW h \in Handlers, AcquireLock(h) PROVE CallInv'
  BY <1>2 DEF AcquireLock, CallInv, HasKickoff, HasUnused, GenTxid, dbVars
<1>3. ASSUME NEW h \in Handlers, ReturnExisting(h) PROVE CallInv'
  <2>1. PICK row \in kickoffs : row.deposit = dep[h] /\ CommitWith(h, row.kickoff)
    BY <1>3 DEF ReturnExisting
  <2>2. row = [deposit |-> dep[h], kickoff |-> row.kickoff] /\ row.kickoff \in Kickoff
    BY <2>1
  <2>3. UNCHANGED <<kickoffs, gens, dep, src>>
    BY <1>3, <2>1 DEF ReturnExisting, CommitWith, dbVars
  <2>4. QED
    BY <2>1, <2>2, <2>3 DEF CommitWith, CallInv, HasKickoff, HasUnused, GenTxid
<1>4. ASSUME NEW h \in Handlers, ReadFunding(h) PROVE CallInv'
  BY <1>4 DEF ReadFunding, CallInv, HasKickoff, HasUnused, GenTxid, dbVars, IsLatestFunding
<1>5. ASSUME NEW h \in Handlers, InsertChange(h) PROVE CallInv'
  BY <1>5 DEF InsertChange, CallInv, HasKickoff, HasUnused, GenTxid
<1>6. ASSUME NEW h \in Handlers, NEW k \in Kickoff,
             pc[h] \in {"locked", "inserted"},
             CommitWith(h, k),
             kickoffs' = kickoffs \cup {[deposit |-> dep[h], kickoff |-> k]}
      PROVE CallInv'
  (* Every other handler past the lock would hold the lock too.            *)
  <2>1. \A q \in Handlers : pc'[q] \notin {"locked", "funded", "inserted"}
    BY <1>6 DEF CommitWith, LockInv
  <2>2. \A q \in Handlers : pc'[q] # "idle" => dep'[q] \in Deposits
    BY <1>6 DEF CommitWith, CallInv
  <2>3. \A q \in Handlers : pc'[q] = "replying" =>
            ans'[q] \in Kickoff /\ [deposit |-> dep'[q], kickoff |-> ans'[q]] \in kickoffs'
    BY <1>6 DEF CommitWith, CallInv
  <2>4. QED
    BY <2>1, <2>2, <2>3 DEF CallInv
<1>7. ASSUME NEW h \in Handlers, UseUnused(h) PROVE CallInv'
  <2> PICK r \in gens :
        /\ kickoffs' = kickoffs \cup
                {[deposit |-> dep[h], kickoff |-> LastTaken(Advance(r))]}
        /\ CommitWith(h, LastTaken(Advance(r)))
    BY <1>7 DEF UseUnused
  <2>1. LastTaken(Advance(r)) \in Kickoff
    BY AdvanceTypes
  <2>2. pc[h] \in {"locked", "inserted"}
    BY <1>7 DEF UseUnused
  <2>3. QED
    BY <1>6, <2>1, <2>2
<1>8. ASSUME NEW h \in Handlers, CommitGenerated(h) PROVE CallInv'
  <2>1. FirstKickoff(src[h]) \in Kickoff
    BY <1>8, GeneratedTypes DEF CommitGenerated, CallInv
  <2>2. /\ pc[h] \in {"locked", "inserted"}
        /\ kickoffs' = kickoffs \cup {[deposit |-> dep[h], kickoff |-> FirstKickoff(src[h])]}
        /\ CommitWith(h, FirstKickoff(src[h]))
    BY <1>8 DEF CommitGenerated
  <2>3. QED
    BY <1>6, <2>1, <2>2
<1>9. ASSUME NEW h \in Handlers, EndCall(h), UNCHANGED <<kickoffs, gens>> PROVE CallInv'
  BY <1>9 DEF EndCall, CallInv, HasKickoff, HasUnused, GenTxid
<1>10. ASSUME NEW h \in Handlers,
             FundingError(h) \/ TxidConflict(h) \/ Reply(h) \/ Abort(h)
      PROVE CallInv'
  BY <1>9, <1>10 DEF FundingError, TxidConflict, Reply, Abort, dbVars
<1>11. CASE Crash
  BY <1>11 DEF Crash, CallInv
<1>12. CASE UNCHANGED <<kickoffs, gens, callVars>>
  BY <1>12 DEF CallInv, HasKickoff, HasUnused, GenTxid, callVars
<1>13. CASE (\E u \in Named : SetFundingUtxo(u)) \/ (\E w \in Wallet : StartPay(w))
  BY <1>12, <1>13 DEF SetFundingUtxo, StartPay, dbVars
<1>14. CASE StartFunded \/ StartCommit \/ UNCHANGED vars
  BY <1>12, <1>14 DEF StartFunded, StartCommit, vars, dbVars
<1>15. QED
  BY <1>1, <1>2, <1>3, <1>4, <1>5, <1>7, <1>8, <1>10, <1>11, <1>13, <1>14
     DEF Next, Work, Proceed, Start

-----------------------------------------------------------------------------
(* The invariant holds in every state the operator reaches.                *)
THEOREM Invariance == Spec => []IInv
<1>1. IInv /\ [Next]_vars => IInv'
  BY NextTypeOK, NextLockInv, NextTableInv, NextCallInv, NextBootInv DEF IInv
<1>2. QED
  BY InitIInv, <1>1, PTL DEF Spec

(* The tables and the handlers of an operator are always well-formed.      *)
THEOREM TypeCorrect == Spec => []TypeOK
<1>1. IInv => TypeOK
  BY DEF IInv
<1>2. QED
  BY Invariance, <1>1, PTL

(* new_deposit never gives one kickoff UTXO to two deposits, however many  *)
(* calls run, fail, are retried or race with set_funding_utxo.             *)
THEOREM KickoffsAlwaysDistinct == Spec => []KickoffsDistinct
<1>1. IInv => KickoffsDistinct
  BY DEF IInv, TableInv
<1>2. QED
  BY Invariance, <1>1, PTL

(* What a client was told by new_deposit stays in the database and stays   *)
(* the only answer for that deposit.                                       *)
THEOREM RepliesAlwaysDurable == Spec => []RepliesDurable
<1>1. IInv => RepliesDurable
  BY DEF IInv, TableInv, RepliesDurable
<1>2. QED
  BY Invariance, <1>1, PTL

(* Every kickoff in use is a kickoff output of a recorded generator        *)
(* transaction.                                                            *)
THEOREM KickoffsAlwaysGenerated == Spec => []KickoffsGenerated
<1>1. IInv => KickoffsGenerated
  BY DEF IInv, TableInv
<1>2. QED
  BY Invariance, <1>1, PTL

-----------------------------------------------------------------------------
(* The operator implements the kickoff registry: each step binds a fresh   *)
(* pair, hands out a bound one, or leaves both unchanged.                  *)
LEMMA StepRefines == IInv /\ [Next]_vars => [Registry!RegNext]_(Registry!regVars)
<1> SUFFICES ASSUME IInv, [Next]_vars, ~ UNCHANGED <<kickoffs, replies>>
             PROVE  Registry!RegNext
  BY DEF Registry!regVars
<1> USE DEF IInv
<1>1. ASSUME NEW h \in Handlers, NEW k \in Kickoff, dep[h] \in Deposits,
             ~ HasKickoff(dep[h]),
             \A row \in kickoffs : row.kickoff # k,
             kickoffs' = kickoffs \cup {[deposit |-> dep[h], kickoff |-> k]},
             replies' = replies
      PROVE  Registry!RegNext
  <2> DEFINE b == [deposit |-> dep[h], kickoff |-> k]
  <2>1. b \in kickoffs' \ kickoffs
    BY <1>1
  <2>2. Registry!Bind(b)
    BY <1>1 DEF Registry!Bind, HasKickoff
  <2>3. QED
    BY <2>1, <2>2 DEF Registry!RegNext
<1>2. ASSUME NEW h \in Handlers, UseUnused(h) PROVE Registry!RegNext
  <2> PICK r \in gens :
        kickoffs' = kickoffs \cup {[deposit |-> dep[h], kickoff |-> LastTaken(Advance(r))]}
    BY <1>2 DEF UseUnused
  <2>1. /\ LastTaken(Advance(r)) \in Kickoff
        /\ LastTaken(Advance(r)) = [txid |-> r.txid, vout |-> r.cur]
        /\ r.cur \in Nat
    BY AdvanceTypes DEF TypeOK, GenRow
  <2>2. ASSUME NEW row \in kickoffs, row.kickoff = LastTaken(Advance(r)) PROVE FALSE
    <3>1. PICK s \in gens : row.kickoff.txid = s.txid /\ row.kickoff.vout < s.cur
      BY DEF TableInv, KickoffsGenerated
    <3>2. s = r
      BY <2>1, <2>2, <3>1 DEF TableInv
    <3>3. QED
      BY <2>1, <2>2, <3>1, <3>2
  <2>3. dep[h] \in Deposits /\ ~ HasKickoff(dep[h]) /\ replies' = replies
    BY <1>2 DEF UseUnused, CallInv
  <2>4. QED
    BY <1>1, <2>1, <2>2, <2>3
<1>3. ASSUME NEW h \in Handlers, CommitGenerated(h) PROVE Registry!RegNext
  <2>1. /\ kickoffs' = kickoffs \cup {[deposit |-> dep[h], kickoff |-> FirstKickoff(src[h])]}
        /\ replies' = replies
        /\ dep[h] \in Deposits /\ src[h] \in Utxo /\ ~ HasKickoff(dep[h])
        /\ \A r \in gens : r.txid # GenTxid(src[h])
    BY <1>3 DEF CommitGenerated, CallInv
  <2>2. FirstKickoff(src[h]) \in Kickoff /\ FirstKickoff(src[h]).txid = GenTxid(src[h])
    BY <2>1, GeneratedTypes DEF FirstKickoff
  <2>3. \A row \in kickoffs : row.kickoff # FirstKickoff(src[h])
    BY <2>1, <2>2 DEF TableInv, KickoffsGenerated
  <2>4. QED
    BY <1>1, <2>1, <2>2, <2>3
<1>4. ASSUME NEW h \in Handlers, Reply(h) PROVE Registry!RegNext
  <2> DEFINE b == [deposit |-> dep[h], kickoff |-> ans[h]]
  <2>1. b \in kickoffs /\ replies' = replies \cup {b} /\ kickoffs' = kickoffs
    BY <1>4 DEF Reply, CallInv, dbVars
  <2>2. QED
    BY <2>1 DEF Registry!HandOut, Registry!RegNext
<1>5. ASSUME NEW h \in Handlers, NEW d \in Deposits, NewDeposit(h, d) PROVE FALSE
  BY <1>5 DEF NewDeposit, dbVars
<1>6. ASSUME NEW h \in Handlers,
             \/ AcquireLock(h) \/ Abort(h) \/ ReturnExisting(h) \/ ReadFunding(h)
             \/ FundingError(h) \/ TxidConflict(h) \/ InsertChange(h)
      PROVE FALSE
  BY <1>6 DEF AcquireLock, Abort, ReturnExisting, ReadFunding, FundingError,
     TxidConflict, InsertChange, dbVars
<1>7. ASSUME (\E u \in Named : SetFundingUtxo(u)) \/ (\E w \in Wallet : StartPay(w))
      PROVE FALSE
  BY <1>7 DEF SetFundingUtxo, StartPay, dbVars
<1>8. ~ (StartFunded \/ StartCommit \/ Crash \/ UNCHANGED vars)
  BY DEF StartFunded, StartCommit, Crash, vars, dbVars
<1>9. QED
  BY <1>2, <1>3, <1>4, <1>5, <1>6, <1>7, <1>8 DEF Next, Work, Proceed, Start

(* An operator with its database is a kickoff registry: a deposit is bound *)
(* once, to a fresh kickoff, and new_deposit only hands out bound pairs.   *)
THEOREM RefinesRegistry == Spec => ImplementsRegistry
<1>1. Init => Registry!RegInit
  BY DEF Init, Registry!RegInit
<1>2. QED
  BY <1>1, StepRefines, Invariance, PTL DEF Spec, ImplementsRegistry, Registry!RegSpec

-----------------------------------------------------------------------------
(* Funding.  A second invariant, on top of the first: what is known of the *)
(* UTXO that a handler or Operator::new holds in its hands.                *)

Rooted(u) == Outside(u.txid) \/ \E s \in gens : s.txid = u.txid

FundInv ==
    /\ \A f \in fundings : f.utxo.value >= 0
    /\ AncestryRecorded
    /\ OneOpenGenerator
    /\ \A r \in gens : \E u \in Utxo : r.txid = GenTxid(u) /\ r.funding = u.txid
    /\ \A h \in Handlers : pc[h] \in {"funded", "inserted"} =>
            src[h].value >= FundingNeeded /\ Rooted(src[h])
    /\ status = "paying" => boot.value >= 0 /\ Outside(boot.txid)

(* Outputs of wallet transactions are roots of the chain of generators.    *)
LEMMA WalletUtxoRooted ==
    \A w \in Wallet : WalletUtxo(w).value >= 0 /\ Outside(WalletUtxo(w).txid)
  BY WalletValueAssumption DEF WalletUtxo, Outside

(* So is whatever the RPC names.                                           *)
LEMMA NamedRooted == \A u \in Named : Outside(u.txid)
  BY DEF Outside

(* The fresh database satisfies the invariant on funding.                  *)
LEMMA InitFundInv == Init => FundInv
  BY DEF Init, FundInv, AncestryRecorded, OneOpenGenerator

(* Every action preserves it.                                              *)
LEMMA NextFundInv == IInv /\ FundInv /\ [Next]_vars => FundInv'
<1> SUFFICES ASSUME IInv, FundInv, [Next]_vars PROVE FundInv'
  OBVIOUS
<1> USE DEF IInv, TypeOK
<1>1. ASSUME UNCHANGED <<gens, fundings, status, boot>>,
             \A h \in Handlers : pc'[h] \in {"funded", "inserted"} =>
                pc[h] \in {"funded", "inserted"} /\ src'[h] = src[h]
      PROVE FundInv'
  BY <1>1 DEF FundInv, AncestryRecorded, OneOpenGenerator, HasUnused,
     Rooted
<1>2. ASSUME NEW h \in Handlers, NEW d \in Deposits, NewDeposit(h, d) PROVE FundInv'
  BY <1>1, <1>2 DEF NewDeposit, dbVars, procVars
<1>3. ASSUME NEW h \in Handlers, AcquireLock(h) PROVE FundInv'
  BY <1>1, <1>3 DEF AcquireLock, dbVars, procVars
<1>4. ASSUME NEW h \in Handlers, ReturnExisting(h) PROVE FundInv'
  BY <1>1, <1>4 DEF ReturnExisting, CommitWith, dbVars, procVars
<1>5. ASSUME NEW h \in Handlers, InsertChange(h) PROVE FundInv'
  BY <1>1, <1>5 DEF InsertChange, procVars
<1>6. ASSUME NEW h \in Handlers,
             FundingError(h) \/ TxidConflict(h) \/ Reply(h) \/ Abort(h)
      PROVE FundInv'
  BY <1>1, <1>6 DEF FundingError, TxidConflict, Reply, Abort, EndCall, dbVars, procVars
<1>7. ASSUME NEW h \in Handlers, ReadFunding(h) PROVE FundInv'
  <2>1. PICK f \in fundings :
            f.utxo.value >= FundingNeeded /\ src' = [src EXCEPT ![h] = f.utxo]
    BY <1>7 DEF ReadFunding
  <2>2. Rooted(f.utxo)
    BY DEF FundInv, AncestryRecorded, Rooted
  <2>3. UNCHANGED <<gens, fundings, status, boot>> /\ pc' = [pc EXCEPT ![h] = "funded"]
    BY <1>7 DEF ReadFunding, dbVars, procVars
  <2>4. QED
    BY <2>1, <2>2, <2>3 DEF FundInv, AncestryRecorded,
       OneOpenGenerator, HasUnused, Rooted
<1>8. ASSUME NEW h \in Handlers, UseUnused(h) PROVE FundInv'
  <2> PICK r \in gens :
        /\ IsNewestUnused(r)
        /\ gens' = (gens \ {r}) \cup {Advance(r)}
        /\ CommitWith(h, LastTaken(Advance(r)))
    BY <1>8 DEF UseUnused
  <2>1. /\ Advance(r).txid = r.txid /\ Advance(r).funding = r.funding
        /\ Advance(r).cur = r.cur + 1
    BY AdvanceTypes
  <2>2. \A s \in gens : \E t \in gens' : t.txid = s.txid
    BY <2>1
  <2>3. AncestryRecorded'
    <3>1. \A t \in gens' : \E s \in gens : t.funding = s.funding
      BY <2>1
    <3>2. fundings' = fundings
      BY <1>8 DEF UseUnused
    <3>3. ASSUME NEW t \in gens' PROVE Outside(t.funding) \/ \E s \in gens' : s.txid = t.funding
      BY <2>2, <3>1 DEF FundInv, AncestryRecorded
    <3>4. ASSUME NEW f \in fundings
          PROVE  Outside(f.utxo.txid) \/ \E s \in gens' : s.txid = f.utxo.txid
      BY <2>2 DEF FundInv, AncestryRecorded
    <3>5. QED
      BY <3>2, <3>3, <3>4 DEF AncestryRecorded, Outside
  <2>4. OneOpenGenerator'
    (* r was the only row with unused kickoffs.                            *)
    BY DEF OneOpenGenerator, FundInv, IsNewestUnused, HasUnused
  <2>5. \A t \in gens' : \E u \in Utxo : t.txid = GenTxid(u) /\ t.funding = u.txid
    BY <2>1 DEF FundInv
  <2>6. \A q \in Handlers : pc'[q] \in {"funded", "inserted"} =>
            src'[q].value >= FundingNeeded /\ Rooted(src[q])'
    BY <1>8, <2>2 DEF CommitWith, FundInv, Rooted, LockInv, UseUnused
  <2>7. QED
    BY <1>8, <2>3, <2>4, <2>5, <2>6 DEF FundInv, UseUnused, procVars
<1>9. ASSUME NEW h \in Handlers, CommitGenerated(h) PROVE FundInv'
  <2> DEFINE g == NewGenRow(src[h], slot[h])
             f == [id |-> slot[h], utxo |-> ChangeUtxo(src[h])]
  <2>1. /\ gens' = gens \cup {g} /\ fundings' = fundings \cup {f}
        /\ pc[h] = "inserted"
        /\ UNCHANGED <<status, boot>>
        /\ CommitWith(h, FirstKickoff(src[h]))
    BY <1>9 DEF CommitGenerated, procVars
  <2>2. /\ g.txid = GenTxid(src[h]) /\ g.funding = src[h].txid
        /\ f.utxo.txid = GenTxid(src[h])
        /\ f.utxo.value = ChangeAmount(src[h].value)
    BY DEF NewGenRow, ChangeUtxo
  <2>3. src[h] \in Utxo /\ src[h].value >= FundingNeeded /\ Rooted(src[h])
    BY <2>1 DEF FundInv, CallInv
  <2>4. \A e \in fundings' : e.utxo.value >= 0
    <3>1. f.utxo.value >= 0
      BY <2>2, <2>3, CostType, SumsAgree DEF Utxo
    <3>2. QED
      BY <2>1, <3>1 DEF FundInv
  <2>5. AncestryRecorded'
    BY <2>1, <2>2, <2>3 DEF FundInv, AncestryRecorded, Rooted
  <2>6. OneOpenGenerator'
    <3>1. \A r \in gens : ~ HasUnused(r)
      BY <2>1 DEF CallInv
    <3>2. QED
      BY <2>1, <3>1 DEF OneOpenGenerator, HasUnused
  <2>7. \E u \in Utxo : g.txid = GenTxid(u) /\ g.funding = u.txid
    BY <2>2, <2>3
  <2>8. \A q \in Handlers : pc'[q] \notin {"funded", "inserted"}
    BY <2>1 DEF CommitWith, LockInv
  <2>9. QED
    BY <2>1, <2>4, <2>5, <2>6, <2>7, <2>8 DEF FundInv
<1>10. ASSUME NEW u, u.value >= 0, Outside(u.txid),
             fundings' = fundings \cup {[id |-> nextId, utxo |-> u]},
             UNCHANGED <<gens, callVars>>,
             status' = "paying" => status = "paying" /\ UNCHANGED boot
      PROVE FundInv'
  BY <1>10 DEF FundInv, AncestryRecorded, OneOpenGenerator, HasUnused,
     Rooted, callVars
<1>11. ASSUME NEW u \in Named, SetFundingUtxo(u) PROVE FundInv'
  BY <1>10, <1>11, NamedType, NamedRooted DEF SetFundingUtxo, procVars
<1>12. ASSUME NEW w \in Wallet, StartPay(w) PROVE FundInv'
  BY <1>12, WalletUtxoRooted DEF StartPay, FundInv, AncestryRecorded,
     OneOpenGenerator, HasUnused, Rooted, callVars, dbVars
<1>13. CASE StartCommit
  BY <1>10, <1>13 DEF StartCommit, FundInv
<1>14. CASE StartFunded \/ Crash
  BY <1>14 DEF StartFunded, Crash, FundInv, AncestryRecorded,
     OneOpenGenerator, HasUnused, Rooted, callVars, dbVars
<1>15. CASE UNCHANGED vars
  BY <1>1, <1>15 DEF vars, dbVars, callVars, procVars
<1>16. QED
  BY <1>2, <1>3, <1>4, <1>5, <1>6, <1>7, <1>8, <1>9, <1>11, <1>12, <1>13, <1>14, <1>15
     DEF Next, Work, Proceed, Start

(* The invariant on funding holds in every state the operator reaches.     *)
THEOREM FundInvariance == Spec => []FundInv
  BY InitFundInv, NextFundInv, Invariance, PTL DEF Spec

(* The subtraction of create_kickoff_utxo_tx never underflows on a funding *)
(* UTXO that passed the separate check of new_deposit, for every number of *)
(* kickoffs and every value that the RPC may state.                        *)
THEOREM ChangeNeverNegative == Spec => []ChangeNotNegative
<1>1. IInv /\ FundInv => ChangeNotNegative
  <2> SUFFICES ASSUME IInv, FundInv PROVE ChangeNotNegative
    OBVIOUS
  <2>1. ASSUME NEW h \in Handlers, pc[h] \in {"funded", "inserted"}
        PROVE  ChangeAmount(src[h].value) >= 0
    <3>1. src[h].value \in Int /\ src[h].value >= FundingNeeded
      BY <2>1 DEF IInv, CallInv, FundInv, Utxo
    <3>2. ChangeAmount(src[h].value) = src[h].value - FundingNeeded
      BY <3>1, SumsAgree
    <3>3. QED
      BY <3>1, <3>2, CostType
  <2>2. QED
    BY <2>1 DEF FundInv, ChangeNotNegative
<1>2. QED
  BY Invariance, FundInvariance, <1>1, PTL

(* The parent of every generator transaction, and of every funding UTXO,   *)
(* is recorded, a wallet transaction, or one that the RPC named.           *)
THEOREM AncestryAlwaysRecorded == Spec => []AncestryRecorded
<1>1. FundInv => AncestryRecorded
  BY DEF FundInv
<1>2. QED
  BY FundInvariance, <1>1, PTL

(* At most one generator transaction has kickoffs left.                    *)
THEOREM OneGeneratorOpen == Spec => []OneOpenGenerator
<1>1. FundInv => OneOpenGenerator
  BY DEF FundInv
<1>2. QED
  BY FundInvariance, <1>1, PTL

-----------------------------------------------------------------------------
(* Which funding a generator spends.  A third invariant: serial values     *)
(* grow, and each recorded generator left its change behind in a row after *)
(* the one it spent.                                                       *)
SpendInv ==
    /\ \A f \in fundings : f.id < nextId
    /\ \A r \in gens : \E f, c \in fundings : r.txid = GenTxid(f.utxo) /\ f.id < c.id
    /\ \A h \in Handlers :
        /\ pc[h] \in {"funded", "inserted"} => \E f \in fundings : f.utxo = src[h]
        /\ pc[h] = "inserted" =>
            /\ slot[h] < nextId
            /\ \E f \in fundings : f.utxo = src[h] /\ f.id < slot[h]
    /\ ConflictOnlyOnRepeatedFunding

(* The transaction id of a generator determines the outpoint it spends and *)
(* the value claimed for it.                                               *)
LEMMA GenTxidInjective ==
    ASSUME NEW u \in Utxo, NEW v \in Utxo, GenTxid(u) = GenTxid(v)
    PROVE  u = v
<1> DEFINE a == <<u.vout, u.value>>
           b == <<v.vout, v.value>>
<1>1. /\ u.txid \in Txid /\ u.txid.path \in Seq(Spent)
      /\ v.txid \in Txid /\ v.txid.path \in Seq(Spent)
      /\ a \in Spent /\ b \in Spent
  BY DEF Utxo, Txid, Spent
<1>2. u.txid.root = v.txid.root /\ Append(u.txid.path, a) = Append(v.txid.path, b)
  BY DEF GenTxid
<1> DEFINE p == u.txid.path
           q == v.txid.path
<1> HIDE DEF a, b
<1>3. p = q /\ a = b
  <2>1. p \in Seq(Spent) /\ q \in Seq(Spent) /\ Append(p, a) = Append(q, b)
    BY <1>1, <1>2
  <2> HIDE DEF p, q
  <2>2. QED
    BY <1>1, <2>1, PathAppend
<1>4. u.txid = v.txid
  <2>1. \A x \in Txid : x = [root |-> x.root, path |-> x.path]
    BY DEF Txid
  <2>2. QED
    BY <1>1, <1>2, <1>3, <2>1, Zenon
<1>5. u.vout = v.vout /\ u.value = v.value
  BY <1>3 DEF a, b
<1>6. QED
  BY <1>4, <1>5 DEF Utxo

(* Wallet transactions differ in their outputs, which no generator makes.  *)
LEMMA WalletUtxoFacts ==
    /\ \A v, w \in Wallet : WalletUtxo(v) = WalletUtxo(w) => v = w
    /\ \A u \in Utxo : \A w \in Wallet : ChangeUtxo(u) # WalletUtxo(w)
<1>1. \A w : WalletUtxo(w).txid.root = w /\ WalletUtxo(w).txid.path = <<>>
  BY DEF WalletUtxo
<1>2. ASSUME NEW u \in Utxo PROVE ChangeUtxo(u).txid.path # <<>>
  <2>1. u.txid.path \in Seq(Spent) /\ <<u.vout, u.value>> \in Spent
    BY DEF Utxo, Txid, Spent
  <2>2. Append(u.txid.path, <<u.vout, u.value>>) # <<>>
    BY <2>1, PathAppend
  <2>3. QED
    BY <2>2 DEF ChangeUtxo, GenTxid
<1>3. QED
  BY <1>1, <1>2

(* The fresh database satisfies the invariant on spending.                 *)
LEMMA InitSpendInv == Init => SpendInv
  BY DEF Init, SpendInv, ConflictOnlyOnRepeatedFunding

(* Every action preserves it.                                              *)
LEMMA NextSpendInv == IInv /\ FundInv /\ SpendInv /\ [Next]_vars => SpendInv'
<1> SUFFICES ASSUME IInv, FundInv, SpendInv, [Next]_vars PROVE SpendInv'
  OBVIOUS
<1> USE DEF IInv, TypeOK
<1>1. ASSUME UNCHANGED <<gens, fundings>>, nextId' \in Nat, nextId' >= nextId,
             \A h \in Handlers :
                /\ pc'[h] = "funded" => pc[h] = "funded" /\ src'[h] = src[h]
                /\ pc'[h] = "inserted" =>
                    \/ pc[h] = "inserted" /\ src'[h] = src[h] /\ slot'[h] = slot[h]
                    \/ pc[h] = "funded" /\ src'[h] = src[h] /\ slot'[h] = nextId
                       /\ nextId' > nextId
      PROVE SpendInv'
  <2>1. \A f \in fundings' : f.id < nextId'
    BY <1>1 DEF SpendInv
  <2>2. ASSUME NEW h \in Handlers
        PROVE  /\ pc'[h] \in {"funded", "inserted"} => \E f \in fundings' : f.utxo = src'[h]
               /\ pc'[h] = "inserted" =>
                    /\ slot'[h] < nextId'
                    /\ \E f \in fundings' : f.utxo = src'[h] /\ f.id < slot'[h]
    BY <1>1 DEF SpendInv
  <2>3. ConflictOnlyOnRepeatedFunding'
    <3> SUFFICES ASSUME NEW h \in Handlers, pc'[h] = "funded",
                        NEW r \in gens, r.txid = GenTxid(src'[h])
                 PROVE  \E a, b \in fundings : a # b /\ a.utxo = src'[h] /\ b.utxo = src'[h]
      BY <1>1 DEF ConflictOnlyOnRepeatedFunding, GenTxid
    <3>1. pc[h] = "funded" /\ src'[h] = src[h]
      BY <1>1
    <3>2. QED
      BY <3>1 DEF SpendInv, ConflictOnlyOnRepeatedFunding
  <2>4. QED
    BY <1>1, <2>1, <2>2, <2>3 DEF SpendInv, GenTxid
<1>2. ASSUME NEW h \in Handlers, NEW d \in Deposits, NewDeposit(h, d) PROVE SpendInv'
  BY <1>1, <1>2 DEF NewDeposit, dbVars, procVars
<1>3. ASSUME NEW h \in Handlers, AcquireLock(h) PROVE SpendInv'
  BY <1>1, <1>3 DEF AcquireLock, dbVars, procVars
<1>4. ASSUME NEW h \in Handlers, ReturnExisting(h) PROVE SpendInv'
  BY <1>1, <1>4 DEF ReturnExisting, CommitWith, dbVars, procVars
<1>5. ASSUME NEW h \in Handlers, InsertChange(h) PROVE SpendInv'
  BY <1>1, <1>5 DEF InsertChange, procVars
<1>6. ASSUME NEW h \in Handlers,
             FundingError(h) \/ TxidConflict(h) \/ Reply(h) \/ Abort(h)
      PROVE SpendInv'
  BY <1>1, <1>6 DEF FundingError, TxidConflict, Reply, Abort, EndCall, dbVars, procVars
<1>7. ASSUME NEW h \in Handlers, ReadFunding(h) PROVE SpendInv'
  <2>1. PICK f \in fundings : IsLatestFunding(f) /\ src' = [src EXCEPT ![h] = f.utxo]
    BY <1>7 DEF ReadFunding
  <2>2. /\ UNCHANGED <<gens, fundings, nextId, slot, status, boot>>
        /\ pc' = [pc EXCEPT ![h] = "funded"]
    BY <1>7 DEF ReadFunding, dbVars, procVars
  (* A generator of the latest funding left its change in a later row than *)
  (* the one it spent: the UTXO has been named again since.                *)
  <2>3. ASSUME NEW r \in gens, r.txid = GenTxid(f.utxo)
        PROVE  \E g \in fundings : g # f /\ g.utxo = f.utxo
    <3>1. PICK g \in fundings, c \in fundings : r.txid = GenTxid(g.utxo) /\ g.id < c.id
      BY DEF SpendInv
    <3>2. c.id <= f.id /\ c.id \in Nat /\ f.id \in Nat /\ g.id \in Nat
      BY <2>1 DEF IsLatestFunding
    <3>3. g.utxo \in Utxo /\ f.utxo \in Utxo
      OBVIOUS
    <3>4. g.utxo = f.utxo
      BY <2>3, <3>1, <3>3, GenTxidInjective
    <3>5. QED
      BY <3>1, <3>2, <3>4
  <2>4. ConflictOnlyOnRepeatedFunding'
    <3> SUFFICES ASSUME NEW q \in Handlers, pc'[q] = "funded",
                        NEW r \in gens, r.txid = GenTxid(src'[q])
                 PROVE  \E a, b \in fundings : a # b /\ a.utxo = src'[q] /\ b.utxo = src'[q]
      BY <2>2 DEF ConflictOnlyOnRepeatedFunding, GenTxid
    <3>1. CASE q = h
      BY <2>1, <2>3, <3>1
    <3>2. CASE q # h
      BY <2>1, <2>2, <3>2 DEF SpendInv, ConflictOnlyOnRepeatedFunding
    <3>3. QED
      BY <3>1, <3>2
  <2>5. QED
    BY <2>1, <2>2, <2>4 DEF SpendInv, GenTxid
<1>8. ASSUME NEW h \in Handlers, UseUnused(h) PROVE SpendInv'
  <2> PICK r \in gens :
        /\ gens' = (gens \ {r}) \cup {Advance(r)}
        /\ CommitWith(h, LastTaken(Advance(r)))
    BY <1>8 DEF UseUnused
  <2>1. Advance(r).txid = r.txid
    BY AdvanceTypes
  <2>2. \A t \in gens' : \E s \in gens : t.txid = s.txid
    BY <2>1
  <2>3. UNCHANGED <<fundings, nextId, status, boot, src, slot>> /\ pc[h] = "locked"
    BY <1>8 DEF UseUnused, CommitWith, procVars
  <2>4. \A q \in Handlers : pc'[q] \notin {"funded", "inserted"}
    BY <2>3 DEF CommitWith, LockInv
  <2>5. ConflictOnlyOnRepeatedFunding'
    BY <2>4 DEF ConflictOnlyOnRepeatedFunding
  <2>6. \A t \in gens' : \E f, c \in fundings : t.txid = GenTxid(f.utxo) /\ f.id < c.id
    BY <2>2 DEF SpendInv
  <2>7. QED
    BY <2>3, <2>4, <2>5, <2>6 DEF SpendInv, GenTxid
<1>9. ASSUME NEW h \in Handlers, CommitGenerated(h) PROVE SpendInv'
  <2> DEFINE g == NewGenRow(src[h], slot[h])
             c == [id |-> slot[h], utxo |-> ChangeUtxo(src[h])]
  <2>1. /\ gens' = gens \cup {g} /\ fundings' = fundings \cup {c}
        /\ pc[h] = "inserted"
        /\ UNCHANGED <<status, boot, nextId>>
        /\ CommitWith(h, FirstKickoff(src[h]))
    BY <1>9 DEF CommitGenerated, procVars
  <2>2. src[h] \in Utxo /\ slot[h] \in Nat /\ \A r \in gens : r.txid # GenTxid(src[h])
    BY <2>1 DEF CallInv
  <2>3. g.txid = GenTxid(src[h]) /\ c.id = slot[h]
    BY DEF NewGenRow
  <2> HIDE DEF g, c
  <2>6. \A f \in fundings' : f.id < nextId'
    BY <2>1, <2>3 DEF SpendInv
  <2>8. PICK f \in fundings : f.utxo = src[h] /\ f.id < slot[h]
    BY <2>1 DEF SpendInv
  <2>9. \A r \in gens' : \E a, b \in fundings' : r.txid = GenTxid(a.utxo) /\ a.id < b.id
    BY <2>1, <2>3, <2>8 DEF SpendInv
  <2>10. \A q \in Handlers : pc'[q] \notin {"funded", "inserted"}
    BY <2>1 DEF CommitWith, LockInv
  <2>11. ConflictOnlyOnRepeatedFunding'
    BY <2>10 DEF ConflictOnlyOnRepeatedFunding
  <2>12. QED
    BY <2>6, <2>9, <2>10, <2>11 DEF SpendInv, GenTxid
<1>10. ASSUME NEW u, fundings' = fundings \cup {[id |-> nextId, utxo |-> u]},
             nextId' = nextId + 1,
             UNCHANGED <<gens, callVars>>
      PROVE SpendInv'
  <2> DEFINE n == [id |-> nextId, utxo |-> u]
  <2>1. fundings' = fundings \cup {n} /\ n.id = nextId
    BY <1>10
  <2> HIDE DEF n
  <2>4. \A f \in fundings' : f.id < nextId'
    BY <1>10, <2>1 DEF SpendInv
  <2>6. \A r \in gens' : \E a, b \in fundings' : r.txid = GenTxid(a.utxo) /\ a.id < b.id
    BY <1>10, <2>1 DEF SpendInv
  <2>7. ASSUME NEW h \in Handlers
        PROVE  /\ pc'[h] \in {"funded", "inserted"} => \E f \in fundings' : f.utxo = src'[h]
               /\ pc'[h] = "inserted" =>
                    /\ slot'[h] < nextId'
                    /\ \E f \in fundings' : f.utxo = src'[h] /\ f.id < slot'[h]
    BY <1>10, <2>1 DEF SpendInv, callVars
  <2>8. ConflictOnlyOnRepeatedFunding'
    <3> SUFFICES ASSUME NEW h \in Handlers, pc[h] = "funded",
                        NEW r \in gens, r.txid = GenTxid(src[h])
                 PROVE  \E a, b \in fundings' : a # b /\ a.utxo = src[h] /\ b.utxo = src[h]
      BY <1>10 DEF ConflictOnlyOnRepeatedFunding, GenTxid, callVars
    <3>1. \E a, b \in fundings : a # b /\ a.utxo = src[h] /\ b.utxo = src[h]
      BY DEF SpendInv, ConflictOnlyOnRepeatedFunding
    <3>2. QED
      BY <2>1, <3>1
  <2>9. QED
    BY <2>4, <2>6, <2>7, <2>8 DEF SpendInv, GenTxid
<1>11. ASSUME NEW u \in Named, SetFundingUtxo(u) PROVE SpendInv'
  BY <1>10, <1>11 DEF SetFundingUtxo
<1>12. ASSUME NEW w \in Wallet, StartPay(w) PROVE SpendInv'
  BY <1>12 DEF StartPay, SpendInv, ConflictOnlyOnRepeatedFunding, GenTxid, callVars, dbVars
<1>13. CASE StartCommit
  BY <1>10, <1>13 DEF StartCommit
<1>14. CASE StartFunded \/ Crash
  BY <1>1, <1>14 DEF StartFunded, Crash, callVars, dbVars
<1>15. CASE UNCHANGED vars
  BY <1>1, <1>15 DEF vars, dbVars, callVars, procVars
<1>16. QED
  BY <1>2, <1>3, <1>4, <1>5, <1>6, <1>7, <1>8, <1>9, <1>11, <1>12, <1>13, <1>14, <1>15
     DEF Next, Work, Proceed, Start

(* The lock of new_deposit is enough: an INSERT of a generator row fails   *)
(* on its txid only when its funding UTXO is in the table twice.           *)
THEOREM ConflictsOnlyOnRepeatedFunding == Spec => []ConflictOnlyOnRepeatedFunding
<1>1. SpendInv => ConflictOnlyOnRepeatedFunding
  BY DEF SpendInv
<1>2. QED
  BY InitSpendInv, NextSpendInv, Invariance, FundInvariance, <1>1, PTL DEF Spec

-----------------------------------------------------------------------------
(* What Operator::new pays.  A fourth invariant: before the first row of   *)
(* funding_utxos is committed nothing runs but Operator::new itself, and   *)
(* every payment that no row names was cut off by a crash, or is the one   *)
(* in flight.                                                              *)
Used == {w \in paid : \E f \in fundings : f.utxo = WalletUtxo(w)}

InFlight == IF status = "paying" THEN 1 ELSE 0

StartInv ==
    /\ IsFiniteSet(paid)
    /\ status = "paying" => fundings = {} /\ \E w \in paid : boot = WalletUtxo(w)
    /\ status # "up" => \A h \in Handlers : pc[h] = "idle"
    /\ Cardinality(Used) <= (IF fundings = {} THEN 0 ELSE 1 + sets)
    /\ Cardinality(paid \ Used) <= failures + InFlight

(* The fresh database satisfies the invariant on payments.                 *)
LEMMA InitStartInv == Init => StartInv
<1> SUFFICES ASSUME Init PROVE StartInv
  OBVIOUS
<1>1. paid = {} /\ Used = {} /\ paid \ Used = {}
  BY DEF Init, Used
<1>2. IsFiniteSet({}) /\ Cardinality({}) = 0
  BY FS_EmptySet
<1>3. QED
  BY <1>1, <1>2 DEF Init, StartInv, InFlight

(* Payments in use and cut off are finitely many.                          *)
LEMMA UsedFinite ==
    ASSUME StartInv
    PROVE  /\ IsFiniteSet(Used) /\ Cardinality(Used) \in Nat
           /\ IsFiniteSet(paid \ Used) /\ Cardinality(paid \ Used) \in Nat
<1>1. Used \in SUBSET paid /\ paid \ Used \in SUBSET paid /\ IsFiniteSet(paid)
  BY DEF Used, StartInv
<1>2. QED
  BY <1>1, FS_Subset, FS_CardinalityType

(* Steps that pay nothing and add no wallet output to the table keep the   *)
(* invariant.                                                              *)
LEMMA QuietKeepsStartInv ==
    ASSUME TypeOK, StartInv, sets' \in Nat, failures' \in Nat,
           UNCHANGED paid, UNCHANGED sets,
           \A w \in Wallet : (\E f \in fundings' : f.utxo = WalletUtxo(w))
                <=> (\E f \in fundings : f.utxo = WalletUtxo(w)),
           fundings \subseteq fundings',
           status' = "paying" => status = "paying" /\ boot' = boot /\ fundings' = fundings,
           status' # "up" => \A h \in Handlers : pc'[h] = "idle",
           failures + InFlight <= failures' + InFlight'
    PROVE  StartInv'
<1>1. Used' = Used
  BY DEF Used, TypeOK
<1>2. Cardinality(Used) <= (IF fundings' = {} THEN 0 ELSE 1 + sets')
  BY UsedFinite DEF StartInv, TypeOK
<1>3. Cardinality(paid \ Used) <= failures' + InFlight'
  <2>1. InFlight \in Nat /\ InFlight' \in Nat
    BY DEF InFlight
  <2>2. Cardinality(paid \ Used) <= failures + InFlight /\ failures \in Nat
    BY DEF StartInv, TypeOK
  <2>3. \A c, f, k, g, m \in Nat : c <= f + k /\ f + k <= g + m => c <= g + m
    OBVIOUS
  <2>4. Cardinality(paid \ Used) \in Nat
    BY UsedFinite
  <2>5. QED
    BY <2>1, <2>2, <2>3, <2>4, Zenon
<1>4. QED
  BY <1>1, <1>2, <1>3 DEF StartInv

(* Every action preserves it.                                              *)
LEMMA NextStartInv == IInv /\ StartInv /\ [Next]_vars => StartInv'
<1> SUFFICES ASSUME IInv, StartInv, [Next]_vars PROVE StartInv'
  OBVIOUS
<1>0. TypeOK /\ TypeOK'
  BY NextTypeOK DEF IInv
<1> USE <1>0
<1>1. ASSUME UNCHANGED <<fundings, procVars, sets>>, failures' >= failures,
             status # "up" => \A h \in Handlers : pc'[h] = "idle"
      PROVE StartInv'
  <2>1. UNCHANGED <<status, boot, paid>> /\ failures \in Nat /\ failures' \in Nat /\ sets' \in Nat
    BY <1>1 DEF procVars, TypeOK
  <2>2. InFlight' = InFlight /\ InFlight \in Nat
    BY <2>1 DEF InFlight
  <2>3. failures + InFlight <= failures' + InFlight'
    <3>1. \A f, g, k \in Nat : g >= f => f + k <= g + k
      OBVIOUS
    <3>2. failures' >= failures
      BY <1>1
    <3>3. QED
      BY <2>1, <2>2, <3>1, <3>2, Zenon
  <2>4. QED
    BY <1>1, <2>1, <2>3, QuietKeepsStartInv
<1>2. ASSUME NEW h \in Handlers, NEW d \in Deposits, NewDeposit(h, d) PROVE StartInv'
  BY <1>1, <1>2 DEF NewDeposit, dbVars, TypeOK
<1>3. ASSUME NEW h \in Handlers, pc[h] # "idle" PROVE status = "up"
  BY <1>3 DEF StartInv
<1>4. ASSUME NEW h \in Handlers, AcquireLock(h) PROVE StartInv'
  BY <1>1, <1>3, <1>4 DEF AcquireLock, dbVars, TypeOK
<1>5. ASSUME NEW h \in Handlers,
             ReturnExisting(h) \/ UseUnused(h) \/ ReadFunding(h) \/ InsertChange(h)
      PROVE StartInv'
  BY <1>1, <1>3, <1>5 DEF ReturnExisting, UseUnused, ReadFunding, InsertChange, dbVars, TypeOK
<1>6. ASSUME NEW h \in Handlers,
             FundingError(h) \/ TxidConflict(h) \/ Reply(h) \/ Abort(h)
      PROVE StartInv'
  BY <1>1, <1>3, <1>6 DEF FundingError, TxidConflict, Reply, Abort, dbVars, TypeOK
<1>7. ASSUME NEW h \in Handlers, CommitGenerated(h) PROVE StartInv'
  <2> DEFINE c == [id |-> slot[h], utxo |-> ChangeUtxo(src[h])]
  <2>1. /\ fundings' = fundings \cup {c} /\ pc[h] = "inserted"
        /\ UNCHANGED <<status, boot, paid, sets, failures>>
    BY <1>7 DEF CommitGenerated, procVars
  <2>2. status = "up"
    BY <1>3, <2>1
  <2>3. src[h] \in Utxo /\ c.utxo = ChangeUtxo(src[h])
    BY <2>1 DEF IInv, CallInv
  <2>5. \A w \in Wallet : c.utxo # WalletUtxo(w)
    BY <2>3, WalletUtxoFacts
  <2> HIDE DEF c
  <2>6. \A w \in Wallet : (\E f \in fundings' : f.utxo = WalletUtxo(w))
                <=> (\E f \in fundings : f.utxo = WalletUtxo(w))
    BY <2>1, <2>5
  <2>7. InFlight' = InFlight /\ InFlight \in Nat
    BY <2>1 DEF InFlight
  <2>8. QED
    BY <2>1, <2>2, <2>6, <2>7, QuietKeepsStartInv DEF TypeOK
<1>8. ASSUME NEW u \in Named, SetFundingUtxo(u) PROVE StartInv'
  <2> DEFINE c == [id |-> nextId, utxo |-> u]
             w == CHOOSE v \in Wallet : u = WalletUtxo(v)
  <2>1. /\ fundings' = fundings \cup {c} /\ sets' = sets + 1 /\ status = "up"
        /\ UNCHANGED <<status, boot, paid, failures, pc>>
    BY <1>8 DEF SetFundingUtxo, procVars, callVars
  <2>2. c.utxo = u /\ \A v \in Wallet : u = WalletUtxo(v) => v = w
    BY WalletUtxoFacts
  <2> HIDE DEF c, w
  <2>3. Used \subseteq Used' /\ Used' \subseteq Used \cup {w} /\ paid' \ Used' \subseteq paid \ Used
    BY <2>1, <2>2 DEF Used, TypeOK
  <2>4. /\ IsFiniteSet(Used) /\ Cardinality(Used) \in Nat
        /\ IsFiniteSet(paid \ Used) /\ Cardinality(paid \ Used) \in Nat
    BY UsedFinite
  <2>5. IsFiniteSet(Used \cup {w}) /\ Cardinality(Used \cup {w}) <= Cardinality(Used) + 1
    <3>1. Cardinality(Used \cup {w}) = IF w \in Used THEN Cardinality(Used) ELSE Cardinality(Used) + 1
      BY <2>4, FS_AddElement
    <3>2. IsFiniteSet(Used \cup {w})
      BY <2>4, FS_AddElement
    <3>3. QED
      BY <2>4, <3>1, <3>2
  <2>6. Cardinality(Used') <= Cardinality(Used) + 1
    <3>1. Used' \in SUBSET (Used \cup {w})
      BY <2>3
    <3>2. IsFiniteSet(Used') /\ Cardinality(Used') <= Cardinality(Used \cup {w})
      BY <2>5, <3>1, FS_Subset
    <3>3. Cardinality(Used') \in Nat /\ Cardinality(Used \cup {w}) \in Nat
      BY <2>5, <3>2, FS_CardinalityType
    <3>4. QED
      BY <2>4, <2>5, <3>2, <3>3
  <2>7. Cardinality(paid' \ Used') <= Cardinality(paid \ Used) /\ Cardinality(paid' \ Used') \in Nat
    <3>1. paid' \ Used' \in SUBSET (paid \ Used)
      BY <2>3
    <3>2. QED
      BY <2>4, <3>1, FS_Subset, FS_CardinalityType
  <2>8. IsFiniteSet(Used') /\ Cardinality(Used') \in Nat
    <3>1. Used' \in SUBSET (Used \cup {w})
      BY <2>3
    <3>2. QED
      BY <2>5, <3>1, FS_Subset, FS_CardinalityType
  <2>9. Cardinality(Used') <= (IF fundings' = {} THEN 0 ELSE 1 + sets')
    BY <2>1, <2>4, <2>6, <2>8 DEF StartInv, TypeOK
  <2>10. Cardinality(paid' \ Used') <= failures' + InFlight'
    BY <2>1, <2>4, <2>7 DEF StartInv, TypeOK, InFlight
  <2>11. QED
    BY <2>1, <2>9, <2>10 DEF StartInv
<1>9. ASSUME NEW w \in Wallet, StartPay(w) PROVE StartInv'
  <2>1. /\ status = "down" /\ status' = "paying" /\ fundings = {} /\ fundings' = {}
        /\ w \notin paid /\ paid' = paid \cup {w} /\ boot' = WalletUtxo(w)
        /\ UNCHANGED <<pc, sets, failures>>
    BY <1>9 DEF StartPay, dbVars, callVars
  <2>2. Used = {} /\ Used' = {} /\ paid \ Used = paid /\ paid' \ Used' = paid'
    BY <2>1 DEF Used
  <2>3. IsFiniteSet(paid) /\ Cardinality(paid) \in Nat
    BY <2>2, UsedFinite
  <2>4. IsFiniteSet(paid') /\ Cardinality(paid') = Cardinality(paid) + 1
    BY <2>1, <2>3, FS_AddElement
  <2>5. Cardinality(paid' \ Used') <= failures' + InFlight'
    BY <2>1, <2>2, <2>3, <2>4 DEF StartInv, InFlight, TypeOK
  <2>6. Cardinality({}) = 0
    BY FS_EmptySet
  <2>7. QED
    BY <2>1, <2>2, <2>4, <2>5, <2>6 DEF StartInv
<1>10. CASE StartCommit
  <2>1. PICK w \in paid : boot = WalletUtxo(w)
    BY <1>10 DEF StartCommit, StartInv
  <2> DEFINE c == [id |-> nextId, utxo |-> WalletUtxo(w)]
  <2>2. /\ status = "paying" /\ status' = "up" /\ fundings = {} /\ fundings' = {c}
        /\ UNCHANGED <<paid, sets, failures>>
    BY <1>10, <2>1 DEF StartCommit, StartInv
  <2>3. c.utxo = WalletUtxo(w)
    OBVIOUS
  <2> HIDE DEF c
  <2>4. Used = {} /\ Used' = {w}
    BY <2>2, <2>3, WalletUtxoFacts DEF Used, TypeOK
  <2>5. IsFiniteSet(paid) /\ Cardinality(paid) \in Nat /\ paid \ Used = paid
    BY <2>4, UsedFinite
  <2>6. Cardinality(paid' \ Used') = Cardinality(paid) - 1
    BY <2>1, <2>2, <2>4, <2>5, FS_RemoveElement
  <2>7. Cardinality(Used') = 1
    BY <2>4, FS_Singleton
  <2>8. Cardinality(paid' \ Used') <= failures' + InFlight'
    <3>1. InFlight = 1 /\ InFlight' = 0 /\ failures' = failures /\ failures \in Nat
      BY <2>2 DEF InFlight, TypeOK
    <3>2. Cardinality(paid) <= failures + InFlight
      BY <2>5 DEF StartInv
    <3>3. QED
      BY <2>5, <2>6, <3>1, <3>2
  <2>9. QED
    BY <2>2, <2>5, <2>7, <2>8 DEF StartInv, TypeOK
<1>11. CASE StartFunded
  BY <1>11, QuietKeepsStartInv DEF StartFunded, dbVars, TypeOK, InFlight
<1>12. CASE Crash
  BY <1>12, QuietKeepsStartInv DEF Crash, dbVars, TypeOK, InFlight
<1>13. CASE UNCHANGED vars
  BY <1>1, <1>13 DEF vars, dbVars, callVars, procVars, StartInv, TypeOK
<1>14. QED
  BY <1>2, <1>4, <1>5, <1>6, <1>7, <1>8, <1>9, <1>10, <1>11, <1>12, <1>13
     DEF Next, Work, Proceed, Start

(* Operator::new makes at most one payment that becomes funding, and every *)
(* other payment of it was cut off by a crash, however often it restarts.  *)
THEOREM StartupAlwaysPaysOnce == Spec => []StartupPaysOnce
<1>1. TypeOK /\ StartInv => StartupPaysOnce
  <2> SUFFICES ASSUME TypeOK, StartInv PROVE StartupPaysOnce
    OBVIOUS
  <2>1. Cardinality(Used) \in Nat /\ Cardinality(paid \ Used) \in Nat
    BY UsedFinite
  <2>2. Cardinality(Used) <= 1 + sets
    BY <2>1 DEF StartInv, TypeOK
  <2>3. Cardinality(paid \ Used) <= failures + InFlight
    BY DEF StartInv
  <2>4. QED
    BY <2>2, <2>3 DEF StartupPaysOnce, Used, InFlight
<1>2. QED
  BY InitStartInv, NextStartInv, Invariance, TypeCorrect, <1>1, PTL DEF Spec
=============================================================================
