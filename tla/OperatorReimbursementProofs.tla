--------------------- MODULE OperatorReimbursementProofs ---------------------
(***************************************************************************)
(* Theorems about OperatorReimbursement, for every chain length and limit, *)
(* any number of callers, failing answers and crashes.                     *)
(*                                                                         *)
(* The operator with its chain is still the operator of OperatorKickoffs   *)
(* (StillAnOperator), so its theorems hold here; on top of them Good says  *)
(* what a call of withdrawal_proved_on_citrea knows about its list.        *)
(***************************************************************************)
EXTENDS OperatorReimbursement, OperatorKickoffsProofs

(* A stored generator transaction t that spends an output of f.            *)
Stored(t, f) == \E r \in gens : r.txid = t /\ r.funding = f

(* The list is a chain of stored transactions that ends in the kickoff's   *)
(* generator.                                                              *)
Chained(w) ==
    /\ \A i \in 1 .. Len(w.list) - 1 : Stored(w.list[i+1], w.list[i])
    /\ w.list # <<>> => w.list[Len(w.list)] = w.kickoff.txid

(* The node never knows a transaction of the list and not its ancestors.   *)
Closed(w) ==
    \A i, j \in 1 .. Len(w.list) : i <= j /\ OnChain(w.list[j]) => OnChain(w.list[i])

(* While the walk searches, the current transaction is the parent of the   *)
(* list, it is on chain or stored, every step went one transaction up, and *)
(* the list is accounted for by what the node lacked and what failed.      *)
Ahead(w) ==
    /\ w.list = <<>> => w.current = w.kickoff.txid
    /\ w.list # <<>> => Stored(w.list[1], w.current)
    /\ w.current.path = <<>> \/ \E r \in gens : r.txid = w.current
    /\ w.n = Len(w.list)
    /\ Len(w.kickoff.txid.path) = Len(w.current.path) + w.n
    /\ Closed(w)
    /\ w.gap + w.failed >= w.n

(* Afterwards the first transaction of the list can be sent.               *)
Sendable(w) ==
    /\ w.list # <<>> => Accepted(w.list[1])
    /\ w.list = <<>> => OnChain(w.kickoff.txid)

Bound(w) == [deposit |-> w.deposit, kickoff |-> w.kickoff]

Good(w) ==
    /\ w \in WalkState
    /\ Bound(w) \in kickoffs
    /\ CitreaChecks => w.deposit \in filled
    /\ Chained(w)
    /\ w.pc = "searching" => Ahead(w)
    /\ w.pc \in {"found", "sending"} => Sendable(w)
    /\ w.pc = "waiting" => Bound(w) \in sots

CallersGood ==
    /\ walk \in [Callers -> WalkState \cup {Idle}]
    /\ \A c \in Callers : walk[c] = Idle \/ Good(walk[c])

(* What the node knows are wallet transactions and stored generators, and  *)
(* with each of these its parent.                                          *)
KnownInv ==
    /\ \A t \in known : t.path = <<>> \/ \E r \in gens : r.txid = t
    /\ \A r \in gens : r.txid \in known => OnChain(r.funding)

(* The inductive invariant: the calls, what the node knows, and how the    *)
(* stages of a deposit follow each other.                                  *)
RInv ==
    /\ CallersGood
    /\ KnownInv
    /\ known \subseteq Txid
    /\ sots \subseteq kickoffs
    /\ ripe \subseteq sots
    /\ taken \subseteq Deposits
    /\ CitreaChecks => taken \subseteq filled
    /\ \A d \in taken : \E s \in sots : s.deposit = d
    /\ signed \subseteq Deposits /\ moved \subseteq signed /\ filled \subseteq moved
    /\ faults \in Nat

-----------------------------------------------------------------------------
(* Sequences *)

(* What putting a transaction before a list yields.                        *)
LEMMA Prepend ==
  ASSUME NEW S, NEW l \in Seq(S), NEW x \in S
  PROVE  /\ <<x>> \o l \in Seq(S)
         /\ <<x>> \o l # <<>>
         /\ Len(<<x>> \o l) = Len(l) + 1
         /\ (<<x>> \o l)[1] = x
         /\ \A i \in 1 .. Len(l) : (<<x>> \o l)[i+1] = l[i]
<1>1. <<x>> \in Seq(S) /\ Len(<<x>>) = 1 /\ <<x>>[1] = x
  OBVIOUS
<1>2. Len(l) \in Nat
  BY LenProperties
<1>3. /\ <<x>> \o l \in Seq(S)
      /\ Len(<<x>> \o l) = 1 + Len(l)
      /\ \A i \in 1 .. 1 + Len(l) : (<<x>> \o l)[i] = IF i <= 1 THEN <<x>>[i] ELSE l[i - 1]
  BY <1>1, ConcatProperties
<1>4. (<<x>> \o l)[1] = x
  BY <1>1, <1>2, <1>3
<1>5. ASSUME NEW i \in 1 .. Len(l) PROVE (<<x>> \o l)[i+1] = l[i]
  BY <1>2, <1>3
<1>6. <<x>> \o l # <<>>
  BY <1>2, <1>3, EmptySeq
<1>7. QED
  BY <1>2, <1>3, <1>4, <1>5, <1>6

(* A list of which the node knows nothing is missing as a whole.           *)
LEMMA MissingAll ==
  ASSUME NEW l \in Seq(Txid)
  PROVE  /\ Missing(l) \in Nat
         /\ (\A i \in 1 .. Len(l) : ~ OnChain(l[i])) => Missing(l) = Len(l)
<1> DEFINE D == 1 .. Len(l)
           M == {i \in DOMAIN l : ~ OnChain(l[i])}
<1>1. DOMAIN l = D /\ Len(l) \in Nat
  BY LenProperties
<1>2. IsFiniteSet(D) /\ Cardinality(D) = Len(l)
  BY <1>1, FS_Interval
<1>3. M \in SUBSET D
  BY <1>1
<1>4. Missing(l) = Cardinality(M)
  BY DEF Missing
<1>5. Missing(l) \in Nat
  BY <1>2, <1>3, <1>4, FS_Subset, FS_CardinalityType
<1>6. ASSUME \A i \in 1 .. Len(l) : ~ OnChain(l[i]) PROVE Missing(l) = Len(l)
  <2>1. M = D
    BY <1>1, <1>6
  <2>2. QED
    BY <1>2, <1>4, <2>1
<1>7. QED
  BY <1>5, <1>6

-----------------------------------------------------------------------------
(* The operator *)

(* A generator is one step further from the wallet than its parent ...     *)
LEMMA GenPath ==
  ASSUME NEW u \in Utxo
  PROVE  /\ GenTxid(u).path # <<>>
         /\ Len(u.txid.path) \in Nat
         /\ Len(GenTxid(u).path) = Len(u.txid.path) + 1
<1> DEFINE p == u.txid.path
           a == <<u.vout, u.value>>
<1>1. p \in Seq(Spent) /\ a \in Spent /\ GenTxid(u).path = Append(p, a)
  BY DEF Utxo, Txid, Spent, GenTxid
<1> HIDE DEF p, a
<1>2. Append(p, a) # <<>> /\ Len(Append(p, a)) = Len(p) + 1 /\ Len(p) \in Nat
  BY <1>1, AppendProperties, LenProperties
<1>3. QED
  BY <1>1, <1>2 DEF p

(* ... and what comes from outside is at the wallet.                       *)
LEMMA Steps ==
  ASSUME FundInv
  PROVE  /\ \A r \in gens : /\ r.txid.path # <<>>
                           /\ Len(r.funding.path) \in Nat
                           /\ Len(r.txid.path) = Len(r.funding.path) + 1
         /\ \A t : Outside(t) => t.path = <<>>
<1>1. ASSUME NEW r \in gens
      PROVE  /\ r.txid.path # <<>> /\ Len(r.funding.path) \in Nat
             /\ Len(r.txid.path) = Len(r.funding.path) + 1
  <2>1. PICK u \in Utxo : r.txid = GenTxid(u) /\ r.funding = u.txid
    BY DEF FundInv
  <2>2. QED
    BY <2>1, GenPath
<1>2. \A t : Outside(t) => t.path = <<>>
  BY TrueFunding DEF Outside, WalletUtxo
<1>3. QED
  BY <1>1, <1>2

(* A step of the larger system is a step of the operator or none.          *)
LEMMA StepOfOperator == [RNext]_allVars => [Next]_vars
<1> SUFFICES ASSUME [RNext]_allVars, ~ UNCHANGED vars PROVE Next
  OBVIOUS
<1>1. ASSUME NEW c \in Callers PROVE ~ (Search(c) \/ Send(c) \/ GiveUp(c))
  BY DEF Search, Send, GiveUp, FoundTxid, StepBack, GeneratorTxNotFound,
     TooManyIterations, SigNotFound, Answer, SendGenerator, SendSlashOrTake,
     SendOperatorTakes
<1>2. ASSUME NEW c \in Callers, NEW d \in Deposits PROVE ~ WithdrawalProvedOnCitrea(c, d)
  BY DEF WithdrawalProvedOnCitrea
<1>3. ASSUME NEW d \in Deposits PROVE ~ Environment(d)
  BY DEF Environment, DepositSigned, DepositMoved, WithdrawalFilled
<1>4. \A s \in sots : ~ Ripen(s)
  BY DEF Ripen
<1>5. QED
  BY <1>1, <1>2, <1>3, <1>4 DEF RNext, RCrash, Next, allVars

(* Reimbursement changes nothing in how kickoffs are handed out.           *)
THEOREM StillAnOperator == RSpec => Spec
<1>1. RInit => Init
  BY DEF RInit
<1>2. QED
  BY <1>1, StepOfOperator, PTL DEF RSpec, Spec

(* Bindings are never undone and stored transactions never forgotten.      *)
LEMMA TablesGrow ==
  ASSUME IInv, [Next]_vars
  PROVE  /\ kickoffs \subseteq kickoffs'
         /\ \A r \in gens : \E s \in gens' : s.txid = r.txid /\ s.funding = r.funding
         /\ \A s \in gens' : \/ \E r \in gens : s.txid = r.txid /\ s.funding = r.funding
                             \/ \A r \in gens : s.txid # r.txid
<1>1. kickoffs \subseteq kickoffs'
  BY StepRefines DEF Registry!RegNext, Registry!Bind, Registry!HandOut, Registry!regVars
<1>2. ASSUME NEW h \in Handlers, UseUnused(h)
      PROVE  /\ \A r \in gens : \E s \in gens' : s.txid = r.txid /\ s.funding = r.funding
             /\ \A s \in gens' : \E r \in gens : s.txid = r.txid /\ s.funding = r.funding
  <2>1. PICK u \in gens : gens' = (gens \ {u}) \cup {Advance(u)}
    BY <1>2 DEF UseUnused
  <2>2. Advance(u).txid = u.txid /\ Advance(u).funding = u.funding
    BY DEF IInv, TypeOK, GenRow, Advance
  <2>3. QED
    BY <2>1, <2>2
<1>3. ASSUME NEW h \in Handlers, CommitGenerated(h)
      PROVE  /\ gens \subseteq gens'
             /\ \A s \in gens' : s \in gens \/ \A r \in gens : s.txid # r.txid
  <2>1. /\ gens' = gens \cup {NewGenRow(src[h], slot[h])}
        /\ NewGenRow(src[h], slot[h]).txid = GenTxid(src[h])
    BY <1>3 DEF CommitGenerated, NewGenRow
  <2>2. \A r \in gens : r.txid # GenTxid(src[h])
    BY <1>3 DEF CommitGenerated, IInv, CallInv
  <2> HIDE DEF NewGenRow
  <2>3. QED
    BY <2>1, <2>2
<1>4. ASSUME NEW h \in Handlers,
             \/ AcquireLock(h) \/ Abort(h) \/ ReturnExisting(h) \/ ReadFunding(h)
             \/ FundingError(h) \/ TxidConflict(h) \/ InsertChange(h) \/ Reply(h)
      PROVE gens' = gens
  BY <1>4 DEF AcquireLock, Abort, ReturnExisting, ReadFunding, FundingError,
     TxidConflict, InsertChange, Reply, dbVars
<1>5. ASSUME NEW h \in Handlers, NEW d \in Deposits, NewDeposit(h, d) PROVE gens' = gens
  BY <1>5 DEF NewDeposit, dbVars
<1>6. ASSUME (\E u \in Named : SetFundingUtxo(u)) \/ (\E w \in Wallet : StartPay(w))
      PROVE gens' = gens
  BY <1>6 DEF SetFundingUtxo, StartPay, dbVars
<1>7. ASSUME StartFunded \/ StartCommit \/ Crash \/ UNCHANGED vars PROVE gens' = gens
  BY <1>7 DEF StartFunded, StartCommit, Crash, vars, dbVars
<1>8. QED
  BY <1>1, <1>2, <1>3, <1>4, <1>5, <1>6, <1>7 DEF Next, Work, Proceed, Start

-----------------------------------------------------------------------------
(* The calls *)

(* What is good stays good: a call relies on facts that only grow.         *)
LEMMA GoodStable ==
  ASSUME NEW w, Good(w),
         kickoffs \subseteq kickoffs', filled \subseteq filled',
         known \subseteq known', sots \subseteq sots',
         \A r \in gens : \E s \in gens' : s.txid = r.txid /\ s.funding = r.funding,
         \A r \in gens : r.txid \in known' \ known => OnChain(r.funding)
  PROVE  Good(w)'
<1>1. ASSUME NEW t, NEW f, Stored(t, f) PROVE Stored(t, f)'
  BY <1>1 DEF Stored
<1>2. ASSUME NEW t, OnChain(t) PROVE OnChain(t)'
  BY <1>2 DEF OnChain
<1>3. ASSUME NEW t, Accepted(t) PROVE Accepted(t)'
  <2>1. CASE OnChain(t)
    BY <1>2, <2>1 DEF Accepted
  <2>2. ASSUME NEW r \in gens, r.txid = t, OnChain(r.funding) PROVE Accepted(t)'
    BY <1>2, <2>2 DEF Accepted
  <2>3. QED
    BY <1>3, <2>1, <2>2 DEF Accepted
<1>4. Chained(w) => Chained(w)'
  BY <1>1 DEF Chained
<1>5. Ahead(w) => Ahead(w)'
  <2> SUFFICES ASSUME Ahead(w) PROVE Ahead(w)'
    OBVIOUS
  <2>1. Closed(w)'
    <3> SUFFICES ASSUME NEW i \in 1 .. Len(w.list), NEW j \in 1 .. Len(w.list),
                        i <= j, OnChain(w.list[j])'
                 PROVE  OnChain(w.list[i])'
      BY DEF Closed
    <3>1. CASE OnChain(w.list[j])
      BY <1>2, <3>1 DEF Ahead, Closed
    <3>2. CASE i = j
      BY <3>2
    <3>3. CASE ~ OnChain(w.list[j]) /\ i # j
      <4>1. Len(w.list) \in Nat
        BY LenProperties DEF Good, WalkState
      <4>2. j - 1 \in 1 .. Len(w.list) - 1 /\ j - 1 \in 1 .. Len(w.list) /\ i <= j - 1
            /\ (j - 1) + 1 = j
        BY <3>3, <4>1
      <4>3. Stored(w.list[(j - 1) + 1], w.list[j - 1])
        BY <4>2 DEF Good, Chained
      <4>4. PICK r \in gens : r.txid = w.list[j] /\ r.funding = w.list[j - 1]
        BY <4>2, <4>3 DEF Stored
      <4>5. OnChain(w.list[j - 1])
        BY <3>3, <4>4 DEF OnChain
      <4>6. OnChain(w.list[i])
        BY <4>2, <4>5 DEF Ahead, Closed
      <4>7. QED
        BY <1>2, <4>6
    <3>4. QED
      BY <3>1, <3>2, <3>3
  <2>2. QED
    BY <1>1, <2>1 DEF Ahead
<1>6. Sendable(w) => Sendable(w)'
  BY <1>2, <1>3 DEF Sendable
<1>7. QED
  BY <1>4, <1>5, <1>6 DEF Good, Bound

(* The first transaction of the walk is the kickoff's generator.           *)
LEMMA GoodCall ==
  ASSUME IInv, RInv, NEW c \in Callers, NEW d \in Deposits, WithdrawalProvedOnCitrea(c, d)
  PROVE  Good(walk'[c])
<1>1. PICK row \in kickoffs :
        /\ row.deposit = d
        /\ walk'[c] = [pc |-> "searching", deposit |-> d, kickoff |-> row.kickoff,
                       current |-> row.kickoff.txid, n |-> 0, list |-> <<>>,
                       gap |-> 0, failed |-> 0]
  BY DEF WithdrawalProvedOnCitrea, RInv, CallersGood
<1>2. row \in [deposit : Deposits, kickoff : Kickoff]
  BY DEF IInv, TypeOK
<1>3. /\ row.kickoff \in Kickoff /\ row.kickoff.txid \in Txid
      /\ row = [deposit |-> row.deposit, kickoff |-> row.kickoff]
  BY <1>2 DEF Kickoff
<1>4. Len(row.kickoff.txid.path) \in Nat
  BY <1>3, LenProperties DEF Txid
<1>5. \E r \in gens : r.txid = row.kickoff.txid
  BY DEF IInv, TableInv, KickoffsGenerated
<1>6. walk'[c] \in WalkState
  BY <1>1, <1>3 DEF WalkState
<1>7. Chained(walk'[c]) /\ Ahead(walk'[c])
  BY <1>1, <1>3, <1>4, <1>5, EmptySeq DEF Chained, Ahead, Closed
<1>8. Bound(walk'[c]) \in kickoffs /\ (CitreaChecks => walk'[c].deposit \in filled)
  BY <1>1, <1>3 DEF Bound, WithdrawalProvedOnCitrea
<1>9. QED
  BY <1>1, <1>6, <1>7, <1>8 DEF Good

(* Stepping back puts the current transaction before the list and makes    *)
(* its parent current, which is on chain or stored.                        *)
LEMMA GoodStepBack ==
  ASSUME IInv, FundInv, RInv, NEW c \in Callers, StepBack(c)
  PROVE  Good(walk'[c])
<1> DEFINE w == walk[c]
           v == walk'[c]
<1>1. w.pc = "searching"
  BY DEF StepBack, NotFound, Searching
<1>2. Good(w) /\ w \in WalkState
  BY <1>1 DEF RInv, CallersGood, Idle, Good
<1>3. PICK r \in gens : r.txid = w.current /\
        v = [w EXCEPT !.current = r.funding, !.n = @ + 1,
                      !.list = <<r.txid>> \o @, !.gap = NextGap(c, r.txid),
                      !.failed = NextFailed(c, r.txid)]
  BY DEF StepBack, RInv, CallersGood
<1>4. r \in GenRow /\ r.txid \in Txid /\ r.funding \in Txid
  BY DEF IInv, TypeOK, GenRow
<1>5. /\ w.list \in Seq(Txid) /\ w.n \in Nat /\ w.gap \in Nat /\ w.failed \in Nat
      /\ w.deposit \in Deposits /\ w.kickoff \in Kickoff
  BY <1>2 DEF WalkState
<1> DEFINE l == <<r.txid>> \o w.list
<1>6. /\ l \in Seq(Txid) /\ l # <<>> /\ Len(l) = Len(w.list) + 1 /\ l[1] = r.txid
      /\ \A i \in 1 .. Len(w.list) : l[i+1] = w.list[i]
  BY <1>4, <1>5, Prepend
<1>7. /\ v.pc = "searching" /\ v.deposit = w.deposit /\ v.kickoff = w.kickoff
      /\ v.current = r.funding /\ v.n = w.n + 1 /\ v.list = l
      /\ v.gap = NextGap(c, r.txid) /\ v.failed = NextFailed(c, r.txid)
      /\ v = [pc |-> v.pc, deposit |-> v.deposit, kickoff |-> v.kickoff,
              current |-> v.current, n |-> v.n, list |-> v.list, gap |-> v.gap,
              failed |-> v.failed]
  BY <1>1, <1>2, <1>3 DEF WalkState
<1>21. NextGap(c, r.txid) = (IF OnChain(r.txid) THEN w.gap ELSE Missing(l))
       /\ NextFailed(c, r.txid) = (IF OnChain(r.txid) THEN w.failed + 1 ELSE w.failed)
  BY DEF NextGap, NextFailed
<1> HIDE DEF l, v
<1>22. Missing(l) \in Nat
       /\ ((\A i \in 1 .. Len(l) : ~ OnChain(l[i])) => Missing(l) = Len(l))
  BY <1>6, MissingAll
<1>8. v \in WalkState
  <2>1. v.gap \in Nat /\ v.failed \in Nat
    BY <1>5, <1>7, <1>21, <1>22
  <2>2. v.n \in Nat
    BY <1>5, <1>7
  <2>3. v.pc \in {"searching", "found", "sending", "waiting"} /\ v.current \in Txid
    BY <1>4, <1>7
  <2>4. v.deposit \in Deposits /\ v.kickoff \in Kickoff /\ v.list \in Seq(Txid)
    BY <1>5, <1>6, <1>7
  <2>5. QED
    BY <1>7, <2>1, <2>2, <2>3, <2>4, Zenon DEF WalkState
<1>9. Len(w.list) \in Nat
  BY <1>5, LenProperties
<1>10. Chained(w) /\ Ahead(w)
  BY <1>1, <1>2 DEF Good
<1>11. ASSUME NEW i \in 1 .. Len(l) - 1 PROVE Stored(l[i+1], l[i])
  <2>1. CASE i = 1
    <3>1. l[2] = w.list[1] /\ w.list # <<>>
      BY <1>5, <1>6, <1>9, <1>11, <2>1, EmptySeq
    <3>2. QED
      BY <1>3, <1>6, <1>10, <2>1, <3>1 DEF Ahead
  <2>2. CASE i # 1
    <3>1. i - 1 \in 1 .. Len(w.list) - 1
      BY <1>6, <1>9, <1>11, <2>2
    <3>2. l[(i-1)+1] = w.list[i-1] /\ l[i+1] = w.list[i]
      <4>1. i - 1 \in 1 .. Len(w.list) /\ i \in 1 .. Len(w.list)
        BY <1>9, <3>1, <1>11
      <4>2. QED
        BY <1>6, <4>1
    <3>3. Stored(w.list[(i-1)+1], w.list[i-1])
      BY <1>10, <3>1 DEF Chained
    <3>4. QED
      BY <3>1, <3>2, <3>3
  <2>3. QED
    BY <2>1, <2>2
<1>12. l[Len(l)] = w.kickoff.txid
  <2>1. CASE w.list = <<>>
    BY <1>3, <1>6, <1>10, <2>1, EmptySeq DEF Ahead
  <2>2. CASE w.list # <<>>
    <3>1. Len(w.list) \in 1 .. Len(w.list)
      BY <1>5, <1>9, <2>2, EmptySeq
    <3>2. QED
      BY <1>6, <1>10, <2>2, <3>1 DEF Chained
  <2>3. QED
    BY <2>1, <2>2
<1>13. Chained(v)
  BY <1>7, <1>11, <1>12 DEF Chained
<1>14. Stored(l[1], v.current)
  BY <1>6, <1>7 DEF Stored
<1>15. v.current.path = <<>> \/ \E s \in gens : s.txid = v.current
  BY <1>7, Steps DEF FundInv, AncestryRecorded
<1>16. Len(w.current.path) = Len(v.current.path) + 1 /\ Len(v.current.path) \in Nat
  BY <1>3, <1>7, Steps
<1>17. Len(v.kickoff.txid.path) = Len(v.current.path) + v.n
  <2>1. Len(v.kickoff.txid.path) = Len(w.current.path) + w.n
    BY <1>7, <1>10 DEF Ahead
  <2>2. w.n \in Nat /\ v.n = w.n + 1
    BY <1>5, <1>7
  <2> HIDE DEF w
  <2>3. QED
    BY <1>16, <2>1, <2>2
(* A child that the node knows has a parent that the node knows.           *)
<1>23. ASSUME w.list # <<>>, OnChain(w.list[1]) PROVE OnChain(l[1])
  <2>1. PICK s \in gens : s.txid = w.list[1] /\ s.funding = w.current
    BY <1>10, <1>23 DEF Ahead, Stored
  <2>2. s.txid \in known
    BY <1>23, <2>1, Steps DEF OnChain
  <2>3. QED
    BY <1>3, <1>6, <2>1, <2>2 DEF RInv, KnownInv
<1>24. ASSUME NEW i \in 1 .. Len(l), NEW j \in 1 .. Len(l), i <= j, OnChain(l[j])
       PROVE  OnChain(l[i])
  <2>1. CASE i = j
    BY <1>24, <2>1
  <2>2. CASE i # j
    <3>1. j - 1 \in 1 .. Len(w.list) /\ (j - 1) + 1 = j /\ 1 \in 1 .. Len(w.list) /\ 1 <= j - 1
      BY <1>6, <1>9, <1>24, <2>2
    <3>2. OnChain(w.list[j - 1])
      BY <1>6, <1>24, <3>1
    <3>3. CASE i = 1
      <4>1. OnChain(w.list[1]) /\ w.list # <<>>
        BY <1>10, <3>1, <3>2, <1>9, EmptySeq DEF Ahead, Closed
      <4>2. QED
        BY <1>23, <3>3, <4>1
    <3>4. CASE i # 1
      <4>1. i - 1 \in 1 .. Len(w.list) /\ (i - 1) + 1 = i /\ i - 1 <= j - 1
        BY <1>6, <1>9, <1>24, <3>4
      <4>2. OnChain(w.list[i - 1])
        BY <1>10, <3>1, <3>2, <4>1 DEF Ahead, Closed
      <4>3. QED
        BY <1>6, <4>1, <4>2
    <3>5. QED
      BY <3>3, <3>4
  <2>3. QED
    BY <2>1, <2>2
<1>25. Closed(v)
  BY <1>7, <1>24 DEF Closed
<1>26. v.gap + v.failed >= v.n
  <2>1. w.gap + w.failed >= w.n /\ w.n = Len(w.list)
    BY <1>10 DEF Ahead
  <2>2. CASE OnChain(r.txid)
    BY <1>5, <1>7, <1>21, <2>1, <2>2
  <2>3. CASE ~ OnChain(r.txid)
    <3>1. \A i \in 1 .. Len(l) : ~ OnChain(l[i])
      <4> SUFFICES ASSUME NEW i \in 1 .. Len(l), OnChain(l[i]) PROVE FALSE
        OBVIOUS
      <4>1. 1 \in 1 .. Len(l) /\ 1 <= i
        BY <1>6, <1>9
      <4>2. OnChain(l[1])
        BY <1>24, <4>1
      <4>3. QED
        BY <1>6, <2>3, <4>2
    <3>2. v.gap = Len(l) /\ v.failed = w.failed /\ v.n = w.n + 1
      BY <1>7, <1>21, <1>22, <2>3, <3>1
    <3>3. QED
      BY <1>5, <1>6, <1>9, <2>1, <3>2
  <2>4. QED
    BY <2>2, <2>3
<1>18. Ahead(v)
  BY <1>5, <1>6, <1>7, <1>10, <1>14, <1>15, <1>17, <1>25, <1>26 DEF Ahead
<1>19. Bound(v) \in kickoffs /\ (CitreaChecks => v.deposit \in filled)
  BY <1>2, <1>7 DEF Good, Bound
<1>20. Good(v)
  BY <1>7, <1>8, <1>13, <1>18, <1>19 DEF Good
<1>27. QED
  BY <1>20 DEF v

(* The walk ends on a transaction that is on chain, the parent of the      *)
(* first one of the list, or the kickoff's generator if the list is empty. *)
LEMMA GoodFound ==
  ASSUME RInv, NEW c \in Callers, FoundTxid(c)
  PROVE  Good(walk'[c])
<1> DEFINE w == walk[c]
           v == walk'[c]
<1>1. w.pc = "searching" /\ OnChain(w.current)
  BY DEF FoundTxid, Searching
<1>2. Good(w) /\ w \in WalkState
  BY <1>1 DEF RInv, CallersGood, Idle, Good
<1>3. v = [w EXCEPT !.pc = "found"]
  BY DEF FoundTxid, RInv, CallersGood
<1>4. /\ v \in WalkState /\ v.pc = "found" /\ v.deposit = w.deposit
      /\ v.kickoff = w.kickoff /\ v.list = w.list
  BY <1>2, <1>3 DEF WalkState
<1> HIDE DEF v
<1>5. Sendable(v)
  BY <1>1, <1>2, <1>4 DEF Good, Ahead, Sendable, Stored, Accepted
<1>6. Good(v)
  BY <1>2, <1>4, <1>5 DEF Good, Chained, Bound
<1>7. QED
  BY <1>6 DEF v

(* The answer is the list that was found.                                  *)
LEMMA GoodAnswer ==
  ASSUME RInv, NEW c \in Callers, Answer(c)
  PROVE  Good(walk'[c])
<1> DEFINE w == walk[c]
           v == walk'[c]
<1>1. w.pc = "found"
  BY DEF Answer
<1>2. Good(w) /\ w \in WalkState
  BY <1>1 DEF RInv, CallersGood, Idle, Good
<1>3. v = [w EXCEPT !.pc = "sending"]
  BY DEF Answer, RInv, CallersGood
<1>4. /\ v \in WalkState /\ v.pc = "sending" /\ v.deposit = w.deposit
      /\ v.kickoff = w.kickoff /\ v.list = w.list
  BY <1>2, <1>3 DEF WalkState
<1> HIDE DEF v
<1>5. Good(v)
  BY <1>1, <1>2, <1>4 DEF Good, Sendable, Chained, Bound
<1>6. QED
  BY <1>5 DEF v

(* Once the first transaction is sent, its child can be, or the kickoff is *)
(* on chain.                                                               *)
LEMMA GoodTail ==
  ASSUME NEW w, NEW v, Good(w), w.pc = "sending", w.list # <<>>,
         v = [w EXCEPT !.list = Tail(@)],
         known' = known \cup {Head(w.list)},
         UNCHANGED <<gens, kickoffs, filled, sots>>
  PROVE  Good(v)' /\ Head(w.list) \in Txid
<1>1. w \in WalkState /\ w.list \in Seq(Txid)
  BY DEF Good, WalkState
<1> DEFINE t == Head(w.list)
           l == Tail(w.list)
<1>2. /\ t \in Txid /\ l \in Seq(Txid) /\ Len(l) = Len(w.list) - 1
      /\ \A i \in 1 .. Len(l) : l[i] = w.list[i+1]
  BY <1>1, HeadTailProperties
<1>3. t = w.list[1] /\ Len(w.list) \in Nat \ {0}
  BY <1>1, EmptySeq
<1>4. /\ v \in WalkState /\ v.pc = "sending" /\ v.deposit = w.deposit
      /\ v.kickoff = w.kickoff /\ v.list = l
  BY <1>1, <1>2 DEF WalkState
<1>5. OnChain(t)'
  BY DEF OnChain
<1> HIDE DEF l, t
<1>6. Len(l) \in Nat /\ Len(w.list) = Len(l) + 1
  BY <1>2, <1>3
<1>7. ASSUME NEW i \in 1 .. Len(l) - 1 PROVE Stored(l[i+1], l[i])
  <2>1. i + 1 \in 1 .. Len(w.list) - 1 /\ i \in 1 .. Len(l) /\ i + 1 \in 1 .. Len(l)
    BY <1>6, <1>7
  <2>2. Stored(w.list[(i+1)+1], w.list[i+1])
    BY <2>1 DEF Good, Chained
  <2>3. QED
    BY <1>2, <2>1, <2>2
<1>8. ASSUME l # <<>> PROVE l[Len(l)] = w.kickoff.txid
  <2>1. Len(l) \in 1 .. Len(l)
    BY <1>2, <1>6, <1>8, EmptySeq
  <2>2. l[Len(l)] = w.list[Len(w.list)]
    BY <1>2, <1>6, <2>1
  <2>3. QED
    BY <2>2 DEF Good, Chained
<1>9. Chained(v)'
  BY <1>4, <1>7, <1>8 DEF Chained, Stored
<1>10. ASSUME l # <<>> PROVE Accepted(l[1])'
  <2>1. 1 \in 1 .. Len(l) /\ 1 \in 1 .. Len(w.list) - 1
    BY <1>2, <1>6, <1>10, EmptySeq
  <2>2. Stored(w.list[1+1], w.list[1]) /\ l[1] = w.list[1+1]
    BY <1>2, <2>1 DEF Good, Chained
  <2>3. PICK r \in gens : r.txid = l[1] /\ r.funding = t
    BY <1>3, <2>2 DEF Stored
  <2>4. QED
    BY <1>5, <2>3 DEF Accepted
<1>11. ASSUME l = <<>> PROVE OnChain(v.kickoff.txid)'
  <2>1. Len(w.list) = 1
    BY <1>6, <1>11
  <2>2. t = v.kickoff.txid
    BY <1>3, <1>4, <2>1 DEF Good, Chained
  <2>3. QED
    BY <1>5, <2>2
<1>12. Sendable(v)'
  BY <1>4, <1>10, <1>11 DEF Sendable
<1>13. (Bound(v) \in kickoffs)' /\ (CitreaChecks => v.deposit \in filled)'
  BY <1>4 DEF Good, Bound
<1>14. Good(v)'
  BY <1>4, <1>9, <1>12, <1>13 DEF Good
<1>15. QED
  BY <1>2, <1>14 DEF t

(* A caller that waits has sent its slash_or_take.                         *)
LEMMA GoodWaiting ==
  ASSUME NEW w, NEW v, Good(w), v = [w EXCEPT !.pc = "waiting"],
         sots' = sots \cup {Bound(w)},
         UNCHANGED <<gens, kickoffs, filled, known>>
  PROVE  Good(v)'
<1>1. w \in WalkState
  BY DEF Good
<1>2. /\ v \in WalkState /\ v.pc = "waiting" /\ v.deposit = w.deposit
      /\ v.kickoff = w.kickoff /\ v.list = w.list
  BY <1>1 DEF WalkState
<1>3. Chained(v)'
  BY <1>2 DEF Good, Chained, Stored
<1>4. QED
  BY <1>2, <1>3 DEF Good, Bound

-----------------------------------------------------------------------------
(* Preservation *)

(* What the calls rely on only grows, and a generator becomes known to the *)
(* node after its parent.                                                  *)
Grow ==
    /\ kickoffs \subseteq kickoffs' /\ filled \subseteq filled'
    /\ known \subseteq known' /\ sots \subseteq sots'
    /\ \A r \in gens : \E s \in gens' : s.txid = r.txid /\ s.funding = r.funding
    /\ \A r \in gens : r.txid \in known' \ known => OnChain(r.funding)

(* A call whose state after the step is the good v is good after the step. *)
LEMMA Carry ==
  ASSUME NEW c \in Callers, NEW v, walk'[c] = v, Good(v)'
  PROVE  Good(walk[c])'
  BY DEF Good, Chained, Ahead, Closed, Sendable, Stored, Accepted, OnChain, Bound

(* A call that a step does not touch stays good.                           *)
LEMMA CarryUnchanged ==
  ASSUME CallersGood, Grow, NEW c \in Callers, walk'[c] = walk[c]
  PROVE  (walk[c] = Idle \/ Good(walk[c]))'
<1>1. PICK v : v = walk[c]
  OBVIOUS
<1>2. CASE v = Idle
  BY <1>1, <1>2 DEF Idle
<1>3. CASE v # Idle
  <2>1. Good(v)
    BY <1>1, <1>3 DEF CallersGood
  <2>2. Good(v)'
    BY <2>1, GoodStable DEF Grow
  <2>3. QED
    BY <1>1, <2>2, Carry
<1>4. QED
  BY <1>2, <1>3

(* Steps that touch no call.                                               *)
LEMMA CarryAll ==
  ASSUME CallersGood, Grow, walk' = walk PROVE CallersGood'
<1>1. ASSUME NEW c \in Callers PROVE (walk[c] = Idle \/ Good(walk[c]))'
  BY CarryUnchanged
<1>2. (walk \in [Callers -> WalkState \cup {Idle}])'
  BY DEF CallersGood, WalkState, Idle
<1>3. QED
  BY <1>1, <1>2 DEF CallersGood

(* Steps of one caller.                                                    *)
LEMMA CarryOne ==
  ASSUME CallersGood, Grow, NEW c \in Callers, NEW v,
         walk' = [walk EXCEPT ![c] = v], v = Idle \/ Good(v)'
  PROVE  CallersGood'
<1>1. walk'[c] = v /\ \A x \in Callers \ {c} : walk'[x] = walk[x]
  BY DEF CallersGood
<1>2. ASSUME NEW x \in Callers \ {c} PROVE (walk[x] = Idle \/ Good(walk[x]))'
  BY <1>1, CarryUnchanged
<1>3. (walk[c] = Idle \/ Good(walk[c]))'
  <2>1. CASE v = Idle
    BY <1>1, <2>1 DEF Idle
  <2>2. CASE Good(v)'
    BY <1>1, <2>2, Carry
  <2>3. QED
    BY <2>1, <2>2
<1>4. v \in WalkState \cup {Idle}
  BY DEF Good
<1>5. (walk \in [Callers -> WalkState \cup {Idle}])'
  BY <1>4 DEF CallersGood, WalkState, Idle
<1>6. QED
  BY <1>2, <1>3, <1>5 DEF CallersGood

(* Nothing the calls rely on is ever taken back.                           *)
LEMMA AlwaysGrow == ASSUME IInv, FundInv, [RNext]_allVars PROVE Grow
<1>1. /\ kickoffs \subseteq kickoffs'
      /\ \A r \in gens : \E s \in gens' : s.txid = r.txid /\ s.funding = r.funding
  BY StepOfOperator, TablesGrow
<1>2. filled \subseteq filled' /\ known \subseteq known' /\ sots \subseteq sots'
  BY DEF RNext, allVars, chainVars, envVars, walkVars, RCrash, Search, Send, GiveUp,
     FoundTxid, StepBack, GeneratorTxNotFound, TooManyIterations, SigNotFound, Answer,
     SendGenerator, SendSlashOrTake, SendOperatorTakes, Ripen, Environment,
     DepositSigned, DepositMoved, WithdrawalFilled, WithdrawalProvedOnCitrea
<1>3. ASSUME NEW c \in Callers, SendGenerator(c),
             NEW r \in gens, r.txid \in known' \ known
      PROVE  OnChain(r.funding)
  <2>1. r.txid = Head(walk[c].list) /\ Accepted(r.txid)
    BY <1>3 DEF SendGenerator
  <2>2. ~ OnChain(r.txid)
    BY <1>3, Steps DEF OnChain
  <2>3. PICK s \in gens : s.txid = r.txid /\ OnChain(s.funding)
    BY <2>1, <2>2 DEF Accepted
  <2>4. s = r
    BY <2>3 DEF IInv, TableInv
  <2>5. QED
    BY <2>3, <2>4
<1>4. known' = known \/ \E c \in Callers : SendGenerator(c)
  BY DEF RNext, allVars, chainVars, envVars, walkVars, RCrash, Search, Send, GiveUp,
     FoundTxid, StepBack, GeneratorTxNotFound, TooManyIterations, SigNotFound, Answer,
     SendSlashOrTake, SendOperatorTakes, Ripen, Environment,
     DepositSigned, DepositMoved, WithdrawalFilled, WithdrawalProvedOnCitrea
<1>5. QED
  BY <1>1, <1>2, <1>3, <1>4 DEF Grow

(* The node knows nothing but wallet transactions and stored generators,   *)
(* with their parents.                                                     *)
LEMMA NextKnownInv ==
  ASSUME IInv, FundInv, FundInv', KnownInv, [RNext]_allVars PROVE KnownInv'
<1>1. Grow
  BY AlwaysGrow
<1>2. ASSUME NEW t \in known' PROVE t \in known \/ t.path = <<>> \/ \E r \in gens : r.txid = t
  <2>1. known' = known \/ \E c \in Callers : SendGenerator(c)
    BY DEF RNext, allVars, chainVars, envVars, walkVars, RCrash, Search, Send, GiveUp,
       FoundTxid, StepBack, GeneratorTxNotFound, TooManyIterations, SigNotFound, Answer,
       SendSlashOrTake, SendOperatorTakes, Ripen, Environment,
       DepositSigned, DepositMoved, WithdrawalFilled, WithdrawalProvedOnCitrea
  <2>2. ASSUME NEW c \in Callers, SendGenerator(c), t \notin known
        PROVE  t.path = <<>> \/ \E r \in gens : r.txid = t
    BY <1>2, <2>2 DEF SendGenerator, Accepted, OnChain
  <2>3. QED
    BY <1>2, <2>1, <2>2
<1>3. \A t \in known' : t.path = <<>> \/ \E r \in gens : r.txid = t
  BY <1>2 DEF KnownInv
<1>4. \A t \in known' : t.path = <<>> \/ \E r \in gens' : r.txid = t
  BY <1>1, <1>3 DEF Grow
<1>5. ASSUME NEW s \in gens', s.txid \in known' PROVE OnChain(s.funding)'
  <2>1. s.txid.path # <<>>
    <3>1. PICK u \in Utxo : s.txid = GenTxid(u)
      BY DEF FundInv
    <3>2. QED
      BY <3>1, GenPath
  <2>2. PICK r \in gens : r.txid = s.txid
    BY <1>3, <1>5, <2>1
  <2>3. PICK q \in gens : q.txid = s.txid /\ q.funding = s.funding
    BY <2>2, StepOfOperator, TablesGrow
  <2>4. OnChain(q.funding)
    BY <1>1, <1>5, <2>3 DEF Grow, KnownInv
  <2>5. QED
    BY <1>1, <2>3, <2>4 DEF Grow, OnChain
<1>6. QED
  BY <1>4, <1>5 DEF KnownInv

(* A fresh operator, with no call made and nothing on chain.               *)
LEMMA InitRInv == RInit => RInv
  BY DEF RInit, Init, RInv, CallersGood, KnownInv, Idle

(* Calls stay good in every step.                                          *)
LEMMA NextCallersGood ==
  ASSUME IInv, FundInv, RInv, [RNext]_allVars PROVE CallersGood'
<1>1. Grow /\ CallersGood
  BY AlwaysGrow DEF RInv
<1>2. ASSUME walk' = walk PROVE CallersGood'
  BY <1>1, <1>2, CarryAll
<1>3. ASSUME NEW c \in Callers, walk' = [walk EXCEPT ![c] = Idle] PROVE CallersGood'
  BY <1>1, <1>3, CarryOne
<1>4. ASSUME NEW c \in Callers, NEW v, walk' = [walk EXCEPT ![c] = v], Good(walk'[c])
      PROVE CallersGood'
  <2>1. walk'[c] = v
    BY <1>1, <1>4 DEF CallersGood
  <2>2. Good(v)
    BY <1>4, <2>1
  <2>3. Good(v)'
    BY <1>1, <2>2, GoodStable DEF Grow
  <2>4. QED
    BY <1>1, <1>4, <2>3, CarryOne
<1>5. ASSUME RCrash PROVE CallersGood'
  <2>1. ASSUME NEW c \in Callers PROVE (walk[c] = Idle \/ Good(walk[c]))'
    <3>1. CASE walk'[c] = Idle
      BY <3>1 DEF Idle
    <3>2. CASE walk'[c] = walk[c]
      BY <1>1, <3>2, CarryUnchanged
    <3>3. QED
      BY <1>5, <3>1, <3>2 DEF RCrash
  <2>2. (walk \in [Callers -> WalkState \cup {Idle}])'
    BY <1>1, <1>5 DEF RCrash, CallersGood, WalkState, Idle
  <2>3. QED
    BY <2>1, <2>2 DEF CallersGood
<1>6. ASSUME NEW c \in Callers, NEW d \in Deposits, WithdrawalProvedOnCitrea(c, d)
      PROVE CallersGood'
  <2>1. \E v : walk' = [walk EXCEPT ![c] = v]
    BY <1>6 DEF WithdrawalProvedOnCitrea
  <2>2. QED
    BY <1>4, <1>6, <2>1, GoodCall
<1>7. ASSUME NEW c \in Callers, StepBack(c) PROVE CallersGood'
  <2>1. \E v : walk' = [walk EXCEPT ![c] = v]
    BY <1>7 DEF StepBack
  <2>2. QED
    BY <1>4, <1>7, <2>1, GoodStepBack
<1>8. ASSUME NEW c \in Callers, FoundTxid(c) PROVE CallersGood'
  <2>1. \E v : walk' = [walk EXCEPT ![c] = v]
    BY <1>8 DEF FoundTxid
  <2>2. QED
    BY <1>4, <1>8, <2>1, GoodFound
<1>9. ASSUME NEW c \in Callers, Answer(c) PROVE CallersGood'
  <2>1. \E v : walk' = [walk EXCEPT ![c] = v]
    BY <1>9 DEF Answer
  <2>2. QED
    BY <1>4, <1>9, <2>1, GoodAnswer
<1>10. ASSUME NEW c \in Callers, SendGenerator(c) PROVE CallersGood'
  <2>1. PICK w : w = walk[c]
    OBVIOUS
  <2>2. PICK v : v = [w EXCEPT !.list = Tail(@)]
    OBVIOUS
  <2>3. walk' = [walk EXCEPT ![c] = v]
    BY <1>10, <2>1, <2>2 DEF SendGenerator
  <2>4. Good(w)
    BY <1>1, <1>10, <2>1 DEF SendGenerator, CallersGood, Idle
  <2>5. /\ w.pc = "sending" /\ w.list # <<>> /\ known' = known \cup {Head(w.list)}
        /\ UNCHANGED <<gens, kickoffs, filled, sots>>
    BY <1>10, <2>1 DEF SendGenerator, vars, dbVars, envVars
  <2>6. Good(v)'
    BY <2>2, <2>4, <2>5, GoodTail
  <2>7. QED
    BY <1>1, <2>3, <2>6, CarryOne
<1>11. ASSUME NEW c \in Callers, SendSlashOrTake(c) PROVE CallersGood'
  <2>1. PICK w : w = walk[c]
    OBVIOUS
  <2>2. PICK v : v = [w EXCEPT !.pc = "waiting"]
    OBVIOUS
  <2>3. walk' = [walk EXCEPT ![c] = v]
    BY <1>11, <2>1, <2>2 DEF SendSlashOrTake
  <2>4. Good(w)
    BY <1>1, <1>11, <2>1 DEF SendSlashOrTake, CallersGood, Idle
  <2>5. /\ sots' = sots \cup {Bound(w)}
        /\ UNCHANGED <<gens, kickoffs, filled, known>>
    BY <1>11, <2>1 DEF SendSlashOrTake, Spend, Bound, vars, dbVars, envVars
  <2>6. Good(v)'
    BY <2>2, <2>4, <2>5, GoodWaiting
  <2>7. QED
    BY <1>1, <2>3, <2>6, CarryOne
<1>12. ASSUME NEW c \in Callers, \/ GeneratorTxNotFound(c) \/ TooManyIterations(c)
              \/ SigNotFound(c) \/ SendOperatorTakes(c) \/ GiveUp(c)
       PROVE CallersGood'
  BY <1>3, <1>12 DEF GeneratorTxNotFound, TooManyIterations, SigNotFound,
     SendOperatorTakes, GiveUp, EndWalk
<1>13. ASSUME NEW d \in Deposits, Environment(d) PROVE CallersGood'
  BY <1>2, <1>13 DEF Environment, DepositSigned, DepositMoved, WithdrawalFilled, walkVars
<1>14. ASSUME NEW s \in sots, Ripen(s) PROVE CallersGood'
  BY <1>2, <1>14 DEF Ripen, walkVars
<1>15. CASE UNCHANGED walkVars \/ UNCHANGED allVars
  BY <1>2, <1>15 DEF walkVars, allVars
<1>16. QED
  BY <1>5, <1>6, <1>7, <1>8, <1>9, <1>10, <1>11, <1>12, <1>13, <1>14, <1>15
     DEF RNext, Search, Send

(* Every step preserves the invariant.                                     *)
LEMMA NextRInv == IInv /\ FundInv /\ FundInv' /\ RInv /\ [RNext]_allVars => RInv'
<1> SUFFICES ASSUME IInv, FundInv, FundInv', RInv, [RNext]_allVars PROVE RInv'
  OBVIOUS
<1>1. Grow /\ CallersGood /\ CallersGood'
  BY AlwaysGrow, NextCallersGood DEF RInv
<1> DEFINE Rest ==
      /\ known \subseteq Txid
      /\ sots \subseteq kickoffs
      /\ ripe \subseteq sots
      /\ taken \subseteq Deposits
      /\ CitreaChecks => taken \subseteq filled
      /\ \A d \in taken : \E s \in sots : s.deposit = d
      /\ signed \subseteq Deposits /\ moved \subseteq signed /\ filled \subseteq moved
      /\ faults \in Nat
<1>2. Rest
  BY DEF RInv
<1>3. ASSUME UNCHANGED <<chainVars, envVars>>, faults' \in Nat PROVE Rest'
  BY <1>1, <1>2, <1>3 DEF chainVars, envVars, Grow
<1>4. ASSUME RCrash \/ UNCHANGED <<chainVars, envVars, walkVars>> \/ UNCHANGED allVars
      PROVE Rest'
  BY <1>2, <1>3, <1>4 DEF RCrash, walkVars, allVars
<1>5. ASSUME NEW c \in Callers, NEW d \in Deposits, WithdrawalProvedOnCitrea(c, d)
      PROVE Rest'
  BY <1>2, <1>3, <1>5 DEF WithdrawalProvedOnCitrea
<1>6. ASSUME NEW c \in Callers, Search(c) \/ GiveUp(c) PROVE Rest'
  <2>1. faults' = faults \/ faults' = faults + 1
    BY <1>6, Zenon DEF Search, GiveUp, FoundTxid, StepBack, GeneratorTxNotFound,
       TooManyIterations, SigNotFound, Answer, NotFound, EndWalk
  <2>2. UNCHANGED <<chainVars, envVars>>
    BY <1>6 DEF Search, GiveUp, FoundTxid, StepBack, GeneratorTxNotFound,
       TooManyIterations, SigNotFound, Answer
  <2>3. QED
    BY <1>2, <1>3, <2>1, <2>2
<1>7. ASSUME NEW c \in Callers, walk[c] # Idle
      PROVE  /\ walk[c] \in WalkState /\ Spend(c) \in kickoffs
             /\ walk[c].deposit \in Deposits /\ Spend(c).deposit = walk[c].deposit
             /\ CitreaChecks => walk[c].deposit \in filled
             /\ walk[c].pc = "waiting" => Spend(c) \in sots
  BY <1>1, <1>7 DEF CallersGood, Good, WalkState, Spend, Bound
<1>8. ASSUME NEW c \in Callers, SendGenerator(c) PROVE Rest'
  <2>1. walk[c] # Idle /\ walk[c].list # <<>>
    BY <1>8 DEF SendGenerator, Idle
  <2>2. Head(walk[c].list) \in Txid
    BY <1>7, <2>1, HeadTailProperties DEF WalkState
  <2>3. known' \subseteq Txid /\ UNCHANGED <<sots, ripe, taken, envVars, faults>>
    BY <1>2, <1>8, <2>2 DEF SendGenerator
  <2>4. QED
    BY <1>1, <1>2, <2>3 DEF envVars, Grow
<1>9. ASSUME NEW c \in Callers, SendSlashOrTake(c) PROVE Rest'
  <2>1. walk[c] # Idle
    BY <1>9 DEF SendSlashOrTake, Idle
  <2>2. sots' = sots \cup {Spend(c)} /\ UNCHANGED <<known, ripe, taken, envVars, faults>>
    BY <1>9 DEF SendSlashOrTake
  <2>3. QED
    BY <1>1, <1>2, <1>7, <2>1, <2>2 DEF envVars, Grow
<1>10. ASSUME NEW c \in Callers, SendOperatorTakes(c) PROVE Rest'
  <2>1. walk[c] # Idle
    BY <1>10 DEF SendOperatorTakes, Idle
  <2>2. /\ taken' = taken \cup {walk[c].deposit} /\ Spend(c) \in ripe
        /\ UNCHANGED <<known, sots, ripe, envVars, faults>>
    BY <1>10 DEF SendOperatorTakes, EndWalk
  <2>3. QED
    BY <1>1, <1>2, <1>7, <2>1, <2>2 DEF envVars, Grow
<1>11. ASSUME NEW s \in sots, Ripen(s) PROVE Rest'
  BY <1>1, <1>2, <1>11 DEF Ripen, envVars, walkVars, Grow
<1>12. ASSUME NEW d \in Deposits, Environment(d) PROVE Rest'
  BY <1>1, <1>2, <1>12 DEF Environment, DepositSigned, DepositMoved, WithdrawalFilled,
     chainVars, walkVars, Grow
<1>13. Rest'
  BY <1>4, <1>5, <1>6, <1>8, <1>9, <1>10, <1>11, <1>12 DEF RNext, Send
<1>14. KnownInv'
  BY NextKnownInv DEF RInv
<1>15. QED
  BY <1>1, <1>13, <1>14 DEF RInv

-----------------------------------------------------------------------------
(* Theorems *)

(* The invariant holds throughout.                                         *)
THEOREM ReimbursementInvariance == RSpec => [](IInv /\ RInv)
<1>1. RSpec => [](IInv /\ FundInv)
  BY StillAnOperator, Invariance, FundInvariance, PTL
<1>2. QED
  BY <1>1, InitRInv, NextRInv, PTL DEF RSpec

(* What the node, Citrea and the callers know is well-formed.              *)
THEOREM ReimbursementTypes == RSpec => []RTypeOK
<1>1. IInv /\ RInv => RTypeOK
  <2> SUFFICES ASSUME IInv, RInv PROVE RTypeOK
    OBVIOUS
  <2>1. sots \subseteq [deposit : Deposits, kickoff : Kickoff]
    BY DEF IInv, TypeOK, RInv
  <2>2. \A c \in Callers : walk[c] = Idle \/ walk[c] \in WalkState
    BY DEF RInv, CallersGood
  <2>3. QED
    BY <2>1, <2>2 DEF RInv, RTypeOK
<1>2. QED
  BY <1>1, ReimbursementInvariance, PTL

(* The walk of withdrawal_proved_on_citrea never asks the database for a   *)
(* generator transaction that is not there.                                *)
THEOREM WalkNeverGetsLost == RSpec => []WalkNeverLost
<1>1. RInv => WalkNeverLost
  BY DEF RInv, CallersGood, Good, Ahead, Idle, OnChain, WalkNeverLost
<1>2. QED
  BY <1>1, ReimbursementInvariance, PTL

(* The next transaction of an answer is accepted by the node whenever it   *)
(* is sent.                                                                *)
THEOREM AnswerAlwaysSendable == RSpec => []AnswerSendable
<1>1. IInv /\ RInv => AnswerSendable
  <2> SUFFICES ASSUME IInv, RInv, NEW c \in Callers, walk[c].pc = "sending"
               PROVE  IF walk[c].list # <<>> THEN Accepted(Head(walk[c].list))
                                             ELSE KickoffSpendable(Spend(c))
    BY DEF AnswerSendable
  <2>1. Good(walk[c]) /\ Sendable(walk[c]) /\ walk[c].list \in Seq(Txid)
    BY DEF RInv, CallersGood, Good, Idle, WalkState
  <2>2. CASE walk[c].list # <<>>
    BY <2>1, <2>2, EmptySeq DEF Sendable
  <2>3. CASE walk[c].list = <<>>
    <3>1. OnChain(Spend(c).kickoff.txid)
      BY <2>1, <2>3 DEF Sendable, Spend
    <3>2. Spend(c) \in kickoffs /\ sots \subseteq kickoffs
      BY <2>1 DEF Good, Bound, Spend, RInv
    <3>3. \A s \in sots : s.kickoff = Spend(c).kickoff => s = Spend(c)
      BY <3>2 DEF IInv, TableInv, KickoffsDistinct
    <3>4. QED
      BY <2>3, <3>1, <3>3 DEF KickoffSpendable
  <2>4. QED
    BY <2>2, <2>3
<1>2. QED
  BY <1>1, ReimbursementInvariance, PTL

(* The limit stops only walks that had nothing to answer: but for failing  *)
(* questions, the node lacked as many ancestors of the kickoff as the      *)
(* limit says, all at one moment.                                          *)
THEOREM LimitAlwaysDeep == RSpec => []LimitOnlyWhenDeep
<1>1. RInv => LimitOnlyWhenDeep
  <2> SUFFICES ASSUME RInv, NEW c \in Callers,
                      walk[c].pc = "searching", walk[c].n = MaxIterations
               PROVE  /\ Len(walk[c].kickoff.txid.path) >= MaxIterations
                      /\ walk[c].gap + walk[c].failed >= MaxIterations
    BY DEF LimitOnlyWhenDeep
  <2>1. Good(walk[c]) /\ Ahead(walk[c])
    BY DEF RInv, CallersGood, Good, Idle
  <2>2. Len(walk[c].current.path) \in Nat
    BY <2>1, LenProperties DEF Good, WalkState, Txid
  <2>3. MaxIterations \in Nat
    BY IterationsAssumption
  <2>4. Len(walk[c].kickoff.txid.path) = Len(walk[c].current.path) + MaxIterations
    BY <2>1 DEF Ahead
  <2>5. walk[c].gap + walk[c].failed >= MaxIterations
    BY <2>1 DEF Ahead
  <2>6. Len(walk[c].kickoff.txid.path) >= MaxIterations
    BY <2>2, <2>3, <2>4
  <2>7. QED
    BY <2>5, <2>6
<1>2. QED
  BY <1>1, ReimbursementInvariance, PTL

(* The operator takes a deposit only after Citrea named it as the filler,  *)
(* through the kickoff the deposit is bound to.                            *)
THEOREM TakenAlwaysFilled == RSpec => []TakenWasFilled
<1>1. RInv => TakenWasFilled
  BY DEF RInv, TakenWasFilled
<1>2. QED
  BY <1>1, ReimbursementInvariance, PTL

(* No step undoes what a reimbursement rests on: a kickoff stays bound, a  *)
(* generator stays recorded, what is filled, known to the node or spent by *)
(* slash_or_take stays so, and generators become known parents first.      *)
THEOREM NothingUndone == RSpec => [][Grow]_allVars
<1>1. IInv /\ FundInv /\ [RNext]_allVars => [Grow]_allVars
  BY AlwaysGrow
<1>2. RSpec => [](IInv /\ FundInv)
  BY StillAnOperator, Invariance, FundInvariance, PTL
<1>3. QED
  BY <1>1, <1>2, PTL DEF RSpec
=============================================================================
