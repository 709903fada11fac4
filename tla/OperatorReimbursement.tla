------------------------ MODULE OperatorReimbursement ------------------------
(***************************************************************************)
(* The way from a paid withdrawal to the operator's money:                 *)
(* withdrawal_proved_on_citrea (core/src/operator.rs), on top of the       *)
(* database that OperatorKickoffs models.                                  *)
(*                                                                         *)
(* The kickoff of a deposit is an output of a generator transaction that   *)
(* was stored and not broadcast, and so may be its parent, the parent's    *)
(* parent and so on.  The handler walks up this chain, one question to the *)
(* Bitcoin node and one to the database at a time, until it meets a        *)
(* transaction the node knows; it returns what is missing, parents first,  *)
(* then the slash_or_take and the operator_takes transaction.  The caller  *)
(* sends the list in that order (core/tests/flow.rs).                      *)
(*                                                                         *)
(* Meanwhile new_deposit extends the chain, other callers walk it and send *)
(* parts of it, the node's answers may fail and the operator may crash.    *)
(* Transactions that the node knows stay known: evictions and              *)
(* reorganisations are left out.  So is false funding: what the operator   *)
(* tells set_funding_utxo here are outputs of its wallet with their true   *)
(* values (the comment of create_kickoff_utxo_tx leaves that to it), since *)
(* a node never takes a generator that spends anything else.               *)
(***************************************************************************)
EXTENDS OperatorKickoffs, Sequences

CONSTANTS
    Callers,        \* concurrent calls of withdrawal_proved_on_citrea
    CitreaChecks,   \* whether config.citrea_rpc_url is set
    MaxIterations,  \* the literal 25 of the walk
    MaxFaults       \* bound: failing answers of the node, callers that give up

ASSUME TrueFunding == Named \subseteq {WalletUtxo(w) : w \in Wallet}

ASSUME IterationsAssumption ==
    MaxIterations \in Nat \ {0} /\ MaxFaults \in Nat /\ CitreaChecks \in BOOLEAN

VARIABLES
    known,      \* generator transactions that the Bitcoin node knows
    sots,       \* [deposit, kickoff] of the slash_or_take transactions it knows
    ripe,       \* those of them past the relative timelock operator_takes_after
    taken,      \* deposits whose operator_takes transaction it knows
    signed,     \* deposits whose n-of-n signatures are in deposit_kickoff_utxos
    moved,      \* deposits whose move transaction the node knows
    filled,     \* deposits that Citrea says this operator has paid out
    walk,       \* per caller: the state of the call
    faults      \* counter for the bound

chainVars == <<known, sots, ripe, taken>>
envVars   == <<signed, moved, filled>>
walkVars  == <<walk, faults>>
allVars   == <<vars, chainVars, envVars, walkVars>>

-----------------------------------------------------------------------------
(* Wallet transactions were broadcast when they were made.                 *)
OnChain(t) == t.path = <<>> \/ t \in known

Idle == [pc |-> "idle"]

RInit ==
    /\ Init
    /\ known = {} /\ sots = {} /\ ripe = {} /\ taken = {}
    /\ signed = {} /\ moved = {} /\ filled = {}
    /\ walk = [c \in Callers |-> Idle]
    /\ faults = 0

(* The call ends, for good or with an error.                               *)
EndWalk(c) ==
    /\ walk' = [walk EXCEPT ![c] = Idle]
    /\ UNCHANGED faults

(* Mutant: Citrea is not asked.                                            *)
WithdrawalUnproved(c, d) ==
    /\ status = "up"
    /\ walk[c] = Idle
    /\ lock = NULL
    /\ \E row \in kickoffs :
        /\ row.deposit = d
        /\ walk' = [walk EXCEPT ![c] =
               [pc |-> "searching", deposit |-> d, kickoff |-> row.kickoff,
                current |-> row.kickoff.txid, n |-> 0, list |-> <<>>,
                gap |-> 0, failed |-> 0]]
    /\ UNCHANGED <<vars, chainVars, envVars, faults>>

(* The call: Citrea confirms that this operator paid the withdrawal of     *)
(* deposit d, and the kickoff of d is read.  The SELECT waits for a        *)
(* new_deposit that holds the table lock.                                  *)
WithdrawalProvedOnCitrea(c, d) ==
    /\ status = "up"
    /\ walk[c] = Idle
    /\ CitreaChecks => d \in filled
    /\ lock = NULL
    /\ \E row \in kickoffs :
        /\ row.deposit = d
        /\ walk' = [walk EXCEPT ![c] =
               [pc |-> "searching", deposit |-> d, kickoff |-> row.kickoff,
                current |-> row.kickoff.txid, n |-> 0, list |-> <<>>,
                gap |-> 0, failed |-> 0]]
    /\ UNCHANGED <<vars, chainVars, envVars, faults>>

(* Mutant: one iteration less.                                             *)
SearchingShort(c) == walk[c].pc = "searching" /\ walk[c].n < MaxIterations - 1

Searching(c) == walk[c].pc = "searching" /\ walk[c].n < MaxIterations

(* get_raw_transaction finds the current transaction.                      *)
FoundTxid(c) ==
    /\ Searching(c)
    /\ OnChain(walk[c].current)
    /\ walk' = [walk EXCEPT ![c].pc = "found"]
    /\ UNCHANGED <<vars, chainVars, envVars, faults>>

(* get_raw_transaction returns an error: the node does not know the        *)
(* transaction, or the question failed, which the code takes for the same. *)
NotFound(c) ==
    /\ Searching(c)
    /\ \/ ~ OnChain(walk[c].current) /\ UNCHANGED faults
       \/ faults < MaxFaults /\ faults' = faults + 1

(* How many transactions of a list the node lacks.                         *)
Missing(l) == Cardinality({i \in DOMAIN l : ~ OnChain(l[i])})

(* History of a walk: how much of its list the node lacked at the last     *)
(* question about a transaction that it did lack, and how many questions   *)
(* about others failed.                                                    *)
NextGap(c, t) ==
    IF OnChain(t) THEN walk[c].gap ELSE Missing(<<t>> \o walk[c].list)

NextFailed(c, t) == IF OnChain(t) THEN walk[c].failed + 1 ELSE walk[c].failed

(* Mutants: the list is not reversed; the parent is not made current.      *)
StepBackUnreversed(c) ==
    /\ NotFound(c)
    /\ \E r \in gens :
        /\ r.txid = walk[c].current
        /\ walk' = [walk EXCEPT ![c].current = r.funding,
                                ![c].n = @ + 1,
                                ![c].list = Append(@, r.txid),
                                ![c].gap = NextGap(c, r.txid),
                                ![c].failed = NextFailed(c, r.txid)]
    /\ UNCHANGED <<vars, chainVars, envVars>>

StepBackInPlace(c) ==
    /\ NotFound(c)
    /\ \E r \in gens :
        /\ r.txid = walk[c].current
        /\ walk' = [walk EXCEPT ![c].n = @ + 1,
                                ![c].list = <<r.txid>> \o @,
                                ![c].gap = NextGap(c, r.txid),
                                ![c].failed = NextFailed(c, r.txid)]
    /\ UNCHANGED <<vars, chainVars, envVars>>

(* The stored transaction is put on the list and its parent is next.       *)
StepBack(c) ==
    /\ NotFound(c)
    /\ \E r \in gens :
        /\ r.txid = walk[c].current
        /\ walk' = [walk EXCEPT ![c].current = r.funding,
                                ![c].n = @ + 1,
                                ![c].list = <<r.txid>> \o @,
                                ![c].gap = NextGap(c, r.txid),
                                ![c].failed = NextFailed(c, r.txid)]
    /\ UNCHANGED <<vars, chainVars, envVars>>

(* KickoffGeneratorTxNotFound                                              *)
GeneratorTxNotFound(c) ==
    /\ NotFound(c)
    /\ \A r \in gens : r.txid # walk[c].current
    /\ walk' = [walk EXCEPT ![c] = Idle]
    /\ UNCHANGED <<vars, chainVars, envVars>>

(* KickoffGeneratorTxsTooManyIterations                                    *)
TooManyIterations(c) ==
    /\ walk[c].pc = "searching" /\ walk[c].n = MaxIterations
    /\ EndWalk(c)
    /\ UNCHANGED <<vars, chainVars, envVars>>

(* OperatorSlashOrTakeSigNotFound or OperatorTakesSigNotFound              *)
SigNotFound(c) ==
    /\ walk[c].pc = "found"
    /\ walk[c].deposit \notin signed
    /\ EndWalk(c)
    /\ UNCHANGED <<vars, chainVars, envVars>>

(* Both transactions are completed with the stored signatures and the list *)
(* is returned.                                                            *)
Answer(c) ==
    /\ walk[c].pc = "found"
    /\ walk[c].deposit \in signed
    /\ walk' = [walk EXCEPT ![c].pc = "sending"]
    /\ UNCHANGED <<vars, chainVars, envVars, faults>>

(* The caller sends the generator transactions: the node takes one whose   *)
(* parent it knows; one it knows already makes no difference.              *)
Accepted(t) == OnChain(t) \/ \E r \in gens : r.txid = t /\ OnChain(r.funding)

SendGenerator(c) ==
    /\ walk[c].pc = "sending"
    /\ walk[c].list # <<>>
    /\ Accepted(Head(walk[c].list))
    /\ known' = known \cup {Head(walk[c].list)}
    /\ walk' = [walk EXCEPT ![c].list = Tail(@)]
    /\ UNCHANGED <<vars, sots, ripe, taken, envVars, faults>>

(* ... then slash_or_take, which spends the kickoff ...                    *)
KickoffSpendable(b) ==
    /\ OnChain(b.kickoff.txid)
    /\ \A s \in sots : s.kickoff = b.kickoff => s = b

Spend(c) == [deposit |-> walk[c].deposit, kickoff |-> walk[c].kickoff]

SendSlashOrTake(c) ==
    /\ walk[c].pc = "sending"
    /\ walk[c].list = <<>>
    /\ KickoffSpendable(Spend(c))
    /\ sots' = sots \cup {Spend(c)}
    /\ walk' = [walk EXCEPT ![c].pc = "waiting"]
    /\ UNCHANGED <<vars, known, ripe, taken, envVars, faults>>

(* ... and, after operator_takes_after blocks, operator_takes, which       *)
(* spends the slash_or_take output and the output of the move transaction. *)
SendOperatorTakes(c) ==
    /\ walk[c].pc = "waiting"
    /\ Spend(c) \in ripe
    /\ walk[c].deposit \in moved
    /\ taken' = taken \cup {walk[c].deposit}
    /\ EndWalk(c)
    /\ UNCHANGED <<vars, known, sots, ripe, envVars>>

(* The connection breaks, or the caller gives up.                          *)
GiveUp(c) ==
    /\ walk[c] # Idle
    /\ faults < MaxFaults
    /\ faults' = faults + 1
    /\ walk' = [walk EXCEPT ![c] = Idle]
    /\ UNCHANGED <<vars, chainVars, envVars>>

(* Blocks are mined.                                                       *)
Ripen(s) ==
    /\ s \in sots \ ripe
    /\ ripe' = ripe \cup {s}
    /\ UNCHANGED <<vars, known, sots, taken, envVars, walkVars>>

(* The signing of deposit d ends with the operator's signatures in the     *)
(* database it shares with a verifier (VerifierSigning), ...               *)
DepositSigned(d) ==
    /\ \E r \in replies : r.deposit = d
    /\ d \notin signed
    /\ signed' = signed \cup {d}
    /\ UNCHANGED <<vars, chainVars, moved, filled, walkVars>>

(* ... then the move transaction is sent, ...                              *)
DepositMoved(d) ==
    /\ d \in signed \ moved
    /\ moved' = moved \cup {d}
    /\ UNCHANGED <<vars, chainVars, signed, filled, walkVars>>

(* ... and Citrea, which knows of moved deposits only, accepts the         *)
(* operator as the filler of the withdrawal that goes with d.              *)
WithdrawalFilled(d) ==
    /\ d \in moved \ filled
    /\ filled' = filled \cup {d}
    /\ UNCHANGED <<vars, chainVars, signed, moved, walkVars>>

(* A crash of the operator ends the handlers; answers that were returned   *)
(* are with their callers.                                                 *)
RCrash ==
    /\ Crash
    /\ walk' = [c \in Callers |->
                  IF walk[c].pc \in {"searching", "found"} THEN Idle ELSE walk[c]]
    /\ UNCHANGED <<chainVars, envVars, faults>>

Search(c) ==
    \/ FoundTxid(c)
    \/ StepBack(c)
    \/ GeneratorTxNotFound(c)
    \/ TooManyIterations(c)
    \/ SigNotFound(c)
    \/ Answer(c)

Send(c) == SendGenerator(c) \/ SendSlashOrTake(c) \/ SendOperatorTakes(c)

Environment(d) == DepositSigned(d) \/ DepositMoved(d) \/ WithdrawalFilled(d)

RNext ==
    \/ Work /\ UNCHANGED <<chainVars, envVars, walkVars>>
    \/ RCrash
    \/ \E c \in Callers :
        \/ \E d \in Deposits : WithdrawalProvedOnCitrea(c, d)
        \/ Search(c)
        \/ Send(c)
        \/ GiveUp(c)
    \/ \E s \in sots : Ripen(s)
    \/ \E d \in Deposits : Environment(d)

RSpec == RInit /\ [][RNext]_allVars

-----------------------------------------------------------------------------
(* Properties *)

WalkState ==
    [pc : {"searching", "found", "sending", "waiting"}, deposit : Deposits,
     kickoff : Kickoff, current : Txid, n : Nat, list : Seq(Txid),
     gap : Nat, failed : Nat]

(* What the node, Citrea and the callers know is well-formed, and the      *)
(* stages of a deposit follow each other.                                  *)
RTypeOK ==
    /\ known \subseteq Txid
    /\ sots \subseteq [deposit : Deposits, kickoff : Kickoff]
    /\ ripe \subseteq sots
    /\ taken \subseteq Deposits
    /\ signed \subseteq Deposits /\ moved \subseteq signed /\ filled \subseteq moved
    /\ \A c \in Callers : walk[c] = Idle \/ walk[c] \in WalkState
    /\ faults \in Nat

(* The walk never runs out of records: what it asks the database for, when *)
(* the node does not know it, is there.  KickoffGeneratorTxNotFound is     *)
(* returned only if a question to the node failed.                         *)
WalkNeverLost ==
    \A c \in Callers :
        (walk[c].pc = "searching" /\ ~ OnChain(walk[c].current))
            => \E r \in gens : r.txid = walk[c].current

(* Sending an answer in order never fails for want of a parent, nor        *)
(* because another deposit's slash_or_take spent the kickoff, whatever     *)
(* other callers sent and new_deposit stored since the answer was made.    *)
AnswerSendable ==
    \A c \in Callers : walk[c].pc = "sending" =>
        IF walk[c].list # <<>>
        THEN Accepted(Head(walk[c].list))
        ELSE KickoffSpendable(Spend(c))

(* The walk gives up only when it must: the kickoff is MaxIterations       *)
(* generator transactions or more away from the wallet, and, but for one   *)
(* transaction per failing answer, the node lacked all MaxIterations of    *)
(* them at one moment of the walk, whatever other callers sent meanwhile.  *)
LimitOnlyWhenDeep ==
    \A c \in Callers : (walk[c].pc = "searching" /\ walk[c].n = MaxIterations) =>
        /\ Len(walk[c].kickoff.txid.path) >= MaxIterations
        /\ walk[c].gap + walk[c].failed >= MaxIterations

(* A deposit is taken by the operator only when Citrea has it as the       *)
(* filler, and through the kickoff that the deposit was bound to.          *)
TakenWasFilled ==
    /\ CitreaChecks => taken \subseteq filled
    /\ \A d \in taken : \E s \in sots : s.deposit = d /\ s \in kickoffs

-----------------------------------------------------------------------------
(* Liveness.  Handlers and callers that hold an answer go on, blocks are   *)
(* mined, the operator is restarted, and the operator calls again for a    *)
(* withdrawal it has filled until it is reimbursed.                        *)
RFairness ==
    /\ \A h \in Handlers : SF_vars(AcquireLock(h)) /\ WF_vars(Proceed(h))
    /\ WF_vars(Start)
    /\ \A c \in Callers : WF_allVars(Search(c)) /\ WF_allVars(Send(c))
    /\ WF_allVars(\E s \in sots : Ripen(s))
    /\ \A d \in Deposits :
        SF_allVars(d \notin taken /\ \E c \in Callers : WithdrawalProvedOnCitrea(c, d))

RFairSpec == RSpec /\ RFairness

(* An operator that paid a withdrawal is reimbursed, when no kickoff is    *)
(* MaxIterations transactions deep.                                        *)
FilledIsReimbursed == \A d \in Deposits : d \in filled ~> d \in taken
=============================================================================
