--------------------------- MODULE KickoffRegistry ---------------------------
(***************************************************************************)
(* What an operator promises to its clients about kickoff UTXOs, with no   *)
(* database, no funding and no concurrency: a deposit is bound to at most  *)
(* one kickoff UTXO, for ever; a kickoff UTXO is bound to at most one      *)
(* deposit; and only a bound kickoff UTXO is ever handed out.  The         *)
(* operator's signature on (deposit, kickoff), which the verifiers check,  *)
(* is made for handed-out pairs only.                                      *)
(*                                                                         *)
(* OperatorKickoffs is shown to implement this specification.              *)
(***************************************************************************)

CONSTANTS Deposits,   \* deposit outpoints
          KickoffSet  \* kickoff outpoints

VARIABLES bound,      \* the pairs [deposit, kickoff] that are bound
          handed      \* the pairs [deposit, kickoff] given to a client

regVars == <<bound, handed>>

RegInit ==
    /\ bound = {}
    /\ handed = {}

(* The operator binds a fresh kickoff to a deposit that has none.          *)
Bind(b) ==
    /\ b \in [deposit : Deposits, kickoff : KickoffSet]
    /\ \A c \in bound : c.deposit # b.deposit /\ c.kickoff # b.kickoff
    /\ bound' = bound \cup {b}
    /\ UNCHANGED handed

(* A client receives the kickoff its deposit is bound to.                  *)
HandOut(b) ==
    /\ b \in bound
    /\ handed' = handed \cup {b}
    /\ UNCHANGED bound

(* The pair that a step binds is looked for among the pairs it adds, so    *)
(* that KickoffSet may be infinite.                                        *)
RegNext ==
    \/ \E b \in bound' \ bound : Bind(b)
    \/ \E b \in bound : HandOut(b)

RegSpec == RegInit /\ [][RegNext]_regVars
=============================================================================
