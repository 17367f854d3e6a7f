---------------------------- MODULE Submissions ----------------------------
(***************************************************************************)
(* What a client may rely on when it asks for a contract transaction,      *)
(* whatever fails in between:                                              *)
(*                                                                         *)
(*   - one request hands over at most one transaction, and none after the  *)
(*     client was answered;                                                *)
(*   - only a transaction that was handed over gets on the ledger, once;   *)
(*   - "ok" is told only when the request's transaction is on the ledger.  *)
(*                                                                         *)
(* "failed" promises only that nothing more will be handed over: a         *)
(* transaction handed over before may still get there.                     *)
(***************************************************************************)
CONSTANTS Requests, Transactions, NoTx

VARIABLES
  ledger,  \* the transactions the chain has accepted
  handed,  \* per request, the transaction handed to the network, or NoTx
  told     \* per request, what the client was told

subVars == <<ledger, handed, told>>

SubInit ==
  /\ ledger = {}
  /\ handed = [r \in Requests |-> NoTx]
  /\ told = [r \in Requests |-> "nothing"]

HandOver(r) ==
  /\ told[r] = "nothing"
  /\ handed[r] = NoTx
  /\ handed'[r] \in Transactions
  /\ handed' = [handed EXCEPT ![r] = handed'[r]]
  /\ UNCHANGED <<ledger, told>>

Accept(r) ==
  /\ handed[r] \notin ledger \union {NoTx}
  /\ ledger' = ledger \union {handed[r]}
  /\ UNCHANGED <<handed, told>>

Tell(r, answer) ==
  /\ told[r] = "nothing"
  /\ answer = "ok" => handed[r] \in ledger
  /\ told' = [told EXCEPT ![r] = answer]
  /\ UNCHANGED <<ledger, handed>>

SubNext ==
  \E r \in Requests :
    \/ HandOver(r)
    \/ Accept(r)
    \/ \E answer \in {"ok", "failed"} : Tell(r, answer)

SubSpec == SubInit /\ [][SubNext]_subVars
=============================================================================
