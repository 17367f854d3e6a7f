---------------------------- MODULE AccountBook ----------------------------
(***************************************************************************)
(* What the account service promises a client, without files, locks or     *)
(* threads' steps: a book of accounts in which every accepted request      *)
(* takes effect in one step, and is allowed in the very state it changes.  *)
(*                                                                         *)
(*   - put: an account is entered, encrypted under the request's password; *)
(*     it replaces another entry only if the client asked to overwrite;    *)
(*   - remove: an entry goes only for a password that opens it.            *)
(*                                                                         *)
(* AccountService implements this book for clients whose requests do not   *)
(* overlap (its ImplementsAccountBook).                                    *)
(***************************************************************************)
EXTENDS AccountRecord

CONSTANT Clients

VARIABLES
  accounts,  \* address -> account or Absent
  asked      \* per client, the request that has not taken effect yet

bookVars == <<accounts, asked>>

Order == [kind : {"put", "remove"}, key : Keys, pw : MaybePassword, over : BOOLEAN]

NoOrder == Absent

BookInit ==
  /\ accounts = [a \in Keys |-> Absent]
  /\ asked = [c \in Clients |-> NoOrder]

Ask(c, o) ==
  /\ asked[c] = NoOrder
  /\ asked' = [asked EXCEPT ![c] = o]
  /\ UNCHANGED accounts

Done(c) == asked' = [asked EXCEPT ![c] = NoOrder]

Put(c) ==
  LET o == asked[c] IN
  /\ o # NoOrder
  /\ o.kind = "put"
  /\ o.over \/ accounts[o.key] = Absent
  /\ accounts' = [accounts EXCEPT ![o.key] = Sealed(o.key, o.pw)]
  /\ Done(c)

Remove(c) ==
  LET o == asked[c] IN
  /\ o # NoOrder
  /\ o.kind = "remove"
  /\ accounts[o.key] # Absent
  /\ Unlock(accounts[o.key], o.pw) = o.key
  /\ accounts' = [accounts EXCEPT ![o.key] = Absent]
  /\ Done(c)

\* Requests that fail, or are lost in a restart, leave no trace.
Abandon(S) ==
  /\ asked' = [c \in Clients |-> IF c \in S THEN NoOrder ELSE asked[c]]
  /\ UNCHANGED accounts

BookNext ==
  \/ \E c \in Clients :
       \/ \E o \in Order : Ask(c, o)
       \/ Put(c)
       \/ Remove(c)
  \/ \E S \in SUBSET Clients : Abandon(S)

BookSpec == BookInit /\ [][BookNext]_bookVars
=============================================================================
