-------------------------- MODULE ContractRequests --------------------------
(***************************************************************************)
(* createContract, callContract and deleteContract: from the request to    *)
(* the transaction on the chain.  A request reads the account (to check    *)
(* the password), asks the API module to validate it, asks it for nonce    *)
(* and balance, makes the coins, reads the account again (to sign) and     *)
(* broadcasts.  Between any two of these steps other requests change the   *)
(* accounts, and other transactions change nonce and balance.              *)
(*                                                                         *)
(* The accounts are those of AccountService, of which only this is used:   *)
(* a record is absent or Sealed (its AccountsHoldTheirKey).                *)
(***************************************************************************)
EXTENDS AccountRecord, ContractTx, FiniteSets

CONSTANTS
  Requests,    \* the requests clients make
  Orders,      \* what they may ask for (a set of records, see OrderType)
  Chains,      \* chains that issue assets
  HomeChain,   \* the chain whose id is the requests' chainId
  Gas,         \* what imputedContractCreateGas may answer
  Balances,    \* balances deposits and other transactions lead to
  MaxNonce,    \* bound on the transactions of one sender
  Times,       \* the second a request is served in
  Existing,    \* the contract that is called or deleted
  ReadFaults,  \* may a read of the account table fail (and find nothing)?
  NoTx

OrderType ==
  [op : {"create", "call", "delete"}, sender : Keys, pw : MaybePassword,
   asset : Chains, gas : Int, price : Int, value : Int, remark : Nat, data : Nat]

NoOrder == Absent

TxType ==
  [op : {"create", "call", "delete"}, contract : Requests \union {Existing},
   sender : Keys, asset : Chains, nonce : Nat, gas : Int, price : Int,
   value : Int, remark : Nat, data : Nat, time : Times, amount : Nat,
   sig : Keys \union {NoKey}]

ASSUME RequestConstants ==
  /\ Orders \subseteq OrderType
  /\ HomeChain \in Chains
  /\ Gas \subseteq Nat
  /\ Balances \subseteq Nat
  /\ MaxNonce \in Nat
  /\ ReadFaults \in BOOLEAN
  /\ Absent \notin OrderType
  /\ NoTx \notin TxType

VARIABLES
  accounts,        \* address -> account or Absent (the account table)
  pc, order, tx,   \* per request: its next step, what it asks, its transaction
  wire,            \* requests whose transaction is on its way to the chain
  verdict,         \* per request, what the API module answers the broadcast
  ledger,          \* the transactions the chain has accepted
  nonce, balance   \* of a sender in the asset of a chain

request == <<pc, order, tx>>
chain == <<wire, verdict, ledger, nonce, balance>>
vars == <<accounts, request, chain>>

Working == {"args", "validate", "gas", "balance", "sign", "send", "sent"}
Purses == Keys \X Chains

Goto(r, step) == pc' = [pc EXCEPT ![r] = step]

\* AccountStorageServiceImpl.getAccount: a failed read looks like no account.
Reads(k) == {accounts[k]} \union (IF ReadFaults THEN {Absent} ELSE {})

-----------------------------------------------------------------------------
(***************************************************************************)
(* The first part: parameters, password, validation by the API module      *)
(***************************************************************************)
Parameters(o) ==
  /\ o.op # "delete" => o.gas >= 0 /\ o.price >= 25
  /\ o.op = "call" => o.value >= 0

\* createContract insists on the account; validationPassword, of the others,
\* is content when there is none.
PasswordPasses(o, a) ==
  IF a = Absent THEN o.op # "create"
  ELSE IsEncrypted(a) => ValidatePassword(a, o.pw)

Request(r, o) ==
  /\ pc[r] = "idle"
  /\ order' = [order EXCEPT ![r] = o]
  /\ \E a \in Reads(o.sender) :
       Goto(r, IF ~(Parameters(o) /\ PasswordPasses(o, a)) THEN "failed"
               ELSE IF o.op = "delete" THEN "validate" ELSE "args")
  /\ UNCHANGED <<accounts, tx, chain>>

\* getContractConstructorArgsTypes, getContractMethodArgsTypes
GetArgsTypes(r) ==
  /\ pc[r] = "args"
  /\ Goto(r, "validate")
  /\ UNCHANGED <<accounts, order, tx, chain>>

\* validateContractCreate, validateContractCall, validateContractDelete
Validate(r) ==
  /\ pc[r] = "validate"
  /\ Goto(r, IF order[r].op = "create" THEN "gas" ELSE "balance")
  /\ UNCHANGED <<accounts, order, tx, chain>>

\* createContract goes on with the gas imputed now, not the gas validated.
ImputedContractCreateGas(r) ==
  /\ pc[r] = "gas"
  /\ \E g \in Gas : order' = [order EXCEPT ![r].gas = g]
  /\ Goto(r, "balance")
  /\ UNCHANGED <<accounts, tx, chain>>

-----------------------------------------------------------------------------
(***************************************************************************)
(* The second part: coins, signature, broadcast                            *)
(***************************************************************************)
\* A delete transaction has neither gas nor value.
Cost(o) ==
  IF o.op = "delete" THEN [gas |-> 0, price |-> 0, value |-> 0]
  ELSE IF o.op = "create" THEN [gas |-> o.gas, price |-> o.price, value |-> 0]
  ELSE [gas |-> o.gas, price |-> o.price, value |-> o.value]

Total(o) ==
  TotalValue(Cost(o).gas, Cost(o).price, Cost(o).value, o.remark, o.data)

\* The coins are of asset <<chainId, assetId>>, whatever assetChainId is, and
\* take their nonce from the balance that was asked for.
TxOf(r, o, n, time) ==
  [op |-> o.op, contract |-> IF o.op = "create" THEN r ELSE Existing,
   sender |-> o.sender, asset |-> HomeChain, nonce |-> n,
   gas |-> Cost(o).gas, price |-> Cost(o).price, value |-> Cost(o).value,
   remark |-> o.remark, data |-> o.data, time |-> time, amount |-> Total(o),
   sig |-> NoKey]

\* (First a slip: the balance is not compared with the total.)
MakeTxUnchecked(r) ==
  /\ pc[r] = "balance"
  /\ \E time \in Times :
       LET o == order[r]  purse == <<o.sender, o.asset>> IN
       /\ Total(o) >= 0
       /\ tx' = [tx EXCEPT ![r] = TxOf(r, o, nonce[purse], time)]
  /\ Goto(r, "sign")
  /\ UNCHANGED <<accounts, order, chain>>

\* getAccountBalance, makeCoinData (null: INSUFFICIENT_BALANCE) and the
\* serialisation, which refuses a negative amount.
MakeTx(r) ==
  /\ pc[r] = "balance"
  /\ \E time \in Times :
       LET o == order[r]  purse == <<o.sender, o.asset>> IN
       /\ balance[purse] >= Total(o)
       /\ Total(o) >= 0
       /\ tx' = [tx EXCEPT ![r] = TxOf(r, o, nonce[purse], time)]
  /\ Goto(r, "sign")
  /\ UNCHANGED <<accounts, order, chain>>

\* (First a slip: the signer relies on the check made at the beginning.)
SignUnverified(r) ==
  /\ pc[r] = "sign"
  /\ \E a \in Reads(order[r].sender) :
       /\ a # Absent
       /\ tx' = [tx EXCEPT ![r].sig = a.pub]
  /\ Goto(r, "send")
  /\ UNCHANGED <<accounts, order, chain>>

\* (Another slip: an encrypted account's empty plain key is used.)
SignWithPlainKey(r) ==
  /\ pc[r] = "sign"
  /\ \E a \in Reads(order[r].sender) :
       /\ a # Absent
       /\ Unlock(a, order[r].pw) # NoKey
       /\ tx' = [tx EXCEPT ![r].sig = a.pri]
  /\ Goto(r, "send")
  /\ UNCHANGED <<accounts, order, chain>>

\* signDigest: getEcKey of the account as it is now.  Without an account
\* (a NullPointerException) or with a wrong password the request fails.
SignDigest(r) ==
  /\ pc[r] = "sign"
  /\ \E a \in Reads(order[r].sender) :
       /\ a # Absent
       /\ Unlock(a, order[r].pw) # NoKey
       /\ tx' = [tx EXCEPT ![r].sig = Unlock(a, order[r].pw)]
  /\ Goto(r, "send")
  /\ UNCHANGED <<accounts, order, chain>>

BroadcastTx(r) ==
  /\ pc[r] = "send"
  /\ wire' = wire \union {r}
  /\ Goto(r, "sent")
  /\ UNCHANGED <<accounts, order, tx, verdict, ledger, nonce, balance>>

\* (First a slip: a verdict is taken for a success without looking at it.)
AnyVerdictReturns(r) ==
  /\ pc[r] = "sent"
  /\ verdict[r] # "none"
  /\ Goto(r, "ok")
  /\ UNCHANGED <<accounts, order, tx, chain>>

\* broadcastTx returns, or throws when "value" is false.
BroadcastReturns(r) ==
  /\ pc[r] = "sent"
  /\ verdict[r] # "none"
  /\ Goto(r, IF verdict[r] = "accepted" THEN "ok" ELSE "failed")
  /\ UNCHANGED <<accounts, order, tx, chain>>

\* (First a slip: the client waits for an answer without a timeout.)
FailsUnlessSent(r) ==
  /\ pc[r] \in Working \ {"sent"}
  /\ Goto(r, "failed")
  /\ UNCHANGED <<accounts, order, tx, chain>>

\* Every remote call can fail or time out, every check can refuse, and a
\* restart breaks off what is under way: the client gets an error.
Fails(r) ==
  /\ pc[r] \in Working
  /\ Goto(r, "failed")
  /\ UNCHANGED <<accounts, order, tx, chain>>

-----------------------------------------------------------------------------
(***************************************************************************)
(* The API module and the chain behind it                                  *)
(***************************************************************************)
Judge(r, v) ==
  /\ r \in wire
  /\ wire' = wire \ {r}
  /\ verdict' = [verdict EXCEPT ![r] = v]
  /\ UNCHANGED <<accounts, request>>

Purse(t) == <<t.sender, t.asset>>

NodeAccepts(r) ==
  /\ Judge(r, "accepted")
  /\ tx[r] \notin ledger
  /\ tx[r].sig = tx[r].sender
  /\ tx[r].nonce = nonce[Purse(tx[r])]
  /\ tx[r].amount <= balance[Purse(tx[r])]
  /\ ledger' = ledger \union {tx[r]}
  /\ nonce' = [nonce EXCEPT ![Purse(tx[r])] = @ + 1]
  /\ balance' = [balance EXCEPT ![Purse(tx[r])] = @ - tx[r].amount]

\* Two equal requests of one second with one nonce are one transaction: its
\* second copy may be confirmed, too.
NodeKnows(r) ==
  /\ tx[r] \in ledger
  /\ Judge(r, "accepted")
  /\ UNCHANGED <<ledger, nonce, balance>>

NodeRejects(r) ==
  /\ Judge(r, "rejected")
  /\ UNCHANGED <<ledger, nonce, balance>>

\* A transaction of the sender that another wallet made.
OtherTransaction(p) ==
  /\ nonce[p] < MaxNonce
  /\ nonce' = [nonce EXCEPT ![p] = @ + 1]
  /\ \E b \in Balances : balance' = [balance EXCEPT ![p] = b]
  /\ UNCHANGED <<accounts, request, wire, verdict, ledger>>

Deposit(p) ==
  /\ \E b \in Balances :
       /\ b > balance[p]
       /\ balance' = [balance EXCEPT ![p] = b]
  /\ UNCHANGED <<accounts, request, wire, verdict, ledger, nonce>>

\* Another request imports, replaces or removes an account.
OtherAccountRequest(k) ==
  /\ \E a \in {Absent} \union {Sealed(k, pw) : pw \in MaybePassword} :
       accounts' = [accounts EXCEPT ![k] = a]
  /\ UNCHANGED <<request, chain>>

-----------------------------------------------------------------------------
Init ==
  /\ \E pw \in MaybePassword : accounts = [k \in Keys |-> Sealed(k, pw)]
  /\ pc = [r \in Requests |-> "idle"]
  /\ order = [r \in Requests |-> NoOrder]
  /\ tx = [r \in Requests |-> NoTx]
  /\ wire = {}
  /\ verdict = [r \in Requests |-> "none"]
  /\ ledger = {}
  /\ nonce = [p \in Purses |-> 0]
  /\ \E b \in Balances : balance = [p \in Purses |-> b]

\* What the service does for a request once it has arrived.
Serve(r) ==
  \/ GetArgsTypes(r) \/ Validate(r) \/ ImputedContractCreateGas(r)
  \/ MakeTx(r) \/ SignDigest(r) \/ BroadcastTx(r)
  \/ BroadcastReturns(r) \/ Fails(r)

Next ==
  \/ \E r \in Requests :
       \/ \E o \in Orders : Request(r, o)
       \/ Serve(r)
       \/ NodeAccepts(r) \/ NodeKnows(r) \/ NodeRejects(r)
  \/ \E p \in Purses : OtherTransaction(p) \/ Deposit(p)
  \/ \E k \in Keys : OtherAccountRequest(k)

Spec == Init /\ [][Next]_vars

\* The server's threads keep working, and remote calls time out; neither the
\* chain nor other clients owe anything.
FairSpec == Spec /\ \A r \in Requests : WF_vars(Serve(r))

-----------------------------------------------------------------------------
Handed == wire \union {r \in Requests : verdict[r] # "none"}

TypeOK ==
  /\ \A k \in Keys :
       accounts[k] \in {Absent} \union {Sealed(k, pw) : pw \in MaybePassword}
  /\ pc \in [Requests -> {"idle", "ok", "failed"} \union Working]
  /\ order \in [Requests -> OrderType \union {NoOrder}]
  /\ tx \in [Requests -> TxType \union {NoTx}]
  /\ wire \subseteq Requests
  /\ verdict \in [Requests -> {"none", "accepted", "rejected"}]
  /\ ledger \subseteq TxType
  /\ nonce \in [Purses -> Nat]
  /\ balance \in [Purses -> Nat]
  /\ \A r \in Requests : pc[r] \in {"send", "sent"} => tx[r].sig \in Keys

\* A transaction whose nonce is still the next one can be paid for: what
\* makeCoinData compared with the balance stays true until the sender spends.
\* (makeCoinData, balance.compareTo(totalValue), for the chain's own asset)
CurrentIsAffordable ==
  \A r \in Requests :
    /\ tx[r] # NoTx
    /\ order[r].asset = HomeChain
    /\ tx[r].nonce = nonce[Purse(tx[r])]
    => tx[r].amount <= balance[Purse(tx[r])]

\* What a client expects to pay.
TotalCost(t) == t.gas * t.price + t.value + Fee(t.remark, t.data, t.value)

\* The amount taken is the gas times its price, the value transferred and the fee,
\* if the product fits in a long; if not, it falls short by 2^64 or more, and the order
\* is served all the same.  (makeCoinData, "total cost": totalValue; LongUtils.mul)
TakesTotalCost ==
  \A r \in Requests :
    tx[r] # NoTx =>
      IF tx[r].gas * tx[r].price < Word THEN tx[r].amount = TotalCost(tx[r])
      ELSE tx[r].amount <= TotalCost(tx[r]) - 2 * Word

\* What is left of the amount when gas times price, as makeCoinData has it, and value
\* are taken off pays the fee of the transaction as it is broadcast, signed, though the
\* fee was computed before there were data, coins or signature in it.
\* (getNormalUnsignedTxFee, calcSize)
FeeCoversSignedSize ==
  \A r \in Requests :
    tx[r] # NoTx =>
      \A der \in 8 .. 72 :
        tx[r].amount - Mul(tx[r].gas, tx[r].price) - tx[r].value
          >= NormalTxFee(TxSize(tx[r].remark, tx[r].data,
                                CoinDataSize(tx[r].value), SignatureSize(der)))

\* A signature is made only for a password that opens the account at the very
\* moment of signing, whatever happened to the account since the password was
\* checked first.  (createContract, isEncrypted, validatePassword; signDigest)
SignsOnlyUnlocked ==
  \A r \in Requests :
    tx[r] # NoTx /\ tx'[r] # tx[r] =>
      /\ accounts[tx[r].sender] # Absent
      /\ Unlock(accounts[tx[r].sender], order[r].pw) = tx'[r].sig

SignedByOwner == [][SignsOnlyUnlocked]_vars

\* Clients are told the truth: ContractRequests implements Submissions.
told ==
  [r \in Requests |-> IF pc[r] \in {"ok", "failed"} THEN pc[r] ELSE "nothing"]
handed == [r \in Requests |-> IF r \in Handed THEN tx[r] ELSE NoTx]

Promise == INSTANCE Submissions WITH Transactions <- TxType
ImplementsSubmissions == Promise!SubSpec

\* Every request is answered, even if the API module never answers.
\* (createContract, callContract, deleteContract)
EveryRequestAnswered ==
  \A r \in Requests : pc[r] \in Working ~> pc[r] \in {"ok", "failed"}
=============================================================================
