----------------------- MODULE ContractRequestsProofs -----------------------
(***************************************************************************)
(* Proofs about ContractRequests, for every set of requests, orders,       *)
(* chains and balances, and about the numbers of ContractTx.               *)
(***************************************************************************)
EXTENDS ContractRequests, TLAPS

-----------------------------------------------------------------------------
(***************************************************************************)
(* The numbers                                                             *)
(***************************************************************************)

\* The fee of a transaction grows with its size (getNormalTxFee).
LEMMA FeeMonotone ==
  ASSUME NEW m \in Nat, NEW n \in Nat, m <= n
  PROVE  NormalTxFee(m) \in Nat /\ NormalTxFee(m) <= NormalTxFee(n)
BY DEF NormalTxFee

\* Sizes are natural numbers, and a part that was empty adds what calcSize says.
LEMMA Sizes ==
  ASSUME NEW n \in Nat
  PROVE  /\ VarIntSize(n) \in 1 .. 5
         /\ SizeOfBytes(n) \in Nat
         /\ CalcSize(n) \in Nat
         /\ SizeOfBytes(n) = SizeOfBytes(0) + CalcSize(n)
BY DEF VarIntSize, SizeOfBytes, CalcSize

\* The fee is charged for at least the bytes the signed transaction has, for
\* every remark, every data and every signature (P2PHKSignature, 110 bytes).
LEMMA FeeCoversSize ==
  ASSUME NEW remark \in Nat, NEW data \in Nat, NEW value \in Int, NEW der \in 0 .. 72
  PROVE  /\ Fee(remark, data, value) \in Nat
         /\ Fee(remark, data, value)
              >= NormalTxFee(TxSize(remark, data, CoinDataSize(value), SignatureSize(der)))
<1> DEFINE coins == CoinDataSize(value)
           signed == TxSize(remark, data, coins, SignatureSize(der))
           charged == TxSize(remark, 0, 0, 0) + CalcSize(data) + CalcSize(coins) + 110
<1>1. coins \in Nat
  BY DEF CoinDataSize
<1>2. SizeOfBytes(SignatureSize(der)) = 36 + der /\ SizeOfBytes(0) = 1
  BY DEF SizeOfBytes, VarIntSize, SignatureSize
<1> HIDE DEF coins
<1>3. SizeOfBytes(remark) \in Nat /\ SizeOfBytes(data) \in Nat /\ SizeOfBytes(coins) \in Nat
  BY <1>1, Sizes
<1>4. CalcSize(data) = SizeOfBytes(data) - 1 /\ CalcSize(coins) = SizeOfBytes(coins) - 1
  BY <1>1 DEF CalcSize, SizeOfBytes, VarIntSize
<1>5. signed \in Nat /\ charged \in Nat /\ signed <= charged
  BY <1>2, <1>3, <1>4 DEF TxSize
<1>6. Fee(remark, data, value) = NormalTxFee(charged)
  BY DEF Fee, NormalUnsignedTxFee, coins
<1> HIDE DEF signed, charged
<1>7. NormalTxFee(signed) <= NormalTxFee(charged) /\ NormalTxFee(charged) \in Nat
  BY <1>5, FeeMonotone
<1> QED BY <1>6, <1>7 DEF signed, coins

\* LongUtils.mul is a long, and is the product where that fits into a long.
LEMMA MulType ==
  ASSUME NEW a \in Int, NEW b \in Int
  PROVE  Mul(a, b) \in Int
<1>1. a * b \in Int /\ 2 * Word \in Nat \ {0}
  BY WordAssumption
<1> QED BY <1>1, WordAssumption DEF Mul

LEMMA MulExact ==
  ASSUME NEW a \in Nat, NEW b \in Nat, a * b < Word
  PROVE  Mul(a, b) = a * b
<1> DEFINE p == a * b
<1>1. p \in Nat
  OBVIOUS
<1> HIDE DEF p
<1>2. p < Word
  BY DEF p
<1>3. (p + Word) % (2 * Word) = p + Word
  BY <1>1, <1>2, WordAssumption
<1> QED BY <1>1, <1>3, WordAssumption DEF Mul, p

\* ... and where it does not fit, it is short by 2^64 at least.
LEMMA ModWraps ==
  ASSUME NEW n \in Nat, NEW w \in Nat \ {0}, n >= w
  PROVE  n % w <= n - w /\ n % w \in Nat
OBVIOUS

LEMMA MulWraps ==
  ASSUME NEW a \in Nat, NEW b \in Nat, ~(a * b < Word)
  PROVE  Mul(a, b) <= a * b - 2 * Word
<1> DEFINE p == a * b
           w == 2 * Word
           n == p + Word
<1>1. p \in Nat /\ w \in Nat \ {0} /\ n \in Nat /\ n >= w
  BY WordAssumption
<1>2. Mul(a, b) = (n % w) - Word
  BY DEF Mul
<1> HIDE DEF p, w, n
<1>3. n % w <= n - w /\ n % w \in Nat
  BY <1>1, ModWraps
<1>4. Mul(a, b) <= p - w
  BY <1>1, <1>2, <1>3, WordAssumption DEF n
<1> QED BY <1>4 DEF p, w

-----------------------------------------------------------------------------
(***************************************************************************)
(* The invariant.  CurrentIsAffordable holds because a nonce once passed   *)
(* never comes back; what clients are told is true because a request has   *)
(* a transaction from the time it is made, and keeps it.                   *)
(***************************************************************************)
Drafted == {"sign", "send", "sent", "ok"}

Stages ==
  \A r \in Requests :
    /\ pc[r] # "idle" => order[r] \in OrderType
    /\ tx[r] # NoTx => pc[r] \in Drafted \union {"failed"}
    /\ pc[r] \in Drafted => tx[r] # NoTx
    /\ tx[r] # NoTx => tx[r].sender = order[r].sender /\ tx[r].asset = HomeChain
    /\ r \in Handed => pc[r] \in {"sent", "ok", "failed"} /\ tx[r] # NoTx
    /\ pc[r] = "sent" => r \in Handed
    /\ verdict[r] = "accepted" => tx[r] \in ledger

NoncesPass ==
  \A r \in Requests :
    tx[r] # NoTx /\ order[r].asset = HomeChain => tx[r].nonce <= nonce[Purse(tx[r])]

IInv == TypeOK /\ Stages /\ NoncesPass /\ CurrentIsAffordable

-----------------------------------------------------------------------------
(***************************************************************************)
(* The data                                                                *)
(***************************************************************************)

\* A stored account opens to the key of its address or not at all (getEcKey).
LEMMA SealedOpensToKey ==
  ASSUME NEW k \in Keys, NEW p \in MaybePassword, NEW pw
  PROVE  Unlock(Sealed(k, p), pw) \in {k, NoKey}
<1> USE RecordConstants, NoKeyIsNoCipher
<1>1. CASE p = Blank
  BY <1>1 DEF Sealed, NewAccount, Unlock, IsEncrypted
<1>2. CASE p # Blank
  <2>1. Sealed(k, p) = [pub |-> k, pri |-> NoKey, enc |-> [key |-> k, pw |-> p]]
    BY <1>2 DEF Sealed, NewAccount, Encrypt
  <2> QED BY <2>1 DEF Unlock
<1> QED BY <1>1, <1>2

\* What makeCoinData takes is a whole number, and the transaction made of an
\* order is one of its sender in the asset of the home chain.
LEMMA TotalType ==
  ASSUME NEW o \in OrderType
  PROVE  Total(o) \in Int
<1>1. Cost(o).gas \in Int /\ Cost(o).price \in Int /\ Cost(o).value \in Int
  BY DEF Cost, OrderType
<1>2. o.remark \in Nat /\ o.data \in Nat
  BY DEF OrderType
<1>3. Fee(o.remark, o.data, Cost(o).value) \in Nat
  <2>1. 0 \in 0 .. 72
    OBVIOUS
  <2> QED BY <1>1, <1>2, <2>1, FeeCoversSize, Zenon
<1>4. Mul(Cost(o).gas, Cost(o).price) \in Int
  BY <1>1, MulType
<1> QED BY <1>1, <1>3, <1>4 DEF Total, TotalValue

LEMMA TxOfType ==
  ASSUME NEW r \in Requests, NEW o \in OrderType, NEW n \in Nat, NEW time \in Times,
         Total(o) >= 0
  PROVE  /\ TxOf(r, o, n, time) \in TxType
         /\ TxOf(r, o, n, time) # NoTx
         /\ TxOf(r, o, n, time).sender = o.sender
         /\ TxOf(r, o, n, time).asset = HomeChain
         /\ TxOf(r, o, n, time).nonce = n
         /\ TxOf(r, o, n, time).amount = Total(o)
<1>1. Cost(o).gas \in Int /\ Cost(o).price \in Int /\ Cost(o).value \in Int
  BY DEF Cost, OrderType
<1>2. Total(o) \in Nat
  BY TotalType
<1>3. TxOf(r, o, n, time) \in TxType
  BY <1>1, <1>2, RequestConstants DEF TxOf, TxType, OrderType
<1> QED BY <1>3, RequestConstants DEF TxOf

-----------------------------------------------------------------------------
(***************************************************************************)
(* The steps of a request                                                  *)
(***************************************************************************)
LEMMA InitIInv == Init => IInv
<1> SUFFICES ASSUME Init PROVE IInv
  OBVIOUS
<1> USE DEF Init
<1>1. TypeOK
  BY RequestConstants DEF TypeOK, Purses
<1>2. Stages
  BY RequestConstants DEF Stages, Drafted, Handed
<1>3. NoncesPass /\ CurrentIsAffordable
  BY DEF NoncesPass, CurrentIsAffordable
<1> QED BY <1>1, <1>2, <1>3 DEF IInv

\* Steps that change only the place of a request without a transaction, and
\* perhaps what it asks.
LEMMA BeforeTxKeeps ==
  ASSUME IInv, NEW r \in Requests, NEW o \in OrderType,
         NEW step \in {"args", "validate", "gas", "balance", "failed"},
         tx[r] = NoTx,
         order' = [order EXCEPT ![r] = o], Goto(r, step),
         UNCHANGED <<accounts, tx, chain>>
  PROVE  IInv'
<1> USE DEF IInv, chain, Goto
<1>1. TypeOK'
  BY DEF TypeOK, Working
<1>2. Stages'
  BY DEF TypeOK, Stages, Drafted, Handed
<1>3. NoncesPass' /\ CurrentIsAffordable'
  BY DEF TypeOK, NoncesPass, CurrentIsAffordable, Purse
<1> QED BY <1>1, <1>2, <1>3

LEMMA RequestKeeps ==
  ASSUME IInv, NEW r \in Requests, NEW o \in Orders, Request(r, o)
  PROVE  IInv'
<1>1. o \in OrderType
  BY RequestConstants
<1>2. tx[r] = NoTx
  BY DEF Request, IInv, Stages, Drafted
<1>3. PICK step \in {"args", "validate", "failed"} : Goto(r, step)
  BY DEF Request
<1> QED BY <1>1, <1>2, <1>3, BeforeTxKeeps DEF Request

LEMMA ReadsKeep ==
  ASSUME IInv, NEW r \in Requests,
         GetArgsTypes(r) \/ Validate(r) \/ ImputedContractCreateGas(r)
  PROVE  IInv'
<1>1. tx[r] = NoTx /\ order[r] \in OrderType
  BY DEF GetArgsTypes, Validate, ImputedContractCreateGas, IInv, Stages, Drafted
<1>2. ASSUME order' = order PROVE order' = [order EXCEPT ![r] = order[r]]
  BY <1>2 DEF IInv, TypeOK
<1>3. CASE GetArgsTypes(r)
  BY <1>1, <1>2, <1>3, BeforeTxKeeps DEF GetArgsTypes
<1>4. CASE Validate(r)
  BY <1>1, <1>2, <1>4, BeforeTxKeeps DEF Validate
<1>5. CASE ImputedContractCreateGas(r)
  <2>1. PICK g \in Gas : order' = [order EXCEPT ![r].gas = g]
    BY <1>5 DEF ImputedContractCreateGas
  <2> DEFINE o == [order[r] EXCEPT !.gas = g]
  <2>2. o \in OrderType
    BY <1>1, RequestConstants DEF OrderType
  <2>3. order' = [order EXCEPT ![r] = o]
    BY <2>1
  <2> HIDE DEF o
  <2> QED BY <1>1, <1>5, <2>2, <2>3, BeforeTxKeeps DEF ImputedContractCreateGas
<1> QED BY <1>3, <1>4, <1>5

LEMMA MakeTxKeeps ==
  ASSUME IInv, NEW r \in Requests, MakeTx(r)
  PROVE  IInv'
<1> DEFINE o == order[r]
           purse == <<o.sender, o.asset>>
<1>1. PICK time \in Times :
        /\ balance[purse] >= Total(o)
        /\ Total(o) >= 0
        /\ tx' = [tx EXCEPT ![r] = TxOf(r, o, nonce[purse], time)]
  BY DEF MakeTx
<1> DEFINE t == TxOf(r, o, nonce[purse], time)
<1>2. o \in OrderType
  BY DEF IInv, Stages, MakeTx
<1>3. purse \in Purses
  BY <1>2 DEF OrderType, Purses
<1>4. nonce[purse] \in Nat /\ balance[purse] \in Nat
  BY <1>3 DEF IInv, TypeOK
<1>5. /\ t \in TxType /\ t # NoTx /\ t.sender = o.sender /\ t.asset = HomeChain
      /\ t.nonce = nonce[purse] /\ t.amount = Total(o)
  BY <1>1, <1>2, <1>4, TxOfType
<1>6. tx' = [tx EXCEPT ![r] = t]
  BY <1>1
<1>7. o.asset = HomeChain => Purse(t) = purse
  BY <1>5 DEF Purse
<1> HIDE DEF t
<1> USE DEF IInv, MakeTx, Goto, chain
<1>8. TypeOK'
  BY <1>5, <1>6 DEF TypeOK, Working
<1>9. Stages'
  BY <1>5, <1>6 DEF TypeOK, Stages, Drafted, Handed
<1>10. NoncesPass'
  BY <1>4, <1>5, <1>6, <1>7 DEF TypeOK, NoncesPass
<1>11. CurrentIsAffordable'
  BY <1>1, <1>4, <1>5, <1>6, <1>7 DEF TypeOK, CurrentIsAffordable
<1> QED BY <1>8, <1>9, <1>10, <1>11

\* A password that opens an account yields the key of its address.
LEMMA SignedKey ==
  ASSUME IInv, NEW r \in Requests, SignDigest(r)
  PROVE  /\ accounts[order[r].sender] # Absent
         /\ Unlock(accounts[order[r].sender], order[r].pw) = order[r].sender
         /\ tx' = [tx EXCEPT ![r].sig = order[r].sender]
<1> DEFINE k == order[r].sender
<1>1. k \in Keys
  BY DEF IInv, Stages, SignDigest, OrderType
<1>2. PICK a \in Reads(k) :
        /\ a # Absent
        /\ Unlock(a, order[r].pw) # NoKey
        /\ tx' = [tx EXCEPT ![r].sig = Unlock(a, order[r].pw)]
  BY DEF SignDigest
<1>3. a = accounts[k]
  BY <1>2 DEF Reads
<1>4. PICK p \in MaybePassword : a = Sealed(k, p)
  BY <1>1, <1>2, <1>3 DEF IInv, TypeOK
<1>5. Unlock(a, order[r].pw) = k
  BY <1>1, <1>2, <1>4, SealedOpensToKey
<1> QED BY <1>2, <1>3, <1>5

LEMMA SignKeeps ==
  ASSUME IInv, NEW r \in Requests, SignDigest(r)
  PROVE  IInv'
<1> DEFINE t == [tx[r] EXCEPT !.sig = order[r].sender]
<1>1. tx[r] \in TxType /\ tx[r] # NoTx /\ order[r].sender \in Keys
  BY DEF IInv, TypeOK, Stages, SignDigest, OrderType, Drafted
<1>2. tx' = [tx EXCEPT ![r] = t]
  BY SignedKey
<1>3. /\ t \in TxType /\ t.sig \in Keys /\ t.sender = tx[r].sender
      /\ t.asset = tx[r].asset /\ t.nonce = tx[r].nonce /\ t.amount = tx[r].amount
  BY <1>1 DEF TxType
<1>4. t # NoTx
  BY <1>3, RequestConstants
<1>5. Purse(t) = Purse(tx[r])
  BY <1>3 DEF Purse
<1> HIDE DEF t
<1> USE DEF IInv, SignDigest, Goto, chain
<1>6. TypeOK'
  BY <1>2, <1>3 DEF TypeOK, Working
<1>7. Stages'
  BY <1>1, <1>2, <1>3, <1>4 DEF TypeOK, Stages, Drafted, Handed
<1>8. NoncesPass'
  BY <1>1, <1>2, <1>3, <1>5 DEF TypeOK, NoncesPass
<1>9. CurrentIsAffordable'
  BY <1>1, <1>2, <1>3, <1>5 DEF TypeOK, CurrentIsAffordable
<1> QED BY <1>6, <1>7, <1>8, <1>9

LEMMA BroadcastKeeps ==
  ASSUME IInv, NEW r \in Requests, BroadcastTx(r)
  PROVE  IInv'
<1> USE DEF IInv, BroadcastTx, Goto
<1>1. TypeOK'
  BY DEF TypeOK, Working
<1>2. Stages'
  BY DEF TypeOK, Stages, Drafted, Handed
<1>3. NoncesPass' /\ CurrentIsAffordable'
  BY DEF NoncesPass, CurrentIsAffordable, Purse
<1> QED BY <1>1, <1>2, <1>3

LEMMA AnswerKeeps ==
  ASSUME IInv, NEW r \in Requests, BroadcastReturns(r) \/ Fails(r)
  PROVE  IInv'
<1> USE DEF IInv, chain
<1>1. PICK step \in {"ok", "failed"} : Goto(r, step) /\ (step = "ok" => pc[r] = "sent")
  BY DEF BroadcastReturns, Fails
<1>2. UNCHANGED <<accounts, order, tx, chain>>
  BY DEF BroadcastReturns, Fails
<1>3. pc[r] \in Working
  BY DEF BroadcastReturns, Fails, Working
<1>4. TypeOK'
  BY <1>1, <1>2 DEF TypeOK, Goto
<1>5. Stages'
  BY <1>1, <1>2, <1>3 DEF TypeOK, Stages, Drafted, Handed, Goto, Working
<1>6. NoncesPass' /\ CurrentIsAffordable'
  BY <1>2 DEF NoncesPass, CurrentIsAffordable, Purse
<1> QED BY <1>4, <1>5, <1>6

-----------------------------------------------------------------------------
(***************************************************************************)
(* The steps of the chain and of other clients                             *)
(***************************************************************************)

\* The purse of a transaction is one of those the chain keeps.
LEMMA PurseType ==
  ASSUME IInv, NEW r \in Requests, tx[r] # NoTx
  PROVE  /\ tx[r] \in TxType
         /\ Purse(tx[r]) \in Purses
         /\ nonce[Purse(tx[r])] \in Nat
         /\ balance[Purse(tx[r])] \in Nat
<1>1. tx[r] \in TxType
  BY DEF IInv, TypeOK
<1>2. Purse(tx[r]) \in Purses
  BY <1>1 DEF Purse, Purses, TxType
<1> QED BY <1>1, <1>2 DEF IInv, TypeOK

\* Whatever spends raises the nonce, and a nonce once passed never comes back:
\* transactions drafted with it are no longer current.
LEMMA SpendingKeeps ==
  ASSUME IInv, NEW p \in Purses, NEW b \in Nat,
         nonce' = [nonce EXCEPT ![p] = @ + 1],
         balance' = [balance EXCEPT ![p] = b],
         UNCHANGED <<order, tx>>
  PROVE  NoncesPass' /\ CurrentIsAffordable'
<1> SUFFICES ASSUME NEW r \in Requests, tx[r] # NoTx, order[r].asset = HomeChain
             PROVE  /\ tx[r].nonce <= nonce'[Purse(tx[r])]
                    /\ tx[r].nonce = nonce'[Purse(tx[r])]
                         => tx[r].amount <= balance'[Purse(tx[r])]
  BY DEF NoncesPass, CurrentIsAffordable, Purse
<1>1. /\ Purse(tx[r]) \in Purses
      /\ nonce[Purse(tx[r])] \in Nat
      /\ tx[r].nonce \in Nat
  BY PurseType DEF TxType
<1>2. tx[r].nonce <= nonce[Purse(tx[r])]
  BY DEF IInv, NoncesPass
<1>3. tx[r].nonce = nonce[Purse(tx[r])] => tx[r].amount <= balance[Purse(tx[r])]
  BY DEF IInv, CurrentIsAffordable
<1>4. CASE Purse(tx[r]) = p
  BY <1>1, <1>2, <1>4 DEF IInv, TypeOK
<1>5. CASE Purse(tx[r]) # p
  BY <1>1, <1>2, <1>3, <1>5 DEF IInv, TypeOK
<1> QED BY <1>4, <1>5

LEMMA JudgeKeeps ==
  ASSUME IInv, NEW r \in Requests, NEW v \in {"accepted", "rejected"}, Judge(r, v),
         v = "accepted" => tx[r] \in ledger', ledger \subseteq ledger'
  PROVE  Stages'
BY DEF IInv, TypeOK, Judge, Stages, Handed, request

LEMMA NodeAcceptsKeeps ==
  ASSUME IInv, NEW r \in Requests, NodeAccepts(r)
  PROVE  IInv'
<1> USE DEF NodeAccepts, Judge, request
<1> DEFINE p == Purse(tx[r])
           b == balance[p] - tx[r].amount
<1>1. tx[r] # NoTx
  BY DEF IInv, Stages, Handed
<1>2. tx[r] \in TxType /\ p \in Purses /\ nonce[p] \in Nat /\ balance[p] \in Nat
  BY <1>1, PurseType
<1>3. b \in Nat
  BY <1>2 DEF TxType
<1>4. balance' = [balance EXCEPT ![p] = b]
  OBVIOUS
<1> HIDE DEF b
<1>5. TypeOK'
  BY <1>2, <1>3, <1>4 DEF IInv, TypeOK
<1>6. Stages'
  BY JudgeKeeps
<1>7. NoncesPass' /\ CurrentIsAffordable'
  BY <1>2, <1>3, <1>4, SpendingKeeps
<1> QED BY <1>5, <1>6, <1>7 DEF IInv

LEMMA OtherVerdictsKeep ==
  ASSUME IInv, NEW r \in Requests, NodeKnows(r) \/ NodeRejects(r)
  PROVE  IInv'
<1>1. Stages'
  BY JudgeKeeps DEF NodeKnows, NodeRejects
<1>2. TypeOK' /\ NoncesPass' /\ CurrentIsAffordable'
  BY DEF IInv, NodeKnows, NodeRejects, Judge, request, TypeOK, NoncesPass,
         CurrentIsAffordable, Purse
<1> QED BY <1>1, <1>2 DEF IInv

LEMMA PursesChangeKeeps ==
  ASSUME IInv, NEW p \in Purses, OtherTransaction(p) \/ Deposit(p)
  PROVE  IInv'
<1> USE DEF request
<1>1. PICK b \in Nat : balance' = [balance EXCEPT ![p] = b] /\ (Deposit(p) => b > balance[p])
  BY RequestConstants DEF OtherTransaction, Deposit
<1>2. TypeOK'
  BY <1>1 DEF IInv, TypeOK, OtherTransaction, Deposit
<1>3. Stages'
  BY DEF IInv, Stages, OtherTransaction, Deposit, Handed
<1>4. CASE OtherTransaction(p)
  BY <1>1, <1>2, <1>3, <1>4, SpendingKeeps DEF IInv, OtherTransaction
<1>5. CASE Deposit(p)
  <2>1. NoncesPass'
    BY <1>5 DEF IInv, NoncesPass, Deposit, Purse
  <2>2. CurrentIsAffordable'
    <3> SUFFICES ASSUME NEW r \in Requests, tx[r] # NoTx, order[r].asset = HomeChain,
                        tx[r].nonce = nonce[Purse(tx[r])]
                 PROVE  tx[r].amount <= balance'[Purse(tx[r])]
      BY <1>5 DEF CurrentIsAffordable, Deposit, Purse
    <3>1. tx[r].amount <= balance[Purse(tx[r])] /\ tx[r].amount \in Nat
      BY PurseType DEF IInv, CurrentIsAffordable, TxType
    <3>2. balance'[Purse(tx[r])] >= balance[Purse(tx[r])]
      BY <1>1, <1>5, PurseType DEF IInv, TypeOK
    <3>3. balance[Purse(tx[r])] \in Nat /\ balance'[Purse(tx[r])] \in Nat
      BY <1>1, PurseType DEF IInv, TypeOK
    <3> QED BY <3>1, <3>2, <3>3
  <2> QED BY <1>2, <1>3, <2>1, <2>2 DEF IInv
<1> QED BY <1>4, <1>5

LEMMA AccountsChangeKeeps ==
  ASSUME IInv, NEW k \in Keys, OtherAccountRequest(k)
  PROVE  IInv'
<1> USE DEF IInv, OtherAccountRequest, request, chain
<1>1. TypeOK'
  BY DEF TypeOK
<1>2. Stages'
  BY DEF Stages, Handed
<1>3. NoncesPass' /\ CurrentIsAffordable'
  BY DEF NoncesPass, CurrentIsAffordable, Purse
<1> QED BY <1>1, <1>2, <1>3

LEMMA StutterKeeps == IInv /\ UNCHANGED vars => IInv'
BY DEF IInv, vars, request, chain, TypeOK, Stages, Handed, NoncesPass,
       CurrentIsAffordable, Purse

LEMMA NextKeeps == IInv /\ [Next]_vars => IInv'
<1> SUFFICES ASSUME IInv, [Next]_vars PROVE IInv'
  OBVIOUS
<1>1. ASSUME NEW r \in Requests, NEW o \in Orders, Request(r, o) PROVE IInv'
  BY <1>1, RequestKeeps
<1>2. ASSUME NEW r \in Requests, Serve(r) PROVE IInv'
  BY <1>2, ReadsKeep, MakeTxKeeps, SignKeeps, BroadcastKeeps, AnswerKeeps DEF Serve
<1>3. ASSUME NEW r \in Requests, NodeAccepts(r) \/ NodeKnows(r) \/ NodeRejects(r)
      PROVE  IInv'
  BY <1>3, NodeAcceptsKeeps, OtherVerdictsKeep
<1>4. ASSUME NEW p \in Purses, OtherTransaction(p) \/ Deposit(p) PROVE IInv'
  BY <1>4, PursesChangeKeeps
<1>5. ASSUME NEW k \in Keys, OtherAccountRequest(k) PROVE IInv'
  BY <1>5, AccountsChangeKeeps
<1>6. CASE UNCHANGED vars
  BY <1>6, StutterKeeps
<1> QED BY <1>1, <1>2, <1>3, <1>4, <1>5, <1>6 DEF Next

\* The invariant holds in every reachable state.
THEOREM Invariant == Spec => []IInv
BY InitIInv, NextKeeps, PTL DEF Spec

\* Type correctness.
THEOREM TypeCorrect == Spec => []TypeOK
BY Invariant, PTL DEF IInv

\* What the balance check of makeCoinData established stays true of every
\* transaction that can still be accepted.
THEOREM Affordable == Spec => []CurrentIsAffordable
BY Invariant, PTL DEF IInv

-----------------------------------------------------------------------------
(***************************************************************************)
(* Signatures                                                              *)
(***************************************************************************)

\* Only two steps change a transaction: making it, and signing it.
LEMMA TxChanges ==
  ASSUME IInv, [Next]_vars, NEW r \in Requests, tx[r] # NoTx, tx'[r] # tx[r]
  PROVE  SignDigest(r)
<1> USE DEF IInv, Stages, Drafted
<1>1. PICK q \in Requests : MakeTx(q) \/ SignDigest(q)
  BY DEF Next, Serve, vars, request, chain, Request, GetArgsTypes, Validate,
         ImputedContractCreateGas, BroadcastTx, BroadcastReturns, Fails, NodeAccepts,
         NodeKnows, NodeRejects, Judge, OtherTransaction, Deposit, OtherAccountRequest
<1>2. q = r
  BY <1>1 DEF MakeTx, SignDigest, TypeOK
<1>3. ~MakeTx(r)
  BY DEF MakeTx
<1> QED BY <1>1, <1>2, <1>3

\* A password that does not open the account signs nothing, however often the
\* account changes while the request is under way.
THEOREM SignaturesOwned == Spec => SignedByOwner
<1>1. IInv /\ [Next]_vars => [SignsOnlyUnlocked]_vars
  <2> SUFFICES ASSUME IInv, [Next]_vars, NEW r \in Requests, tx[r] # NoTx, tx'[r] # tx[r]
               PROVE  /\ accounts[tx[r].sender] # Absent
                      /\ Unlock(accounts[tx[r].sender], order[r].pw) = tx'[r].sig
    BY DEF SignsOnlyUnlocked
  <2>1. SignDigest(r)
    BY TxChanges
  <2>2. tx[r].sender = order[r].sender /\ tx[r] \in TxType
    BY DEF IInv, Stages, TypeOK
  <2>3. /\ accounts[order[r].sender] # Absent
        /\ Unlock(accounts[order[r].sender], order[r].pw) = order[r].sender
        /\ tx' = [tx EXCEPT ![r].sig = order[r].sender]
    BY <2>1, SignedKey
  <2>4. tx'[r].sig = order[r].sender
    BY <2>2, <2>3 DEF IInv, TypeOK, TxType
  <2> QED BY <2>2, <2>3, <2>4
<1> QED BY <1>1, Invariant, PTL DEF Spec, SignedByOwner

-----------------------------------------------------------------------------
(***************************************************************************)
(* The promise to clients.  A transaction counts as handed over from the   *)
(* broadcast on; the answer is the request's last step.                    *)
(***************************************************************************)
LEMMA InitPromise == Init => Promise!SubInit
BY DEF Init, Promise!SubInit, handed, told, Handed

\* A step that neither broadcasts nor answers nor accepts changes nothing.
LEMMA Unnoticed ==
  ASSUME UNCHANGED <<wire, verdict, ledger>>,
         \A r \in Requests : r \in Handed => tx'[r] = tx[r],
         \A r \in Requests : pc'[r] # pc[r] => {pc[r], pc'[r]} \cap {"ok", "failed"} = {}
  PROVE  UNCHANGED <<ledger, handed, told>>
<1>1. handed' = handed
  BY DEF handed, Handed
<1>2. told' = told
  BY DEF told
<1> QED BY <1>1, <1>2

\* An answer, early or late, is one Tell; "ok" follows a verdict of acceptance.
LEMMA AnswerTells ==
  ASSUME IInv, NEW r \in Requests, NEW step \in {"ok", "failed"},
         pc[r] \in Working \union {"idle"}, Goto(r, step),
         step = "ok" => r \in Handed /\ tx[r] \in ledger,
         UNCHANGED <<tx, chain>>
  PROVE  Promise!Tell(r, step)
<1>1. told[r] = "nothing"
  BY DEF told, Working
<1>2. step = "ok" => handed[r] \in ledger
  BY DEF handed
<1>3. told' = [told EXCEPT ![r] = step]
  BY DEF told, Goto, IInv, TypeOK
<1>4. handed' = handed /\ ledger' = ledger
  BY DEF handed, Handed, chain
<1> QED BY <1>1, <1>2, <1>3, <1>4 DEF Promise!Tell

LEMMA RequestPromise ==
  ASSUME IInv, NEW r \in Requests, NEW o \in Orders, Request(r, o)
  PROVE  [Promise!SubNext]_<<ledger, handed, told>>
<1> USE DEF Request
<1>1. PICK step \in {"args", "validate", "failed"} : Goto(r, step)
  OBVIOUS
<1>2. CASE step = "failed"
  BY <1>1, <1>2, AnswerTells DEF Promise!SubNext
<1>3. CASE step # "failed"
  BY <1>1, <1>3, Unnoticed DEF Goto, chain, IInv, TypeOK
<1> QED BY <1>2, <1>3

LEMMA ServePromise ==
  ASSUME IInv, NEW r \in Requests, Serve(r)
  PROVE  [Promise!SubNext]_<<ledger, handed, told>>
<1> USE DEF IInv, Goto
<1>1. CASE GetArgsTypes(r) \/ Validate(r) \/ ImputedContractCreateGas(r)
  BY <1>1, Unnoticed DEF GetArgsTypes, Validate, ImputedContractCreateGas, chain, TypeOK
<1>2. CASE MakeTx(r)
  BY <1>2, Unnoticed DEF MakeTx, chain, TypeOK, Stages
<1>3. CASE SignDigest(r)
  BY <1>3, Unnoticed DEF SignDigest, chain, TypeOK, Stages
<1>4. CASE BroadcastTx(r)
  <2>1. r \notin Handed /\ tx[r] \in TxType
    BY <1>4 DEF BroadcastTx, Stages, Drafted, TypeOK
  <2>2. told[r] = "nothing" /\ handed[r] = NoTx
    BY <1>4, <2>1 DEF BroadcastTx, told, handed
  <2>3. handed' = [handed EXCEPT ![r] = tx[r]]
    BY <1>4, <2>1 DEF BroadcastTx, handed, Handed
  <2>4. told' = told /\ ledger' = ledger
    BY <1>4 DEF BroadcastTx, told, TypeOK
  <2>5. handed'[r] = tx[r]
    BY <2>3 DEF handed
  <2>6. Promise!HandOver(r)
    BY <2>1, <2>2, <2>3, <2>4, <2>5 DEF Promise!HandOver
  <2> QED BY <2>6 DEF Promise!SubNext
<1>5. CASE BroadcastReturns(r)
  <2>1. r \in Handed /\ (verdict[r] = "accepted" => tx[r] \in ledger) /\ pc[r] \in Working
    BY <1>5 DEF BroadcastReturns, Handed, Stages, Working
  <2>2. PICK step \in {"ok", "failed"} :
          Goto(r, step) /\ (step = "ok" => verdict[r] = "accepted")
    BY <1>5 DEF BroadcastReturns
  <2> QED BY <1>5, <2>1, <2>2, AnswerTells DEF BroadcastReturns, Promise!SubNext
<1>6. CASE Fails(r)
  BY <1>6, AnswerTells DEF Fails, Promise!SubNext
<1> QED BY <1>1, <1>2, <1>3, <1>4, <1>5, <1>6 DEF Serve

LEMMA NodePromise ==
  ASSUME IInv, NEW r \in Requests, NodeAccepts(r) \/ NodeKnows(r) \/ NodeRejects(r)
  PROVE  [Promise!SubNext]_<<ledger, handed, told>>
<1>1. PICK v \in {"accepted", "rejected"} : Judge(r, v)
  BY DEF NodeAccepts, NodeKnows, NodeRejects
<1>2. Handed' = Handed
  BY <1>1 DEF Judge, Handed, IInv, TypeOK
<1>3. handed' = handed /\ told' = told
  BY <1>1, <1>2 DEF Judge, request, handed, told
<1>4. CASE NodeAccepts(r)
  <2>1. handed[r] = tx[r] /\ tx[r] # NoTx
    BY <1>4 DEF NodeAccepts, Judge, handed, Handed, IInv, Stages
  <2>2. Promise!Accept(r)
    BY <1>3, <1>4, <2>1 DEF NodeAccepts, Promise!Accept
  <2> QED BY <2>2 DEF Promise!SubNext
<1>5. CASE ~NodeAccepts(r)
  BY <1>3, <1>5 DEF NodeKnows, NodeRejects
<1> QED BY <1>4, <1>5

LEMMA StepPromise ==
  ASSUME IInv, [Next]_vars
  PROVE  [Promise!SubNext]_<<ledger, handed, told>>
<1>1. CASE \E p \in Purses : OtherTransaction(p) \/ Deposit(p)
  BY <1>1, Unnoticed DEF OtherTransaction, Deposit, request
<1>2. CASE \E k \in Keys : OtherAccountRequest(k)
  BY <1>2, Unnoticed DEF OtherAccountRequest, request, chain
<1>3. CASE UNCHANGED vars
  BY <1>3, Unnoticed DEF vars, request, chain
<1> QED BY <1>1, <1>2, <1>3, RequestPromise, ServePromise, NodePromise DEF Next

\* Clients are told the truth about their transactions, whatever fails:
\* the service implements Submissions.
THEOREM ServiceKeepsPromise == Spec => ImplementsSubmissions
<1>1. IInv /\ [Next]_vars => [Promise!SubNext]_<<ledger, handed, told>>
  BY StepPromise
<1> QED BY <1>1, InitPromise, Invariant, PTL
        DEF Spec, ImplementsSubmissions, Promise!SubSpec, Promise!subVars

-----------------------------------------------------------------------------
(***************************************************************************)
(* Costs, whatever gas and price are asked for.                            *)
(***************************************************************************)
\* The amount is what makeCoinData has computed, of numbers that are not negative.
AmountOf(t) == Mul(t.gas, t.price) + t.value + Fee(t.remark, t.data, t.value)

AsComputed(t) == t.amount = AmountOf(t) /\ t.gas \in Nat /\ t.price \in Nat

CostInv ==
  /\ \A r \in Requests :
       pc[r] \in {"args", "validate", "gas", "balance"} => Parameters(order[r])
  /\ \A r \in Requests : tx[r] # NoTx => AsComputed(tx[r])

\* The transaction of an order whose parameters were checked (makeCoinData).
LEMMA TotalComputed ==
  ASSUME NEW o \in OrderType, Parameters(o), NEW r, NEW n, NEW time
  PROVE  AsComputed(TxOf(r, o, n, time))
<1>1. Cost(o).gas \in Nat /\ Cost(o).price \in Nat
  BY DEF Cost, OrderType, Parameters
<1>2. Total(o) = Mul(Cost(o).gas, Cost(o).price) + Cost(o).value
                   + Fee(o.remark, o.data, Cost(o).value)
  BY DEF Total, TotalValue
<1> QED BY <1>1, <1>2 DEF TxOf, AsComputed, AmountOf

LEMMA CostStep ==
  ASSUME IInv, CostInv, [Next]_vars
  PROVE  CostInv'
<1> USE DEF Goto, IInv, TypeOK, CostInv
<1>1. ASSUME NEW r \in Requests, NEW o \in Orders, Request(r, o) PROVE CostInv'
  <2>1. /\ order' = [order EXCEPT ![r] = o] /\ tx' = tx
        /\ pc' = [pc EXCEPT ![r] = pc'[r]]
        /\ pc'[r] \in {"args", "validate", "failed"}
        /\ pc'[r] # "failed" => Parameters(o)
    BY <1>1 DEF Request
  <2> QED BY <2>1
<1>2. ASSUME NEW r \in Requests, GetArgsTypes(r) \/ Validate(r) PROVE CostInv'
  BY <1>2 DEF GetArgsTypes, Validate
<1>3. ASSUME NEW r \in Requests, ImputedContractCreateGas(r) PROVE CostInv'
  <2>1. PICK g \in Gas : order' = [order EXCEPT ![r].gas = g]
    BY <1>3 DEF ImputedContractCreateGas
  <2>2. order[r] \in OrderType /\ Parameters(order[r]) /\ g \in Nat
    BY <1>3, RequestConstants DEF ImputedContractCreateGas, Stages
  <2> DEFINE o == [order[r] EXCEPT !.gas = g]
  <2>3. o.op = order[r].op /\ o.price = order[r].price /\ o.gas = g /\ o.value = order[r].value
    BY <2>2 DEF OrderType
  <2>4. Parameters(o)
    BY <2>2, <2>3 DEF Parameters
  <2>5. order' = [order EXCEPT ![r] = o]
    BY <2>1
  <2> HIDE DEF o
  <2> QED BY <1>3, <2>4, <2>5 DEF ImputedContractCreateGas
<1>4. ASSUME NEW r \in Requests, MakeTx(r) PROVE CostInv'
  <2>1. order[r] \in OrderType /\ Parameters(order[r])
    BY <1>4 DEF MakeTx, Stages
  <2>2. PICK n, time : tx' = [tx EXCEPT ![r] = TxOf(r, order[r], n, time)]
    BY <1>4 DEF MakeTx
  <2> DEFINE t == TxOf(r, order[r], n, time)
  <2>3. AsComputed(t)
    BY <2>1, TotalComputed
  <2> HIDE DEF t
  <2>4. tx' = [tx EXCEPT ![r] = t]
    BY <2>2 DEF t
  <2> QED BY <1>4, <2>3, <2>4 DEF MakeTx
<1>5. ASSUME NEW r \in Requests, SignDigest(r) PROVE CostInv'
  <2> DEFINE t == [tx[r] EXCEPT !.sig = order[r].sender]
  <2>1. tx' = [tx EXCEPT ![r] = t] /\ tx[r] \in TxType /\ tx[r] # NoTx
    BY <1>5, SignedKey DEF SignDigest, Stages, Drafted
  <2>2. /\ t.amount = tx[r].amount /\ t.gas = tx[r].gas /\ t.price = tx[r].price
        /\ t.value = tx[r].value /\ t.remark = tx[r].remark /\ t.data = tx[r].data
    BY <2>1 DEF TxType
  <2> HIDE DEF t
  <2>3. AsComputed(t)
    BY <2>1, <2>2 DEF AsComputed, AmountOf
  <2> QED BY <1>5, <2>1, <2>3 DEF SignDigest
<1>6. ASSUME NEW r \in Requests, BroadcastTx(r) \/ BroadcastReturns(r) \/ Fails(r)
      PROVE  CostInv'
  BY <1>6 DEF BroadcastTx, BroadcastReturns, Fails
<1>7. ASSUME UNCHANGED <<pc, order, tx>> PROVE CostInv'
  BY <1>7
<1> QED
  BY <1>1, <1>2, <1>3, <1>4, <1>5, <1>6, <1>7
  DEF Next, Serve, vars, request, NodeAccepts, NodeKnows, NodeRejects, Judge,
      OtherTransaction, Deposit, OtherAccountRequest

LEMMA CostInvariant == Spec => []CostInv
<1>1. Init => CostInv
  BY DEF Init, CostInv
<1>2. IInv /\ CostInv /\ [Next]_vars => CostInv'
  BY CostStep
<1> QED BY <1>1, <1>2, Invariant, PTL DEF Spec

\* A made transaction's amount, sizes and fee.
LEMMA MadeTx ==
  ASSUME TypeOK, CostInv, NEW r \in Requests, tx[r] # NoTx
  PROVE  LET t == tx[r] IN
         /\ t.gas \in Nat /\ t.price \in Nat /\ t.value \in Int /\ t.remark \in Nat
         /\ t.data \in Nat /\ Mul(t.gas, t.price) \in Int
         /\ Fee(t.remark, t.data, t.value) \in Nat
         /\ t.amount = Mul(t.gas, t.price) + t.value + Fee(t.remark, t.data, t.value)
<1>1. /\ tx[r].remark \in Nat /\ tx[r].data \in Nat /\ tx[r].value \in Int
      /\ tx[r].gas \in Nat /\ tx[r].price \in Nat
  BY DEF TypeOK, TxType, CostInv, AsComputed
<1>2. 0 \in 0 .. 72
  OBVIOUS
<1>3. Fee(tx[r].remark, tx[r].data, tx[r].value) \in Nat
  BY <1>1, <1>2, FeeCoversSize, Zenon
<1>4. Mul(tx[r].gas, tx[r].price) \in Int
  <2>1. tx[r].gas \in Int /\ tx[r].price \in Int
    BY <1>1
  <2> QED BY <2>1, MulType, Zenon
<1>5. tx[r].amount = Mul(tx[r].gas, tx[r].price) + tx[r].value
                       + Fee(tx[r].remark, tx[r].data, tx[r].value)
  BY DEF CostInv, AsComputed, AmountOf
<1> QED BY <1>1, <1>3, <1>4, <1>5, Zenon

\* The sender pays what the gas, the transfer and the bytes cost exactly when gas times
\* price fits in a long; for any other order 2^64 or more are missing.
THEOREM CostTaken == Spec => []TakesTotalCost
<1>1. TypeOK /\ CostInv => TakesTotalCost
  <2> SUFFICES ASSUME TypeOK, CostInv, NEW r \in Requests, tx[r] # NoTx
               PROVE  IF tx[r].gas * tx[r].price < Word THEN tx[r].amount = TotalCost(tx[r])
                      ELSE tx[r].amount <= TotalCost(tx[r]) - 2 * Word
    BY Zenon DEF TakesTotalCost
  <2> DEFINE g == tx[r].gas
             p == tx[r].price
             fee == Fee(tx[r].remark, tx[r].data, tx[r].value)
  <2>1. /\ g \in Nat /\ p \in Nat /\ tx[r].value \in Int /\ fee \in Nat
        /\ Mul(g, p) \in Int /\ tx[r].amount = Mul(g, p) + tx[r].value + fee
    BY MadeTx
  <2>2. TotalCost(tx[r]) = g * p + tx[r].value + fee
    BY DEF TotalCost
  <2> HIDE DEF fee
  <2>3. CASE g * p < Word
    <3>1. Mul(g, p) = g * p
      BY <2>1, <2>3, MulExact
    <3> QED BY <2>1, <2>2, <2>3, <3>1
  <2>4. CASE ~(g * p < Word)
    <3>1. Mul(g, p) <= g * p - 2 * Word /\ g * p \in Nat
      BY <2>1, <2>4, MulWraps
    <3>2. tx[r].amount <= TotalCost(tx[r]) - 2 * Word
      <4> HIDE DEF g, p
      <4> QED BY <2>1, <2>2, <3>1, WordAssumption
    <3> QED BY <2>4, <3>2
  <2> QED BY <2>3, <2>4
<1> QED BY <1>1, TypeCorrect, CostInvariant, PTL

\* The fee, computed of a transaction without data, coins and signature, is
\* enough for the one that is broadcast, however large it is.
THEOREM FeesSuffice == Spec => []FeeCoversSignedSize
<1>1. TypeOK /\ CostInv => FeeCoversSignedSize
  <2> SUFFICES ASSUME TypeOK, CostInv, NEW r \in Requests, tx[r] # NoTx,
                      NEW der \in 8 .. 72
               PROVE  tx[r].amount - Mul(tx[r].gas, tx[r].price) - tx[r].value
                        >= NormalTxFee(TxSize(tx[r].remark, tx[r].data,
                                              CoinDataSize(tx[r].value), SignatureSize(der)))
    BY DEF FeeCoversSignedSize
  <2> DEFINE fee == Fee(tx[r].remark, tx[r].data, tx[r].value)
             gas == Mul(tx[r].gas, tx[r].price)
  <2>1. /\ tx[r].amount = gas + tx[r].value + fee /\ gas \in Int /\ fee \in Nat
        /\ tx[r].remark \in Nat /\ tx[r].data \in Nat /\ tx[r].value \in Int
    BY MadeTx
  <2>2. der \in 0 .. 72
    OBVIOUS
  <2>3. fee >= NormalTxFee(TxSize(tx[r].remark, tx[r].data,
                                  CoinDataSize(tx[r].value), SignatureSize(der)))
    BY <2>1, <2>2, FeeCoversSize
  <2> HIDE DEF fee, gas
  <2>4. tx[r].amount - gas - tx[r].value = fee
    BY <2>1
  <2> QED BY <2>3, <2>4 DEF gas
<1> QED BY <1>1, TypeCorrect, CostInvariant, PTL
=============================================================================
