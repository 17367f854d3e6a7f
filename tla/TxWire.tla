------------------------------- MODULE TxWire -------------------------------
(***************************************************************************)
(* The bytes of an account and of a contract transaction.  An account is   *)
(* saved; a request makes its data and coins, serializes both, signs the   *)
(* hash with the key of the account as read back, and sends the            *)
(* transaction.  Whoever receives it has nothing but its bytes.            *)
(*                                                                         *)
(* One request is followed: what several do to each other is the matter of *)
(* ContractRequests, where byte strings are only their lengths.            *)
(***************************************************************************)
EXTENDS Wire

CONSTANTS
  Accounts,  \* accounts that are saved (AccountPo)
  Orders,    \* what is asked for, and the types the API module answers
  Ders       \* DER forms a signature may have

VARIABLES
  stage,     \* what has been done
  account,   \* the account that was saved
  row,       \* its bytes in the account table
  order, data, coins,  \* the request, its txDataObj and coinDataObj
  fee,       \* what the coins pay for the transaction
  tx,
  digest,    \* the bytes whose hash was signed
  wire       \* what was sent

vars == <<stage, account, row, order, data, coins, fee, tx, digest, wire>>

-----------------------------------------------------------------------------
(***************************************************************************)
(* The data classes                                                        *)
(***************************************************************************)
\* (First a slip: the private keys change places.)
AccountSealedFirst ==
  <<"chainId", "address", "alias", "createTime", "pubKey", "encryptedPriKey",
    "priKey", "extend", "remark">>

AccountWritten ==
  <<"chainId", "address", "alias", "createTime", "pubKey", "priKey",
    "encryptedPriKey", "extend", "remark">>

AccountPo ==
  [type |-> [chainId |-> "uint16", address |-> "string", alias |-> "string",
             createTime |-> "uint48", pubKey |-> "bytes", priKey |-> "bytes",
             encryptedPriKey |-> "bytes", extend |-> "bytes", remark |-> "string"],
   sized |-> <<"chainId", "address", "alias", "createTime", "pubKey", "priKey",
               "encryptedPriKey", "extend", "remark">>,
   written |-> AccountWritten,
   parsed |-> <<"chainId", "address", "alias", "createTime", "pubKey", "priKey",
                "encryptedPriKey", "extend", "remark">>]

CreateContractData ==
  [type |-> [sender |-> "address", contractAddress |-> "address", code |-> "bytes",
             alias |-> "string", gasLimit |-> "int64", price |-> "int64", args |-> "args"],
   sized |-> <<"sender", "contractAddress", "code", "alias", "gasLimit", "price", "args">>,
   written |-> <<"sender", "contractAddress", "code", "alias", "gasLimit", "price", "args">>,
   parsed |-> <<"sender", "contractAddress", "code", "alias", "gasLimit", "price", "args">>]

\* (First a slip: price and gas limit change places.)
CallPriceFirst ==
  <<"sender", "contractAddress", "value", "price", "gasLimit",
    "methodName", "methodDesc", "args">>

CallWritten ==
  <<"sender", "contractAddress", "value", "gasLimit", "price",
    "methodName", "methodDesc", "args">>

CallContractData ==
  [type |-> [sender |-> "address", contractAddress |-> "address", value |-> "BigInteger",
             gasLimit |-> "int64", price |-> "int64",
             methodName |-> "string", methodDesc |-> "string", args |-> "args"],
   sized |-> <<"sender", "contractAddress", "value", "gasLimit", "price",
               "methodName", "methodDesc", "args">>,
   written |-> CallWritten,
   parsed |-> <<"sender", "contractAddress", "value", "gasLimit", "price",
                "methodName", "methodDesc", "args">>]

DeleteContractData ==
  [type |-> [sender |-> "address", contractAddress |-> "address"],
   sized |-> <<"sender", "contractAddress">>,
   written |-> <<"sender", "contractAddress">>,
   parsed |-> <<"sender", "contractAddress">>]

\* newInstance
TxData ==
  [create |-> CreateContractData, call |-> CallContractData, delete |-> DeleteContractData]

CoinFrom ==
  [type |-> [address |-> "bytes", assetsChainId |-> "uint16", assetsId |-> "uint16",
             amount |-> "BigInteger", nonce |-> "bytes", locked |-> "byte"],
   sized |-> <<"address", "assetsChainId", "assetsId", "amount", "nonce", "locked">>,
   written |-> <<"address", "assetsChainId", "assetsId", "amount", "nonce", "locked">>,
   parsed |-> <<"address", "assetsChainId", "assetsId", "amount", "nonce", "locked">>]

\* (First a slip: the ids change places.)
ToAssetFirst == <<"address", "assetsId", "assetsChainId", "amount", "lockTime">>
ToWritten == <<"address", "assetsChainId", "assetsId", "amount", "lockTime">>

CoinTo ==
  [type |-> [address |-> "bytes", assetsChainId |-> "uint16", assetsId |-> "uint16",
             amount |-> "BigInteger", lockTime |-> "int64"],
   sized |-> <<"address", "assetsChainId", "assetsId", "amount", "lockTime">>,
   written |-> ToWritten,
   parsed |-> <<"address", "assetsChainId", "assetsId", "amount", "lockTime">>]

CoinsSize(c) ==
  VarIntSize(Len(c.from)) + SumOf([i \in DOMAIN c.from |-> Size(CoinFrom, c.from[i])])
    + VarIntSize(Len(c.to)) + SumOf([i \in DOMAIN c.to |-> Size(CoinTo, c.to[i])])

CoinsWrite(c) ==
  VarInt(Len(c.from)) \o Joined([i \in DOMAIN c.from |-> Serialize(CoinFrom, c.from[i])])
    \o VarInt(Len(c.to)) \o Joined([i \in DOMAIN c.to |-> Serialize(CoinTo, c.to[i])])

ReadCoins(class, in, at) ==
  Then(ReadVarInt(in, at),
       LAMBDA n, p : InTurn([i \in 1..n |-> [q \in Nat |-> ReadNulsData(class, in, q)]], p))

CoinsParse(in) ==
  Then(ReadCoins(CoinFrom, in, 0),
       LAMBDA from, p : Then(ReadCoins(CoinTo, in, p),
                             LAMBDA to, q : Got([from |-> from, to |-> to], q)))

\* (First a slip: the signature is written before the key.)
SignDataFirst == <<"signData", "publicKey">>
SignatureWritten == <<"publicKey", "signData">>

P2PHKSignature ==
  [type |-> [publicKey |-> "key", signData |-> "bytes"],
   sized |-> <<"publicKey", "signData">>,
   written |-> SignatureWritten,
   parsed |-> <<"publicKey", "signData">>]

\* TransactionSignature: signatures until the bytes are finished.
SignaturesSize(sigs) == SumOf([i \in DOMAIN sigs |-> Size(P2PHKSignature, sigs[i])])

SignaturesWrite(sigs) ==
  Joined([i \in DOMAIN sigs |-> Serialize(P2PHKSignature, sigs[i])])

\* As long as bytes are left; a signature takes at least two of them.
SignaturesParse(in) ==
  LET upTo[k \in 0..Len(in) \div 2] ==
        IF k = 0 THEN Got(<<>>, 0)
        ELSE Then(upTo[k - 1],
                  LAMBDA sigs, p :
                    IF p = Len(in) THEN Got(sigs, p)
                    ELSE Then(ReadNulsData(P2PHKSignature, in, p),
                              LAMBDA sig, q : Got(Append(sigs, sig), q)))
  IN upTo[Len(in) \div 2]

Transaction ==
  [type |-> [type |-> "uint16", time |-> "uint32", remark |-> "bytes", txData |-> "bytes",
             coinData |-> "bytes", transactionSignature |-> "bytes"],
   sized |-> <<"type", "time", "remark", "txData", "coinData", "transactionSignature">>,
   written |-> <<"type", "time", "remark", "txData", "coinData", "transactionSignature">>,
   parsed |-> <<"type", "time", "remark", "txData", "coinData", "transactionSignature">>]

\* (First a slip: the signature belongs to what is hashed.)
HashSigned == Transaction.written
HashWritten == <<"type", "time", "remark", "txData", "coinData">>

SerializeForHash(t) == Write([Transaction EXCEPT !.written = HashWritten], t)

-----------------------------------------------------------------------------
(***************************************************************************)
(* What a request becomes                                                  *)
(***************************************************************************)
\* An argument is Null, [text |-> a string] (a number, too, is its text) or
\* [list |-> texts].  An empty one is no value, unless it is a String's; its
\* type is looked up only then, and may be missing.
IsText(arg) == arg # Null /\ "text" \in DOMAIN arg
AsksForType(arg, types) == IsText(arg) /\ types # Null /\ IsBlank(arg.text)

Convertible(args, types) ==
  args # Null =>
    \A i \in DOMAIN args : AsksForType(args[i], types) => i \in DOMAIN types

Convert(args, types) ==
  IF args = Null THEN Null
  ELSE [i \in DOMAIN args |->
          IF args[i] = Null \/ (AsksForType(args[i], types) /\ types[i] # "String")
          THEN <<>>
          ELSE IF IsText(args[i]) THEN <<args[i].text>> ELSE args[i].list]

\* getCreateContractData, getCallContractData, getDeleteContractData
DataOf(o) ==
  CASE o.op = "create" ->
         [sender |-> o.sender, contractAddress |-> o.contract, code |-> o.code,
          alias |-> o.alias, gasLimit |-> o.gas, price |-> o.price,
          args |-> Convert(o.args, o.types)]
    [] o.op = "call" ->
         [sender |-> o.sender, contractAddress |-> o.contract, value |-> o.value,
          gasLimit |-> o.gas, price |-> o.price, methodName |-> o.methodName,
          methodDesc |-> o.methodDesc, args |-> Convert(o.args, o.types)]
    [] o.op = "delete" -> [sender |-> o.sender, contractAddress |-> o.contract]

\* CoinData.addTo takes an address for that of a script if its FIRST byte, the
\* lower one of the chain id, is P2SH_ADDRESS_TYPE; createOutputScript then
\* looks at the third, the type.
Script(address) ==
  IF address[3] = 3 THEN <<169, 23>> \o address \o <<135>>
  ELSE <<118, 169, 23>> \o address \o <<136, 172>>

AddTo(address) == IF address[1] = 3 THEN Script(address) ELSE address

\* makeCoinData, with the fee it computes.
Gas(o) == IF o.op = "delete" THEN 0 ELSE Mul(o.gas, o.price)
Value(o) == IF o.op = "call" THEN o.value ELSE 0

CoinsOf(o, amount) ==
  [from |-> <<[address |-> o.sender, assetsChainId |-> o.chainId, assetsId |-> o.assetId,
               amount |-> amount, nonce |-> o.nonce, locked |-> 0]>>,
   to |-> IF Value(o) > 0
          THEN <<[address |-> AddTo(o.contract), assetsChainId |-> o.chainId,
                  assetsId |-> o.assetId, amount |-> Value(o), lockTime |-> 0]>>
          ELSE <<>>]

\* (First a slip: the data are not paid for.)
FeeWithoutData(t, o) ==
  NormalUnsignedTxFee(Size(Transaction, t) + CalcSize(CoinsSize(CoinsOf(o, 0))))

FeeOf(t, o) ==
  NormalUnsignedTxFee(Size(Transaction, t) + CalcSize(Size(TxData[o.op], DataOf(o)))
                                           + CalcSize(CoinsSize(CoinsOf(o, 0))))

TypeOf == [create |-> 15, call |-> 16, delete |-> 17]

NewTx(o) ==
  [type |-> TypeOf[o.op], time |-> o.time, remark |-> IF IsBlank(o.remark) THEN Null ELSE o.remark,
   txData |-> Null, coinData |-> Null, transactionSignature |-> Null]

-----------------------------------------------------------------------------
(***************************************************************************)
(* What may be asked for: what passes the checks of the parameters and of  *)
(* the API module, and fits in memory.                                     *)
(***************************************************************************)
\* Keys are compressed: 33 bytes.
AccountFits(a) ==
  /\ FieldsFit(AccountPo, a)
  /\ ~BlankText(a.address) /\ ~BlankText(a.alias) /\ ~BlankText(a.remark)
  /\ a.pubKey # Null /\ Len(a.pubKey) = 33

\* An address begins with its chain id; gas times price fits in a long, and what is
\* taken from the sender is part of a balance.
OrderFits(o) ==
  /\ o.op \in {"create", "call", "delete"}
  /\ Convertible(o.args, o.types) \/ o.op = "delete" =>
       /\ FieldsFit(TxData[o.op], DataOf(o))
       /\ IsInt(Size(TxData[o.op], DataOf(o)))
       /\ Fits("BigInteger", Gas(o) + Value(o) + FeeOf(NewTx(o), o))
  /\ o.op = "call" => ~IsBlank(o.methodName)
  /\ Fits("uint16", o.chainId) /\ Fits("uint16", o.assetId) /\ Fits("uint32", o.time)
  /\ o.contract[1] = o.chainId % 256
  /\ o.nonce \in Seq(Byte) /\ Len(o.nonce) = 8
  /\ o.remark = Null \/ IsArray(o.remark)
  /\ o.gas \in Nat /\ o.price \in Nat /\ o.gas * o.price < Word

ASSUME InputsAssumption ==
  /\ \A a \in Accounts : AccountFits(a)
  /\ Null \notin Orders /\ \A o \in Orders : OrderFits(o)
  /\ \A der \in Ders : der \in Seq(Byte) /\ Len(der) \in 1..72

-----------------------------------------------------------------------------
(***************************************************************************)
(* The steps                                                               *)
(***************************************************************************)
\* AccountStorageServiceImpl.saveAccount; what throws is an error answer.
SaveAccount(a) ==
  /\ stage = "start"
  /\ account' = a
  /\ row' = Serialize(AccountPo, a)
  /\ stage' = IF row' = Null THEN "failed" ELSE "saved"
  /\ UNCHANGED <<order, data, coins, fee, tx, digest, wire>>

\* The first half of createContract, callContract and deleteContract.
MakeTx(o) ==
  /\ stage = "saved"
  /\ order' = o
  /\ IF o.op # "delete" /\ ~Convertible(o.args, o.types)
     THEN /\ stage' = "failed"
          /\ UNCHANGED <<data, coins, fee, tx>>
     ELSE /\ tx' = NewTx(o)
          /\ data' = DataOf(o)
          /\ fee' = FeeOf(tx', o)
          /\ coins' = CoinsOf(o, Gas(o) + Value(o) + fee')
          /\ stage' = "made"
  /\ UNCHANGED <<account, row, digest, wire>>

\* ContractBaseTransaction.serializeData
SerializeData ==
  /\ stage = "made"
  /\ tx' = [tx EXCEPT !.coinData = Serialized(CoinsSize(coins), CoinsWrite(coins)),
                      !.txData = Serialize(TxData[order.op], data)]
  /\ stage' = IF Null \in {tx'.coinData, tx'.txData} THEN "failed" ELSE "serialized"
  /\ UNCHANGED <<account, row, order, data, coins, fee, digest, wire>>

\* signDigest, with the key of the account as it is read from its row.
SignDigest(der) ==
  /\ stage = "serialized"
  /\ digest' = SerializeForHash(tx)
  /\ LET sigs == <<[publicKey |-> Parse(AccountPo, row, 0).val.pubKey, signData |-> der]>>
     IN tx' = [tx EXCEPT !.transactionSignature =
                            Serialized(SignaturesSize(sigs), SignaturesWrite(sigs))]
  /\ stage' = "signed"
  /\ UNCHANGED <<account, row, order, data, coins, fee, wire>>

\* What broadcastTx is given.
Send ==
  /\ stage = "signed"
  /\ wire' = Serialize(Transaction, tx)
  /\ stage' = IF wire' = Null THEN "failed" ELSE "sent"
  /\ UNCHANGED <<account, row, order, data, coins, fee, tx, digest>>

Init ==
  /\ stage = "start"
  /\ account = Null /\ row = Null
  /\ order = Null /\ data = Null /\ coins = Null /\ fee = 0
  /\ tx = Null /\ digest = Null /\ wire = Null

Next ==
  \/ \E a \in Accounts : SaveAccount(a)
  \/ \E o \in Orders : MakeTx(o)
  \/ SerializeData
  \/ \E der \in Ders : SignDigest(der)
  \/ Send

Spec == Init /\ [][Next]_vars

-----------------------------------------------------------------------------
(***************************************************************************)
(* Properties                                                              *)
(***************************************************************************)
\* An account is read from the table as it was saved, with or without a
\* password, alias or remark.  (AccountPo: serializeToStream and parse)
RowReadsBack ==
  stage \notin {"start", "failed"} =>
    Parse(AccountPo, row, 0) = Got(Reproduced(AccountPo, account), Len(row))

\* A text of the request that consists of blanks.
HasBlankText(o) ==
  CASE o.op = "create" -> BlankText(o.alias) \/ BlankValue(Convert(o.args, o.types))
    [] o.op = "call" -> BlankText(o.methodDesc) \/ BlankValue(Convert(o.args, o.types))
    [] o.op = "delete" -> FALSE

\* Nothing but a text of blanks, or an empty argument that has no type, keeps a
\* request from being serialized: of everything else size() tells the length it
\* gets.  (BaseNulsData.serialize, "bytes.length != size")
FailsOnlyForBlanks ==
  /\ stage = "failed" =>
       order # Null /\ (Convertible(order.args, order.types) => HasBlankText(order))
  /\ stage \in {"serialized", "signed", "sent"} => ~HasBlankText(order)

Received == Parse(Transaction, wire, 0).val

\* Who receives the transaction computes the hash that was signed.
\* (Transaction.serializeForHash, parse)
HashReproduced == stage = "sent" => SerializeForHash(Received) = digest

\* Its data are what was asked for if, and only if, a byte can count the
\* arguments and the values of each.  (serializeToStream and parse of
\* CreateContractData, CallContractData, DeleteContractData)
DataDelivered ==
  stage = "sent" =>
    LET got == Parse(TxData[order.op], Received.txData, 0)
    IN (got.ok /\ got.val = Reproduced(TxData[order.op], data))
         <=> (order.op # "delete" => Countable(data.args))

\* Its coins take the amount from the sender and carry the nonce, and value goes to
\* the contract if, and only if, the lower byte of the chain id is not 3; else it
\* goes to a script.  (CoinData, CoinFrom, CoinTo; makeCoinData, CoinData.addTo;
\* "funds the caller transfers into the contract", ContractResult)
CoinsDelivered ==
  stage = "sent" =>
    LET got == CoinsParse(Received.coinData)
    IN /\ got = Got(coins, Len(tx.coinData))
       /\ Value(order) > 0 =>
            \E coin \in Range(got.val.to) :
              /\ coin.amount = order.value
              /\ coin.address = order.contract <=> order.chainId % 256 # 3

\* The signature names the account's key.  (P2PHKSignature,
\* TransactionSignature, AccountPo)
SignatureDelivered ==
  stage = "sent" =>
    \E der \in Ders :
      LET in == Received.transactionSignature
      IN SignaturesParse(in) = Got(<<[publicKey |-> account.pubKey, signData |-> der]>>, Len(in))

\* The fee, computed before anything was serialized, pays for the bytes sent,
\* and is the one ContractRequests reckons with lengths alone, as long as no
\* script is paid.  (makeCoinData, calcSize, getNormalUnsignedTxFee)
FeePaysForBytes ==
  stage = "sent" =>
    /\ fee >= NormalTxFee(Len(wire))
    /\ order.contract[1] # 3 =>
         fee = Fee(IF tx.remark = Null THEN 0 ELSE Len(tx.remark), Len(tx.txData), Value(order))
=============================================================================
