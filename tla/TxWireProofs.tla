---------------------------- MODULE TxWireProofs ----------------------------
(***************************************************************************)
(* Theorems about TxWire: an account and a contract transaction arrive as  *)
(* they were saved and sent, whatever accounts, orders and signatures      *)
(* there are, and the fee pays for the bytes.                              *)
(*                                                                         *)
(* The inductive invariant, IInv, says what every variable is in terms of  *)
(* the account, the order and the signature; that it is written and read   *)
(* back as the properties say is a matter of these alone, and of           *)
(* WireProofs.                                                             *)
(***************************************************************************)
EXTENDS TxWire, WireProofs
-----------------------------------------------------------------------------
(***************************************************************************)
(* The data classes of accounts and transactions                           *)
(***************************************************************************)

\* Every data class of TxWire sizes, writes and parses in one order.
LEMMA AccountInOrder == InOrder(AccountPo)
BY DEF InOrder, AccountPo, AccountWritten, Types

LEMMA CreateInOrder == InOrder(CreateContractData)
BY DEF InOrder, CreateContractData, Types

LEMMA CallInOrder == InOrder(CallContractData)
BY DEF InOrder, CallContractData, CallWritten, Types

LEMMA DeleteInOrder == InOrder(DeleteContractData)
BY DEF InOrder, DeleteContractData, Types

LEMMA FromInOrder == InOrder(CoinFrom)
BY DEF InOrder, CoinFrom, Types

LEMMA ToInOrder == InOrder(CoinTo)
BY DEF InOrder, CoinTo, ToWritten, Types

LEMMA SignatureInOrder == InOrder(P2PHKSignature)
BY DEF InOrder, P2PHKSignature, SignatureWritten, Types

LEMMA TransactionInOrder == InOrder(Transaction)
BY DEF InOrder, Transaction, Types

\* And begins with a field that is never empty.
LEMMA Beginnings ==
  /\ Begins(AccountPo) /\ Begins(CreateContractData) /\ Begins(CallContractData)
  /\ Begins(DeleteContractData) /\ Begins(CoinFrom) /\ Begins(CoinTo)
  /\ Begins(P2PHKSignature) /\ Begins(Transaction)
<1>1. Begins(AccountPo)
  BY DEF Begins, Fields, TypeAt, AccountPo, AccountWritten
<1>2. Begins(CreateContractData)
  BY DEF Begins, Fields, TypeAt, CreateContractData
<1>3. Begins(CallContractData)
  BY DEF Begins, Fields, TypeAt, CallContractData, CallWritten
<1>4. Begins(DeleteContractData)
  BY DEF Begins, Fields, TypeAt, DeleteContractData
<1>5. Begins(CoinFrom)
  BY DEF Begins, Fields, TypeAt, CoinFrom
<1>6. Begins(CoinTo)
  BY DEF Begins, Fields, TypeAt, CoinTo, ToWritten
<1>7. Begins(P2PHKSignature)
  BY DEF Begins, Fields, TypeAt, P2PHKSignature, SignatureWritten
<1>8. Begins(Transaction)
  BY DEF Begins, Fields, TypeAt, Transaction
<1> QED BY <1>1, <1>2, <1>3, <1>4, <1>5, <1>6, <1>7, <1>8

\* Coins, signatures and the transaction itself have neither texts nor arguments.
LEMMA PlainClasses == Plain(CoinFrom) /\ Plain(CoinTo) /\ Plain(P2PHKSignature) /\ Plain(Transaction)
<1>1. Plain(CoinFrom)
  BY DEF Plain, CoinFrom
<1>2. Plain(CoinTo)
  BY DEF Plain, CoinTo
<1>3. Plain(P2PHKSignature)
  BY DEF Plain, P2PHKSignature
<1>4. Plain(Transaction)
  BY DEF Plain, Transaction
<1> QED BY <1>1, <1>2, <1>3, <1>4

\* Coins and signatures are listed.
LEMMA ListedClasses == Listed(CoinFrom) /\ Listed(CoinTo) /\ Listed(P2PHKSignature)
<1>1. TypeAt(CoinFrom, 1) = "bytes"
  BY DEF TypeAt, CoinFrom
<1>2. TypeAt(CoinTo, 1) = "bytes"
  BY DEF TypeAt, CoinTo, ToWritten
<1>3. TypeAt(P2PHKSignature, 1) = "key"
  BY DEF TypeAt, P2PHKSignature, SignatureWritten
<1> QED BY <1>1, <1>2, <1>3, FromInOrder, ToInOrder, SignatureInOrder, Beginnings, PlainClasses DEF Listed

-----------------------------------------------------------------------------
(***************************************************************************)
(* Accounts, and the data of an order                                      *)
(***************************************************************************)

\* An account that fits is saved and read back, its key with it.
LEMMA AccountSaved ==
  ASSUME NEW a, AccountFits(a)
  PROVE  /\ Serialize(AccountPo, a) # Null
         /\ Parse(AccountPo, Serialize(AccountPo, a), 0)
              = Got(Reproduced(AccountPo, a), Len(Serialize(AccountPo, a)))
         /\ Reproduced(AccountPo, a).pubKey = a.pubKey
         /\ a.pubKey \in Seq(Byte) /\ Len(a.pubKey) = 33
<1>1. FieldsFit(AccountPo, a) /\ ~ BlankText(a.address) /\ ~ BlankText(a.alias) /\ ~ BlankText(a.remark)
      /\ a.pubKey # Null /\ Len(a.pubKey) = 33
  BY DEF AccountFits
<1>2. /\ DOMAIN AccountPo.type = {"chainId", "address", "alias", "createTime", "pubKey", "priKey",
                                  "encryptedPriKey", "extend", "remark"}
      /\ \A f \in DOMAIN AccountPo.type : AccountPo.type[f] # "args"
      /\ \A f \in DOMAIN AccountPo.type : AccountPo.type[f] = "string" => f \in {"address", "alias", "remark"}
      /\ AccountPo.type["pubKey"] = "bytes"
  BY DEF AccountPo
<1>3. NoBlank(AccountPo, a) /\ AllCountable(AccountPo, a)
  BY <1>1, <1>2 DEF NoBlank, AllCountable, BlankField
<1>4. Fits("bytes", a.pubKey)
  BY <1>1, <1>2 DEF FieldsFit
<1>5. a.pubKey \in Seq(Byte)
  BY <1>1, <1>4, FitCases DEF IsArray
<1>6. Reproduced(AccountPo, a).pubKey = Normal("bytes", a.pubKey)
  BY <1>2 DEF Reproduced
<1>7. a.pubKey # <<>>
  <2>1. Len(<<>>) # 33
    OBVIOUS
  <2> QED BY <1>1, <2>1, Zenon
<1>8. Normal("bytes", a.pubKey) = a.pubKey
  BY <1>7, NormalCases
<1> QED BY <1>1, <1>3, <1>5, <1>6, <1>8, AccountInOrder, Beginnings, Serializes, ReadsBack

\* The data of each operation.
LEMMA DataClass ==
  ASSUME NEW op \in {"create", "call", "delete"}
  PROVE  InOrder(TxData[op]) /\ Begins(TxData[op])
<1>1. TxData["create"] = CreateContractData /\ TxData["call"] = CallContractData
      /\ TxData["delete"] = DeleteContractData
  BY DEF TxData
<1> QED BY <1>1, CreateInOrder, CallInOrder, DeleteInOrder, Beginnings

\* Blank texts and arguments a byte can count, by operation.
LEMMA CreateData ==
  ASSUME NEW o, o.op = "create"
  PROVE  /\ NoBlank(TxData[o.op], DataOf(o)) <=> ~ HasBlankText(o)
         /\ AllCountable(TxData[o.op], DataOf(o)) <=> Countable(DataOf(o).args)
<1>1. TxData[o.op] = CreateContractData
  BY DEF TxData
<1>2. /\ DOMAIN CreateContractData.type
           = {"sender", "contractAddress", "code", "alias", "gasLimit", "price", "args"}
      /\ CreateContractData.type["alias"] = "string" /\ CreateContractData.type["args"] = "args"
      /\ \A f \in DOMAIN CreateContractData.type \ {"alias", "args"} :
           CreateContractData.type[f] \notin {"string", "args"}
  BY DEF CreateContractData
<1>3. DataOf(o)["alias"] = o.alias /\ DataOf(o)["args"] = Convert(o.args, o.types)
  BY DEF DataOf
<1>4. HasBlankText(o) <=> BlankText(o.alias) \/ BlankValue(Convert(o.args, o.types))
  BY DEF HasBlankText
<1>5. NoBlank(CreateContractData, DataOf(o)) <=> ~ HasBlankText(o)
  BY <1>2, <1>3, <1>4 DEF NoBlank, BlankField
<1>6. AllCountable(CreateContractData, DataOf(o)) <=> Countable(DataOf(o)["args"])
  BY <1>2 DEF AllCountable
<1> QED BY <1>1, <1>5, <1>6

LEMMA CallData ==
  ASSUME NEW o, o.op = "call", ~ IsBlank(o.methodName)
  PROVE  /\ NoBlank(TxData[o.op], DataOf(o)) <=> ~ HasBlankText(o)
         /\ AllCountable(TxData[o.op], DataOf(o)) <=> Countable(DataOf(o).args)
<1>1. TxData[o.op] = CallContractData
  BY DEF TxData
<1>2. /\ DOMAIN CallContractData.type
           = {"sender", "contractAddress", "value", "gasLimit", "price", "methodName", "methodDesc", "args"}
      /\ CallContractData.type["methodName"] = "string"
      /\ CallContractData.type["methodDesc"] = "string" /\ CallContractData.type["args"] = "args"
      /\ \A f \in DOMAIN CallContractData.type \ {"methodName", "methodDesc", "args"} :
           CallContractData.type[f] \notin {"string", "args"}
  BY DEF CallContractData
<1>3. /\ DataOf(o)["methodName"] = o.methodName /\ DataOf(o)["methodDesc"] = o.methodDesc
      /\ DataOf(o)["args"] = Convert(o.args, o.types)
  BY DEF DataOf
<1>4. HasBlankText(o) <=> BlankText(o.methodDesc) \/ BlankValue(Convert(o.args, o.types))
  BY DEF HasBlankText
<1>5. ~ BlankText(o.methodName)
  BY DEF BlankText
<1>6. NoBlank(CallContractData, DataOf(o)) <=> ~ HasBlankText(o)
  BY <1>2, <1>3, <1>4, <1>5 DEF NoBlank, BlankField
<1>7. AllCountable(CallContractData, DataOf(o)) <=> Countable(DataOf(o)["args"])
  BY <1>2 DEF AllCountable
<1> QED BY <1>1, <1>6, <1>7

LEMMA DeleteData ==
  ASSUME NEW o, o.op = "delete"
  PROVE  NoBlank(TxData[o.op], DataOf(o)) /\ ~ HasBlankText(o) /\ AllCountable(TxData[o.op], DataOf(o))
<1>1. TxData[o.op] = DeleteContractData
  BY DEF TxData
<1>2. Plain(DeleteContractData)
  BY DEF Plain, DeleteContractData
<1>3. ~ HasBlankText(o)
  BY DEF HasBlankText
<1> QED BY <1>1, <1>2, <1>3, PlainClass

\* An order that becomes a transaction.
Made(o) == OrderFits(o) /\ (o.op = "delete" \/ Convertible(o.args, o.types))

\* Its data fit, and blank texts alone keep them from being serialized.
LEMMA OrderData ==
  ASSUME NEW o, Made(o)
  PROVE  /\ InOrder(TxData[o.op]) /\ Begins(TxData[o.op]) /\ FieldsFit(TxData[o.op], DataOf(o))
         /\ IsInt(Size(TxData[o.op], DataOf(o)))
         /\ NoBlank(TxData[o.op], DataOf(o)) <=> ~ HasBlankText(o)
         /\ AllCountable(TxData[o.op], DataOf(o)) <=> (o.op # "delete" => Countable(DataOf(o).args))
         /\ o.op \in {"create", "call", "delete"}
<1>1. /\ o.op \in {"create", "call", "delete"}
      /\ FieldsFit(TxData[o.op], DataOf(o)) /\ IsInt(Size(TxData[o.op], DataOf(o)))
      /\ (o.op = "call" => ~ IsBlank(o.methodName))
  BY DEF Made, OrderFits
<1>2. InOrder(TxData[o.op]) /\ Begins(TxData[o.op])
  BY <1>1, DataClass
<1>3. CASE o.op = "create"
  BY <1>1, <1>2, <1>3, CreateData
<1>4. CASE o.op = "call"
  BY <1>1, <1>2, <1>4, CallData
<1>5. CASE o.op = "delete"
  BY <1>1, <1>2, <1>5, DeleteData
<1> QED BY <1>1, <1>3, <1>4, <1>5

-----------------------------------------------------------------------------
(***************************************************************************)
(* Coins                                                                   *)
(***************************************************************************)

\* Coins behind their number are read back.
LEMMA CoinListFound ==
  ASSUME NEW class, Listed(class), NEW list, AllFit(class, list), IsInt(Len(list)),
         \A i \in 1 .. Len(list) : Reproduced(class, list[i]) = list[i],
         NEW in, NEW at, Occurs(VarInt(Len(list)), in, at),
         Occurs(Joined(Pieces(class, list)), in, at + VarIntSize(Len(list)))
  PROVE  ReadCoins(class, in, at)
           = Got(list, at + VarIntSize(Len(list)) + Len(Joined(Pieces(class, list))))
<1>1. PICK r : r = ReadVarInt(in, at)
  OBVIOUS
<1>2. r = Got(Len(list), at + VarIntSize(Len(list)))
  BY <1>1, VarIntFound
<1>3. r.ok /\ r.val = Len(list) /\ r.at = at + VarIntSize(Len(list))
  BY <1>2, GotIs
<1>4. ReadCoins(class, in, at)
        = InTurn([i \in 1 .. r.val |-> [q \in Nat |-> ReadNulsData(class, in, q)]], r.at)
  BY <1>1, <1>3 DEF ReadCoins, Then
<1>5. PICK readers : readers = [i \in 1 .. Len(list) |-> [q \in Nat |-> ReadNulsData(class, in, q)]]
  OBVIOUS
<1>6. ReadCoins(class, in, at) = InTurn(readers, at + VarIntSize(Len(list)))
  BY <1>3, <1>4, <1>5
<1> QED BY <1>5, <1>6, ListFound

\* w is a, b, c and d.
IsRow(a, b, c, d, w) == w = a \o b \o c \o d

\* Four strings of bytes, where they stand in the row.
LEMMA FourBytes ==
  ASSUME NEW a \in Seq(Byte), NEW b \in Seq(Byte), NEW c \in Seq(Byte), NEW d \in Seq(Byte),
         NEW w, IsRow(a, b, c, d, w)
  PROVE  /\ w \in Seq(Byte) /\ Len(w) = Len(a) + Len(b) + Len(c) + Len(d) /\ Len(w) \in Nat
         /\ Occurs(a, w, 0) /\ Occurs(b, w, Len(a)) /\ Occurs(c, w, Len(a) + Len(b))
         /\ Occurs(d, w, Len(a) + Len(b) + Len(c))
<1>1. PICK u, v : u = a \o b /\ v = u \o c
  OBVIOUS
<1>2. Len(a) \in Nat /\ Len(b) \in Nat /\ Len(c) \in Nat /\ Len(d) \in Nat
  OBVIOUS
<1>3. u \in Seq(Byte) /\ Len(u) = Len(a) + Len(b)
  BY <1>1, ConcatProperties
<1>4. v \in Seq(Byte) /\ Len(v) = Len(u) + Len(c)
  BY <1>1, <1>3, ConcatProperties
<1>5. w = v \o d
  BY <1>1 DEF IsRow
<1>6. w \in Seq(Byte) /\ Len(w) = Len(v) + Len(d)
  BY <1>4, <1>5, ConcatProperties
<1>7. Occurs(w, w, 0)
  BY <1>6, OccursWhole
<1>8. Occurs(v, w, 0) /\ Occurs(d, w, 0 + Len(v))
  <2>1. Occurs(v \o d, w, 0)
    BY <1>5, <1>7
  <2> QED BY <1>4, <2>1, OccursParts
<1>9. Occurs(u, w, 0) /\ Occurs(c, w, 0 + Len(u))
  <2>1. Occurs(u \o c, w, 0)
    BY <1>1, <1>8
  <2> QED BY <1>3, <2>1, OccursParts
<1>10. Occurs(a, w, 0) /\ Occurs(b, w, 0 + Len(a))
  <2>1. Occurs(a \o b, w, 0)
    BY <1>1, <1>9
  <2> QED BY <2>1, OccursParts
<1>11. 0 + Len(v) = Len(a) + Len(b) + Len(c) /\ 0 + Len(u) = Len(a) + Len(b) /\ 0 + Len(a) = Len(a)
  BY <1>2, <1>3, <1>4
<1>12. Len(w) = Len(a) + Len(b) + Len(c) + Len(d) /\ Len(w) \in Nat
  BY <1>2, <1>3, <1>4, <1>6
<1> QED BY <1>6, <1>8, <1>9, <1>10, <1>11, <1>12

\* Coins that come back as they are.
CoinsFit(c) ==
  /\ c = [from |-> c.from, to |-> c.to]
  /\ AllFit(CoinFrom, c.from) /\ IsInt(Len(c.from))
  /\ AllFit(CoinTo, c.to) /\ IsInt(Len(c.to))
  /\ \A i \in 1 .. Len(c.from) : Reproduced(CoinFrom, c.from[i]) = c.from[i]
  /\ \A i \in 1 .. Len(c.to) : Reproduced(CoinTo, c.to[i]) = c.to[i]

\* CoinData is read back.
LEMMA CoinsFound ==
  ASSUME NEW c, CoinsFit(c)
  PROVE  /\ CoinsWrite(c) \in Seq(Byte) /\ CoinsSize(c) \in Nat /\ CoinsSize(c) >= 2
         /\ Len(CoinsWrite(c)) = CoinsSize(c)
         /\ CoinsParse(CoinsWrite(c)) = Got(c, Len(CoinsWrite(c)))
<1>1. PICK n, m, f, t : /\ n = VarInt(Len(c.from)) /\ m = VarInt(Len(c.to))
                        /\ f = Joined(Pieces(CoinFrom, c.from)) /\ t = Joined(Pieces(CoinTo, c.to))
  OBVIOUS
<1>2. /\ AllFit(CoinFrom, c.from) /\ IsInt(Len(c.from))
      /\ AllFit(CoinTo, c.to) /\ IsInt(Len(c.to))
      /\ \A i \in 1 .. Len(c.from) : Reproduced(CoinFrom, c.from[i]) = c.from[i]
      /\ \A i \in 1 .. Len(c.to) : Reproduced(CoinTo, c.to[i]) = c.to[i]
      /\ c = [from |-> c.from, to |-> c.to]
  BY DEF CoinsFit
<1>3. /\ n \in Seq(Byte) /\ Len(n) = VarIntSize(Len(c.from))
      /\ m \in Seq(Byte) /\ Len(m) = VarIntSize(Len(c.to))
      /\ Len(n) >= 1 /\ Len(m) >= 1
  <2>1. Len(c.from) \in Nat /\ Len(c.to) \in Nat
    BY <1>2 DEF IsInt
  <2> QED BY <1>1, <1>2, <2>1, VarIntBytes, SizeNotZero
<1>4. /\ f \in Seq(Byte) /\ Len(f) = SumOf(Sizes(CoinFrom, c.from))
      /\ t \in Seq(Byte) /\ Len(t) = SumOf(Sizes(CoinTo, c.to))
  BY <1>1, <1>2, ListBytes, ListedClasses
<1>5. PICK w : w = n \o f \o m \o t
  OBVIOUS
<1>6. CoinsWrite(c) = w
  BY <1>1, <1>5 DEF CoinsWrite, Pieces
<1>7. /\ w \in Seq(Byte) /\ Len(w) = Len(n) + Len(f) + Len(m) + Len(t) /\ Len(w) \in Nat
      /\ Occurs(n, w, 0) /\ Occurs(f, w, Len(n)) /\ Occurs(m, w, Len(n) + Len(f))
      /\ Occurs(t, w, Len(n) + Len(f) + Len(m))
  <2>1. n \in Seq(Byte) /\ f \in Seq(Byte) /\ m \in Seq(Byte) /\ t \in Seq(Byte)
    BY <1>3, <1>4
  <2>2. IsRow(n, f, m, t, w)
    BY <1>5 DEF IsRow
  <2> QED BY <2>1, <2>2, FourBytes
<1>8. CoinsSize(c) = Len(n) + Len(f) + Len(m) + Len(t)
  BY <1>3, <1>4 DEF CoinsSize, Sizes
<1>9. Len(n) \in Nat /\ Len(f) \in Nat /\ Len(m) \in Nat /\ Len(t) \in Nat
  BY <1>3, <1>4
<1>10. PICK p : p = Len(n) + Len(f)
  OBVIOUS
<1>11. ReadCoins(CoinFrom, w, 0) = Got(c.from, p)
  <2>1. Occurs(VarInt(Len(c.from)), w, 0)
    BY <1>1, <1>7
  <2>2. Occurs(Joined(Pieces(CoinFrom, c.from)), w, 0 + VarIntSize(Len(c.from)))
    BY <1>1, <1>3, <1>7, <1>9
  <2>3. ReadCoins(CoinFrom, w, 0)
          = Got(c.from, 0 + VarIntSize(Len(c.from)) + Len(Joined(Pieces(CoinFrom, c.from))))
    BY <1>2, <2>1, <2>2, CoinListFound, ListedClasses
  <2>4. 0 + VarIntSize(Len(c.from)) + Len(Joined(Pieces(CoinFrom, c.from))) = p
    BY <1>1, <1>3, <1>9, <1>10
  <2> QED BY <2>3, <2>4
<1>12. ReadCoins(CoinTo, w, p) = Got(c.to, Len(w))
  <2>1. Occurs(VarInt(Len(c.to)), w, p)
    BY <1>1, <1>7, <1>10
  <2>2. Occurs(Joined(Pieces(CoinTo, c.to)), w, p + VarIntSize(Len(c.to)))
    BY <1>1, <1>3, <1>7, <1>10
  <2>3. ReadCoins(CoinTo, w, p)
          = Got(c.to, p + VarIntSize(Len(c.to)) + Len(Joined(Pieces(CoinTo, c.to))))
    BY <1>2, <2>1, <2>2, CoinListFound, ListedClasses
  <2>4. p + VarIntSize(Len(c.to)) + Len(Joined(Pieces(CoinTo, c.to))) = Len(w)
    BY <1>1, <1>3, <1>7, <1>9, <1>10
  <2> QED BY <2>3, <2>4
<1>13. CoinsParse(w) = Got([from |-> c.from, to |-> c.to], Len(w))
  <2>1. PICK r, q : r = ReadCoins(CoinFrom, w, 0) /\ q = ReadCoins(CoinTo, w, p)
    OBVIOUS
  <2>2. r.ok /\ r.val = c.from /\ r.at = p
    BY <1>11, <2>1, GotIs
  <2>3. q.ok /\ q.val = c.to /\ q.at = Len(w)
    BY <1>12, <2>1, GotIs
  <2>4. CoinsParse(w) = Then(r, LAMBDA from, x : Then(ReadCoins(CoinTo, w, x),
                                                   LAMBDA to, y : Got([from |-> from, to |-> to], y)))
    BY <2>1 DEF CoinsParse
  <2>5. CoinsParse(w) = IF ReadCoins(CoinTo, w, r.at).ok
                        THEN Got([from |-> r.val, to |-> ReadCoins(CoinTo, w, r.at).val],
                                 ReadCoins(CoinTo, w, r.at).at)
                        ELSE Fails
    BY <2>2, <2>4 DEF Then
  <2> QED BY <2>1, <2>2, <2>3, <2>5
<1>14. CoinsSize(c) >= 2
  BY <1>3, <1>8, <1>9
<1> QED BY <1>2, <1>6, <1>7, <1>8, <1>13, <1>14

-----------------------------------------------------------------------------
(***************************************************************************)
(* The coins of an order                                                   *)
(***************************************************************************)

\* What an order that becomes a transaction has.
LEMMA OrderFields ==
  ASSUME NEW o, Made(o)
  PROVE  /\ o.sender \in Seq(Byte) /\ Len(o.sender) = 23
         /\ o.contract \in Seq(Byte) /\ Len(o.contract) = 23
         /\ Value(o) \in Nat /\ Fits("BigInteger", Value(o))
         /\ Fits("uint16", o.chainId) /\ Fits("uint16", o.assetId) /\ Fits("uint32", o.time)
         /\ o.contract[1] = o.chainId % 256
         /\ o.nonce \in Seq(Byte) /\ Len(o.nonce) = 8
         /\ o.remark = Null \/ IsArray(o.remark)
         /\ Fits("BigInteger", Gas(o) + Value(o) + FeeOf(NewTx(o), o))
<1>1. /\ o.op \in {"create", "call", "delete"} /\ FieldsFit(TxData[o.op], DataOf(o))
      /\ Fits("BigInteger", Gas(o) + Value(o) + FeeOf(NewTx(o), o))
  BY DEF Made, OrderFits
<1>2. /\ Fits("uint16", o.chainId) /\ Fits("uint16", o.assetId) /\ Fits("uint32", o.time)
      /\ o.contract[1] = o.chainId % 256
      /\ o.nonce \in Seq(Byte) /\ Len(o.nonce) = 8
      /\ o.remark = Null \/ IsArray(o.remark)
  BY DEF Made, OrderFits
<1>3. Fits("address", o.sender) /\ Fits("address", o.contract)
  <2>1. CASE o.op = "create"
    <3>1. TxData[o.op] = CreateContractData
      BY <2>1 DEF TxData
    <3>2. /\ "sender" \in DOMAIN CreateContractData.type /\ CreateContractData.type["sender"] = "address"
          /\ "contractAddress" \in DOMAIN CreateContractData.type
          /\ CreateContractData.type["contractAddress"] = "address"
      BY DEF CreateContractData
    <3>3. DataOf(o)["sender"] = o.sender /\ DataOf(o)["contractAddress"] = o.contract
      BY <2>1 DEF DataOf
    <3> QED BY <1>1, <3>1, <3>2, <3>3 DEF FieldsFit
  <2>2. CASE o.op = "call"
    <3>1. TxData[o.op] = CallContractData
      BY <2>2 DEF TxData
    <3>2. /\ "sender" \in DOMAIN CallContractData.type /\ CallContractData.type["sender"] = "address"
          /\ "contractAddress" \in DOMAIN CallContractData.type
          /\ CallContractData.type["contractAddress"] = "address"
      BY DEF CallContractData
    <3>3. DataOf(o)["sender"] = o.sender /\ DataOf(o)["contractAddress"] = o.contract
      BY <2>2 DEF DataOf
    <3> QED BY <1>1, <3>1, <3>2, <3>3 DEF FieldsFit
  <2>3. CASE o.op = "delete"
    <3>1. TxData[o.op] = DeleteContractData
      BY <2>3 DEF TxData
    <3>2. /\ "sender" \in DOMAIN DeleteContractData.type /\ DeleteContractData.type["sender"] = "address"
          /\ "contractAddress" \in DOMAIN DeleteContractData.type
          /\ DeleteContractData.type["contractAddress"] = "address"
      BY DEF DeleteContractData
    <3>3. DataOf(o)["sender"] = o.sender /\ DataOf(o)["contractAddress"] = o.contract
      BY <2>3 DEF DataOf
    <3> QED BY <1>1, <3>1, <3>2, <3>3 DEF FieldsFit
  <2> QED BY <1>1, <2>1, <2>2, <2>3
<1>4. Fits("BigInteger", Value(o))
  <2>1. CASE o.op = "call"
    <3>1. TxData[o.op] = CallContractData
      BY <2>1 DEF TxData
    <3>2. "value" \in DOMAIN CallContractData.type /\ CallContractData.type["value"] = "BigInteger"
      BY DEF CallContractData
    <3>3. DataOf(o)["value"] = o.value /\ Value(o) = o.value
      BY <2>1 DEF DataOf, Value
    <3> QED BY <1>1, <3>1, <3>2, <3>3 DEF FieldsFit
  <2>2. CASE o.op # "call"
    BY <2>2, SmallNumber DEF Value
  <2> QED BY <2>1, <2>2
<1>5. Value(o) \in Nat
  BY <1>4, FitCases
<1>6. /\ o.sender \in Seq(Byte) /\ Len(o.sender) = 23
      /\ o.contract \in Seq(Byte) /\ Len(o.contract) = 23
  BY <1>3, FitCases
<1> QED BY <1>1, <1>2, <1>4, <1>5, <1>6

\* w is u and v.
IsJoint(u, v, w) == w = u \o v

\* Its length and its first byte.
LEMMA JointBytes ==
  ASSUME NEW u \in Seq(Byte), NEW v \in Seq(Byte), NEW w, IsJoint(u, v, w)
  PROVE  /\ w \in Seq(Byte) /\ Len(w) = Len(u) + Len(v) /\ Len(u) \in Nat /\ Len(v) \in Nat
         /\ Len(u) >= 1 => w[1] = u[1]
BY DEF IsJoint

\* w is x between u and v.
IsFramed(u, x, v, w) == w = u \o x \o v

\* Its length and its first byte.
LEMMA FramedBytes ==
  ASSUME NEW u \in Seq(Byte), NEW x \in Seq(Byte), NEW v \in Seq(Byte), Len(u) >= 1,
         NEW w, IsFramed(u, x, v, w)
  PROVE  w \in Seq(Byte) /\ Len(w) = Len(u) + Len(x) + Len(v) /\ w[1] = u[1]
<1>1. PICK y : IsJoint(u, x, y)
  BY DEF IsJoint
<1>2. IsJoint(y, v, w)
  BY <1>1 DEF IsFramed, IsJoint
<1>3. y \in Seq(Byte) /\ Len(y) = Len(u) + Len(x) /\ Len(u) \in Nat /\ Len(x) \in Nat /\ y[1] = u[1]
  BY <1>1, JointBytes
<1>4. w \in Seq(Byte) /\ Len(w) = Len(y) + Len(v) /\ Len(v) \in Nat
  BY <1>2, <1>3, JointBytes
<1>5. w[1] = y[1]
  <2>1. Len(y) >= 1
    BY <1>3
  <2> QED BY <1>2, <1>3, <2>1, JointBytes
<1> QED BY <1>3, <1>4, <1>5

\* A script is longer than an address, and begins with another byte than the 3 that
\* makes one of it: what addTo gives is the address unless that begins with 3.
LEMMA ScriptBytes ==
  ASSUME NEW address \in Seq(Byte), Len(address) = 23
  PROVE  /\ AddTo(address) \in Seq(Byte) /\ Len(AddTo(address)) \in {23, 26, 28}
         /\ AddTo(address) = address <=> address[1] # 3
         /\ address[1] # 3 => Len(AddTo(address)) = 23
<1>2. PICK s : s = Script(address)
  OBVIOUS
<1>3. s \in Seq(Byte) /\ Len(s) \in {26, 28} /\ s[1] # 3
  <2>1. CASE address[3] = 3
    <3>1. PICK u, v : u = <<169, 23>> /\ v = <<135>>
      OBVIOUS
    <3>2. u \in Seq(Byte) /\ Len(u) = 2 /\ u[1] = 169 /\ v \in Seq(Byte) /\ Len(v) = 1
      <4>1. 169 \in Byte /\ 23 \in Byte /\ 135 \in Byte
        BY DEF Byte
      <4> QED BY <3>1, <4>1
    <3>3. IsFramed(u, address, v, s)
      BY <1>2, <2>1, <3>1 DEF Script, IsFramed
    <3>4. s \in Seq(Byte) /\ Len(s) = Len(u) + Len(address) + Len(v) /\ s[1] = u[1]
      <4>1. Len(u) >= 1
        BY <3>2
      <4>2. u \in Seq(Byte) /\ v \in Seq(Byte)
        BY <3>2
      <4>3. s \in Seq(Byte)
        BY <3>3, <4>1, <4>2, FramedBytes
      <4>4. Len(s) = Len(u) + Len(address) + Len(v)
        <5>1. PICK x : x = address /\ x \in Seq(Byte)
          OBVIOUS
        <5>2. IsFramed(u, x, v, s)
          BY <3>3, <5>1
        <5>3. x \in Seq(Byte)
          BY <5>1
        <5>4. Len(s) = Len(u) + Len(x) + Len(v)
          BY <4>1, <4>2, <5>2, <5>3, FramedBytes
        <5> QED BY <5>1, <5>4
      <4>5. s[1] = u[1]
        BY <3>3, <4>1, <4>2, FramedBytes
      <4> QED BY <4>3, <4>4, <4>5
    <3> QED BY <3>2, <3>4
  <2>2. CASE address[3] # 3
    <3>1. PICK u, v : u = <<118, 169, 23>> /\ v = <<136, 172>>
      OBVIOUS
    <3>2. u \in Seq(Byte) /\ Len(u) = 3 /\ u[1] = 118 /\ v \in Seq(Byte) /\ Len(v) = 2
      <4>1. 118 \in Byte /\ 169 \in Byte /\ 23 \in Byte /\ 136 \in Byte /\ 172 \in Byte
        BY DEF Byte
      <4> QED BY <3>1, <4>1
    <3>3. IsFramed(u, address, v, s)
      BY <1>2, <2>2, <3>1 DEF Script, IsFramed
    <3>4. s \in Seq(Byte) /\ Len(s) = Len(u) + Len(address) + Len(v) /\ s[1] = u[1]
      <4>1. Len(u) >= 1
        BY <3>2
      <4>2. u \in Seq(Byte) /\ v \in Seq(Byte)
        BY <3>2
      <4>3. s \in Seq(Byte)
        BY <3>3, <4>1, <4>2, FramedBytes
      <4>4. Len(s) = Len(u) + Len(address) + Len(v)
        <5>1. PICK x : x = address /\ x \in Seq(Byte)
          OBVIOUS
        <5>2. IsFramed(u, x, v, s)
          BY <3>3, <5>1
        <5>3. x \in Seq(Byte)
          BY <5>1
        <5>4. Len(s) = Len(u) + Len(x) + Len(v)
          BY <4>1, <4>2, <5>2, <5>3, FramedBytes
        <5> QED BY <5>1, <5>4
      <4>5. s[1] = u[1]
        BY <3>3, <4>1, <4>2, FramedBytes
      <4> QED BY <4>3, <4>4, <4>5
    <3> QED BY <3>2, <3>4
  <2> QED BY <2>1, <2>2
<1>4. CASE address[1] = 3
  <2>1. AddTo(address) = s
    BY <1>2, <1>4 DEF AddTo
  <2>2. s # address
    BY <1>3, <1>4
  <2> QED BY <1>3, <1>4, <2>1, <2>2
<1>5. CASE address[1] # 3
  <2>1. AddTo(address) = address
    BY <1>5 DEF AddTo
  <2> QED BY <1>5, <2>1
<1> QED BY <1>4, <1>5

\* The coin that is taken has 70 bytes.
LEMMA FromCoin ==
  ASSUME NEW address \in Seq(Byte), Len(address) = 23, NEW nonce \in Seq(Byte), Len(nonce) = 8,
         NEW chainId, Fits("uint16", chainId), NEW assetId, Fits("uint16", assetId),
         NEW amount, Fits("BigInteger", amount),
         NEW f, f = [address |-> address, assetsChainId |-> chainId, assetsId |-> assetId,
                     amount |-> amount, nonce |-> nonce, locked |-> 0]
  PROVE  FieldsFit(CoinFrom, f) /\ Reproduced(CoinFrom, f) = f /\ Size(CoinFrom, f) = 70
<1>1. /\ SizeOfArray(address) = 24 /\ Fits("bytes", address) /\ Normal("bytes", address) = address
      /\ SizeOfArray(nonce) = 9 /\ Fits("bytes", nonce) /\ Normal("bytes", nonce) = nonce
  <2>1. Len(address) < 253 /\ Len(address) # 0 /\ Len(nonce) < 253 /\ Len(nonce) # 0
    OBVIOUS
  <2>2. SizeOfArray(address) = 1 + Len(address) /\ SizeOfArray(nonce) = 1 + Len(nonce)
    BY <2>1, ShortArray
  <2>3. /\ Fits("bytes", address) /\ Normal("bytes", address) = address
        /\ Fits("bytes", nonce) /\ Normal("bytes", nonce) = nonce
    BY <2>1, ShortArray
  <2>4. 1 + Len(address) = 24 /\ 1 + Len(nonce) = 9
    OBVIOUS
  <2> QED BY <2>2, <2>3, <2>4
<1>2. /\ f["address"] = address /\ f["assetsChainId"] = chainId /\ f["assetsId"] = assetId
      /\ f["amount"] = amount /\ f["nonce"] = nonce /\ f["locked"] = 0
      /\ f = [x \in {"address", "assetsChainId", "assetsId", "amount", "nonce", "locked"} |-> f[x]]
  OBVIOUS
<1>3. /\ DOMAIN CoinFrom.type = {"address", "assetsChainId", "assetsId", "amount", "nonce", "locked"}
      /\ CoinFrom.type["address"] = "bytes" /\ CoinFrom.type["assetsChainId"] = "uint16"
      /\ CoinFrom.type["assetsId"] = "uint16" /\ CoinFrom.type["amount"] = "BigInteger"
      /\ CoinFrom.type["nonce"] = "bytes" /\ CoinFrom.type["locked"] = "byte"
  BY DEF CoinFrom
<1>4. FieldsFit(CoinFrom, f)
  BY <1>1, <1>2, <1>3, ZeroFits DEF FieldsFit
<1>5. Reproduced(CoinFrom, f) = f
  <2>1. \A x \in DOMAIN CoinFrom.type : Normal(CoinFrom.type[x], f[x]) = f[x]
    BY <1>1, <1>2, <1>3, NormalNumber
  <2> QED BY <1>2, <1>3, <2>1 DEF Reproduced
<1>6. Size(CoinFrom, f) = 70
  <2>1. Fields(CoinFrom) = 6
    BY DEF Fields, CoinFrom
  <2>2. /\ CoinFrom.written[1] = "address" /\ CoinFrom.written[2] = "assetsChainId"
        /\ CoinFrom.written[3] = "assetsId" /\ CoinFrom.written[4] = "amount"
        /\ CoinFrom.written[5] = "nonce" /\ CoinFrom.written[6] = "locked"
    BY DEF CoinFrom
  <2>3. /\ SizeAt(CoinFrom, f, 1) = SizeOfField("bytes", address)
        /\ SizeAt(CoinFrom, f, 2) = SizeOfField("uint16", chainId)
        /\ SizeAt(CoinFrom, f, 3) = SizeOfField("uint16", assetId)
        /\ SizeAt(CoinFrom, f, 4) = SizeOfField("BigInteger", amount)
        /\ SizeAt(CoinFrom, f, 5) = SizeOfField("bytes", nonce)
        /\ SizeAt(CoinFrom, f, 6) = SizeOfField("byte", 0)
    BY <1>2, <1>3, <2>2 DEF SizeAt, TypeAt, ValueAt
  <2>4. /\ SizeOfField("bytes", address) = 24 /\ SizeOfField("bytes", nonce) = 9
        /\ SizeOfField("byte", 0) = 1
    BY <1>1, WrittenOther
  <2>5. /\ SizeOfField("uint16", chainId) = 2 /\ SizeOfField("uint16", assetId) = 2
        /\ SizeOfField("BigInteger", amount) = 32
    BY WrittenNumber, Widths DEF Numbers
  <2> DEFINE z == [i \in 1 .. 6 |-> SizeAt(CoinFrom, f, i)]
  <2>6. Size(CoinFrom, f) = SumOf(z)
    BY <1>4, <2>1, ClassItems, FromInOrder
  <2>7. \A i \in 1 .. 6 : SizeAt(CoinFrom, f, i) \in Nat
    BY <1>4, <2>1, ItemFacts, FromInOrder
  <2>8. /\ z \in Seq(Nat) /\ Len(z) = 6
        /\ z[1] = 24 /\ z[2] = 2 /\ z[3] = 2 /\ z[4] = 32 /\ z[5] = 9 /\ z[6] = 1
    BY <2>3, <2>4, <2>5, <2>7
  <2> HIDE DEF z
  <2>9. SumOf(z) = z[1] + z[2] + z[3] + z[4] + z[5] + z[6]
    BY <2>8, SumOfSix
  <2> QED BY <2>6, <2>8, <2>9
<1> QED BY <1>4, <1>5, <1>6

\* The coin that is given has 45 bytes besides its address.
LEMMA ToCoin ==
  ASSUME NEW address \in Seq(Byte), Len(address) \in {23, 26, 28},
         NEW chainId, Fits("uint16", chainId), NEW assetId, Fits("uint16", assetId),
         NEW amount, Fits("BigInteger", amount),
         NEW t, t = [address |-> address, assetsChainId |-> chainId, assetsId |-> assetId,
                     amount |-> amount, lockTime |-> 0]
  PROVE  FieldsFit(CoinTo, t) /\ Reproduced(CoinTo, t) = t /\ Size(CoinTo, t) = 45 + Len(address)
<1>0. PICK n \in {23, 26, 28} : n = Len(address)
  OBVIOUS
<1>1. /\ SizeOfArray(address) = 1 + n /\ Fits("bytes", address)
      /\ Normal("bytes", address) = address
  <2>1. n < 253 /\ n # 0
    OBVIOUS
  <2>2. Len(address) < 253 /\ Len(address) # 0
    BY <1>0, <2>1, Zenon
  <2> QED BY <1>0, <2>2, ShortArray
<1>2. /\ t["address"] = address /\ t["assetsChainId"] = chainId /\ t["assetsId"] = assetId
      /\ t["amount"] = amount /\ t["lockTime"] = 0
      /\ t = [x \in {"address", "assetsChainId", "assetsId", "amount", "lockTime"} |-> t[x]]
  OBVIOUS
<1>3. /\ DOMAIN CoinTo.type = {"address", "assetsChainId", "assetsId", "amount", "lockTime"}
      /\ CoinTo.type["address"] = "bytes" /\ CoinTo.type["assetsChainId"] = "uint16"
      /\ CoinTo.type["assetsId"] = "uint16" /\ CoinTo.type["amount"] = "BigInteger"
      /\ CoinTo.type["lockTime"] = "int64"
  BY DEF CoinTo
<1>4. FieldsFit(CoinTo, t)
  BY <1>1, <1>2, <1>3, ZeroFits DEF FieldsFit
<1>5. Reproduced(CoinTo, t) = t
  <2>1. \A x \in DOMAIN CoinTo.type : Normal(CoinTo.type[x], t[x]) = t[x]
    BY <1>1, <1>2, <1>3, NormalNumber
  <2> QED BY <1>2, <1>3, <2>1 DEF Reproduced
<1>6. Size(CoinTo, t) = 45 + n
  <2>1. Fields(CoinTo) = 5
    BY DEF Fields, CoinTo, ToWritten
  <2>2. /\ CoinTo.written[1] = "address" /\ CoinTo.written[2] = "assetsChainId"
        /\ CoinTo.written[3] = "assetsId" /\ CoinTo.written[4] = "amount"
        /\ CoinTo.written[5] = "lockTime"
    BY DEF CoinTo, ToWritten
  <2>3. /\ SizeAt(CoinTo, t, 1) = SizeOfField("bytes", address)
        /\ SizeAt(CoinTo, t, 2) = SizeOfField("uint16", chainId)
        /\ SizeAt(CoinTo, t, 3) = SizeOfField("uint16", assetId)
        /\ SizeAt(CoinTo, t, 4) = SizeOfField("BigInteger", amount)
        /\ SizeAt(CoinTo, t, 5) = SizeOfField("int64", 0)
    BY <1>2, <1>3, <2>2 DEF SizeAt, TypeAt, ValueAt
  <2>4. SizeOfField("bytes", address) = 1 + n
    BY <1>1, WrittenOther
  <2>5. /\ SizeOfField("uint16", chainId) = 2 /\ SizeOfField("uint16", assetId) = 2
        /\ SizeOfField("BigInteger", amount) = 32 /\ SizeOfField("int64", 0) = 8
    BY WrittenNumber, Widths DEF Numbers
  <2> DEFINE z == [i \in 1 .. 5 |-> SizeAt(CoinTo, t, i)]
  <2>6. Size(CoinTo, t) = SumOf(z)
    BY <1>4, <2>1, ClassItems, ToInOrder
  <2>7. \A i \in 1 .. 5 : SizeAt(CoinTo, t, i) \in Nat
    BY <1>4, <2>1, ItemFacts, ToInOrder
  <2>8. /\ z \in Seq(Nat) /\ Len(z) = 5
        /\ z[1] = 1 + n /\ z[2] = 2 /\ z[3] = 2 /\ z[4] = 32 /\ z[5] = 8
    BY <2>3, <2>4, <2>5, <2>7
  <2> HIDE DEF z
  <2>9. SumOf(z) = z[1] + z[2] + z[3] + z[4] + z[5]
    BY <2>8, SumOfFive
  <2> QED BY <2>6, <2>8, <2>9
<1> QED BY <1>0, <1>4, <1>5, <1>6

\* What a transfer adds to the coins.
ToSize(o) == IF Value(o) > 0 THEN 45 + Len(AddTo(o.contract)) ELSE 0

\* The coins of an order come back as they are, whatever the amount.
LEMMA OrderCoins ==
  ASSUME NEW o, Made(o), NEW amount, Fits("BigInteger", amount),
         NEW c, c = CoinsOf(o, amount)
  PROVE  /\ CoinsFit(c) /\ CoinsSize(c) = 72 + ToSize(o)
         /\ c.to = IF Value(o) > 0
                   THEN <<[address |-> AddTo(o.contract), assetsChainId |-> o.chainId,
                           assetsId |-> o.assetId, amount |-> Value(o), lockTime |-> 0]>>
                   ELSE <<>>
<1>1. PICK f : f = [address |-> o.sender, assetsChainId |-> o.chainId, assetsId |-> o.assetId,
                    amount |-> amount, nonce |-> o.nonce, locked |-> 0]
  OBVIOUS
<1>2. PICK t : t = [address |-> AddTo(o.contract), assetsChainId |-> o.chainId,
                    assetsId |-> o.assetId, amount |-> Value(o), lockTime |-> 0]
  OBVIOUS
<1>3. c = [from |-> <<f>>, to |-> IF Value(o) > 0 THEN <<t>> ELSE <<>>]
  BY <1>1, <1>2 DEF CoinsOf
<1>4. c.from = <<f>> /\ c.to = (IF Value(o) > 0 THEN <<t>> ELSE <<>>) /\ c = [from |-> c.from, to |-> c.to]
  BY <1>3
<1>5. FieldsFit(CoinFrom, f) /\ Reproduced(CoinFrom, f) = f /\ Size(CoinFrom, f) = 70
  BY <1>1, OrderFields, FromCoin
<1>6. AllFit(CoinFrom, c.from) /\ Len(c.from) = 1 /\ c.from[1] = f /\ SumOf(Sizes(CoinFrom, c.from)) = 70
  BY <1>4, <1>5, ListOfOne, ListedClasses
<1>7. \A i \in 1 .. Len(c.from) : Reproduced(CoinFrom, c.from[i]) = c.from[i]
  BY <1>5, <1>6
<1>8. IsInt(0) /\ IsInt(1) /\ VarIntSize(0) = 1 /\ VarIntSize(1) = 1
  BY SmallNumber DEF VarIntSize
<1>9. CoinsSize(c) = VarIntSize(Len(c.from)) + SumOf(Sizes(CoinFrom, c.from))
                       + VarIntSize(Len(c.to)) + SumOf(Sizes(CoinTo, c.to))
  BY DEF CoinsSize, Sizes
<1>10. CASE Value(o) > 0
  <2>1. AddTo(o.contract) \in Seq(Byte) /\ Len(AddTo(o.contract)) \in {23, 26, 28}
    BY OrderFields, ScriptBytes
  <2>2. FieldsFit(CoinTo, t) /\ Reproduced(CoinTo, t) = t /\ Size(CoinTo, t) = 45 + Len(AddTo(o.contract))
    BY <1>2, <2>1, OrderFields, ToCoin
  <2>3. /\ AllFit(CoinTo, c.to) /\ Len(c.to) = 1 /\ c.to[1] = t
        /\ SumOf(Sizes(CoinTo, c.to)) = Size(CoinTo, t)
    BY <1>4, <1>10, <2>2, ListOfOne, ListedClasses
  <2>4. \A i \in 1 .. Len(c.to) : Reproduced(CoinTo, c.to[i]) = c.to[i]
    BY <2>2, <2>3
  <2>5. CoinsFit(c)
    BY <1>4, <1>6, <1>7, <1>8, <2>3, <2>4 DEF CoinsFit
  <2>6. ToSize(o) = Size(CoinTo, t) /\ Len(AddTo(o.contract)) \in Nat
    BY <1>10, <2>1, <2>2 DEF ToSize
  <2>7. CoinsSize(c) = 1 + 70 + 1 + ToSize(o) /\ ToSize(o) \in Nat
    BY <1>6, <1>8, <1>9, <2>2, <2>3, <2>6
  <2> QED BY <1>2, <1>4, <1>10, <2>5, <2>7
<1>11. CASE ~ (Value(o) > 0)
  <2>1. AllFit(CoinTo, c.to) /\ Len(c.to) = 0 /\ SumOf(Sizes(CoinTo, c.to)) = 0
    BY <1>4, <1>11, ListOfNone
  <2>2. CoinsFit(c)
    BY <1>4, <1>6, <1>7, <1>8, <2>1 DEF CoinsFit
  <2>3. CoinsSize(c) = 1 + 70 + 1 + 0
    BY <1>6, <1>8, <1>9, <2>1
  <2>4. ToSize(o) = 0
    BY <1>11 DEF ToSize
  <2> QED BY <1>2, <1>4, <1>11, <2>2, <2>3, <2>4
<1> QED BY <1>10, <1>11

\* Unless a script is paid, they are as long as ContractTx says.
LEMMA OrderCoinsSize ==
  ASSUME NEW o, Made(o)
  PROVE  /\ ToSize(o) \in 0 .. 73
         /\ o.contract[1] # 3 => 72 + ToSize(o) = CoinDataSize(Value(o))
<1>1. PICK n : n = Len(AddTo(o.contract))
  OBVIOUS
<1>2. n \in {23, 26, 28} /\ (o.contract[1] # 3 => n = 23)
  BY <1>1, OrderFields, ScriptBytes
<1>3. ToSize(o) = IF Value(o) > 0 THEN 45 + n ELSE 0
  BY <1>1 DEF ToSize
<1>4. ToSize(o) \in 0 .. 73
  BY <1>2, <1>3
<1>5. o.contract[1] # 3 => 72 + ToSize(o) = CoinDataSize(Value(o))
  BY <1>2, <1>3 DEF CoinDataSize
<1> QED BY <1>4, <1>5

-----------------------------------------------------------------------------
(***************************************************************************)
(* The transaction                                                         *)
(***************************************************************************)

\* A transaction of these parts.
TxOf(type, time, remark, d, c, s) ==
  [type |-> type, time |-> time, remark |-> remark,
   txData |-> d, coinData |-> c, transactionSignature |-> s]

\* Its fields by name,
LEMMA TxFields ==
  ASSUME NEW type, NEW time, NEW remark, NEW d, NEW c, NEW s,
         NEW t, t = TxOf(type, time, remark, d, c, s)
  PROVE  /\ t["type"] = type /\ t["time"] = time /\ t["remark"] = remark
         /\ t["txData"] = d /\ t["coinData"] = c /\ t["transactionSignature"] = s
BY DEF TxOf

\* and their types.
LEMMA TxTypes ==
  /\ DOMAIN Transaction.type = {"type", "time", "remark", "txData", "coinData", "transactionSignature"}
  /\ Transaction.type["type"] = "uint16" /\ Transaction.type["time"] = "uint32"
  /\ Transaction.type["remark"] = "bytes" /\ Transaction.type["txData"] = "bytes"
  /\ Transaction.type["coinData"] = "bytes" /\ Transaction.type["transactionSignature"] = "bytes"
BY DEF Transaction

\* null or an array.
IsBytes(v) == v = Null \/ IsArray(v)

\* A transaction of parts that fit, fits; its size.
LEMMA TxFits ==
  ASSUME NEW type, Fits("uint16", type), NEW time, Fits("uint32", time),
         NEW remark, IsBytes(remark), NEW d, IsBytes(d), NEW c, IsBytes(c), NEW s, IsBytes(s),
         NEW t, t = TxOf(type, time, remark, d, c, s)
  PROVE  /\ FieldsFit(Transaction, t)
         /\ Size(Transaction, t) = 6 + SizeOfArray(remark) + SizeOfArray(d) + SizeOfArray(c) + SizeOfArray(s)
         /\ SizeOfArray(remark) \in Nat /\ SizeOfArray(d) \in Nat /\ SizeOfArray(c) \in Nat
         /\ SizeOfArray(s) \in Nat
<1>1. /\ t["type"] = type /\ t["time"] = time /\ t["remark"] = remark
      /\ t["txData"] = d /\ t["coinData"] = c /\ t["transactionSignature"] = s
  BY TxFields
<1>2. Fits("bytes", remark) /\ Fits("bytes", d) /\ Fits("bytes", c) /\ Fits("bytes", s)
  BY FitCases DEF IsBytes
<1>3. FieldsFit(Transaction, t)
  BY <1>1, <1>2, TxTypes DEF FieldsFit
<1>4. Fields(Transaction) = 6
  BY DEF Fields, Transaction
<1>5. /\ Transaction.written[1] = "type" /\ Transaction.written[2] = "time"
      /\ Transaction.written[3] = "remark" /\ Transaction.written[4] = "txData"
      /\ Transaction.written[5] = "coinData" /\ Transaction.written[6] = "transactionSignature"
  BY DEF Transaction
<1>6. /\ SizeAt(Transaction, t, 1) = SizeOfField("uint16", type)
      /\ SizeAt(Transaction, t, 2) = SizeOfField("uint32", time)
      /\ SizeAt(Transaction, t, 3) = SizeOfField("bytes", remark)
      /\ SizeAt(Transaction, t, 4) = SizeOfField("bytes", d)
      /\ SizeAt(Transaction, t, 5) = SizeOfField("bytes", c)
      /\ SizeAt(Transaction, t, 6) = SizeOfField("bytes", s)
  BY <1>1, <1>5, TxTypes DEF SizeAt, TypeAt, ValueAt
<1>7. SizeOfField("uint16", type) = 2 /\ SizeOfField("uint32", time) = 4
  BY WrittenNumber, Widths DEF Numbers
<1>8. /\ SizeOfField("bytes", remark) = SizeOfArray(remark) /\ SizeOfField("bytes", d) = SizeOfArray(d)
      /\ SizeOfField("bytes", c) = SizeOfArray(c) /\ SizeOfField("bytes", s) = SizeOfArray(s)
  BY WrittenOther
<1> DEFINE z == [i \in 1 .. 6 |-> SizeAt(Transaction, t, i)]
<1>9. Size(Transaction, t) = SumOf(z)
  BY <1>3, <1>4, ClassItems, TransactionInOrder
<1>10. \A i \in 1 .. 6 : SizeAt(Transaction, t, i) \in Nat
  BY <1>3, <1>4, ItemFacts, TransactionInOrder
<1>11. /\ z \in Seq(Nat) /\ Len(z) = 6
       /\ z[1] = 2 /\ z[2] = 4 /\ z[3] = SizeOfArray(remark) /\ z[4] = SizeOfArray(d)
       /\ z[5] = SizeOfArray(c) /\ z[6] = SizeOfArray(s)
  BY <1>6, <1>7, <1>8, <1>10
<1> HIDE DEF z
<1>12. SumOf(z) = z[1] + z[2] + z[3] + z[4] + z[5] + z[6]
  BY <1>11, SumOfSix
<1>13. /\ SizeOfArray(remark) \in Nat /\ SizeOfArray(d) \in Nat /\ SizeOfArray(c) \in Nat
       /\ SizeOfArray(s) \in Nat
  <2>0. \A i \in 1 .. 6 : z[i] \in Nat
    BY <1>11, Terms
  <2>1. z[3] \in Nat /\ z[4] \in Nat /\ z[5] \in Nat /\ z[6] \in Nat
    BY <2>0
  <2> QED BY <1>11, <2>1
<1> QED BY <1>3, <1>9, <1>11, <1>12, <1>13

\* It is received as Normal says.
LEMMA TxReceived ==
  ASSUME NEW t, FieldsFit(Transaction, t),
         NEW w, w = Serialize(Transaction, t)
  PROVE  /\ w # Null /\ w \in Seq(Byte) /\ Len(w) = Size(Transaction, t)
         /\ Parse(Transaction, w, 0).val = Reproduced(Transaction, t)
         /\ \A f \in DOMAIN Transaction.type :
              Reproduced(Transaction, t)[f] = Normal(Transaction.type[f], t[f])
<1>1. NoBlank(Transaction, t) /\ AllCountable(Transaction, t)
  BY PlainClass, PlainClasses
<1>2. w # Null /\ w \in Seq(Byte) /\ Len(w) = Size(Transaction, t)
  BY <1>1, Serializes, TransactionInOrder, Beginnings
<1>3. Parse(Transaction, w, 0) = Got(Reproduced(Transaction, t), Len(w))
  BY <1>1, ReadsBack, TransactionInOrder, Beginnings
<1>4. Parse(Transaction, w, 0).val = Reproduced(Transaction, t)
  BY <1>3, GotIs
<1> QED BY <1>2, <1>4 DEF Reproduced

\* An empty array is written as null is.
LEMMA Rewritten ==
  ASSUME NEW v
  PROVE  WriteField("bytes", Normal("bytes", v)) = WriteField("bytes", v)
<1>1. CASE v = <<>>
  <2>1. Normal("bytes", v) = Null
    BY <1>1, NormalCases
  <2>2. WriteBytes(Null) = VarInt(0) /\ WriteBytes(v) = VarInt(0)
    BY <1>1 DEF WriteBytes
  <2>3. WriteField("bytes", v) = WriteBytes(v)
    BY WrittenOther
  <2>4. WriteField("bytes", Null) = WriteBytes(Null)
    BY WrittenOther
  <2> QED BY <2>1, <2>2, <2>3, <2>4
<1>2. CASE v # <<>>
  BY <1>2, NormalCases
<1> QED BY <1>1, <1>2

\* The hash is over type, time, remark, data and coins.
LEMMA HashOf ==
  ASSUME NEW t, NEW u,
         u["type"] = t["type"], u["time"] = t["time"],
         u["remark"] \in {t["remark"], Normal("bytes", t["remark"])},
         u["txData"] \in {t["txData"], Normal("bytes", t["txData"])},
         u["coinData"] \in {t["coinData"], Normal("bytes", t["coinData"])}
  PROVE  SerializeForHash(u) = SerializeForHash(t)
<1> DEFINE hashed(x) == [i \in 1 .. 5 |-> WriteField(Transaction.type[HashWritten[i]], x[HashWritten[i]])]
<1>1. [Transaction EXCEPT !.written = HashWritten].written = HashWritten
      /\ [Transaction EXCEPT !.written = HashWritten].type = Transaction.type
  BY DEF Transaction
<1>2. DOMAIN HashWritten = 1 .. 5 /\ HashWritten[1] = "type" /\ HashWritten[2] = "time"
      /\ HashWritten[3] = "remark" /\ HashWritten[4] = "txData" /\ HashWritten[5] = "coinData"
  BY DEF HashWritten
<1>3. ASSUME NEW x PROVE SerializeForHash(x) = Joined(hashed(x))
  BY <1>1, <1>2 DEF SerializeForHash, Write
<1>4. ASSUME NEW i \in 1 .. 5
      PROVE  WriteField(Transaction.type[HashWritten[i]], u[HashWritten[i]])
               = WriteField(Transaction.type[HashWritten[i]], t[HashWritten[i]])
  <2>1. CASE i \in {1, 2}
    BY <1>2, <2>1
  <2>2. CASE i = 3
    BY <1>2, <2>2, Rewritten, TxTypes
  <2>3. CASE i = 4
    BY <1>2, <2>3, Rewritten, TxTypes
  <2>4. CASE i = 5
    BY <1>2, <2>4, Rewritten, TxTypes
  <2> QED BY <2>1, <2>2, <2>3, <2>4
<1>5. hashed(u) = hashed(t)
  BY <1>4
<1> HIDE DEF hashed
<1> QED BY <1>3, <1>5

-----------------------------------------------------------------------------
(***************************************************************************)
(* The signature                                                           *)
(***************************************************************************)

\* A signature and its key.
IsSignature(key, der, s) ==
  /\ key \in Seq(Byte) /\ Len(key) = 33
  /\ der \in Seq(Byte) /\ Len(der) \in 1 .. 72
  /\ s = [publicKey |-> key, signData |-> der]

\* It fits, and comes back as it is.
LEMMA SignatureFits ==
  ASSUME NEW key, NEW der, NEW s, IsSignature(key, der, s)
  PROVE  /\ FieldsFit(P2PHKSignature, s) /\ Reproduced(P2PHKSignature, s) = s
         /\ Size(P2PHKSignature, s) = 35 + Len(der)
<1>0. /\ key \in Seq(Byte) /\ Len(key) = 33
      /\ der \in Seq(Byte) /\ s = [publicKey |-> key, signData |-> der]
  BY DEF IsSignature
<1>1. PICK n \in 1 .. 72 : n = Len(der)
  BY DEF IsSignature
<1>2. /\ SizeOfArray(der) = 1 + n /\ Fits("bytes", der)
      /\ Normal("bytes", der) = der
  <2>1. n < 253 /\ n # 0
    OBVIOUS
  <2>2. Len(der) < 253 /\ Len(der) # 0
    BY <1>1, <2>1, Zenon
  <2> QED BY <1>0, <1>1, <2>2, ShortArray
<1>3. Fits("key", key)
  <2>1. 33 < 128
    OBVIOUS
  <2>2. Len(key) < 128
    BY <1>0, <2>1, Zenon
  <2> QED BY <1>0, <2>2, FitCases
<1>4. /\ s["publicKey"] = key /\ s["signData"] = der
      /\ s = [x \in {"publicKey", "signData"} |-> s[x]]
  BY <1>0
<1>5. /\ DOMAIN P2PHKSignature.type = {"publicKey", "signData"}
      /\ P2PHKSignature.type["publicKey"] = "key" /\ P2PHKSignature.type["signData"] = "bytes"
  BY DEF P2PHKSignature
<1>6. FieldsFit(P2PHKSignature, s)
  BY <1>2, <1>3, <1>4, <1>5 DEF FieldsFit
<1>7. Reproduced(P2PHKSignature, s) = s
  <2>1. \A x \in DOMAIN P2PHKSignature.type : Normal(P2PHKSignature.type[x], s[x]) = s[x]
    BY <1>2, <1>4, <1>5, NormalNumber
  <2> QED BY <1>4, <1>5, <2>1 DEF Reproduced
<1>8. Size(P2PHKSignature, s) = 35 + n
  <2>1. Fields(P2PHKSignature) = 2
    BY DEF Fields, P2PHKSignature, SignatureWritten
  <2>2. P2PHKSignature.written[1] = "publicKey" /\ P2PHKSignature.written[2] = "signData"
    BY DEF P2PHKSignature, SignatureWritten
  <2>3. /\ SizeAt(P2PHKSignature, s, 1) = SizeOfField("key", key)
        /\ SizeAt(P2PHKSignature, s, 2) = SizeOfField("bytes", der)
    BY <1>4, <1>5, <2>2 DEF SizeAt, TypeAt, ValueAt
  <2>4. SizeOfField("bytes", der) = 1 + n
    BY <1>2, WrittenOther
  <2>5. SizeOfField("key", key) = 34
    <3>1. SizeOfField("key", key) = 1 + Len(key)
      BY WrittenOther
    <3> QED BY <1>0, <3>1
  <2> DEFINE z == [i \in 1 .. 2 |-> SizeAt(P2PHKSignature, s, i)]
  <2>6. Size(P2PHKSignature, s) = SumOf(z)
    BY <1>6, <2>1, ClassItems, SignatureInOrder
  <2>7. \A i \in 1 .. 2 : SizeAt(P2PHKSignature, s, i) \in Nat
    BY <1>6, <2>1, ItemFacts, SignatureInOrder
  <2>8. z \in Seq(Nat) /\ Len(z) = 2 /\ z[1] = 34 /\ z[2] = 1 + n
    BY <2>3, <2>4, <2>5, <2>7
  <2> HIDE DEF z
  <2>9. SumOf(z) = z[1] + z[2]
    BY <2>8, SumOfTwo
  <2> QED BY <2>6, <2>8, <2>9
<1> QED BY <1>1, <1>6, <1>7, <1>8

\* One signature, as written.
LEMMA SignatureBytes ==
  ASSUME NEW key, NEW der, NEW s, IsSignature(key, der, s), NEW sigs, sigs = <<s>>,
         NEW in, in = SignaturesWrite(sigs)
  PROVE  /\ in \in Seq(Byte) /\ Len(in) = 35 + Len(der) /\ Len(in) \in 36 .. 107
         /\ Serialized(SignaturesSize(sigs), in) = in
         /\ ReadNulsData(P2PHKSignature, in, 0) = Got(s, Len(in))
<1>1. /\ FieldsFit(P2PHKSignature, s) /\ Reproduced(P2PHKSignature, s) = s
      /\ Size(P2PHKSignature, s) = 35 + Len(der)
  BY SignatureFits
<1>2. PICK n \in 1 .. 72 : n = Len(der)
  BY DEF IsSignature
<1>3. /\ AllFit(P2PHKSignature, sigs) /\ Len(sigs) = 1 /\ sigs[1] = s
      /\ SumOf(Sizes(P2PHKSignature, sigs)) = 35 + n
  BY <1>1, <1>2, ListOfOne, ListedClasses
<1>4. PICK items : items = Pieces(P2PHKSignature, sigs)
  OBVIOUS
<1>5. /\ items \in Seq(Seq(Byte)) /\ Len(items) = 1 /\ items[1] = Serialize(P2PHKSignature, s)
      /\ Joined(items) \in Seq(Byte) /\ Len(Joined(items)) = SumOf(Sizes(P2PHKSignature, sigs))
  BY <1>3, <1>4, ListBytes, ListedClasses
<1>6. in = Joined(items)
  BY <1>4 DEF SignaturesWrite, Pieces
<1>7. in \in Seq(Byte) /\ Len(in) = 35 + n
  BY <1>3, <1>5, <1>6
<1>8. SignaturesSize(sigs) = 35 + n
  BY <1>3 DEF SignaturesSize, Sizes
<1>9. Serialized(SignaturesSize(sigs), in) = in
  <2>1. 35 + n # 0
    OBVIOUS
  <2> QED BY <1>7, <1>8, <2>1 DEF Serialized
<1>10. ReadNulsData(P2PHKSignature, in, 0) = Got(s, Len(in))
  <2>1. Occurs(Joined(items), in, 0)
    BY <1>6, <1>7, OccursWhole
  <2>2. PICK pos : /\ Laid(items, in, pos) /\ pos[0] = 0
                   /\ pos[Len(items)] = 0 + Len(Joined(items))
    <3>1. items \in Seq(Seq(Byte))
      BY <1>5
    <3> QED BY <2>1, <3>1, JoinedLaid
  <2>3. pos[1] = pos[1 - 1] + Len(items[1]) /\ Occurs(items[1], in, pos[1 - 1])
    BY <1>5, <2>2 DEF Laid
  <2>4. 1 - 1 = 0
    OBVIOUS
  <2>5. Occurs(Serialize(P2PHKSignature, s), in, 0)
    BY <1>5, <2>2, <2>3, <2>4
  <2>6. ReadNulsData(P2PHKSignature, in, 0) = Got(s, 0 + Len(Serialize(P2PHKSignature, s)))
    BY <1>1, <2>5, OneFound, ListedClasses
  <2>7. 0 + Len(Serialize(P2PHKSignature, s)) = Len(in)
    BY <1>5, <1>6, <1>7, <2>2, <2>3, <2>4
  <2> QED BY <2>6, <2>7
<1>11. 35 + n \in 36 .. 107
  OBVIOUS
<1>12. Len(in) \in 36 .. 107 /\ Len(in) = 35 + Len(der)
  BY <1>2, <1>7, <1>11, Zenon
<1> QED BY <1>7, <1>9, <1>10, <1>12

\* The signatures read so far.
UpTo(in, f) ==
  f = [k \in 0 .. Len(in) \div 2 |->
        IF k = 0 THEN Got(<<>>, 0)
        ELSE Then(f[k - 1],
                  LAMBDA sigs, p :
                    IF p = Len(in) THEN Got(sigs, p)
                    ELSE Then(ReadNulsData(P2PHKSignature, in, p),
                              LAMBDA sig, q : Got(Append(sigs, sig), q)))]

LEMMA SignaturesFound ==
  ASSUME NEW in \in Seq(Byte), Len(in) \in 36 .. 107,
         NEW s, ReadNulsData(P2PHKSignature, in, 0) = Got(s, Len(in))
  PROVE  SignaturesParse(in) = Got(<<s>>, Len(in))
<1>0. PICK n \in 36 .. 107 : n = Len(in)
  OBVIOUS
<1> DEFINE one == Got(<<s>>, n)
           none == Got(<<>>, 0)
           Further(r) == Then(r, LAMBDA sigs, p :
                                IF p = Len(in) THEN Got(sigs, p)
                                ELSE Then(ReadNulsData(P2PHKSignature, in, p),
                                          LAMBDA sig, q : Got(Append(sigs, sig), q)))
<1>1. n \in Nat /\ n # 0 /\ n \div 2 \in Nat /\ n \div 2 >= 1
  OBVIOUS
<1>2. Further(none) = one
  <2>1. PICK r : r = ReadNulsData(P2PHKSignature, in, 0)
    OBVIOUS
  <2>2. r.ok /\ r.val = s /\ r.at = n
    BY <1>0, <2>1, GotIs
  <2>3. none.ok /\ none.val = <<>> /\ none.at = 0
    BY GotIs
  <2> HIDE DEF none
  <2>4. Further(none) = Got(Append(<<>>, r.val), r.at)
    BY <1>0, <1>1, <2>1, <2>2, <2>3 DEF Then
  <2>5. Append(<<>>, s) = <<s>>
    OBVIOUS
  <2> QED BY <2>2, <2>4, <2>5
<1>3. Further(one) = one
  <2>1. one.ok /\ one.val = <<s>> /\ one.at = n
    BY GotIs
  <2>2. PICK x : x = one
    OBVIOUS
  <2>3. Further(x) = Got(x.val, x.at)
    BY <1>0, <2>1, <2>2 DEF Then
  <2> QED BY <2>1, <2>2, <2>3
<1> DEFINE g == [k \in 0 .. n \div 2 |-> IF k = 0 THEN none ELSE one]
<1> HIDE DEF one, none
<1>4. UpTo(in, g)
  <2>1. ASSUME NEW k \in 0 .. n \div 2
        PROVE  g[k] = IF k = 0 THEN none ELSE Further(g[k - 1])
    <3>1. CASE k = 0
      BY <3>1
    <3>2. CASE k = 1
      <4>1. k - 1 = 0 /\ g[0] = none /\ g[k] = one
        BY <1>1, <3>2
      <4> QED BY <1>2, <3>2, <4>1
    <3>3. CASE k # 0 /\ k # 1
      <4>1. k - 1 \in 0 .. n \div 2 /\ k - 1 # 0
        BY <1>1, <3>3
      <4>2. g[k] = one /\ g[k - 1] = one
        BY <3>3, <4>1
      <4> QED BY <1>3, <3>3, <4>2
    <3> QED BY <3>1, <3>2, <3>3
  <2> HIDE DEF g
  <2>2. g = [k \in 0 .. n \div 2 |-> g[k]]
    BY DEF g
  <2>3. g = [k \in 0 .. Len(in) \div 2 |-> IF k = 0 THEN none ELSE Further(g[k - 1])]
    <3> HIDE DEF Further
    <3> QED BY <1>0, <2>1, <2>2
  <2> QED BY <2>3, Zenon DEF UpTo, none
<1> DEFINE f == CHOOSE f : UpTo(in, f)
<1>5. UpTo(in, f)
  BY <1>4
<1>6. SignaturesParse(in) = f[n \div 2]
  BY <1>0, Zenon DEF SignaturesParse, UpTo
<1> HIDE DEF f
<1>7. ASSUME NEW k \in 0 .. n \div 2 PROVE f[k] = IF k = 0 THEN none ELSE Further(f[k - 1])
  <2>1. f = [j \in 0 .. Len(in) \div 2 |-> IF j = 0 THEN none ELSE Further(f[j - 1])]
    BY <1>5, Zenon DEF UpTo, none
  <2> HIDE DEF Further
  <2> QED BY <1>0, <2>1
<1> HIDE DEF Further
<1>8. ASSUME NEW k \in 1 .. n \div 2 PROVE f[k] = one
  <2> DEFINE Bad == {j \in 1 .. n \div 2 : f[j] # one}
  <2> SUFFICES ASSUME Bad # {} PROVE FALSE
    OBVIOUS
  <2>1. PICK j \in Bad : \A i \in Bad : j <= i
    <3>1. Bad \in SUBSET Nat
      BY <1>1
    <3> HIDE DEF Bad
    <3> QED BY <3>1, LeastNumber
  <2>2. j \in 1 .. n \div 2 /\ f[j] # one /\ j \in 0 .. n \div 2 /\ j # 0
    BY <1>1
  <2>3. f[j] = Further(f[j - 1])
    BY <1>7, <2>2
  <2>4. CASE j = 1
    <3>1. j - 1 = 0 /\ f[0] = none
      BY <1>1, <1>7, <2>4
    <3> QED BY <1>2, <2>2, <2>3, <3>1
  <2>5. CASE j # 1
    <3>1. j - 1 \in 1 .. n \div 2 /\ ~ (j <= j - 1)
      BY <1>1, <2>2, <2>5
    <3>2. f[j - 1] = one
      BY <2>1, <3>1
    <3> QED BY <1>3, <2>2, <2>3, <3>2
  <2> QED BY <2>4, <2>5
<1>9. n \div 2 \in 1 .. n \div 2
  BY <1>1
<1> QED BY <1>0, <1>6, <1>8, <1>9 DEF one

-----------------------------------------------------------------------------
(***************************************************************************)
(* What an order becomes, and what arrives of it                           *)
(***************************************************************************)

\* A non-empty array is received as it was.
LEMMA SentArray ==
  ASSUME NEW v, v \in Seq(Byte), IsInt(Len(v)), Len(v) >= 1
  PROVE  /\ IsBytes(v) /\ v # Null /\ Normal("bytes", v) = v
         /\ SizeOfArray(v) = CalcSize(Len(v)) + 1 /\ CalcSize(Len(v)) \in Nat
<1>1. v # Null
  BY NullAssumption
<1>2. v # <<>>
  OBVIOUS
<1>3. PICK n \in Nat : n = Len(v)
  OBVIOUS
<1>4. SizeOfArray(v) = SizeOfBytes(n)
  BY <1>1, <1>3 DEF SizeOfArray
<1>5. SizeOfBytes(n) = CalcSize(n) + 1 /\ CalcSize(n) \in Nat
  BY DEF SizeOfBytes, CalcSize, VarIntSize
<1> QED BY <1>1, <1>2, <1>3, <1>4, <1>5, NormalCases DEF IsBytes, IsArray

\* What becomes of an order: its remark, what is taken from the sender, its data
\* and coins, the signatures of an account, the transaction.
RemarkOf(o) == IF IsBlank(o.remark) THEN Null ELSE o.remark
Total(o) == Gas(o) + Value(o) + FeeOf(NewTx(o), o)
DataBytes(o) == Serialize(TxData[o.op], DataOf(o))
CoinBytes(o) == CoinsWrite(CoinsOf(o, Total(o)))
SigsOf(a, der) == <<[publicKey |-> a.pubKey, signData |-> der]>>
Final(o, s) == TxOf(TypeOf[o.op], o.time, RemarkOf(o), DataBytes(o), CoinBytes(o), s)

\* What the transaction takes from the order fits.
LEMMA OrderRemark ==
  ASSUME NEW o, Made(o)
  PROVE  /\ IsBytes(RemarkOf(o)) /\ Fits("uint16", TypeOf[o.op]) /\ Fits("uint32", o.time)
         /\ RemarkOf(o) # Null => Len(RemarkOf(o)) \in Nat
<1>1. IsBytes(RemarkOf(o))
  BY OrderFields DEF RemarkOf, IsBytes
<1>2. TypeOf[o.op] \in {15, 16, 17}
  BY OrderData DEF TypeOf
<1>3. Fits("uint16", TypeOf[o.op])
  <2>1. ASSUME NEW n \in {15, 16, 17} PROVE n \in Nat /\ n <= 65535
    OBVIOUS
  <2> QED BY <1>2, <2>1, SmallNumber
<1> QED BY <1>1, <1>3, OrderFields DEF IsBytes, IsArray, IsInt

\* The data are serialized unless a text is blank.
LEMMA OrderBytes ==
  ASSUME NEW o, Made(o), NEW d, d = DataBytes(o)
  PROVE  /\ ~ HasBlankText(o) => /\ d \in Seq(Byte) /\ IsInt(Len(d)) /\ Len(d) >= 1
                                 /\ Len(d) = Size(TxData[o.op], DataOf(o))
         /\ HasBlankText(o) => d = Null
<1>1. /\ InOrder(TxData[o.op]) /\ Begins(TxData[o.op]) /\ FieldsFit(TxData[o.op], DataOf(o))
      /\ IsInt(Size(TxData[o.op], DataOf(o)))
      /\ NoBlank(TxData[o.op], DataOf(o)) <=> ~ HasBlankText(o)
  BY OrderData
<1>2. CASE ~ HasBlankText(o)
  BY <1>1, <1>2, Serializes DEF DataBytes
<1>3. CASE HasBlankText(o)
  BY <1>1, <1>3, Serializes DEF DataBytes
<1> QED BY <1>2, <1>3

\* The coins always are, and are read back.
LEMMA OrderCoinBytes ==
  ASSUME NEW o, Made(o), NEW c, c = CoinBytes(o),
         NEW coin, coin = CoinsOf(o, Total(o))
  PROVE  /\ c \in Seq(Byte) /\ IsInt(Len(c)) /\ Len(c) >= 1
         /\ Len(c) = 72 + ToSize(o) /\ ToSize(o) \in Nat
         /\ Serialized(CoinsSize(coin), CoinsWrite(coin)) = c
         /\ CoinsParse(c) = Got(coin, Len(c))
<1>1. Fits("BigInteger", Total(o))
  BY OrderFields DEF Total
<1>2. CoinsFit(coin) /\ CoinsSize(coin) = 72 + ToSize(o)
  BY <1>1, OrderCoins
<1>3. c = CoinsWrite(coin)
  BY DEF CoinBytes
<1>4. /\ c \in Seq(Byte) /\ CoinsSize(coin) \in Nat /\ CoinsSize(coin) >= 2
      /\ Len(c) = CoinsSize(coin) /\ CoinsParse(c) = Got(coin, Len(c))
  BY <1>2, <1>3, CoinsFound
<1>5. ToSize(o) \in 0 .. 73
  BY OrderCoinsSize
<1>6. IsInt(72 + ToSize(o))
  BY <1>5, SmallNumber
<1>7. CoinsSize(coin) # 0
  BY <1>4
<1>8. Serialized(CoinsSize(coin), c) = c
  BY <1>4, <1>7 DEF Serialized
<1>9. Len(c) >= 1
  BY <1>4
<1>10. ToSize(o) \in Nat /\ Len(c) = 72 + ToSize(o)
  <2>1. ASSUME NEW n \in 0 .. 73 PROVE n \in Nat
    OBVIOUS
  <2>2. ToSize(o) \in Nat
    BY <1>5, <2>1
  <2>3. Len(c) = CoinsSize(coin)
    BY <1>4
  <2> QED BY <1>2, <2>2, <2>3, Zenon
<1>11. IsInt(Len(c))
  BY <1>6, <1>10
<1>12. Serialized(CoinsSize(coin), CoinsWrite(coin)) = c
  BY <1>3, <1>8
<1> QED BY <1>4, <1>9, <1>10, <1>11, <1>12

\* What is sent: all but the signature comes from the order.
LEMMA SentTx ==
  ASSUME NEW o, Made(o), ~ HasBlankText(o),
         NEW s, s \in Seq(Byte), Len(s) \in 36 .. 107,
         NEW t, t = Final(o, s), NEW w, w = Serialize(Transaction, t)
  PROVE  /\ w # Null /\ Len(w) = Size(Transaction, t)
         /\ Parse(Transaction, w, 0).val = Reproduced(Transaction, t)
         /\ Reproduced(Transaction, t).txData = DataBytes(o)
         /\ Reproduced(Transaction, t).coinData = CoinBytes(o)
         /\ Reproduced(Transaction, t).transactionSignature = s
         /\ SerializeForHash(Reproduced(Transaction, t)) = SerializeForHash(t)
         /\ Size(Transaction, t) = 6 + SizeOfArray(RemarkOf(o)) + SizeOfArray(DataBytes(o))
                                     + SizeOfArray(CoinBytes(o)) + SizeOfArray(s)
         /\ SizeOfArray(RemarkOf(o)) \in Nat
         /\ SizeOfArray(s) \in 0 .. 108
<1>1. PICK d, c : d = DataBytes(o) /\ c = CoinBytes(o)
  OBVIOUS
<1>2. /\ d \in Seq(Byte) /\ IsInt(Len(d)) /\ Len(d) >= 1
      /\ c \in Seq(Byte) /\ IsInt(Len(c)) /\ Len(c) >= 1
  BY <1>1, OrderBytes, OrderCoinBytes
<1>3. PICK n \in 36 .. 107 : n = Len(s)
  OBVIOUS
<1>4. /\ IsInt(Len(s)) /\ Len(s) >= 1
  <2>1. IsInt(n) /\ n >= 1
    BY SmallNumber
  <2> QED BY <1>3, <2>1
<1>5. /\ IsBytes(d) /\ Normal("bytes", d) = d /\ IsBytes(c) /\ Normal("bytes", c) = c
      /\ IsBytes(s) /\ Normal("bytes", s) = s
      /\ SizeOfArray(s) = CalcSize(Len(s)) + 1
  BY <1>2, <1>4, SentArray
<1>6. SizeOfArray(s) \in 0 .. 108
  <2>1. CalcSize(n) + 1 \in 0 .. 108
    BY DEF CalcSize, VarIntSize
  <2> QED BY <1>3, <1>5, <2>1, Zenon
<1>7. t = TxOf(TypeOf[o.op], o.time, RemarkOf(o), d, c, s)
  BY <1>1 DEF Final
<1>8. /\ IsBytes(RemarkOf(o)) /\ Fits("uint16", TypeOf[o.op]) /\ Fits("uint32", o.time)
  BY OrderRemark
<1>9. /\ FieldsFit(Transaction, t)
      /\ Size(Transaction, t) = 6 + SizeOfArray(RemarkOf(o)) + SizeOfArray(d)
                                  + SizeOfArray(c) + SizeOfArray(s)
      /\ SizeOfArray(RemarkOf(o)) \in Nat
  BY <1>5, <1>7, <1>8, TxFits
<1>10. PICK r : r = Reproduced(Transaction, t)
  OBVIOUS
<1>11. /\ w # Null /\ Len(w) = Size(Transaction, t)
       /\ Parse(Transaction, w, 0).val = r
       /\ \A f \in DOMAIN Transaction.type : r[f] = Normal(Transaction.type[f], t[f])
  BY <1>9, <1>10, TxReceived
<1>12. /\ t["type"] = TypeOf[o.op] /\ t["time"] = o.time /\ t["remark"] = RemarkOf(o)
       /\ t["txData"] = d /\ t["coinData"] = c /\ t["transactionSignature"] = s
  BY <1>7, TxFields
<1>13. /\ r["type"] = t["type"] /\ r["time"] = t["time"]
       /\ r["remark"] = Normal("bytes", t["remark"])
       /\ r["txData"] = d /\ r["coinData"] = c /\ r["transactionSignature"] = s
  BY <1>5, <1>11, <1>12, TxTypes, NormalNumber
<1>14. SerializeForHash(r) = SerializeForHash(t)
  BY <1>12, <1>13, HashOf
<1> QED BY <1>1, <1>6, <1>9, <1>10, <1>11, <1>13, <1>14

-----------------------------------------------------------------------------
(***************************************************************************)
(* The fee                                                                 *)
(***************************************************************************)

\* More bytes cost no less.
LEMMA NormalTxFeeGrows ==
  ASSUME NEW a \in Nat, NEW b \in Nat, a <= b
  PROVE  NormalTxFee(a) <= NormalTxFee(b)
<1> DEFINE p == a \div 1024
           q == b \div 1024
           x == a % 1024
           y == b % 1024
<1>1. p \in Nat /\ q \in Nat /\ x \in 0 .. 1023 /\ y \in 0 .. 1023
  OBVIOUS
<1>2. a = 1024 * p + x /\ b = 1024 * q + y
  OBVIOUS
<1>3. /\ NormalTxFee(a) = 100000 * p + (IF x > 0 THEN 100000 ELSE 0)
      /\ NormalTxFee(b) = 100000 * q + (IF y > 0 THEN 100000 ELSE 0)
  BY DEF NormalTxFee
<1> HIDE DEF p, q, x, y
<1>4. p <= q /\ (p = q => x <= y)
  BY <1>1, <1>2
<1>5. CASE p = q
  BY <1>1, <1>3, <1>4, <1>5
<1>6. CASE p + 1 <= q
  BY <1>1, <1>3, <1>6
<1> QED BY <1>1, <1>4, <1>5, <1>6

\* The fee in terms of what the order has.
LEMMA OrderFee ==
  ASSUME NEW o, Made(o)
  PROVE  FeeOf(NewTx(o), o)
           = NormalUnsignedTxFee(9 + SizeOfArray(RemarkOf(o))
                                   + CalcSize(Size(TxData[o.op], DataOf(o)))
                                   + CalcSize(72 + ToSize(o)))
<1>1. PICK t : t = NewTx(o)
  OBVIOUS
<1>2. t = TxOf(TypeOf[o.op], o.time, RemarkOf(o), Null, Null, Null)
  BY <1>1 DEF NewTx, TxOf, RemarkOf
<1>3. IsBytes(Null) /\ SizeOfArray(Null) = 1
  BY DEF IsBytes, SizeOfArray
<1>4. /\ Size(Transaction, t) = 6 + SizeOfArray(RemarkOf(o)) + 1 + 1 + 1
      /\ SizeOfArray(RemarkOf(o)) \in Nat
  <2>1. /\ Size(Transaction, t) = 6 + SizeOfArray(RemarkOf(o)) + SizeOfArray(Null)
                                    + SizeOfArray(Null) + SizeOfArray(Null)
        /\ SizeOfArray(RemarkOf(o)) \in Nat
    BY <1>2, <1>3, OrderRemark, TxFits
  <2> QED BY <1>3, <2>1
<1>5. CoinsSize(CoinsOf(o, 0)) = 72 + ToSize(o)
  BY OrderCoins, ZeroFits
<1>6. FeeOf(t, o) = NormalUnsignedTxFee(Size(Transaction, t)
                                          + CalcSize(Size(TxData[o.op], DataOf(o)))
                                          + CalcSize(72 + ToSize(o)))
  BY <1>5 DEF FeeOf
<1>7. Size(Transaction, t) = 9 + SizeOfArray(RemarkOf(o))
  BY <1>4
<1> QED BY <1>1, <1>6, <1>7

\* The fee pays for what is sent.
LEMMA SentFee ==
  ASSUME NEW o, Made(o), ~ HasBlankText(o),
         NEW s, s \in Seq(Byte), Len(s) \in 36 .. 107,
         NEW t, t = Final(o, s)
  PROVE  /\ FeeOf(NewTx(o), o) >= NormalTxFee(Size(Transaction, t))
         /\ o.contract[1] # 3 =>
              FeeOf(NewTx(o), o) = Fee(IF RemarkOf(o) = Null THEN 0 ELSE Len(RemarkOf(o)),
                                       Len(DataBytes(o)), Value(o))
<1>1. PICK d, c : d = DataBytes(o) /\ c = CoinBytes(o)
  OBVIOUS
<1>2. /\ d \in Seq(Byte) /\ IsInt(Len(d)) /\ Len(d) >= 1
      /\ Len(d) = Size(TxData[o.op], DataOf(o))
      /\ c \in Seq(Byte) /\ IsInt(Len(c)) /\ Len(c) >= 1
      /\ Len(c) = 72 + ToSize(o)
  BY <1>1, OrderBytes, OrderCoinBytes
<1>3. PICK x, y, z, r : x = CalcSize(Len(d)) /\ y = CalcSize(Len(c)) /\ z = SizeOfArray(s)
                        /\ r = SizeOfArray(RemarkOf(o))
  OBVIOUS
<1>4. /\ Size(Transaction, t) = 6 + r + (x + 1) + (y + 1) + z
      /\ r \in Nat /\ z \in 0 .. 108 /\ x \in Nat /\ y \in Nat
  <2>1. /\ SizeOfArray(d) = x + 1 /\ x \in Nat /\ SizeOfArray(c) = y + 1 /\ y \in Nat
    BY <1>2, <1>3, SentArray
  <2>2. /\ Size(Transaction, t) = 6 + r + SizeOfArray(d) + SizeOfArray(c) + z
        /\ r \in Nat /\ z \in 0 .. 108
    BY <1>1, <1>3, SentTx
  <2> QED BY <2>1, <2>2
<1>5. FeeOf(NewTx(o), o) = NormalUnsignedTxFee(9 + r + x + y)
  BY <1>2, <1>3, OrderFee
<1>6. FeeOf(NewTx(o), o) = NormalTxFee(9 + r + x + y + 110)
  BY <1>5 DEF NormalUnsignedTxFee
<1>7. FeeOf(NewTx(o), o) >= NormalTxFee(Size(Transaction, t))
  <2>1. PICK m, n : m = 6 + r + (x + 1) + (y + 1) + z /\ n = 9 + r + x + y + 110
    OBVIOUS
  <2>2. m \in Nat /\ n \in Nat /\ m <= n
    BY <1>4, <2>1
  <2>3. NormalTxFee(m) <= NormalTxFee(n)
    BY <2>2, NormalTxFeeGrows
  <2>4. NormalTxFee(m) \in Int /\ NormalTxFee(n) \in Int
    BY <2>2 DEF NormalTxFee
  <2> QED BY <1>4, <1>6, <2>1, <2>3, <2>4
<1>8. ASSUME o.contract[1] # 3
      PROVE  FeeOf(NewTx(o), o) = Fee(IF RemarkOf(o) = Null THEN 0 ELSE Len(RemarkOf(o)),
                                      Len(d), Value(o))
  <2>1. Len(c) = CoinDataSize(Value(o))
    BY <1>2, <1>8, OrderCoinsSize
  <2>2. PICK k : k = IF RemarkOf(o) = Null THEN 0 ELSE Len(RemarkOf(o))
    OBVIOUS
  <2>3. SizeOfBytes(k) = r
    <3>1. CASE RemarkOf(o) = Null
      <4>1. SizeOfBytes(0) = 1
        BY DEF SizeOfBytes, VarIntSize
      <4>2. k = 0 /\ r = 1
        BY <1>3, <2>2, <3>1 DEF SizeOfArray
      <4> QED BY <4>1, <4>2
    <3>2. CASE RemarkOf(o) # Null
      <4>1. k = Len(RemarkOf(o)) /\ r = SizeOfBytes(Len(RemarkOf(o)))
        BY <1>3, <2>2, <3>2 DEF SizeOfArray
      <4> QED BY <4>1
    <3> QED BY <3>1, <3>2
  <2>4. TxSize(k, 0, 0, 0) = 6 + r + 1 + 1 + 1
    <3>1. SizeOfBytes(0) = 1
      BY DEF SizeOfBytes, VarIntSize
    <3> QED BY <2>3, <3>1 DEF TxSize
  <2>5. 6 + r + 1 + 1 + 1 = 9 + r
    BY <1>4
  <2>6. Fee(k, Len(d), Value(o)) = NormalUnsignedTxFee(9 + r + x + y)
    BY <1>3, <2>1, <2>4, <2>5 DEF Fee
  <2> QED BY <1>5, <2>2, <2>6
<1> QED BY <1>1, <1>7, <1>8

-----------------------------------------------------------------------------
(***************************************************************************)
(* The inductive invariant                                                 *)
(***************************************************************************)

\* The values of stage.
Stages == {"start", "saved", "failed", "made", "serialized", "signed", "sent"}

\* The row is that of the account that was saved.
Saved == account \in Accounts /\ row = Serialize(AccountPo, account)

\* data, fee and coins are those of the order.
Prepared ==
  /\ order \in Orders /\ Made(order)
  /\ data = DataOf(order) /\ fee = FeeOf(NewTx(order), order)
  /\ coins = CoinsOf(order, Total(order))

\* What was signed is what the transaction without its signature hashes to.
SignedBy(der) ==
  tx = Final(order, SignaturesWrite(SigsOf(account, der))) /\ digest = SerializeForHash(tx)

\* The order that failed.
FailedFor(o) == o \in Orders /\ (Convertible(o.args, o.types) => HasBlankText(o))

\* The inductive invariant.
IInv ==
  /\ stage \in Stages
  /\ stage # "start" => Saved
  /\ stage = "failed" => FailedFor(order)
  /\ stage \in {"made", "serialized", "signed", "sent"} => Prepared
  /\ stage = "made" => tx = NewTx(order)
  /\ stage \in {"serialized", "signed", "sent"} => ~ HasBlankText(order)
  /\ stage = "serialized" => tx = Final(order, Null)
  /\ stage \in {"signed", "sent"} => \E der \in Ders : SignedBy(der)
  /\ stage = "sent" => wire = Serialize(Transaction, tx)

\* It holds at first,
LEMMA InitHolds == Init => IInv
BY DEF Init, IInv, Stages

\* and is kept by every step.
LEMMA SaveAccountKeeps ==
  ASSUME IInv, NEW a \in Accounts, SaveAccount(a)
  PROVE  IInv'
<1>1. row' = Serialize(AccountPo, a) /\ account' = a
  BY DEF SaveAccount
<1>2. row' # Null
  <2>1. AccountFits(a)
    BY InputsAssumption
  <2> QED BY <1>1, <2>1, AccountSaved
<1>3. stage' = "saved"
  BY <1>2 DEF SaveAccount
<1> QED BY <1>1, <1>3 DEF IInv, Saved, Stages

LEMMA MakeTxKeeps ==
  ASSUME IInv, NEW o \in Orders, MakeTx(o)
  PROVE  IInv'
<1>1. stage = "saved" /\ order' = o /\ Saved' /\ OrderFits(o)
  BY InputsAssumption DEF MakeTx, IInv, Saved
<1>2. CASE o.op # "delete" /\ ~ Convertible(o.args, o.types)
  <2>1. stage' = "failed" /\ FailedFor(order')
    BY <1>1, <1>2 DEF MakeTx, FailedFor
  <2> QED BY <1>1, <2>1 DEF IInv, Stages
<1>3. CASE ~ (o.op # "delete" /\ ~ Convertible(o.args, o.types))
  <2>1. /\ tx' = NewTx(o) /\ data' = DataOf(o) /\ fee' = FeeOf(tx', o)
        /\ coins' = CoinsOf(o, Gas(o) + Value(o) + fee') /\ stage' = "made"
    BY <1>3 DEF MakeTx
  <2>2. Made(o)
    BY <1>1, <1>3 DEF Made
  <2>3. fee' = FeeOf(NewTx(o), o) /\ coins' = CoinsOf(o, Total(o))
    BY <2>1 DEF Total
  <2>4. Prepared'
    BY <1>1, <2>1, <2>2, <2>3 DEF Prepared
  <2> QED BY <1>1, <2>1, <2>4 DEF IInv, Stages
<1> QED BY <1>2, <1>3

LEMMA SerializeDataKeeps ==
  ASSUME IInv, SerializeData
  PROVE  IInv'
<1>1. /\ stage = "made" /\ Saved' /\ Prepared /\ Prepared' /\ tx = NewTx(order) /\ order' = order
  BY DEF SerializeData, IInv, Saved, Prepared
<1>2. Serialize(TxData[order.op], data) = DataBytes(order)
  BY <1>1 DEF Prepared, DataBytes
<1>3. /\ Serialized(CoinsSize(coins), CoinsWrite(coins)) = CoinBytes(order)
      /\ CoinBytes(order) # Null
  <2>1. Made(order) /\ coins = CoinsOf(order, Total(order))
    BY <1>1 DEF Prepared
  <2>2. CoinBytes(order) \in Seq(Byte)
    BY <2>1, OrderCoinBytes
  <2> QED BY <2>1, <2>2, OrderCoinBytes, NullAssumption
<1>4. tx' = [tx EXCEPT !.coinData = CoinBytes(order), !.txData = DataBytes(order)]
  BY <1>2, <1>3 DEF SerializeData
<1>5. tx' = Final(order, Null)
  BY <1>1, <1>4 DEF NewTx, Final, TxOf, RemarkOf
<1>6. tx'.coinData = CoinBytes(order) /\ tx'.txData = DataBytes(order)
  BY <1>5 DEF Final, TxOf
<1>7. stage' = IF DataBytes(order) = Null THEN "failed" ELSE "serialized"
  BY <1>3, <1>6 DEF SerializeData
<1>8. CASE HasBlankText(order)
  <2>1. stage' = "failed"
    BY <1>1, <1>7, <1>8, OrderBytes DEF Prepared
  <2>2. FailedFor(order')
    BY <1>1, <1>8 DEF FailedFor, Prepared
  <2> QED BY <1>1, <2>1, <2>2 DEF IInv, Stages
<1>9. CASE ~ HasBlankText(order)
  <2>1. DataBytes(order) \in Seq(Byte)
    BY <1>1, <1>9, OrderBytes DEF Prepared
  <2>2. stage' = "serialized"
    BY <1>7, <2>1, NullAssumption
  <2> QED BY <1>1, <1>5, <1>9, <2>2 DEF IInv, Stages
<1> QED BY <1>8, <1>9

\* The key read from the row is the account's.
LEMMA KeyRead ==
  ASSUME Saved
  PROVE  /\ Parse(AccountPo, row, 0).val.pubKey = account.pubKey
         /\ account.pubKey \in Seq(Byte) /\ Len(account.pubKey) = 33
<1>1. AccountFits(account) /\ row = Serialize(AccountPo, account)
  BY InputsAssumption DEF Saved
<1>2. PICK r : r = Parse(AccountPo, row, 0)
  OBVIOUS
<1>3. r.val = Reproduced(AccountPo, account)
  BY <1>1, <1>2, AccountSaved, GotIs
<1> QED BY <1>1, <1>2, <1>3, AccountSaved

\* The signature of an account, as written.
LEMMA SignatureMade ==
  ASSUME Saved, NEW der \in Ders, NEW s, s = SignaturesWrite(SigsOf(account, der))
  PROVE  /\ s \in Seq(Byte) /\ Len(s) \in 36 .. 107
         /\ Serialized(SignaturesSize(SigsOf(account, der)), s) = s
         /\ SignaturesParse(s) = Got(SigsOf(account, der), Len(s))
<1>1. PICK g : g = [publicKey |-> account.pubKey, signData |-> der]
  OBVIOUS
<1>2. IsSignature(account.pubKey, der, g)
  BY <1>1, KeyRead, InputsAssumption DEF IsSignature
<1>3. SigsOf(account, der) = <<g>>
  BY <1>1 DEF SigsOf
<1>4. /\ s \in Seq(Byte) /\ Len(s) \in 36 .. 107
      /\ Serialized(SignaturesSize(SigsOf(account, der)), s) = s
      /\ ReadNulsData(P2PHKSignature, s, 0) = Got(g, Len(s))
  BY <1>2, <1>3, SignatureBytes
<1>5. SignaturesParse(s) = Got(<<g>>, Len(s))
  BY <1>4, SignaturesFound
<1> QED BY <1>3, <1>4, <1>5

LEMMA SignDigestKeeps ==
  ASSUME IInv, NEW der \in Ders, SignDigest(der)
  PROVE  IInv'
<1>1. /\ stage = "serialized" /\ Saved /\ Saved' /\ Prepared' /\ ~ HasBlankText(order)
      /\ tx = Final(order, Null) /\ order' = order /\ account' = account
      /\ digest' = SerializeForHash(tx) /\ stage' = "signed"
  BY DEF SignDigest, IInv, Saved, Prepared
<1>2. PICK sigs : sigs = SigsOf(account, der)
  OBVIOUS
<1>3. tx' = [tx EXCEPT !.transactionSignature = Serialized(SignaturesSize(sigs), SignaturesWrite(sigs))]
  BY <1>1, <1>2, KeyRead DEF SignDigest, SigsOf
<1>4. Serialized(SignaturesSize(sigs), SignaturesWrite(sigs)) = SignaturesWrite(sigs)
  BY <1>1, <1>2, SignatureMade
<1>5. tx' = Final(order, SignaturesWrite(sigs))
  BY <1>1, <1>3, <1>4 DEF Final, TxOf
<1>6. SerializeForHash(tx') = SerializeForHash(tx)
  <2>1. /\ tx'["type"] = tx["type"] /\ tx'["time"] = tx["time"]
        /\ tx'["remark"] = tx["remark"] /\ tx'["txData"] = tx["txData"]
        /\ tx'["coinData"] = tx["coinData"]
    BY <1>1, <1>5 DEF Final, TxOf
  <2> QED BY <2>1, HashOf
<1>7. SignedBy(der)'
  BY <1>1, <1>2, <1>5, <1>6 DEF SignedBy
<1> QED BY <1>1, <1>7 DEF IInv, Stages

\* What is sent once the order is signed.
LEMMA Sending ==
  ASSUME Saved, Prepared, ~ HasBlankText(order), NEW der \in Ders, SignedBy(der)
  PROVE  LET s == SignaturesWrite(SigsOf(account, der))
             w == Serialize(Transaction, tx)
             got == Parse(Transaction, w, 0).val
         IN /\ w # Null
            /\ got.txData = DataBytes(order) /\ got.coinData = CoinBytes(order)
            /\ got.transactionSignature = s
            /\ SignaturesParse(s) = Got(SigsOf(account, der), Len(s))
            /\ SerializeForHash(got) = digest
            /\ fee >= NormalTxFee(Len(w))
            /\ order.contract[1] # 3 =>
                 fee = Fee(IF tx.remark = Null THEN 0 ELSE Len(tx.remark), Len(tx.txData), Value(order))
<1>1. PICK s, w : s = SignaturesWrite(SigsOf(account, der)) /\ w = Serialize(Transaction, tx)
  OBVIOUS
<1>2. /\ s \in Seq(Byte) /\ Len(s) \in 36 .. 107 /\ SignaturesParse(s) = Got(SigsOf(account, der), Len(s))
  BY <1>1, SignatureMade
<1>3. /\ Made(order) /\ tx = Final(order, s) /\ digest = SerializeForHash(tx)
      /\ fee = FeeOf(NewTx(order), order)
  BY <1>1 DEF Prepared, SignedBy
<1>4. PICK r : r = Reproduced(Transaction, tx)
  OBVIOUS
<1>5. /\ w # Null /\ Len(w) = Size(Transaction, tx)
      /\ Parse(Transaction, w, 0).val = r
      /\ r.txData = DataBytes(order) /\ r.coinData = CoinBytes(order)
      /\ r.transactionSignature = s
      /\ SerializeForHash(r) = digest
  BY <1>1, <1>2, <1>3, <1>4, SentTx
<1>6. tx.remark = RemarkOf(order) /\ tx.txData = DataBytes(order)
  BY <1>3 DEF Final, TxOf
<1>7. /\ fee >= NormalTxFee(Len(w))
      /\ order.contract[1] # 3 =>
           fee = Fee(IF tx.remark = Null THEN 0 ELSE Len(tx.remark), Len(tx.txData), Value(order))
  BY <1>2, <1>3, <1>5, <1>6, SentFee
<1> QED BY <1>1, <1>2, <1>5, <1>7

LEMMA SendKeeps ==
  ASSUME IInv, Send
  PROVE  IInv'
<1>1. stage = "signed" /\ Saved /\ Prepared /\ ~ HasBlankText(order) /\ wire' = Serialize(Transaction, tx)
  BY DEF Send, IInv
<1>2. PICK der \in Ders : SignedBy(der)
  BY <1>1 DEF IInv
<1>3. wire' # Null
  BY <1>1, <1>2, Sending
<1>4. stage' = "sent"
  BY <1>3 DEF Send
<1>5. Saved' /\ Prepared' /\ SignedBy(der)' /\ ~ HasBlankText(order') /\ wire' = Serialize(Transaction, tx')
  BY <1>1, <1>2 DEF Send, Saved, Prepared, SignedBy
<1> QED BY <1>4, <1>5 DEF IInv, Stages

LEMMA StutterKeeps ==
  ASSUME IInv, UNCHANGED vars
  PROVE  IInv'
BY DEF IInv, vars, Saved, Prepared, SignedBy

\* The inductive invariant holds in every behavior.
THEOREM Invariance == Spec => []IInv
<1>1. IInv /\ [Next]_vars => IInv'
  BY SaveAccountKeeps, MakeTxKeeps, SerializeDataKeeps, SignDigestKeeps, SendKeeps, StutterKeeps DEF Next
<1> QED BY <1>1, InitHolds, PTL DEF Spec

-----------------------------------------------------------------------------
(***************************************************************************)
(* The properties                                                          *)
(***************************************************************************)

\* What is known of a transaction that was sent.
LEMMA WhenSent ==
  ASSUME IInv, stage = "sent"
  PROVE  /\ Saved /\ Prepared /\ ~ HasBlankText(order) /\ wire = Serialize(Transaction, tx)
         /\ \E der \in Ders : SignedBy(der)
BY DEF IInv

LEMMA RowHolds ==
  ASSUME IInv PROVE RowReadsBack
<1> SUFFICES ASSUME stage \notin {"start", "failed"}
             PROVE  Parse(AccountPo, row, 0) = Got(Reproduced(AccountPo, account), Len(row))
  BY DEF RowReadsBack
<1>1. AccountFits(account) /\ row = Serialize(AccountPo, account)
  BY InputsAssumption DEF IInv, Saved
<1> QED BY <1>1, AccountSaved

\* An account is read from its row as it was saved, whichever of its fields are
\* null.  (AccountPo)
THEOREM RowRead == Spec => []RowReadsBack
BY Invariance, RowHolds, PTL

LEMMA FailuresHold ==
  ASSUME IInv PROVE FailsOnlyForBlanks
<1>1. ASSUME stage = "failed"
      PROVE  order # Null /\ (Convertible(order.args, order.types) => HasBlankText(order))
  BY <1>1, InputsAssumption DEF IInv, FailedFor
<1>2. stage \in {"serialized", "signed", "sent"} => ~ HasBlankText(order)
  BY DEF IInv
<1> QED BY <1>1, <1>2 DEF FailsOnlyForBlanks

\* A request fails for blank texts and arguments without a type only, and for
\* every blank text it fails.  (BaseNulsData.serialize, ContractUtil)
THEOREM Failures == Spec => []FailsOnlyForBlanks
BY Invariance, FailuresHold, PTL

LEMMA HashHolds ==
  ASSUME IInv PROVE HashReproduced
<1> SUFFICES ASSUME stage = "sent" PROVE SerializeForHash(Received) = digest
  BY DEF HashReproduced
<1>1. PICK der \in Ders : SignedBy(der)
  BY WhenSent
<1> QED BY <1>1, WhenSent, Sending DEF Received

\* The hash of what is received is the hash that was signed.
\* (Transaction.serializeForHash)
THEOREM Hash == Spec => []HashReproduced
BY Invariance, HashHolds, PTL

LEMMA DataHolds ==
  ASSUME IInv PROVE DataDelivered
<1> SUFFICES ASSUME stage = "sent"
             PROVE  LET got == Parse(TxData[order.op], Received.txData, 0)
                    IN (got.ok /\ got.val = Reproduced(TxData[order.op], data))
                         <=> (order.op # "delete" => Countable(data.args))
  BY DEF DataDelivered
<1>1. PICK der \in Ders : SignedBy(der)
  BY WhenSent
<1>2. PICK d : d = DataBytes(order)
  OBVIOUS
<1>3. Received.txData = d
  BY <1>1, <1>2, WhenSent, Sending DEF Received
<1>4. Made(order) /\ data = DataOf(order) /\ ~ HasBlankText(order)
  BY WhenSent DEF Prepared
<1>5. PICK class : class = TxData[order.op]
  OBVIOUS
<1>6. /\ InOrder(class) /\ Begins(class) /\ FieldsFit(class, data) /\ NoBlank(class, data)
      /\ AllCountable(class, data) <=> (order.op # "delete" => Countable(data.args))
  BY <1>4, <1>5, OrderData
<1>7. d = Serialize(class, data)
  BY <1>2, <1>4, <1>5 DEF DataBytes
<1>8. PICK got : got = Parse(class, d, 0)
  OBVIOUS
<1>9. CASE AllCountable(class, data)
  <2>1. got = Got(Reproduced(class, data), Len(d))
    BY <1>6, <1>7, <1>8, <1>9, ReadsBack
  <2>2. got.ok /\ got.val = Reproduced(class, data)
    BY <2>1, GotIs
  <2> QED BY <1>3, <1>5, <1>6, <1>8, <1>9, <2>2
<1>10. CASE ~ AllCountable(class, data)
  <2>1. Serialize(class, data) = Write(class, data) /\ d \in Seq(Byte)
    BY <1>6, <1>7, Serializes
  <2>2. Occurs(Write(class, data), d, 0)
    BY <1>7, <2>1, OccursWhole
  <2>3. ASSUME got.ok, got.val = Reproduced(class, data) PROVE AllCountable(class, data)
    BY <1>6, <1>8, <2>2, <2>3, ClassTaken
  <2> QED BY <1>3, <1>5, <1>6, <1>8, <1>10, <2>3
<1> QED BY <1>9, <1>10

\* The data are received as they were sent if and only if a byte can count the
\* arguments and the values of each.  (CreateContractData, CallContractData)
THEOREM Data == Spec => []DataDelivered
BY Invariance, DataHolds, PTL

LEMMA CoinsHold ==
  ASSUME IInv PROVE CoinsDelivered
<1> SUFFICES ASSUME stage = "sent"
             PROVE  LET got == CoinsParse(Received.coinData)
                    IN /\ got = Got(coins, Len(tx.coinData))
                       /\ Value(order) > 0 =>
                            \E coin \in Range(got.val.to) :
                              /\ coin.amount = order.value
                              /\ coin.address = order.contract <=> order.chainId % 256 # 3
  BY DEF CoinsDelivered
<1>1. PICK der \in Ders : SignedBy(der)
  BY WhenSent
<1>2. PICK c : c = CoinBytes(order)
  OBVIOUS
<1>3. Received.coinData = c
  BY <1>1, <1>2, WhenSent, Sending DEF Received
<1>4. Made(order) /\ coins = CoinsOf(order, Total(order))
  BY WhenSent DEF Prepared
<1>5. PICK got : got = CoinsParse(c)
  OBVIOUS
<1>6. got = Got(coins, Len(c))
  BY <1>2, <1>4, <1>5, OrderCoinBytes
<1>7. tx.coinData = c
  BY <1>1, <1>2 DEF SignedBy, Final, TxOf
<1>8. got.val = coins
  BY <1>6, GotIs
<1>9. ASSUME Value(order) > 0
      PROVE  \E coin \in Range(coins.to) :
               /\ coin.amount = order.value
               /\ coin.address = order.contract <=> order.chainId % 256 # 3
  <2>1. PICK x : x = [address |-> AddTo(order.contract), assetsChainId |-> order.chainId,
                      assetsId |-> order.assetId, amount |-> Value(order), lockTime |-> 0]
    OBVIOUS
  <2>2. coins.to = <<x>>
    BY <1>4, <1>9, <2>1 DEF CoinsOf
  <2>3. x \in Range(coins.to)
    BY <2>2 DEF Range
  <2>4. x.amount = order.value
    BY <1>9, <2>1 DEF Value
  <2>5. x.address = AddTo(order.contract)
    BY <2>1
  <2>6. x.address = order.contract <=> order.chainId % 256 # 3
    BY <1>4, <2>5, OrderFields, ScriptBytes
  <2> QED BY <2>3, <2>4, <2>6
<1> QED BY <1>3, <1>5, <1>6, <1>7, <1>8, <1>9

\* The coins are received as they were made, and go to the contract unless the lower
\* byte of the chain id is 3.  (CoinData, makeCoinData)
THEOREM Coins == Spec => []CoinsDelivered
BY Invariance, CoinsHold, PTL

LEMMA SignatureHolds ==
  ASSUME IInv PROVE SignatureDelivered
<1> SUFFICES ASSUME stage = "sent"
             PROVE  \E der \in Ders :
                      LET in == Received.transactionSignature
                      IN SignaturesParse(in)
                           = Got(<<[publicKey |-> account.pubKey, signData |-> der]>>, Len(in))
  BY DEF SignatureDelivered
<1>1. PICK der \in Ders : SignedBy(der)
  BY WhenSent
<1>2. PICK in : in = Received.transactionSignature
  OBVIOUS
<1>3. SignaturesParse(in) = Got(SigsOf(account, der), Len(in))
  BY <1>1, <1>2, WhenSent, Sending DEF Received
<1> QED BY <1>2, <1>3 DEF SigsOf

\* The signature received names the key of the account that was saved.
\* (AccountPo, P2PHKSignature, TransactionSignature)
THEOREM Signatures == Spec => []SignatureDelivered
BY Invariance, SignatureHolds, PTL

LEMMA FeeHolds ==
  ASSUME IInv PROVE FeePaysForBytes
<1> SUFFICES ASSUME stage = "sent"
             PROVE  /\ fee >= NormalTxFee(Len(wire))
                    /\ order.contract[1] # 3 =>
                         fee = Fee(IF tx.remark = Null THEN 0 ELSE Len(tx.remark),
                                   Len(tx.txData), Value(order))
  BY DEF FeePaysForBytes
<1>1. PICK der \in Ders : SignedBy(der)
  BY WhenSent
<1> QED BY <1>1, WhenSent, Sending

\* The fee computed from sizes pays for the bytes that are sent.  (makeCoinData,
\* calcSize, TransactionFeeCalculator)
THEOREM FeePays == Spec => []FeePaysForBytes
BY Invariance, FeeHolds, PTL
=============================================================================
