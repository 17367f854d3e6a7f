------------------------------ MODULE MCTxWire ------------------------------
(***************************************************************************)
(* Small instances of TxWire: every kind of argument, texts that are       *)
(* missing, empty or blank, counts around the 127 a signed byte can hold,  *)
(* code around the 252 and 65535 bytes where a VarInt grows.               *)
(***************************************************************************)
EXTENDS TxWire

Fill(n, byte) == [i \in 1..n |-> byte]
Address(chain, type, byte) == LittleEndian(chain, 2) \o <<type>> \o Fill(20, byte)

a == <<97>>
Blanks == <<32, 9>>

SomeAccount(pri, enc) ==
  [chainId |-> 258, address |-> <<116, 78, 85, 76, 83>>, alias |-> Null,
   createTime |-> 1700000001, pubKey |-> <<2>> \o Fill(32, 200), priKey |-> pri,
   encryptedPriKey |-> enc, extend |-> Null, remark |-> Null]

\* Without a password and with one.
SomeAccounts == {SomeAccount(Fill(32, 7), <<>>), SomeAccount(<<>>, Fill(48, 9))}

SomeDers == {Fill(70, 48), Fill(72, 48)}

Order(op, chain) ==
  [op |-> op, sender |-> Address(chain, 1, 11), contract |-> Address(chain, 2, 22),
   code |-> Fill(5, 202), alias |-> a, methodName |-> a, methodDesc |-> Null,
   args |-> Null, types |-> Null, gas |-> 70000, price |-> 300, value |-> 0,
   remark |-> Null, chainId |-> chain, assetId |-> 513, nonce |-> Fill(8, 17),
   time |-> 1700000002]

Call == Order("call", 2)
Create == Order("create", 2)

Text(s) == [text |-> s]
List(s) == [list |-> s]

SomeArgs ==
  {Null, <<>>, <<Null, Text(a), List(<<>>), List(<<a, Null, <<>>>>)>>}
    \union {<<Text(s)>> : s \in {<<>>, Blanks, a}}
    \union {<<List(<<a, Blanks>>)>>}
SomeTypes == {Null, <<>>, <<"String">>, <<"int", "int", "String", "String">>}

Counts == {127, 128, 256, 257}
ManyArgs == {Fill(n, Text(a)) : n \in Counts} \union {<<List(Fill(n, a))>> : n \in Counts}

OnChains(chains) ==
  {[Order(op, c) EXCEPT !.value = v] : op \in {"create", "call", "delete"},
                                       c \in chains, v \in {0, 20000001}}

SomeOrders ==
  OnChains({2, 258, 259})
    \union {[Call EXCEPT !.args = x, !.types = t] : x \in SomeArgs, t \in SomeTypes}
    \union {[Create EXCEPT !.args = x, !.types = <<"String">>] : x \in SomeArgs \union ManyArgs}
    \union {[Call EXCEPT !.methodDesc = s] : s \in {<<>>, Blanks, a}}
    \union {[Call EXCEPT !.remark = s] : s \in {<<>>, Blanks, a}}
    \union {[Create EXCEPT !.code = Fill(n, 202)] : n \in {252, 253, 65536}}
=============================================================================
