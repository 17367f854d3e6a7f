------------------------- MODULE MCContractRequests -------------------------
(***************************************************************************)
(* Small instances of ContractRequests: one sender, two passwords, orders  *)
(* whose sizes lie at the edge of a kilobyte of fee.                       *)
(***************************************************************************)
EXTENDS ContractRequests

CONSTANTS k1, p1, p2

Order(op, pw, asset, gas, price, value, data) ==
  [op |-> op, sender |-> k1, pw |-> pw, asset |-> asset, gas |-> gas,
   price |-> price, value |-> value, remark |-> 0, data |-> data]

\* A creation of 1091 bytes when signed, 984 before; a call of exactly 1024
\* bytes when signed, and 1092 with the coin it transfers; a removal, which
\* is two addresses long; a call below the minimum price.
Create == Order("create", p1, "home", 40, 25, 0, 900)
Call == Order("call", p2, "home", 40, 25, 0, 833)
Transfer == Order("call", p1, "home", 0, 30, 7, 833)
Delete == Order("delete", Blank, "home", 0, 0, 0, 46)
Cheap == Order("call", p1, "home", 40, 24, 0, 46)

\* Gas times price is 524300: a long of this instance has 19 bits, 12 is left of it.
Wrapping == Order("call", p1, "home", 20972, 25, 0, 46)

SomeOrders == {Create, Call, Transfer, Delete, Cheap, Wrapping}
HomeOnly == {"home"}
SomeBalances == {150000, 250000}
=============================================================================
