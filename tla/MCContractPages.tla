-------------------------- MODULE MCContractPages --------------------------
(***************************************************************************)
(* ContractPages, with AddressPages, on small instances: two accounts of   *)
(* one chain, so that a selection can be of another account, and one of a  *)
(* second chain; two requests of a page at once, so that they can answer   *)
(* in either order.                                                        *)
(***************************************************************************)
EXTENDS ContractPages, TLC

CONSTANTS a1, a2, b1, c1, c2

MCAddresses == {a1, a2, b1}
MCChains == {c1, c2}
MCChainOf == [a \in MCAddresses |-> IF a = b1 THEN c2 ELSE c1]

\* Requests are interchangeable, and so are the two accounts of one chain.
Symmetry ==
  {p @@ q : p \in Permutations(Slots), q \in Permutations({a1, a2})}
=============================================================================
