-------------------------- MODULE MCAccountService --------------------------
(***************************************************************************)
(* AccountService on small instances; the constants are model values given *)
(* by the configurations.                                                  *)
(***************************************************************************)
EXTENDS AccountService, TLC

\* Threads are interchangeable, and so are the valid passwords.
Symmetry == Permutations(Threads) \union Permutations(ValidPasswords)
=============================================================================
