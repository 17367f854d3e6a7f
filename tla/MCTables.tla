----------------------------- MODULE MCTables -----------------------------
(***************************************************************************)
(* Tables on a small instance: the account table, and a second one that    *)
(* clients also close and destroy.                                         *)
(***************************************************************************)
EXTENDS Tables, TLC

\* As many connections of a table as the map and the threads can refer to.
MCConnections == 1..(1 + Cardinality(Threads))

\* Threads are interchangeable.
Symmetry == Permutations(Threads)
=============================================================================
