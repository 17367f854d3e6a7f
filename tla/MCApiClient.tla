---------------------------- MODULE MCApiClient ----------------------------
(***************************************************************************)
(* Small instances of ApiClient.                                           *)
(***************************************************************************)
EXTENDS ApiClient, TLC

CONSTANTS h1, h2, bad

MCHosts == {h1, h2, bad}
MCMalformed == {bad}
\* The properties file may give any of the addresses, also a malformed one.
MCConfigured == [host : MCHosts, http : BOOLEAN]

ThreadSymmetry == Permutations(Threads)
=============================================================================
