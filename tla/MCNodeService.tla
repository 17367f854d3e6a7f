--------------------------- MODULE MCNodeService ---------------------------
(***************************************************************************)
(* NodeService on small instances.                                         *)
(***************************************************************************)
EXTENDS NodeService

CONSTANTS n1, n2, n3

MCNodes == {n1, n2, n3}
MCOfficial == <<n1>>
=============================================================================
