--------------------------- MODULE MCPendingArray ---------------------------
(***************************************************************************)
(* PendingArray for TLC: up to four messages of two kinds, two walks.      *)
(***************************************************************************)
EXTENDS PendingArray

CONSTANTS m1, m2
=============================================================================
