----------------------------- MODULE MCConnTable ---------------------------
(* Connections for TLC: more of them than there are descriptors.           *)
EXTENDS ConnTable, TLC

CONSTANTS k1, k2, k3, k4
=============================================================================
