------------------------------ MODULE MCDbPool -----------------------------
(* Threads for TLC: one more than there are slots.                         *)
EXTENDS DbPool, TLC

CONSTANTS t1, t2, t3
=============================================================================
