-------------------------------- MODULE Pool -------------------------------
(***************************************************************************)
(* What db_acquire and db_release promise to the threads that call them: a *)
(* slot nobody else has, or NULL, and NULL only when every slot is taken.  *)
(* Each call takes effect at one instant.                                  *)
(***************************************************************************)
EXTENDS Naturals

CONSTANTS Threads, PoolSize

VARIABLES conn, result

NULL  == 0
Slots == 1 .. PoolSize

TypeOK ==
    /\ conn \in [Threads -> Slots \cup {NULL}]
    /\ result \in [Threads -> {"none", "conn", "null"}]

Free == {s \in Slots : \A t \in Threads : conn[t] # s}

Init ==
    /\ conn = [t \in Threads |-> NULL]
    /\ result = [t \in Threads |-> "none"]

Acquire(t) ==
    /\ conn[t] = NULL
    /\ \E s \in Free : conn' = [conn EXCEPT ![t] = s]
    /\ result' = [result EXCEPT ![t] = "conn"]

Deny(t) ==
    /\ conn[t] = NULL /\ Free = {}
    /\ conn' = conn
    /\ result' = [result EXCEPT ![t] = "null"]

Release(t) ==
    /\ conn[t] # NULL
    /\ conn' = [conn EXCEPT ![t] = NULL]
    /\ result' = [result EXCEPT ![t] = "none"]

\* a caller that got NULL gives up: the next call starts afresh
Forget(t) ==
    /\ result[t] = "null"
    /\ conn' = conn
    /\ result' = [result EXCEPT ![t] = "none"]

Next == \E t \in Threads : Acquire(t) \/ Deny(t) \/ Release(t) \/ Forget(t)

Spec == Init /\ [][Next]_<<conn, result>>
=============================================================================
