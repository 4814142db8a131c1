------------------------------- MODULE DbPool ------------------------------
(***************************************************************************)
(* The connection pool of server/src/database/db_pool.c: an array of slots *)
(* scanned from the first under one mutex, by the server's threads.  Every *)
(* db_* function acquires a connection, runs its statement and releases it *)
(* on each of its return paths; none acquires a second one meanwhile.      *)
(***************************************************************************)
EXTENDS Naturals, FiniteSets

CONSTANTS Threads, PoolSize, Nobody

ASSUME PoolAssumption ==
    PoolSize \in Nat /\ IsFiniteSet(Threads) /\ Nobody \notin Threads

VARIABLES
    used,       \* g_pool.pool[s].used
    mutex,      \* the thread that holds g_pool.mutex, or Nobody
    pc,
    i,          \* the scan's index in each thread
    conn,       \* the slot of the connection a thread holds, or NULL
    result      \* what the thread's last db_acquire returned

vars == <<used, mutex, pc, i, conn, result>>

NULL  == 0
Slots == 1 .. PoolSize

Places == {"outside", "acq_lock", "acq_scan", "acq_unlock", "query",
           "rel_lock", "rel_scan", "rel_unlock"}

\* every db_connect of db_pool_init succeeded: otherwise the server exits
Init ==
    /\ used = [s \in Slots |-> FALSE]
    /\ mutex = Nobody
    /\ pc = [t \in Threads |-> "outside"]
    /\ i = [t \in Threads |-> 1]
    /\ conn = [t \in Threads |-> NULL]
    /\ result = [t \in Threads |-> "none"]

Move(t, from, to) == pc[t] = from /\ pc' = [pc EXCEPT ![t] = to]

\* Mutant: the scan starts before the first slot.
LockBefore(t) ==
    /\ mutex = Nobody /\ mutex' = t
    /\ i' = [i EXCEPT ![t] = 0]
    /\ \/ Move(t, "acq_lock", "acq_scan")
       \/ Move(t, "rel_lock", "rel_scan")
    /\ UNCHANGED <<used, conn, result>>

\* Mutant: db_release scans from the second slot.
LockSecond(t) ==
    /\ mutex = Nobody /\ mutex' = t
    /\ i' = [i EXCEPT ![t] = IF pc[t] = "rel_lock" THEN 2 ELSE 1]
    /\ \/ Move(t, "acq_lock", "acq_scan")
       \/ Move(t, "rel_lock", "rel_scan")
    /\ UNCHANGED <<used, conn, result>>

\* pthread_mutex_lock and _unlock, here and in db_release
Lock(t) ==
    /\ mutex = Nobody /\ mutex' = t
    /\ i' = [i EXCEPT ![t] = 1]
    /\ \/ Move(t, "acq_lock", "acq_scan")
       \/ Move(t, "rel_lock", "rel_scan")
    /\ UNCHANGED <<used, conn, result>>

Unlock(t) ==
    /\ mutex' = Nobody
    /\ \/ Move(t, "acq_unlock", IF conn[t] = NULL THEN "outside" ELSE "query")
       \/ Move(t, "rel_unlock", "outside")
    /\ UNCHANGED <<used, i, conn, result>>

-----------------------------------------------------------------------------
\* A handler needs the database.
Call(t) ==
    /\ Move(t, "outside", "acq_lock")
    /\ result' = [result EXCEPT ![t] = "none"]
    /\ UNCHANGED <<used, mutex, i, conn>>

\* Mutant: the connection is not marked used.
TakeUnmarked(t) ==
    /\ i[t] \in Slots /\ ~used[i[t]]
    /\ Move(t, "acq_scan", "acq_unlock")
    /\ conn' = [conn EXCEPT ![t] = i[t]]
    /\ result' = [result EXCEPT ![t] = "conn"]
    /\ UNCHANGED <<used, mutex, i>>

Take(t) ==
    /\ i[t] \in Slots /\ ~used[i[t]]
    /\ Move(t, "acq_scan", "acq_unlock")
    /\ used' = [used EXCEPT ![i[t]] = TRUE]
    /\ conn' = [conn EXCEPT ![t] = i[t]]
    /\ result' = [result EXCEPT ![t] = "conn"]
    /\ UNCHANGED <<mutex, i>>

\* the loop's next iteration, in db_acquire and in db_release
Skip(t) ==
    /\ i[t] \in Slots
    /\ \/ pc[t] = "acq_scan" /\ used[i[t]]
       \/ pc[t] = "rel_scan" /\ i[t] # conn[t]
    /\ i' = [i EXCEPT ![t] = @ + 1]
    /\ UNCHANGED <<used, mutex, pc, conn, result>>

\* Mutants: the scan stops one slot early; the mutex is kept on this path.
ExhaustedEarly(t) ==
    /\ i[t] = PoolSize
    /\ Move(t, "acq_scan", "acq_unlock")
    /\ result' = [result EXCEPT ![t] = "null"]
    /\ UNCHANGED <<used, mutex, i, conn>>
ExhaustedLocked(t) ==
    /\ i[t] \notin Slots
    /\ Move(t, "acq_scan", "outside")
    /\ result' = [result EXCEPT ![t] = "null"]
    /\ UNCHANGED <<used, mutex, i, conn>>

\* the end of the array: NULL will be returned, after the unlock
Exhausted(t) ==
    /\ i[t] \notin Slots
    /\ Move(t, "acq_scan", "acq_unlock")
    /\ result' = [result EXCEPT ![t] = "null"]
    /\ UNCHANGED <<used, mutex, i, conn>>

\* Mutant: a return path that does not release the connection.
DoneLeaks(t) ==
    /\ Move(t, "query", "outside")
    /\ conn' = [conn EXCEPT ![t] = NULL]
    /\ UNCHANGED <<used, mutex, i, result>>

\* the statement has run, or failed
Done(t) ==
    /\ Move(t, "query", "rel_lock")
    /\ UNCHANGED <<used, mutex, i, conn, result>>

\* the slot of this connection: free again
Clear(t) ==
    /\ i[t] = conn[t]
    /\ Move(t, "rel_scan", "rel_unlock")
    /\ used' = [used EXCEPT ![i[t]] = FALSE]
    /\ conn' = [conn EXCEPT ![t] = NULL]
    /\ result' = [result EXCEPT ![t] = "none"]
    /\ UNCHANGED <<mutex, i>>

InPool(t) == Lock(t) \/ Unlock(t) \/ Take(t) \/ Skip(t) \/ Exhausted(t) \/ Clear(t)

Next == \E t \in Threads : Call(t) \/ InPool(t) \/ Done(t)

Spec == Init /\ [][Next]_vars

\* A thread inside the pool is scheduled; a handler need never call it.
FairSpec == Spec /\ \A t \in Threads : WF_vars(InPool(t))

-----------------------------------------------------------------------------
TypeOK ==
    /\ used \in [Slots -> BOOLEAN]
    /\ mutex \in Threads \cup {Nobody}
    /\ pc \in [Threads -> Places]
    /\ i \in [Threads -> Nat \ {0}]
    /\ conn \in [Threads -> Slots \cup {NULL}]
    /\ result \in [Threads -> {"none", "conn", "null"}]

\* One connection never serves two threads at once (libpq forbids it): no two
\* threads hold one slot, and a slot is marked used exactly while one does.
ExclusiveUse ==
    /\ \A t, u \in Threads : conn[t] = conn[u] /\ conn[t] # NULL => t = u
    /\ \A s \in Slots : used[s] <=> \E t \in Threads : conn[t] = s

\* With a slot for every thread no db_acquire returns NULL: no handler sees
\* "pool exhausted" before more clients than slots are being served.
NeverExhausted ==
    Cardinality(Threads) <= PoolSize => \A t \in Threads : result[t] # "null"

\* db_acquire and db_release are what Pool promises, at the instant used
\* changes or the scan ends: in particular NULL only with every slot taken.
Abstract == INSTANCE Pool WITH Threads <- Threads, PoolSize <- PoolSize,
                             conn <- conn, result <- result
PoolImplemented == Abstract!Spec

\* The slot db_release looks for is ahead of its scan: the loop, which gives
\* up in silence at the end of the array, never loses a connection.
ReleaseFindsSlot == \A t \in Threads : pc[t] = "rel_scan" => i[t] <= conn[t]

\* the iterations left to a thread that holds the mutex
ScanLeft(t) == IF pc[t] \in {"acq_scan", "rel_scan"} THEN PoolSize + 2 - i[t] ELSE 0

\* What there is of MutexReleased without fairness: the thread that holds the
\* mutex gives it back or comes nearer to that with every step it takes, and
\* no other thread takes the mutex from it or sends its scan back.
MutexAdvances ==
    [][\A t \in Threads : mutex = t =>
          \/ mutex' = Nobody
          \/ mutex' = t /\ (pc'[t] # pc[t] \/ i'[t] # i[t] => ScanLeft(t)' < ScanLeft(t))]_vars

\* Whatever path a thread takes, it does not keep the pool's mutex.
MutexReleased == \A t \in Threads : mutex = t ~> mutex # t
=============================================================================
