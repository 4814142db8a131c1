---------------------------- MODULE DbPoolProofs ----------------------------
(***************************************************************************)
(* Proofs about the connection pool, for any threads and any pool size.    *)
(***************************************************************************)
EXTENDS DbPool, FiniteSetTheorems, TLAPS

\* Where a thread holds the mutex, and where it holds a connection.
Locked  == {"acq_scan", "acq_unlock", "rel_scan", "rel_unlock"}
Holding == {"acq_unlock", "query", "rel_lock", "rel_scan"}

MutexHeld == \A t \in Threads : mutex = t <=> pc[t] \in Locked

HeldWhere ==
    \A t \in Threads :
        /\ conn[t] # NULL => pc[t] \in Holding
        /\ pc[t] \in Holding \ {"acq_unlock"} => conn[t] # NULL
        /\ result[t] = "conn" <=> conn[t] # NULL

\* what the scan has passed is used, and stays so while the mutex is held
Scanned ==
    \A t \in Threads : pc[t] = "acq_scan" => \A s \in Slots : s < i[t] => used[s]

\* a scan is at a slot or just past the last, and db_release's not past its own
ScanAt ==
    \A t \in Threads :
        /\ i[t] <= PoolSize + 1
        /\ pc[t] = "rel_scan" => i[t] <= conn[t]

Inv == TypeOK /\ MutexHeld /\ HeldWhere /\ ExclusiveUse /\ Scanned /\ ScanAt

LEMMA InitInv == Init => Inv
  BY PoolAssumption
  DEF Init, Inv, TypeOK, MutexHeld, HeldWhere, ExclusiveUse, Scanned, ScanAt, Locked,
      Holding, Places, Slots, NULL

-----------------------------------------------------------------------------
LEMMA CallInv == ASSUME NEW t \in Threads, Inv, Call(t) PROVE Inv'
  <1> USE PoolAssumption DEF Inv, Call, Move, Slots, NULL
  <1>1. TypeOK'
    BY DEF TypeOK, Places
  <1>2. MutexHeld' /\ HeldWhere' /\ ExclusiveUse' /\ Scanned'
    BY DEF TypeOK, MutexHeld, HeldWhere, ExclusiveUse, Scanned, Locked, Holding
  <1>3. ScanAt'
    BY DEF TypeOK, HeldWhere, Holding, ScanAt
  <1> QED BY <1>1, <1>2, <1>3

LEMMA LockInv == ASSUME NEW t \in Threads, Inv, Lock(t) PROVE Inv'
  <1> USE PoolAssumption DEF Inv, Lock, Move, Slots, NULL
  <1>1. TypeOK'
    BY DEF TypeOK, Places
  <1>2. MutexHeld'
    BY DEF TypeOK, MutexHeld, Locked
  <1>3. HeldWhere'
    BY DEF TypeOK, HeldWhere, Holding
  <1>4. ExclusiveUse'
    BY DEF ExclusiveUse
  <1>5. Scanned'
    BY DEF TypeOK, Scanned
  <1>6. ScanAt'
    BY DEF TypeOK, HeldWhere, Holding, ScanAt
  <1> QED BY <1>1, <1>2, <1>3, <1>4, <1>5, <1>6

LEMMA UnlockInv == ASSUME NEW t \in Threads, Inv, Unlock(t) PROVE Inv'
  <1> USE PoolAssumption DEF Inv, Unlock, Move, Slots, NULL
  <1>1. TypeOK'
    BY DEF TypeOK, Places
  <1>2. MutexHeld'
    BY DEF TypeOK, MutexHeld, Locked
  <1>3. HeldWhere'
    BY DEF TypeOK, HeldWhere, Holding
  <1>4. ExclusiveUse'
    BY DEF ExclusiveUse
  <1>5. Scanned'
    BY DEF TypeOK, Scanned
  <1>6. ScanAt'
    BY DEF TypeOK, HeldWhere, Holding, ScanAt
  <1> QED BY <1>1, <1>2, <1>3, <1>4, <1>5, <1>6

LEMMA TakeInv == ASSUME NEW t \in Threads, Inv, Take(t) PROVE Inv'
  <1> USE PoolAssumption DEF Inv, Take, Move, Slots, NULL
  <1>1. TypeOK'
    BY DEF TypeOK, Places
  <1>2. MutexHeld'
    BY DEF TypeOK, MutexHeld, Locked
  <1>3. conn[t] = NULL /\ \A u \in Threads : conn[u] # i[t]
    BY DEF TypeOK, HeldWhere, Holding, ExclusiveUse
  <1>4. HeldWhere'
    BY DEF TypeOK, HeldWhere, Holding
  <1>5. ExclusiveUse'
    BY <1>3 DEF TypeOK, ExclusiveUse
  <1>6. Scanned'
    BY DEF TypeOK, Scanned
  <1>7. ScanAt'
    BY DEF TypeOK, HeldWhere, Holding, ScanAt
  <1> QED BY <1>1, <1>2, <1>4, <1>5, <1>6, <1>7

LEMMA SkipInv == ASSUME NEW t \in Threads, Inv, Skip(t) PROVE Inv'
  <1> USE PoolAssumption DEF Inv, Skip, Slots, NULL
  <1>1. TypeOK'
    BY DEF TypeOK
  <1>2. MutexHeld' /\ HeldWhere' /\ ExclusiveUse'
    BY DEF MutexHeld, HeldWhere, ExclusiveUse
  <1>3. Scanned'
    BY DEF TypeOK, Scanned
  <1>4. ScanAt'
    <2>1. i[t] \in 1 .. PoolSize /\ conn[t] \in 0 .. PoolSize /\ i'[t] = i[t] + 1
      BY DEF TypeOK
    <2>2. pc[t] = "rel_scan" => i[t] + 1 <= conn[t]
      BY <2>1 DEF ScanAt
    <2> QED BY <2>1, <2>2 DEF TypeOK, ScanAt
  <1> QED BY <1>1, <1>2, <1>3, <1>4

LEMMA ExhaustedInv == ASSUME NEW t \in Threads, Inv, Exhausted(t) PROVE Inv'
  <1> USE PoolAssumption DEF Inv, Exhausted, Move, Slots, NULL
  <1>1. TypeOK'
    BY DEF TypeOK, Places
  <1>2. MutexHeld'
    BY DEF TypeOK, MutexHeld, Locked
  <1>3. HeldWhere'
    BY DEF TypeOK, HeldWhere, Holding
  <1>4. ExclusiveUse'
    BY DEF ExclusiveUse
  <1>5. Scanned'
    BY DEF TypeOK, Scanned
  <1>6. ScanAt'
    BY DEF TypeOK, HeldWhere, Holding, ScanAt
  <1> QED BY <1>1, <1>2, <1>3, <1>4, <1>5, <1>6

LEMMA DoneInv == ASSUME NEW t \in Threads, Inv, Done(t) PROVE Inv'
  <1> USE PoolAssumption DEF Inv, Done, Move, Slots, NULL
  <1>1. TypeOK'
    BY DEF TypeOK, Places
  <1>2. MutexHeld' /\ HeldWhere' /\ ExclusiveUse' /\ Scanned'
    BY DEF TypeOK, MutexHeld, HeldWhere, ExclusiveUse, Scanned, Locked, Holding
  <1>3. ScanAt'
    BY DEF TypeOK, HeldWhere, Holding, ScanAt
  <1> QED BY <1>1, <1>2, <1>3

\* No other thread scans while this one, holding the mutex, frees its slot.
LEMMA ClearInv == ASSUME NEW t \in Threads, Inv, Clear(t) PROVE Inv'
  <1> USE PoolAssumption DEF Inv, Clear, Move, Slots, NULL
  <1>1. TypeOK'
    BY DEF TypeOK, Places
  <1>2. MutexHeld'
    BY DEF TypeOK, MutexHeld, Locked
  <1>3. conn[t] \in Slots
    BY DEF TypeOK, HeldWhere, Holding
  <1>4. HeldWhere'
    BY DEF TypeOK, HeldWhere, Holding
  <1>5. ExclusiveUse'
    BY <1>3 DEF TypeOK, ExclusiveUse
  <1>6. \A u \in Threads : pc[u] # "acq_scan"
    BY DEF MutexHeld, Locked
  <1>7. Scanned'
    BY <1>6 DEF TypeOK, Scanned
  <1>8. ScanAt'
    BY DEF TypeOK, HeldWhere, Holding, ScanAt
  <1> QED BY <1>1, <1>2, <1>4, <1>5, <1>7, <1>8

LEMMA NextInv == Inv /\ [Next]_vars => Inv'
  <1> SUFFICES ASSUME Inv, [Next]_vars PROVE Inv'
    OBVIOUS
  <1>1. CASE Next
    BY <1>1, CallInv, LockInv, UnlockInv, TakeInv, SkipInv, ExhaustedInv, DoneInv, ClearInv
    DEF Next, InPool
  <1>2. CASE UNCHANGED vars
    BY <1>2
    DEF vars, Inv, TypeOK, MutexHeld, HeldWhere, ExclusiveUse, Scanned, ScanAt, Slots, NULL
  <1> QED BY <1>1, <1>2

LEMMA InvHolds == Spec => []Inv
  BY InitInv, NextInv, PTL DEF Spec

\* Every variable keeps its type, whatever the number of threads and slots.
THEOREM Typing == Spec => []TypeOK
  BY InvHolds, PTL DEF Inv

\* No connection is ever in the hands of two threads, and the used flags say
\* exactly which slots are held: the scan and the flag need the mutex only.
THEOREM Exclusive == Spec => []ExclusiveUse
  BY InvHolds, PTL DEF Inv

\* db_release finds the slot of its connection, for any pool: the scan starts
\* before it and passes none but others'.
THEOREM SlotFound == Spec => []ReleaseFindsSlot
  <1>1. Inv => ReleaseFindsSlot
    BY DEF Inv, ScanAt, ReleaseFindsSlot
  <1> QED BY <1>1, InvHolds, PTL

\* In its holder's steps the mutex is given back after PoolSize + 2 of them
\* at most, whatever the others do: with ReleaseFindsSlot, which keeps a
\* release from standing at the end of the array, what MutexReleased needs
\* beside fairness.
THEOREM MutexAdvancing == Spec => MutexAdvances
  <1> DEFINE Nearer == \A t \in Threads : mutex = t =>
                          \/ mutex' = Nobody
                          \/ mutex' = t /\ (pc'[t] # pc[t] \/ i'[t] # i[t]
                                               => ScanLeft(t)' < ScanLeft(t))
  <1>1. ASSUME Inv, Next, NEW t \in Threads, mutex = t
        PROVE  \/ mutex' = Nobody
               \/ mutex' = t /\ (pc'[t] # pc[t] \/ i'[t] # i[t] => ScanLeft(t)' < ScanLeft(t))
    <2> USE PoolAssumption DEF Inv, TypeOK, Move
    <2>1. pc[t] \in Locked /\ \A u \in Threads : u # t => pc[u] \notin Locked
      BY <1>1 DEF MutexHeld
    <2>2. i[t] \in Nat /\ i[t] <= PoolSize + 1
      BY <1>1 DEF ScanAt
    <2>3. ASSUME NEW u \in Threads, Call(u) \/ Done(u)
          PROVE  mutex' = t /\ pc'[t] = pc[t] /\ i'[t] = i[t]
      BY <1>1, <2>1, <2>3 DEF Call, Done, Locked
    <2>4. ASSUME NEW u \in Threads, Lock(u) PROVE FALSE
      BY <1>1, <2>4 DEF Lock
    <2>5. ASSUME NEW u \in Threads, Unlock(u) PROVE mutex' = Nobody
      BY <2>5 DEF Unlock
    <2>6. ASSUME NEW u \in Threads, Take(u) \/ Skip(u) \/ Exhausted(u) \/ Clear(u)
          PROVE  mutex' = t /\ ScanLeft(t)' < ScanLeft(t)
      <3>1. u = t
        BY <2>1, <2>6 DEF Take, Skip, Exhausted, Clear, Locked
      <3>2. CASE Skip(t)
        BY <1>1, <2>2, <3>2 DEF Skip, ScanLeft
      <3>3. CASE Take(t) \/ Exhausted(t) \/ Clear(t)
        BY <1>1, <2>2, <3>3 DEF Take, Exhausted, Clear, ScanLeft
      <3> QED BY <2>6, <3>1, <3>2, <3>3
    <2> QED BY <1>1, <2>3, <2>4, <2>5, <2>6 DEF Next, InPool
  <1>2. Inv /\ [Next]_vars => [Nearer]_vars
    BY <1>1
  <1> HIDE DEF Nearer
  <1>3. Spec => [][Nearer]_vars
    BY <1>2, InvHolds, PTL DEF Spec
  <1> QED BY <1>3 DEF Nearer, MutexAdvances

-----------------------------------------------------------------------------
(* What a NULL means.                                                      *)

\* A scan that reaches the end of the array has seen every slot used.
LEMMA ExhaustedMeansFull ==
    ASSUME NEW t \in Threads, Inv, Exhausted(t)
    PROVE  /\ conn[t] = NULL
           /\ \A s \in Slots : \E u \in Threads : conn[u] = s
  <1> USE PoolAssumption DEF Inv, Exhausted, Move, Slots
  <1>1. conn[t] = NULL
    BY DEF HeldWhere, Holding
  <1>2. \A s \in Slots : s < i[t]
    BY DEF TypeOK
  <1>3. \A s \in Slots : used[s]
    BY <1>2 DEF Scanned
  <1> QED BY <1>1, <1>3 DEF ExclusiveUse

\* With no more threads than slots, the holders of all slots and the thread
\* that holds none would be one too many.
LEMMA SlotLeft ==
    ASSUME NEW t \in Threads, Inv, Cardinality(Threads) <= PoolSize, conn[t] = NULL,
           \A s \in Slots : \E u \in Threads : conn[u] = s
    PROVE  FALSE
  <1> DEFINE Others == Threads \ {t}
             holder == [s \in Slots |-> CHOOSE u \in Threads : conn[u] = s]
  <1>1. \A s \in Slots : holder[s] \in Others /\ conn[holder[s]] = s
    BY PoolAssumption DEF Slots, NULL
  <1>2. IsFiniteSet(Others) /\ Cardinality(Others) = Cardinality(Threads) - 1
        /\ Cardinality(Threads) \in Nat
    BY FS_RemoveElement, FS_CardinalityType, PoolAssumption
  <1>3. IsFiniteSet(Slots) /\ Cardinality(Slots) = PoolSize
    BY FS_Interval, PoolAssumption DEF Slots
  <1>4. Cardinality(Others) < Cardinality(Slots)
    BY <1>2, <1>3, PoolAssumption
  <1>5. holder \in [Slots -> Others]
    BY <1>1
  <1> HIDE DEF holder, Others
  <1>6. \E r, s \in Slots : r # s /\ holder[r] = holder[s]
    BY <1>2, <1>3, <1>4, <1>5, FS_PigeonHole
  <1> QED BY <1>1, <1>6

\* With a slot for every thread, db_acquire never returns NULL: whatever the
\* interleaving, a scan that passes a slot just freed behind it finds another.
THEOREM NoExhaustion == Spec => []NeverExhausted
  <1>1. Init => NeverExhausted
    BY DEF Init, NeverExhausted
  <1>2. Inv /\ NeverExhausted /\ [Next]_vars => NeverExhausted'
    <2> SUFFICES ASSUME Inv, NeverExhausted, [Next]_vars,
                        Cardinality(Threads) <= PoolSize, NEW u \in Threads
                 PROVE  result'[u] # "null"
      BY DEF NeverExhausted
    <2>1. result[u] # "null" /\ result \in [Threads -> {"none", "conn", "null"}]
      BY DEF NeverExhausted, Inv, TypeOK
    <2>2. ASSUME NEW t \in Threads, Exhausted(t) PROVE FALSE
      BY <2>2, ExhaustedMeansFull, SlotLeft
    <2>3. ASSUME NEW t \in Threads, Call(t) \/ Take(t) \/ Clear(t)
          PROVE  result'[u] # "null"
      BY <2>1, <2>3 DEF Call, Take, Clear
    <2>4. ASSUME NEW t \in Threads, Lock(t) \/ Unlock(t) \/ Skip(t) \/ Done(t)
          PROVE  result'[u] # "null"
      BY <2>1, <2>4 DEF Lock, Unlock, Skip, Done
    <2>5. CASE UNCHANGED vars
      BY <2>1, <2>5 DEF vars
    <2> QED BY <2>2, <2>3, <2>4, <2>5 DEF Next, InPool
  <1> QED BY InvHolds, <1>1, <1>2, PTL DEF Spec

-----------------------------------------------------------------------------
(* The scan under the mutex implements the abstract pool.                  *)

\* Only four steps change what a caller sees; the others stutter.
LEMMA StepRefines ==
    ASSUME Inv, Next PROVE Abstract!Next \/ UNCHANGED <<conn, result>>
  <1> USE DEF Inv
  <1>1. ASSUME NEW t \in Threads, Call(t)
        PROVE  Abstract!Forget(t) \/ UNCHANGED <<conn, result>>
    <2>1. conn[t] = NULL
      BY <1>1 DEF Call, Move, HeldWhere, Holding
    <2>2. result[t] # "conn"
      BY <2>1 DEF HeldWhere
    <2>3. CASE result[t] = "none"
      BY <1>1, <2>3 DEF Call, TypeOK
    <2>4. CASE result[t] = "null"
      BY <1>1, <2>4 DEF Call, Abstract!Forget
    <2> QED BY <2>2, <2>3, <2>4 DEF TypeOK
  <1>2. ASSUME NEW t \in Threads, Take(t) PROVE Abstract!Acquire(t)
    <2>1. conn[t] = NULL
      BY <1>2 DEF Take, Move, HeldWhere, Holding
    <2>2. i[t] \in Slots /\ \A u \in Threads : conn[u] # i[t]
      BY <1>2 DEF Take, ExclusiveUse
    <2>3. i[t] \in Abstract!Free
      BY <2>2 DEF Abstract!Free, Abstract!Slots, Slots
    <2> QED BY <1>2, <2>1, <2>3 DEF Take, Abstract!Acquire, Abstract!NULL, NULL
  <1>3. ASSUME NEW t \in Threads, Exhausted(t) PROVE Abstract!Deny(t)
    <2>1. conn[t] = NULL /\ \A s \in Slots : \E u \in Threads : conn[u] = s
      BY <1>3, ExhaustedMeansFull
    <2>2. Abstract!Free = {}
      BY <2>1 DEF Abstract!Free, Abstract!Slots, Slots
    <2> QED BY <1>3, <2>1, <2>2 DEF Exhausted, Abstract!Deny, Abstract!NULL, NULL
  <1>4. ASSUME NEW t \in Threads, Clear(t) PROVE Abstract!Release(t)
    <2>1. conn[t] # NULL
      BY <1>4 DEF Clear, Move, HeldWhere, Holding
    <2> QED BY <1>4, <2>1 DEF Clear, Abstract!Release, Abstract!NULL, NULL
  <1>5. ASSUME NEW t \in Threads, Lock(t) \/ Unlock(t) \/ Skip(t) \/ Done(t)
        PROVE  UNCHANGED <<conn, result>>
    BY <1>5 DEF Lock, Unlock, Skip, Done
  <1> QED BY <1>1, <1>2, <1>3, <1>4, <1>5 DEF Next, InPool, Abstract!Next

\* db_acquire and db_release are the atomic operations of Pool, for any
\* number of threads and slots: NULL, in particular, is returned only when
\* at the end of the scan every slot is taken.
THEOREM Implements == Spec => PoolImplemented
  <1>1. Init => Abstract!Init
    BY DEF Init, Abstract!Init, Abstract!NULL, NULL
  <1>2. Inv /\ [Next]_vars => [Abstract!Next]_<<conn, result>>
    <2>1. UNCHANGED vars => UNCHANGED <<conn, result>>
      BY DEF vars
    <2> QED BY <2>1, StepRefines
  <1> QED BY InvHolds, <1>1, <1>2, PTL DEF Spec, PoolImplemented, Abstract!Spec
=============================================================================
