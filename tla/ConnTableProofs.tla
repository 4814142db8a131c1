-------------------------- MODULE ConnTableProofs ---------------------------
(***************************************************************************)
(* Proofs about descriptors and g_ssl_table, for any number of connections *)
(* and descriptors.                                                        *)
(***************************************************************************)
EXTENDS ConnTable, TLAPS

\* The connections whose descriptor is open, and those that wrote the table.
Written == {"create", "serve", "ssl_free", "close"}
Open    == Written \cup Accepting

\* An open descriptor is its connection's alone; one just closed is still
\* the index its thread is going to clear.
Owned ==
    \A k \in Clients :
        /\ place[k] \in Open => fd[k] \in Fds /\ owner[fd[k]] = k
        /\ place[k] = "clear" => fd[k] \in Fds

\* An entry is written over only when its descriptor has changed hands, but
\* may be cleared by a thread that is late.
Published ==
    \A k \in Clients : place[k] \in Written => table[fd[k]] \in {k, None}

\* A connection is in no entry but that of its own descriptor, and in none
\* before it is published or after its thread cleared it.
OwnEntry ==
    \A k \in Clients, f \in Fds :
        table[f] = k => fd[k] = f /\ place[k] \in Written \cup {"clear", "unthreaded"}

\* An entry that is missing while its connection lives was cleared by one that
\* is over, from acceptance to the end of its thread.
ClearedLate ==
    \A k \in Clients :
        place[k] \in Written /\ table[fd[k]] # k =>
            \E j \in Clients \ {k} : fd[j] = fd[k] /\ place[j] = "done"

Inv == TypeOK /\ Owned /\ Published /\ OwnEntry /\ GivenUpClosed /\ ClearedLate

LEMMA InitInv == Init => Inv
  BY ConnAssumption
  DEF Init, Inv, TypeOK, Owned, Published, OwnEntry, GivenUpClosed, ClearedLate, Written, Open, Accepting,
      InThread, Places

-----------------------------------------------------------------------------
LEMMA AcceptInv == ASSUME NEW k \in Clients, Inv, Accept(k) PROVE Inv'
  <1> USE ConnAssumption DEF Inv, Accept, Move, LowestFree, Written, Open, Accepting
  <1>1. TypeOK'
    BY DEF TypeOK, Places
  <1>2. Owned'
    BY DEF TypeOK, Owned
  <1>3. Published' /\ OwnEntry'
    BY DEF TypeOK, Published, OwnEntry
  <1>4. GivenUpClosed'
    BY DEF TypeOK, Owned, GivenUpClosed
  <1>5. ClearedLate'
    BY DEF TypeOK, Owned, ClearedLate
  <1> QED BY <1>1, <1>2, <1>3, <1>4, <1>5

LEMMA HandshakeInv == ASSUME NEW k \in Clients, Inv, Handshake(k) PROVE Inv'
  <1> USE ConnAssumption DEF Inv, Handshake, Move, Written, Open, Accepting
  <1>1. TypeOK'
    BY DEF TypeOK, Places
  <1>2. Owned'
    BY DEF TypeOK, Owned
  <1>3. Published' /\ OwnEntry'
    BY DEF TypeOK, Published, OwnEntry
  <1>4. GivenUpClosed'
    BY DEF TypeOK, Owned, GivenUpClosed
  <1>5. ClearedLate'
    BY DEF TypeOK, Owned, ClearedLate
  <1> QED BY <1>1, <1>2, <1>3, <1>4, <1>5

\* Nobody else's open descriptor is the one published.
LEMMA PublishInv == ASSUME NEW k \in Clients, Inv, Publish(k) PROVE Inv'
  <1> USE ConnAssumption DEF Inv, Publish, Move, Written, Open, Accepting
  <1>1. fd[k] \in Fds /\ owner[fd[k]] = k
    BY DEF Owned
  <1>2. TypeOK'
    BY <1>1 DEF TypeOK, Places
  <1>3. Owned'
    BY DEF TypeOK, Owned
  <1>4. Published'
    BY <1>1 DEF TypeOK, Owned, Published
  <1>5. OwnEntry'
    BY <1>1 DEF TypeOK, OwnEntry
  <1>6. GivenUpClosed'
    BY <1>1 DEF TypeOK, Owned, GivenUpClosed
  <1>7. ClearedLate'
    BY <1>1 DEF TypeOK, Owned, ClearedLate
  <1> QED BY <1>2, <1>3, <1>4, <1>5, <1>6, <1>7

LEMMA CreateThreadInv == ASSUME NEW k \in Clients, Inv, CreateThread(k) PROVE Inv'
  <1> USE ConnAssumption DEF Inv, CreateThread, Move, Written, Open, Accepting
  <1>1. TypeOK'
    BY DEF TypeOK, Places, InThread
  <1>2. Owned'
    BY DEF TypeOK, Owned
  <1>3. Published' /\ OwnEntry'
    BY DEF TypeOK, Published, OwnEntry
  <1>4. GivenUpClosed'
    BY DEF TypeOK, Owned, GivenUpClosed
  <1>5. ClearedLate'
    BY DEF TypeOK, Owned, ClearedLate
  <1> QED BY <1>1, <1>2, <1>3, <1>4, <1>5

LEMMA EndServeInv == ASSUME NEW k \in Clients, Inv, EndServe(k) \/ FreeSsl(k) PROVE Inv'
  <1> USE ConnAssumption DEF Inv, EndServe, FreeSsl, Move, Written, Open, Accepting
  <1>1. TypeOK'
    BY DEF TypeOK, Places, InThread
  <1>2. Owned' /\ Published' /\ OwnEntry'
    BY DEF TypeOK, Owned, Published, OwnEntry
  <1>3. GivenUpClosed'
    BY DEF TypeOK, Owned, GivenUpClosed
  <1>4. ClearedLate'
    BY DEF TypeOK, Owned, ClearedLate
  <1> QED BY <1>1, <1>2, <1>3, <1>4

LEMMA CloseFdInv == ASSUME NEW k \in Clients, Inv, CloseFd(k) PROVE Inv'
  <1> USE ConnAssumption DEF Inv, CloseFd, Move, Written, Open, Accepting
  <1>1. TypeOK'
    BY DEF TypeOK, Places, InThread
  <1>2. Owned'
    BY DEF TypeOK, Owned
  <1>3. Published' /\ OwnEntry'
    BY DEF TypeOK, Published, OwnEntry
  <1>4. GivenUpClosed'
    BY DEF TypeOK, Owned, GivenUpClosed
  <1>5. ClearedLate'
    BY DEF TypeOK, Owned, ClearedLate
  <1> QED BY <1>1, <1>2, <1>3, <1>4, <1>5

\* What is cleared is None afterwards, whoever had the entry.
LEMMA ClearEntryInv == ASSUME NEW k \in Clients, Inv, ClearEntry(k) PROVE Inv'
  <1> USE ConnAssumption DEF Inv, ClearEntry, Move, Written, Open, Accepting
  <1>1. fd[k] \in Fds
    BY DEF Owned
  <1>2. TypeOK'
    BY <1>1 DEF TypeOK, Places
  <1>3. Owned'
    BY DEF TypeOK, Owned
  <1>4. Published'
    BY <1>1 DEF TypeOK, Published, Owned
  <1>5. OwnEntry'
    BY <1>1 DEF TypeOK, OwnEntry
  <1>6. GivenUpClosed'
    BY <1>1 DEF TypeOK, Owned, GivenUpClosed
  <1>7. ClearedLate'
    BY <1>1 DEF TypeOK, Owned, Published, ClearedLate
  <1> QED BY <1>2, <1>3, <1>4, <1>5, <1>6, <1>7

LEMMA NextInv == Inv /\ [Next]_vars => Inv'
  <1> SUFFICES ASSUME Inv, [Next]_vars PROVE Inv'
    OBVIOUS
  <1>1. CASE Next
    BY <1>1, AcceptInv, HandshakeInv, PublishInv, CreateThreadInv, EndServeInv,
       CloseFdInv, ClearEntryInv
    DEF Next
  <1>2. CASE UNCHANGED vars
    BY <1>2 DEF vars, Inv, TypeOK, Owned, Published, OwnEntry, GivenUpClosed, ClearedLate
  <1> QED BY <1>1, <1>2

LEMMA InvHolds == Spec => []Inv
  BY InitInv, NextInv, PTL DEF Spec

-----------------------------------------------------------------------------
\* Every variable keeps its type: in particular the table is only indexed
\* with descriptors it has.
THEOREM Typing == Spec => []TypeOK
  BY InvHolds, PTL DEF Inv

\* A serving thread never finds another connection's SSL object, for any
\* number of threads that close and clear while descriptors are reused.
THEOREM NoCross == Spec => []NoCrossTalk
  <1>1. Inv => NoCrossTalk
    BY DEF Inv, Owned, Published, NoCrossTalk, Written, Open
  <1> QED BY <1>1, InvHolds, PTL

\* No entry holds the freed SSL object of a thread that is over.
THEOREM NoDangling == Spec => []NoDanglingEntry
  <1>1. Inv => NoDanglingEntry
    BY DEF Inv, OwnEntry, NoDanglingEntry, Written
  <1> QED BY <1>1, InvHolds, PTL
\* No path of the acceptor or of a thread loses a descriptor: an open one is
\* that of a connection still to be closed, so the clients connected, and not
\* those there ever were, are what uses the descriptors up.
THEOREM Closing == Spec => []GivenUpClosed
  BY InvHolds, PTL DEF Inv

\* The late clear of an earlier connection is the only way a served client
\* loses its TLS.
THEOREM OnlyReuse == Spec => []PlainOnlyAfterReuse
  <1>1. Inv => PlainOnlyAfterReuse
    BY DEF Inv, ClearedLate, PlainOnlyAfterReuse, Written
  <1> QED BY <1>1, InvHolds, PTL
=============================================================================
