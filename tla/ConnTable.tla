------------------------------ MODULE ConnTable ----------------------------
(***************************************************************************)
(* Connections, their file descriptors and g_ssl_table: the acceptor loop  *)
(* of start_server and the client threads of server/src/app/server.c.      *)
(*                                                                         *)
(* A connection k is also the SSL object made for it.  A descriptor is the *)
(* lowest one free (POSIX), so one that a thread has just closed is likely *)
(* to be the next connection's.  No lock covers the table.                 *)
(***************************************************************************)
EXTENDS Naturals

CONSTANTS
    Clients,        \* connections ever made
    MaxFd,          \* descriptors sockets may get, below MAX_CLIENT
    None

ASSUME ConnAssumption == MaxFd \in Nat /\ None \notin Clients

VARIABLES
    owner,          \* owner[f]: the connection whose socket f is, or None
    table,          \* g_ssl_table
    place,          \* where each connection is: in the acceptor, in its thread
    fd              \* ctx_client->clientfd, or 0

vars == <<owner, table, place, fd>>

Fds == 1 .. MaxFd

\* "handshake", "publish" and "create" are in the acceptor, one at a time
Accepting == {"handshake", "publish", "create"}
\* "serve" and the three that follow are in client_thread
InThread  == {"serve", "ssl_free", "close", "clear"}
\* "unthreaded": pthread_create failed, and the SSL object is never freed
Places    == {"new", "refused", "unthreaded", "done"} \cup Accepting \cup InThread

Init ==
    /\ owner = [f \in Fds |-> None]
    /\ table = [f \in Fds |-> None]
    /\ place = [k \in Clients |-> "new"]
    /\ fd = [k \in Clients |-> 0]

Move(k, from, to) == place[k] = from /\ place' = [place EXCEPT ![k] = to]

-----------------------------------------------------------------------------
(* start_server                                                            *)

LowestFree(f) == owner[f] = None /\ \A g \in Fds : g < f => owner[g] # None

\* Mutant: a descriptor is used whose number is beyond the table.
AcceptBeyond(k) ==
    /\ \A j \in Clients : place[j] \notin Accepting
    /\ Move(k, "new", "handshake")
    /\ \E f \in 1 .. MaxFd + 1 :
          /\ \A g \in Fds : g < f => owner[g] # None
          /\ f \in Fds => owner[f] = None
          /\ owner' = [g \in Fds |-> IF g = f THEN k ELSE owner[g]]
          /\ fd' = [fd EXCEPT ![k] = f]
    /\ table' = table

Accept(k) ==
    /\ \A j \in Clients : place[j] \notin Accepting
    /\ Move(k, "new", "handshake")
    /\ \E f \in Fds :
          /\ LowestFree(f)
          /\ owner' = [owner EXCEPT ![f] = k]
          /\ fd' = [fd EXCEPT ![k] = f]
    /\ table' = table

\* tls_accept, which blocks the acceptor
Handshake(k) ==
    \/ Move(k, "handshake", "publish") /\ UNCHANGED <<owner, table, fd>>
    \/ /\ Move(k, "handshake", "refused")
       /\ owner' = [owner EXCEPT ![fd[k]] = None]
       /\ UNCHANGED <<table, fd>>

\* Mutant: only an empty entry is written.
PublishIfEmpty(k) ==
    /\ Move(k, "publish", "create")
    /\ table' = [table EXCEPT ![fd[k]] = IF @ = None THEN k ELSE @]
    /\ UNCHANGED <<owner, fd>>

Publish(k) ==
    /\ Move(k, "publish", "create")
    /\ table' = [table EXCEPT ![fd[k]] = k]
    /\ UNCHANGED <<owner, fd>>

\* Mutant: a connection without a thread is left open.
CreateThreadLeaks(k) ==
    /\ Move(k, "create", "serve") \/ Move(k, "create", "unthreaded")
    /\ UNCHANGED <<owner, table, fd>>

\* pthread_create; when it fails the table keeps the entry
CreateThread(k) ==
    \/ Move(k, "create", "serve") /\ UNCHANGED <<owner, table, fd>>
    \/ /\ Move(k, "create", "unthreaded")
       /\ owner' = [owner EXCEPT ![fd[k]] = None]
       /\ UNCHANGED <<table, fd>>

-----------------------------------------------------------------------------
(* client_thread                                                           *)

\* handle_client returns: the client has gone
EndServe(k) == Move(k, "serve", "ssl_free") /\ UNCHANGED <<owner, table, fd>>

FreeSsl(k) == Move(k, "ssl_free", "close") /\ UNCHANGED <<owner, table, fd>>

\* the descriptor may be accept's next one from here on ...
CloseFd(k) ==
    /\ Move(k, "close", "clear")
    /\ owner' = [owner EXCEPT ![fd[k]] = None]
    /\ UNCHANGED <<table, fd>>

\* Mutant: the entry is never cleared.
ClearNothing(k) == Move(k, "clear", "done") /\ UNCHANGED <<owner, table, fd>>

\* ... and its entry is cleared after that
ClearEntry(k) ==
    /\ Move(k, "clear", "done")
    /\ table' = [table EXCEPT ![fd[k]] = None]
    /\ UNCHANGED <<owner, fd>>

Next == \E k \in Clients :
    \/ Accept(k) \/ Handshake(k) \/ Publish(k) \/ CreateThread(k)
    \/ EndServe(k) \/ FreeSsl(k) \/ CloseFd(k) \/ ClearEntry(k)

Spec == Init /\ [][Next]_vars

\* The acceptor and the threads are scheduled.  A client need not finish its
\* handshake, for which tls_accept waits, nor ever go away.
Cleanup(k) == FreeSsl(k) \/ CloseFd(k) \/ ClearEntry(k)

FairSpec ==
    /\ Spec
    /\ \A k \in Clients : WF_vars(Publish(k) \/ CreateThread(k)) /\ WF_vars(Cleanup(k))

-----------------------------------------------------------------------------
TypeOK ==
    /\ owner \in [Fds -> Clients \cup {None}]
    /\ table \in [Fds -> Clients \cup {None}]
    /\ place \in [Clients -> Places]
    /\ fd \in [Clients -> Fds \cup {0}]

\* A thread that serves a client and looks its descriptor up in g_ssl_table
\* finds its own SSL object or none: never another connection's, freed or in
\* use, although descriptors are reused while old threads still clean up.
NoCrossTalk ==
    \A k \in Clients : place[k] = "serve" => owner[fd[k]] = k /\ table[fd[k]] \in {k, None}

\* Once a thread is over, its SSL object, freed, is in no entry.
NoDanglingEntry ==
    \A k \in Clients : place[k] = "done" => \A f \in Fds : table[f] # k

\* The acceptor and the thread close the descriptor of a connection on every
\* path that gives it up, before anything else can be accepted on it: an open
\* descriptor belongs to a connection that is on its way to a thread or has one.
GivenUpClosed ==
    \A f \in Fds : owner[f] # None =>
        /\ fd[owner[f]] = f
        /\ place[owner[f]] \in Accepting \cup {"serve", "ssl_free", "close"}

\* Only a thread that cleared its entry after closing its descriptor can take
\* the TLS of a client away: where no earlier connection on the descriptor has
\* come to its end, whatever else it left in the table, the client has it.
PlainOnlyAfterReuse ==
    \A k \in Clients :
        place[k] = "serve" /\ table[fd[k]] # k =>
            \E j \in Clients \ {k} : fd[j] = fd[k] /\ place[j] = "done"

\* A descriptor is kept only for a client that is being served or is at its
\* handshake: whichever way the acceptor or the thread gives a connection
\* up, they close it, and the number of clients served is what uses them up.
DescriptorsReturned ==
    \A k \in Clients :
        (\E f \in Fds : owner[f] = k) ~>
            (\A f \in Fds : owner[f] # k) \/ place[k] \in {"handshake", "serve"}

\* README.md:14 "encrypts the channel", transport.c:15 "uses TLS": a client
\* is served through its SSL object, not by a plain send and recv.
ServedOverTLS ==
    \A k \in Clients : place[k] = "serve" => table[fd[k]] = k
=============================================================================
