-------------------------------- MODULE Wire --------------------------------
(***************************************************************************)
(* One connection seen from both its ends: the client program, the server  *)
(* thread that serves it, and the TLS stream between them.                 *)
(*                                                                         *)
(* A direction is a sequence of requests, or of reply lines and pieces of  *)
(* files.  A line is sent as one TLS record and read whole.  A file keeps  *)
(* no trace of the calls that send it: what is sent after a piece adds to  *)
(* that piece, and a read takes any part of it.  Sizes count units no      *)
(* larger than the server's transfer buffer.                               *)
(***************************************************************************)
EXTENDS Integers, Sequences

CONSTANTS
    Names,          \* of folders
    Sizes,          \* of files, in units
    MaxDepth,       \* bound: no folder is deeper than this
    MaxEntries,     \* bound: no listing is longer
    ClientBuf,      \* client buffer[8192] and
    ServerBuf,      \*   server buf[4096], in units
    IntMod,         \* 2^32 and
    SizeMod,        \*   2^64, in units
    DbMayFail,      \* a statement may fail
    DiskMayFail,    \* a blob may be shorter than its row says
    LocalMayFail,   \* the client's own files: no destination, size changed
    LinkMayFail     \* the client or the server process may die

VARIABLES
    client,     \* the client program
    thread,     \* the server thread's progress
    session,    \* and its session_t
    toServer, toClient,     \* records sent and not yet read
    link,       \* who, if anybody, has closed the connection, and how
    cause       \* history: the first thing that put the two out of step

vars == <<client, thread, session, toServer, toClient, link, cause>>

ASSUME NamesAssumption == {"-", "?", "them:"} \cap Names = {}

ASSUME SizesAssumption ==
    /\ Sizes \subseteq Nat
    /\ ClientBuf \in Nat \ {0} /\ ServerBuf \in Nat \ {0}
    /\ IntMod \in Nat \ {0} /\ SizeMod \in Nat /\ SizeMod > IntMod
    /\ MaxDepth \in Nat /\ MaxEntries \in Nat

ASSUME FailureAssumption ==
    /\ DbMayFail \in BOOLEAN /\ DiskMayFail \in BOOLEAN
    /\ LocalMayFail \in BOOLEAN /\ LinkMayFail \in BOOLEAN

-----------------------------------------------------------------------------
(* What is sent.  A path is the sequence of its components; "them:" stands *)
(* for the "owner:" that begins the path of a shared folder.               *)

Edits  == {"MKDIR", "DELETE", "RMDIR", "RENAME"}
Shares == {"SHARE_FILE", "SHARE_FOLDER", "UNSHARE_FILE", "UNSHARE_FOLDER"}

Acls   == {"LIST_SHARED_USERS_FILE", "LIST_SHARED_USERS_FOLDER"}
WithMe == {"LIST_SHARED_FILES_WITH_ME", "LIST_SHARED_FOLDERS_WITH_ME"}
Lists  == {"LIST"} \cup Acls \cup WithMe

Gets == {"DOWNLOAD", "DOWNLOAD_SHARED"}

Words == Edits \cup Shares \cup Lists \cup Gets \cup
    {"REGISTER", "LOGIN", "LOGOUT", "PWD", "CD", "OPEN_SHARED_FOLDER", "EXIT_SHARED", "UPLOAD"}

Marks == {"LIST_END", "LIST_SHARED_USERS_END", "LIST_FILES_SHARED_END",
          "LIST_SHARED_WITH_ME_END"}

\* error is any code of the handlers that no client function tells apart
Codes == {"200", "150", "50", "begin", "entry", "error"} \cup Marks

Paths == Seq(Names \cup {"them:", "-", "?"})

Requests == [is : {"request"}, word : Words, dir : Names \cup {".."}, n : Nat]
Lines    == [is : {"line"}, code : Codes, n : Nat, path : Paths]
Pieces   == [is : {"data"}, n : Nat \ {0}]

Line(code) == [is |-> "line", code |-> code, n |-> 0, path |-> <<>>]
Piece(n)   == [is |-> "data", n |-> n]

Least(m, n) == IF m < n THEN m ELSE n

-----------------------------------------------------------------------------
(* The two ends of the stream.                                             *)

\* At the end of the stream SSL_read returns 0 ("gone"), or -1 if it was not
\* closed with a close_notify, then and ever after ("cut").
Links == {"open", "client_gone", "client_cut", "server_gone", "server_cut"}

Put(queue, r) ==
    IF r.is = "data" /\ queue # <<>> /\ queue[Len(queue)].is = "data"
    THEN [queue EXCEPT ![Len(queue)] = Piece(@.n + r.n)]
    ELSE Append(queue, r)

\* What is sent to a peer that has gone is lost (or kills the process,
\* SIGPIPE being nowhere ignored: see ServerDies).
Send(r)   == toClient' = IF link = "open" THEN Put(toClient, r) ELSE toClient
SendUp(r) == toServer' = IF link = "open" THEN Put(toServer, r) ELSE toServer

ServerLeft == link \in {"server_gone", "server_cut"}
ClientLeft == link \in {"client_gone", "client_cut"}

\* k units of the piece at the head of a queue are read
Read(queue, k) ==
    IF k = queue[1].n THEN Tail(queue) ELSE [queue EXCEPT ![1] = Piece(@.n - k)]

\* what is left of a queue whose sender dies, maybe in the middle of a piece
Cuts(queue) ==
    {SubSeq(queue, 1, k) : k \in 0..Len(queue)} \cup
    UNION {{Append(SubSeq(queue, 1, k - 1), Piece(m)) : m \in 1..queue[k].n - 1} :
              k \in {i \in 1..Len(queue) : queue[i].is = "data"}}

Derailed(why) == cause' = IF cause = "none" THEN why ELSE cause

Causes == {"none", "file_acl", "list_failed", "no_reply", "size_changed", "int_size",
           "no_destination", "no_storage", "no_blob", "short_blob", "spinning"}
=============================================================================
