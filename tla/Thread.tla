------------------------------- MODULE Thread ------------------------------
(***************************************************************************)
(* The server thread of one connection: it reads a request, runs its       *)
(* handler and answers.  What a handler finds in the database is a choice; *)
(* what it sends, and what becomes of the session's paths, is not.         *)
(***************************************************************************)
EXTENDS Wire, SequencesExt

CONSTANT Ids    \* they tell the folders of one directory apart, whatever their names

ThreadPlaces == {"recv", "listing", "saving", "sending", "gone"}

ThreadState ==
    [pc : ThreadPlaces, word : Words \cup {"none"},
     asked : Nat, remaining : Nat, total : Nat,     \* the transfer loops, and net_recv_all
     saved : Nat,                                   \* units written to the blob
     left : Nat]                                    \* lines, or units of the blob, left to send

InitThread == [pc |-> "recv", word |-> "none", asked |-> 0, remaining |-> 0, total |-> 0,
               saved |-> 0, left |-> 0]

\* A folder: whose tree it is in, and the way down from that tree's root.  Its
\* names are not part of it: others may rename a folder at any time, and then
\* cwd, which is a text, says what it was called (Paths follows that).
\* current_folder_id is -1 in a session that did not find its root.
Folders == [tree : {"home", "theirs", "none"}, down : Seq(Ids)]
Nowhere == [tree |-> "none", down |-> <<>>]
Home    == [tree |-> "home", down |-> <<>>]

SessionState == [in : BOOLEAN, sharing : BOOLEAN, at : Folders, root : Folders, old : Folders,
                 cwd : Paths, oldCwd : Paths]

InitSession == [in |-> FALSE, sharing |-> FALSE, at |-> Nowhere, root |-> Nowhere,
                old |-> Nowhere, cwd |-> <<>>, oldCwd |-> <<>>]

ThreadAt(pc) == thread.pc = pc
Asked == Head(toServer)

\* a request is read; a record that is none is not handled (see Framed)
Takes(words) ==
    /\ ThreadAt("recv") /\ toServer # <<>>
    /\ Asked.is = "request" /\ Asked.word \in words
    /\ toServer' = Tail(toServer)

Replies(r) == Send(r) /\ thread' = InitThread
Says(code) == Replies(Line(code))
SameCause == cause' = cause

SessionKept == session' = session
ClientUntouched == UNCHANGED <<client, link>>

-----------------------------------------------------------------------------
(* Requests that are answered with one line.                               *)

HandlePlain ==
    /\ \/ Takes({"REGISTER"})
       \/ Takes(Edits \cup Shares) /\ session.in
    /\ Says("200")
    /\ SessionKept /\ SameCause /\ ClientUntouched

\* any handler may refuse or fail, before it has sent anything, but these:
NeverRefused == IF ~session.in THEN {}
                ELSE {"PWD", "LOGOUT"} \cup (IF session.sharing THEN {"EXIT_SHARED"} ELSE {})

HandleRefused ==
    /\ Takes(Words \ NeverRefused)
    /\ Says("error")
    /\ SessionKept /\ SameCause /\ ClientUntouched

\* logged_in is set, and cwd with it, before the root is looked up
HandleLogin ==
    /\ Takes({"LOGIN"}) /\ ~session.in
    /\ \/ Says("200") /\ session' = [session EXCEPT !.in = TRUE, !.cwd = <<>>, !.at = Home]
       \/ DbMayFail /\ Says("error") /\ session' = [session EXCEPT !.in = TRUE, !.cwd = <<>>]
    /\ SameCause /\ ClientUntouched

HandleLogout ==
    /\ Takes({"LOGOUT"}) /\ session.in
    /\ Says("200") /\ session' = InitSession
    /\ SameCause /\ ClientUntouched

HandlePwd ==
    /\ Takes({"PWD"}) /\ session.in
    /\ Replies([Line("200") EXCEPT !.path = session.cwd])
    /\ SessionKept /\ SameCause /\ ClientUntouched

-----------------------------------------------------------------------------
(* cd, open-shared, exit-shared: the folder, and the text the prompt shows *)

Above(f) == IF f.down = <<>> THEN f ELSE [f EXCEPT !.down = Front(@)]

\* folder_service_change_dir(".."): "/" stays, and so does a path without "/"
PathAbove(p) == IF p = <<>> \/ p = <<"them:">> THEN p ELSE Front(p)

HandleCdUp ==
    /\ Takes({"CD"}) /\ Asked.dir = ".."
    /\ session.in /\ session.at # Nowhere
    /\ ~(session.sharing /\ session.at = session.root)
    /\ session' = [session EXCEPT !.at = Above(@), !.cwd = PathAbove(@)]
    /\ Says("200")
    /\ SameCause /\ ClientUntouched

\* The folder found under that name; the path is never longer than cwd[256]
\* holds (MaxDepth).
HandleCdDown ==
    /\ Takes({"CD"}) /\ Asked.dir \in Names
    /\ session.in /\ session.at # Nowhere /\ Len(session.at.down) < MaxDepth
    /\ \E i \in Ids :
          session' = [session EXCEPT !.at.down = Append(@, i), !.cwd = Append(@, Asked.dir)]
    /\ Says("200")
    /\ SameCause /\ ClientUntouched

\* any folder but a root may have been shared with the user, its own too,
\* and has some name
Shareable == [tree : {"home", "theirs"}, down : UNION {[1..k -> Ids] : k \in 1..MaxDepth}]

HandleOpenShared ==
    /\ Takes({"OPEN_SHARED_FOLDER"}) /\ session.in
    /\ \E f \in Shareable, n \in Names :
          session' = [session EXCEPT !.sharing = TRUE, !.at = f, !.root = f, !.old = session.at,
                                     !.oldCwd = session.cwd, !.cwd = <<"them:", n>>]
    /\ Says("200")
    /\ SameCause /\ ClientUntouched

HandleExitShared ==
    /\ Takes({"EXIT_SHARED"}) /\ session.in /\ session.sharing
    /\ session' = [session EXCEPT !.sharing = FALSE, !.at = session.old, !.cwd = session.oldCwd,
                                  !.root = Nowhere, !.old = Nowhere]
    /\ Says("200")
    /\ SameCause /\ ClientUntouched

-----------------------------------------------------------------------------
(* The listings: a first line, a line for each entry, a last line.         *)

BeginList ==
    /\ Takes(Lists) /\ session.in
    /\ \E n \in 0..MaxEntries :
          thread' = [InitThread EXCEPT !.pc = "listing", !.word = Asked.word, !.left = n]
    /\ Send(Line("begin"))
    /\ SessionKept /\ SameCause /\ ClientUntouched

ListEntry ==
    /\ ThreadAt("listing") /\ thread.left > 0
    /\ thread' = [thread EXCEPT !.left = @ - 1]
    /\ Send(Line("entry"))
    /\ SessionKept /\ SameCause /\ ClientUntouched /\ UNCHANGED toServer

LastLine == [LIST |-> "LIST_END",
             LIST_SHARED_USERS_FILE   |-> "LIST_FILES_SHARED_END",
             LIST_SHARED_USERS_FOLDER |-> "LIST_SHARED_USERS_END",
             LIST_SHARED_FILES_WITH_ME   |-> "LIST_SHARED_WITH_ME_END",
             LIST_SHARED_FOLDERS_WITH_ME |-> "LIST_SHARED_WITH_ME_END"]

ListEnd ==
    /\ ThreadAt("listing") /\ thread.left = 0
    /\ Says(LastLine[thread.word])
    /\ IF thread.word = "LIST_SHARED_USERS_FILE" THEN Derailed("file_acl") ELSE SameCause
    /\ SessionKept /\ ClientUntouched /\ UNCHANGED toServer

\* handle_list has two statements after its first line; 500 is its last line then
ListFails ==
    /\ ThreadAt("listing") /\ thread.word = "LIST" /\ DbMayFail
    /\ Says("error") /\ Derailed("list_failed")
    /\ SessionKept /\ ClientUntouched /\ UNCHANGED toServer

-----------------------------------------------------------------------------
(* UPLOAD                                                                  *)

\* atoi, then int to size_t
FileSize(n) == LET m == n % IntMod IN IF 2 * m < IntMod THEN m ELSE SizeMod - (IntMod - m)

BeginUpload ==
    /\ Takes({"UPLOAD"}) /\ session.in
    /\ thread' = [InitThread EXCEPT !.pc = "saving", !.word = "UPLOAD", !.asked = Asked.n,
                                    !.remaining = FileSize(Asked.n)]
    /\ Send(Line("150"))
    /\ IF FileSize(Asked.n) = Asked.n THEN SameCause ELSE Derailed("int_size")
    /\ SessionKept /\ ClientUntouched

\* the blob cannot be opened: 500, with the client about to send the file
SaveRefused ==
    /\ ThreadAt("saving") /\ thread.saved = 0 /\ thread.total = 0 /\ DiskMayFail
    /\ thread.remaining = FileSize(thread.asked)
    /\ Says("error")
    /\ IF thread.asked = 0 THEN SameCause ELSE Derailed("no_storage")
    /\ SessionKept /\ ClientUntouched /\ UNCHANGED toServer

\* Mutant: remaining is not counted down.
SaveSomeUncounted ==
    LET chunk == Least(thread.remaining, ServerBuf) IN
    /\ ThreadAt("saving") /\ thread.remaining > 0
    /\ toServer # <<>> /\ Asked.is = "data"
    /\ \E k \in 1..Least(chunk - thread.total, Asked.n) :
          /\ toServer' = Read(toServer, k)
          /\ thread' = IF thread.total + k < chunk
                       THEN [thread EXCEPT !.total = @ + k]
                       ELSE [thread EXCEPT !.saved = @ + chunk, !.total = 0]
    /\ SessionKept /\ SameCause /\ ClientUntouched /\ UNCHANGED toClient

\* one net_recv of the net_recv_all for the next chunk
SaveSome ==
    LET chunk == Least(thread.remaining, ServerBuf) IN
    /\ ThreadAt("saving") /\ thread.remaining > 0
    /\ toServer # <<>> /\ Asked.is = "data"
    /\ \E k \in 1..Least(chunk - thread.total, Asked.n) :
          /\ toServer' = Read(toServer, k)
          /\ thread' = IF thread.total + k < chunk
                       THEN [thread EXCEPT !.total = @ + k]
                       ELSE [thread EXCEPT !.remaining = @ - chunk, !.saved = @ + chunk, !.total = 0]
    /\ SessionKept /\ SameCause /\ ClientUntouched /\ UNCHANGED toClient

\* Mutant: the loop is left at the end of the stream, and no more.
SaveEndedDone ==
    /\ ThreadAt("saving") /\ thread.remaining > 0 /\ ClientLeft /\ toServer = <<>>
    /\ thread' = [thread EXCEPT !.remaining = 0]
    /\ UNCHANGED <<client, session, toServer, toClient, link, cause>>

\* The client is gone.  0: a last short chunk, then the upload fails.  -1 is
\* SIZE_MAX in n: "n <= 0" is false, fwrite is given SIZE_MAX bytes and, if
\* the process lives through it (see ServerDies), remaining grows by one (it
\* is held at SizeMod - 1, 2^64 rounds away).
SaveEnded ==
    /\ ThreadAt("saving") /\ thread.remaining > 0
    /\ ClientLeft /\ toServer = <<>>
    /\ \/ /\ link = "client_gone" /\ thread.total > 0
          /\ thread' = [thread EXCEPT !.remaining = @ - thread.total, !.saved = @ + thread.total,
                                      !.total = 0]
          /\ UNCHANGED toClient
       \/ link = "client_gone" /\ thread.total = 0 /\ Says("error")
       \/ /\ link = "client_cut"
          /\ thread' = [thread EXCEPT !.remaining = Least(@ + 1, SizeMod - 1), !.total = 0]
          /\ UNCHANGED toClient
    /\ SessionKept /\ SameCause /\ ClientUntouched /\ UNCHANGED toServer

\* Mutant: a failure is not answered.
SaveDoneSilent ==
    /\ ThreadAt("saving") /\ thread.remaining = 0
    /\ Says("200") \/ (thread' = InitThread /\ UNCHANGED toClient)
    /\ SessionKept /\ SameCause /\ ClientUntouched /\ UNCHANGED toServer

\* db_file_insert: 200, or 500 and the blob removed
SaveDone ==
    /\ ThreadAt("saving") /\ thread.remaining = 0
    /\ Says("200") \/ Says("error")
    /\ SessionKept /\ SameCause /\ ClientUntouched /\ UNCHANGED toServer

-----------------------------------------------------------------------------
(* DOWNLOAD and DOWNLOAD_SHARED                                            *)

\* the sizes a row may have; the blob is as long unless a write was cut short
BeginDownload ==
    /\ Takes(Gets) /\ session.in
    /\ \E n \in {m \in Sizes : FileSize(m) = m} :
          \E left \in IF DiskMayFail THEN 0..n ELSE {n} :
             /\ thread' = [InitThread EXCEPT !.pc = "sending", !.word = Asked.word,
                                             !.asked = n, !.remaining = n, !.left = left]
             /\ Send([Line("50") EXCEPT !.n = n])
    /\ SessionKept /\ SameCause /\ ClientUntouched

\* a file deleted after it was shared: 200 DOWNLOAD_SUCCESS, and no file
DownloadDeleted ==
    /\ Takes({"DOWNLOAD_SHARED"}) /\ session.in
    /\ Says("200")
    /\ SessionKept /\ SameCause /\ ClientUntouched

\* 500, printed into a res nobody wrote with its own strlen as bound: empty
DownloadSilent ==
    /\ Takes({"DOWNLOAD"}) /\ session.in /\ DbMayFail
    /\ thread' = InitThread /\ Derailed("no_reply")
    /\ UNCHANGED toClient /\ SessionKept /\ ClientUntouched

\* the blob cannot be opened: 500, or the empty answer, where the file is due
SendRefused ==
    /\ ThreadAt("sending") /\ thread.remaining = thread.asked /\ DiskMayFail
    /\ \/ Says("error")
       \/ thread.word = "DOWNLOAD" /\ thread' = InitThread /\ UNCHANGED toClient
    /\ Derailed("no_blob")
    /\ SessionKept /\ ClientUntouched /\ UNCHANGED toServer

\* Mutant: the whole buffer is sent, whatever fread returned.
SendBuffer ==
    /\ ThreadAt("sending") /\ Least(thread.remaining, thread.left) > 0
    /\ thread' = [thread EXCEPT !.remaining = @ - ServerBuf, !.left = @ - ServerBuf]
    /\ Send(Piece(ServerBuf))
    /\ SessionKept /\ SameCause /\ ClientUntouched /\ UNCHANGED toServer

SendSome ==
    LET n == Least(Least(thread.remaining, ServerBuf), thread.left) IN
    /\ ThreadAt("sending") /\ n > 0
    /\ thread' = [thread EXCEPT !.remaining = @ - n, !.left = @ - n]
    /\ Send(Piece(n))
    /\ SessionKept /\ SameCause /\ ClientUntouched /\ UNCHANGED toServer

\* ERR is true: a blob that ends early, too, is answered 200
SendDone ==
    /\ ThreadAt("sending") /\ Least(thread.remaining, thread.left) = 0
    /\ Says("200")
    /\ IF thread.remaining = 0 THEN SameCause ELSE Derailed("short_blob")
    /\ SessionKept /\ ClientUntouched /\ UNCHANGED toServer

-----------------------------------------------------------------------------
\* net_recv returns 0 or -1: handle_client ends
ThreadEnds ==
    /\ ThreadAt("recv") /\ ClientLeft /\ toServer = <<>>
    /\ thread' = [thread EXCEPT !.pc = "gone"]
    /\ UNCHANGED <<client, session, toServer, toClient, link, cause>>

\* the whole process dies; what this connection had not sent on may be lost
ServerDies ==
    /\ LinkMayFail /\ ~ThreadAt("gone")
    /\ thread' = [InitThread EXCEPT !.pc = "gone"]
    /\ link' \in IF link = "open" THEN {"server_gone", "server_cut"} ELSE {link}
    /\ toServer' = <<>>
    /\ toClient' \in Cuts(toClient)
    /\ UNCHANGED <<client, session, cause>>

Handles ==
    \/ HandlePlain \/ HandleRefused \/ HandleLogin \/ HandleLogout \/ HandlePwd
    \/ HandleCdUp \/ HandleCdDown \/ HandleOpenShared \/ HandleExitShared
    \/ BeginList \/ BeginUpload \/ BeginDownload \/ DownloadDeleted \/ DownloadSilent

ThreadProceeds ==
    \/ Handles \/ ListEntry \/ ListEnd \/ ListFails
    \/ SaveRefused \/ SaveSome \/ SaveEnded \/ SaveDone
    \/ SendRefused \/ SendSome \/ SendDone
    \/ ThreadEnds
=============================================================================
