------------------------------- MODULE Shell -------------------------------
(***************************************************************************)
(* The client program: a loop that reads a command, sends its request and  *)
(* waits for what that command's function waits for.                       *)
(***************************************************************************)
EXTENDS Wire

\* pc names the call the client is blocked in: the net_recv of auth.c
\* ("auth"), recv_response ("reply"; "moved" in cd and open-shared, whose PWD
\* follows), recv_response_to_buf ("pwd", "first", "ready", "start"),
\* recv_multiline_reponse ("lines"), the loops of put and get.
ClientPlaces == {"prompt", "auth", "reply", "moved", "pwd", "first", "lines", "ready", "stream",
                 "start", "fetch", "exited"}

ClientState ==
    [pc : ClientPlaces, cmd : Words \cup {"none"},
     in : BOOLEAN, cwd : Paths,         \* is_logged_in, and the cwd of the prompt
     size : Nat, left : Nat,            \* the size announced; what put has yet to read
     got : Nat, total : Nat]            \* received by get, and total of its net_recv_all

InitClient == [pc |-> "prompt", cmd |-> "none", in |-> FALSE, cwd |-> <<"-">>,
               size |-> 0, left |-> 0, got |-> 0, total |-> 0]

ClientAt(pc) == client.pc = pc
Waits(pc)    == client' = [client EXCEPT !.pc = pc]

\* the command is over
Prompt(in, cwd) == client' = [InitClient EXCEPT !.in = in, !.cwd = cwd]
Back == Prompt(client.in, client.cwd)

\* A line is read.  What is sent as a line and read as a piece of a file, or
\* the other way round, is not modelled: Framed says when that may happen.
Hears == toClient # <<>> /\ Head(toClient).is = "line" /\ toClient' = Tail(toClient)
Heard(code)    == Hears /\ Head(toClient).code = code
NotHeard(code) == Hears /\ Head(toClient).code # code

\* the connection is closed, and everything sent on it has been read
Closed == ServerLeft /\ toClient = <<>> /\ toClient' = toClient

ThreadUntouched == UNCHANGED <<thread, session, link>>
OnlyReads == ThreadUntouched /\ UNCHANGED <<toServer, cause>>

\* A command sends its request and waits.  dir is the folder of CD, n the
\* size that UPLOAD announces.  Once out of step with the server (cause) the
\* client is not followed any further.
Ask(word, dir, n, pc) ==
    /\ ClientAt("prompt") /\ cause = "none"
    /\ SendUp([is |-> "request", word |-> word, dir |-> dir, n |-> n])
    /\ client' = [client EXCEPT !.pc = pc, !.cmd = word, !.size = n]
    /\ ThreadUntouched /\ UNCHANGED <<toClient, cause>>

-----------------------------------------------------------------------------
(* login, logout, register; the commands that print one answer             *)

AskAuth == \E word \in {"REGISTER", "LOGIN", "LOGOUT"} : Ask(word, "..", 0, "auth")

Authenticated(ok) ==
    CASE ok /\ client.cmd = "LOGIN"  -> Prompt(TRUE, <<>>)
      [] ok /\ client.cmd = "LOGOUT" -> Prompt(FALSE, <<"-">>)
      [] OTHER -> Back

\* Only 0 is tested for: after -1 the code is read from a res nobody wrote.
AuthReply ==
    /\ ClientAt("auth")
    /\ \/ Hears /\ Authenticated(Head(toClient).code = "200")
       \/ Closed /\ link = "server_gone" /\ Waits("exited")
       \/ Closed /\ link = "server_cut" /\ \E ok \in BOOLEAN : Authenticated(ok)
    /\ OnlyReads

AskEdit  == \E word \in Edits : Ask(word, "..", 0, "reply")
AskShare == \E word \in Shares : Ask(word, "..", 0, "reply")
AskPlain == \E word \in {"PWD", "EXIT_SHARED"} : Ask(word, "..", 0, "reply")

\* recv_response, whatever comes: the cwd of the prompt stays after EXIT_SHARED
TakeReply ==
    /\ ClientAt("reply")
    /\ Hears \/ Closed
    /\ Back
    /\ OnlyReads

-----------------------------------------------------------------------------
(* cd and open-shared: two requests, the second to learn the directory     *)

AskMove ==
    \/ \E dir \in Names \cup {".."} : Ask("CD", dir, 0, "moved")
    \/ Ask("OPEN_SHARED_FOLDER", "..", 0, "moved")

\* Mutant: the cwd of the prompt is not asked for.
AskNoPwd == ClientAt("moved") /\ (Hears \/ Closed) /\ Back /\ OnlyReads

\* Mutant: the answer to the first request is not waited for.
AskPwdEarly ==
    /\ ClientAt("moved")
    /\ SendUp([is |-> "request", word |-> "PWD", dir |-> "..", n |-> 0])
    /\ Waits("pwd")
    /\ ThreadUntouched /\ UNCHANGED <<toClient, cause>>

AskPwd ==
    /\ ClientAt("moved")
    /\ Hears \/ Closed
    /\ SendUp([is |-> "request", word |-> "PWD", dir |-> "..", n |-> 0])
    /\ Waits("pwd")
    /\ ThreadUntouched /\ UNCHANGED cause

\* After -1 the directory is parsed from a buf nobody wrote.
PwdReply ==
    /\ ClientAt("pwd")
    /\ \/ Heard("200") /\ Prompt(client.in, Head(toClient).path)
       \/ NotHeard("200") /\ Back
       \/ Closed /\ \E p \in {client.cwd, <<"?">>} : Prompt(client.in, p)
    /\ OnlyReads

-----------------------------------------------------------------------------
(* ls, file-acl, folder-acl, shared-files, shared-folders                  *)

AskList   == Ask("LIST", "..", 0, "first")
AskAcl    == \E word \in Acls : Ask(word, "..", 0, "first")
AskWithMe == \E word \in WithMe : Ask(word, "..", 0, "first")

\* the line each of them reads on until
Marker == [LIST |-> "LIST_END",
           LIST_SHARED_USERS_FILE   |-> "LIST_SHARED_USERS_END",
           LIST_SHARED_USERS_FOLDER |-> "LIST_SHARED_USERS_END",
           LIST_SHARED_FILES_WITH_ME   |-> "LIST_SHARED_WITH_ME_END",
           LIST_SHARED_FOLDERS_WITH_ME |-> "LIST_SHARED_WITH_ME_END"]

\* Mutant: one line is read, as cmd_list once did.
OneLine == ClientAt("first") /\ (Hears \/ Closed) /\ Back /\ OnlyReads

FirstLine ==
    /\ ClientAt("first")
    /\ \/ Heard("begin") /\ Waits("lines")
       \/ NotHeard("begin") /\ Back
       \/ Closed /\ Back
    /\ OnlyReads

NextLine ==
    /\ ClientAt("lines")
    /\ \/ Heard(Marker[client.cmd]) /\ Back
       \/ NotHeard(Marker[client.cmd]) /\ UNCHANGED client
       \/ Closed /\ Back
    /\ OnlyReads

-----------------------------------------------------------------------------
(* put                                                                     *)

AskPut == \E n \in Sizes : Ask("UPLOAD", "..", n, "ready")

\* Mutant: the code is not looked at.
PutAnyway ==
    /\ ClientAt("ready") /\ (Hears \/ Closed)
    /\ client' = [client EXCEPT !.pc = "stream", !.left = client.size]
    /\ OnlyReads

\* 150: the file is read from its start, whatever its size is by now
PutReady ==
    /\ ClientAt("ready")
    /\ \/ /\ Heard("150")
          /\ \E n \in IF LocalMayFail THEN Sizes ELSE {client.size} :
                /\ client' = [client EXCEPT !.pc = "stream", !.left = n]
                /\ IF n = client.size THEN cause' = cause ELSE Derailed("size_changed")
       \/ /\ NotHeard("150") \/ Closed
          /\ Back /\ cause' = cause
    /\ ThreadUntouched /\ UNCHANGED toServer

\* one fread of buffer[8192] and its net_send_all, which may fail if the
\* server is gone
PutStream ==
    /\ ClientAt("stream") /\ client.left > 0
    /\ LET n == Least(ClientBuf, client.left) IN
       \/ SendUp(Piece(n)) /\ client' = [client EXCEPT !.left = @ - n]
       \/ ServerLeft /\ Back /\ toServer' = toServer
    /\ ThreadUntouched /\ UNCHANGED <<toClient, cause>>

PutDone ==
    /\ ClientAt("stream") /\ client.left = 0
    /\ Waits("reply")
    /\ UNCHANGED toClient /\ OnlyReads

-----------------------------------------------------------------------------
(* get and get-shared                                                      *)

AskGet == \E word \in Gets : Ask(word, "..", 0, "start")

\* 50 <size>: if the destination cannot be opened the file is not read.  get
\* goes on, at the end of the stream, with what its res held before: it may
\* be the answer to an earlier get.
GetStart ==
    /\ ClientAt("start")
    /\ \/ /\ Heard("50")
          /\ client' = [client EXCEPT !.pc = "fetch", !.size = Head(toClient).n]
          /\ cause' = cause
       \/ Heard("50") /\ LocalMayFail /\ Back /\ Derailed("no_destination")
       \/ /\ NotHeard("50") \/ Closed
          /\ Back /\ cause' = cause
       \/ /\ Closed /\ client.cmd = "DOWNLOAD"
          /\ \E n \in Sizes : client' = [client EXCEPT !.pc = "fetch", !.size = n]
          /\ cause' = cause
    /\ ThreadUntouched /\ UNCHANGED toServer

\* one net_recv of the net_recv_all that asks for need units
GetFetch ==
    LET need == Least(ClientBuf, client.size - client.got) IN
    /\ ClientAt("fetch") /\ client.got < client.size
    /\ toClient # <<>> /\ Head(toClient).is = "data"
    /\ \E k \in 1..Least(need - client.total, Head(toClient).n) :
          /\ toClient' = Read(toClient, k)
          /\ \/ /\ client' = IF client.total + k < need
                               THEN [client EXCEPT !.total = @ + k]
                               ELSE [client EXCEPT !.got = @ + need, !.total = 0]
                /\ cause' = cause
             \/ /\ LocalMayFail /\ client.cmd = "DOWNLOAD_SHARED"     \* fwrite, tested here only
                /\ client.total + k = need
                /\ Back /\ Derailed("no_destination")
    /\ ThreadUntouched /\ UNCHANGED toServer

\* The connection is closed.  -1: both give up.  0: net_recv_all returns what
\* it has, and get goes on even with nothing, get-shared does not.
GetEnded ==
    /\ ClientAt("fetch") /\ client.got < client.size
    /\ Closed
    /\ \/ /\ link = "server_cut" \/ (client.total = 0 /\ client.cmd = "DOWNLOAD_SHARED")
          /\ Back /\ cause' = cause
       \/ /\ link = "server_gone" /\ client.total > 0
          /\ client' = [client EXCEPT !.got = @ + client.total, !.total = 0]
          /\ cause' = cause
       \/ /\ link = "server_gone" /\ client.total = 0 /\ client.cmd = "DOWNLOAD"
          /\ UNCHANGED client /\ Derailed("spinning")
    /\ ThreadUntouched /\ UNCHANGED toServer

GetDone ==
    /\ ClientAt("fetch") /\ client.got = client.size
    /\ Waits("reply")
    /\ UNCHANGED toClient /\ OnlyReads

-----------------------------------------------------------------------------
\* quit, and the end of the process anywhere: the descriptor is closed
\* without SSL_shutdown, and what was not yet sent on may be lost
ClientLeaves ==
    /\ ~ClientAt("exited")
    /\ ClientAt("prompt") \/ LinkMayFail
    /\ Waits("exited")
    /\ link' \in IF link = "open" THEN {"client_gone", "client_cut"} ELSE {link}
    /\ toClient' = <<>>
    /\ toServer' \in IF ClientAt("prompt") THEN {toServer} ELSE Cuts(toServer)
    /\ UNCHANGED <<thread, session, cause>>

UserAsks ==
    \/ AskAuth \/ AskEdit \/ AskShare \/ AskPlain \/ AskMove
    \/ AskList \/ AskAcl \/ AskWithMe \/ AskPut \/ AskGet

ClientProceeds ==
    \/ AuthReply \/ TakeReply \/ AskPwd \/ PwdReply \/ FirstLine \/ NextLine
    \/ PutReady \/ PutStream \/ PutDone \/ GetStart \/ GetFetch \/ GetEnded \/ GetDone
=============================================================================
