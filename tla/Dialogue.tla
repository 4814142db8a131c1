------------------------------ MODULE Dialogue ------------------------------
(***************************************************************************)
(* The client program and the server thread on one connection.             *)
(***************************************************************************)
EXTENDS Shell, Thread

TypeOK ==
    /\ client \in ClientState
    /\ thread \in ThreadState
    /\ session \in SessionState
    /\ toServer \in Seq(Requests \cup Pieces)
    /\ toClient \in Seq(Lines \cup Pieces)
    /\ link \in Links
    /\ cause \in Causes

Init ==
    /\ client = InitClient /\ thread = InitThread /\ session = InitSession
    /\ toServer = <<>> /\ toClient = <<>>
    /\ link = "open" /\ cause = "none"

Next == UserAsks \/ ClientProceeds \/ ClientLeaves \/ ThreadProceeds \/ ServerDies

Spec == Init /\ [][Next]_vars

\* Both programs run: the operating system schedules a client that is not
\* blocked in SSL_read and a thread that is not.  Nobody need type a command.
FairSpec == Spec /\ WF_vars(ClientProceeds) /\ WF_vars(ThreadProceeds)

-----------------------------------------------------------------------------
InStep == cause = "none"

AwaitsLine == client.pc \in {"auth", "reply", "moved", "pwd", "first", "lines", "ready", "start"}
AwaitsData == ClientAt("fetch") /\ client.got < client.size

\* Nothing on the wire says where a message ends or what it is: each side
\* takes what comes for what it waits for.  While nothing has put the two out
\* of step, no piece of a file is read as a line or as a request, and no line
\* and no request as a piece of a file.
Framed ==
    InStep =>
        /\ toClient # <<>> /\ AwaitsLine => Head(toClient).is = "line"
        /\ toClient # <<>> /\ AwaitsData => Head(toClient).is = "data"
        /\ toServer # <<>> /\ ThreadAt("recv") => Head(toServer).is = "request"
        /\ toServer # <<>> /\ ThreadAt("saving") /\ thread.remaining > 0
              => Head(toServer).is = "data"

\* A command ends when the whole of its answer has been read, and only then:
\* nothing of it is left to be taken for the answer to the next command.
AnswersRead ==
    InStep /\ ClientAt("prompt") /\ link = "open" =>
        toClient = <<>> /\ toServer = <<>> /\ ThreadAt("recv")

Abroad(path) == path # <<>> /\ path[1] = "them:"

\* What the prompt shows is what the server believes.  Two exceptions: the
\* login that failed half-way, whose session is nowhere or in others' folders;
\* and the folder after exit-shared, which does not ask for it.
PromptTold ==
    InStep /\ ClientAt("prompt") /\ link = "open" =>
        /\ client.in => session.in
        /\ session.in /\ ~client.in => session.at = Nowhere \/ Abroad(session.cwd)
        /\ client.in => client.cwd = session.cwd \/ (Abroad(client.cwd) /\ ~session.sharing)

\* An upload is entered in the database when all that the client announced,
\* and had, is in the blob.
UploadWhole ==
    InStep /\ ThreadAt("saving") /\ thread.remaining = 0 =>
        /\ thread.saved = thread.asked
        /\ ClientAt("exited") \/ ServerLeft \/ (client.cmd = "UPLOAD" /\ client.left = 0)

\* Where a command is, for the one who typed it.
Phase ==
    IF ~InStep \/ link # "open" THEN "lost"
    ELSE IF ClientAt("prompt") THEN "idle"
    ELSE IF toServer # <<>> /\ Head(toServer).is = "request" THEN "called"
    ELSE "served"

Calls == INSTANCE Call WITH
    Commands <- Words,
    Movers   <- {"LOGIN", "LOGOUT", "CD", "OPEN_SHARED_FOLDER", "EXIT_SHARED"},
    Askers   <- {"CD", "OPEN_SHARED_FOLDER"},
    Nothing  <- "none", Fresh <- InitSession,
    phase <- Phase, command <- client.cmd, session <- session

\* The two programs and what is between them are what Call promises.
CalledOnce == Calls!Spec

\* Blocked in a read that nothing on its way can end.
ClientWaits == toClient = <<>> /\ ~ServerLeft /\ (AwaitsLine \/ AwaitsData)
ThreadWaits ==
    /\ toServer = <<>> /\ ~ClientLeft
    /\ ThreadAt("recv") \/ (ThreadAt("saving") /\ thread.remaining > 0)

\* Neither side has a timeout: if each came to wait for the other, in the
\* middle of a transfer or between a request and its answer, both would for
\* ever.  While they are in step, one of them always has something to do.
NeverBothWait == InStep => ~(ClientWaits /\ ThreadWaits)

\* How far a command is: cd and open-shared make two requests.
Stage ==
    CASE Phase = "idle" -> 0
      [] Phase = "called" -> IF ClientAt("moved") THEN 4 ELSE 2
      [] OTHER -> IF ClientAt("moved") THEN 3 ELSE 1

\* What is left to do in the answer: for the thread, the lines and units to
\* send or to save and its last line; for the client, the lines and units to
\* read or to send, and the calls that are left of its function.
ThreadEffort ==
    2 * thread.left + (thread.remaining - thread.total) + IF ThreadAt("recv") THEN 0 ELSE 2
ClientEffort ==
    CASE client.cmd \in Lists -> Len(toClient)
      [] ClientAt("ready")  -> 2 + client.size
      [] ClientAt("stream") -> 1 + client.left
      [] ClientAt("start")  -> 2 + Head(toClient).n
      [] ClientAt("fetch")  -> 1 + client.size - (client.got + client.total)
      [] OTHER -> 0
Effort == ThreadEffort + ClientEffort

\* No step of a command is in vain: while nothing has put the two out of
\* step, whatever either does, in any order, brings the command nearer to its
\* end, through refusals, short reads, and chunks that do not line up.
CommandsAdvance ==
    [][InStep' /\ link' = "open" /\ ~ClientAt("prompt") =>
          Stage' < Stage \/ (Stage' = Stage /\ Effort' \in 0 .. Effort - 1)]_vars

\* Every command comes back to the prompt, or the program ends, unless one
\* of the listed causes has put the two out of step.
Returns ==
    InStep /\ ~ClientAt("prompt") ~> ClientAt("prompt") \/ ClientAt("exited") \/ ~InStep

\* The listing of those who may read a file comes to its end, as that of
\* those who may open a folder does.
FileAclReturns ==
    ClientAt("lines") /\ client.cmd = "LIST_SHARED_USERS_FILE" ~> ~ClientAt("lines")

\* An upload whose client has closed the connection ends.
UploadEnds ==
    ThreadAt("saving") /\ ClientLeft ~> ~ThreadAt("saving")
=============================================================================
