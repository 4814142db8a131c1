---------------------------- MODULE AdvanceProofs ----------------------------
(***************************************************************************)
(* Why a conversation gets on: the two programs never wait for each other, *)
(* and every step of either brings the command nearer to its end.          *)
(***************************************************************************)
EXTENDS DialogueProofs

\* A thread that still has to save has room for more of the chunk it is reading.
Filling == ThreadAt("saving") /\ thread.remaining > 0 => thread.total < thread.remaining

LEMMA FillingKept == TypeOK /\ Filling /\ [Next]_vars => Filling'
  <1> SUFFICES ASSUME TypeOK, Filling, [Next]_vars PROVE Filling'
    OBVIOUS
  <1> USE DEF Filling, ThreadAt
  <1>a. thread \in ThreadState
    BY DEF TypeOK
  <1>b. thread' = InitThread => Filling'
    BY DEF InitThread
  <1>1. CASE UNCHANGED thread
    BY <1>1
  <1>2. CASE UserAsks \/ ClientProceeds \/ ClientLeaves
    BY <1>1, <1>2, ClientSteps DEF ClientLeaves
  <1>3. CASE Handles
    <2>1. CASE BeginList \/ BeginDownload
      BY <2>1 DEF BeginList, BeginDownload, InitThread
    <2>2. CASE BeginUpload
      <3>1. FileSize(Asked.n) \in Nat
        BY <2>2, TakesTyped, FileSizeTyped DEF BeginUpload, Requests
      <3> QED BY <2>2, <3>1 DEF BeginUpload, InitThread
    <2>3. CASE ~(BeginList \/ BeginUpload \/ BeginDownload)
      BY <1>3, <1>b, <2>3 DEF Handles, HandlePlain, HandleRefused, HandleLogin, HandleLogout,
             HandlePwd, HandleCdUp, HandleCdDown, HandleOpenShared, HandleExitShared,
             DownloadDeleted, DownloadSilent, Says, Replies
    <2> QED BY <2>1, <2>2, <2>3
  <1>4. CASE ListEntry \/ SendSome \/ ThreadEnds
    BY <1>4, <1>a DEF ListEntry, SendSome, ThreadEnds, ThreadState
  <1>5. CASE ListEnd \/ ListFails \/ SaveRefused \/ SaveDone \/ SendRefused \/ SendDone
                \/ ServerDies
    BY <1>5, <1>b DEF ListEnd, ListFails, SaveRefused, SaveDone, SendRefused, SendDone, Says,
           Replies, ServerDies, InitThread
  <1>6. CASE SaveSome
    <2> DEFINE chunk == Least(thread.remaining, ServerBuf)
    <2>1. thread.remaining \in Nat /\ thread.total \in Nat
      BY <1>a DEF ThreadState
    <2>2. chunk \in Nat /\ chunk <= thread.remaining
      BY <2>1, SizesAssumption, LeastTyped
    <2>3. \E k \in Int :
             thread' = IF thread.total + k < chunk
                       THEN [thread EXCEPT !.total = @ + k]
                       ELSE [thread EXCEPT !.remaining = @ - chunk, !.saved = @ + chunk, !.total = 0]
      BY <1>6 DEF SaveSome
    <2> HIDE DEF chunk
    <2> QED BY <1>a, <2>1, <2>2, <2>3 DEF ThreadState
  <1>7. CASE SaveEnded
    <2>1. CASE thread' = InitThread
      BY <1>b, <2>1
    <2>2. CASE thread' # InitThread
      <3>1. thread'.total = 0 /\ (thread'.remaining > 0 => 0 < thread'.remaining)
        BY <1>7, <1>a, <2>2 DEF SaveEnded, Says, Replies, ThreadState
      <3> QED BY <3>1
    <2> QED BY <2>1, <2>2
  <1> QED BY <1>1, <1>2, <1>3, <1>4, <1>5, <1>6, <1>7 DEF Next, ThreadProceeds, vars

LEMMA FillingAlways == Spec => []Filling
  <1>1. Init => Filling
    BY DEF Init, InitThread, Filling, ThreadAt
  <1>2. Shared => TypeOK
    BY DEF Shared
  <1> QED BY <1>1, <1>2, FillingKept, SharedAlways, PTL DEF Spec

\* At most one of the two is in a read that has nothing to return.
LEMMA SharedTurns == Shared /\ Filling => NeverBothWait
  <1> SUFFICES ASSUME Shared, Filling, InStep, ClientWaits, ThreadWaits PROVE FALSE
    BY DEF NeverBothWait
  <1>1. TypeOK /\ Working /\ Matched /\ Joined /\ Talk
    BY DEF Shared
  <1>2. toClient = <<>> /\ toServer = <<>> /\ ~Gone /\ client.pc \notin {"prompt", "exited", "stream"}
    BY DEF ClientWaits, ThreadWaits, AwaitsLine, AwaitsData, Gone, ClientAt
  <1>3. ~Opened /\ Coming = <<>> /\ Len(<<>>) = 0
    BY <1>2 DEF Opened, Coming
  <1>4. thread.pc \in {"recv", "saving"}
    BY DEF ThreadWaits, ThreadAt
  <1>5. CASE Exchanging
    BY <1>1, <1>2, <1>3, <1>5 DEF Talk, ClientAt, Exchange, LoneLine, LoneRequest
  <1>6. CASE ~Exchanging
    <2>1. Answering
      BY <1>1, <1>2, <1>6 DEF Talk, ClientAt
    <2>2. client.cmd \in Lists \/ client.cmd \in Gets \/ client.cmd = "UPLOAD"
      <3>1. client.pc \in ClientPlaces
        BY <1>1 DEF TypeOK, ClientState
      <3> QED BY <1>1, <1>2, <1>6, <3>1 DEF Matched, Exchanging, ClientPlaces
    <2>3. CASE client.cmd \in Lists
      BY <1>2, <1>3, <1>4, <2>1, <2>3 DEF Answering, Listing, ThreadAt
    <2>4. CASE client.cmd \in Gets
      BY <1>2, <1>3, <1>4, <2>1, <2>4 DEF Answering, Downloading, ThreadAt, LonePiece, LoneLine
    <2>5. CASE client.cmd = "UPLOAD"
      <3>1. client.pc = "reply"
        BY <1>1, <1>2, <1>3, <1>6, <2>5, Kinds DEF ClientWaits, AwaitsLine, AwaitsData, Exchanging, ClientAt, Matched
      <3>2. client.left = 0 /\ Uploading(<<>>, 0)
        BY <1>1, <1>3, <2>1, <2>5, <3>1 DEF Answering, Matched
      <3>3. /\ thread.pc = "saving" /\ thread.saved + thread.total = client.size
            /\ thread.saved + thread.remaining = client.size
        <4>1. /\ thread.saved \in Nat /\ thread.total \in Nat
          BY <1>1 DEF TypeOK, ThreadState
        <4> QED BY <1>2, <1>3, <3>2, <4>1 DEF Uploading, ThreadAt, LonePiece, LoneLine
      <3>4. thread.remaining # 0 /\ thread.total < thread.remaining
        BY <3>3 DEF ThreadWaits, ThreadAt, Filling
      <3> QED BY <1>1, <3>3, <3>4 DEF TypeOK, ThreadState
    <2> QED BY <2>2, <2>3, <2>4, <2>5
  <1> QED BY <1>5, <1>6

\* The two programs, in step, are never both blocked: over every size, every
\* division of a file into reads and every refusal, with neither having died.
THEOREM TurnsKept == Spec => []NeverBothWait
  BY SharedAlways, FillingAlways, SharedTurns, PTL

-----------------------------------------------------------------------------
(* The measure of a command.                                               *)

LEMMA ThreadEffortNat == TypeOK /\ Working => ThreadEffort \in Nat
  BY DEF TypeOK, Working, ThreadState, ThreadEffort

LEMMA EffortNat ==
    Shared /\ InStep /\ link = "open" /\ client.pc # "prompt" /\ Phase = "served" => Effort \in Nat
  <1> SUFFICES ASSUME Shared, InStep, link = "open", client.pc # "prompt", Phase = "served"
               PROVE  Effort \in Nat
    OBVIOUS
  <1>1. TypeOK /\ Working /\ Matched /\ Joined /\ Talk
    BY DEF Shared
  <1>2. /\ client.size \in Nat /\ client.left \in Nat /\ client.got \in Nat /\ client.total \in Nat
        /\ client.pc \in ClientPlaces
    BY <1>1 DEF TypeOK, ClientState
  <1>3. Len(toClient) \in Nat
    BY <1>1, Heads, NoLength
  <1>4. CASE client.cmd \in Lists
    <2>1. client.pc \notin {"ready", "stream", "start", "fetch"}
      BY <1>1, <1>4, Kinds DEF Matched
    <2>2. ClientEffort = Len(toClient)
      BY <1>4, <2>1 DEF ClientEffort, ClientAt
    <2> QED BY <1>1, <1>3, <2>2, ThreadEffortNat DEF Effort
  <1>5. CASE client.cmd \notin Lists /\ client.pc = "start"
    <2>1. toClient # <<>> /\ toClient[1].is = "line"
      <3>1. ~(Exchanging /\ toClient = <<>>)
        BY PhaseOf
      <3>2. CASE Exchanging
        BY <1>1, <1>5, <3>1, <3>2 DEF Talk, ClientAt, Exchange, LoneLine
      <3>3. CASE ~Exchanging
        <4>1. Len(toClient) >= 1 /\ toClient[1].is = "line"
          BY <1>5, <3>3 DEF Exchanging, Opened
        <4> QED BY <1>1, <4>1, Heads, NoLength
      <3> QED BY <3>2, <3>3
    <2>2. Head(toClient) = toClient[1] /\ toClient[1] \in Downs
      BY <1>1, <2>1, Heads, Read1Typed
    <2>3. Head(toClient).n \in Nat
      BY <2>1, <2>2, DataIsPiece DEF Lines
    <2>4. ClientEffort = 2 + Head(toClient).n
      BY <1>5 DEF ClientEffort, ClientAt
    <2> QED BY <1>1, <2>3, <2>4, ThreadEffortNat DEF Effort
  <1>6. CASE client.cmd \notin Lists /\ client.pc # "start"
    <2>1. ClientEffort \in Nat
      BY <1>1, <1>2, <1>6 DEF ClientEffort, ClientAt, Matched
    <2> QED BY <1>1, <2>1, ThreadEffortNat DEF Effort
  <1> QED BY <1>4, <1>5, <1>6

LEMMA EffortNext ==
    (Shared /\ InStep /\ link = "open" /\ client.pc # "prompt" /\ Phase = "served"
        => Effort \in Nat)'
  BY EffortNat, PTL

\* while an answer that takes more than one line is given, the stage is the same
LEMMA SameStage ==
    ASSUME Shared, Shared', [Next]_vars, InStep, link = "open", InStep', link' = "open",
           client.pc # "prompt", client'.pc # "prompt", Phase = "served",
           client'.cmd = client.cmd, client.cmd \in Lists \cup Gets \cup {"UPLOAD"}
    PROVE  Stage = 1 /\ Stage' = 1 /\ Phase' = "served" /\ Effort \in Nat /\ Effort' \in Nat
  <1>1. client.cmd \notin {"CD", "OPEN_SHARED_FOLDER"}
    BY Kinds
  <1>2. client.pc # "moved" /\ client'.pc # "moved"
    BY <1>1 DEF Shared, Matched
  <1>3. Phase' \in {"called", "served"}
    BY DEF Phase, InStep, ClientAt
  <1>4. Phase' = "served"
    BY <1>1, <1>3, CallStep DEF Calls!Next, Calls!Call, Calls!Serve, Calls!AskBack, Calls!Return,
       Calls!Lose
  <1>5. Stage = 1
    BY <1>2 DEF Stage, ClientAt
  <1>6. Stage' = 1
    BY <1>2, <1>4 DEF Stage, ClientAt
  <1>7. Effort \in Nat
    BY EffortNat
  <1>8. Effort' \in Nat
    BY <1>4, EffortNext
  <1> QED BY <1>4, <1>5, <1>6, <1>7, <1>8

\* nearer to the end of the command
Nearer == Stage' < Stage \/ (Stage' = Stage /\ Effort' \in 0 .. Effort - 1)

\* the client's part of a step that does not end the command
LEMMA ClientNearer ==
    ASSUME Shared, Shared', ClientProceeds, InStep, link = "open", InStep', link' = "open"
    PROVE  Nearer
  <1>1. TypeOK /\ Working /\ Matched /\ Joined /\ Talk /\ client \in ClientState
    BY DEF Shared, TypeOK
  <1>2. Phase = "served" /\ client.pc # "prompt" /\ UNCHANGED <<thread, session, link>> /\ ~Closed
    BY ClientServed, ClientSteps DEF Closed, ServerLeft
  <1>3. Stage \in {1, 3} /\ (client.pc = "moved" => Stage = 3)
    BY <1>2 DEF Stage, ClientAt
  <1>4. /\ client.size \in Nat /\ client.left \in Nat /\ client.got \in Nat /\ client.total \in Nat
    BY <1>1 DEF ClientState
  <1>5. CASE client'.pc = "prompt"
    <2>1. Stage' = 0
      BY <1>5 DEF Stage, Phase, InStep, ClientAt
    <2> QED BY <1>3, <2>1 DEF Nearer
  <1>6. CASE AskPwd
    <2>1. client.pc = "moved" /\ client'.pc = "pwd"
      BY <1>1, <1>6 DEF AskPwd, Waits, ClientState, ClientAt
    <2>2. Stage' \in {1, 2}
      BY <2>1 DEF Stage, Phase, InStep, ClientAt
    <2> QED BY <1>3, <2>1, <2>2 DEF Nearer
  <1>7. ASSUME client'.pc # "prompt", client'.cmd = client.cmd,
               client.cmd \in Lists \cup Gets \cup {"UPLOAD"}, ClientEffort' < ClientEffort,
               ClientEffort \in Int, ClientEffort' \in Int
        PROVE  Nearer
    <2>1. [Next]_vars
      BY DEF Next
    <2>2. Stage = 1 /\ Stage' = 1 /\ Effort \in Nat /\ Effort' \in Nat
      BY <1>2, <1>7, <2>1, SameStage
    <2>3. ThreadEffort' = ThreadEffort /\ ThreadEffort \in Nat
      BY <1>1, <1>2, ThreadEffortNat DEF ThreadEffort, ThreadAt
    <2>4. Effort' = ThreadEffort + ClientEffort' /\ Effort = ThreadEffort + ClientEffort
      BY <2>3 DEF Effort
    <2>5. Effort' < Effort
      <3>1. \A a, b, c \in Int : b < c => a + b < a + c
        OBVIOUS
      <3>2. ThreadEffort \in Int /\ ClientEffort \in Int /\ ClientEffort' \in Int
            /\ ClientEffort' < ClientEffort
        BY <1>7, <2>3
      <3> QED BY <2>4, <3>1, <3>2
    <2> QED BY <2>2, <2>5 DEF Nearer
  <1>8. CASE (FirstLine \/ NextLine) /\ client'.pc # "prompt"
    <2>1. /\ client.cmd \in Lists /\ client'.cmd = client.cmd /\ Hears
          /\ client.pc \in {"first", "lines"} /\ client'.pc = "lines"
      BY <1>1, <1>2, <1>8, BackAtPrompt DEF FirstLine, NextLine, Matched, ClientAt, Heard, NotHeard,
         Waits, ClientState
    <2>2. Len(toClient') = Len(toClient) - 1 /\ Len(toClient) \in Nat
      BY <1>1, <2>1, Heads, EmptyQueue
    <2>3. ClientEffort = Len(toClient) /\ ClientEffort' = Len(toClient')
      BY <2>1 DEF ClientEffort, ClientAt
    <2> QED BY <1>7, <1>8, <2>1, <2>2, <2>3
  <1>9. CASE PutReady /\ client'.pc # "prompt"
    <2>1. PICK n \in IF LocalMayFail THEN Sizes ELSE {client.size} :
             /\ client' = [client EXCEPT !.pc = "stream", !.left = n]
             /\ IF n = client.size THEN cause' = cause ELSE Derailed("size_changed")
      BY <1>9, BackAtPrompt DEF PutReady
    <2>2. n = client.size
      BY <2>1 DEF Derailed, InStep
    <2>3. /\ client.pc = "ready" /\ client.cmd = "UPLOAD" /\ client'.pc = "stream"
          /\ client'.cmd = client.cmd /\ client'.left = client.size
      BY <1>1, <1>9, <2>1, <2>2 DEF PutReady, ClientAt, Matched, ClientState
    <2>4. ClientEffort = 2 + client.size /\ ClientEffort' = 1 + client.size
      BY <2>3, Kinds DEF ClientEffort, ClientAt
    <2> QED BY <1>4, <1>7, <1>9, <2>3, <2>4
  <1>10. CASE PutStream /\ client'.pc # "prompt"
    <2> DEFINE n == Least(ClientBuf, client.left)
    <2>1. /\ client.pc = "stream" /\ client.cmd = "UPLOAD" /\ client.left > 0
          /\ client' = [client EXCEPT !.left = @ - n]
      BY <1>1, <1>10, BackAtPrompt DEF PutStream, ClientAt, Matched
    <2>2. n \in Nat /\ n >= 1
      BY <1>4, <2>1, SizesAssumption DEF Least
    <2> HIDE DEF n
    <2>3. /\ client'.pc = "stream" /\ client'.cmd = client.cmd /\ client'.left = client.left - n
      BY <1>1, <2>1 DEF ClientState
    <2>4. ClientEffort = 1 + client.left /\ ClientEffort' = 1 + (client.left - n)
      BY <2>1, <2>3, Kinds DEF ClientEffort, ClientAt
    <2> QED BY <1>4, <1>7, <1>10, <2>1, <2>2, <2>3, <2>4
  <1>11. CASE PutDone
    <2>1. /\ client.pc = "stream" /\ client.cmd = "UPLOAD" /\ client.left = 0
          /\ client'.pc = "reply" /\ client'.cmd = client.cmd
      BY <1>1, <1>11 DEF PutDone, ClientAt, Matched, Waits, ClientState
    <2>2. ClientEffort = 1 /\ ClientEffort' = 0
      BY <2>1, Kinds DEF ClientEffort, ClientAt
    <2> QED BY <1>7, <2>1, <2>2
  <1>12. CASE GetStart /\ client'.pc # "prompt"
    <2>1. Heard("50") /\ client' = [client EXCEPT !.pc = "fetch", !.size = Head(toClient).n]
      BY <1>2, <1>12, BackAtPrompt DEF GetStart
    <2>2. Head(toClient).n \in Nat
      BY <1>1, <2>1, HearsTyped DEF Heard, Lines
    <2>3. /\ client.pc = "start" /\ client.cmd \in Gets /\ client'.pc = "fetch"
          /\ client'.cmd = client.cmd /\ client'.size = Head(toClient).n
          /\ client'.got = 0 /\ client'.total = 0
      BY <1>1, <1>12, <2>1 DEF GetStart, ClientAt, Matched, ClientState
    <2>4. ClientEffort = 2 + Head(toClient).n /\ ClientEffort' = 1 + Head(toClient).n - (0 + 0)
      BY <2>3, Kinds DEF ClientEffort, ClientAt
    <2> QED BY <1>7, <1>12, <2>2, <2>3, <2>4
  <1>13. CASE GetFetch /\ client'.pc # "prompt"
    <2> DEFINE need == Least(ClientBuf, client.size - client.got)
    <2>1. /\ client.pc = "fetch" /\ client.cmd \in Gets /\ client.got < client.size
      BY <1>1, <1>13 DEF GetFetch, ClientAt, Matched
    <2>2. PICK k \in 1..Least(need - client.total, Head(toClient).n) :
             client' = IF client.total + k < need
                       THEN [client EXCEPT !.total = @ + k]
                       ELSE [client EXCEPT !.got = @ + need, !.total = 0]
      BY <1>13, BackAtPrompt DEF GetFetch
    <2>3. need \in Nat
      BY <1>4, <2>1, SizesAssumption DEF Least
    <2>4. toClient # <<>> /\ Head(toClient) \in Downs /\ Head(toClient).is = "data"
      BY <1>1, <1>13, Heads, Read1Typed DEF GetFetch
    <2>5. Head(toClient).n \in Nat
      BY <2>4, DataIsPiece
    <2> HIDE DEF need
    <2>6. k \in Nat /\ k >= 1 /\ client.total + k <= need
      BY <1>4, <2>2, <2>3, <2>5 DEF Least
    <2>7. /\ client'.pc = "fetch" /\ client'.cmd = client.cmd /\ client'.size = client.size
          /\ client'.got + client'.total = client.got + client.total + k
      <3>1. CASE client.total + k < need
        BY <1>1, <1>4, <2>1, <2>2, <2>6, <3>1 DEF ClientState
      <3>2. CASE ~(client.total + k < need)
        <4>1. client.total + k = need
          BY <1>4, <2>3, <2>6, <3>2
        <4> QED BY <1>1, <1>4, <2>1, <2>2, <2>6, <3>2, <4>1 DEF ClientState
      <3> QED BY <3>1, <3>2
    <2>8. /\ ClientEffort = 1 + client.size - (client.got + client.total)
          /\ ClientEffort' = 1 + client.size - (client.got + client.total + k)
      BY <2>1, <2>7, Kinds DEF ClientEffort, ClientAt
    <2> QED BY <1>4, <1>7, <1>13, <2>1, <2>6, <2>7, <2>8
  <1>14. CASE GetDone
    <2>1. /\ client.pc = "fetch" /\ client.cmd \in Gets /\ client.got = client.size
          /\ client'.pc = "reply" /\ client'.cmd = client.cmd
      BY <1>1, <1>14 DEF GetDone, ClientAt, Matched, Waits, ClientState
    <2>2. client.total = 0
      BY <1>1, <1>4, <2>1 DEF Matched
    <2>3. ClientEffort = 1 + client.size - (client.size + 0) /\ ClientEffort' = 0
      BY <2>1, <2>2, Kinds DEF ClientEffort, ClientAt
    <2> QED BY <1>4, <1>7, <2>1, <2>3
  <1>15. AuthReply \/ TakeReply \/ PwdReply => client'.pc = "prompt"
    <2>1. \A ok : Authenticated(ok) => client'.pc = "prompt"
      BY BackAtPrompt DEF Authenticated
    <2> QED BY <1>2, <2>1, BackAtPrompt DEF AuthReply, TakeReply, PwdReply
  <1>16. ~GetEnded
    BY <1>2 DEF GetEnded
  <1> QED BY <1>5, <1>6, <1>8, <1>9, <1>10, <1>11, <1>12, <1>13, <1>14, <1>15, <1>16
         DEF ClientProceeds

\* what an idle thread has left to do
LEMMA InitEffort == thread' = InitThread => ThreadEffort' = 0
  BY DEF ThreadEffort, InitThread, ThreadAt

\* what the client has left is its own, but for the lines it waits for
LEMMA SameClientEffort ==
    ASSUME Matched, client' = client, client.cmd \notin Lists,
           client.pc = "start" => Head(toClient') = Head(toClient)
    PROVE  ClientEffort' = ClientEffort
  BY DEF ClientEffort, ClientAt

\* the first line, that the client may not have read yet, stays the first
LEMMA FirstStays ==
    ASSUME TypeOK, link = "open", Len(toClient) >= 1, toClient[1].is = "line",
           toClient' = toClient \/ \E r \in Downs : Send(r)
    PROVE  Head(toClient') = Head(toClient)
  <1>1. toClient \in Seq(Downs)
    BY Heads
  <1>2. CASE toClient' = toClient
    BY <1>2
  <1>3. CASE \E r \in Downs : Send(r)
    <2>1. PICK r \in Downs : toClient' = Put(toClient, r)
      BY <1>3 DEF Send
    <2>2. /\ Put(toClient, r) \in Seq(Downs) /\ Len(Put(toClient, r)) >= 1
          /\ Put(toClient, r)[1] = toClient[1]
      BY <1>1, PutBehind
    <2>3. toClient # <<>> /\ toClient' # <<>> /\ toClient' \in Seq(Downs)
      BY <1>1, <2>1, <2>2, NoLength
    <2> QED BY <1>1, <2>1, <2>2, <2>3, EmptyQueue
  <1> QED BY <1>2, <1>3

\* the thread's part: it takes the request, or goes on with the answer
LEMMA ThreadNearer ==
    ASSUME Shared, Shared', ThreadProceeds, InStep, link = "open", InStep', link' = "open",
           client.pc # "prompt"
    PROVE  Nearer
  <1>1. TypeOK /\ Working /\ Matched /\ Joined /\ Talk /\ thread \in ThreadState
    BY DEF Shared, TypeOK
  <1>2. ~Gone /\ client.pc # "exited" /\ client' = client /\ ~ClientLeft
    BY <1>1, PhaseOf, OpenStill
  <1>3. /\ thread.remaining \in Nat /\ thread.total \in Nat /\ thread.left \in Nat
        /\ thread.total <= thread.remaining
    BY <1>1 DEF ThreadState, Working
  <1>4. CASE Handles
    <2>1. toServer # <<>> /\ ThreadAt("recv") /\ toServer' = Tail(toServer)
      BY <1>1, <1>4, HandlesShape
    <2>2. Exchanging /\ toClient = <<>> /\ LoneRequest(toServer)
      BY <1>1, <1>2, <2>1, WhatAnswers DEF ThreadAt
    <2>3. Phase = "called" /\ toServer' = <<>>
      BY <1>1, <2>1, <2>2, PhaseOf, Heads, Lone DEF LoneRequest
    <2>4. Phase' = "served"
      BY <1>2, <2>3 DEF Phase, InStep, ClientAt
    <2>5. Stage = IF client.pc = "moved" THEN 4 ELSE 2
      BY <2>3 DEF Stage, ClientAt
    <2>6. Stage' = IF client.pc = "moved" THEN 3 ELSE 1
      BY <1>2, <2>4 DEF Stage, ClientAt
    <2> QED BY <2>5, <2>6 DEF Nearer
  <1>5. CASE ~Handles
    <2>1. ~ThreadEnds /\ ~SaveEnded /\ ~ListFails /\ ~SendRefused
      BY <1>2 DEF ThreadEnds, SaveEnded, ListFails, SendRefused, Derailed, InStep
    <2>2. thread.pc # "recv"
      BY <1>5, <2>1 DEF ThreadProceeds, ListEntry, ListEnd, SaveRefused, SaveSome, SaveDone,
         SendSome, SendDone, ThreadAt
    <2>3. /\ ~Exchanging /\ Answering
          /\ \/ client.cmd \in Lists /\ ThreadAt("listing")
             \/ client.cmd = "UPLOAD" /\ ThreadAt("saving")
             \/ client.cmd \in Gets /\ ThreadAt("sending")
      BY <1>1, <1>2, <2>2, WhatAnswers DEF ThreadAt
    <2>4. Phase = "served" /\ (toServer = <<>> \/ LonePiece(toServer))
      BY <2>3, PhaseOf
    <2>5. Stage = 1 /\ Stage' = 1 /\ Effort \in Nat /\ Effort' \in Nat
      <3>1. [Next]_vars
        BY DEF Next
      <3> QED BY <1>2, <2>3, <2>4, <3>1, SameStage
    <2>6. ThreadEffort = 2 * thread.left + (thread.remaining - thread.total) + 2
      BY <2>2 DEF ThreadEffort, ThreadAt
    <2>7. ClientEffort \in Int
      <3>1. Effort = ThreadEffort + ClientEffort /\ ThreadEffort \in Nat
        BY <1>1, ThreadEffortNat DEF Effort
      <3>2. CASE client.cmd \in Lists
        <4>1. client.pc \notin {"ready", "stream", "start", "fetch"}
          BY <1>1, <3>2, Kinds DEF Matched
        <4>2. ClientEffort = Len(toClient)
          BY <3>2, <4>1 DEF ClientEffort, ClientAt
        <4> QED BY <1>1, <4>2, Heads, NoLength
      <3>3. CASE client.cmd \notin Lists /\ client.pc = "start"
        <4>1. Len(toClient) >= 1 /\ toClient[1].is = "line"
          BY <2>3, <3>3 DEF Exchanging, Opened
        <4>2. Head(toClient) = toClient[1] /\ toClient[1] \in Downs
          BY <1>1, <4>1, Heads, NoLength, Read1Typed
        <4>3. Head(toClient).n \in Nat
          BY <4>1, <4>2, DataIsPiece DEF Lines
        <4> QED BY <3>3, <4>3 DEF ClientEffort, ClientAt
      <3>4. CASE client.cmd \notin Lists /\ client.pc # "start"
        <4>1. /\ client.size \in Nat /\ client.left \in Nat /\ client.got \in Nat
              /\ client.total \in Nat
          BY <1>1 DEF TypeOK, ClientState
        <4> QED BY <1>1, <3>4, <4>1 DEF ClientEffort, ClientAt, Matched
      <3> QED BY <3>2, <3>3, <3>4
    <2>8. ASSUME NEW t \in Int, NEW c \in Int, ThreadEffort' = t, ClientEffort' = c,
                 t + c < ThreadEffort + ClientEffort
          PROVE  Nearer
      <3>1. Effort' = t + c /\ Effort = ThreadEffort + ClientEffort
        BY <2>8 DEF Effort
      <3>2. \A a, b \in Nat : b < a => b \in 0 .. a - 1
        OBVIOUS
      <3>3. Effort' < Effort
        BY <2>8, <3>1
      <3> QED BY <2>5, <3>2, <3>3 DEF Nearer
    <2>9. CASE ListEntry \/ ListEnd
      <3>1. client.cmd \in Lists /\ client.pc \notin {"ready", "stream", "start", "fetch"}
        BY <1>1, <2>3, <2>9, Kinds DEF ListEntry, ListEnd, ThreadAt, Matched
      <3>2. ClientEffort = Len(toClient) /\ ClientEffort' = Len(toClient')
        BY <1>2, <3>1 DEF ClientEffort, ClientAt
      <3>3. \E code \in Codes : Send(Line(code))
        <4>1. CASE ListEntry
          BY <4>1 DEF ListEntry, Codes
        <4>2. CASE ListEnd
          <5>1. LastLine[thread.word] \in Codes
            BY <1>1, <4>2 DEF ListEnd, Working, Lists, Acls, WithMe, LastLine, Codes, Marks
          <5> QED BY <4>2, <5>1 DEF ListEnd, Says, Replies
        <4> QED BY <2>9, <4>1, <4>2
      <3>4. Len(toClient') = Len(toClient) + 1 /\ Len(toClient) \in Nat
        <4>1. PICK code \in Codes : toClient' = Put(toClient, Line(code))
          BY <3>3 DEF Send
        <4>2. Line(code) \in Downs /\ Line(code).is = "line" /\ toClient \in Seq(Downs)
          BY <1>1, LineTyped, CodesSent, Heads DEF Downs
        <4> QED BY <4>1, <4>2, PutLine, NoLength
      <3>5. CASE ListEntry
        <4>1. /\ thread'.left = thread.left - 1 /\ thread'.remaining = thread.remaining
              /\ thread'.total = thread.total /\ thread'.pc = "listing"
          BY <1>1, <3>5 DEF ListEntry, ThreadState, ThreadAt
        <4>2. ThreadEffort' = 2 * (thread.left - 1) + (thread.remaining - thread.total) + 2
          BY <4>1 DEF ThreadEffort, ThreadAt
        <4>3. \A l, d, m \in Int : 2 * (l - 1) + d + 2 + (m + 1) < 2 * l + d + 2 + m
          OBVIOUS
        <4>4. thread.remaining - thread.total \in Int /\ thread.left \in Int
              /\ Len(toClient) + 1 \in Int /\ ThreadEffort' \in Int
          BY <1>3, <3>4, <4>2
        <4> DEFINE l == thread.left
                   d == thread.remaining - thread.total
                   m == Len(toClient)
        <4>5. l \in Int /\ d \in Int /\ m \in Int
          BY <3>4, <4>4
        <4>6. ThreadEffort = 2 * l + d + 2 /\ ThreadEffort' = 2 * (l - 1) + d + 2
              /\ ClientEffort = m /\ ClientEffort' = m + 1
          BY <2>6, <3>2, <3>4, <4>2
        <4> HIDE DEF l, d, m
        <4>7. ThreadEffort' + (m + 1) < ThreadEffort + ClientEffort
          BY <4>3, <4>5, <4>6
        <4> QED BY <2>8, <4>4, <4>5, <4>6, <4>7
      <3>6. CASE ListEnd
        <4>1. ThreadEffort' = 0
          BY <3>6, InitEffort DEF ListEnd, Says, Replies
        <4> QED BY <1>3, <2>6, <2>8, <3>2, <3>4, <4>1
      <3> QED BY <2>9, <3>5, <3>6
    <2>10. CASE ~(ListEntry \/ ListEnd)
      <3>1. /\ client.cmd \notin Lists
            /\ client.pc = "start" => Len(toClient) >= 1 /\ toClient[1].is = "line"
        <4>1. ~ThreadAt("listing")
          BY <1>5, <2>1, <2>10 DEF ThreadProceeds, SaveRefused, SaveSome, SaveDone, SendSome,
             SendDone, ThreadAt
        <4> QED BY <2>3, <4>1, Kinds DEF Exchanging, Opened
      <3>2. toClient' = toClient \/ \E r \in Downs : Send(r)
        <4>1. CASE SaveSome
          BY <4>1 DEF SaveSome
        <4>2. CASE SaveRefused \/ SaveDone \/ SendDone
          <5>1. Line("200") \in Downs /\ Line("error") \in Downs
            BY LineTyped DEF Codes, Downs
          <5> QED BY <4>2, <5>1 DEF SaveRefused, SaveDone, SendDone, Says, Replies
        <4>3. CASE SendSome
          <5> DEFINE n == Least(Least(thread.remaining, ServerBuf), thread.left)
          <5>1. Send(Piece(n)) /\ n > 0
            BY <4>3 DEF SendSome
          <5>2. n \in Nat
            BY <1>3, SizesAssumption DEF Least
          <5> HIDE DEF n
          <5> QED BY <5>1, <5>2, PieceTyped DEF Downs
        <4> QED BY <1>5, <2>1, <2>10, <4>1, <4>2, <4>3 DEF ThreadProceeds
      <3>3. ClientEffort' = ClientEffort
        BY <1>1, <1>2, <3>1, <3>2, FirstStays, SameClientEffort
      <3>4. CASE SaveRefused \/ SaveDone \/ SendDone
        <4>1. ThreadEffort' = 0
          BY <3>4, InitEffort DEF SaveRefused, SaveDone, SendDone, Says, Replies
        <4> QED BY <1>3, <2>6, <2>7, <2>8, <3>3, <4>1
      <3>5. CASE SaveSome
        <4> DEFINE chunk == Least(thread.remaining, ServerBuf)
        <4>1. PICK k \in 1..Least(chunk - thread.total, Asked.n) :
                 thread' = IF thread.total + k < chunk
                           THEN [thread EXCEPT !.total = @ + k]
                           ELSE [thread EXCEPT !.remaining = @ - chunk, !.saved = @ + chunk,
                                               !.total = 0]
          BY <3>5 DEF SaveSome
        <4>2. Asked \in Ups /\ Asked.is = "data"
          BY <1>1, <3>5, Heads, Read1Typed DEF SaveSome, Asked
        <4>3. chunk \in Nat /\ Asked.n \in Nat
          BY <1>3, <4>2, SizesAssumption, LeastTyped, DataIsPiece
        <4> HIDE DEF chunk
        <4>4. k \in Nat /\ k >= 1 /\ thread.total + k <= chunk
          BY <1>3, <4>1, <4>3 DEF Least
        <4>5. /\ thread'.pc = "saving" /\ thread'.left = thread.left
              /\ thread'.remaining - thread'.total = thread.remaining - thread.total - k
          <5>0. thread.pc = "saving"
            BY <3>5 DEF SaveSome, ThreadAt
          <5>1. CASE thread.total + k < chunk
            BY <1>1, <1>3, <4>1, <4>4, <5>0, <5>1 DEF ThreadState
          <5>2. CASE ~(thread.total + k < chunk)
            <6>1. thread.total + k = chunk
              BY <1>3, <4>3, <4>4, <5>2
            <6> QED BY <1>1, <1>3, <4>1, <4>3, <4>4, <5>0, <5>2, <6>1 DEF ThreadState
          <5> QED BY <5>1, <5>2
        <4>6. ThreadEffort' = 2 * thread.left + (thread.remaining - thread.total - k) + 2
          BY <4>5 DEF ThreadEffort, ThreadAt
        <4> QED BY <1>3, <2>6, <2>7, <2>8, <3>3, <4>4, <4>6
      <3>6. CASE SendSome
        <4> DEFINE n == Least(Least(thread.remaining, ServerBuf), thread.left)
        <4>1. thread' = [thread EXCEPT !.remaining = @ - n, !.left = @ - n] /\ n > 0
              /\ thread.pc = "sending"
          BY <3>6 DEF SendSome, ThreadAt
        <4>2. n \in Nat
          BY <1>3, SizesAssumption DEF Least
        <4> HIDE DEF n
        <4>3. /\ thread'.pc = "sending" /\ thread'.left = thread.left - n
              /\ thread'.remaining = thread.remaining - n /\ thread'.total = thread.total
          BY <1>1, <4>1 DEF ThreadState
        <4>4. ThreadEffort' = 2 * (thread.left - n) + (thread.remaining - n - thread.total) + 2
          BY <4>3 DEF ThreadEffort, ThreadAt
        <4> QED BY <1>3, <2>6, <2>7, <2>8, <3>3, <4>1, <4>2, <4>4
      <3> QED BY <1>5, <2>1, <2>10, <3>4, <3>5, <3>6 DEF ThreadProceeds
    <2> QED BY <2>9, <2>10
  <1> QED BY <1>4, <1>5

\* No step of a command is in vain, whichever program takes it, for every
\* listing, size and buffer: a command that is in step can take only so many
\* steps before its prompt comes back.
THEOREM CommandsGetOn == Spec => CommandsAdvance
  <1> DEFINE Advance ==
               InStep' /\ link' = "open" /\ ~ClientAt("prompt") =>
                   Stage' < Stage \/ (Stage' = Stage /\ Effort' \in 0 .. Effort - 1)
  <1>1. ASSUME Shared, Shared', [Next]_vars PROVE [Advance]_vars
    <2> SUFFICES ASSUME Next, InStep', link' = "open", client.pc # "prompt" PROVE Nearer
      BY <1>1 DEF Nearer, ClientAt
    <2>1. InStep
      BY <1>1, StillInStep DEF Shared
    <2>2. ~UserAsks
      BY DEF UserAsks, Ask, AskAuth, AskEdit, AskShare, AskPlain, AskMove, AskList, AskAcl,
         AskWithMe, AskPut, AskGet, ClientAt
    <2>3. ~ClientLeaves /\ ~ServerDies
      BY DEF ClientLeaves, ServerDies
    <2>4. link = "open"
      BY <2>2, <2>3, ClientSteps, ThreadSteps DEF Next
    <2> QED BY <1>1, <2>1, <2>2, <2>3, <2>4, ClientNearer, ThreadNearer DEF Next
  <1> HIDE DEF Advance
  <1>2. Shared /\ Shared' /\ [Next]_vars => [Advance]_vars
    BY <1>1
  <1>3. Spec => [][Advance]_vars
    BY <1>2, SharedAlways, PTL DEF Spec
  <1> QED BY <1>3 DEF Advance, CommandsAdvance
=============================================================================
