--------------------------- MODULE DialogueProofs ---------------------------
(***************************************************************************)
(* Proofs about the client program and the server thread on a connection,  *)
(* for any names, sizes, buffers and failures.                             *)
(***************************************************************************)
EXTENDS Dialogue, TLAPS

-----------------------------------------------------------------------------
(* The queues.                                                             *)

Ups   == Requests \cup Pieces
Downs == Lines \cup Pieces

LEMMA PieceTyped == \A n \in Nat \ {0} : Piece(n) \in Pieces
  BY DEF Piece, Pieces

LEMMA LineTyped ==
    ASSUME NEW code \in Codes
    PROVE  /\ Line(code) \in Lines
           /\ \A n \in Nat : [Line(code) EXCEPT !.n = n] \in Lines
           /\ \A p \in Paths : [Line(code) EXCEPT !.path = p] \in Lines
  <1>1. <<>> \in Paths
    BY DEF Paths
  <1>2. Line(code) \in Lines
    BY <1>1 DEF Line, Lines
  <1>3. ASSUME NEW n \in Nat PROVE [Line(code) EXCEPT !.n = n] \in Lines
    BY <1>1 DEF Line, Lines
  <1>4. ASSUME NEW p \in Paths PROVE [Line(code) EXCEPT !.path = p] \in Lines
    BY DEF Line, Lines
  <1> QED BY <1>2, <1>3, <1>4

LEMMA RequestTyped ==
    \A word \in Words, dir \in Names \cup {".."}, n \in Nat :
        [is |-> "request", word |-> word, dir |-> dir, n |-> n] \in Requests
  BY DEF Requests

LEMMA DataIsPiece ==
    /\ \A r \in Ups : r.is = "data" => r \in Pieces /\ r.n \in Nat /\ r.n > 0
    /\ \A r \in Downs : r.is = "data" => r \in Pieces /\ r.n \in Nat /\ r.n > 0
    /\ \A r \in Ups : r.is = "request" => r \in Requests
    /\ \A r \in Downs : r.is = "line" => r \in Lines
  BY DEF Ups, Downs, Pieces, Requests, Lines

LEMMA PutTyped ==
    ASSUME NEW T \in {Ups, Downs}, NEW q \in Seq(T), NEW r \in T
    PROVE  Put(q, r) \in Seq(T)
  <1>1. CASE r.is = "data" /\ q # <<>> /\ q[Len(q)].is = "data"
    <2>1. Len(q) \in DOMAIN q /\ q[Len(q)] \in T
      BY <1>1
    <2>2. Piece(q[Len(q)].n + r.n) \in T
      BY <1>1, <2>1, DataIsPiece, PieceTyped DEF Ups, Downs
    <2>3. Put(q, r) = [q EXCEPT ![Len(q)] = Piece(q[Len(q)].n + r.n)]
      BY <1>1 DEF Put
    <2> QED BY <2>1, <2>2, <2>3
  <1>2. CASE ~(r.is = "data" /\ q # <<>> /\ q[Len(q)].is = "data")
    BY <1>2 DEF Put
  <1> QED BY <1>1, <1>2

LEMMA ReadTyped ==
    ASSUME NEW T \in {Ups, Downs}, NEW q \in Seq(T), q # <<>>, q[1].is = "data",
           NEW k \in 1..q[1].n
    PROVE  Read(q, k) \in Seq(T)
  <1>1. 1 \in DOMAIN q /\ q[1] \in T /\ q[1].n \in Nat
    BY DataIsPiece
  <1>2. CASE k = q[1].n
    BY <1>2 DEF Read
  <1>3. CASE k # q[1].n
    <2>1. Piece(q[1].n - k) \in T
      BY <1>1, <1>3, PieceTyped DEF Ups, Downs
    <2>2. Read(q, k) = [q EXCEPT ![1] = Piece(q[1].n - k)]
      BY <1>3 DEF Read
    <2> QED BY <1>1, <2>1, <2>2
  <1> QED BY <1>2, <1>3

LEMMA CutsTyped ==
    ASSUME NEW T \in {Ups, Downs}, NEW q \in Seq(T), NEW c \in Cuts(q)
    PROVE  c \in Seq(T)
  <1>1. ASSUME NEW k \in 0..Len(q), c = SubSeq(q, 1, k)
        PROVE  c \in Seq(T)
    BY <1>1
  <1>2. ASSUME NEW k \in 1..Len(q), q[k].is = "data", NEW m \in 1..q[k].n - 1,
               c = Append(SubSeq(q, 1, k - 1), Piece(m))
        PROVE  c \in Seq(T)
    <2>1. SubSeq(q, 1, k - 1) \in Seq(T)
      OBVIOUS
    <2>2. Piece(m) \in T
      BY <1>2, DataIsPiece, PieceTyped DEF Ups, Downs
    <2> QED BY <1>2, <2>1, <2>2
  <1> QED BY <1>1, <1>2 DEF Cuts

LEMMA Sent ==
    ASSUME NEW T \in {Ups, Downs}, NEW q \in Seq(T), NEW r \in T
    PROVE  (IF link = "open" THEN Put(q, r) ELSE q) \in Seq(T)
  BY PutTyped

LEMMA SendTyped ==
    ASSUME toClient \in Seq(Downs), NEW r \in Downs, Send(r)
    PROVE  toClient' \in Seq(Downs)
  BY Sent DEF Send

LEMMA SendUpTyped ==
    ASSUME toServer \in Seq(Ups), NEW r \in Ups, SendUp(r)
    PROVE  toServer' \in Seq(Ups)
  BY Sent DEF SendUp

LEMMA CausesKept ==
    ASSUME NEW why \in Causes, cause \in Causes, Derailed(why)
    PROVE  cause' \in Causes
  BY DEF Derailed

LEMMA LeastTyped == \A m, n \in Nat : Least(m, n) \in Nat /\ Least(m, n) <= m /\ Least(m, n) <= n
  BY DEF Least

LEMMA FileSizeTyped == \A n \in Nat : FileSize(n) \in Nat
  BY SizesAssumption DEF FileSize

-----------------------------------------------------------------------------
(* Types.                                                                  *)

LEMMA InitTyped == Init => TypeOK
  BY DEF Init, TypeOK, InitClient, InitThread, InitSession, ClientState, ThreadState, SessionState,
         ClientPlaces, ThreadPlaces, Folders, Nowhere, Paths, Links, Causes

LEMMA SaysTyped ==
    ASSUME TypeOK, NEW code \in Codes, Says(code)
    PROVE  thread' \in ThreadState /\ toClient' \in Seq(Downs)
  <1>1. thread' \in ThreadState
    BY DEF Says, Replies, InitThread, ThreadState, ThreadPlaces
  <1>2. Line(code) \in Downs
    BY LineTyped DEF Downs
  <1> QED BY <1>1, <1>2, SendTyped DEF Says, Replies, TypeOK, Downs

LEMMA TakesTyped ==
    ASSUME TypeOK, NEW words, Takes(words)
    PROVE  toServer' \in Seq(Ups) /\ Asked \in Requests /\ Asked.word \in words
  BY DataIsPiece DEF TypeOK, Takes, Asked, Ups

LEMMA Read1Typed ==
    ASSUME NEW T \in {Ups, Downs}, NEW q \in Seq(T), q # <<>>
    PROVE  q[1] \in T /\ Tail(q) \in Seq(T) /\ Head(q) = q[1]
  OBVIOUS

LEMMA HearsTyped ==
    ASSUME TypeOK, Hears
    PROVE  toClient' \in Seq(Downs) /\ Head(toClient) \in Lines
  BY DataIsPiece, Read1Typed DEF TypeOK, Hears, Downs

LEMMA AskTyped ==
    ASSUME TypeOK, NEW word \in Words, NEW dir \in Names \cup {".."}, NEW n \in Nat,
           NEW pc \in ClientPlaces, Ask(word, dir, n, pc)
    PROVE  TypeOK'
  <1>1. toServer' \in Seq(Ups)
    BY RequestTyped, SendUpTyped DEF Ask, TypeOK, Ups
  <1>2. client' \in ClientState
    BY DEF Ask, TypeOK, ClientState
  <1> QED BY <1>1, <1>2 DEF Ask, TypeOK, ThreadUntouched, Ups

LEMMA PromptTyped ==
    ASSUME TypeOK, NEW in \in BOOLEAN, NEW path \in Paths, Prompt(in, path)
    PROVE  client' \in ClientState
  BY DEF Prompt, TypeOK, InitClient, ClientState, ClientPlaces

LEMMA BackTyped == TypeOK /\ Back => client' \in ClientState
  <1> SUFFICES ASSUME TypeOK, Back PROVE client' \in ClientState
    OBVIOUS
  <1>1. client.in \in BOOLEAN /\ client.cwd \in Paths
    BY DEF TypeOK, ClientState
  <1> QED BY <1>1, PromptTyped DEF Back

LEMMA AuthTyped ==
    ASSUME TypeOK, NEW ok, Authenticated(ok)
    PROVE  client' \in ClientState
  <1>1. <<>> \in Paths /\ <<"-">> \in Paths
    BY DEF Paths
  <1> QED BY <1>1, PromptTyped, BackTyped DEF Authenticated

LEMMA WaitsTyped ==
    ASSUME TypeOK, NEW pc \in ClientPlaces, Waits(pc)
    PROVE  client' \in ClientState
  BY DEF TypeOK, Waits, ClientState

LEMMA UserTyped == TypeOK /\ UserAsks => TypeOK'
  <1> SUFFICES ASSUME TypeOK, UserAsks PROVE TypeOK'
    OBVIOUS
  <1> USE SizesAssumption DEF Words, Edits, Shares, Lists, Acls, WithMe, Gets, ClientPlaces
  <1>1. CASE AskAuth
    BY <1>1, AskTyped DEF AskAuth
  <1>2. CASE AskEdit \/ AskShare \/ AskPlain
    BY <1>2, AskTyped DEF AskEdit, AskShare, AskPlain
  <1>3. CASE AskMove
    BY <1>3, AskTyped DEF AskMove
  <1>4. CASE AskList \/ AskAcl \/ AskWithMe
    BY <1>4, AskTyped DEF AskList, AskAcl, AskWithMe
  <1>5. CASE AskPut
    BY <1>5, AskTyped DEF AskPut
  <1>6. CASE AskGet
    BY <1>6, AskTyped DEF AskGet
  <1> QED BY <1>1, <1>2, <1>3, <1>4, <1>5, <1>6 DEF UserAsks

LEMMA ShellTyped == TypeOK /\ (ClientProceeds \/ ClientLeaves) => TypeOK'
  <1> SUFFICES ASSUME TypeOK, ClientProceeds \/ ClientLeaves PROVE TypeOK'
    OBVIOUS
  <1> USE DEF ClientPlaces
  <1>a. /\ client \in ClientState /\ thread \in ThreadState /\ session \in SessionState
        /\ toServer \in Seq(Ups) /\ toClient \in Seq(Downs) /\ link \in Links
        /\ cause \in Causes
    BY DEF TypeOK, Ups, Downs
  <1>b. ASSUME client' \in ClientState, thread' \in ThreadState, session' \in SessionState,
               toServer' \in Seq(Ups), toClient' \in Seq(Downs), link' \in Links,
               cause' \in Causes
        PROVE  TypeOK'
    BY <1>b DEF TypeOK, Ups, Downs
  <1>c. /\ \A code : Heard(code) \/ NotHeard(code) => toClient' \in Seq(Downs)
        /\ Hears \/ Closed => toClient' \in Seq(Downs)
    BY <1>a, HearsTyped DEF Heard, NotHeard, Closed
  <1>1. CASE AuthReply
    <2>1. client' \in ClientState
      BY <1>1, AuthTyped, WaitsTyped DEF AuthReply
    <2> QED BY <1>1, <1>a, <1>b, <1>c, <2>1, HearsTyped DEF AuthReply, OnlyReads, ThreadUntouched
  <1>2. CASE TakeReply
    BY <1>2, <1>a, <1>b, <1>c, HearsTyped, BackTyped DEF TakeReply, OnlyReads, ThreadUntouched
  <1>3. CASE AskPwd
    <2>1. toServer' \in Seq(Ups)
      BY <1>3, <1>a, RequestTyped, SendUpTyped
         DEF AskPwd, Words, Ups
    <2> QED BY <1>3, <1>a, <1>b, <1>c, <2>1, HearsTyped, WaitsTyped DEF AskPwd, ThreadUntouched
  <1>4. CASE PwdReply
    <2>1. <<"?">> \in Paths /\ client.in \in BOOLEAN /\ client.cwd \in Paths
      BY <1>a DEF Paths, ClientState
    <2>2. Heard("200") => Head(toClient).path \in Paths
      BY HearsTyped DEF Heard, Lines
    <2>3. client' \in ClientState
      BY <1>4, <2>1, <2>2, PromptTyped, BackTyped DEF PwdReply
    <2> QED BY <1>4, <1>a, <1>b, <1>c, <2>3 DEF PwdReply, OnlyReads, ThreadUntouched
  <1>5. CASE FirstLine
    BY <1>5, <1>a, <1>b, <1>c, WaitsTyped, BackTyped DEF FirstLine, OnlyReads, ThreadUntouched
  <1>6. CASE NextLine
    BY <1>6, <1>a, <1>b, <1>c, BackTyped DEF NextLine, OnlyReads, ThreadUntouched
  <1>7. CASE PutReady
    <2>1. toClient' \in Seq(Downs)
      BY <1>7, <1>c DEF PutReady
    <2>2. cause' \in Causes
      BY <1>7, <1>a, CausesKept DEF PutReady, Causes
    <2>3. client.size \in Nat /\ Sizes \subseteq Nat
      BY <1>a, SizesAssumption DEF ClientState
    <2>4. client' \in ClientState
      BY <1>7, <1>a, <2>3, BackTyped DEF PutReady, ClientState
    <2> QED BY <1>7, <1>a, <1>b, <2>1, <2>2, <2>4 DEF PutReady, ThreadUntouched
  <1>8. CASE PutStream
    <2> DEFINE n == Least(ClientBuf, client.left)
    <2>1. n \in Nat /\ n # 0 /\ n <= client.left /\ client.left \in Nat
      <3>1. client.left \in Nat /\ client.left > 0 /\ ClientBuf \in Nat \ {0}
        BY <1>8, <1>a, SizesAssumption DEF ClientState, PutStream
      <3> QED BY <3>1, LeastTyped DEF Least
    <2>2. \/ SendUp(Piece(n)) /\ client' = [client EXCEPT !.left = @ - n]
          \/ Back /\ toServer' = toServer
      BY <1>8 DEF PutStream
    <2> HIDE DEF n
    <2>3. toServer' \in Seq(Ups)
      BY <1>a, <2>1, <2>2, PieceTyped, SendUpTyped DEF Ups
    <2>4. client' \in ClientState
      BY <1>a, <2>1, <2>2, BackTyped DEF ClientState
    <2> QED BY <1>8, <1>a, <1>b, <2>3, <2>4 DEF PutStream, ThreadUntouched
  <1>9. CASE PutDone \/ GetDone
    BY <1>9, <1>a, <1>b, WaitsTyped DEF PutDone, GetDone, OnlyReads, ThreadUntouched
  <1>10. CASE GetStart
    <2>1. toClient' \in Seq(Downs)
      BY <1>10, <1>c DEF GetStart
    <2>2. cause' \in Causes
      BY <1>10, <1>a, CausesKept DEF GetStart, Causes
    <2>3. Heard("50") => Head(toClient).n \in Nat
      BY HearsTyped DEF Heard, Lines
    <2>4. client' \in ClientState
      BY <1>10, <1>a, <2>3, SizesAssumption, BackTyped DEF GetStart, ClientState
    <2> QED BY <1>10, <1>a, <1>b, <2>1, <2>2, <2>4 DEF GetStart, ThreadUntouched
  <1>11. CASE GetFetch
    <2> DEFINE need == Least(ClientBuf, client.size - client.got)
    <2>1. PICK k \in 1..Least(need - client.total, Head(toClient).n) :
             /\ toClient' = Read(toClient, k)
             /\ \/ /\ client' = IF client.total + k < need
                                  THEN [client EXCEPT !.total = @ + k]
                                  ELSE [client EXCEPT !.got = @ + need, !.total = 0]
                   /\ cause' = cause
                \/ Back /\ Derailed("no_destination")
      BY <1>11 DEF GetFetch
    <2>2. toClient # <<>> /\ Head(toClient) = toClient[1] /\ toClient[1].is = "data"
          /\ toClient[1] \in Downs /\ client.got < client.size
      BY <1>11, <1>a DEF GetFetch
    <2>3. toClient[1].n \in Nat /\ client.got \in Nat /\ client.size \in Nat
          /\ client.total \in Nat /\ client.size - client.got \in Nat
      BY <1>a, <2>2, DataIsPiece DEF ClientState
    <2>4. need \in Nat
      BY <2>3, SizesAssumption, LeastTyped
    <2> HIDE DEF need
    <2>5. k \in 1..toClient[1].n /\ k \in Nat
      BY <2>1, <2>2, <2>3, <2>4 DEF Least
    <2>6. toClient' \in Seq(Downs)
      BY <1>a, <2>1, <2>2, <2>5, ReadTyped
    <2>7. cause' \in Causes
      BY <1>a, <2>1, CausesKept DEF Causes
    <2>8. client.total + k \in Nat /\ client.got + need \in Nat
      BY <2>3, <2>4, <2>5
    <2>9. client' \in ClientState
      <3>1. [client EXCEPT !.total = @ + k] \in ClientState
        BY <1>a, <2>8 DEF ClientState
      <3>2. [client EXCEPT !.got = @ + need, !.total = 0] \in ClientState
        BY <1>a, <2>8 DEF ClientState
      <3> QED BY <2>1, <3>1, <3>2, BackTyped
    <2> QED BY <1>11, <1>a, <1>b, <2>6, <2>7, <2>9 DEF GetFetch, ThreadUntouched
  <1>12. CASE GetEnded
    <2>1. cause' \in Causes
      BY <1>12, <1>a, CausesKept DEF GetEnded, Causes
    <2>2. client.got + client.total \in Nat
      BY <1>a DEF ClientState
    <2>3. client' \in ClientState
      <3>1. [client EXCEPT !.got = @ + client.total, !.total = 0] \in ClientState
        BY <1>a, <2>2 DEF ClientState
      <3> QED BY <1>12, <1>a, <3>1, BackTyped DEF GetEnded
    <2> QED BY <1>12, <1>a, <1>b, <1>c, <2>1, <2>3 DEF GetEnded, ThreadUntouched
  <1>13. CASE ClientLeaves
    <2>1. toServer' \in Seq(Ups)
      BY <1>13, <1>a, CutsTyped DEF ClientLeaves
    <2>2. link' \in Links
      BY <1>13, <1>a DEF ClientLeaves, Links
    <2> QED BY <1>13, <1>a, <1>b, <2>1, <2>2, WaitsTyped DEF ClientLeaves
  <1> QED BY <1>1, <1>2, <1>3, <1>4, <1>5, <1>6, <1>7, <1>8, <1>9, <1>10, <1>11, <1>12, <1>13
         DEF ClientProceeds

\* the session's part of a step
LEMMA SessionTyped ==
    ASSUME TypeOK, HandleLogin \/ HandleLogout \/ HandleCdUp \/ HandleCdDown
                     \/ HandleOpenShared \/ HandleExitShared
    PROVE  session' \in SessionState
  <1>1. /\ session \in SessionState /\ <<>> \in Paths /\ Home \in Folders
        /\ Nowhere \in Folders
    BY DEF TypeOK, Paths, Home, Nowhere, Folders
  <1>2. CASE HandleLogin
    BY <1>1, <1>2 DEF HandleLogin, SessionState
  <1>3. CASE HandleLogout
    BY <1>1, <1>3 DEF HandleLogout, InitSession, SessionState
  <1>4. CASE HandleCdUp
    <2>1. \A p \in Paths : PathAbove(p) \in Paths
      BY DEF Paths, PathAbove, Front
    <2>2. \A f \in Folders : Above(f) \in Folders
      <3> SUFFICES ASSUME NEW f \in Folders, f.down # <<>> PROVE [f EXCEPT !.down = Front(@)] \in Folders
        BY DEF Above
      <3>1. Front(f.down) \in Seq(Ids)
        BY DEF Folders, Front
      <3> QED BY <3>1 DEF Folders
    <2>3. session' = [session EXCEPT !.at = Above(session.at), !.cwd = PathAbove(session.cwd)]
      BY <1>4 DEF HandleCdUp
    <2>4. Above(session.at) \in Folders /\ PathAbove(session.cwd) \in Paths
      BY <1>1, <2>1, <2>2 DEF SessionState
    <2> QED BY <1>1, <2>3, <2>4 DEF SessionState
  <1>5. CASE HandleCdDown
    <2>1. Asked.dir \in Names
      BY <1>5 DEF HandleCdDown
    <2>2. PICK i \in Ids :
             session' = [session EXCEPT !.at.down = Append(@, i), !.cwd = Append(@, Asked.dir)]
      BY <1>5 DEF HandleCdDown
    <2> DEFINE f == [session.at EXCEPT !.down = Append(@, i)]
               p == Append(session.cwd, Asked.dir)
    <2>3. f \in Folders /\ p \in Paths
      <3>1. session.at \in Folders /\ Append(session.at.down, i) \in Seq(Ids) /\ p \in Paths
        BY <1>1, <2>1 DEF SessionState, Folders, Paths
      <3> QED BY <3>1 DEF Folders
    <2>4. session' = [session EXCEPT !.at = f, !.cwd = p]
      BY <2>2
    <2> HIDE DEF f, p
    <2> QED BY <1>1, <2>3, <2>4 DEF SessionState
  <1>6. CASE HandleOpenShared
    <2>1. PICK f \in Shareable, n \in Names :
             session' = [session EXCEPT !.sharing = TRUE, !.at = f, !.root = f,
                                        !.old = session.at, !.oldCwd = session.cwd,
                                        !.cwd = <<"them:", n>>]
      BY <1>6 DEF HandleOpenShared
    <2>2. f \in Folders /\ <<"them:", n>> \in Paths
      BY SizesAssumption DEF Shareable, Folders, Paths
    <2> QED BY <1>1, <2>1, <2>2 DEF SessionState
  <1>7. CASE HandleExitShared
    BY <1>1, <1>7 DEF HandleExitShared, SessionState
  <1> QED BY <1>2, <1>3, <1>4, <1>5, <1>6, <1>7

\* What a thread is at work on: a listing of its kind, a chunk of what remains.
Working ==
    /\ ThreadAt("listing") => thread.word \in Lists
    /\ ThreadAt("sending") => thread.total = 0
    /\ thread.total <= thread.remaining

LEMMA ThreadTyped == TypeOK /\ Working /\ (ThreadProceeds \/ ServerDies) => TypeOK'
  <1> SUFFICES ASSUME TypeOK, Working, ThreadProceeds \/ ServerDies PROVE TypeOK'
    OBVIOUS
  <1> USE DEF ThreadPlaces, ClientUntouched, SessionKept, SameCause
  <1>a. /\ client \in ClientState /\ thread \in ThreadState /\ session \in SessionState
        /\ toServer \in Seq(Ups) /\ toClient \in Seq(Downs) /\ link \in Links
        /\ cause \in Causes
    BY DEF TypeOK, Ups, Downs
  <1>b. ASSUME client' \in ClientState, thread' \in ThreadState, session' \in SessionState,
               toServer' \in Seq(Ups), toClient' \in Seq(Downs), link' \in Links,
               cause' \in Causes
        PROVE  TypeOK'
    BY <1>b DEF TypeOK, Ups, Downs
  <1>c. /\ Says("200") \/ Says("error") => thread' \in ThreadState /\ toClient' \in Seq(Downs)
        /\ {"begin", "entry", "150", "50", "200"} \subseteq Codes
    BY SaysTyped DEF Codes
  <1>d. \A words : Takes(words) => toServer' \in Seq(Ups)
    BY TakesTyped
  <1>e. InitThread \in ThreadState
    BY DEF InitThread, ThreadState
  <1>f. \A why \in Causes : Derailed(why) => cause' \in Causes
    BY <1>a, CausesKept
  <1>g. {"file_acl", "list_failed", "no_reply", "int_size", "no_storage", "no_blob", "short_blob"}
            \subseteq Causes
    BY DEF Causes
  <1>1. CASE HandlePlain
    BY <1>1, <1>a, <1>b, <1>c, <1>d DEF HandlePlain
  <1>2. CASE HandleRefused
    BY <1>2, <1>a, <1>b, <1>c, <1>d DEF HandleRefused
  <1>3. CASE HandleLogin \/ HandleLogout \/ HandleCdUp \/ HandleCdDown
                \/ HandleOpenShared \/ HandleExitShared
    BY <1>3, <1>a, <1>b, <1>c, <1>d, SessionTyped
       DEF HandleLogin, HandleLogout, HandleCdUp, HandleCdDown, HandleOpenShared, HandleExitShared
  <1>4. CASE HandlePwd
    <2> DEFINE r == [Line("200") EXCEPT !.path = session.cwd]
    <2>1. r \in Downs
      BY <1>a, <1>c, LineTyped DEF SessionState, Downs
    <2>2. Send(r) /\ thread' = InitThread
      BY <1>4 DEF HandlePwd, Replies
    <2> HIDE DEF r
    <2> QED BY <1>4, <1>a, <1>b, <1>d, <1>e, <2>1, <2>2, SendTyped DEF HandlePwd
  <1>5. CASE BeginList
    <2>1. toClient' \in Seq(Downs)
      BY <1>5, <1>a, <1>c, LineTyped, SendTyped DEF BeginList, Downs
    <2>2. Asked.word \in Words
      BY <1>5, TakesTyped DEF BeginList, Words
    <2>3. thread' \in ThreadState
      <3>1. PICK n \in 0..MaxEntries :
               thread' = [InitThread EXCEPT !.pc = "listing", !.word = Asked.word, !.left = n]
        BY <1>5 DEF BeginList
      <3>2. n \in Nat
        BY SizesAssumption
      <3> QED BY <1>e, <2>2, <3>1, <3>2 DEF ThreadState
    <2> QED BY <1>5, <1>a, <1>b, <1>d, <2>1, <2>3 DEF BeginList
  <1>6. CASE ListEntry
    <2>1. toClient' \in Seq(Downs)
      BY <1>6, <1>a, <1>c, LineTyped, SendTyped DEF ListEntry, Downs
    <2>2. thread' \in ThreadState
      <3>1. thread' = [thread EXCEPT !.left = @ - 1] /\ thread.left > 0
        BY <1>6 DEF ListEntry
      <3>2. thread.left - 1 \in Nat
        BY <1>a, <3>1 DEF ThreadState
      <3> QED BY <1>a, <3>1, <3>2 DEF ThreadState
    <2> QED BY <1>6, <1>a, <1>b, <2>1, <2>2 DEF ListEntry
  <1>7. CASE ListEnd
    <2>1. LastLine[thread.word] \in Codes
      BY <1>7 DEF ListEnd, Working, Lists, Acls, WithMe, LastLine, Codes, Marks
    <2>2. cause' \in Causes
      BY <1>7, <1>a, <1>f, <1>g DEF ListEnd
    <2> QED BY <1>7, <1>a, <1>b, <2>1, <2>2, SaysTyped DEF ListEnd
  <1>8. CASE ListFails
    BY <1>8, <1>a, <1>b, <1>c, <1>f, <1>g DEF ListFails
  <1>9. CASE BeginUpload
    <2>1. toClient' \in Seq(Downs)
      BY <1>9, <1>a, <1>c, LineTyped, SendTyped DEF BeginUpload, Downs
    <2>2. Asked.n \in Nat
      BY <1>9, TakesTyped DEF BeginUpload, Requests
    <2>3. FileSize(Asked.n) \in Nat
      BY <2>2, FileSizeTyped
    <2>4. thread' \in ThreadState
      BY <1>9, <1>e, <2>2, <2>3 DEF BeginUpload, ThreadState, Words
    <2>5. cause' \in Causes
      BY <1>9, <1>a, <1>f, <1>g DEF BeginUpload
    <2> QED BY <1>9, <1>a, <1>b, <1>d, <2>1, <2>4, <2>5 DEF BeginUpload
  <1>10. CASE SaveRefused
    <2>1. cause' \in Causes
      BY <1>10, <1>a, <1>f, <1>g DEF SaveRefused
    <2> QED BY <1>10, <1>a, <1>b, <1>c, <2>1 DEF SaveRefused
  <1>11. CASE SaveSome
    <2> DEFINE chunk == Least(thread.remaining, ServerBuf)
    <2>1. PICK k \in 1..Least(chunk - thread.total, Asked.n) :
             /\ toServer' = Read(toServer, k)
             /\ thread' = IF thread.total + k < chunk
                          THEN [thread EXCEPT !.total = @ + k]
                          ELSE [thread EXCEPT !.remaining = @ - chunk, !.saved = @ + chunk,
                                              !.total = 0]
      BY <1>11 DEF SaveSome
    <2>2. toServer # <<>> /\ Asked = toServer[1] /\ toServer[1].is = "data"
          /\ toServer[1] \in Ups
      BY <1>11, <1>a DEF SaveSome, Asked
    <2>3. /\ toServer[1].n \in Nat /\ thread.remaining \in Nat /\ thread.total \in Nat
          /\ thread.saved \in Nat
      BY <1>a, <2>2, DataIsPiece DEF ThreadState
    <2>4. chunk \in Nat /\ chunk <= thread.remaining
      BY <2>3, SizesAssumption, LeastTyped
    <2> HIDE DEF chunk
    <2>5. k \in 1..toServer[1].n /\ k \in Nat
      BY <2>1, <2>2, <2>3, <2>4 DEF Least
    <2>6. toServer' \in Seq(Ups)
      BY <1>a, <2>1, <2>2, <2>5, ReadTyped
    <2>7. thread.total + k \in Nat /\ thread.saved + chunk \in Nat
          /\ thread.remaining - chunk \in Nat
      BY <2>3, <2>4, <2>5
    <2>8. thread' \in ThreadState
      <3>1. [thread EXCEPT !.total = @ + k] \in ThreadState
        BY <1>a, <2>7 DEF ThreadState
      <3>2. [thread EXCEPT !.remaining = @ - chunk, !.saved = @ + chunk, !.total = 0] \in ThreadState
        BY <1>a, <2>7 DEF ThreadState
      <3> QED BY <2>1, <3>1, <3>2
    <2> QED BY <1>11, <1>a, <1>b, <2>6, <2>8 DEF SaveSome
  <1>12. CASE SaveEnded
    <2>1. CASE Says("error")
      BY <1>12, <2>1, <1>a, <1>b, <1>c DEF SaveEnded
    <2>2. CASE /\ link = "client_gone" /\ toServer = <<>>
               /\ thread' = [thread EXCEPT !.remaining = @ - thread.total,
                                           !.saved = @ + thread.total, !.total = 0]
      <3>1. thread.remaining - thread.total \in Nat /\ thread.saved + thread.total \in Nat
        BY <1>a DEF Working, ThreadState
      <3>2. thread' \in ThreadState
        BY <1>a, <2>2, <3>1 DEF ThreadState
      <3>3. toClient' = toClient \/ Says("error")
        BY <1>12 DEF SaveEnded
      <3> QED BY <1>12, <2>2, <3>2, <3>3, <1>a, <1>b, <1>c DEF SaveEnded
    <2>3. CASE thread' = [thread EXCEPT !.remaining = Least(@ + 1, SizeMod - 1), !.total = 0]
      <3>1. Least(thread.remaining + 1, SizeMod - 1) \in Nat
        <4>1. thread.remaining + 1 \in Nat /\ SizeMod - 1 \in Nat
          BY <1>a, SizesAssumption DEF ThreadState
        <4> QED BY <4>1, LeastTyped
      <3>2. thread' \in ThreadState
        BY <1>a, <2>3, <3>1 DEF ThreadState
      <3> QED BY <1>12, <2>3, <3>2, <1>a, <1>b, <1>c DEF SaveEnded
    <2> QED BY <1>12, <2>1, <2>2, <2>3 DEF SaveEnded
  <1>13. CASE SaveDone
    BY <1>13, <1>a, <1>b, <1>c DEF SaveDone
  <1>14. CASE BeginDownload
    <2>1. PICK n \in Sizes : \E left \in 0..n :
             /\ thread' = [InitThread EXCEPT !.pc = "sending", !.word = Asked.word, !.asked = n,
                                             !.remaining = n, !.left = left]
             /\ Send([Line("50") EXCEPT !.n = n])
      <3>1. PICK n \in Sizes : \E left \in IF DiskMayFail THEN 0..n ELSE {n} :
               /\ thread' = [InitThread EXCEPT !.pc = "sending", !.word = Asked.word,
                                               !.asked = n, !.remaining = n, !.left = left]
               /\ Send([Line("50") EXCEPT !.n = n])
        BY <1>14 DEF BeginDownload
      <3>2. (IF DiskMayFail THEN 0..n ELSE {n}) \subseteq 0..n
        BY SizesAssumption
      <3> QED BY <3>1, <3>2
    <2>2. n \in Nat /\ 0..n \subseteq Nat /\ Asked.word \in Words
      BY <1>14, SizesAssumption, TakesTyped DEF BeginDownload, Words, Gets
    <2>3. thread' \in ThreadState
      BY <1>e, <2>1, <2>2 DEF ThreadState
    <2>4. [Line("50") EXCEPT !.n = n] \in Downs
      BY <1>c, <2>2, LineTyped DEF Downs
    <2>5. toClient' \in Seq(Downs)
      BY <1>a, <2>1, <2>4, SendTyped
    <2> QED BY <1>14, <1>a, <1>b, <1>d, <2>3, <2>5 DEF BeginDownload
  <1>15. CASE DownloadDeleted
    BY <1>15, <1>a, <1>b, <1>c, <1>d DEF DownloadDeleted
  <1>16. CASE DownloadSilent
    BY <1>16, <1>a, <1>b, <1>d, <1>e, <1>f, <1>g DEF DownloadSilent
  <1>17. CASE SendRefused
    BY <1>17, <1>a, <1>b, <1>c, <1>e, <1>f, <1>g DEF SendRefused
  <1>18. CASE SendSome
    <2> DEFINE n == Least(Least(thread.remaining, ServerBuf), thread.left)
    <2>1. /\ thread' = [thread EXCEPT !.remaining = @ - n, !.left = @ - n]
          /\ Send(Piece(n)) /\ n > 0
      BY <1>18 DEF SendSome
    <2>2. n \in Nat /\ thread.remaining - n \in Nat /\ thread.left - n \in Nat
      <3>1. thread.remaining \in Nat /\ thread.left \in Nat
        BY <1>a DEF ThreadState
      <3> DEFINE m == Least(thread.remaining, ServerBuf)
      <3>2. m \in Nat /\ m <= thread.remaining
        BY <3>1, SizesAssumption, LeastTyped
      <3> HIDE DEF m
      <3>3. Least(m, thread.left) \in Nat /\ Least(m, thread.left) <= m
              /\ Least(m, thread.left) <= thread.left
        BY <3>1, <3>2, LeastTyped
      <3>4. n = Least(m, thread.left)
        BY DEF m
      <3> HIDE DEF n
      <3> QED BY <3>1, <3>2, <3>3, <3>4
    <2> HIDE DEF n
    <2>3. thread' \in ThreadState
      BY <1>a, <2>1, <2>2 DEF ThreadState
    <2>4. toClient' \in Seq(Downs)
      <3>1. n \in Nat \ {0}
        BY <2>1, <2>2
      <3>2. Piece(n) \in Downs
        BY <3>1, PieceTyped DEF Downs
      <3> QED BY <1>a, <2>1, <3>2, SendTyped
    <2> QED BY <1>18, <1>a, <1>b, <2>3, <2>4 DEF SendSome
  <1>19. CASE SendDone
    <2>1. cause' \in Causes
      BY <1>19, <1>a, <1>f, <1>g DEF SendDone
    <2> QED BY <1>19, <1>a, <1>b, <1>c, <2>1 DEF SendDone
  <1>20. CASE ThreadEnds
    <2>1. thread' \in ThreadState
      BY <1>20, <1>a DEF ThreadEnds, ThreadState
    <2> QED BY <1>20, <1>a, <1>b, <2>1 DEF ThreadEnds
  <1>21. CASE ServerDies
    <2>1. thread' \in ThreadState
      BY <1>21, <1>e DEF ServerDies, ThreadState
    <2>2. toClient' \in Seq(Downs) /\ toServer' \in Seq(Ups)
      BY <1>21, <1>a, CutsTyped DEF ServerDies
    <2>3. link' \in Links
      BY <1>21, <1>a DEF ServerDies, Links
    <2> QED BY <1>21, <1>a, <1>b, <2>1, <2>2, <2>3 DEF ServerDies
  <1> QED BY <1>1, <1>2, <1>3, <1>4, <1>5, <1>6, <1>7, <1>8, <1>9, <1>10, <1>11, <1>12, <1>13, <1>14,
             <1>15, <1>16, <1>17, <1>18, <1>19, <1>20, <1>21 DEF ThreadProceeds, Handles

LEMMA InitWorking == Init => Working
  BY DEF Init, Working, InitThread, ThreadAt

LEMMA WorkingKept == TypeOK /\ Working /\ [Next]_vars => Working'
  <1> SUFFICES ASSUME TypeOK, Working, [Next]_vars PROVE Working'
    OBVIOUS
  <1> USE DEF Working, ThreadAt
  <1>a. thread \in ThreadState
    BY DEF TypeOK
  <1>b. thread' = InitThread => Working'
    BY DEF InitThread
  <1>1. CASE UNCHANGED thread
    BY <1>1
  <1>2. CASE UserAsks \/ ClientProceeds \/ ClientLeaves
    <2>1. UNCHANGED thread
      BY <1>2 DEF UserAsks, ClientProceeds, ClientLeaves, Ask, ThreadUntouched, OnlyReads,
             AskAuth, AskEdit, AskShare, AskPlain, AskMove, AskList, AskAcl, AskWithMe, AskPut,
             AskGet, AuthReply, TakeReply, AskPwd, PwdReply, FirstLine, NextLine, PutReady,
             PutStream, PutDone, GetStart, GetFetch, GetEnded, GetDone
    <2> QED BY <1>1, <2>1
  <1>3. CASE Handles
    <2>1. CASE BeginList
      BY <2>1, TakesTyped DEF BeginList, InitThread
    <2>2. CASE BeginUpload
      <3>1. FileSize(Asked.n) \in Nat
        BY <2>2, TakesTyped, FileSizeTyped DEF BeginUpload, Requests
      <3> QED BY <2>2, <3>1 DEF BeginUpload, InitThread
    <2>3. CASE BeginDownload
      BY <2>3, SizesAssumption DEF BeginDownload, InitThread
    <2>4. CASE ~(BeginList \/ BeginUpload \/ BeginDownload)
      BY <1>3, <1>b, <2>4 DEF Handles, HandlePlain, HandleRefused, HandleLogin, HandleLogout,
             HandlePwd, HandleCdUp, HandleCdDown, HandleOpenShared, HandleExitShared,
             DownloadDeleted, DownloadSilent, Says, Replies
    <2> QED BY <2>1, <2>2, <2>3, <2>4
  <1>4. CASE ListEntry
    BY <1>4, <1>a DEF ListEntry, ThreadState
  <1>5. CASE ListEnd \/ ListFails \/ SaveRefused \/ SaveDone \/ SendRefused \/ SendDone
                \/ ServerDies
    BY <1>5, <1>b DEF ListEnd, ListFails, SaveRefused, SaveDone, SendRefused, SendDone, Says,
           Replies, ServerDies, InitThread
  <1>6. CASE SaveSome
    <2> DEFINE chunk == Least(thread.remaining, ServerBuf)
    <2>1. thread.remaining \in Nat /\ thread.total \in Nat
      BY <1>a DEF ThreadState
    <2>2. chunk \in Nat /\ chunk <= thread.remaining
      BY <2>1, SizesAssumption, LeastTyped
    <2>3. \E k \in Int :
             thread' = IF thread.total + k < chunk
                       THEN [thread EXCEPT !.total = @ + k]
                       ELSE [thread EXCEPT !.remaining = @ - chunk, !.saved = @ + chunk, !.total = 0]
      BY <1>6 DEF SaveSome
    <2> HIDE DEF chunk
    <2>4. thread.pc = "saving"
      BY <1>6 DEF SaveSome
    <2> QED BY <1>a, <2>1, <2>2, <2>3, <2>4 DEF ThreadState
  <1>7. CASE SaveEnded
    <2>1. CASE Says("error")
      BY <1>b, <2>1 DEF Says, Replies
    <2>2. CASE thread' = [thread EXCEPT !.remaining = @ - thread.total,
                                        !.saved = @ + thread.total, !.total = 0]
      BY <1>a, <1>7, <2>2 DEF SaveEnded, ThreadState
    <2>3. CASE thread' = [thread EXCEPT !.remaining = Least(@ + 1, SizeMod - 1), !.total = 0]
      <3>1. thread.remaining + 1 \in Nat /\ SizeMod - 1 \in Nat
        BY <1>a, SizesAssumption DEF ThreadState
      <3>2. Least(thread.remaining + 1, SizeMod - 1) \in Nat
        BY <3>1, LeastTyped
      <3> QED BY <1>a, <1>7, <2>3, <3>2 DEF SaveEnded, ThreadState
    <2> QED BY <1>7, <2>1, <2>2, <2>3 DEF SaveEnded
  <1>8. CASE SendSome
    <2> DEFINE n == Least(Least(thread.remaining, ServerBuf), thread.left)
    <2>1. thread.remaining \in Nat /\ thread.left \in Nat
      BY <1>a DEF ThreadState
    <2> DEFINE m == Least(thread.remaining, ServerBuf)
    <2>2. m \in Nat /\ m <= thread.remaining
      BY <2>1, SizesAssumption, LeastTyped
    <2> HIDE DEF m
    <2>3. Least(m, thread.left) \in Nat /\ Least(m, thread.left) <= m
      BY <2>1, <2>2, LeastTyped
    <2>4. n \in Nat /\ n <= thread.remaining
      BY <2>1, <2>2, <2>3 DEF m
    <2>5. thread' = [thread EXCEPT !.remaining = @ - n, !.left = @ - n] /\ thread.pc = "sending"
      BY <1>8 DEF SendSome
    <2> HIDE DEF n
    <2> QED BY <1>a, <2>1, <2>4, <2>5 DEF ThreadState
  <1>9. CASE ThreadEnds
    BY <1>9, <1>a DEF ThreadEnds, ThreadState
  <1> QED BY <1>1, <1>2, <1>3, <1>4, <1>5, <1>6, <1>7, <1>8, <1>9
         DEF Next, ThreadProceeds, vars

\* What is sent, kept and read keeps its type: a size wraps, a path and a
\* folder are cut short and grow, a piece is read in part, a queue is cut.
THEOREM Typing == Spec => []TypeOK
  <1>1. TypeOK /\ Working /\ [Next]_vars => TypeOK'
    BY UserTyped, ShellTyped, ThreadTyped DEF Next, vars, TypeOK
  <1> QED BY <1>1, InitTyped, InitWorking, WorkingKept, PTL DEF Spec

-----------------------------------------------------------------------------
(* Where a session is.                                                     *)

\* A session of nobody is nowhere; one in sharing mode has an owner's path,
\* which CD lengthens and shortens but never takes the owner from.
Placed ==
    /\ ~session.in => ~session.sharing /\ session.at = Nowhere
    /\ session.sharing => Abroad(session.cwd)

LEMMA AbroadUp ==
    ASSUME NEW p \in Paths, Abroad(p)
    PROVE  Abroad(PathAbove(p))
  <1>1. p \in Seq(Names \cup {"them:", "-", "?"}) /\ p # <<>> /\ p[1] = "them:"
    BY DEF Abroad, Paths
  <1>2. CASE Len(p) = 1
    <2>1. p = <<"them:">>
      BY <1>1, <1>2
    <2> QED BY <2>1 DEF PathAbove
  <1>3. CASE Len(p) # 1
    <2>1. PathAbove(p) = Front(p)
      BY <1>1, <1>3 DEF PathAbove
    <2>2. Len(p) \in Nat /\ Len(p) # 0
      <3>1. Len(p) = 0 => p = <<>>
        BY <1>1
      <3> QED BY <1>1, <3>1
    <2>3. Len(Front(p)) = Len(p) - 1 /\ Front(p)[1] = p[1]
      <3>1. Len(p) - 1 \in Nat /\ 1 \in 1..Len(p) - 1 /\ Len(p) - 1 <= Len(p)
        <4>1. \A n \in Nat : n # 0 /\ n # 1 => n - 1 \in Nat /\ 1 \in 1..n - 1 /\ n - 1 <= n
          OBVIOUS
        <4> QED BY <1>3, <2>2, <4>1
      <3>2. \A n \in Nat : n >= 1 /\ n <= Len(p) =>
               Len(SubSeq(p, 1, n)) = n /\ SubSeq(p, 1, n)[1] = p[1]
        BY <1>1
      <3> QED BY <3>1, <3>2 DEF Front
    <2>4. Front(p) # <<>>
      BY <1>3, <2>2, <2>3
    <2> QED BY <1>1, <2>1, <2>3, <2>4 DEF Abroad
  <1> QED BY <1>2, <1>3

LEMMA AbroadDown ==
    ASSUME NEW p \in Paths, Abroad(p), NEW n \in Names
    PROVE  Abroad(Append(p, n))
  <1>1. Len(p) >= 1 /\ p[1] = "them:"
    BY DEF Abroad, Paths
  <1>2. Len(Append(p, n)) = Len(p) + 1 /\ Append(p, n)[1] = p[1]
    BY <1>1 DEF Paths
  <1>3. Append(p, n) # <<>>
    BY <1>1, <1>2
  <1> QED BY <1>1, <1>2, <1>3 DEF Abroad

LEMMA InitPlaced == Init => Placed
  BY DEF Init, Placed, InitSession

LEMMA PlacedKept == TypeOK /\ Placed /\ [Next]_vars => Placed'
  <1> SUFFICES ASSUME TypeOK, Placed, [Next]_vars PROVE Placed'
    OBVIOUS
  <1>a. /\ session \in SessionState /\ session.at \in Folders /\ session.root \in Folders
        /\ session.old \in Folders /\ session.cwd \in Paths /\ session.oldCwd \in Paths
    BY DEF TypeOK, SessionState
  <1>1. CASE UNCHANGED session
    BY <1>1 DEF Placed
  <1>2. CASE HandleLogin
    BY <1>a, <1>2 DEF HandleLogin, Placed, SessionState
  <1>3. CASE HandleLogout
    BY <1>3 DEF HandleLogout, Placed, InitSession
  <1>4. CASE HandleCdUp
    <2>1. /\ session.in /\ session'.cwd = PathAbove(session.cwd)
          /\ session'.in = session.in /\ session'.sharing = session.sharing
      BY <1>a, <1>4 DEF HandleCdUp, SessionState
    <2> QED BY <1>a, <2>1, AbroadUp DEF Placed
  <1>5. CASE HandleCdDown
    <2>1. /\ session.in /\ Asked.dir \in Names /\ session'.cwd = Append(session.cwd, Asked.dir)
          /\ session'.in = session.in /\ session'.sharing = session.sharing
      BY <1>a, <1>5 DEF HandleCdDown, SessionState
    <2> QED BY <1>a, <2>1, AbroadDown DEF Placed
  <1>6. CASE HandleOpenShared
    BY <1>a, <1>6 DEF HandleOpenShared, SessionState, Placed, Abroad
  <1>7. CASE HandleExitShared
    BY <1>a, <1>7 DEF HandleExitShared, Placed, SessionState
  <1>8. CASE ~(\/ HandleLogin \/ HandleLogout \/ HandleCdUp \/ HandleCdDown
               \/ HandleOpenShared \/ HandleExitShared)
    <2>1. UNCHANGED session
      <3>1. CASE UserAsks
        BY <3>1 DEF UserAsks, Ask, ThreadUntouched, AskAuth, AskEdit, AskShare, AskPlain, AskMove,
               AskList, AskAcl, AskWithMe, AskPut, AskGet
      <3>2. CASE ClientProceeds \/ ClientLeaves
        BY <3>2 DEF ClientProceeds, ClientLeaves, ThreadUntouched, OnlyReads, AuthReply, TakeReply,
               AskPwd, PwdReply, FirstLine, NextLine, PutReady, PutStream, PutDone, GetStart,
               GetFetch, GetEnded, GetDone
      <3>3. CASE ThreadProceeds \/ ServerDies
        BY <1>8, <3>3 DEF ThreadProceeds, Handles, ServerDies, SessionKept, HandlePlain,
               HandleRefused, HandlePwd, BeginList, ListEntry, ListEnd, ListFails, BeginUpload,
               SaveRefused, SaveSome, SaveEnded, SaveDone, BeginDownload, DownloadDeleted,
               DownloadSilent, SendRefused, SendSome, SendDone, ThreadEnds
      <3> QED BY <3>1, <3>2, <3>3 DEF Next, vars
    <2> QED BY <1>1, <2>1
  <1> QED BY <1>2, <1>3, <1>4, <1>5, <1>6, <1>7, <1>8

-----------------------------------------------------------------------------
(* What is on the wire, for every place the client may be in.              *)

Gone == ServerLeft

\* the line that begins a listing, lets a file be sent, announces a file
Opener == [first |-> "begin", ready |-> "150", start |-> "50"]

Opened ==
    /\ client.pc \in {"first", "ready", "start"}
    /\ Len(toClient) >= 1
    /\ toClient[1].is = "line" /\ toClient[1].code = Opener[client.pc]

\* what comes after that line
Coming == IF Opened THEN Tail(toClient) ELSE toClient

LoneLine(q)    == Len(q) = 1 /\ q[1].is = "line"
LonePiece(q)   == Len(q) = 1 /\ q[1].is = "data"
LoneRequest(q) == Len(q) = 1 /\ q[1].is = "request"

Plain == Edits \cup Shares \cup {"PWD", "EXIT_SHARED"}

Matched ==
    LET pc == client.pc
        cmd == client.cmd IN
    /\ pc = "auth" => cmd \in {"REGISTER", "LOGIN", "LOGOUT"}
    /\ pc \in {"moved", "pwd"} => cmd \in {"CD", "OPEN_SHARED_FOLDER"}
    /\ pc \in {"first", "lines"} => cmd \in Lists
    /\ pc \in {"ready", "stream"} => cmd = "UPLOAD"
    /\ pc \in {"start", "fetch"} => cmd \in Gets
    /\ pc = "reply" => cmd \in Plain \cup Gets \cup {"UPLOAD"}
    /\ pc \in {"prompt", "ready"} => client.left = 0
    /\ pc \in {"prompt", "start"} => client.got = 0 /\ client.total = 0
    /\ pc = "reply" /\ cmd = "UPLOAD" => client.left = 0
    /\ pc = "fetch" => /\ client.got + client.total <= client.size
                       /\ client.got < client.size => client.got + client.total < client.size
    /\ pc = "reply" /\ cmd \in Gets => client.got = client.size /\ client.total = 0

Joined ==
    /\ ServerLeft => ThreadAt("gone")
    /\ ClientLeft => ClientAt("exited")
    /\ link = "open" => ~ThreadAt("gone") /\ ~ClientAt("exited")

\* a request is on its way, or its answer
Exchanging ==
    \/ client.pc \in {"auth", "moved", "pwd"}
    \/ client.pc \in {"first", "ready", "start"} /\ ~Opened
    \/ client.pc = "reply" /\ client.cmd \in Plain

Exchange ==
    \/ /\ toClient = <<>>
       /\ \/ Gone
          \/ /\ ThreadAt("recv") /\ LoneRequest(toServer)
             /\ toServer[1].word = IF client.pc = "pwd" THEN "PWD" ELSE client.cmd
             /\ client.pc = "ready" => toServer[1].n = client.size
    \/ LoneLine(toClient) /\ (Gone \/ (ThreadAt("recv") /\ toServer = <<>>))

\* the lines of a listing: the last one ends it
Listing(q) ==
    /\ \A i \in 1..Len(q) : q[i].is = "line"
    /\ \A i \in 1..Len(q) - 1 : q[i].code # Marker[client.cmd]
    /\ \/ Gone
       \/ /\ ThreadAt("listing") /\ thread.word = client.cmd /\ toServer = <<>>
          /\ \A i \in 1..Len(q) : q[i].code # Marker[client.cmd]
       \/ /\ ThreadAt("recv") /\ toServer = <<>>
          /\ Len(q) >= 1 /\ q[Len(q)].code = Marker[client.cmd]

\* a file on its way up, of which the client has yet to send left units
Uploading(q, left) ==
    \/ /\ q = <<>>
       /\ \/ Gone
          \/ /\ ThreadAt("saving")
             /\ thread.asked = client.size /\ thread.saved + thread.remaining = thread.asked
             /\ \/ toServer = <<>> /\ thread.saved + thread.total + left = client.size
                \/ /\ LonePiece(toServer)
                   /\ thread.saved + thread.total + toServer[1].n + left = client.size
    \/ /\ LoneLine(q) /\ left = 0
       /\ Gone \/ (ThreadAt("recv") /\ toServer = <<>>)

\* a file on its way down, of which the client waits for need units
Downloading(q, need) ==
    \/ q = <<>> /\ (Gone \/ (ThreadAt("sending") /\ toServer = <<>> /\ thread.remaining = need))
    \/ /\ LonePiece(q) /\ q[1].n <= need
       /\ \/ Gone
          \/ ThreadAt("sending") /\ toServer = <<>> /\ q[1].n + thread.remaining = need
    \/ LoneLine(q) /\ need = 0 /\ (Gone \/ (ThreadAt("recv") /\ toServer = <<>>))
    \/ /\ Len(q) = 2 /\ q[1].is = "data" /\ q[1].n = need /\ q[2].is = "line"
       /\ Gone \/ (ThreadAt("recv") /\ toServer = <<>>)

Answering ==
    /\ client.cmd \in Lists => Listing(Coming)
    /\ client.cmd = "UPLOAD" => Uploading(Coming, IF Opened THEN client.size ELSE client.left)
    /\ client.cmd \in Gets =>
          Downloading(Coming, IF Opened THEN toClient[1].n
                              ELSE client.size - (client.got + client.total))

\* what the server still reads from a client that has left
LeftBehind ==
    /\ toClient = <<>>
    /\ \/ Gone
       \/ ThreadAt("recv") /\ (toServer = <<>> \/ LoneRequest(toServer))
       \/ /\ ThreadAt("saving") /\ thread.saved + thread.remaining = thread.asked
          /\ \/ toServer = <<>>
             \/ LonePiece(toServer) /\ toServer[1].n + thread.total <= thread.remaining
       \/ ThreadAt("saving") /\ link = "client_cut" /\ toServer = <<>> /\ thread.remaining > 0
       \/ thread.pc \in {"listing", "sending", "gone"} /\ toServer = <<>>

Talk ==
    InStep =>
        IF ClientAt("prompt")
        THEN toClient = <<>> /\ (Gone \/ (ThreadAt("recv") /\ toServer = <<>>))
        ELSE IF ClientAt("exited") THEN LeftBehind
        ELSE IF Exchanging THEN Exchange ELSE Answering

-----------------------------------------------------------------------------
(* Which program a step belongs to, and what it leaves alone.              *)

LEMMA ClientSteps ==
    ASSUME UserAsks \/ ClientProceeds
    PROVE  UNCHANGED <<thread, session, link>>
  <1>1. CASE UserAsks
    BY <1>1 DEF UserAsks, Ask, ThreadUntouched, AskAuth, AskEdit, AskShare, AskPlain, AskMove,
           AskList, AskAcl, AskWithMe, AskPut, AskGet
  <1>2. CASE ClientProceeds
    BY <1>2 DEF ClientProceeds, ThreadUntouched, OnlyReads, AuthReply, TakeReply,
           AskPwd, PwdReply, FirstLine, NextLine, PutReady, PutStream, PutDone, GetStart,
           GetFetch, GetEnded, GetDone
  <1> QED BY <1>1, <1>2

LEMMA ThreadSteps ==
    ASSUME ThreadProceeds
    PROVE  UNCHANGED <<client, link>>
  BY DEF ThreadProceeds, Handles, ClientUntouched, HandlePlain, HandleRefused, HandleLogin,
         HandleLogout, HandlePwd, HandleCdUp, HandleCdDown, HandleOpenShared, HandleExitShared,
         BeginList, ListEntry, ListEnd, ListFails, BeginUpload, SaveRefused, SaveSome, SaveEnded,
         SaveDone, BeginDownload, DownloadDeleted, DownloadSilent, SendRefused, SendSome,
         SendDone, ThreadEnds

LEMMA InitJoined == Init => Joined /\ Matched
  BY DEF Init, Joined, Matched, ServerLeft, ClientLeft, ThreadAt, ClientAt, InitClient, InitThread

LEMMA JoinedKept == TypeOK /\ Joined /\ [Next]_vars => Joined'
  <1> SUFFICES ASSUME TypeOK, Joined, [Next]_vars PROVE Joined'
    OBVIOUS
  <1> USE DEF Joined, ServerLeft, ClientLeft, ThreadAt, ClientAt
  <1>a. client \in ClientState /\ thread \in ThreadState /\ link \in Links
    BY DEF TypeOK
  <1>1. CASE UNCHANGED <<client, thread, link>>
    BY <1>1
  <1>2. CASE UserAsks \/ ClientProceeds
    <2>1. UNCHANGED <<thread, link>>
      BY <1>2, ClientSteps
    <2>2. client.pc # "exited" /\ (client'.pc = "exited" => ServerLeft)
      <3>1. CASE UserAsks
        <4>1. \E word, dir, n, pc : Ask(word, dir, n, pc) /\ pc # "exited"
          BY <3>1 DEF UserAsks, AskAuth, AskEdit, AskShare, AskPlain, AskMove,
             AskList, AskAcl, AskWithMe, AskPut, AskGet
        <4> QED BY <1>a, <4>1 DEF Ask, ClientState
      <3>2. CASE ClientProceeds
        BY <1>a, <3>2 DEF ClientProceeds, ThreadUntouched, OnlyReads, AuthReply, TakeReply,
           AskPwd, PwdReply, FirstLine, NextLine, PutReady, PutStream, PutDone, GetStart,
           GetFetch, GetEnded, GetDone, Authenticated, Back, Prompt, InitClient, Waits, Closed,
           ClientState
      <3> QED BY <1>2, <3>1, <3>2
    <2> QED BY <2>1, <2>2
  <1>3. CASE ClientLeaves
    BY <1>a, <1>3 DEF ClientLeaves, Waits, ClientState, Links
  <1>4. CASE ThreadProceeds
    <2>1. UNCHANGED <<client, link>>
      BY <1>4, ThreadSteps
    <2>2. thread.pc # "gone" /\ (thread'.pc = "gone" => ClientLeft)
      <3>1. CASE Handles
        <4>1. thread.pc = "recv"
          BY <3>1 DEF Handles, Takes, HandlePlain, HandleRefused, HandleLogin,
             HandleLogout, HandlePwd, HandleCdUp, HandleCdDown, HandleOpenShared, HandleExitShared,
             BeginList, BeginUpload, BeginDownload, DownloadDeleted, DownloadSilent
        <4>2. CASE BeginList \/ BeginUpload \/ BeginDownload
          BY <4>1, <4>2 DEF BeginList, BeginUpload, BeginDownload, InitThread
        <4>3. CASE ~(BeginList \/ BeginUpload \/ BeginDownload)
          <5>1. thread' = InitThread
            BY <3>1, <4>3 DEF Handles, HandlePlain, HandleRefused, HandleLogin,
               HandleLogout, HandlePwd, HandleCdUp, HandleCdDown, HandleOpenShared,
               HandleExitShared, DownloadDeleted, DownloadSilent, Says, Replies
          <5> QED BY <4>1, <5>1 DEF InitThread
        <4> QED BY <4>2, <4>3
      <3>2. CASE ListEntry \/ ListEnd \/ ListFails \/ SaveRefused \/ SaveDone
        BY <1>a, <3>2 DEF ListEntry, ListEnd, ListFails, SaveRefused, SaveDone,
           Says, Replies, InitThread, ThreadState
      <3>3. CASE SaveSome \/ SaveEnded
        BY <1>a, <3>3 DEF SaveSome, SaveEnded, Says, Replies, InitThread, ThreadState
      <3>4. CASE SendRefused \/ SendSome \/ SendDone \/ ThreadEnds
        <4>1. CASE SendRefused \/ SendDone
          BY <4>1 DEF SendRefused, SendDone, Says, Replies, InitThread
        <4>2. CASE SendSome \/ ThreadEnds
          BY <1>a, <4>2 DEF SendSome, ThreadEnds, ThreadState
        <4> QED BY <3>4, <4>1, <4>2
      <3> QED BY <1>4, <3>1, <3>2, <3>3, <3>4 DEF ThreadProceeds
    <2> QED BY <2>1, <2>2
  <1>5. CASE ServerDies
    BY <1>a, <1>5 DEF ServerDies, InitThread, Links
  <1> QED BY <1>1, <1>2, <1>3, <1>4, <1>5 DEF Next, vars

\* the call a command waits in first
Fits(word, pc) ==
    \/ pc = "auth" /\ word \in {"REGISTER", "LOGIN", "LOGOUT"}
    \/ pc = "reply" /\ word \in Plain
    \/ pc = "moved" /\ word \in {"CD", "OPEN_SHARED_FOLDER"}
    \/ pc = "first" /\ word \in Lists
    \/ pc = "ready" /\ word = "UPLOAD"
    \/ pc = "start" /\ word \in Gets

LEMMA AsksFit ==
    ASSUME UserAsks
    PROVE  \E word, dir, n, pc : Ask(word, dir, n, pc) /\ Fits(word, pc)
  <1>1. CASE AskAuth
    BY <1>1 DEF AskAuth, Fits
  <1>2. CASE AskEdit \/ AskShare \/ AskPlain
    BY <1>2 DEF AskEdit, AskShare, AskPlain, Fits, Plain
  <1>3. CASE AskMove
    BY <1>3 DEF AskMove, Fits
  <1>4. CASE AskList \/ AskAcl \/ AskWithMe
    BY <1>4 DEF AskList, AskAcl, AskWithMe, Fits, Lists
  <1>5. CASE AskPut
    BY <1>5 DEF AskPut, Fits
  <1>6. CASE AskGet
    BY <1>6 DEF AskGet, Fits
  <1> QED BY <1>1, <1>2, <1>3, <1>4, <1>5, <1>6 DEF UserAsks

LEMMA MatchedKept == TypeOK /\ Matched /\ [Next]_vars => Matched'
  <1> SUFFICES ASSUME TypeOK, Matched, [Next]_vars PROVE Matched'
    OBVIOUS
  <1> USE DEF Matched, ClientAt
  <1>a. client \in ClientState
    BY DEF TypeOK
  <1>b. Back \/ (\E in, path : Prompt(in, path)) => Matched'
    BY DEF Back, Prompt, InitClient
  <1>1. CASE UNCHANGED client
    BY <1>1
  <1>2. CASE UserAsks
    <2>1. PICK word, dir, n, pc : Ask(word, dir, n, pc) /\ Fits(word, pc)
      BY <1>2, AsksFit
    <2>2. /\ client'.pc = pc /\ client'.cmd = word /\ client'.left = 0 /\ client'.got = 0
          /\ client'.total = 0
      BY <1>a, <2>1 DEF Ask, ClientState
    <2> QED BY <2>1, <2>2 DEF Fits, Plain, Edits, Shares, Gets
  <1>3. CASE AuthReply
    BY <1>3, <1>b, <1>a DEF AuthReply, Authenticated, Waits, ClientState
  <1>4. CASE TakeReply \/ PwdReply
    BY <1>4, <1>b DEF TakeReply, PwdReply
  <1>5. CASE AskPwd
    BY <1>5, <1>a DEF AskPwd, Waits, ClientState
  <1>6. CASE FirstLine \/ NextLine
    BY <1>6, <1>a, <1>b DEF FirstLine, NextLine, Waits, ClientState
  <1>7. CASE PutReady \/ PutStream \/ PutDone
    BY <1>7, <1>a, <1>b DEF PutReady, PutStream, PutDone, Waits, ClientState, Plain, Edits, Shares,
           Gets
  <1>8. CASE GetStart
    <2>1. CASE Back
      BY <1>b, <2>1
    <2>2. CASE \E n \in Nat : client' = [client EXCEPT !.pc = "fetch", !.size = n]
      <3>1. PICK n \in Nat : client' = [client EXCEPT !.pc = "fetch", !.size = n]
        BY <2>2
      <3>2. client.pc = "start" /\ client.got = 0 /\ client.total = 0 /\ client.cmd \in Gets
        BY <1>8 DEF GetStart
      <3>3. /\ client'.pc = "fetch" /\ client'.size = n /\ client'.got = 0 /\ client'.total = 0
            /\ client'.cmd \in Gets
        BY <1>a, <3>1, <3>2 DEF ClientState
      <3> QED BY <3>3
    <2>3. Heard("50") => Head(toClient).n \in Nat
      BY HearsTyped DEF Heard, Lines
    <2> QED BY <1>8, <2>1, <2>2, <2>3, SizesAssumption DEF GetStart
  <1>9. CASE GetFetch
    <2> DEFINE need == Least(ClientBuf, client.size - client.got)
    <2>1. /\ client.got \in Nat /\ client.size \in Nat /\ client.total \in Nat
          /\ client.got < client.size /\ client.pc = "fetch"
      BY <1>a, <1>9 DEF GetFetch, ClientState
    <2>2. need \in Nat /\ need <= client.size - client.got
      <3>1. client.size - client.got \in Nat /\ ClientBuf \in Nat
        BY <2>1, SizesAssumption
      <3> QED BY <3>1, LeastTyped
    <2>3. \/ Back
          \/ \E k \in Int :
                client' = IF client.total + k < need
                          THEN [client EXCEPT !.total = @ + k]
                          ELSE [client EXCEPT !.got = @ + need, !.total = 0]
      BY <1>9 DEF GetFetch
    <2> HIDE DEF need
    <2>4. ASSUME NEW k \in Int, client.total + k < need, client' = [client EXCEPT !.total = @ + k]
          PROVE  Matched'
      BY <1>a, <2>1, <2>2, <2>4 DEF ClientState
    <2>5. ASSUME client' = [client EXCEPT !.got = @ + need, !.total = 0]
          PROVE  Matched'
      BY <1>a, <2>1, <2>2, <2>5 DEF ClientState
    <2> QED BY <1>b, <2>3, <2>4, <2>5
  <1>10. CASE GetEnded
    <2>1. client.pc = "fetch" /\ (Back \/ UNCHANGED client
             \/ client' = [client EXCEPT !.got = @ + client.total, !.total = 0])
      BY <1>10 DEF GetEnded
    <2>2. client.got \in Nat /\ client.size \in Nat /\ client.total \in Nat
      BY <1>a DEF ClientState
    <2>3. ASSUME client' = [client EXCEPT !.got = @ + client.total, !.total = 0]
          PROVE  Matched'
      <3>1. /\ client'.pc = "fetch" /\ client'.cmd = client.cmd /\ client'.size = client.size
            /\ client'.got = client.got + client.total /\ client'.total = 0
        BY <1>a, <2>1, <2>3 DEF ClientState
      <3> QED BY <2>1, <2>2, <3>1
    <2> QED BY <1>1, <1>b, <2>1, <2>3
  <1>11. CASE GetDone
    BY <1>11, <1>a DEF GetDone, Waits, ClientState, Gets
  <1>12. CASE ClientLeaves
    BY <1>12, <1>a DEF ClientLeaves, Waits, ClientState
  <1>13. CASE ThreadProceeds \/ ServerDies
    BY <1>1, <1>13, ThreadSteps DEF ServerDies
  <1> QED BY <1>1, <1>2, <1>3, <1>4, <1>5, <1>6, <1>7, <1>8, <1>9, <1>10, <1>11, <1>12, <1>13
         DEF Next, ClientProceeds, vars

-----------------------------------------------------------------------------
(* What sending, reading and cutting make of the shapes.                   *)

LEMMA NoLength == \A T : \A q \in Seq(T) : Len(q) \in Nat /\ (q = <<>> <=> Len(q) = 0)
  OBVIOUS

LEMMA EmptyQueue ==
    ASSUME NEW T, NEW q \in Seq(T)
    PROVE  /\ q = <<>> <=> Len(q) = 0
           /\ Len(q) \in Nat
           /\ q # <<>> => /\ Len(q) >= 1 /\ Head(q) = q[1] /\ Tail(q) \in Seq(T)
                          /\ Len(Tail(q)) = Len(q) - 1
                          /\ \A i \in 1..Len(q) - 1 : Tail(q)[i] = q[i + 1]
           /\ Len(q) = 1 => Tail(q) = <<>>
  <1>1. Len(q) \in Nat
    OBVIOUS
  <1>2. q = <<>> <=> Len(q) = 0
    OBVIOUS
  <1>3. ASSUME q # <<>>
        PROVE  /\ Len(q) >= 1 /\ Head(q) = q[1] /\ Tail(q) \in Seq(T)
               /\ Len(Tail(q)) = Len(q) - 1
               /\ \A i \in 1..Len(q) - 1 : Tail(q)[i] = q[i + 1]
    BY <1>1, <1>2, <1>3
  <1>4. ASSUME Len(q) = 1 PROVE Tail(q) = <<>>
    <2>1. Tail(q) \in Seq(T) /\ Len(Tail(q)) = 0
      BY <1>2, <1>3, <1>4
    <2> QED BY <2>1, NoLength
  <1> QED BY <1>1, <1>2, <1>3, <1>4

LEMMA Lone ==
    ASSUME NEW T, NEW q \in Seq(T), Len(q) = 1
    PROVE  q # <<>> /\ q[1] \in T /\ Tail(q) = <<>>
  <1>1. q # <<>>
    BY EmptyQueue
  <1>2. q[1] \in T
    OBVIOUS
  <1> QED BY <1>1, <1>2, EmptyQueue

LEMMA PutFirst ==
    ASSUME NEW r
    PROVE  Len(Put(<<>>, r)) = 1 /\ Put(<<>>, r)[1] = r
  BY DEF Put

\* a line or a request is sent
LEMMA PutLine ==
    ASSUME NEW T, NEW q \in Seq(T), NEW r \in T, r.is # "data"
    PROVE  /\ Len(Put(q, r)) = Len(q) + 1
           /\ Put(q, r)[Len(q) + 1] = r
           /\ \A i \in 1..Len(q) : Put(q, r)[i] = q[i]
  BY DEF Put

LEMMA PutPiece ==
    ASSUME NEW T \in {Ups, Downs}, NEW q \in Seq(T), LonePiece(q), NEW n \in Nat
    PROVE  LonePiece(Put(q, Piece(n))) /\ Put(q, Piece(n))[1].n = q[1].n + n
  <1>0. q # <<>> /\ Len(q) = 1 /\ q[1].is = "data" /\ q[1] \in T
    <2>1. Len(q) = 1 /\ q[1].is = "data"
      BY DEF LonePiece
    <2>2. q # <<>>
      BY <2>1, NoLength
    <2>3. q[1] \in T
      BY <2>1
    <2> QED BY <2>1, <2>2, <2>3
  <1>1. q # <<>> /\ Len(q) = 1 /\ q[1].is = "data" /\ q[1].n \in Nat
    BY <1>0, DataIsPiece
  <1>2. Put(q, Piece(n)) = [q EXCEPT ![1] = Piece(q[1].n + n)]
    BY <1>1 DEF Put, Piece
  <1> DEFINE e == Piece(q[1].n + n)
  <1>3. e.is = "data" /\ e.n = q[1].n + n
    BY DEF Piece
  <1> HIDE DEF e
  <1>4. Len([q EXCEPT ![1] = e]) = 1 /\ [q EXCEPT ![1] = e][1] = e
    BY <1>1
  <1> QED BY <1>2, <1>3, <1>4 DEF LonePiece, e

\* what is sent behind a line stays behind it
LEMMA PutBehind ==
    ASSUME NEW T \in {Ups, Downs}, NEW q \in Seq(T), Len(q) >= 1, q[1].is # "data", NEW r \in T
    PROVE  /\ Put(q, r) \in Seq(T)
           /\ Len(Put(q, r)) >= 1 /\ Put(q, r)[1] = q[1]
           /\ Tail(Put(q, r)) = Put(Tail(q), r)
  <1> DEFINE n == Len(q)
             t == Tail(q)
  <1>1. /\ n \in Nat /\ n >= 1 /\ q # <<>> /\ t \in Seq(T) /\ Len(t) = n - 1
        /\ \A i \in 1..n - 1 : t[i] = q[i + 1]
    BY EmptyQueue
  <1>2. (t # <<>> /\ t[Len(t)].is = "data") <=> q[n].is = "data"
    <2>1. CASE n = 1
      <3>1. t = <<>>
        BY <1>1, <2>1, EmptyQueue
      <3>2. q[n].is # "data"
        BY <2>1
      <3> QED BY <3>1, <3>2
    <2>2. CASE n # 1
      <3>1. Len(t) \in 1..n - 1 /\ Len(t) + 1 = n /\ t # <<>>
        <4>1. n - 1 \in 1..n - 1 /\ n - 1 # 0
          BY <1>1, <2>2
        <4>2. Len(t) = n - 1 /\ t \in Seq(T)
          BY <1>1
        <4> HIDE DEF t, n
        <4>3. t # <<>>
          BY <4>1, <4>2, NoLength
        <4> QED BY <1>1, <4>1, <4>2, <4>3
      <3> QED BY <1>1, <3>1
    <2> QED BY <2>1, <2>2
  <1>3. CASE r.is = "data" /\ q[n].is = "data"
    <2> DEFINE e == Piece(q[n].n + r.n)
    <2>1. n > 1
      BY <1>1, <1>3
    <2>2. Len(t) = n - 1 /\ n - 1 \in 1..n - 1 /\ t[n - 1] = q[n]
      BY <1>1, <2>1
    <2>3. Put(q, r) = [q EXCEPT ![n] = e]
      BY <1>1, <1>3 DEF Put
    <2>4. Put(t, r) = [t EXCEPT ![n - 1] = e]
      BY <1>1, <1>2, <1>3, <2>2 DEF Put
    <2>5. e \in T
      <3>1. q[n] \in T /\ q[n].n \in Nat /\ q[n].n > 0 /\ r.n \in Nat
        BY <1>1, <1>3, DataIsPiece
      <3>2. q[n].n + r.n \in Nat \ {0}
        BY <3>1
      <3> QED BY <3>2, PieceTyped DEF Ups, Downs
    <2> HIDE DEF e
    <2>6. [q EXCEPT ![n] = e] \in Seq(T) /\ Len([q EXCEPT ![n] = e]) = n
          /\ [q EXCEPT ![n] = e][1] = q[1]
      BY <1>1, <2>1, <2>5
    <2>7. Tail([q EXCEPT ![n] = e]) = [t EXCEPT ![n - 1] = e]
      <3> DEFINE u == Tail([q EXCEPT ![n] = e])
                 w == [t EXCEPT ![n - 1] = e]
      <3>1. u \in Seq(T) /\ Len(u) = n - 1 /\ \A i \in 1..n - 1 : u[i] = [q EXCEPT ![n] = e][i + 1]
        <4> DEFINE v == [q EXCEPT ![n] = e]
        <4>1. v \in Seq(T) /\ Len(v) = n
          BY <2>6
        <4> HIDE DEF v
        <4>2. v # <<>>
          BY <1>1, <4>1
        <4>3. /\ Tail(v) \in Seq(T) /\ Len(Tail(v)) = n - 1
              /\ \A i \in 1..n - 1 : Tail(v)[i] = v[i + 1]
          BY <4>1, <4>2, EmptyQueue
        <4> QED BY <4>3 DEF v
      <3>2. w \in Seq(T) /\ Len(w) = n - 1 /\ \A i \in 1..n - 1 : w[i] = IF i = n - 1 THEN e ELSE t[i]
        <4>1. t \in Seq(T) /\ Len(t) = n - 1
          BY <1>1
        <4> HIDE DEF t
        <4> QED BY <1>1, <2>2, <2>5, <4>1
      <3>3. \A i \in 1..n - 1 : [q EXCEPT ![n] = e][i + 1] = IF i = n - 1 THEN e ELSE q[i + 1]
        <4>1. \A j \in 1..n : [q EXCEPT ![n] = e][j] = IF j = n THEN e ELSE q[j]
          OBVIOUS
        <4> HIDE DEF n
        <4>2. \A i \in 1..n - 1 : i + 1 \in 1..n /\ (i + 1 = n <=> i = n - 1)
          BY <1>1
        <4> QED BY <4>1, <4>2
      <3>4. \A i \in 1..n - 1 : u[i] = w[i]
        BY <1>1, <3>1, <3>2, <3>3
      <3> HIDE DEF u, w, t
      <3>5. u = w
        BY <3>1, <3>2, <3>4
      <3> QED BY <3>5 DEF u, w
    <2> QED BY <1>1, <2>3, <2>4, <2>6, <2>7
  <1>4. CASE ~(r.is = "data" /\ q[n].is = "data")
    <2>1. Put(q, r) = Append(q, r)
      BY <1>1, <1>4 DEF Put
    <2>2. Put(t, r) = Append(t, r)
      BY <1>1, <1>2, <1>4 DEF Put
    <2>3. Append(q, r) \in Seq(T) /\ Len(Append(q, r)) = n + 1 /\ Append(q, r)[1] = q[1]
      BY <1>1
    <2>4. Tail(Append(q, r)) = Append(t, r)
      BY <1>1
    <2> QED BY <1>1, <2>1, <2>2, <2>3, <2>4
  <1> QED BY <1>3, <1>4

LEMMA ReadPiece ==
    ASSUME NEW T \in {Ups, Downs}, NEW q \in Seq(T), Len(q) >= 1, q[1].is = "data",
           NEW k \in 1..q[1].n
    PROVE  /\ Read(q, k) \in Seq(T)
           /\ k = q[1].n => Read(q, k) = Tail(q)
           /\ k < q[1].n => /\ Len(Read(q, k)) = Len(q)
                            /\ Read(q, k)[1].is = "data" /\ Read(q, k)[1].n = q[1].n - k
                            /\ \A i \in 2..Len(q) : Read(q, k)[i] = q[i]
  <1>1. 1 \in DOMAIN q /\ q # <<>> /\ q[1].n \in Nat
    BY DataIsPiece
  <1>2. Read(q, k) \in Seq(T)
    BY <1>1, ReadTyped
  <1>3. ASSUME k < q[1].n
        PROVE  /\ Len(Read(q, k)) = Len(q)
               /\ Read(q, k)[1].is = "data" /\ Read(q, k)[1].n = q[1].n - k
               /\ \A i \in 2..Len(q) : Read(q, k)[i] = q[i]
    <2> DEFINE e == Piece(q[1].n - k)
    <2>1. e.is = "data" /\ e.n = q[1].n - k
      BY DEF Piece
    <2>2. Read(q, k) = [q EXCEPT ![1] = e]
      BY <1>1, <1>3 DEF Read
    <2> HIDE DEF e
    <2>3. Len([q EXCEPT ![1] = e]) = Len(q) /\ [q EXCEPT ![1] = e][1] = e
          /\ \A i \in 2..Len(q) : [q EXCEPT ![1] = e][i] = q[i]
      BY <1>1
    <2> QED BY <2>1, <2>2, <2>3
  <1> QED BY <1>1, <1>2, <1>3 DEF Read

\* what is left when the sender dies: as much of it, the last piece cut
Part(c, q) ==
    /\ Len(c) <= Len(q)
    /\ \A i \in 1..Len(c) : c[i].is = q[i].is
    /\ \A i \in 1..Len(c) - 1 : c[i] = q[i]
    /\ \A i \in 1..Len(c) : c[i].is # "data" => c[i] = q[i]
    /\ \A i \in 1..Len(c) : c[i].is = "data" => c[i].n <= q[i].n

LEMMA CutShape ==
    ASSUME NEW T \in {Ups, Downs}, NEW q \in Seq(T), NEW c \in Cuts(q)
    PROVE  c \in Seq(T) /\ Part(c, q)
  <1>1. c \in Seq(T) /\ Len(c) \in Nat /\ Len(q) \in Nat
    BY CutsTyped
  <1>0. \A i \in 1..Len(q) : q[i].is = "data" => q[i].n \in Nat
    BY DataIsPiece
  <1>2. ASSUME NEW k \in 0..Len(q), c = SubSeq(q, 1, k)
        PROVE  Len(c) <= Len(q) /\ \A i \in 1..Len(c) : c[i] = q[i]
    BY <1>2
  <1>3. ASSUME NEW k \in 1..Len(q), q[k].is = "data", NEW m \in 1..q[k].n - 1,
               c = Append(SubSeq(q, 1, k - 1), Piece(m))
        PROVE  /\ Len(c) <= Len(q) /\ Len(c) = k
               /\ \A i \in 1..k - 1 : c[i] = q[i]
               /\ c[k].is = "data" /\ c[k].n <= q[k].n
    <2> DEFINE e == Piece(m)
    <2>1. e.is = "data" /\ e.n <= q[k].n
      BY <1>0, <1>3 DEF Piece
    <2> HIDE DEF e
    <2>2. /\ SubSeq(q, 1, k - 1) \in Seq(T) /\ Len(SubSeq(q, 1, k - 1)) = k - 1
          /\ \A i \in 1..k - 1 : SubSeq(q, 1, k - 1)[i] = q[i]
      OBVIOUS
    <2> DEFINE b == SubSeq(q, 1, k - 1)
    <2> HIDE DEF b
    <2>3. /\ Len(Append(b, e)) = k /\ Append(b, e)[k] = e
          /\ \A i \in 1..k - 1 : Append(b, e)[i] = b[i]
      BY <2>2 DEF b
    <2>4. c = Append(b, e)
      BY <1>3 DEF b, e
    <2> QED BY <2>1, <2>2, <2>3, <2>4 DEF b
  <1>4. \/ \E k \in 0..Len(q) : c = SubSeq(q, 1, k)
        \/ \E k \in 1..Len(q) : q[k].is = "data" /\ \E m \in 1..q[k].n - 1 :
               c = Append(SubSeq(q, 1, k - 1), Piece(m))
    BY DEF Cuts
  <1>5. CASE \E k \in 0..Len(q) : c = SubSeq(q, 1, k)
    <2>1. Len(c) <= Len(q) /\ \A i \in 1..Len(c) : c[i] = q[i]
      BY <1>2, <1>5
    <2>2. \A i \in 1..Len(c) - 1 : i \in 1..Len(c)
      BY <1>1
    <2>3. \A i \in 1..Len(c) : q[i].is = "data" => q[i].n <= q[i].n
      BY <1>0, <1>1, <2>1
    <2> QED BY <1>1, <2>1, <2>2, <2>3 DEF Part
  <1>6. CASE \E k \in 1..Len(q) : q[k].is = "data" /\ \E m \in 1..q[k].n - 1 :
               c = Append(SubSeq(q, 1, k - 1), Piece(m))
    <2> PICK k \in 1..Len(q) : q[k].is = "data" /\ \E m \in 1..q[k].n - 1 :
               c = Append(SubSeq(q, 1, k - 1), Piece(m))
      BY <1>6
    <2>1. /\ Len(c) <= Len(q) /\ Len(c) = k /\ \A i \in 1..k - 1 : c[i] = q[i]
          /\ c[k].is = "data" /\ c[k].n <= q[k].n /\ q[k].is = "data"
      BY <1>3
    <2>2. \A i \in 1..k : i = k \/ i \in 1..k - 1
      OBVIOUS
    <2>3. \A i \in 1..k - 1 : i \in 1..Len(q)
      OBVIOUS
    <2>4. \A i \in 1..k - 1 : q[i].is = "data" => q[i].n <= q[i].n
      BY <1>0, <2>3
    <2>5. /\ \A i \in 1..k : c[i].is = q[i].is
          /\ \A i \in 1..k : c[i].is # "data" => c[i] = q[i]
          /\ \A i \in 1..k : c[i].is = "data" => c[i].n <= q[i].n
      BY <2>1, <2>2, <2>4
    <2>6. \A n : n = k =>
             /\ \A i \in 1..n : c[i].is = q[i].is
             /\ \A i \in 1..n - 1 : c[i] = q[i]
             /\ \A i \in 1..n : c[i].is # "data" => c[i] = q[i]
             /\ \A i \in 1..n : c[i].is = "data" => c[i].n <= q[i].n
      BY <2>1, <2>5
    <2> QED BY <1>1, <2>1, <2>6 DEF Part
  <1> QED BY <1>4, <1>5, <1>6

-----------------------------------------------------------------------------
(* The client's steps.                                                     *)

LEMMA StillInStep == TypeOK /\ [Next]_vars /\ InStep' => InStep
  <1> SUFFICES ASSUME TypeOK, [Next]_vars, InStep' PROVE InStep
    OBVIOUS
  <1> USE DEF InStep, SameCause, Derailed, OnlyReads
  <1>1. CASE UserAsks
    BY <1>1 DEF UserAsks, Ask, AskAuth, AskEdit, AskShare, AskPlain, AskMove, AskList, AskAcl,
           AskWithMe, AskPut, AskGet
  <1>2. CASE AuthReply \/ TakeReply \/ AskPwd \/ PwdReply \/ FirstLine \/ NextLine
    BY <1>2 DEF AuthReply, TakeReply, AskPwd, PwdReply, FirstLine, NextLine
  <1>3. CASE PutReady \/ PutStream \/ PutDone \/ GetStart \/ GetFetch \/ GetEnded \/ GetDone
    BY <1>3 DEF PutReady, PutStream, PutDone, GetStart, GetFetch, GetEnded, GetDone
  <1>4. CASE ClientLeaves \/ ServerDies \/ UNCHANGED vars
    BY <1>4 DEF ClientLeaves, ServerDies, vars
  <1>5. CASE Handles
    BY <1>5 DEF Handles, HandlePlain, HandleRefused, HandleLogin, HandleLogout, HandlePwd,
           HandleCdUp, HandleCdDown, HandleOpenShared, HandleExitShared, BeginList, BeginUpload,
           BeginDownload, DownloadDeleted, DownloadSilent
  <1>6. CASE ListEntry \/ ListEnd \/ ListFails \/ SaveRefused \/ SaveSome \/ SaveEnded \/ SaveDone
    BY <1>6 DEF ListEntry, ListEnd, ListFails, SaveRefused, SaveSome, SaveEnded, SaveDone
  <1>7. CASE SendRefused \/ SendSome \/ SendDone \/ ThreadEnds
    BY <1>7 DEF SendRefused, SendSome, SendDone, ThreadEnds
  <1> QED BY <1>1, <1>2, <1>3, <1>4, <1>5, <1>6, <1>7 DEF Next, ClientProceeds, ThreadProceeds

\* nothing more of an exchange is on its way
Quiet == Gone \/ (ThreadAt("recv") /\ toServer = <<>>)

LEMMA BackTalk ==
    ASSUME client'.pc = "prompt", toClient' = <<>>, Quiet, UNCHANGED <<thread, link, toServer>>
    PROVE  Talk'
  BY DEF Talk, Quiet, ClientAt, ThreadAt, Gone, ServerLeft

LEMMA BackAtPrompt ==
    /\ Back => client'.pc = "prompt"
    /\ \A in, path : Prompt(in, path) => client'.pc = "prompt"
  BY DEF Back, Prompt, InitClient

LEMMA HeardAlone ==
    ASSUME TypeOK, Exchange, Hears
    PROVE  toClient' = <<>> /\ Quiet
  <1>1. toClient # <<>> /\ toClient' = Tail(toClient) /\ toClient \in Seq(Downs)
    BY DEF Hears, TypeOK, Downs
  <1>2. LoneLine(toClient) /\ Quiet
    BY <1>1 DEF Exchange, Quiet
  <1> QED BY <1>1, <1>2, EmptyQueue DEF LoneLine

\* an answer of one line has been read, or will not come
LEMMA ExchangeOver ==
    ASSUME TypeOK, Exchange, Hears \/ Closed
    PROVE  toClient' = <<>> /\ Quiet
  BY HeardAlone DEF Closed, Quiet, Gone

LEMMA Heads ==
    ASSUME TypeOK
    PROVE  /\ Hears => Len(toClient) >= 1 /\ Head(toClient) = toClient[1] /\ toClient[1].is = "line"
                       /\ toClient[1] \in Lines /\ toClient' = Tail(toClient)
           /\ toClient \in Seq(Downs) /\ toServer \in Seq(Ups)
  BY EmptyQueue, HearsTyped DEF TypeOK, Hears, Downs, Ups

LEMMA LoneTyped ==
    ASSUME TypeOK
    PROVE  /\ LonePiece(toServer) => toServer # <<>> /\ toServer[1].n \in Nat
           /\ Len(toClient) >= 1 /\ toClient[1].is = "data" =>
                toClient # <<>> /\ toClient[1].n \in Nat
  <1>1. toClient \in Seq(Downs) /\ toServer \in Seq(Ups)
    BY Heads
  <1>2. ASSUME LonePiece(toServer) PROVE toServer # <<>> /\ toServer[1].n \in Nat
    <2>1. Len(toServer) = 1 /\ toServer[1].is = "data"
      BY <1>2 DEF LonePiece
    <2>2. toServer # <<>> /\ toServer[1] \in Ups
      BY <1>1, <2>1, Lone
    <2> QED BY <2>1, <2>2, DataIsPiece
  <1>3. ASSUME Len(toClient) >= 1, toClient[1].is = "data"
        PROVE  toClient # <<>> /\ toClient[1].n \in Nat
    <2>1. toClient # <<>>
      BY <1>1, <1>3, NoLength
    <2>2. toClient[1] \in Downs
      BY <1>1, <2>1, Read1Typed
    <2> QED BY <1>3, <2>1, <2>2, DataIsPiece
  <1> QED BY <1>2, <1>3

LEMMA AskTalk ==
    ASSUME TypeOK, Joined, Talk, InStep, NEW word, NEW dir, NEW n, NEW pc,
           Ask(word, dir, n, pc), Fits(word, pc)
    PROVE  Talk'
  <1>1. /\ client' = [client EXCEPT !.pc = pc, !.cmd = word, !.size = n]
        /\ client.pc = "prompt" /\ toClient' = toClient /\ UNCHANGED <<thread, link>>
        /\ SendUp([is |-> "request", word |-> word, dir |-> dir, n |-> n])
    BY DEF Ask, ClientAt, ThreadUntouched
  <1>2. client'.pc = pc /\ client'.cmd = word /\ client'.size = n
    BY <1>1 DEF TypeOK, ClientState
  <1>3. toClient = <<>> /\ Quiet
    BY <1>1 DEF Talk, ClientAt, Quiet
  <1>4. ~Opened'
    BY <1>1, <1>3 DEF Opened
  <1>5. Exchanging' /\ client'.pc \notin {"prompt", "exited"}
    BY <1>2, <1>4 DEF Exchanging, Fits
  <1>6. CASE Gone
    BY <1>1, <1>3, <1>5, <1>6 DEF Talk, Exchange, Gone, ServerLeft, ClientAt
  <1>7. CASE ~Gone
    <2>1. link = "open"
      BY <1>1, <1>7 DEF Joined, ClientLeft, ClientAt, Gone, ServerLeft, TypeOK, Links
    <2> DEFINE r == [is |-> "request", word |-> word, dir |-> dir, n |-> n]
    <2>2. toServer' = Put(<<>>, r) /\ ThreadAt("recv")
      BY <1>1, <1>3, <1>7, <2>1 DEF SendUp, Quiet
    <2>3. r.is = "request" /\ r.word = word /\ r.n = n
      OBVIOUS
    <2> HIDE DEF r
    <2>4. LoneRequest(toServer)' /\ toServer'[1].word = word /\ toServer'[1].n = n
      BY <2>2, <2>3, PutFirst DEF LoneRequest
    <2>5. pc # "pwd"
      BY DEF Fits
    <2>6. Exchange'
      BY <1>1, <1>2, <1>3, <2>2, <2>4, <2>5 DEF Exchange, ThreadAt
    <2> QED BY <1>5, <2>6 DEF Talk, ClientAt
  <1> QED BY <1>6, <1>7

LEMMA AuthTalk ==
    ASSUME TypeOK, Talk, InStep, AuthReply
    PROVE  Talk'
  <1>1. client.pc = "auth" /\ UNCHANGED <<thread, link, toServer>>
    BY DEF AuthReply, ClientAt, OnlyReads, ThreadUntouched
  <1>2. Exchange /\ (Hears \/ Closed)
    BY <1>1 DEF Talk, ClientAt, Exchanging, AuthReply
  <1>3. toClient' = <<>> /\ Quiet
    BY <1>2, ExchangeOver
  <1>4. (\E ok : Authenticated(ok)) => client'.pc = "prompt"
    BY BackAtPrompt DEF Authenticated
  <1>5. CASE client'.pc = "prompt"
    BY <1>1, <1>3, <1>5, BackTalk
  <1>6. CASE Closed /\ Waits("exited")
    <2>1. client'.pc = "exited" /\ Gone
      BY <1>6 DEF Waits, TypeOK, ClientState, Closed, Gone
    <2> QED BY <1>1, <1>3, <2>1 DEF Talk, LeftBehind, Gone, ServerLeft, ClientAt
  <1> QED BY <1>4, <1>5, <1>6 DEF AuthReply

LEMMA ReplyTalk ==
    ASSUME TypeOK, Matched, Talk, InStep, TakeReply
    PROVE  Talk'
  <1>1. /\ client.pc = "reply" /\ UNCHANGED <<thread, link, toServer>>
        /\ client'.pc = "prompt" /\ (Hears \/ Closed)
    BY BackAtPrompt DEF TakeReply, ClientAt, OnlyReads, ThreadUntouched
  <1>2. ~Opened /\ Coming = toClient
    BY <1>1 DEF Opened, Coming
  <1>3. CASE Closed
    BY <1>1, <1>3, BackTalk DEF Closed, Quiet, Gone
  <1>4. CASE Hears /\ client.cmd \in Plain
    <2>1. Exchange
      BY <1>1, <1>4 DEF Talk, ClientAt, Exchanging
    <2> QED BY <1>1, <2>1, ExchangeOver, BackTalk
  <1>5. CASE Hears /\ client.cmd \notin Plain
    <2>1. client.cmd = "UPLOAD" \/ client.cmd \in Gets
      BY <1>1, <1>5 DEF Matched
    <2>2. Answering
      BY <1>1, <1>2, <1>5 DEF Talk, ClientAt, Exchanging
    <2>3. Len(toClient) >= 1 /\ toClient[1].is = "line" /\ toClient' = Tail(toClient)
      BY <1>5, Heads
    <2>4. toClient # <<>> /\ toClient \in Seq(Downs)
      BY <1>5, Heads DEF Hears
    <2>5. LoneLine(toClient) /\ Quiet
      <3>1. CASE client.cmd = "UPLOAD"
        BY <1>2, <2>2, <2>4, <3>1 DEF Answering, Uploading, Quiet
      <3>2. CASE client.cmd \in Gets
        BY <1>2, <2>2, <2>3, <2>4, <3>2 DEF Answering, Downloading, Quiet, LonePiece
      <3> QED BY <2>1, <3>1, <3>2
    <2>6. toClient' = <<>>
      BY <2>3, <2>4, <2>5, EmptyQueue DEF LoneLine
    <2> QED BY <1>1, <2>5, <2>6, BackTalk
  <1> QED BY <1>1, <1>3, <1>4, <1>5

LEMMA PwdTalk ==
    ASSUME TypeOK, Joined, Talk, InStep, AskPwd \/ PwdReply
    PROVE  Talk'
  <1>1. client.pc \in {"moved", "pwd"} /\ UNCHANGED <<thread, link>> /\ (Hears \/ Closed)
    BY DEF AskPwd, PwdReply, ClientAt, OnlyReads, ThreadUntouched, Heard, NotHeard
  <1>2. Exchange
    BY <1>1 DEF Talk, ClientAt, Exchanging
  <1>3. toClient' = <<>> /\ Quiet
    BY <1>1, <1>2, ExchangeOver
  <1>4. CASE PwdReply
    <2>1. client'.pc = "prompt" /\ toServer' = toServer
      BY <1>4, BackAtPrompt DEF PwdReply, OnlyReads
    <2> QED BY <1>1, <1>3, <2>1, BackTalk
  <1>5. CASE AskPwd
    <2>1. client'.pc = "pwd"
      BY <1>5 DEF AskPwd, Waits, TypeOK, ClientState
    <2>2. Exchanging'
      BY <2>1 DEF Exchanging
    <2>3. CASE Gone
      BY <1>1, <1>3, <2>1, <2>2, <2>3 DEF Talk, Exchange, Gone, ServerLeft, ClientAt
    <2>4. CASE ~Gone
      <3>1. link = "open"
        BY <1>1, <2>4 DEF Joined, ClientLeft, ClientAt, Gone, ServerLeft, TypeOK, Links
      <3> DEFINE r == [is |-> "request", word |-> "PWD", dir |-> "..", n |-> 0]
      <3>2. toServer' = Put(<<>>, r) /\ ThreadAt("recv")
        BY <1>3, <1>5, <2>4, <3>1 DEF AskPwd, SendUp, Quiet
      <3>3. r.is = "request" /\ r.word = "PWD"
        OBVIOUS
      <3> HIDE DEF r
      <3>4. LoneRequest(toServer)' /\ toServer'[1].word = "PWD"
        BY <3>2, <3>3, PutFirst DEF LoneRequest
      <3>5. Exchange'
        BY <1>1, <1>3, <2>1, <3>2, <3>4 DEF Exchange, ThreadAt
      <3> QED BY <2>1, <2>2, <3>5 DEF Talk, ClientAt
    <2> QED BY <2>3, <2>4
  <1> QED BY <1>4, <1>5

LEMMA Kinds ==
    /\ \A w \in Lists : w # "UPLOAD" /\ w \notin Gets
    /\ \A w \in Gets : w # "UPLOAD"
    /\ \A w \in Plain : w # "UPLOAD" /\ w \notin Gets /\ w \notin Lists
    /\ \A w \in {"REGISTER", "LOGIN", "LOGOUT", "CD", "OPEN_SHARED_FOLDER", "PWD"} :
          w # "UPLOAD" /\ w \notin Gets /\ w \notin Lists
    /\ "UPLOAD" \notin Gets /\ "UPLOAD" \notin Lists
  BY DEF Lists, Acls, WithMe, Gets, Plain, Edits, Shares

\* the first line has been read: the client goes on to what follows it
LEMMA OpenedTalk ==
    ASSUME Talk, InStep, Opened
    PROVE  /\ Answering /\ Coming = Tail(toClient) /\ client.pc \notin {"prompt", "exited"}
           /\ ~Exchanging
  BY DEF Talk, Opened, Exchanging, Coming, ClientAt

LEMMA FirstTalk ==
    ASSUME TypeOK, Matched, Talk, InStep, FirstLine
    PROVE  Talk'
  <1>1. client.pc = "first" /\ client.cmd \in Lists /\ UNCHANGED <<thread, link, toServer>>
    BY DEF FirstLine, ClientAt, OnlyReads, ThreadUntouched, Matched
  <1>2. CASE Heard("begin") /\ Waits("lines")
    <2>1. Opened /\ toClient' = Tail(toClient)
      BY <1>1, <1>2, Heads DEF Heard, Opened, Opener
    <2>2. client'.pc = "lines" /\ client'.cmd = client.cmd
      BY <1>2 DEF Waits, TypeOK, ClientState
    <2>3. Listing(Tail(toClient))
      BY <1>1, <2>1, OpenedTalk DEF Answering
    <2>4. ~Opened' /\ Coming' = Tail(toClient) /\ ~Exchanging'
      BY <2>1, <2>2 DEF Opened, Coming, Exchanging
    <2>5. Listing(Coming)'
      BY <1>1, <2>2, <2>3, <2>4 DEF Listing, Gone, ServerLeft, ThreadAt
    <2>6. Answering'
      BY <1>1, <2>2, <2>5, Kinds DEF Answering
    <2> QED BY <2>2, <2>4, <2>6 DEF Talk, ClientAt
  <1>3. CASE NotHeard("begin") /\ Back
    <2>1. ~Opened
      BY <1>1, <1>3, Heads DEF NotHeard, Opened, Opener
    <2>2. Exchange
      BY <1>1, <2>1 DEF Talk, ClientAt, Exchanging
    <2> QED BY <1>1, <1>3, <2>2, ExchangeOver, BackTalk, BackAtPrompt DEF NotHeard
  <1>4. CASE Closed /\ Back
    BY <1>1, <1>4, BackTalk, BackAtPrompt DEF Closed, Quiet, Gone
  <1> QED BY <1>2, <1>3, <1>4 DEF FirstLine

LEMMA NextTalk ==
    ASSUME TypeOK, Matched, Talk, InStep, NextLine
    PROVE  Talk'
  <1>1. client.pc = "lines" /\ client.cmd \in Lists /\ UNCHANGED <<thread, link, toServer>>
    BY DEF NextLine, ClientAt, OnlyReads, ThreadUntouched, Matched
  <1>2. ~Opened /\ Coming = toClient /\ ~Exchanging
    BY <1>1 DEF Opened, Coming, Exchanging
  <1>3. Listing(toClient)
    BY <1>1, <1>2 DEF Talk, ClientAt, Answering
  <1>4. CASE Heard(Marker[client.cmd]) /\ Back
    <2>1. toClient[1].code = Marker[client.cmd] /\ Len(toClient) >= 1 /\ Len(toClient) \in Nat
          /\ toClient' = Tail(toClient) /\ toClient \in Seq(Downs)
      BY <1>4, Heads DEF Heard
    <2>2. Len(toClient) = 1
      <3> SUFFICES ASSUME Len(toClient) # 1 PROVE FALSE
        OBVIOUS
      <3>1. 1 \in 1..Len(toClient) - 1
        <4>1. \A m \in Nat : m >= 1 /\ m # 1 => 1 \in 1..m - 1
          OBVIOUS
        <4> QED BY <2>1, <4>1
      <3> QED BY <1>3, <2>1, <3>1 DEF Listing
    <2>3. Quiet
      BY <1>3, <2>1, <2>2 DEF Listing, Quiet
    <2>4. toClient' = <<>>
      BY <2>1, <2>2, EmptyQueue
    <2> QED BY <1>1, <1>4, <2>3, <2>4, BackTalk, BackAtPrompt
  <1>5. CASE NotHeard(Marker[client.cmd]) /\ UNCHANGED client
    <2> DEFINE q == toClient
               t == Tail(toClient)
               mark == Marker[client.cmd]
    <2>1. q[1].code # mark /\ Len(q) >= 1 /\ Len(q) \in Nat /\ toClient' = t
          /\ q \in Seq(Downs) /\ q # <<>>
      BY <1>5, Heads DEF NotHeard, Hears
    <2>2. Len(t) = Len(q) - 1 /\ \A i \in 1..Len(q) - 1 : t[i] = q[i + 1]
      BY <2>1, EmptyQueue
    <2>3. /\ \A i \in 1..Len(q) : q[i].is = "line"
          /\ \A i \in 1..Len(q) - 1 : q[i].code # mark
          /\ \/ Gone
             \/ /\ ThreadAt("listing") /\ thread.word = client.cmd /\ toServer = <<>>
                /\ \A i \in 1..Len(q) : q[i].code # mark
             \/ /\ ThreadAt("recv") /\ toServer = <<>>
                /\ Len(q) >= 1 /\ q[Len(q)].code = mark
      BY <1>3 DEF Listing
    <2> HIDE DEF q, t, mark
    <2>4. \A i \in 1..Len(t) : t[i].is = "line"
      BY <2>1, <2>2, <2>3
    <2>5. \A i \in 1..Len(t) - 1 : t[i].code # mark
      BY <2>1, <2>2, <2>3
    <2>6. (\A i \in 1..Len(q) : q[i].code # mark) => \A i \in 1..Len(t) : t[i].code # mark
      BY <2>1, <2>2
    <2>7. q[Len(q)].code = mark => Len(t) >= 1 /\ t[Len(t)].code = mark
      <3> SUFFICES ASSUME q[Len(q)].code = mark PROVE Len(t) >= 1 /\ t[Len(t)].code = mark
        OBVIOUS
      <3>1. Len(q) # 1
        BY <2>1
      <3>2. Len(q) - 1 \in 1..Len(q) - 1 /\ (Len(q) - 1) + 1 = Len(q)
        BY <2>1, <3>1
      <3> QED BY <2>2, <3>2
    <2>8. Listing(t)
      BY <2>3, <2>4, <2>5, <2>6, <2>7 DEF Listing, mark
    <2>9. client' = client
      BY <1>5
    <2>10. ~Opened' /\ Coming' = t /\ ~Exchanging'
      BY <1>1, <2>1, <2>9 DEF Opened, Coming, Exchanging
    <2>11. Listing(Coming)'
      BY <1>1, <2>8, <2>9, <2>10 DEF Listing, Gone, ServerLeft, ThreadAt
    <2>12. Answering'
      BY <1>1, <2>9, <2>11, Kinds DEF Answering
    <2> QED BY <1>1, <2>9, <2>10, <2>12 DEF Talk, ClientAt
  <1>6. CASE Closed /\ Back
    BY <1>1, <1>6, BackTalk, BackAtPrompt DEF Closed, Quiet, Gone
  <1> QED BY <1>4, <1>5, <1>6 DEF NextLine

LEMMA ReadyTalk ==
    ASSUME TypeOK, Matched, Talk, InStep, InStep', PutReady
    PROVE  Talk'
  <1>1. client.pc = "ready" /\ client.cmd = "UPLOAD" /\ UNCHANGED <<thread, link, toServer>>
    BY DEF PutReady, ClientAt, ThreadUntouched, Matched
  <1>2. CASE Heard("150") /\ client' = [client EXCEPT !.pc = "stream", !.left = client.size]
    <2>1. Opened /\ toClient' = Tail(toClient)
      BY <1>1, <1>2, Heads DEF Heard, Opened, Opener
    <2>2. client'.pc = "stream" /\ client'.cmd = "UPLOAD" /\ client'.size = client.size
          /\ client'.left = client.size
      BY <1>1, <1>2 DEF TypeOK, ClientState
    <2>3. Uploading(Tail(toClient), client.size)
      BY <1>1, <2>1, OpenedTalk DEF Answering
    <2>4. ~Opened' /\ Coming' = Tail(toClient) /\ ~Exchanging'
      BY <2>1, <2>2 DEF Opened, Coming, Exchanging
    <2>5. Uploading(Coming, client.left)'
      BY <1>1, <2>2, <2>3, <2>4 DEF Uploading, Gone, ServerLeft, ThreadAt
    <2>6. Answering'
      BY <1>1, <2>2, <2>4, <2>5, Kinds DEF Answering
    <2> QED BY <2>2, <2>4, <2>6 DEF Talk, ClientAt
  <1>3. CASE (NotHeard("150") \/ Closed) /\ Back
    <2>1. CASE Closed
      BY <1>1, <1>3, <2>1, BackTalk, BackAtPrompt DEF Closed, Quiet, Gone
    <2>2. CASE NotHeard("150")
      <3>1. ~Opened
        BY <1>1, <2>2, Heads DEF NotHeard, Opened, Opener
      <3>2. Exchange
        BY <1>1, <3>1 DEF Talk, ClientAt, Exchanging
      <3> QED BY <1>1, <1>3, <2>2, <3>2, ExchangeOver, BackTalk, BackAtPrompt DEF NotHeard
    <2> QED BY <1>3, <2>1, <2>2
  <1>4. ASSUME NEW n, client' = [client EXCEPT !.pc = "stream", !.left = n], n # client.size,
               Derailed("size_changed")
        PROVE  FALSE
    BY <1>4 DEF InStep, Derailed
  <1> QED BY <1>2, <1>3, <1>4 DEF PutReady

LEMMA StreamTalk ==
    ASSUME TypeOK, Matched, Joined, Talk, InStep, PutStream
    PROVE  Talk'
  <1> DEFINE n == Least(ClientBuf, client.left)
  <1>1. client.pc = "stream" /\ client.cmd = "UPLOAD" /\ UNCHANGED <<thread, link, toClient>>
        /\ client.left > 0
    BY DEF PutStream, ClientAt, ThreadUntouched, Matched
  <1>2. ~Opened /\ Coming = toClient /\ ~Exchanging
    BY <1>1 DEF Opened, Coming, Exchanging
  <1>3. Uploading(toClient, client.left)
    BY <1>1, <1>2 DEF Talk, ClientAt, Answering
  <1>4. toClient = <<>>
    BY <1>1, <1>3, Heads DEF Uploading, TypeOK, ClientState
  <1>5. n \in Nat /\ client.left \in Nat /\ n <= client.left
    BY SizesAssumption, LeastTyped DEF TypeOK, ClientState
  <1>6. \/ SendUp(Piece(n)) /\ client' = [client EXCEPT !.left = @ - n]
        \/ ServerLeft /\ Back /\ toServer' = toServer
    BY DEF PutStream
  <1> HIDE DEF n
  <1>7. CASE ServerLeft /\ Back /\ toServer' = toServer
    BY <1>1, <1>4, <1>7, BackTalk, BackAtPrompt DEF Quiet, Gone
  <1>8. CASE SendUp(Piece(n)) /\ client' = [client EXCEPT !.left = @ - n]
    <2>1. client'.pc = "stream" /\ client'.cmd = "UPLOAD" /\ client'.size = client.size
          /\ client'.left = client.left - n
      BY <1>1, <1>8 DEF TypeOK, ClientState
    <2>2. ~Opened' /\ Coming' = <<>> /\ ~Exchanging'
      BY <1>1, <1>4, <2>1 DEF Opened, Coming, Exchanging
    <2>3. Uploading(<<>>, client.left)'
      <3>1. CASE Gone
        BY <1>1, <3>1 DEF Uploading, Gone, ServerLeft
      <3>2. CASE ~Gone
        <4>1. link = "open"
          BY <1>1, <3>2 DEF Joined, ClientLeft, ClientAt, Gone, ServerLeft, TypeOK, Links
        <4>2. toServer' = Put(toServer, Piece(n))
          BY <1>8, <4>1 DEF SendUp
        <4>3. /\ ThreadAt("saving") /\ thread.asked = client.size
              /\ thread.saved + thread.remaining = thread.asked
              /\ \/ toServer = <<>> /\ thread.saved + thread.total + client.left = client.size
                 \/ /\ LonePiece(toServer)
                    /\ thread.saved + thread.total + toServer[1].n + client.left = client.size
          BY <1>1, <1>3, <1>5, <3>2 DEF Uploading
        <4>4. thread.saved \in Nat /\ thread.total \in Nat /\ client.size \in Nat
          BY DEF TypeOK, ThreadState, ClientState
        <4>5. CASE toServer = <<>>
          <5>1. LonePiece(toServer)' /\ toServer'[1].n = n
            BY <4>2, <4>5, PutFirst DEF LonePiece, Piece
          <5>2. thread.saved + thread.total + n + (client.left - n) = client.size
            BY <1>5, <4>3, <4>4, <4>5, NoLength DEF LonePiece
          <5> QED BY <1>1, <2>1, <4>3, <5>1, <5>2 DEF Uploading, ThreadAt
        <4>6. CASE LonePiece(toServer)
          <5>1. LonePiece(toServer)' /\ toServer'[1].n = toServer[1].n + n
            <6>1. toServer \in Seq(Ups)
              BY Heads
            <6>2. LonePiece(Put(toServer, Piece(n)))
                  /\ Put(toServer, Piece(n))[1].n = toServer[1].n + n
              BY <1>5, <4>6, <6>1, PutPiece
            <6> QED BY <4>2, <6>2 DEF LonePiece
          <5>2. toServer[1].n \in Nat /\ toServer # <<>>
            BY <4>6, LoneTyped
          <5>3. thread.saved + thread.total + (toServer[1].n + n) + (client.left - n) = client.size
            BY <1>5, <4>3, <4>4, <5>2
          <5> QED BY <1>1, <2>1, <4>3, <5>1, <5>3 DEF Uploading, ThreadAt
        <4> QED BY <4>3, <4>5, <4>6
      <3> QED BY <3>1, <3>2
    <2>4. Answering'
      BY <2>1, <2>2, <2>3, Kinds DEF Answering
    <2> QED BY <2>1, <2>2, <2>4 DEF Talk, ClientAt
  <1> QED BY <1>6, <1>7, <1>8

LEMMA PutDoneTalk ==
    ASSUME TypeOK, Matched, Talk, InStep, PutDone \/ GetDone
    PROVE  Talk'
  <1>1. /\ UNCHANGED <<thread, link, toServer, toClient>> /\ client'.pc = "reply"
        /\ client'.cmd = client.cmd /\ client'.size = client.size /\ client'.left = client.left
        /\ client'.got = client.got /\ client'.total = client.total
    BY DEF PutDone, GetDone, Waits, OnlyReads, ThreadUntouched, TypeOK, ClientState
  <1>2. client.pc \in {"stream", "fetch"} /\ (client.cmd = "UPLOAD" \/ client.cmd \in Gets)
    BY DEF PutDone, GetDone, ClientAt, Matched
  <1>3. ~Opened /\ Coming = toClient /\ ~Exchanging
    BY <1>2 DEF Opened, Coming, Exchanging
  <1>4. Answering
    BY <1>2, <1>3 DEF Talk, ClientAt
  <1>5. ~Opened' /\ Coming' = toClient /\ ~Exchanging'
    BY <1>1, <1>2, Kinds DEF Opened, Coming, Exchanging
  <1>6. Uploading(Coming, client.left) => Uploading(Coming, client.left)'
    BY <1>1, <1>3, <1>5 DEF Uploading, Gone, ServerLeft, ThreadAt
  <1>7. Downloading(Coming, client.size - (client.got + client.total))
          => Downloading(Coming, client.size - (client.got + client.total))'
    BY <1>1, <1>3, <1>5 DEF Downloading, Gone, ServerLeft, ThreadAt
  <1>8. Answering'
    BY <1>1, <1>2, <1>3, <1>4, <1>5, <1>6, <1>7, Kinds DEF Answering
  <1> QED BY <1>1, <1>5, <1>8 DEF Talk, ClientAt

LEMMA StartTalk ==
    ASSUME TypeOK, Matched, Talk, InStep, InStep', GetStart
    PROVE  Talk'
  <1>1. /\ client.pc = "start" /\ client.cmd \in Gets /\ client.got = 0 /\ client.total = 0
        /\ UNCHANGED <<thread, link, toServer>>
    BY DEF GetStart, ClientAt, ThreadUntouched, Matched
  <1>2. ASSUME NEW n \in Nat, client' = [client EXCEPT !.pc = "fetch", !.size = n],
               \/ Opened /\ toClient' = Tail(toClient) /\ n = toClient[1].n
               \/ Closed
        PROVE  Talk'
    <2>1. /\ client'.pc = "fetch" /\ client'.cmd = client.cmd /\ client'.size = n
          /\ client'.got = 0 /\ client'.total = 0
      BY <1>1, <1>2 DEF TypeOK, ClientState
    <2>2. ~Opened' /\ Coming' = toClient' /\ ~Exchanging'
      BY <2>1 DEF Opened, Coming, Exchanging
    <2>3. Downloading(toClient, n)'
      <3>1. CASE Opened /\ toClient' = Tail(toClient) /\ n = toClient[1].n
        <4>1. Downloading(Tail(toClient), n)
          BY <1>1, <3>1, OpenedTalk DEF Answering
        <4> QED BY <1>1, <3>1, <4>1 DEF Downloading, Gone, ServerLeft, ThreadAt
      <3>2. CASE Closed
        BY <1>1, <3>2 DEF Downloading, Gone, Closed, ServerLeft
      <3> QED BY <1>2, <3>1, <3>2
    <2>4. client'.size - (client'.got + client'.total) = n
      BY <2>1
    <2>5. Answering'
      BY <1>1, <2>1, <2>2, <2>3, <2>4, Kinds DEF Answering
    <2> QED BY <2>1, <2>2, <2>5 DEF Talk, ClientAt
  <1>3. CASE Heard("50") /\ client' = [client EXCEPT !.pc = "fetch", !.size = Head(toClient).n]
    <2>1. Opened /\ toClient' = Tail(toClient) /\ Head(toClient) = toClient[1]
          /\ toClient[1].n \in Nat
      BY <1>1, <1>3, Heads DEF Heard, Opened, Opener, Lines
    <2> QED BY <1>2, <1>3, <2>1
  <1>4. CASE (NotHeard("50") \/ Closed) /\ Back
    <2>1. CASE Closed
      BY <1>1, <1>4, <2>1, BackTalk, BackAtPrompt DEF Closed, Quiet, Gone
    <2>2. CASE NotHeard("50")
      <3>1. ~Opened
        BY <1>1, <2>2, Heads DEF NotHeard, Opened, Opener
      <3>2. Exchange
        BY <1>1, <3>1 DEF Talk, ClientAt, Exchanging
      <3> QED BY <1>1, <1>4, <2>2, <3>2, ExchangeOver, BackTalk, BackAtPrompt DEF NotHeard
    <2> QED BY <1>4, <2>1, <2>2
  <1>5. CASE Closed /\ \E n \in Sizes : client' = [client EXCEPT !.pc = "fetch", !.size = n]
    BY <1>2, <1>5, SizesAssumption
  <1>6. ~Derailed("no_destination")
    BY DEF InStep, Derailed
  <1> QED BY <1>3, <1>4, <1>5, <1>6 DEF GetStart

LEMMA FetchTalk ==
    ASSUME TypeOK, Matched, Talk, InStep, InStep', GetFetch
    PROVE  Talk'
  <1> DEFINE need == Least(ClientBuf, client.size - client.got)
             rest == client.size - (client.got + client.total)
  <1>1. /\ client.pc = "fetch" /\ client.cmd \in Gets /\ client.got < client.size
        /\ UNCHANGED <<thread, link, toServer>>
        /\ toClient # <<>> /\ Head(toClient).is = "data" /\ Head(toClient) = toClient[1]
    BY Heads, EmptyQueue DEF GetFetch, ClientAt, ThreadUntouched, Matched
  <1>2. /\ client.got \in Nat /\ client.size \in Nat /\ client.total \in Nat
        /\ toClient \in Seq(Downs) /\ Len(toClient) >= 1 /\ toClient[1].n \in Nat
    BY <1>1, Heads, EmptyQueue, LoneTyped DEF TypeOK, ClientState
  <1>3. need \in Nat /\ need <= client.size - client.got
    <2>1. client.size - client.got \in Nat /\ ClientBuf \in Nat
      BY <1>1, <1>2, SizesAssumption
    <2> QED BY <2>1, LeastTyped
  <1>4. PICK k \in 1..Least(need - client.total, toClient[1].n) :
           /\ toClient' = Read(toClient, k)
           /\ \/ /\ client' = IF client.total + k < need
                                THEN [client EXCEPT !.total = @ + k]
                                ELSE [client EXCEPT !.got = @ + need, !.total = 0]
                 /\ cause' = cause
              \/ Derailed("no_destination")
    BY <1>1 DEF GetFetch
  <1>5. ~Derailed("no_destination")
    BY DEF InStep, Derailed
  <1> HIDE DEF need
  <1>6. k \in Nat /\ k >= 1 /\ k <= toClient[1].n /\ client.total + k <= need
    BY <1>2, <1>3, <1>4 DEF Least
  <1>7. /\ client'.pc = "fetch" /\ client'.cmd = client.cmd /\ client'.size = client.size
        /\ client'.got + client'.total = client.got + client.total + k
    <2>1. CASE client.total + k < need
      <3>1. client' = [client EXCEPT !.total = @ + k]
        BY <1>4, <1>5, <2>1
      <3>2. /\ client'.pc = "fetch" /\ client'.cmd = client.cmd /\ client'.size = client.size
            /\ client'.got = client.got /\ client'.total = client.total + k
        BY <1>1, <3>1 DEF TypeOK, ClientState
      <3> QED BY <1>2, <1>6, <3>2
    <2>2. CASE ~(client.total + k < need)
      <3>1. client' = [client EXCEPT !.got = @ + need, !.total = 0]
        BY <1>4, <1>5, <2>2
      <3>2. /\ client'.pc = "fetch" /\ client'.cmd = client.cmd /\ client'.size = client.size
            /\ client'.got = client.got + need /\ client'.total = 0
        BY <1>1, <3>1 DEF TypeOK, ClientState
      <3>3. client.total + k = need
        BY <1>2, <1>3, <1>6, <2>2
      <3> QED BY <1>1, <1>2, <1>3, <1>6, <3>2, <3>3
    <2> QED BY <2>1, <2>2
  <1>8. ~Opened /\ Coming = toClient /\ ~Exchanging
    BY <1>1 DEF Opened, Coming, Exchanging
  <1>9. Downloading(toClient, rest)
    BY <1>1, <1>8 DEF Talk, ClientAt, Answering
  <1>10. rest \in Int /\ client'.size - (client'.got + client'.total) = rest - k
    BY <1>2, <1>6, <1>7
  <1> HIDE DEF rest
  <1>11. ~Opened' /\ Coming' = toClient' /\ ~Exchanging'
    BY <1>7 DEF Opened, Coming, Exchanging
  <1>12. k \in 1..toClient[1].n
    BY <1>2, <1>6
  <1>13. /\ toClient' \in Seq(Downs)
         /\ k = toClient[1].n => toClient' = Tail(toClient)
         /\ k < toClient[1].n => /\ Len(toClient') = Len(toClient)
                                 /\ toClient'[1].is = "data" /\ toClient'[1].n = toClient[1].n - k
                                 /\ \A i \in 2..Len(toClient) : toClient'[i] = toClient[i]
    BY <1>1, <1>2, <1>4, <1>12, ReadPiece
  <1>14. Downloading(toClient', rest - k)
    <2>1. CASE LonePiece(toClient)
      <3>1. /\ toClient[1].n <= rest /\ Len(toClient) = 1
            /\ Gone \/ /\ ThreadAt("sending") /\ toServer = <<>>
                       /\ toClient[1].n + thread.remaining = rest
        BY <1>1, <1>9, <2>1 DEF Downloading, LonePiece, LoneLine
      <3>2. thread.remaining \in Nat
        BY DEF TypeOK, ThreadState
      <3>3. CASE k = toClient[1].n
        <4>1. toClient' = <<>>
          BY <1>2, <1>13, <3>1, <3>3, EmptyQueue
        <4>2. Gone \/ (ThreadAt("sending") /\ toServer = <<>> /\ thread.remaining = rest - k)
          BY <1>10, <3>1, <3>2, <3>3, <1>2
        <4> QED BY <4>1, <4>2 DEF Downloading
      <3>4. CASE k # toClient[1].n
        <4>1. /\ LonePiece(toClient') /\ toClient'[1].n = toClient[1].n - k
          BY <1>2, <1>6, <1>13, <3>1, <3>4 DEF LonePiece
        <4>2. toClient[1].n - k <= rest - k
              /\ (toClient[1].n + thread.remaining = rest
                     => (toClient[1].n - k) + thread.remaining = rest - k)
          <5> DEFINE m == toClient[1].n
          <5>1. m \in Nat /\ rest \in Int /\ k \in Nat /\ m <= rest /\ thread.remaining \in Nat
            BY <1>2, <1>6, <1>10, <3>1, <3>2
          <5> HIDE DEF m
          <5>2. m - k <= rest - k /\ (m + thread.remaining = rest => (m - k) + thread.remaining = rest - k)
            BY <5>1
          <5> QED BY <5>2 DEF m
        <4> QED BY <3>1, <4>1, <4>2 DEF Downloading
      <3> QED BY <3>3, <3>4
    <2>2. CASE ~LonePiece(toClient)
      <3>1. /\ Len(toClient) = 2 /\ toClient[1].n = rest /\ toClient[2].is = "line"
            /\ Gone \/ (ThreadAt("recv") /\ toServer = <<>>)
        BY <1>1, <1>9, <2>2 DEF Downloading, LoneLine
      <3>2. CASE k = toClient[1].n
        <4>1. Len(Tail(toClient)) = 1 /\ Tail(toClient)[1] = toClient[2]
          <5>1. /\ Len(Tail(toClient)) = Len(toClient) - 1
                /\ \A i \in 1..Len(toClient) - 1 : Tail(toClient)[i] = toClient[i + 1]
            BY <1>1, <1>2, EmptyQueue
          <5>2. Len(toClient) - 1 = 1 /\ 1 \in 1..1
            BY <3>1
          <5>3. Tail(toClient)[1] = toClient[1 + 1] /\ 1 + 1 = 2
            BY <5>1, <5>2
          <5> QED BY <5>1, <5>2, <5>3
        <4>2. LoneLine(toClient') /\ rest - k = 0
          <5>1. toClient' = Tail(toClient)
            BY <1>13, <3>2
          <5>2. LoneLine(toClient')
            BY <3>1, <4>1, <5>1 DEF LoneLine
          <5>3. k = rest
            BY <3>1, <3>2
          <5> QED BY <1>10, <5>2, <5>3
        <4> QED BY <3>1, <4>2 DEF Downloading
      <3>3. CASE k # toClient[1].n
        <4>1. /\ Len(toClient') = 2 /\ toClient'[1].is = "data" /\ toClient'[1].n = rest - k
              /\ toClient'[2].is = "line"
          BY <1>2, <1>6, <1>13, <3>1, <3>3
        <4> QED BY <3>1, <4>1 DEF Downloading
      <3> QED BY <3>2, <3>3
    <2> QED BY <2>1, <2>2
  <1>15. Downloading(toClient, client.size - (client.got + client.total))'
    BY <1>1, <1>10, <1>14 DEF Downloading, Gone, ServerLeft, ThreadAt
  <1>16. Answering'
    BY <1>1, <1>7, <1>11, <1>15, Kinds DEF Answering
  <1> QED BY <1>7, <1>11, <1>16 DEF Talk, ClientAt

LEMMA EndedTalk ==
    ASSUME TypeOK, Matched, Talk, InStep, InStep', GetEnded
    PROVE  Talk'
  <1>1. /\ client.pc = "fetch" /\ client.cmd \in Gets /\ UNCHANGED <<thread, link, toServer>>
        /\ Gone /\ toClient = <<>> /\ toClient' = <<>>
    BY DEF GetEnded, ClientAt, ThreadUntouched, Matched, Closed, Gone
  <1>2. CASE Back
    BY <1>1, <1>2, BackTalk, BackAtPrompt DEF Quiet
  <1>3. CASE client' = [client EXCEPT !.got = @ + client.total, !.total = 0]
    <2>1. client'.pc = "fetch" /\ client'.cmd = client.cmd
      BY <1>1, <1>3 DEF TypeOK, ClientState
    <2>2. ~Opened' /\ Coming' = <<>> /\ ~Exchanging'
      BY <1>1, <2>1 DEF Opened, Coming, Exchanging
    <2>3. \A need : Downloading(<<>>, need)'
      BY <1>1 DEF Downloading, Gone, ServerLeft
    <2>4. Answering'
      BY <1>1, <2>1, <2>2, <2>3, Kinds DEF Answering
    <2> QED BY <2>1, <2>2, <2>4 DEF Talk, ClientAt
  <1>4. ~Derailed("spinning")
    BY DEF InStep, Derailed
  <1> QED BY <1>2, <1>3, <1>4 DEF GetEnded

LEMMA TailPart ==
    ASSUME NEW T, NEW q \in Seq(T), NEW c \in Seq(T), Part(c, q), c # <<>>
    PROVE  q # <<>> /\ Part(Tail(c), Tail(q)) /\ (c[1].is # "data" => c[1] = q[1])
  <1> DEFINE b == Tail(c)
             p == Tail(q)
             m == Len(c) - 1
  <1>1. Len(c) \in Nat /\ Len(q) \in Nat /\ Len(c) >= 1 /\ Len(q) >= 1 /\ Len(c) <= Len(q)
    BY EmptyQueue DEF Part
  <1>2. q # <<>>
    BY <1>1, EmptyQueue
  <1>3. Len(b) = m /\ \A i \in 1..m : b[i] = c[i + 1]
    BY EmptyQueue
  <1>4. m <= Len(p) /\ \A i \in 1..m : p[i] = q[i + 1]
    <2>1. Len(p) = Len(q) - 1 /\ \A i \in 1..Len(q) - 1 : p[i] = q[i + 1]
      BY <1>2, EmptyQueue
    <2> HIDE DEF p
    <2>2. m <= Len(q) - 1 /\ \A i \in 1..m : i \in 1..Len(q) - 1
      BY <1>1
    <2> QED BY <2>1, <2>2
  <1>5. m \in Nat /\ \A i \in 1..m : i + 1 \in 1..Len(c)
    BY <1>1
  <1>6. \A i \in 1..m - 1 : i \in 1..m /\ i + 1 \in 1..Len(c) - 1
    BY <1>1
  <1> HIDE DEF b, p, m
  <1>7. ASSUME NEW i \in 1..m
        PROVE  /\ b[i].is = p[i].is /\ (b[i].is # "data" => b[i] = p[i])
               /\ b[i].is = "data" => b[i].n <= p[i].n
    BY <1>3, <1>4, <1>5 DEF Part
  <1>8. \A i \in 1..m - 1 : b[i] = p[i]
    BY <1>3, <1>4, <1>6 DEF Part
  <1>9. Part(b, p)
    BY <1>3, <1>4, <1>7, <1>8 DEF Part
  <1>10. c[1].is # "data" => c[1] = q[1]
    BY <1>1 DEF Part
  <1> QED BY <1>2, <1>9, <1>10 DEF b, p

LEMMA LeaveTalk ==
    ASSUME TypeOK, Joined, Matched, Talk, InStep, ClientLeaves
    PROVE  Talk'
  <1>1. /\ client.pc # "exited" /\ client'.pc = "exited" /\ toClient' = <<>> /\ thread' = thread
        /\ link' \in IF link = "open" THEN {"client_gone", "client_cut"} ELSE {link}
        /\ toServer' \in {toServer} \cup Cuts(toServer)
        /\ client.pc = "prompt" => toServer' = toServer
    BY DEF ClientLeaves, ClientAt, Waits, TypeOK, ClientState
  <1> SUFFICES LeftBehind'
    BY <1>1 DEF Talk, ClientAt
  <1>2. CASE Gone
    BY <1>1, <1>2 DEF LeftBehind, Gone, ServerLeft
  <1>3. CASE ~Gone
    <2>1. link = "open"
      BY <1>1, <1>3 DEF Joined, ClientLeft, ClientAt, Gone, ServerLeft, TypeOK, Links
    <2>2. toServer \in Seq(Ups) /\ toServer' \in Seq(Ups)
          /\ (toServer' = toServer \/ Part(toServer', toServer))
      BY <1>1, Heads, CutShape
    <2>3. toServer = <<>> => toServer' = <<>>
      <3> SUFFICES ASSUME toServer = <<>>, Part(toServer', toServer) PROVE toServer' = <<>>
        BY <2>2
      <3>1. Len(toServer') <= 0
        BY DEF Part
      <3> QED BY <2>2, <3>1, EmptyQueue
    <2>4. LoneRequest(toServer) => toServer' = <<>> \/ LoneRequest(toServer)'
      <3> SUFFICES ASSUME LoneRequest(toServer), Part(toServer', toServer), toServer' # <<>>
                   PROVE  LoneRequest(toServer')
        BY <2>2 DEF LoneRequest
      <3>1. Len(toServer') \in Nat /\ Len(toServer') >= 1 /\ Len(toServer') <= 1
        BY <2>2, EmptyQueue DEF Part, LoneRequest
      <3>2. 1 \in 1..Len(toServer')
        BY <3>1
      <3> QED BY <3>1, <3>2 DEF Part, LoneRequest
    <2>5. ASSUME LonePiece(toServer), toServer' # <<>>
          PROVE  LonePiece(toServer') /\ toServer'[1].n <= toServer[1].n
      <3>0. CASE toServer' = toServer
        BY <2>5, <3>0, LoneTyped DEF LonePiece
      <3>1. CASE Part(toServer', toServer)
        <4>1. Len(toServer') \in Nat /\ Len(toServer') >= 1 /\ Len(toServer') <= 1
          BY <2>2, <2>5, <3>1, EmptyQueue DEF Part, LonePiece
        <4>2. 1 \in 1..Len(toServer')
          BY <4>1
        <4> QED BY <2>5, <3>1, <4>1, <4>2 DEF Part, LonePiece
      <3> QED BY <2>2, <3>0, <3>1
    <2>6. CASE ThreadAt("recv") /\ (toServer = <<>> \/ LoneRequest(toServer))
      BY <1>1, <2>3, <2>4, <2>6 DEF LeftBehind, ThreadAt
    <2>7. CASE thread.pc \in {"listing", "sending"} /\ toServer = <<>>
      BY <1>1, <2>3, <2>7 DEF LeftBehind
    <2>8. CASE /\ ThreadAt("saving") /\ thread.saved + thread.remaining = thread.asked
               /\ \/ toServer = <<>>
                  \/ LonePiece(toServer) /\ toServer[1].n + thread.total <= thread.remaining
      <3>1. CASE toServer' = <<>>
        BY <1>1, <2>8, <3>1 DEF LeftBehind, ThreadAt
      <3>2. CASE toServer' # <<>>
        <4>1. /\ LonePiece(toServer') /\ toServer'[1].n <= toServer[1].n
              /\ LonePiece(toServer) /\ toServer[1].n + thread.total <= thread.remaining
          BY <2>3, <2>5, <2>8, <3>2
        <4>2. toServer[1].n \in Nat
          BY <4>1, LoneTyped
        <4>3. toServer'[1].n \in Nat
          <5>1. toServer'[1] \in Ups /\ toServer'[1].is = "data"
            BY <2>2, <4>1, Lone DEF LonePiece
          <5> QED BY <5>1, DataIsPiece
        <4>4. toServer'[1].n + thread.total <= thread.remaining
          <5>1. thread.total \in Nat /\ thread.remaining \in Nat
            BY DEF TypeOK, ThreadState
          <5>2. \A m, n, t, u \in Nat : m <= n /\ n + t <= u => m + t <= u
            OBVIOUS
          <5> QED BY <4>1, <4>2, <4>3, <5>1, <5>2
        <4> QED BY <1>1, <2>8, <4>1, <4>4 DEF LeftBehind, ThreadAt
      <3> QED BY <3>1, <3>2
    <2>9. CASE client.pc = "prompt"
      BY <1>3, <2>6, <2>9 DEF Talk, ClientAt
    <2>10. CASE client.pc # "prompt" /\ Exchanging
      BY <1>1, <1>3, <2>6, <2>10 DEF Talk, ClientAt, Exchange
    <2>11. CASE client.pc # "prompt" /\ ~Exchanging
      <3>1. Answering
        BY <1>1, <2>11 DEF Talk, ClientAt
      <3>2. CASE client.cmd \in Lists
        BY <1>3, <2>6, <2>7, <3>1, <3>2 DEF Answering, Listing, ThreadAt
      <3>3. CASE client.cmd \in Gets
        <4>1. \A q, need : Downloading(q, need) =>
                 thread.pc \in {"recv", "sending"} /\ toServer = <<>>
          BY <1>3 DEF Downloading, ThreadAt
        <4> QED BY <2>6, <2>7, <3>1, <3>3, <4>1 DEF Answering, ThreadAt
      <3>4. CASE client.cmd = "UPLOAD"
        <4> DEFINE left == IF Opened THEN client.size ELSE client.left
        <4>1. Uploading(Coming, left)
          BY <3>1, <3>4 DEF Answering
        <4>2. left \in Nat /\ client.size \in Nat
          BY DEF TypeOK, ClientState
        <4> HIDE DEF left
        <4>3. thread \in ThreadState
          BY DEF TypeOK
        <4>4. LonePiece(toServer) => toServer[1].n \in Nat
          BY LoneTyped
        <4>5. \/ ThreadAt("recv") /\ toServer = <<>>
              \/ /\ ThreadAt("saving") /\ thread.saved + thread.remaining = thread.asked
                 /\ \/ toServer = <<>>
                    \/ LonePiece(toServer) /\ toServer[1].n + thread.total <= thread.remaining
          BY <1>3, <4>1, <4>2, <4>3, <4>4 DEF Uploading, ThreadState
        <4> QED BY <2>6, <2>8, <4>5
      <3>5. client.cmd \in Lists \/ client.cmd \in Gets \/ client.cmd = "UPLOAD"
        <4>1. client.pc \in ClientPlaces
          BY DEF TypeOK, ClientState
        <4> QED BY <1>1, <2>11, <4>1 DEF Matched, Exchanging, ClientPlaces
      <3> QED BY <3>2, <3>3, <3>4, <3>5
    <2> QED BY <2>9, <2>10, <2>11
  <1> QED BY <1>2, <1>3

\* what has been cut short has the shape it had, the sender being gone
LEMMA PartListing ==
    ASSUME NEW q \in Seq(Downs), NEW c \in Seq(Downs), Part(c, q), Listing(q), Gone',
           UNCHANGED client
    PROVE  Listing(c)'
  <1>1. Len(c) \in Nat /\ Len(q) \in Nat /\ Len(c) <= Len(q)
    BY EmptyQueue DEF Part
  <1>2. \A i \in 1..Len(c) : c[i].is = "line"
    BY <1>1 DEF Part, Listing
  <1>3. \A i \in 1..Len(c) - 1 : c[i].code # Marker[client.cmd]
    BY <1>1 DEF Part, Listing
  <1> QED BY <1>2, <1>3 DEF Listing

LEMMA PartUploading ==
    ASSUME NEW q \in Seq(Downs), NEW c \in Seq(Downs), Part(c, q), NEW left,
           Uploading(q, left), Gone'
    PROVE  c = <<>> \/ (LoneLine(c) /\ left = 0)
  <1>1. Len(c) \in Nat /\ Len(q) \in Nat /\ Len(c) <= Len(q)
    BY EmptyQueue DEF Part
  <1>2. CASE q = <<>>
    BY <1>1, <1>2, EmptyQueue
  <1>3. CASE LoneLine(q) /\ left = 0
    <2>1. Len(c) = 0 \/ Len(c) = 1
      BY <1>1, <1>3 DEF LoneLine
    <2>2. Len(c) = 1 => c[1].is = "line"
      BY <1>3 DEF Part, LoneLine
    <2> QED BY <1>3, <2>1, <2>2, EmptyQueue DEF LoneLine
  <1> QED BY <1>2, <1>3 DEF Uploading

LEMMA PartDownloading ==
    ASSUME NEW q \in Seq(Downs), NEW c \in Seq(Downs), Part(c, q), NEW need \in Int,
           Downloading(q, need)
    PROVE  \/ c = <<>>
           \/ LonePiece(c) /\ c[1].n <= need
           \/ LoneLine(c) /\ need = 0
           \/ Len(c) = 2 /\ c[1].is = "data" /\ c[1].n = need /\ c[2].is = "line"
  <1>1. Len(c) \in Nat /\ Len(q) \in Nat /\ Len(c) <= Len(q)
    BY EmptyQueue DEF Part
  <1>2. CASE Len(c) = 0
    BY <1>2, EmptyQueue
  <1>3. CASE Len(c) >= 1
    <2>1. 1 \in 1..Len(c) /\ c[1].is = q[1].is
      BY <1>1, <1>3 DEF Part
    <2>2. c # <<>> /\ q # <<>>
      BY <1>1, <1>3, EmptyQueue
    <2>3. c[1] \in Downs /\ q[1] \in Downs
      BY <2>2, Read1Typed
    <2>4. c[1].is = "data" => c[1].n \in Nat /\ q[1].n \in Nat /\ c[1].n <= q[1].n
      BY <2>1, <2>3, DataIsPiece DEF Part
    <2>5. CASE LonePiece(q) /\ q[1].n <= need
      BY <1>1, <1>3, <2>1, <2>4, <2>5 DEF LonePiece
    <2>6. CASE LoneLine(q) /\ need = 0
      BY <1>1, <1>3, <2>1, <2>6 DEF LoneLine
    <2>7. CASE Len(q) = 2 /\ q[1].is = "data" /\ q[1].n = need /\ q[2].is = "line"
      <3>1. CASE Len(c) = 1
        BY <2>1, <2>4, <2>7, <3>1 DEF LonePiece
      <3>2. CASE Len(c) = 2
        <4>1. c[1] = q[1]
          <5>1. Len(c) - 1 = 1 /\ 1 \in 1..1
            BY <3>2
          <5> QED BY <5>1 DEF Part
        <4>2. c[2].is = q[2].is
          BY <3>2 DEF Part
        <4> QED BY <2>7, <3>2, <4>1, <4>2
      <3>3. Len(c) = 1 \/ Len(c) = 2
        <4>1. \A n \in Nat : n >= 1 /\ n <= 2 => n = 1 \/ n = 2
          OBVIOUS
        <4>2. Len(c) \in Nat /\ Len(c) >= 1 /\ Len(c) <= 2
          BY <1>1, <1>3, <2>7
        <4> QED BY <4>1, <4>2
      <3> QED BY <3>1, <3>2, <3>3
    <2> QED BY <2>2, <2>5, <2>6, <2>7 DEF Downloading
  <1> QED BY <1>1, <1>2, <1>3

LEMMA DiesTalk ==
    ASSUME TypeOK, Joined, Talk, InStep, ServerDies
    PROVE  Talk'
  <1>1. /\ client' = client /\ toServer' = <<>> /\ toClient' \in Cuts(toClient)
        /\ thread'.pc = "gone"
        /\ link' \in IF link = "open" THEN {"server_gone", "server_cut"} ELSE {link}
    BY DEF ServerDies, InitThread
  <1>2. /\ toClient \in Seq(Downs) /\ toClient' \in Seq(Downs) /\ Part(toClient', toClient)
        /\ Len(toClient') \in Nat /\ Len(toClient) \in Nat /\ Len(toClient') <= Len(toClient)
    BY <1>1, Heads, CutShape, EmptyQueue DEF Part
  <1>3. toClient = <<>> => toClient' = <<>>
    BY <1>2, EmptyQueue
  <1>4. CASE client.pc = "exited"
    BY <1>1, <1>3, <1>4 DEF Talk, ClientAt, LeftBehind
  <1>5. CASE client.pc # "exited"
    <2>1. Gone'
      BY <1>1, <1>5 DEF Joined, ClientLeft, ClientAt, Gone, ServerLeft, TypeOK, Links
    <2>2. LoneLine(toClient) => toClient' = <<>> \/ (LoneLine(toClient)' /\ toClient'[1] = toClient[1])
      <3> SUFFICES ASSUME LoneLine(toClient), toClient' # <<>>
                   PROVE  LoneLine(toClient') /\ toClient'[1] = toClient[1]
        BY DEF LoneLine
      <3>1. Len(toClient') >= 1 /\ Len(toClient') <= 1
        BY <1>2, EmptyQueue DEF LoneLine
      <3>2. 1 \in 1..Len(toClient')
        BY <1>2, <3>1
      <3> QED BY <1>2, <3>1, <3>2 DEF Part, LoneLine
    <2>3. toClient' = <<>> => ~Opened'
      BY <1>2, EmptyQueue DEF Opened
    <2>4. toClient' # <<>> /\ Opened =>
             /\ Opened' /\ toClient'[1] = toClient[1] /\ Tail(toClient') \in Seq(Downs)
             /\ Tail(toClient) \in Seq(Downs) /\ Part(Tail(toClient'), Tail(toClient))
      <3> SUFFICES ASSUME toClient' # <<>>, Opened
                   PROVE  /\ Opened' /\ toClient'[1] = toClient[1] /\ Tail(toClient') \in Seq(Downs)
                          /\ Tail(toClient) \in Seq(Downs)
                          /\ Part(Tail(toClient'), Tail(toClient))
        OBVIOUS
      <3>1. Len(toClient') >= 1 /\ toClient # <<>> /\ toClient[1].is = "line"
        BY <1>2, EmptyQueue, TailPart DEF Opened
      <3>2. toClient'[1].is = toClient[1].is
        BY <1>2, <3>1 DEF Part
      <3>3. toClient'[1] = toClient[1]
        BY <1>2, <3>1, <3>2, TailPart
      <3> QED BY <1>1, <1>2, <3>1, <3>3, TailPart, EmptyQueue DEF Opened
    <2>5. CASE client.pc = "prompt"
      BY <1>1, <1>3, <2>1, <2>5 DEF Talk, ClientAt
    <2>6. CASE client.pc # "prompt" /\ Exchanging
      <3>1. Exchange
        BY <1>5, <2>6 DEF Talk, ClientAt
      <3>2. toClient' = <<>> \/ (LoneLine(toClient)' /\ toClient'[1] = toClient[1] /\ LoneLine(toClient))
        BY <1>3, <2>2, <3>1 DEF Exchange
      <3>3. Opened' => Opened
        BY <1>1, <2>3, <3>2 DEF Opened, LoneLine
      <3>4. Exchanging'
        BY <1>1, <2>6, <3>3 DEF Exchanging
      <3>5. Exchange'
        BY <2>1, <3>2 DEF Exchange
      <3> QED BY <1>1, <1>5, <2>6, <3>4, <3>5 DEF Talk, ClientAt
    <2>7. CASE client.pc # "prompt" /\ ~Exchanging
      <3>1. Answering
        BY <1>5, <2>7 DEF Talk, ClientAt
      <3>2. CASE Opened /\ toClient' = <<>>
        <4>1. Exchanging' /\ Exchange'
          BY <1>1, <2>1, <2>3, <3>2 DEF Exchanging, Exchange, Opened
        <4> QED BY <1>1, <1>5, <2>7, <4>1 DEF Talk, ClientAt
      <3>3. CASE ~(Opened /\ toClient' = <<>>)
        <4>1. Opened' <=> Opened
          BY <1>1, <2>4, <2>7, <3>3 DEF Opened, Exchanging
        <4>2. ~Exchanging'
          BY <1>1, <2>7, <4>1 DEF Exchanging
        <4>3. Coming' \in Seq(Downs) /\ Coming \in Seq(Downs) /\ Part(Coming', Coming)
          BY <1>2, <2>4, <3>3, <4>1 DEF Coming
        <4>4. Opened => toClient'[1].n = toClient[1].n
          BY <2>4, <3>3
        <4>5. PICK c \in Seq(Downs) : c = Coming'
          BY <4>3
        <4>6. Part(c, Coming)
          BY <4>3, <4>5
        <4>7. client.cmd \in Lists => Listing(Coming)'
          <5> SUFFICES ASSUME client.cmd \in Lists PROVE Listing(Coming)'
            OBVIOUS
          <5>1. Listing(c)'
            BY <1>1, <2>1, <3>1, <4>3, <4>6, PartListing DEF Answering
          <5> QED BY <4>5, <5>1 DEF Listing
        <4>8. client.cmd = "UPLOAD" => Uploading(Coming, IF Opened THEN client.size ELSE client.left)'
          <5> SUFFICES ASSUME client.cmd = "UPLOAD"
                       PROVE  Uploading(Coming, IF Opened THEN client.size ELSE client.left)'
            OBVIOUS
          <5> DEFINE left == IF Opened THEN client.size ELSE client.left
          <5>1. left' = left /\ Uploading(Coming, left)
            BY <1>1, <3>1, <4>1 DEF Answering
          <5> HIDE DEF left
          <5>2. c = <<>> \/ (LoneLine(c) /\ left = 0)
            BY <2>1, <4>3, <4>6, <5>1, PartUploading
          <5> SUFFICES Uploading(Coming, left)'
            BY DEF left
          <5> QED BY <2>1, <4>5, <5>1, <5>2 DEF Uploading, LoneLine
        <4>9. client.cmd \in Gets =>
                 Downloading(Coming, IF Opened THEN toClient[1].n
                                     ELSE client.size - (client.got + client.total))'
          <5> SUFFICES ASSUME client.cmd \in Gets
                       PROVE  Downloading(Coming, IF Opened THEN toClient[1].n
                                             ELSE client.size - (client.got + client.total))'
            OBVIOUS
          <5> DEFINE need == IF Opened THEN toClient[1].n
                             ELSE client.size - (client.got + client.total)
          <5>1. need' = need /\ Downloading(Coming, need)
            BY <1>1, <3>1, <4>1, <4>4 DEF Answering
          <5>0. need \in Int
            <6>1. CASE Opened
              <7>1. toClient # <<>> /\ toClient[1].is = "line"
                BY <1>2, <6>1, EmptyQueue DEF Opened
              <7>2. toClient[1] \in Lines
                BY <1>2, <7>1, Read1Typed, DataIsPiece
              <7> QED BY <6>1, <7>2 DEF Lines
            <6>2. CASE ~Opened
              BY <6>2 DEF TypeOK, ClientState
            <6> QED BY <6>1, <6>2
          <5> HIDE DEF need
          <5>2. \/ c = <<>>
                \/ LonePiece(c) /\ c[1].n <= need
                \/ LoneLine(c) /\ need = 0
                \/ Len(c) = 2 /\ c[1].is = "data" /\ c[1].n = need /\ c[2].is = "line"
            BY <4>3, <4>6, <5>0, <5>1, PartDownloading
          <5> SUFFICES Downloading(Coming, need)'
            BY DEF need
          <5>3. need' = need
            BY <5>1
          <5>4. CASE c = <<>> \/ (LoneLine(c) /\ need = 0)
            BY <2>1, <4>5, <5>3, <5>4 DEF Downloading, LoneLine
          <5>5. CASE LonePiece(c) /\ c[1].n <= need
            <6>1. LonePiece(Coming)' /\ Coming'[1].n <= need'
              BY <4>5, <5>3, <5>5 DEF LonePiece
            <6> QED BY <2>1, <6>1 DEF Downloading
          <5>6. CASE Len(c) = 2 /\ c[1].is = "data" /\ c[1].n = need /\ c[2].is = "line"
            <6>1. /\ Len(Coming') = 2 /\ Coming'[1].is = "data" /\ Coming'[1].n = need'
                  /\ Coming'[2].is = "line"
              BY <4>5, <5>3, <5>6
            <6> QED BY <2>1, <6>1 DEF Downloading
          <5> QED BY <5>2, <5>4, <5>5, <5>6
        <4>10. Answering'
          BY <1>1, <4>7, <4>8, <4>9 DEF Answering
        <4> QED BY <1>1, <1>5, <2>7, <4>2, <4>10 DEF Talk, ClientAt
      <3> QED BY <3>2, <3>3
    <2> QED BY <2>5, <2>6, <2>7
  <1> QED BY <1>4, <1>5

-----------------------------------------------------------------------------
(* The thread's steps.                                                     *)

LEMMA NothingSent ==
    ASSUME ThreadProceeds, link # "open"
    PROVE  toClient' = toClient
  BY DEF ThreadProceeds, Handles, HandlePlain, HandleRefused, HandleLogin, HandleLogout, HandlePwd,
         HandleCdUp, HandleCdDown, HandleOpenShared, HandleExitShared, BeginList, ListEntry,
         ListEnd, ListFails, BeginUpload, SaveRefused, SaveSome, SaveEnded, SaveDone,
         BeginDownload, DownloadDeleted, DownloadSilent, SendRefused, SendSome, SendDone,
         ThreadEnds, Says, Replies, Send

LEMMA CodesSent ==
    /\ \A code : Line(code).is = "line" /\ Line(code).code = code
    /\ \A p : [Line("200") EXCEPT !.path = p].is = "line" /\ [Line("200") EXCEPT !.path = p].code = "200"
    /\ \A n : /\ [Line("50") EXCEPT !.n = n].is = "line" /\ [Line("50") EXCEPT !.n = n].code = "50"
              /\ [Line("50") EXCEPT !.n = n].n = n
  BY DEF Line

\* a handler takes its request, and answers it or begins to
LEMMA HandlesShape ==
    ASSUME TypeOK, Handles, InStep'
    PROVE  /\ ThreadAt("recv") /\ toServer # <<>> /\ toServer' = Tail(toServer)
           /\ toServer[1] \in Requests
           /\ \/ /\ thread' = InitThread
                 /\ \E r \in Lines : Send(r) /\ r.is = "line" /\ r.code \in {"200", "error"}
              \/ /\ toServer[1].word \in Lists
                 /\ thread'.pc = "listing" /\ thread'.word = toServer[1].word
                 /\ Send(Line("begin"))
              \/ /\ toServer[1].word = "UPLOAD"
                 /\ thread'.pc = "saving" /\ thread'.asked = toServer[1].n
                 /\ thread'.remaining = thread'.asked /\ thread'.saved = 0 /\ thread'.total = 0
                 /\ Send(Line("150"))
              \/ /\ toServer[1].word \in Gets /\ thread'.pc = "sending"
                 /\ \E n \in Nat : /\ thread'.remaining = n
                                   /\ Send([Line("50") EXCEPT !.n = n])
  <1>1. ASSUME NEW words, Takes(words)
        PROVE  /\ ThreadAt("recv") /\ toServer # <<>> /\ toServer' = Tail(toServer)
               /\ Asked = toServer[1] /\ toServer[1] \in Requests /\ toServer[1].word \in words
    <2>1. toServer # <<>> /\ toServer \in Seq(Ups)
      BY <1>1, Heads DEF Takes
    <2> QED BY <1>1, <2>1, Read1Typed, TakesTyped DEF Takes, Asked
  <1>2. ASSUME NEW code \in {"200", "error"}, Says(code)
        PROVE  /\ thread' = InitThread
               /\ \E r \in Lines : Send(r) /\ r.is = "line" /\ r.code \in {"200", "error"}
    <2>1. Line(code) \in Lines
      BY LineTyped DEF Codes
    <2> QED BY <1>2, <2>1, CodesSent DEF Says, Replies
  <1>3. CASE HandlePlain \/ HandleRefused \/ HandleLogin \/ HandleLogout
    BY <1>1, <1>2, <1>3 DEF HandlePlain, HandleRefused, HandleLogin, HandleLogout
  <1>4. CASE HandlePwd
    <2>1. session.cwd \in Paths
      BY DEF TypeOK, SessionState
    <2>2. [Line("200") EXCEPT !.path = session.cwd] \in Lines
      BY <2>1, LineTyped DEF Codes
    <2>3. thread' = InitThread /\ Send([Line("200") EXCEPT !.path = session.cwd])
      BY <1>4 DEF HandlePwd, Replies
    <2>4. Takes({"PWD"})
      BY <1>4 DEF HandlePwd
    <2> DEFINE told == [Line("200") EXCEPT !.path = session.cwd]
    <2>5. told \in Lines /\ Send(told) /\ told.is = "line" /\ told.code = "200"
      BY <2>2, <2>3, CodesSent
    <2> HIDE DEF told
    <2>6. \E r \in Lines : Send(r) /\ r.is = "line" /\ r.code \in {"200", "error"}
      BY <2>5
    <2> QED BY <1>1, <2>3, <2>4, <2>6
  <1>5. CASE HandleCdUp \/ HandleCdDown \/ HandleOpenShared \/ HandleExitShared \/ DownloadDeleted
    BY <1>1, <1>2, <1>5 DEF HandleCdUp, HandleCdDown, HandleOpenShared, HandleExitShared,
          DownloadDeleted
  <1>6. CASE BeginList
    <2>1. Takes(Lists) /\ Send(Line("begin")) /\ thread'.pc = "listing" /\ thread'.word = Asked.word
      BY <1>6 DEF BeginList, InitThread
    <2> QED BY <1>1, <2>1
  <1>7. CASE BeginUpload
    <2>1. /\ Takes({"UPLOAD"}) /\ Send(Line("150")) /\ thread'.pc = "saving"
          /\ thread'.asked = Asked.n /\ thread'.remaining = FileSize(Asked.n)
          /\ thread'.saved = 0 /\ thread'.total = 0
      BY <1>7 DEF BeginUpload, InitThread
    <2>2. FileSize(Asked.n) = Asked.n
      BY <1>7 DEF BeginUpload, InStep, Derailed
    <2> QED BY <1>1, <2>1, <2>2
  <1>8. CASE BeginDownload
    <2>1. Takes(Gets) /\ thread'.pc = "sending"
      BY <1>8 DEF BeginDownload, InitThread
    <2>2. \E n \in Nat : thread'.remaining = n /\ Send([Line("50") EXCEPT !.n = n])
      BY <1>8, SizesAssumption DEF BeginDownload, InitThread
    <2> QED BY <1>1, <2>1, <2>2
  <1>9. CASE DownloadSilent
    BY <1>9 DEF DownloadSilent, Derailed, InStep
  <1> QED BY <1>3, <1>4, <1>5, <1>6, <1>7, <1>8, <1>9 DEF Handles

\* a part of the piece on the wire is written to the blob
LEMMA SavedShape ==
    ASSUME TypeOK, Working, SaveSome, LonePiece(toServer)
    PROVE  /\ thread'.pc = "saving" /\ thread'.asked = thread.asked
           /\ thread'.saved + thread'.remaining = thread.saved + thread.remaining
           /\ \E k \in Nat :
                 /\ thread'.saved + thread'.total = thread.saved + thread.total + k
                 /\ \/ toServer' = <<>> /\ k = toServer[1].n
                    \/ LonePiece(toServer') /\ toServer'[1].n + k = toServer[1].n
  <1> DEFINE chunk == Least(thread.remaining, ServerBuf)
  <1>1. thread \in ThreadState /\ thread.remaining > 0 /\ thread.pc = "saving"
    BY DEF TypeOK, SaveSome, ThreadAt
  <1>2. toServer # <<>> /\ toServer \in Seq(Ups) /\ toServer[1].n \in Nat /\ Asked = toServer[1]
        /\ Len(toServer) = 1 /\ toServer[1].is = "data" /\ Tail(toServer) = <<>>
    BY Heads, LoneTyped, Read1Typed, Lone DEF Asked, LonePiece
  <1>3. chunk \in Nat /\ chunk <= thread.remaining
    BY <1>1, SizesAssumption, LeastTyped DEF ThreadState
  <1> HIDE DEF chunk
  <1>4. PICK k \in 1..Least(chunk - thread.total, Asked.n) :
           /\ toServer' = Read(toServer, k)
           /\ thread' = IF thread.total + k < chunk
                        THEN [thread EXCEPT !.total = @ + k]
                        ELSE [thread EXCEPT !.remaining = @ - chunk, !.saved = @ + chunk,
                                            !.total = 0]
    BY DEF SaveSome, chunk
  <1>5. k \in Nat /\ k >= 1 /\ k <= toServer[1].n /\ thread.total + k <= chunk
    BY <1>1, <1>2, <1>3 DEF Least, ThreadState
  <1>6. /\ thread'.pc = "saving" /\ thread'.asked = thread.asked
        /\ thread'.saved + thread'.remaining = thread.saved + thread.remaining
        /\ thread'.saved + thread'.total = thread.saved + thread.total + k
    <2>1. CASE thread.total + k < chunk
      BY <1>1, <1>3, <1>4, <1>5, <2>1 DEF ThreadState
    <2>2. CASE ~(thread.total + k < chunk)
      <3>1. thread.total + k = chunk
        BY <1>1, <1>3, <1>5, <2>2 DEF ThreadState
      <3> QED BY <1>1, <1>3, <1>4, <1>5, <2>2, <3>1 DEF ThreadState
    <2> QED BY <2>1, <2>2
  <1>7. CASE k = toServer[1].n
    <2>1. toServer' = <<>>
      BY <1>2, <1>4, <1>7 DEF Read
    <2> QED BY <1>5, <1>6, <1>7, <2>1
  <1>8. CASE k # toServer[1].n
    <2>1. k < toServer[1].n /\ k \in 1..toServer[1].n
      BY <1>2, <1>5, <1>8
    <2>2. LonePiece(toServer') /\ toServer'[1].n = toServer[1].n - k
      BY <1>2, <1>4, <2>1, ReadPiece DEF LonePiece
    <2>3. toServer'[1].n + k = toServer[1].n
      BY <1>2, <1>5, <2>2
    <2> QED BY <1>5, <1>6, <2>2, <2>3
  <1> QED BY <1>7, <1>8

\* the client has left: the thread reads what is left, and ends
LEMMA AfterTalk ==
    ASSUME TypeOK, Working, Joined, Talk, InStep, InStep', ThreadProceeds, client.pc = "exited"
    PROVE  Talk'
  <1>1. client' = client /\ link' = link
    BY ThreadSteps
  <1>2. LeftBehind /\ link # "open" /\ toClient' = <<>> /\ toClient = <<>>
    BY NothingSent DEF Talk, ClientAt, Joined, LeftBehind
  <1> SUFFICES LeftBehind'
    BY <1>1 DEF Talk, ClientAt
  <1>3. CASE Gone
    BY <1>1, <1>2, <1>3 DEF LeftBehind, Gone, ServerLeft
  <1> DEFINE Kept ==
        /\ thread.saved + thread.remaining = thread.asked
        /\ toServer = <<>> \/ (LonePiece(toServer) /\ toServer[1].n + thread.total <= thread.remaining)
      Cut == link = "client_cut" /\ toServer = <<>> /\ thread.remaining > 0
  <1>4. /\ ThreadAt("saving") /\ ~Gone => Kept \/ Cut
        /\ ThreadAt("recv") /\ ~Gone => toServer = <<>> \/ LoneRequest(toServer)
        /\ thread.pc \in {"listing", "sending"} /\ ~Gone => toServer = <<>>
    BY <1>2 DEF LeftBehind, ThreadAt
  <1>5. /\ thread \in ThreadState /\ thread.asked \in Nat /\ thread.saved \in Nat
        /\ thread.remaining \in Nat /\ thread.total \in Nat
        /\ LonePiece(toServer) => toServer[1].n \in Nat /\ toServer[1].n > 0
    <2>1. LonePiece(toServer) => toServer[1].n \in Nat /\ toServer[1].n > 0
      BY Heads, Lone, DataIsPiece DEF LonePiece
    <2> QED BY <2>1 DEF TypeOK, ThreadState
  <1>6. thread' = InitThread /\ toServer' = <<>> => LeftBehind'
    BY <1>2 DEF LeftBehind, InitThread, ThreadAt
  <1>7. Kept /\ thread.remaining = 0 => toServer = <<>>
    BY <1>5
  <1>8. Kept /\ thread.asked = 0 => toServer = <<>>
    BY <1>5
  <1>9. CASE ~Gone /\ Handles
    <2>1. toServer' = <<>>
      <3>1. LoneRequest(toServer) /\ toServer' = Tail(toServer)
        BY <1>4, <1>9, HandlesShape
      <3> QED BY <3>1, Heads, Lone DEF LoneRequest
    <2>2. \/ thread' = InitThread \/ thread'.pc \in {"listing", "sending"}
          \/ /\ thread'.pc = "saving" /\ thread'.saved = 0 /\ thread'.remaining = thread'.asked
             /\ thread'.asked = toServer[1].n /\ toServer[1] \in Requests
      BY <1>9, HandlesShape
    <2>3. CASE thread' = InitThread
      BY <1>6, <2>1, <2>3
    <2>4. CASE thread'.pc \in {"listing", "sending"}
      BY <1>2, <2>1, <2>4 DEF LeftBehind
    <2>5. CASE /\ thread'.pc = "saving" /\ thread'.saved = 0 /\ thread'.remaining = thread'.asked
               /\ thread'.asked = toServer[1].n /\ toServer[1] \in Requests
      <3>1. thread'.asked \in Nat
        BY <2>5 DEF Requests
      <3>2. thread'.saved + thread'.remaining = thread'.asked
        BY <2>5, <3>1
      <3> QED BY <1>2, <2>1, <2>5, <3>2 DEF LeftBehind, ThreadAt
    <2> QED BY <2>2, <2>3, <2>4, <2>5
  <1>10. CASE ~Gone /\ (ListEntry \/ ListEnd \/ ListFails)
    <2>1. ThreadAt("listing") /\ toServer' = toServer /\ toServer = <<>>
      BY <1>4, <1>10 DEF ListEntry, ListEnd, ListFails, ThreadAt
    <2>2. thread' = InitThread \/ thread'.pc = "listing"
      BY <1>5, <1>10, <2>1 DEF ListEntry, ListEnd, ListFails, Says, Replies, ThreadState, ThreadAt
    <2> QED BY <1>2, <1>6, <2>1, <2>2 DEF LeftBehind
  <1>11. CASE ~Gone /\ (SendRefused \/ SendSome \/ SendDone)
    <2>1. ThreadAt("sending") /\ toServer' = toServer /\ toServer = <<>>
      BY <1>4, <1>11 DEF SendRefused, SendSome, SendDone, ThreadAt
    <2>2. thread' = InitThread \/ thread'.pc = "sending"
      BY <1>5, <1>11, <2>1 DEF SendRefused, SendSome, SendDone, Says, Replies, ThreadState, ThreadAt
    <2> QED BY <1>2, <1>6, <2>1, <2>2 DEF LeftBehind
  <1>12. CASE ~Gone /\ SaveRefused
    <2>1. ThreadAt("saving") /\ toServer' = toServer /\ thread' = InitThread /\ thread.asked = 0
      BY <1>12 DEF SaveRefused, Says, Replies, InStep, Derailed
    <2> QED BY <1>4, <1>6, <1>8, <1>12, <2>1
  <1>13. CASE ~Gone /\ SaveDone
    <2>1. ThreadAt("saving") /\ toServer' = toServer /\ thread' = InitThread /\ thread.remaining = 0
      BY <1>13 DEF SaveDone, Says, Replies
    <2> QED BY <1>4, <1>6, <1>7, <1>13, <2>1
  <1>14. CASE ~Gone /\ SaveSome
    <2>1. ThreadAt("saving") /\ toServer # <<>>
      BY <1>14 DEF SaveSome
    <2>2. Kept /\ LonePiece(toServer)
      BY <1>4, <1>14, <2>1
    <2>3. thread' \in ThreadState
      BY ThreadTyped DEF TypeOK
    <2>4. PICK k \in Nat :
             /\ thread'.pc = "saving" /\ thread'.asked = thread.asked
             /\ thread'.saved + thread'.remaining = thread.saved + thread.remaining
             /\ thread'.saved + thread'.total = thread.saved + thread.total + k
             /\ \/ toServer' = <<>> /\ k = toServer[1].n
                \/ LonePiece(toServer') /\ toServer'[1].n + k = toServer[1].n
      BY <1>14, <2>2, SavedShape
    <2>5. CASE toServer' = <<>>
      BY <1>2, <2>2, <2>4, <2>5 DEF LeftBehind, ThreadAt
    <2>6. CASE LonePiece(toServer') /\ toServer'[1].n + k = toServer[1].n
      <3>1. toServer'[1].n \in Nat
        <4>1. toServer' \in Seq(Ups)
          BY ThreadTyped DEF TypeOK, Ups
        <4> QED BY <2>6, <4>1, Lone, DataIsPiece DEF LonePiece
      <3>3. /\ thread'.saved \in Nat /\ thread'.remaining \in Nat /\ thread'.total \in Nat
        BY <2>3 DEF ThreadState
      <3>4. toServer'[1].n + thread'.total <= thread'.remaining
        <4> DEFINE p == toServer'[1].n
                   n == toServer[1].n
        <4>1. p \in Nat /\ n \in Nat /\ p + k = n /\ n + thread.total <= thread.remaining
          BY <1>5, <2>1, <2>2, <2>6, <3>1
        <4> HIDE DEF p, n
        <4>2. /\ thread'.saved + thread'.remaining = thread.saved + thread.remaining
              /\ thread'.saved + thread'.total = thread.saved + thread.total + k
          BY <2>4
        <4> HIDE DEF Kept
        <4>3. p + thread'.total <= thread'.remaining
          BY <1>5, <3>3, <4>1, <4>2
        <4> QED BY <4>3 DEF p
      <3> QED BY <1>2, <2>2, <2>4, <2>6, <3>4 DEF LeftBehind, ThreadAt
    <2> QED BY <2>4, <2>5, <2>6
  <1>15. CASE ~Gone /\ SaveEnded
    <2>1. /\ ThreadAt("saving") /\ toServer = <<>> /\ toServer' = <<>> /\ thread.remaining > 0
      BY <1>15 DEF SaveEnded
    <2>2. CASE thread' = InitThread
      BY <1>6, <2>1, <2>2
    <2>3. CASE /\ link = "client_cut"
               /\ thread' = [thread EXCEPT !.remaining = Least(@ + 1, SizeMod - 1), !.total = 0]
      <3>1. thread'.pc = "saving" /\ thread'.remaining = Least(thread.remaining + 1, SizeMod - 1)
        BY <1>5, <2>1, <2>3 DEF ThreadState, ThreadAt
      <3>2. thread'.remaining > 0
        BY <1>5, <3>1, SizesAssumption DEF Least
      <3> QED BY <1>1, <1>2, <2>1, <2>3, <3>1, <3>2 DEF LeftBehind, ThreadAt
    <2>4. CASE /\ link = "client_gone"
               /\ thread' = [thread EXCEPT !.remaining = @ - thread.total,
                                           !.saved = @ + thread.total, !.total = 0]
      <3>1. Kept
        BY <1>4, <1>15, <2>1, <2>4
      <3>2. /\ thread'.pc = "saving" /\ thread'.asked = thread.asked
            /\ thread'.saved + thread'.remaining = thread.saved + thread.remaining
        BY <1>5, <2>1, <2>4 DEF ThreadState, ThreadAt
      <3> QED BY <1>2, <2>1, <3>1, <3>2 DEF LeftBehind, ThreadAt
    <2> QED BY <1>15, <2>2, <2>3, <2>4 DEF SaveEnded, Says, Replies
  <1>16. CASE ~Gone /\ ThreadEnds
    <2>1. toServer = <<>> /\ toServer' = toServer /\ thread'.pc = "gone"
      BY <1>5, <1>16 DEF ThreadEnds, ThreadState
    <2> QED BY <1>2, <2>1 DEF LeftBehind
  <1> QED BY <1>3, <1>9, <1>10, <1>11, <1>12, <1>13, <1>14, <1>15, <1>16 DEF ThreadProceeds

\* the client has not left: the connection is open, the thread in its place
LEMMA OpenStill ==
    ASSUME TypeOK, Joined, ThreadProceeds, client.pc # "exited"
    PROVE  /\ link = "open" /\ ~Gone /\ thread.pc # "gone" /\ UNCHANGED <<client, link>>
           /\ ~ClientLeft
  <1>1. thread.pc # "gone"
    BY DEF ThreadProceeds, Handles, HandlePlain, HandleRefused, HandleLogin, HandleLogout,
         HandlePwd, HandleCdUp, HandleCdDown, HandleOpenShared, HandleExitShared, BeginList,
         ListEntry, ListEnd, ListFails, BeginUpload, SaveRefused, SaveSome, SaveEnded, SaveDone,
         BeginDownload, DownloadDeleted, DownloadSilent, SendRefused, SendSome, SendDone,
         ThreadEnds, Takes, ThreadAt
  <1>2. ~Gone /\ ~ClientLeft
    BY <1>1 DEF Joined, ThreadAt, ClientAt, Gone
  <1>3. link = "open"
    BY <1>2 DEF Gone, ServerLeft, ClientLeft, TypeOK, Links
  <1> QED BY <1>1, <1>2, <1>3, ThreadSteps

\* the thread is idle, or answers a command of its kind
LEMMA WhatAnswers ==
    ASSUME TypeOK, Matched, Talk, InStep, ~Gone, client.pc # "exited",
           thread.pc # "recv" \/ toServer # <<>>
    PROVE  \/ /\ client.pc # "prompt" /\ Exchanging /\ ThreadAt("recv")
              /\ toClient = <<>> /\ LoneRequest(toServer)
              /\ toServer[1].word = IF client.pc = "pwd" THEN "PWD" ELSE client.cmd
              /\ client.pc = "ready" => toServer[1].n = client.size
           \/ /\ client.pc # "prompt" /\ ~Exchanging /\ Answering
              /\ \/ client.cmd \in Lists /\ ThreadAt("listing")
                 \/ client.cmd = "UPLOAD" /\ ThreadAt("saving")
                 \/ client.cmd \in Gets /\ ThreadAt("sending")
  <1>1. CASE client.pc = "prompt"
    BY <1>1 DEF Talk, ClientAt, ThreadAt
  <1>2. CASE client.pc # "prompt" /\ Exchanging
    BY <1>2 DEF Talk, ClientAt, ThreadAt, Exchange
  <1>3. CASE client.pc # "prompt" /\ ~Exchanging
    <2>1. Answering
      BY <1>3 DEF Talk, ClientAt
    <2>2. client.cmd \in Lists \/ client.cmd \in Gets \/ client.cmd = "UPLOAD"
      <3>1. client.pc \in ClientPlaces
        BY DEF TypeOK, ClientState
      <3> QED BY <1>3, <3>1 DEF Matched, Exchanging, ClientPlaces
    <2>3. CASE client.cmd \in Lists
      BY <1>3, <2>1, <2>3 DEF Answering, Listing, ThreadAt
    <2>4. CASE client.cmd = "UPLOAD"
      BY <1>3, <2>1, <2>4 DEF Answering, Uploading, ThreadAt
    <2>5. CASE client.cmd \in Gets
      BY <1>3, <2>1, <2>5 DEF Answering, Downloading, ThreadAt
    <2> QED BY <2>2, <2>3, <2>4, <2>5
  <1> QED BY <1>1, <1>2, <1>3

LEMMA HandleTalk ==
    ASSUME TypeOK, Matched, Joined, Talk, InStep, InStep', Handles, client.pc # "exited"
    PROVE  Talk'
  <1>1. link = "open" /\ ~Gone /\ client' = client
    BY OpenStill DEF ThreadProceeds
  <1>2. ThreadAt("recv") /\ toServer # <<>> /\ toServer' = Tail(toServer)
    BY HandlesShape
  <1>3. /\ client.pc # "prompt" /\ Exchanging /\ toClient = <<>> /\ LoneRequest(toServer)
        /\ toServer[1].word = IF client.pc = "pwd" THEN "PWD" ELSE client.cmd
        /\ client.pc = "ready" => toServer[1].n = client.size
    BY <1>1, <1>2, WhatAnswers DEF ThreadAt
  <1>4. toServer' = <<>>
    BY <1>2, <1>3, Heads, Lone DEF LoneRequest
  <1>5. ASSUME NEW r, Send(r)
        PROVE  Len(toClient') = 1 /\ toClient'[1] = r
    BY <1>1, <1>3, <1>5, PutFirst DEF Send
  <1>6. ASSUME NEW r, Send(r), r \in Downs
        PROVE  Tail(toClient') = <<>>
    <2>1. toClient' \in Seq(Downs)
      BY <1>1, <1>3, <1>6, SendTyped, Heads
    <2> QED BY <1>5, <1>6, <2>1, Lone
  <1>7. CASE /\ thread' = InitThread
             /\ \E r \in Lines : Send(r) /\ r.is = "line" /\ r.code \in {"200", "error"}
    <2>1. LoneLine(toClient)' /\ toClient'[1].code \in {"200", "error"}
      BY <1>5, <1>7 DEF LoneLine
    <2>2. ~Opened'
      BY <1>1, <2>1 DEF Opened, Opener
    <2>3. Exchanging'
      BY <1>1, <1>3, <2>2 DEF Exchanging
    <2>4. Exchange'
      BY <1>4, <1>7, <2>1 DEF Exchange, ThreadAt, InitThread
    <2> QED BY <1>1, <1>3, <2>3, <2>4 DEF Talk, ClientAt
  <1>8. CASE /\ toServer[1].word \in Lists /\ thread'.pc = "listing"
             /\ thread'.word = toServer[1].word /\ Send(Line("begin"))
    <2>1. client.pc = "first" /\ client.cmd = toServer[1].word
      <3>1. client.pc # "pwd" /\ client.cmd = toServer[1].word
        BY <1>3, <1>8, Kinds
      <3> QED BY <1>3, <1>8, <3>1, Kinds DEF Exchanging, Matched
    <2>2. Opened'
      BY <1>1, <1>5, <1>8, <2>1, CodesSent DEF Opened, Opener
    <2>3. Coming' = <<>>
      BY <1>6, <1>8, <2>2, LineTyped DEF Coming, Downs, Codes
    <2>4. Listing(Coming)'
      BY <1>1, <1>4, <1>8, <2>1, <2>3 DEF Listing, ThreadAt
    <2>5. Answering' /\ ~Exchanging'
      BY <1>1, <1>8, <2>1, <2>2, <2>4, Kinds DEF Answering, Exchanging
    <2> QED BY <1>1, <1>3, <2>1, <2>5 DEF Talk, ClientAt
  <1>9. CASE /\ toServer[1].word = "UPLOAD"
             /\ thread'.pc = "saving" /\ thread'.asked = toServer[1].n
             /\ thread'.remaining = thread'.asked /\ thread'.saved = 0 /\ thread'.total = 0
             /\ Send(Line("150"))
    <2>1. client.pc = "ready" /\ client.cmd = "UPLOAD"
      <3>1. client.pc # "pwd" /\ client.cmd = "UPLOAD"
        BY <1>3, <1>9
      <3> QED BY <1>3, <1>9, <3>1, Kinds DEF Exchanging, Matched
    <2>2. Opened'
      BY <1>1, <1>5, <1>9, <2>1, CodesSent DEF Opened, Opener
    <2>3. Coming' = <<>>
      BY <1>6, <1>9, <2>2, LineTyped DEF Coming, Downs, Codes
    <2>4. thread'.asked = client.size /\ client.size \in Nat
      BY <1>3, <1>9, <2>1 DEF TypeOK, ClientState
    <2>5. Uploading(Coming, client.size)'
      <3>1. /\ thread'.saved + thread'.remaining = thread'.asked
            /\ thread'.saved + thread'.total + client.size = client.size
        BY <1>9, <2>4
      <3> QED BY <1>1, <1>4, <1>9, <2>3, <2>4, <3>1 DEF Uploading, ThreadAt
    <2>6. Answering' /\ ~Exchanging'
      <3>1. (IF Opened THEN client.size ELSE client.left)' = client'.size
        BY <2>2
      <3>2. client'.cmd = "UPLOAD" => Uploading(Coming, IF Opened THEN client.size ELSE client.left)'
        BY <2>5, <3>1 DEF Uploading
      <3> QED BY <1>1, <2>1, <2>2, <3>2, Kinds DEF Answering, Exchanging
    <2> QED BY <1>1, <1>3, <2>1, <2>6 DEF Talk, ClientAt
  <1>10. CASE /\ toServer[1].word \in Gets /\ thread'.pc = "sending"
              /\ \E n \in Nat : thread'.remaining = n /\ Send([Line("50") EXCEPT !.n = n])
    <2>1. client.pc = "start" /\ client.cmd \in Gets
      <3>1. client.pc # "pwd" /\ client.cmd = toServer[1].word
        BY <1>3, <1>10, Kinds
      <3> QED BY <1>3, <1>10, <3>1, Kinds DEF Exchanging, Matched
    <2> PICK n \in Nat : thread'.remaining = n /\ Send([Line("50") EXCEPT !.n = n])
      BY <1>10
    <2> DEFINE r == [Line("50") EXCEPT !.n = n]
    <2>2. r \in Downs /\ Send(r) /\ r.is = "line" /\ r.code = "50" /\ r.n = n
      BY LineTyped, CodesSent DEF Downs, Codes
    <2> HIDE DEF r
    <2>3. Len(toClient') = 1 /\ toClient'[1] = r /\ Tail(toClient') = <<>>
      BY <1>5, <1>6, <2>2
    <2>4. Opened'
      BY <1>1, <2>1, <2>2, <2>3 DEF Opened, Opener
    <2>5. Coming' = <<>> /\ toClient'[1].n = n
      BY <2>2, <2>3, <2>4 DEF Coming
    <2>6. Downloading(Coming, toClient[1].n)'
      BY <1>4, <1>10, <2>5 DEF Downloading, ThreadAt
    <2>7. Answering' /\ ~Exchanging'
      <3>1. (IF Opened THEN toClient[1].n ELSE client.size - (client.got + client.total))' = toClient'[1].n
        BY <2>4
      <3>2. Downloading(Coming, IF Opened THEN toClient[1].n
                                ELSE client.size - (client.got + client.total))'
        BY <2>6, <3>1 DEF Downloading
      <3> QED BY <1>1, <2>1, <2>4, <3>2, Kinds DEF Answering, Exchanging
    <2> QED BY <1>1, <1>3, <2>1, <2>7 DEF Talk, ClientAt
  <1> QED BY <1>7, <1>8, <1>9, <1>10, HandlesShape

\* more of an answer is sent, behind what is on its way
LEMMA SentBehind ==
    ASSUME TypeOK, link = "open", client' = client, client.pc \notin {"prompt", "exited"},
           ~Exchanging, NEW r \in Downs, Send(r)
    PROVE  /\ Coming \in Seq(Downs) /\ Coming' = Put(Coming, r) /\ Coming' \in Seq(Downs)
           /\ Opened' <=> Opened
           /\ Opened => toClient'[1] = toClient[1]
           /\ ~Exchanging' /\ (Answering' => Talk')
  <1>1. toClient \in Seq(Downs) /\ toClient' = Put(toClient, r) /\ toClient' \in Seq(Downs)
    BY Heads, PutTyped DEF Send
  <1>2. CASE Opened
    <2>1. Len(toClient) >= 1 /\ toClient[1].is # "data"
      BY <1>2 DEF Opened
    <2>2. /\ Len(toClient') >= 1 /\ toClient'[1] = toClient[1]
          /\ Tail(toClient') = Put(Tail(toClient), r)
      BY <1>1, <2>1, PutBehind
    <2>3. Opened'
      BY <1>2, <2>2 DEF Opened
    <2>4. Coming = Tail(toClient) /\ Coming' = Tail(toClient')
      BY <1>2, <2>3 DEF Coming
    <2>5. Tail(toClient) \in Seq(Downs) /\ Tail(toClient') \in Seq(Downs)
      BY <1>1, <2>1, <2>2, EmptyQueue
    <2>6. ~Exchanging'
      BY <1>2, <2>3 DEF Exchanging, Opened
    <2> QED BY <1>2, <2>2, <2>3, <2>4, <2>5, <2>6 DEF Talk, ClientAt
  <1>3. CASE ~Opened
    <2>1. client.pc \notin {"first", "ready", "start"}
      BY <1>3 DEF Exchanging
    <2>2. ~Opened'
      BY <2>1 DEF Opened
    <2>3. ~Exchanging'
      BY <2>1 DEF Exchanging
    <2>4. Coming = toClient /\ Coming' = toClient'
      BY <1>3, <2>2 DEF Coming
    <2> QED BY <1>1, <1>3, <2>2, <2>3, <2>4 DEF Talk, ClientAt
  <1> QED BY <1>2, <1>3

LEMMA ListTalk ==
    ASSUME TypeOK, Matched, Joined, Talk, InStep, InStep', ListEntry \/ ListEnd \/ ListFails,
           client.pc # "exited"
    PROVE  Talk'
  <1>1. link = "open" /\ ~Gone /\ client' = client
    BY OpenStill DEF ThreadProceeds
  <1>2. ThreadAt("listing") /\ toServer' = toServer
    BY DEF ListEntry, ListEnd, ListFails
  <1>3. /\ client.pc # "prompt" /\ ~Exchanging /\ Answering /\ client.cmd \in Lists
        /\ client.cmd # "UPLOAD" /\ client.cmd \notin Gets
    BY <1>1, <1>2, WhatAnswers, Kinds DEF ThreadAt
  <1>4. /\ \A i \in 1..Len(Coming) : Coming[i].is = "line"
        /\ \A i \in 1..Len(Coming) : Coming[i].code # Marker[client.cmd]
        /\ thread.word = client.cmd /\ toServer = <<>>
    BY <1>1, <1>2, <1>3 DEF Answering, Listing, ThreadAt
  <1>5. ASSUME NEW code \in Codes, Send(Line(code))
        PROVE  /\ Answering' => Talk'
               /\ Len(Coming') \in Nat /\ Len(Coming') >= 1 /\ Coming'[Len(Coming')].code = code
               /\ \A i \in 1..Len(Coming') : Coming'[i].is = "line"
               /\ \A i \in 1..Len(Coming') - 1 : Coming'[i].code # Marker[client.cmd]
    <2> DEFINE r == Line(code)
    <2>1. r \in Downs /\ r.is = "line" /\ r.code = code /\ Send(r)
      BY <1>5, LineTyped, CodesSent DEF Downs
    <2> HIDE DEF r
    <2>2. /\ Coming \in Seq(Downs) /\ Coming' = Put(Coming, r) /\ Coming' \in Seq(Downs)
          /\ Answering' => Talk'
      BY <1>1, <1>3, <2>1, SentBehind
    <2>3. /\ Len(Coming') = Len(Coming) + 1 /\ Coming'[Len(Coming) + 1] = r
          /\ \A i \in 1..Len(Coming) : Coming'[i] = Coming[i]
      BY <2>1, <2>2, PutLine
    <2> DEFINE n == Len(Coming)
    <2>4. n \in Nat
      BY <2>2, NoLength
    <2> HIDE DEF n
    <2>5. n + 1 \in Nat /\ n + 1 >= 1 /\ n + 1 - 1 = n /\ \A i \in 1..n + 1 : i = n + 1 \/ i \in 1..n
      BY <2>4
    <2>6. Len(Coming') = n + 1
      BY <2>3 DEF n
    <2>7. /\ \A i \in 1..n : Coming'[i].is = "line"
          /\ \A i \in 1..n : Coming'[i].code # Marker[client.cmd]
          /\ Coming'[n + 1] = r
      BY <1>4, <2>3 DEF n
    <2> QED BY <2>1, <2>2, <2>5, <2>6, <2>7
  <1>6. CASE ListEntry
    <2>1. Send(Line("entry")) /\ thread'.pc = "listing" /\ thread'.word = thread.word
      BY <1>2, <1>6 DEF ListEntry, TypeOK, ThreadState, ThreadAt
    <2>2. /\ Answering' => Talk'
          /\ Len(Coming') \in Nat /\ Len(Coming') >= 1 /\ Coming'[Len(Coming')].code = "entry"
          /\ \A i \in 1..Len(Coming') : Coming'[i].is = "line"
          /\ \A i \in 1..Len(Coming') - 1 : Coming'[i].code # Marker[client.cmd]
      BY <1>5, <2>1 DEF Codes
    <2>3. Marker[client.cmd] # "entry"
      BY <1>3 DEF Marker, Lists, Acls, WithMe
    <2>4. \A n \in Nat : \A i \in 1..n : i = n \/ i \in 1..n - 1
      OBVIOUS
    <2>5. \A i \in 1..Len(Coming') : Coming'[i].code # Marker[client.cmd]
      BY <2>2, <2>3, <2>4
    <2>6. Listing(Coming)'
      BY <1>1, <1>2, <1>4, <2>1, <2>2, <2>5 DEF Listing, ThreadAt
    <2> QED BY <1>1, <1>3, <2>2, <2>6 DEF Answering
  <1>7. CASE ListEnd
    <2>1. thread.word # "LIST_SHARED_USERS_FILE" /\ thread' = InitThread
      BY <1>7 DEF ListEnd, Derailed, InStep, Says, Replies
    <2>2. LastLine[thread.word] = Marker[client.cmd] /\ Marker[client.cmd] \in Codes
      BY <1>3, <1>4, <2>1 DEF LastLine, Marker, Lists, Acls, WithMe, Codes, Marks
    <2>3. Send(Line(Marker[client.cmd]))
      BY <1>7, <2>2 DEF ListEnd, Says, Replies
    <2>4. /\ Answering' => Talk'
          /\ Len(Coming') >= 1 /\ Coming'[Len(Coming')].code = Marker[client.cmd]
          /\ \A i \in 1..Len(Coming') : Coming'[i].is = "line"
          /\ \A i \in 1..Len(Coming') - 1 : Coming'[i].code # Marker[client.cmd]
      BY <1>5, <2>2, <2>3
    <2>5. Listing(Coming)'
      BY <1>1, <1>2, <1>4, <2>1, <2>4 DEF Listing, ThreadAt, InitThread
    <2> QED BY <1>1, <1>3, <2>4, <2>5 DEF Answering
  <1>8. ~ListFails
    BY DEF ListFails, Derailed, InStep
  <1> QED BY <1>6, <1>7, <1>8

LEMMA SaveTalk ==
    ASSUME TypeOK, Working, Matched, Joined, Talk, InStep, InStep',
           SaveRefused \/ SaveSome \/ SaveEnded \/ SaveDone, client.pc # "exited"
    PROVE  Talk'
  <1>1. link = "open" /\ ~Gone /\ client' = client /\ ~ClientLeft
    BY OpenStill DEF ThreadProceeds
  <1>2. ThreadAt("saving")
    BY DEF SaveRefused, SaveSome, SaveEnded, SaveDone
  <1>3. /\ client.pc # "prompt" /\ ~Exchanging /\ Answering /\ client.cmd = "UPLOAD"
        /\ client.cmd \notin Lists /\ client.cmd \notin Gets
    BY <1>1, <1>2, WhatAnswers, Kinds DEF ThreadAt
  <1> DEFINE left == IF Opened THEN client.size ELSE client.left
  <1>4. /\ thread.saved \in Nat /\ thread.remaining \in Nat /\ thread.total \in Nat
        /\ thread.asked \in Nat /\ left \in Nat /\ client.size \in Nat
    BY DEF TypeOK, ThreadState, ClientState
  <1>5. /\ Coming = <<>> /\ thread.asked = client.size
        /\ thread.saved + thread.remaining = thread.asked
        /\ \/ toServer = <<>> /\ thread.saved + thread.total + left = client.size
           \/ /\ LonePiece(toServer)
              /\ thread.saved + thread.total + toServer[1].n + left = client.size
    <2>1. Uploading(Coming, left)
      BY <1>3 DEF Answering
    <2> HIDE DEF left
    <2> QED BY <1>1, <1>2, <2>1 DEF Uploading, ThreadAt
  <1>6. LonePiece(toServer) => toServer[1].n \in Nat /\ toServer[1].n > 0
    BY Heads, Lone, DataIsPiece DEF LonePiece
  <1>7. left' = left /\ Uploading(Coming, left)' => Answering'
    BY <1>1, <1>3 DEF Answering, Uploading
  <1>8. ASSUME NEW code \in Codes, Says(code), toServer' = toServer, thread.remaining = 0
        PROVE  Talk'
    <2>1. toServer = <<>> /\ left = 0
      <3> HIDE DEF left
      <3> QED BY <1>4, <1>5, <1>6, <1>8
    <2>2. Send(Line(code)) /\ thread' = InitThread /\ Line(code) \in Downs
      BY <1>8, LineTyped DEF Says, Replies, Downs
    <2>3. /\ Coming' = Put(Coming, Line(code)) /\ (Opened' <=> Opened) /\ (Answering' => Talk')
      BY <1>1, <1>3, <2>2, SentBehind
    <2>4. LoneLine(Coming)'
      BY <1>5, <2>3, PutFirst, CodesSent DEF LoneLine
    <2>5. left' = left
      BY <1>1, <2>3
    <2> HIDE DEF left
    <2>6. Uploading(Coming, left)'
      BY <1>8, <2>1, <2>2, <2>4, <2>5 DEF Uploading, ThreadAt, InitThread
    <2> QED BY <1>7, <2>3, <2>5, <2>6
  <1>9. CASE SaveRefused
    <2>1. Says("error") /\ toServer' = toServer /\ thread.asked = 0
      BY <1>9 DEF SaveRefused, Derailed, InStep
    <2>2. thread.remaining = 0
      BY <1>4, <1>5, <2>1
    <2> QED BY <1>8, <2>1, <2>2 DEF Codes
  <1>10. CASE SaveDone
    <2>1. Says("200") \/ Says("error")
      BY <1>10 DEF SaveDone
    <2>2. toServer' = toServer /\ thread.remaining = 0
      BY <1>10 DEF SaveDone
    <2> QED BY <1>8, <2>1, <2>2 DEF Codes
  <1>11. CASE SaveSome
    <2>1. LonePiece(toServer) /\ toClient' = toClient
      BY <1>5, <1>11 DEF SaveSome
    <2>2. PICK k \in Nat :
             /\ thread'.pc = "saving" /\ thread'.asked = thread.asked
             /\ thread'.saved + thread'.remaining = thread.saved + thread.remaining
             /\ thread'.saved + thread'.total = thread.saved + thread.total + k
             /\ \/ toServer' = <<>> /\ k = toServer[1].n
                \/ LonePiece(toServer') /\ toServer'[1].n + k = toServer[1].n
      BY <1>11, <2>1, SavedShape
    <2>3. (Opened' <=> Opened) /\ Coming' = Coming /\ (Exchanging' <=> Exchanging) /\ left' = left
      BY <1>1, <2>1 DEF Opened, Coming, Exchanging
    <2>4. thread.saved + thread.total + toServer[1].n + left = client.size
      <3> HIDE DEF left
      <3> QED BY <1>5, <2>1 DEF LonePiece
    <2> HIDE DEF left
    <2>5. /\ thread'.saved \in Nat /\ thread'.total \in Nat /\ thread' \in ThreadState
          /\ toServer' \in Seq(Ups)
      <3>1. TypeOK'
        BY <1>11, ThreadTyped DEF ThreadProceeds
      <3> QED BY <3>1 DEF TypeOK, ThreadState, Ups
    <2>6. /\ thread'.asked = client.size
          /\ thread'.saved + thread'.remaining = thread'.asked
      BY <1>5, <2>2
    <2>7. CASE toServer' = <<>> /\ k = toServer[1].n
      <3>1. thread'.saved + thread'.total + left = client.size
        BY <1>4, <1>6, <2>1, <2>2, <2>4, <2>5, <2>7
      <3>2. Uploading(Coming, left)'
        BY <1>1, <1>5, <2>2, <2>3, <2>6, <2>7, <3>1 DEF Uploading, ThreadAt
      <3> QED BY <1>1, <1>3, <1>7, <2>3, <3>2 DEF Talk, ClientAt
    <2>8. CASE LonePiece(toServer') /\ toServer'[1].n + k = toServer[1].n
      <3>1. toServer'[1].n \in Nat
        BY <2>5, <2>8, Lone, DataIsPiece DEF LonePiece
      <3>2. thread'.saved + thread'.total + toServer'[1].n + left = client.size
        <4> DEFINE p == toServer'[1].n
                   n == toServer[1].n
        <4>1. p \in Nat /\ n \in Nat /\ p + k = n /\ thread.saved + thread.total + n + left = client.size
          BY <1>6, <2>1, <2>4, <2>8, <3>1
        <4>2. thread'.saved + thread'.total = thread.saved + thread.total + k
          BY <2>2
        <4> HIDE DEF p, n
        <4>3. thread'.saved + thread'.total + p + left = client.size
          <5> DEFINE before == thread.saved + thread.total
                     after == thread'.saved + thread'.total
          <5>1. before \in Nat /\ after \in Nat /\ left \in Nat
            BY <1>4, <2>5
          <5>2. after = before + k /\ before + n + left = client.size
            BY <4>1, <4>2
          <5> HIDE DEF before, after
          <5>3. after + p + left = client.size
            BY <4>1, <5>1, <5>2
          <5> QED BY <5>3 DEF after
        <4> QED BY <4>3 DEF p
      <3>3. Uploading(Coming, left)'
        BY <1>1, <1>5, <2>2, <2>3, <2>6, <2>8, <3>2 DEF Uploading, ThreadAt, LonePiece
      <3> QED BY <1>1, <1>3, <1>7, <2>3, <3>3 DEF Talk, ClientAt
    <2> QED BY <2>2, <2>7, <2>8
  <1>12. ~SaveEnded
    BY <1>1 DEF SaveEnded
  <1> QED BY <1>9, <1>10, <1>11, <1>12

LEMMA SendTalk ==
    ASSUME TypeOK, Working, Matched, Joined, Talk, InStep, InStep',
           SendRefused \/ SendSome \/ SendDone, client.pc # "exited"
    PROVE  Talk'
  <1>1. link = "open" /\ ~Gone /\ client' = client
    BY OpenStill DEF ThreadProceeds
  <1>2. ThreadAt("sending") /\ toServer' = toServer
    BY DEF SendRefused, SendSome, SendDone
  <1>3. /\ client.pc # "prompt" /\ ~Exchanging /\ Answering /\ client.cmd \in Gets
        /\ client.cmd # "UPLOAD" /\ client.cmd \notin Lists
    BY <1>1, <1>2, WhatAnswers, Kinds DEF ThreadAt
  <1> DEFINE need == IF Opened THEN toClient[1].n ELSE client.size - (client.got + client.total)
  <1>4. /\ toServer = <<>>
        /\ \/ Coming = <<>> /\ thread.remaining = need
           \/ LonePiece(Coming) /\ Coming[1].n <= need /\ Coming[1].n + thread.remaining = need
    <2>1. Downloading(Coming, need)
      BY <1>3 DEF Answering
    <2> HIDE DEF need
    <2> QED BY <1>1, <1>2, <2>1 DEF Downloading, ThreadAt
  <1>5. Downloading(Coming, need)' => Answering'
    BY <1>1, <1>3 DEF Answering, Downloading
  <1>6. /\ thread.remaining \in Nat /\ thread.left \in Nat
        /\ LonePiece(Coming) => Coming[1].n \in Nat
    <2>1. Coming \in Seq(Downs)
      <3>1. toClient \in Seq(Downs)
        BY Heads
      <3>2. Opened => toClient # <<>>
        BY <3>1, EmptyQueue DEF Opened
      <3> QED BY <3>1, <3>2, EmptyQueue DEF Coming
    <2>2. LonePiece(Coming) => Coming[1].n \in Nat
      BY <2>1, Lone, DataIsPiece DEF LonePiece
    <2> QED BY <2>2 DEF TypeOK, ThreadState
  <1>7. ~SendRefused
    BY DEF SendRefused, Derailed, InStep
  <1>8. CASE SendSome
    <2> DEFINE n == Least(Least(thread.remaining, ServerBuf), thread.left)
    <2>1. /\ thread'.pc = "sending" /\ thread'.remaining = thread.remaining - n
          /\ Send(Piece(n)) /\ n > 0
      BY <1>2, <1>8 DEF SendSome, TypeOK, ThreadState, ThreadAt
    <2>2. n \in Nat /\ n <= thread.remaining
      BY <1>6, SizesAssumption DEF Least
    <2> HIDE DEF n
    <2>3. n \in Nat \ {0} /\ thread'.remaining \in Nat
      BY <1>6, <2>1, <2>2
    <2>4. Piece(n) \in Downs
      BY <2>3, PieceTyped DEF Downs
    <2>5. /\ Coming \in Seq(Downs) /\ Coming' = Put(Coming, Piece(n))
          /\ (Opened' <=> Opened) /\ (Opened => toClient'[1] = toClient[1])
          /\ (Answering' => Talk')
      BY <1>1, <1>3, <2>1, <2>4, SentBehind
    <2>6. need' = need
      BY <1>1, <2>5
    <2> HIDE DEF need
    <2>7. CASE Coming = <<>> /\ thread.remaining = need
      <3>1. LonePiece(Coming)' /\ Coming'[1].n = n
        BY <2>5, <2>7, PutFirst DEF LonePiece, Piece
      <3>2. n <= need /\ n + thread'.remaining = need
        BY <1>6, <2>1, <2>2, <2>3, <2>7
      <3>3. Downloading(Coming, need)'
        BY <1>2, <1>4, <2>1, <2>6, <3>1, <3>2 DEF Downloading, ThreadAt
      <3> QED BY <1>5, <2>5, <3>3
    <2>8. CASE LonePiece(Coming) /\ Coming[1].n + thread.remaining = need
      <3> DEFINE m == Coming[1].n
      <3>1. LonePiece(Coming)' /\ Coming'[1].n = m + n
        BY <2>2, <2>5, <2>8, PutPiece DEF LonePiece
      <3>2. m \in Nat /\ m + thread.remaining = need
        BY <1>6, <2>8
      <3> HIDE DEF m
      <3>3. m + n <= need /\ m + n + thread'.remaining = need
        BY <1>6, <2>1, <2>2, <2>3, <3>2
      <3>4. Downloading(Coming, need)'
        BY <1>2, <1>4, <2>1, <2>6, <3>1, <3>3 DEF Downloading, ThreadAt
      <3> QED BY <1>5, <2>5, <3>4
    <2> QED BY <1>4, <2>7, <2>8
  <1>9. CASE SendDone
    <2>1. thread' = InitThread /\ Send(Line("200")) /\ thread.remaining = 0
      BY <1>9 DEF SendDone, Says, Replies, Derailed, InStep
    <2> DEFINE r == Line("200")
    <2>2. r \in Downs /\ r.is = "line" /\ Send(r)
      BY <2>1, LineTyped, CodesSent DEF Downs, Codes
    <2> HIDE DEF r
    <2>3. /\ Coming \in Seq(Downs) /\ Coming' = Put(Coming, r)
          /\ (Opened' <=> Opened) /\ (Opened => toClient'[1] = toClient[1])
          /\ (Answering' => Talk')
      BY <1>1, <1>3, <2>2, SentBehind
    <2>4. need' = need
      BY <1>1, <2>3
    <2> HIDE DEF need
    <2>5. CASE Coming = <<>> /\ thread.remaining = need
      <3>1. LoneLine(Coming)' /\ need = 0
        BY <2>1, <2>2, <2>3, <2>5, PutFirst DEF LoneLine
      <3>2. Downloading(Coming, need)'
        BY <1>2, <1>4, <2>1, <2>4, <3>1 DEF Downloading, ThreadAt, InitThread
      <3> QED BY <1>5, <2>3, <3>2
    <2>6. CASE LonePiece(Coming) /\ Coming[1].n + thread.remaining = need
      <3>1. Coming[1].n = need
        BY <1>6, <2>1, <2>6
      <3>2. Len(Coming) = 1 /\ Coming[1].is = "data"
        BY <2>6 DEF LonePiece
      <3>3. Len(Coming') = 2 /\ Coming'[2] = r /\ Coming'[1] = Coming[1]
        <4>1. /\ Len(Coming') = Len(Coming) + 1 /\ Coming'[Len(Coming) + 1] = r
              /\ \A i \in 1..Len(Coming) : Coming'[i] = Coming[i]
          BY <2>2, <2>3, PutLine
        <4> QED BY <3>2, <4>1
      <3>4. /\ Len(Coming') = 2 /\ Coming'[1].is = "data" /\ Coming'[1].n = need'
            /\ Coming'[2].is = "line"
        BY <2>2, <2>4, <3>1, <3>2, <3>3
      <3>5. Downloading(Coming, need)'
        BY <1>2, <1>4, <2>1, <3>4 DEF Downloading, ThreadAt, InitThread
      <3> QED BY <1>5, <2>3, <3>5
    <2> QED BY <1>4, <2>5, <2>6
  <1> QED BY <1>7, <1>8, <1>9

-----------------------------------------------------------------------------
(* What is on the wire is what is waited for.                              *)

LEMMA InitTalk == Init => Talk
  BY DEF Init, Talk, InitClient, InitThread, ClientAt, ThreadAt

LEMMA TalkKept == TypeOK /\ Working /\ Matched /\ Joined /\ Talk /\ [Next]_vars => Talk'
  <1> SUFFICES ASSUME TypeOK, Working, Matched, Joined, Talk, [Next]_vars, InStep'
               PROVE  Talk'
    BY DEF Talk
  <1>1. InStep
    BY StillInStep
  <1>2. CASE UserAsks
    BY <1>1, <1>2, AskTalk, AsksFit
  <1>3. CASE ClientProceeds
    BY <1>1, <1>3, AuthTalk, ReplyTalk, PwdTalk, FirstTalk, NextTalk, ReadyTalk, StreamTalk,
       PutDoneTalk, StartTalk, FetchTalk, EndedTalk DEF ClientProceeds
  <1>4. CASE ThreadProceeds /\ client.pc = "exited"
    BY <1>1, <1>4, AfterTalk
  <1>5. CASE ThreadProceeds /\ client.pc # "exited"
    <2>1. ~ThreadEnds
      BY <1>5, OpenStill DEF ThreadEnds
    <2> QED BY <1>1, <1>5, <2>1, HandleTalk, ListTalk, SaveTalk, SendTalk DEF ThreadProceeds
  <1>6. CASE ClientLeaves
    BY <1>1, <1>6, LeaveTalk
  <1>7. CASE ServerDies
    BY <1>1, <1>7, DiesTalk
  <1>8. CASE UNCHANGED vars
    <2>1. UNCHANGED <<client, thread, toServer, toClient, link, cause>>
      BY <1>8 DEF vars
    <2>2. /\ client' = client /\ thread' = thread /\ toServer' = toServer
          /\ toClient' = toClient /\ link' = link
      BY <2>1
    <2>3. /\ Gone' <=> Gone
          /\ \A pc : (ClientAt(pc)' <=> ClientAt(pc)) /\ (ThreadAt(pc)' <=> ThreadAt(pc))
      BY <2>2 DEF Gone, ServerLeft, ClientAt, ThreadAt
    <2>4. (Opened' <=> Opened) /\ Coming' = Coming
      BY <2>2 DEF Opened, Coming
    <2>5. LeftBehind' <=> LeftBehind
      BY <2>2, <2>3 DEF LeftBehind, LoneRequest, LonePiece
    <2>6. (Exchanging' <=> Exchanging) /\ (Exchange' <=> Exchange)
      BY <2>2, <2>3, <2>4 DEF Exchanging, Exchange, LoneRequest, LoneLine
    <2>7. Answering' <=> Answering
      <3>1. \A q : Listing(q)' <=> Listing(q)
        BY <2>2, <2>3 DEF Listing
      <3>2. \A q, n : (Uploading(q, n)' <=> Uploading(q, n)) /\ (Downloading(q, n)' <=> Downloading(q, n))
        BY <2>2, <2>3 DEF Uploading, Downloading, LonePiece, LoneLine
      <3> QED BY <2>2, <2>4, <3>1, <3>2 DEF Answering
    <2>8. CASE ClientAt("prompt")
      BY <1>1, <2>2, <2>3, <2>8 DEF Talk
    <2>9. CASE ~ClientAt("prompt")
      BY <1>1, <2>3, <2>5, <2>6, <2>7, <2>9 DEF Talk
    <2> QED BY <2>8, <2>9
  <1> QED BY <1>2, <1>3, <1>4, <1>5, <1>6, <1>7, <1>8 DEF Next

\* all that holds of both ends together
Shared == TypeOK /\ Working /\ Matched /\ Joined /\ Talk

LEMMA SharedAlways == Spec => []Shared
  <1>1. Init => Shared
    BY InitTyped, InitWorking, InitJoined, InitTalk DEF Shared
  <1>2. Shared /\ [Next]_vars => Shared'
    <2> SUFFICES ASSUME Shared, [Next]_vars PROVE Shared'
      OBVIOUS
    <2>1. TypeOK'
      BY UserTyped, ShellTyped, ThreadTyped DEF Next, vars, TypeOK, Shared
    <2> QED BY <2>1, WorkingKept, MatchedKept, JoinedKept, TalkKept DEF Shared
  <1> QED BY <1>1, <1>2, PTL DEF Spec

LEMMA SharedFramed == Shared => Framed
  <1> SUFFICES ASSUME Shared, InStep
               PROVE  /\ toClient # <<>> /\ AwaitsLine => Head(toClient).is = "line"
                      /\ toClient # <<>> /\ AwaitsData => Head(toClient).is = "data"
                      /\ toServer # <<>> /\ ThreadAt("recv") => Head(toServer).is = "request"
                      /\ toServer # <<>> /\ ThreadAt("saving") /\ thread.remaining > 0
                            => Head(toServer).is = "data"
    BY DEF Framed
  <1>1. TypeOK /\ Working /\ Matched /\ Joined /\ Talk
    BY DEF Shared
  <1>2. /\ toClient # <<>> => Head(toClient) = toClient[1] /\ Len(toClient) >= 1
        /\ toServer # <<>> => Head(toServer) = toServer[1]
        /\ toClient \in Seq(Downs) /\ toServer \in Seq(Ups)
    BY <1>1, Heads, EmptyQueue
  <1>3. Gone => ~ThreadAt("recv") /\ ~ThreadAt("saving")
    BY <1>1 DEF Joined, Gone, ThreadAt
  <1>4. ASSUME toServer # <<>>, ThreadAt("recv") \/ (ThreadAt("saving") /\ thread.remaining > 0)
        PROVE  IF ThreadAt("recv") THEN toServer[1].is = "request" ELSE toServer[1].is = "data"
    <2>1. CASE client.pc = "exited"
      BY <1>1, <1>3, <1>4, <2>1 DEF Talk, ClientAt, LeftBehind, ThreadAt, LoneRequest, LonePiece
    <2>2. CASE client.pc # "exited"
      <3>1. CASE ThreadAt("recv")
        BY <1>1, <1>3, <1>4, <2>2, <3>1, WhatAnswers DEF ThreadAt, LoneRequest
      <3>2. CASE ~ThreadAt("recv")
        <4>1. thread.pc = "saving" /\ ~Gone
          BY <1>3, <1>4, <3>2 DEF ThreadAt
        <4>2. client.cmd = "UPLOAD" /\ Answering
          BY <1>1, <2>2, <4>1, WhatAnswers, Kinds DEF ThreadAt
        <4>3. LonePiece(toServer)
          BY <1>3, <1>4, <4>1, <4>2 DEF Answering, Uploading, ThreadAt
        <4> QED BY <3>2, <4>3 DEF LonePiece
      <3> QED BY <3>1, <3>2
    <2> QED BY <2>1, <2>2
  <1>5. ASSUME toClient # <<>>, client.pc \notin {"prompt", "exited"}, Exchanging
        PROVE  toClient[1].is = "line"
    BY <1>1, <1>5 DEF Talk, ClientAt, Exchange, LoneLine
  <1>6. ASSUME client.pc \notin {"prompt", "exited"}, ~Exchanging PROVE Answering
    BY <1>1, <1>6 DEF Talk, ClientAt
  <1>7. /\ client.size \in Nat /\ client.got \in Nat /\ client.total \in Nat
        /\ client.pc \in ClientPlaces
    BY <1>1 DEF TypeOK, ClientState
  <1> DEFINE need == client.size - (client.got + client.total)
  <1>8. ASSUME toClient # <<>>, client.pc \in {"reply", "fetch"}, client.cmd \in Gets
        PROVE  Downloading(toClient, need) /\ need \in Int
    <2>1. ~Opened
      BY <1>8 DEF Opened
    <2>2. ~Exchanging
      BY <1>8, Kinds DEF Exchanging
    <2> QED BY <1>6, <1>7, <1>8, <2>1, <2>2 DEF Answering, Coming
  <1>9. ASSUME toClient # <<>>, AwaitsLine PROVE toClient[1].is = "line"
    <2>1. CASE Exchanging
      BY <1>5, <1>9, <2>1 DEF AwaitsLine
    <2>2. CASE ~Exchanging /\ client.pc \in {"first", "ready", "start"}
      BY <2>2 DEF Exchanging, Opened
    <2>3. CASE client.pc = "lines"
      <3>1. ~Opened /\ ~Exchanging /\ client.cmd \in Lists
        BY <1>1, <2>3 DEF Opened, Exchanging, Matched
      <3>2. Listing(toClient)
        BY <1>6, <2>3, <3>1 DEF Answering, Coming
      <3>3. 1 \in 1..Len(toClient)
        BY <1>2, <1>9, NoLength
      <3> QED BY <3>2, <3>3 DEF Listing
    <2>4. CASE client.pc = "reply" /\ client.cmd = "UPLOAD"
      <3>1. ~Opened /\ ~Exchanging
        BY <2>4, Kinds DEF Opened, Exchanging
      <3>2. Uploading(toClient, client.left)
        BY <1>6, <2>4, <3>1 DEF Answering, Coming
      <3> QED BY <1>9, <3>2 DEF Uploading, LoneLine
    <2>5. CASE client.pc = "reply" /\ client.cmd \in Gets
      <3>1. Downloading(toClient, need)
        BY <1>8, <1>9, <2>5
      <3>2. need = 0
        BY <1>1, <1>7, <2>5 DEF Matched
      <3> HIDE DEF need
      <3>3. toClient[1].is = "line" \/ (toClient[1].is = "data" /\ toClient[1].n <= 0)
        BY <1>9, <3>1, <3>2 DEF Downloading, LonePiece, LoneLine
      <3>4. toClient[1].is = "data" => toClient[1].n \in Nat /\ toClient[1].n > 0
        BY <1>2, <1>9, Read1Typed, DataIsPiece
      <3> QED BY <3>3, <3>4
    <2> QED BY <1>1, <1>9, <2>1, <2>2, <2>3, <2>4, <2>5 DEF AwaitsLine, Exchanging, Matched
  <1>10. ASSUME toClient # <<>>, AwaitsData PROVE toClient[1].is = "data"
    <2>1. client.pc = "fetch" /\ client.cmd \in Gets /\ client.got < client.size
      BY <1>1, <1>10 DEF AwaitsData, ClientAt, Matched
    <2>2. Downloading(toClient, need)
      BY <1>8, <1>10, <2>1
    <2>3. need # 0
      BY <1>1, <1>7, <2>1 DEF Matched
    <2> HIDE DEF need
    <2> QED BY <1>10, <2>2, <2>3 DEF Downloading, LonePiece
  <1> QED BY <1>2, <1>4, <1>9, <1>10 DEF ThreadAt

LEMMA SharedWhole == Shared => UploadWhole
  <1> SUFFICES ASSUME Shared, InStep, ThreadAt("saving"), thread.remaining = 0
               PROVE  /\ thread.saved = thread.asked
                      /\ \/ ClientAt("exited") \/ ServerLeft
                         \/ client.cmd = "UPLOAD" /\ client.left = 0
    BY DEF UploadWhole
  <1>1. TypeOK /\ Working /\ Matched /\ Joined /\ Talk
    BY DEF Shared
  <1>2. ~Gone /\ thread.pc = "saving"
    BY <1>1 DEF Joined, Gone, ThreadAt
  <1>3. /\ thread.saved \in Nat /\ thread.asked \in Nat /\ thread.total \in Nat
        /\ client.size \in Nat /\ client.left \in Nat
        /\ LonePiece(toServer) => toServer[1].n \in Nat
    BY <1>1, LoneTyped DEF TypeOK, ThreadState, ClientState
  <1>4. CASE client.pc = "exited"
    <2>1. thread.saved + thread.remaining = thread.asked
      BY <1>1, <1>2, <1>4 DEF Talk, ClientAt, LeftBehind, ThreadAt
    <2> QED BY <1>3, <1>4, <2>1 DEF ClientAt
  <1>5. CASE client.pc # "exited"
    <2>1. client.cmd = "UPLOAD" /\ Answering
      BY <1>1, <1>2, <1>5, WhatAnswers, Kinds DEF ThreadAt
    <2> DEFINE left == IF Opened THEN client.size ELSE client.left
    <2>2. Uploading(Coming, left)
      BY <2>1 DEF Answering
    <2>3. left \in Nat
      BY <1>3
    <2> HIDE DEF left
    <2>4. /\ thread.asked = client.size /\ thread.saved + thread.remaining = thread.asked
          /\ \/ thread.saved + thread.total + left = client.size
             \/ /\ LonePiece(toServer)
                /\ thread.saved + thread.total + toServer[1].n + left = client.size
      BY <1>2, <2>2 DEF Uploading, ThreadAt
    <2>5. thread.saved = thread.asked /\ left = 0
      BY <1>3, <2>3, <2>4
    <2>6. client.left = 0
      <3>1. CASE Opened
        <4>1. client.pc = "ready"
          BY <1>1, <2>1, <3>1, Kinds DEF Opened, Matched
        <4> QED BY <1>1, <4>1 DEF Matched
      <3>2. CASE ~Opened
        BY <2>5, <3>2 DEF left
      <3> QED BY <3>1, <3>2
    <2> QED BY <2>1, <2>5, <2>6
  <1> QED BY <1>4, <1>5

\* Neither side ever takes a piece of a file for a line or a request, or a
\* line for a piece, while the two are in step: over every interleaving of the
\* two programs, every size and every cut, clients and servers dying included.
THEOREM FramesKept == Spec => []Framed
  BY SharedAlways, SharedFramed, PTL

\* A command leaves nothing behind on the wire for the next one to read.
THEOREM AnswersTaken == Spec => []AnswersRead
  <1>1. Shared => AnswersRead
    BY DEF Shared, Talk, AnswersRead, Gone, ServerLeft
  <1> QED BY <1>1, SharedAlways, PTL

\* What is entered in the database is as long as the client said, and the
\* client, if it is still there, has sent all that it had.
THEOREM UploadsWhole == Spec => []UploadWhole
  BY SharedAlways, SharedWhole, PTL

-----------------------------------------------------------------------------
(* What the prompt shows.                                                  *)

\* A client told in and cwd would be told the truth, the exceptions of
\* PromptTold aside: a login that failed half-way leaves the session nowhere
\* or among others' folders, and the one exit-shared goes back to as well.
Agreed(in, cwd) ==
    /\ in => session.in
    /\ in => cwd = session.cwd \/ (Abroad(cwd) /\ ~session.sharing)
    /\ session.in /\ ~in =>
          /\ session.at = Nowhere \/ Abroad(session.cwd)
          /\ session.sharing => session.old = Nowhere \/ Abroad(session.oldCwd)

\* the folder has been moved, and the client is about to be told
Moving == ClientAt("pwd") \/ (ClientAt("moved") /\ toClient # <<>>)

\* what the client is told already, or will be by the line that is on its way
Told ==
    InStep /\ link = "open" =>
        /\ ~session.in => session = InitSession
        /\ IF ClientAt("auth") /\ toClient # <<>>
           THEN CASE toClient[1].code = "200" /\ client.cmd = "LOGIN" -> Agreed(TRUE, <<>>)
                  [] toClient[1].code = "200" /\ client.cmd = "LOGOUT" -> Agreed(FALSE, <<"-">>)
                  [] OTHER -> Agreed(client.in, client.cwd)
           ELSE Agreed(client.in, IF Moving THEN session.cwd ELSE client.cwd)
        /\ ClientAt("pwd") /\ toClient # <<>> =>
              IF toClient[1].code = "200" THEN toClient[1].path = session.cwd ELSE ~session.in

LEMMA InitTold == Init => Told
  BY DEF Init, Told, InitClient, InitSession, Agreed, Moving, ClientAt

\* a step after which the client is told nothing new
LEMMA ToldStill ==
    ASSUME Told, InStep, link = "open", UNCHANGED session,
           client'.in = client.in, client'.cwd = client.cwd,
           client.pc \notin {"auth", "pwd", "moved"} \/ toClient = <<>>,
           client'.pc \notin {"auth", "pwd", "moved"} \/ toClient' = <<>>,
           client.pc = "pwd" <=> client'.pc = "pwd"
    PROVE  Told'
  <1>1. CASE client.pc = "pwd"
    BY <1>1 DEF Told, Agreed, Moving, ClientAt
  <1>2. CASE client.pc # "pwd"
    BY <1>2 DEF Told, Agreed, Moving, ClientAt
  <1> QED BY <1>1, <1>2

LEMMA ClientTold ==
    ASSUME TypeOK, Joined, Talk, Told, InStep, link = "open", UserAsks \/ ClientProceeds
    PROVE  Told'
  <1>1. UNCHANGED <<thread, session, link>> /\ ~ServerLeft
    BY ClientSteps DEF ServerLeft
  <1>2. client \in ClientState
    BY DEF TypeOK
  <1>3. ASSUME client.pc \in {"auth", "moved", "pwd"}, Hears \/ Closed
        PROVE  /\ toClient # <<>> /\ toClient' = <<>> /\ Hears /\ Head(toClient) = toClient[1]
    <2>1. Exchange
      BY <1>3 DEF Talk, ClientAt, Exchanging
    <2>2. Hears /\ toClient # <<>>
      BY <1>1, <1>3 DEF Closed, Hears
    <2> QED BY <2>1, <2>2, ExchangeOver, Heads
  <1>4. CASE UserAsks
    <2> PICK word, dir, n, pc : Ask(word, dir, n, pc) /\ Fits(word, pc)
      BY <1>4, AsksFit
    <2>1. /\ client.pc = "prompt" /\ client'.pc = pc /\ pc # "pwd" /\ toClient' = toClient
          /\ client'.in = client.in /\ client'.cwd = client.cwd
      BY <1>2 DEF Ask, Fits, ClientAt, ClientState
    <2>2. toClient = <<>>
      BY <2>1 DEF Talk, ClientAt
    <2> QED BY <1>1, <2>1, <2>2, ToldStill
  <1>5. CASE AuthReply
    <2>1. client.pc = "auth" /\ (Hears \/ Closed)
      BY <1>5 DEF AuthReply, ClientAt
    <2>2. toClient # <<>> /\ toClient' = <<>> /\ Hears /\ Head(toClient) = toClient[1]
      BY <1>3, <2>1
    <2>3. Authenticated(toClient[1].code = "200")
      BY <1>1, <1>5, <2>2 DEF AuthReply, Closed
    <2> DEFINE ok == toClient[1].code = "200"
    <2>4. CASE ok /\ client.cmd = "LOGIN"
      <3>1. Prompt(TRUE, <<>>)
        BY <2>3, <2>4 DEF Authenticated
      <3>2. client'.pc = "prompt" /\ client'.in = TRUE /\ client'.cwd = <<>>
        BY <3>1 DEF Prompt, InitClient
      <3>3. Agreed(TRUE, <<>>)
        BY <2>1, <2>2, <2>4 DEF Told, ClientAt
      <3> QED BY <1>1, <2>2, <3>2, <3>3 DEF Told, Agreed, Moving, ClientAt
    <2>5. CASE ok /\ client.cmd = "LOGOUT"
      <3>1. Prompt(FALSE, <<"-">>)
        BY <2>3, <2>5 DEF Authenticated
      <3>2. client'.pc = "prompt" /\ client'.in = FALSE
        BY <3>1 DEF Prompt, InitClient
      <3>3. Agreed(FALSE, <<"-">>)
        BY <2>1, <2>2, <2>5 DEF Told, ClientAt
      <3> QED BY <1>1, <2>2, <3>2, <3>3 DEF Told, Agreed, Moving, ClientAt
    <2>6. CASE ~(ok /\ client.cmd = "LOGIN") /\ ~(ok /\ client.cmd = "LOGOUT")
      <3>1. Back
        BY <2>3, <2>6 DEF Authenticated
      <3>2. client'.pc = "prompt" /\ client'.in = client.in /\ client'.cwd = client.cwd
        BY <3>1 DEF Back, Prompt, InitClient
      <3>3. Agreed(client.in, client.cwd)
        BY <2>1, <2>2, <2>6 DEF Told, ClientAt
      <3> QED BY <1>1, <2>2, <3>2, <3>3 DEF Told, Agreed, Moving, ClientAt
    <2> QED BY <2>4, <2>5, <2>6
  <1>6. CASE AskPwd
    <2>1. client.pc = "moved" /\ (Hears \/ Closed) /\ client'.pc = "pwd"
          /\ client'.in = client.in /\ client'.cwd = client.cwd
      BY <1>2, <1>6 DEF AskPwd, ClientAt, Waits, ClientState
    <2>2. toClient # <<>> /\ toClient' = <<>>
      BY <1>3, <2>1
    <2> QED BY <1>1, <2>1, <2>2 DEF Told, Agreed, Moving, ClientAt
  <1>7. CASE PwdReply
    <2>1. client.pc = "pwd" /\ (Hears \/ Closed)
      BY <1>7 DEF PwdReply, ClientAt, Heard, NotHeard
    <2>2. toClient # <<>> /\ toClient' = <<>> /\ Head(toClient) = toClient[1]
      BY <1>3, <2>1
    <2>3. Agreed(client.in, session.cwd)
      BY <2>1 DEF Told, Moving, ClientAt
    <2>4. CASE toClient[1].code = "200" /\ Prompt(client.in, toClient[1].path)
      <3>1. /\ client'.pc = "prompt" /\ client'.in = client.in
            /\ client'.cwd = toClient[1].path /\ toClient[1].path = session.cwd
        BY <2>1, <2>2, <2>4 DEF Prompt, InitClient, Told, ClientAt
      <3> QED BY <1>1, <2>2, <2>3, <3>1 DEF Told, Agreed, Moving, ClientAt
    <2>5. CASE toClient[1].code # "200" /\ Back
      <3>1. client'.pc = "prompt" /\ client'.in = client.in /\ ~session.in
        BY <2>1, <2>2, <2>5 DEF Back, Prompt, InitClient, Told, ClientAt
      <3>2. ~client.in
        BY <2>3, <3>1 DEF Agreed
      <3> QED BY <1>1, <2>2, <3>1, <3>2 DEF Told, Agreed, Moving, ClientAt
    <2> QED BY <1>1, <1>7, <2>2, <2>4, <2>5 DEF PwdReply, Heard, NotHeard, Closed
  <1>8. CASE \/ TakeReply \/ FirstLine \/ NextLine \/ PutReady \/ PutStream \/ PutDone
             \/ GetStart \/ GetFetch \/ GetEnded \/ GetDone
    <2>1. client.pc \in {"reply", "first", "lines", "ready", "stream", "start", "fetch"}
      BY <1>8 DEF TakeReply, FirstLine, NextLine, PutReady, PutStream, PutDone, GetStart, GetFetch,
         GetEnded, GetDone, ClientAt
    <2>2. Back => client'.pc = "prompt" /\ client'.in = client.in /\ client'.cwd = client.cwd
      BY DEF Back, Prompt, InitClient
    <2>3. /\ client'.in = client.in /\ client'.cwd = client.cwd
          /\ client'.pc \in ClientPlaces \ {"auth", "pwd", "moved"}
      <3>1. CASE TakeReply \/ FirstLine \/ NextLine \/ PutReady \/ PutStream
        BY <1>2, <2>1, <2>2, <3>1 DEF TakeReply, FirstLine, NextLine, PutReady, PutStream, Waits,
           ClientState, ClientPlaces, ClientAt
      <3>2. CASE PutDone \/ GetDone
        BY <1>2, <3>2 DEF PutDone, GetDone, Waits, ClientState, ClientPlaces
      <3>3. CASE GetStart
        BY <1>2, <2>2, <3>3 DEF GetStart, ClientState, ClientPlaces, Waits
      <3>4. CASE GetFetch \/ GetEnded
        BY <1>2, <2>1, <2>2, <3>4 DEF GetFetch, GetEnded, ClientState, ClientPlaces, ClientAt
      <3> QED BY <1>8, <3>1, <3>2, <3>3, <3>4
    <2> QED BY <1>1, <2>1, <2>3, ToldStill
  <1> QED BY <1>4, <1>5, <1>6, <1>7, <1>8 DEF ClientProceeds

\* a handler that leaves the session as it is
LEMMA AnsweredTold ==
    ASSUME TypeOK, Told, InStep, link = "open", toClient = <<>>, UNCHANGED <<client, session>>,
           Len(toClient') = 1,
           client.pc = "auth" /\ client.cmd \in {"LOGIN", "LOGOUT"} => toClient'[1].code = "error",
           client.pc = "pwd" => IF toClient'[1].code = "200"
                                THEN toClient'[1].path = session.cwd ELSE ~session.in
    PROVE  Told'
  <1>1. toClient' # <<>>
    BY EmptyQueue
  <1>2. CASE client.pc = "auth"
    <2>1. Agreed(client.in, client.cwd)
      BY <1>2 DEF Told, Moving, ClientAt
    <2> QED BY <1>1, <1>2, <2>1 DEF Told, Agreed, ClientAt
  <1>3. CASE client.pc \in {"pwd", "moved"}
    BY <1>1, <1>3 DEF Told, Agreed, Moving, ClientAt
  <1>4. CASE client.pc \notin {"auth", "pwd", "moved"}
    BY <1>1, <1>4 DEF Told, Agreed, Moving, ClientAt
  <1> QED BY <1>2, <1>3, <1>4

LEMMA HandlesTold ==
    ASSUME TypeOK, Placed, Matched, Joined, Talk, Told, InStep, InStep', link = "open", Handles
    PROVE  Told'
  <1>1. ~Gone /\ client' = client /\ client.pc # "exited" /\ link' = link
    <2>1. client.pc # "exited"
      BY DEF Joined, ClientAt
    <2> QED BY <2>1, OpenStill DEF ThreadProceeds
  <1>2. /\ client.pc # "prompt" /\ Exchanging /\ toClient = <<>>
        /\ toServer[1].word = IF client.pc = "pwd" THEN "PWD" ELSE client.cmd
    <2>1. toServer # <<>> /\ ThreadAt("recv")
      BY HandlesShape
    <2> QED BY <1>1, <2>1, WhatAnswers DEF ThreadAt
  <1>0. /\ client.cmd \in {"LOGIN", "LOGOUT"} => client.pc = "auth"
        /\ client.cmd \in {"CD", "OPEN_SHARED_FOLDER"} => client.pc \in {"moved", "pwd"}
        /\ client.cmd = "EXIT_SHARED" => client.pc = "reply"
    <2>1. \A w \in {"LOGIN", "LOGOUT", "CD", "OPEN_SHARED_FOLDER"} : w \notin Plain
      BY DEF Plain, Edits, Shares
    <2>2. "EXIT_SHARED" \in Plain
      BY DEF Plain
    <2>3. \/ client.pc = "auth" /\ client.cmd \in {"REGISTER", "LOGIN", "LOGOUT"}
          \/ client.pc \in {"moved", "pwd"} /\ client.cmd \in {"CD", "OPEN_SHARED_FOLDER"}
          \/ client.cmd \in Lists \/ client.cmd = "UPLOAD" \/ client.cmd \in Gets
          \/ client.pc = "reply" /\ client.cmd \in Plain
      BY <1>2 DEF Exchanging, Matched
    <2> QED BY <2>1, <2>2, <2>3, Kinds
  <1>3. ASSUME NEW words, Takes(words)
        PROVE  (IF client.pc = "pwd" THEN "PWD" ELSE client.cmd) \in words
    <2>1. Asked.word \in words /\ toServer # <<>> /\ toServer \in Seq(Ups)
      BY <1>3, TakesTyped, Heads DEF Takes
    <2> QED BY <1>2, <2>1, Read1Typed DEF Asked
  <1>4. ASSUME NEW r, Send(r)
        PROVE  Len(toClient') = 1 /\ toClient'[1] = r /\ toClient' # <<>>
    <2>1. Len(toClient') = 1 /\ toClient'[1] = r
      BY <1>2, <1>4, PutFirst DEF Send
    <2> QED BY <2>1, EmptyQueue
  <1>5. ASSUME NEW code, Says(code)
        PROVE  Len(toClient') = 1 /\ toClient'[1].code = code /\ toClient' # <<>>
    BY <1>4, <1>5, CodesSent DEF Says, Replies
  <1>6. client.pc \in {"auth", "moved", "pwd", "first", "ready", "start", "reply"}
    BY <1>2 DEF Exchanging
  <1>7. session \in SessionState /\ session.cwd \in Paths /\ session.oldCwd \in Paths
    BY DEF TypeOK, SessionState
  <1>8. /\ client.pc = "pwd" => Agreed(client.in, session.cwd)
        /\ client.pc # "pwd" => Agreed(client.in, client.cwd)
        /\ ~session.in => session = InitSession
    BY <1>2 DEF Told, Moving, ClientAt
  <1>9. CASE HandlePlain
    <2>1. Says("200") /\ session' = session
      BY <1>9 DEF HandlePlain, SessionKept
    <2>2. (IF client.pc = "pwd" THEN "PWD" ELSE client.cmd) \in {"REGISTER"} \cup Edits \cup Shares
      BY <1>3, <1>9 DEF HandlePlain
    <2>3. client.pc # "pwd" /\ client.cmd \notin {"LOGIN", "LOGOUT"}
      BY <2>2 DEF Edits, Shares
    <2> QED BY <1>1, <1>2, <1>5, <2>1, <2>3, AnsweredTold
  <1>10. CASE HandleRefused
    <2>1. Says("error") /\ session' = session
      BY <1>10 DEF HandleRefused, SessionKept
    <2>2. client.pc = "pwd" => ~session.in
      <3>1. (IF client.pc = "pwd" THEN "PWD" ELSE client.cmd) \in Words \ NeverRefused
        BY <1>3, <1>10 DEF HandleRefused
      <3> QED BY <3>1 DEF NeverRefused
    <2> QED BY <1>1, <1>2, <1>5, <2>1, <2>2, AnsweredTold
  <1>11. CASE HandlePwd
    <2> DEFINE r == [Line("200") EXCEPT !.path = session.cwd]
    <2>1. Send(r) /\ session' = session /\ r.code = "200" /\ r.path = session.cwd
      BY <1>11 DEF HandlePwd, SessionKept, Replies, Line
    <2>2. client.pc = "pwd" \/ client.cmd = "PWD"
      BY <1>3, <1>11 DEF HandlePwd
    <2>3. client.pc = "auth" => client.cmd \notin {"LOGIN", "LOGOUT"}
      BY <2>2
    <2> HIDE DEF r
    <2> QED BY <1>1, <1>2, <1>4, <2>1, <2>3, AnsweredTold
  <1>12. CASE BeginList \/ BeginUpload \/ BeginDownload \/ DownloadDeleted
    <2>1. /\ session' = session
          /\ (IF client.pc = "pwd" THEN "PWD" ELSE client.cmd) \in Lists \cup Gets \cup {"UPLOAD"}
      BY <1>3, <1>12 DEF BeginList, BeginUpload, BeginDownload, DownloadDeleted, SessionKept, Gets
    <2>2. client.pc # "pwd" /\ client.cmd \notin {"LOGIN", "LOGOUT"}
      BY <2>1, Kinds
    <2>3. Len(toClient') = 1
      BY <1>4, <1>12 DEF BeginList, BeginUpload, BeginDownload, DownloadDeleted, Says, Replies
    <2> QED BY <1>1, <1>2, <2>1, <2>2, <2>3, AnsweredTold
  <1>13. CASE HandleLogin
    <2>1. client.pc # "pwd" /\ client.cmd = "LOGIN" /\ ~session.in
      BY <1>3, <1>13 DEF HandleLogin
    <2>2. client.pc = "auth"
      BY <1>0, <2>1
    <2>3. session = InitSession /\ ~client.in
      BY <1>8, <2>1 DEF Agreed
    <2>4. CASE Says("200") /\ session' = [session EXCEPT !.in = TRUE, !.cwd = <<>>, !.at = Home]
      <3>1. session'.in /\ session'.cwd = <<>> /\ ~session'.sharing
        BY <2>3, <2>4 DEF InitSession
      <3> QED BY <1>1, <1>5, <2>1, <2>2, <2>4, <3>1 DEF Told, Agreed, ClientAt
    <2>5. CASE Says("error") /\ session' = [session EXCEPT !.in = TRUE, !.cwd = <<>>]
      <3>1. session'.in /\ session'.at = Nowhere /\ ~session'.sharing
        BY <2>3, <2>5 DEF InitSession
      <3> QED BY <1>1, <1>5, <2>1, <2>2, <2>3, <2>5, <3>1 DEF Told, Agreed, ClientAt
    <2> QED BY <1>13, <2>4, <2>5 DEF HandleLogin
  <1>14. CASE HandleLogout
    <2>1. /\ client.pc # "pwd" /\ client.cmd = "LOGOUT"
          /\ Says("200") /\ session' = InitSession
      BY <1>3, <1>14 DEF HandleLogout
    <2>2. client.pc = "auth"
      BY <1>0, <2>1
    <2>3. ~session'.in
      BY <2>1 DEF InitSession
    <2> QED BY <1>1, <1>5, <2>1, <2>2, <2>3 DEF Told, Agreed, ClientAt
  <1>15. ASSUME client.cmd \in {"CD", "OPEN_SHARED_FOLDER"}, client.pc # "pwd", Says("200"),
                session'.in = session.in, session.in,
                ~client.in => /\ session'.at = Nowhere \/ Abroad(session'.cwd)
                              /\ session'.sharing => session'.old = Nowhere \/ Abroad(session'.oldCwd)
         PROVE  Told'
    <2>1. client.pc = "moved"
      BY <1>0, <1>15
    <2>2. toClient' # <<>>
      BY <1>5, <1>15
    <2>3. client.in => session.in
      BY <1>8, <1>15 DEF Agreed
    <2> QED BY <1>1, <1>15, <2>1, <2>2, <2>3 DEF Told, Agreed, Moving, ClientAt
  <1>16. ~client.in /\ session.in =>
            /\ session.at = Nowhere \/ Abroad(session.cwd)
            /\ session.sharing => session.old = Nowhere \/ Abroad(session.oldCwd)
    BY <1>8 DEF Agreed
  <1>17. CASE HandleCdUp
    <2>1. /\ (IF client.pc = "pwd" THEN "PWD" ELSE client.cmd) \in {"CD"}
          /\ Says("200") /\ session.in /\ session.at # Nowhere
      BY <1>3, <1>17 DEF HandleCdUp
    <2>2. /\ session'.cwd = PathAbove(session.cwd) /\ session'.in = session.in
          /\ session'.sharing = session.sharing /\ session'.old = session.old
          /\ session'.oldCwd = session.oldCwd
      BY <1>7, <1>17 DEF HandleCdUp, SessionState
    <2>3. client.cmd = "CD" /\ client.pc # "pwd"
      BY <2>1
    <2> QED BY <1>7, <1>15, <1>16, <2>1, <2>2, <2>3, AbroadUp
  <1>18. CASE HandleCdDown
    <2>1. /\ (IF client.pc = "pwd" THEN "PWD" ELSE client.cmd) \in {"CD"}
          /\ Says("200") /\ session.in /\ session.at # Nowhere /\ Asked.dir \in Names
      BY <1>3, <1>18 DEF HandleCdDown
    <2>2. /\ session'.cwd = Append(session.cwd, Asked.dir) /\ session'.in = session.in
          /\ session'.sharing = session.sharing /\ session'.old = session.old
          /\ session'.oldCwd = session.oldCwd
      BY <1>7, <1>18 DEF HandleCdDown, SessionState
    <2>3. client.cmd = "CD" /\ client.pc # "pwd"
      BY <2>1
    <2> QED BY <1>7, <1>15, <1>16, <2>1, <2>2, <2>3, AbroadDown
  <1>19. CASE HandleOpenShared
    <2>1. /\ (IF client.pc = "pwd" THEN "PWD" ELSE client.cmd) \in {"OPEN_SHARED_FOLDER"}
          /\ Says("200") /\ session.in
      BY <1>3, <1>19 DEF HandleOpenShared
    <2> PICK f \in Shareable, n \in Names :
           session' = [session EXCEPT !.sharing = TRUE, !.at = f, !.root = f, !.old = session.at,
                                      !.oldCwd = session.cwd, !.cwd = <<"them:", n>>]
      BY <1>19 DEF HandleOpenShared
    <2>2. /\ session'.cwd = <<"them:", n>> /\ session'.in = session.in
          /\ session'.old = session.at /\ session'.oldCwd = session.cwd
      BY <1>7 DEF SessionState
    <2>3. Abroad(session'.cwd)
      BY <2>2 DEF Abroad
    <2>4. client.cmd = "OPEN_SHARED_FOLDER" /\ client.pc # "pwd"
      BY <2>1
    <2> QED BY <1>15, <1>16, <2>1, <2>2, <2>3, <2>4
  <1>20. CASE HandleExitShared
    <2>1. /\ (IF client.pc = "pwd" THEN "PWD" ELSE client.cmd) \in {"EXIT_SHARED"}
          /\ Says("200") /\ session.in /\ session.sharing
      BY <1>3, <1>20 DEF HandleExitShared
    <2>2. client.cmd = "EXIT_SHARED" /\ client.pc # "pwd"
      BY <2>1
    <2>3. client.pc = "reply"
      BY <1>0, <2>2
    <2>4. /\ session'.cwd = session.oldCwd /\ session'.in = session.in
          /\ ~session'.sharing /\ session'.at = session.old
      BY <1>7, <1>20 DEF HandleExitShared, SessionState
    <2>5. Abroad(session.cwd)
      BY <2>1 DEF Placed
    <2>6. client.in => Abroad(client.cwd)
      BY <1>8, <2>1, <2>2, <2>5 DEF Agreed
    <2> QED BY <1>1, <1>16, <2>1, <2>3, <2>4, <2>6 DEF Told, Agreed, Moving, ClientAt
  <1>21. ~DownloadSilent
    BY DEF DownloadSilent, Derailed, InStep
  <1> QED BY <1>9, <1>10, <1>11, <1>12, <1>13, <1>14, <1>17, <1>18, <1>19, <1>20, <1>21 DEF Handles

LEMMA ToldKept ==
    TypeOK /\ Placed /\ Matched /\ Joined /\ Talk /\ Told /\ [Next]_vars => Told'
  <1> SUFFICES ASSUME TypeOK, Placed, Matched, Joined, Talk, Told, [Next]_vars,
                      InStep', link' = "open"
               PROVE  Told'
    BY DEF Told
  <1>1. InStep
    BY StillInStep
  <1>2. link = "open" /\ ~ClientLeaves /\ ~ServerDies
    <2>1. ~ClientLeaves /\ ~ServerDies
      BY DEF ClientLeaves, ServerDies
    <2> QED BY <2>1, ClientSteps, ThreadSteps DEF Next, vars
  <1>3. CASE UserAsks \/ ClientProceeds
    BY <1>1, <1>2, <1>3, ClientTold
  <1>4. CASE Handles
    BY <1>1, <1>2, <1>4, HandlesTold
  <1>5. CASE ThreadProceeds /\ ~Handles
    <2>1. client.pc # "exited"
      BY <1>2 DEF Joined, ClientAt
    <2>2. ~Gone /\ client' = client /\ ~ClientLeft
      BY <1>5, <2>1, OpenStill
    <2>3. ~ThreadEnds
      BY <2>2 DEF ThreadEnds
    <2>4. thread.pc # "recv" /\ session' = session
      BY <1>5, <2>3 DEF ThreadProceeds, ListEntry, ListEnd, ListFails, SaveRefused, SaveSome,
         SaveEnded, SaveDone, SendRefused, SendSome, SendDone, ThreadAt, SessionKept
    <2>5. client.pc \notin {"auth", "pwd", "moved"}
      BY <1>1, <2>1, <2>2, <2>4, WhatAnswers DEF ThreadAt, Exchanging
    <2> QED BY <1>1, <1>2, <2>2, <2>4, <2>5, ToldStill
  <1>6. CASE UNCHANGED vars
    BY <1>6 DEF vars, Told, InStep, Agreed, Moving, ClientAt
  <1> QED BY <1>2, <1>3, <1>4, <1>5, <1>6 DEF Next

LEMMA ToldPrompt == Told => PromptTold
  BY DEF Told, PromptTold, Agreed, Moving, ClientAt

\* The prompt shows where the session is, but for the two cases that
\* PromptTold names: the folder and its path are moved by requests whose
\* answers do not carry them, and asked for by a request of their own.
THEOREM PromptsTrue == Spec => []PromptTold
  <1>1. Shared /\ Placed /\ Told /\ [Next]_vars => (Placed /\ Told)'
    BY PlacedKept, ToldKept DEF Shared
  <1>2. Init => Placed /\ Told
    BY InitPlaced, InitTold
  <1> QED BY <1>1, <1>2, SharedAlways, ToldPrompt, PTL DEF Spec

-----------------------------------------------------------------------------
(* The conversation is a sequence of calls.                                *)

LEMMA PhaseOf ==
    ASSUME Shared, InStep, link = "open"
    PROVE  /\ client.pc = "prompt" => Phase = "idle" /\ toClient = <<>> /\ toServer = <<>>
           /\ client.pc # "prompt" =>
                 /\ Phase = IF Exchanging /\ toClient = <<>> THEN "called" ELSE "served"
                 /\ IF Exchanging /\ toClient = <<>> THEN LoneRequest(toServer)
                    ELSE toServer = <<>> \/ LonePiece(toServer)
           /\ ~Gone /\ client.pc # "exited"
  <1>1. TypeOK /\ Working /\ Matched /\ Joined /\ Talk
    BY DEF Shared
  <1>2. ~Gone /\ client.pc # "exited"
    BY <1>1 DEF Gone, ServerLeft, Joined, ClientAt
  <1>3. CASE client.pc = "prompt"
    <2>1. toClient = <<>> /\ toServer = <<>>
      BY <1>1, <1>2, <1>3 DEF Talk, ClientAt
    <2> QED BY <1>2, <1>3, <2>1 DEF Phase, ClientAt
  <1>4. CASE client.pc # "prompt"
    <2>1. \/ Exchanging /\ toClient = <<>> /\ LoneRequest(toServer)
          \/ ~(Exchanging /\ toClient = <<>>) /\ (toServer = <<>> \/ LonePiece(toServer))
      <3>1. CASE Exchanging
        <4>1. Exchange
          BY <1>1, <1>2, <1>4, <3>1 DEF Talk, ClientAt
        <4>2. LoneLine(toClient) => toClient # <<>>
          BY <1>1, Heads, Lone DEF LoneLine
        <4> QED BY <1>2, <3>1, <4>1, <4>2 DEF Exchange
      <3>2. CASE ~Exchanging
        <4>1. CASE thread.pc = "recv" /\ toServer = <<>>
          BY <3>2, <4>1
        <4>2. CASE ~(thread.pc = "recv" /\ toServer = <<>>)
          <5>1. /\ Answering
                /\ \/ client.cmd \in Lists
                   \/ client.cmd = "UPLOAD" /\ ThreadAt("saving")
                   \/ client.cmd \in Gets
            BY <1>1, <1>2, <3>2, <4>2, WhatAnswers
          <5>2. CASE client.cmd \in Lists
            BY <1>2, <3>2, <5>1, <5>2 DEF Answering, Listing
          <5>3. CASE client.cmd = "UPLOAD"
            BY <1>2, <3>2, <5>1, <5>3 DEF Answering, Uploading
          <5>4. CASE client.cmd \in Gets
            BY <1>2, <3>2, <5>1, <5>4 DEF Answering, Downloading
          <5> QED BY <5>1, <5>2, <5>3, <5>4
        <4> QED BY <4>1, <4>2
      <3> QED BY <3>1, <3>2
    <2>2. LoneRequest(toServer) => toServer # <<>> /\ Head(toServer).is = "request"
      BY <1>1, Heads, Lone, Read1Typed DEF LoneRequest
    <2>3. LonePiece(toServer) => toServer # <<>> /\ Head(toServer).is = "data"
      BY <1>1, Heads, Lone, Read1Typed DEF LonePiece
    <2> QED BY <1>2, <1>4, <2>1, <2>2, <2>3 DEF Phase, ClientAt
  <1> QED BY <1>2, <1>3, <1>4

\* the client goes on with what it is told, after its request has been served
LEMMA ClientServed ==
    ASSUME Shared, InStep, link = "open", ClientProceeds
    PROVE  Phase = "served" /\ client.pc # "prompt"
  <1>1. ~Closed
    BY DEF Closed, ServerLeft
  <1>2. Hears => toClient # <<>>
    BY DEF Hears
  <1>3. client.pc \in ClientPlaces \ {"prompt", "exited"}
        /\ (Hears \/ client.pc \in {"stream", "fetch"})
    BY <1>1 DEF ClientProceeds, AuthReply, TakeReply, AskPwd, PwdReply, FirstLine, NextLine,
       PutReady, PutStream, PutDone, GetStart, GetFetch, GetEnded, GetDone, Heard, NotHeard,
       ClientAt, ClientPlaces
  <1>4. client.pc \in {"stream", "fetch"} => ~Exchanging
    BY DEF Exchanging
  <1> QED BY <1>2, <1>3, <1>4, PhaseOf

LEMMA CallStep ==
    ASSUME Shared, Shared', [Next]_vars
    PROVE  [Calls!Next]_<<Phase, client.cmd, session>>
  <1>1. CASE ~(InStep' /\ link' = "open")
    <2>1. Phase' = "lost"
      BY <1>1 DEF Phase, InStep
    <2> QED BY <2>1 DEF Calls!Next, Calls!Lose
  <1>2. CASE InStep' /\ link' = "open"
    <2>1. TypeOK /\ Working /\ Matched /\ Joined /\ Talk
      BY DEF Shared
    <2>2. InStep
      BY <1>2, <2>1, StillInStep
    <2>3. link = "open" /\ ~ClientLeaves /\ ~ServerDies
      <3>1. ~ClientLeaves /\ ~ServerDies
        BY <1>2 DEF ClientLeaves, ServerDies
      <3> QED BY <1>2, <3>1, ClientSteps, ThreadSteps DEF Next, vars
    <2>4. /\ client'.pc = "prompt" => Phase' = "idle"
          /\ client'.pc # "prompt" /\ toServer' # <<>> /\ Head(toServer').is = "request"
                => Phase' = "called"
          /\ client'.pc # "prompt" /\ (toServer' = <<>> \/ Head(toServer').is = "data")
                => Phase' = "served"
      BY <1>2 DEF Phase, ClientAt, InStep
    <2>5. CASE UserAsks
      <3> PICK word, dir, n, pc : Ask(word, dir, n, pc) /\ Fits(word, pc)
        BY <2>5, AsksFit
      <3>1. /\ client.pc = "prompt" /\ client'.pc = pc /\ pc # "prompt" /\ client'.cmd = word
            /\ session' = session /\ word \in Words
        BY <2>1 DEF TypeOK, ClientState, Ask, ThreadUntouched, ClientAt, Fits, Plain, Words
      <3>2. Phase = "idle" /\ toServer = <<>>
        BY <2>2, <2>3, <3>1, PhaseOf
      <3> DEFINE r == [is |-> "request", word |-> word, dir |-> dir, n |-> n]
      <3>3. SendUp(r) /\ r.is = "request"
        BY DEF Ask
      <3> HIDE DEF r
      <3>4. Len(toServer') = 1 /\ toServer'[1] = r
        BY <2>3, <3>2, <3>3, PutFirst DEF SendUp
      <3>5. toServer' # <<>> /\ Head(toServer') = toServer'[1]
        BY <3>4
      <3>6. Phase' = "called"
        BY <2>4, <3>1, <3>3, <3>4, <3>5
      <3> QED BY <3>1, <3>2, <3>6 DEF Calls!Next, Calls!Call
    <2>6. CASE ClientProceeds
      <3>1. Phase = "served" /\ client.pc # "prompt" /\ session' = session
        BY <2>2, <2>3, <2>6, ClientServed, ClientSteps
      <3>2. toServer = <<>> \/ LonePiece(toServer)
        BY <2>2, <2>3, <3>1, PhaseOf
      <3>3. CASE client'.pc = "prompt"
        <4>1. client'.cmd = "none"
          <5>1. client \in ClientState
            BY <2>1 DEF TypeOK
          <5>2. \A in, path : Prompt(in, path) => client'.cmd = "none"
            BY DEF Prompt, InitClient
          <5>3. Back => client'.cmd = "none"
            BY <5>2 DEF Back
          <5> QED BY <2>6, <3>1, <3>3, <5>1, <5>2, <5>3
                DEF ClientProceeds, AuthReply, Authenticated, TakeReply, AskPwd, PwdReply, FirstLine,
                    NextLine, PutReady, PutStream, PutDone, GetStart, GetFetch, GetEnded, GetDone,
                    Waits, ClientState, ClientAt
        <4> QED BY <2>4, <3>1, <3>3, <4>1 DEF Calls!Next, Calls!Return
      <3>4. CASE client'.pc # "prompt" /\ AskPwd
        <4>1. client.pc = "moved" /\ client'.cmd = client.cmd /\ Hears
          BY <2>1, <2>3, <3>4 DEF AskPwd, Waits, TypeOK, ClientState, ClientAt, Closed, ServerLeft
        <4>2. toServer = <<>>
          <5>1. Exchange
            BY <2>1, <2>2, <4>1 DEF Talk, ClientAt, Exchanging
          <5> QED BY <2>3, <4>1, <5>1 DEF Exchange, Hears, Gone, ServerLeft
        <4> DEFINE r == [is |-> "request", word |-> "PWD", dir |-> "..", n |-> 0]
        <4>3. SendUp(r) /\ r.is = "request"
          BY <3>4 DEF AskPwd
        <4> HIDE DEF r
        <4>4. Len(toServer') = 1 /\ toServer'[1] = r
          BY <2>3, <4>2, <4>3, PutFirst DEF SendUp
        <4>5. toServer' # <<>> /\ Head(toServer') = toServer'[1]
          BY <4>4
        <4>6. Phase' = "called" /\ client.cmd \in {"CD", "OPEN_SHARED_FOLDER"}
          BY <2>1, <2>4, <3>4, <4>1, <4>3, <4>4, <4>5 DEF Matched
        <4> QED BY <3>1, <4>1, <4>6 DEF Calls!Next, Calls!AskBack
      <3>5. CASE client'.pc # "prompt" /\ ~AskPwd
        <4>1. client'.cmd = client.cmd
          <5>1. client \in ClientState
            BY <2>1 DEF TypeOK
          <5>2. \A in, path : Prompt(in, path) => client'.pc = "prompt"
            BY BackAtPrompt
          <5>3. Back => client'.pc = "prompt"
            BY BackAtPrompt
          <5> QED BY <2>6, <3>5, <5>1, <5>2, <5>3
                DEF ClientProceeds, AuthReply, Authenticated, TakeReply, PwdReply, FirstLine,
                    NextLine, PutReady, PutStream, PutDone, GetStart, GetFetch, GetEnded, GetDone,
                    Waits, ClientState
        <4>2. toServer' = <<>> \/ Head(toServer').is = "data"
          <5>1. CASE toServer' = toServer
            BY <2>1, <3>2, <5>1, Heads, Lone, Read1Typed DEF LonePiece
          <5>2. CASE PutStream /\ toServer' # toServer
            <6> DEFINE n == Least(ClientBuf, client.left)
            <6>1. n \in Nat /\ SendUp(Piece(n))
              <7>1. client.left \in Nat
                BY <2>1 DEF TypeOK, ClientState
              <7>2. SendUp(Piece(n))
                BY <5>2 DEF PutStream
              <7> QED BY <7>1, <7>2, SizesAssumption, LeastTyped
            <6> HIDE DEF n
            <6>2. LonePiece(toServer')
              <7>1. CASE toServer = <<>>
                BY <2>3, <6>1, <7>1, PutFirst DEF SendUp, LonePiece, Piece
              <7>2. CASE LonePiece(toServer)
                BY <2>1, <2>3, <6>1, <7>2, Heads, PutPiece DEF SendUp, LonePiece
              <7> QED BY <3>2, <7>1, <7>2
            <6>3. toServer' # <<>> /\ Head(toServer') = toServer'[1]
              BY <6>2 DEF LonePiece
            <6> QED BY <6>2, <6>3 DEF LonePiece
          <5>3. toServer' = toServer \/ PutStream
            BY <2>6, <3>5 DEF ClientProceeds, AuthReply, TakeReply, PwdReply, FirstLine, NextLine,
               PutReady, PutDone, GetStart, GetFetch, GetEnded, GetDone, OnlyReads
          <5> QED BY <5>1, <5>2, <5>3
        <4>3. Phase' = Phase
          BY <2>4, <3>1, <3>5, <4>2
        <4> QED BY <3>1, <4>1, <4>3
      <3> QED BY <3>3, <3>4, <3>5
    <2>7. CASE Handles
      <3>1. ~Gone /\ client.pc # "exited" /\ client' = client
        BY <2>1, <2>2, <2>3, <2>7, PhaseOf, OpenStill DEF ThreadProceeds
      <3>2. /\ client.pc # "prompt" /\ Exchanging /\ toClient = <<>> /\ LoneRequest(toServer)
            /\ toServer[1].word = IF client.pc = "pwd" THEN "PWD" ELSE client.cmd
        <4>1. toServer # <<>> /\ ThreadAt("recv")
          BY <1>2, <2>1, <2>7, HandlesShape
        <4> QED BY <2>1, <2>2, <3>1, <4>1, WhatAnswers DEF ThreadAt
      <3>3. Phase = "called"
        BY <2>2, <2>3, <3>2, PhaseOf
      <3>4. toServer' = <<>>
        <4>1. toServer' = Tail(toServer)
          BY <1>2, <2>1, <2>7, HandlesShape
        <4> QED BY <2>1, <3>2, <4>1, Heads, Lone DEF LoneRequest
      <3>5. Phase' = "served"
        BY <2>4, <3>1, <3>2, <3>4
      <3>6. \/ session' = session
            \/ client.cmd \in {"LOGIN", "LOGOUT", "CD", "OPEN_SHARED_FOLDER", "EXIT_SHARED"}
        <4>1. Asked = toServer[1]
          BY <2>1, <3>2, Heads, Lone, Read1Typed DEF LoneRequest, Asked
        <4>2. ASSUME session' # session
              PROVE  Asked.word \in {"LOGIN", "LOGOUT", "CD", "OPEN_SHARED_FOLDER", "EXIT_SHARED"}
          BY <2>7, <4>2 DEF Handles, HandlePlain, HandleRefused, HandleLogin, HandleLogout, HandlePwd,
             HandleCdUp, HandleCdDown, HandleOpenShared, HandleExitShared, BeginList, BeginUpload,
             BeginDownload, DownloadDeleted, DownloadSilent, SessionKept, Takes
        <4> QED BY <3>2, <4>1, <4>2
      <3> QED BY <3>1, <3>3, <3>5, <3>6 DEF Calls!Next, Calls!Serve
    <2>8. CASE ThreadProceeds /\ ~Handles
      <3>1. ~Gone /\ client.pc # "exited" /\ client' = client /\ ~ClientLeft
        BY <2>1, <2>2, <2>3, <2>8, PhaseOf, OpenStill
      <3>2. ~ThreadEnds
        BY <3>1 DEF ThreadEnds
      <3>3. /\ thread.pc # "recv" /\ session' = session
            /\ toServer' = toServer \/ SaveSome
        BY <2>8, <3>2 DEF ThreadProceeds, ListEntry, ListEnd, ListFails, SaveRefused, SaveSome,
           SaveEnded, SaveDone, SendRefused, SendSome, SendDone, ThreadAt, SessionKept
      <3>4. client.pc # "prompt" /\ ~Exchanging
        BY <2>1, <2>2, <3>1, <3>3, WhatAnswers DEF ThreadAt
      <3>5. Phase = "served" /\ (toServer = <<>> \/ LonePiece(toServer))
        BY <2>2, <2>3, <3>4, PhaseOf
      <3>6. toServer' = <<>> \/ Head(toServer').is = "data"
        <4>1. LonePiece(toServer) => Head(toServer).is = "data"
          BY <2>1, Heads, Lone, Read1Typed DEF LonePiece
        <4>2. CASE SaveSome
          <5>1. LonePiece(toServer)
            BY <3>5, <4>2 DEF SaveSome
          <5>2. toServer' = <<>> \/ LonePiece(toServer')
            BY <2>1, <4>2, <5>1, SavedShape
          <5>3. toServer' \in Seq(Ups)
            BY DEF Shared, TypeOK, Ups
          <5> QED BY <5>2, <5>3, Lone, Read1Typed DEF LonePiece
        <4> QED BY <3>3, <3>5, <4>1, <4>2
      <3>7. Phase' = "served"
        BY <2>4, <3>1, <3>4, <3>6
      <3> QED BY <3>1, <3>3, <3>5, <3>7
    <2>9. CASE UNCHANGED vars
      BY <2>9 DEF vars, Phase, InStep, ClientAt
    <2> QED BY <2>3, <2>5, <2>6, <2>7, <2>8, <2>9 DEF Next
  <1> QED BY <1>1, <1>2

\* The client, the thread and the stream implement Call: every command is
\* carried out once, before its prompt comes back, whatever files and
\* listings go over the connection, until the connection is lost.
THEOREM Implements == Spec => CalledOnce
  <1>1. Init => Calls!Init
    BY DEF Init, Calls!Init, Phase, InStep, ClientAt, InitClient
  <1>2. Shared /\ Shared' /\ [Next]_vars => [Calls!Next]_<<Phase, client.cmd, session>>
    BY CallStep
  <1> QED BY <1>1, <1>2, SharedAlways, PTL DEF Spec, CalledOnce, Calls!Spec
=============================================================================
