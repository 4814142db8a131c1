---------------------------- MODULE ServerProofs ---------------------------
(***************************************************************************)
(* Proofs about the composed server, for any clients, names and databases: *)
(* what its threads rely on, why the statements that read do not break it, *)
(* and why those that write do not.                                        *)
(***************************************************************************)
EXTENDS Server, TLAPS

-----------------------------------------------------------------------------
(* The store: rows that are added or written over, and the subtree of a    *)
(* folder, which nothing below it ever leaves.                             *)

\* A row added to a table, and a row of a table replaced.
LEMMA Appended ==
    ASSUME NEW T, NEW s \in Seq(T), NEW e \in T
    PROVE  /\ Append(s, e) \in Seq(T)
           /\ DOMAIN Append(s, e) = DOMAIN s \cup {Len(s) + 1}
           /\ Append(s, e)[Len(s) + 1] = e
           /\ \A i \in DOMAIN s : Append(s, e)[i] = s[i]
           /\ Len(s) + 1 \notin DOMAIN s
  OBVIOUS

LEMMA Replaced ==
    ASSUME NEW T, NEW s \in Seq(T), NEW i \in DOMAIN s, NEW e \in T
    PROVE  /\ [s EXCEPT ![i] = e] \in Seq(T)
           /\ DOMAIN [s EXCEPT ![i] = e] = DOMAIN s
           /\ [s EXCEPT ![i] = e][i] = e
           /\ \A j \in DOMAIN s \ {i} : [s EXCEPT ![i] = e][j] = s[j]
  OBVIOUS

\* wherever the index comes from
LEMMA Overwritten ==
    ASSUME NEW T, NEW s \in Seq(T), NEW i, NEW e \in T
    PROVE  [s EXCEPT ![i] = e] \in Seq(T)
  <1>1. CASE i \in DOMAIN s
    BY <1>1, Replaced
  <1>2. CASE i \notin DOMAIN s
    <2>1. [s EXCEPT ![i] = e] = s
      BY <1>2
    <2> QED BY <2>1
  <1> QED BY <1>1, <1>2

-----------------------------------------------------------------------------
LEMMA BelowItself == \A fs, f : Below(fs, f, f)
  BY DEF Below

LEMMA ChildBelow ==
    ASSUME NEW fs, NEW r, NEW f \in DOMAIN fs, Below(fs, fs[f].parent, r)
    PROVE  Below(fs, f, r)
  BY DEF Below, ClosedDown

\* A folder below r other than r has its parent below r: a set closed under
\* subfolders that missed the parent would stay closed without the folder.
LEMMA ParentBelow ==
    ASSUME NEW fs, NEW r, NEW f \in DOMAIN fs, f # r, Below(fs, f, r)
    PROVE  Below(fs, fs[f].parent, r)
  <1> SUFFICES ASSUME NEW S \in SUBSET DOMAIN fs, r \in S, ClosedDown(fs, S),
                      fs[f].parent \notin S
               PROVE  FALSE
    BY DEF Below
  <1> DEFINE T == S \ {f}
  <1>1. ClosedDown(fs, T)
    BY DEF ClosedDown
  <1>2. T \in SUBSET DOMAIN fs /\ r \in T
    OBVIOUS
  <1>3. f \in T
    BY <1>1, <1>2 DEF Below
  <1> QED BY <1>3

\* gs is fs with folders added, marked and renamed, none moved or given away.
Grown(fs, gs) ==
    /\ DOMAIN fs \subseteq DOMAIN gs
    /\ \A f \in DOMAIN fs : gs[f].parent = fs[f].parent /\ gs[f].owner = fs[f].owner

\* What is below a folder stays below it.
LEMMA StaysBelow ==
    ASSUME NEW fs, NEW gs, Grown(fs, gs), NEW r \in DOMAIN fs, NEW f, Below(fs, f, r)
    PROVE  Below(gs, f, r)
  <1> SUFFICES ASSUME NEW S \in SUBSET DOMAIN gs, r \in S, ClosedDown(gs, S)
               PROVE  f \in S
    BY DEF Below
  <1> DEFINE T == S \cap DOMAIN fs
  <1>1. ClosedDown(fs, T)
    BY DEF ClosedDown, Grown
  <1> QED BY <1>1 DEF Below

\* A folder is made after its parent, so what is below r is not older than r.
LEMMA BelowIsLater ==
    ASSUME NEW fs, NEW r \in DOMAIN fs, NEW f, Below(fs, f, r),
           DOMAIN fs \subseteq Nat,
           \A g \in DOMAIN fs : fs[g].parent \in Nat /\ fs[g].parent < g
    PROVE  f \in DOMAIN fs /\ r <= f
  <1> DEFINE S == {g \in DOMAIN fs : r <= g}
  <1>1. ClosedDown(fs, S)
    BY DEF ClosedDown
  <1>2. f \in S
    BY <1>1 DEF Below
  <1> QED BY <1>2

-----------------------------------------------------------------------------
(* What a thread may rely on between two statements of a request.          *)

WriteCommands == {"MKDIR", "RMDIR", "RENAME", "DELETE", "UPLOAD"}
GrantCommands == {"SHARE_FOLDER", "UNSHARE_FOLDER", "SHARE_FILE", "UNSHARE_FILE"}

\* The statements of the requests that write entries, or permissions.
RenameAt == {"rename_find_file", "file_rename", "folder_rename"}
WriteAt  == RenameAt \cup
    {"exist_dirname", "create_folder", "is_empty", "folder_soft_delete",
     "file_soft_delete", "file_exists", "receive", "file_insert"}
GrantAt  == {"find_user", "grant_folder", "revoke_folder", "grant_file", "revoke_file"}

Serving(r, cmds) == r.cmd \in cmds /\ r.pc # "reply"

\* the request is one its statement belongs to, with the arguments it needs
ControlOK(r) ==
    /\ r.pc = "idle" => r.cmd = "none"
    /\ r.pc \in {"user_exists", "user_insert", "create_root"} => r.name \in Users
    /\ r.pc \in {"exist_dirname", "create_folder", "file_exists", "receive", "file_insert"}
           => r.name \in Names
    /\ Serving(r, {"RENAME"}) => r.arg \in Names
    /\ r.pc \in RenameAt => r.cmd = "RENAME"
    /\ r.pc \in WriteAt => r.cmd \in WriteCommands
    /\ r.pc \in GrantAt => r.cmd \in GrantCommands
    /\ r.pc \in {"check_login", "find_root"} => r.cmd = "LOGIN"
    /\ r.pc \in {"parent_status", "find_parent"} => r.cmd = "CD"
    /\ r.pc \in {"exist_dirname", "create_folder"} => r.cmd = "MKDIR"
    /\ r.pc \in {"is_empty", "folder_soft_delete"} => r.cmd = "RMDIR"
    /\ r.pc \in {"file_exists", "receive", "file_insert"} => r.cmd = "UPLOAD"

\* the checks made when the request arrived still hold: only this thread
\* changes its session
SessionOK(s, r) ==
    /\ s.user = NoId => s = FreshSession
    /\ r.pc = "check_login" => s.user = NoId
    /\ r.pc = "find_root" => s.user # NoId /\ s = [FreshSession EXCEPT !.user = s.user]
    /\ Serving(r, WriteCommands \cup GrantCommands \cup {"CD"}) => s.user # NoId
    /\ Serving(r, WriteCommands) => ~(s.sharing /\ s.role = "viewer")
    /\ Serving(r, GrantCommands \cup {"LOGIN"}) => ~s.sharing
    /\ r.pc \in {"parent_status", "find_parent"} => ~(s.sharing /\ s.current = s.root)
    /\ r.pc \in {"check_access_folder", "access_info"} => s.user # NoId

\* Where the session stands, and what the looked-up id is: true when the
\* lookup was made, and no step of another thread can undo it.
StandsOK(fs, xs, s, r) ==
    /\ s.sharing => s.root \in DOMAIN fs /\ Below(fs, s.current, s.root)
    /\ r.pc \in {"find_folder", "find_parent"} => s.current \in DOMAIN fs
    /\ r.pc \in {"is_empty", "folder_soft_delete", "folder_rename"} =>
          r.id \in DOMAIN fs /\ fs[r.id].parent = s.current /\ s.current \in DOMAIN fs
    /\ r.pc \in {"file_rename", "file_soft_delete"} =>
          r.id \in DOMAIN xs /\ xs[r.id].folder = s.current

ConnOK(fs, xs, s, r) == ControlOK(r) /\ SessionOK(s, r) /\ StandsOK(fs, xs, s, r)

Typed ==
    /\ sess \in [Conns -> Session]
    /\ req \in [Conns -> Requests]

Tables ==
    /\ users \in Seq(Users)
    /\ folders \in Seq(FolderRow)
    /\ files \in Seq(FileRow)
    /\ folderPerms \in SUBSET FolderPerm
    /\ filePerms \in SUBSET FilePerm
    /\ blobs \in Seq(BlobStates)

TreeOK ==
    /\ \A f \in FolderIds : folders[f].parent < f
    /\ RootsStay
    /\ \A p \in folderPerms : p.folder \in FolderIds
    /\ \A x \in FileIds : files[x].folder \in FolderIds

Inv ==
    /\ Typed /\ Tables /\ TreeOK
    /\ \A c \in Conns : ConnOK(folders, files, sess[c], req[c])

\* A step of c's thread changes no other session or request; nobody's takes
\* a folder or a file elsewhere.
LocalStep(c) ==
    /\ Typed'
    /\ ConnOK(folders', files', sess'[c], req'[c])
    /\ \A d \in Conns \ {c} : sess'[d] = sess[d] /\ req'[d] = req[d]

FilesGrown(xs, ys) ==
    /\ DOMAIN xs \subseteq DOMAIN ys
    /\ \A x \in DOMAIN xs : ys[x].folder = xs[x].folder /\ ys[x].blob = xs[x].blob

StoreStep ==
    Tables' /\ TreeOK' /\ Grown(folders, folders') /\ FilesGrown(files, files')

LEMMA RowTyped ==
    ASSUME Tables, NEW f \in DOMAIN folders
    PROVE  f \in Nat /\ folders[f] \in FolderRow /\ folders[f].parent \in Nat
  <1>1. f \in Nat /\ folders[f] \in FolderRow
    BY DEF Tables
  <1> HIDE DEF FolderRow
  <1> QED BY <1>1 DEF FolderRow

LEMMA StillStands ==
    ASSUME NEW fs, NEW gs, NEW xs, NEW ys, NEW s, NEW r,
           Grown(fs, gs), FilesGrown(xs, ys), StandsOK(fs, xs, s, r)
    PROVE  StandsOK(gs, ys, s, r)
  <1>1. s.sharing => s.root \in DOMAIN gs /\ Below(gs, s.current, s.root)
    BY StaysBelow DEF StandsOK, Grown
  <1> QED BY <1>1 DEF StandsOK, Grown, FilesGrown

LEMMA StepInv == ASSUME Inv, NEW c \in Conns, LocalStep(c), StoreStep PROVE Inv'
  <1>1. ASSUME NEW d \in Conns PROVE ConnOK(folders', files', sess'[d], req'[d])
    <2>1. CASE d = c
      BY <2>1 DEF LocalStep
    <2>2. CASE d # c
      BY <2>2, StillStands DEF LocalStep, StoreStep, Inv, ConnOK
    <2> QED BY <2>1, <2>2
  <1> QED BY <1>1 DEF LocalStep, StoreStep, Inv

LEMMA SameStore == ASSUME Inv, UNCHANGED store PROVE StoreStep
  BY DEF StoreStep, Inv, Tables, TreeOK, RootsStay, FolderIds, FileIds, Grown, FilesGrown, store

-----------------------------------------------------------------------------
(* The request after a step: answered, moved on, or received.              *)

Others(c) == \A d \in Conns \ {c} : req'[d] = req[d]

Answered(c) ==
    /\ req' \in [Conns -> Requests] /\ Others(c)
    /\ req'[c].pc = "reply" \/ (req'[c].pc = "idle" /\ req'[c].cmd = "none")

MovedTo(c, pc) ==
    /\ req' \in [Conns -> Requests] /\ Others(c)
    /\ req'[c].pc = pc /\ req'[c].cmd = req[c].cmd
    /\ req'[c].name = req[c].name /\ req'[c].arg = req[c].arg /\ req'[c].role = req[c].role

LEMMA NoReqTyped == NoReq \in Requests
  BY DEF NoReq, Requests, Places, Roles, NoId

LEMMA ReplyToTyped ==
    ASSUME NEW cmd \in CommandNames \cup {"none"}, NEW code \in Nat
    PROVE  /\ ReplyTo(cmd, code) \in Requests
           /\ ReplyTo(cmd, code).pc = "reply" /\ ReplyTo(cmd, code).cmd = cmd
  BY NoReqTyped DEF ReplyTo, Requests, Places

LEMMA RequestTyped ==
    ASSUME NEW cmd \in CommandNames, NEW pc \in Places, NEW n \in Names \cup Users \cup {NoName}
    PROVE  /\ Request(cmd, pc, n) \in Requests
           /\ Request(cmd, pc, n).cmd = cmd /\ Request(cmd, pc, n).pc = pc
           /\ Request(cmd, pc, n).name = n
  BY NoReqTyped DEF Request, Requests

LEMMA Replies ==
    ASSUME NEW c \in Conns, Typed, NEW cmd \in CommandNames \cup {"none"}, NEW code \in Nat,
           Then(c, ReplyTo(cmd, code))
    PROVE  Answered(c)
  BY ReplyToTyped DEF Then, Answered, Others, Typed

LEMMA Answers ==
    ASSUME NEW c \in Conns, Typed, NEW code \in Nat, Reply(c, code)
    PROVE  Answered(c)
  BY Replies DEF Reply, Typed, Cmd, Requests

LEMMA Ends ==
    ASSUME NEW c \in Conns, Typed, Then(c, NoReq)
    PROVE  Answered(c)
  BY NoReqTyped DEF Then, Answered, Others, Typed, NoReq

LEMMA Goes ==
    ASSUME NEW c \in Conns, Typed, NEW pc \in Places, Goto(c, pc)
    PROVE  MovedTo(c, pc) /\ req'[c].id = req[c].id
  <1> DEFINE r == [req[c] EXCEPT !.pc = pc]
  <1>1. r \in Requests
    BY DEF Typed, Requests
  <1>2. /\ r.pc = pc /\ r.cmd = req[c].cmd /\ r.name = req[c].name /\ r.arg = req[c].arg
        /\ r.role = req[c].role /\ r.id = req[c].id
    BY DEF Typed, Requests
  <1>3. req' = [req EXCEPT ![c] = r]
    BY DEF Goto, Then
  <1> HIDE DEF r
  <1> QED BY <1>1, <1>2, <1>3 DEF MovedTo, Others, Typed

LEMMA Finds ==
    ASSUME NEW c \in Conns, Typed, NEW pc \in Places, NEW i \in Nat, Found(c, i, pc)
    PROVE  MovedTo(c, pc) /\ req'[c].id = i
  <1> DEFINE r == [req[c] EXCEPT !.id = i, !.pc = pc]
  <1>1. r \in Requests
    BY DEF Typed, Requests
  <1>2. /\ r.pc = pc /\ r.cmd = req[c].cmd /\ r.name = req[c].name /\ r.arg = req[c].arg
        /\ r.role = req[c].role /\ r.id = i
    BY DEF Typed, Requests
  <1>3. req' = [req EXCEPT ![c] = r]
    BY DEF Found, Then
  <1> HIDE DEF r
  <1> QED BY <1>1, <1>2, <1>3 DEF MovedTo, Others, Typed

-----------------------------------------------------------------------------

LEMMA AnswerLocal ==
    ASSUME NEW c \in Conns, Inv, Answered(c), sess' = sess,
           Grown(folders, folders'), FilesGrown(files, files')
    PROVE  LocalStep(c)
  <1>1. Typed'
    BY DEF Inv, Typed, Answered
  <1>2. ControlOK(req'[c]) /\ SessionOK(sess'[c], req'[c])
    BY DEF Inv, ConnOK, ControlOK, SessionOK, Serving, Answered, RenameAt, WriteAt, GrantAt,
           WriteCommands, GrantCommands
  <1>3. StandsOK(folders, files, sess'[c], req'[c])
    BY DEF Inv, ConnOK, StandsOK, Answered
  <1> QED BY <1>1, <1>2, <1>3, StillStands DEF LocalStep, ConnOK, Answered, Others

\* A request that moves to a statement with no demands on its session.
LEMMA MoveLocal ==
    ASSUME NEW c \in Conns, NEW pc, Inv, MovedTo(c, pc), sess' = sess,
           folders' = folders, files' = files, ControlOK(req'[c]), req[c].pc # "reply",
           StandsOK(folders, files, sess[c], req'[c]), pc \notin {"check_login", "find_root"},
           pc \in {"parent_status", "find_parent"} =>
               ~(sess[c].sharing /\ sess[c].current = sess[c].root),
           pc \in {"check_access_folder", "access_info"} => sess[c].user # NoId
    PROVE  LocalStep(c)
  <1>1. Typed'
    BY DEF Inv, Typed, MovedTo
  <1>2. SessionOK(sess'[c], req'[c])
    BY DEF Inv, ConnOK, SessionOK, Serving, MovedTo
  <1> QED BY <1>1, <1>2 DEF LocalStep, ConnOK, MovedTo, Others

Plain == {"list_files", "list_folders", "access_again", "find_by_id",
          "find_file", "check_status", "send", "list_users"}

LEMMA PlainMove ==
    ASSUME NEW c \in Conns, NEW pc \in Plain, Inv, MovedTo(c, pc), sess' = sess,
           folders' = folders, files' = files, req[c].pc # "reply"
    PROVE  LocalStep(c)
  <1>1. ControlOK(req'[c]) /\ StandsOK(folders, files, sess[c], req'[c])
    BY DEF Inv, ConnOK, ControlOK, StandsOK, Serving, MovedTo, Plain, RenameAt, WriteAt, GrantAt
  <1> QED BY <1>1, MoveLocal DEF Plain

-----------------------------------------------------------------------------
(* The handlers, statement by statement: no step of a thread breaks what   *)
(* the threads rely on.                                                    *)

LEMMA SessionAnswer ==
    ASSUME NEW c \in Conns, NEW s \in Session, Inv, Answered(c), SetSession(c, s),
           folders' = folders, files' = files,
           s.user = NoId => s = FreshSession,
           s.sharing => s.root \in FolderIds /\ Below(folders, s.current, s.root)
    PROVE  LocalStep(c)
  <1>1. Typed' /\ sess'[c] = s
    BY DEF Inv, Typed, Answered, SetSession
  <1>2. ControlOK(req'[c]) /\ SessionOK(s, req'[c])
    BY DEF ControlOK, SessionOK, Serving, Answered, RenameAt, WriteAt, GrantAt,
           WriteCommands, GrantCommands
  <1>3. StandsOK(folders, files, s, req'[c])
    BY DEF StandsOK, Answered, FolderIds
  <1> QED BY <1>1, <1>2, <1>3 DEF LocalStep, ConnOK, Answered, Others, SetSession, Inv, Typed

LEMMA Received ==
    ASSUME NEW c \in Conns, NEW r \in Requests, NEW refused \in Nat, Inv, Receive(c, r, refused),
           refused = 0 => ControlOK(r) /\ SessionOK(sess[c], r)
                             /\ StandsOK(folders, files, sess[c], r)
    PROVE  LocalStep(c) /\ UNCHANGED store
  <1>1. UNCHANGED store /\ sess' = sess
    BY DEF Receive
  <1>2. CASE refused = 0
    <2>1. req' = [req EXCEPT ![c] = r]
      BY <1>2 DEF Receive, Then
    <2>2. folders' = folders /\ files' = files
      BY <1>1 DEF store
    <2> QED BY <1>1, <1>2, <2>1, <2>2 DEF LocalStep, ConnOK, Inv, Typed
  <1>3. CASE refused # 0
    <2>1. Then(c, ReplyTo(r.cmd, refused)) /\ r.cmd \in CommandNames \cup {"none"}
      BY <1>3 DEF Receive, Requests
    <2>2. Answered(c)
      BY <2>1, Replies DEF Inv
    <2> QED BY <1>1, <2>2, AnswerLocal DEF store, Grown, FilesGrown
  <1> QED BY <1>2, <1>3

\* An answer after a statement that reads.
LEMMA Ended ==
    ASSUME NEW c \in Conns, NEW code \in Nat, Inv, Reply(c, code), UNCHANGED <<store, sess>>
    PROVE  LocalStep(c)
  BY Answers, AnswerLocal DEF Inv, store, Grown, FilesGrown

-----------------------------------------------------------------------------
(* The handlers, statement by statement: no step of a thread breaks what   *)
(* the threads rely on.                                                    *)

LEMMA UserExistsLocal ==
    ASSUME NEW c \in Conns, Inv, UserExists(c) PROVE LocalStep(c)
  <1>1. CASE Goto(c, "user_insert")
    <2>1. MovedTo(c, "user_insert")
      BY <1>1, Goes DEF Inv, Places, FailsWith500
    <2>2. ControlOK(req'[c]) /\ StandsOK(folders, files, sess[c], req'[c])
      BY <2>1 DEF Inv, UserExists, At, ConnOK, ControlOK, StandsOK, Serving, MovedTo,
                  RenameAt, WriteAt, GrantAt
    <2> QED BY <2>1, <2>2, MoveLocal DEF UserExists, At, store
  <1> QED BY <1>1, Ended DEF UserExists

LEMMA CheckLoginLocal ==
    ASSUME NEW c \in Conns, Inv, CheckLogin(c) PROVE LocalStep(c)
  <1>1. ASSUME NEW u \in UserNamed(req[c].name),
               SetSession(c, [sess[c] EXCEPT !.user = u]), Goto(c, "find_root")
        PROVE  LocalStep(c)
    <2> DEFINE s == [sess[c] EXCEPT !.user = u]
    <2>1. u \in Nat
      BY DEF UserNamed, UserIds, Inv, Tables
    <2>2. s \in Session /\ s.sharing = sess[c].sharing
      BY <2>1 DEF Inv, Typed, Session
    <2>3. MovedTo(c, "find_root")
      BY <1>1, Goes DEF Inv, Places, FailsWith500
    <2>4. req[c].cmd = "LOGIN" /\ sess[c] = FreshSession
      BY DEF Inv, CheckLogin, At, ConnOK, ControlOK, SessionOK
    <2>5. u # NoId /\ s = [FreshSession EXCEPT !.user = u] /\ s.user = u
      BY <2>1, <2>4 DEF FreshSession, UserNamed, UserIds, Inv, Tables, NoId
    <2>6. ~s.sharing
      BY <2>5 DEF FreshSession
    <2> HIDE DEF s
    <2>7. ConnOK(folders, files, s, req'[c])
      BY <2>3, <2>4, <2>5, <2>6 DEF ConnOK, ControlOK, SessionOK, StandsOK, Serving, MovedTo,
                  RenameAt, WriteAt, GrantAt, WriteCommands, GrantCommands
    <2>8. folders' = folders /\ files' = files
      BY DEF CheckLogin, store
    <2> QED BY <1>1, <2>2, <2>3, <2>7, <2>8 DEF s, SetSession, LocalStep, MovedTo, Others, Inv, Typed
  <1>2. ASSUME Reply(c, 401), sess' = sess PROVE LocalStep(c)
    BY <1>2, Ended DEF CheckLogin
  <1> QED BY <1>1, <1>2 DEF CheckLogin

LEMMA FindRootLocal ==
    ASSUME NEW c \in Conns, Inv, FindRoot(c) PROVE LocalStep(c)
  <1>1. ASSUME NEW f \in RootsOf(sess[c].user),
               SetSession(c, [sess[c] EXCEPT !.current = f]), Reply(c, 200)
        PROVE  LocalStep(c)
    <2>1. f \in Nat
      BY DEF RootsOf, FolderIds, Inv, Tables
    <2>2. [sess[c] EXCEPT !.current = f] \in Session
      BY <2>1 DEF Inv, Typed, Session
    <2>3. /\ ~[sess[c] EXCEPT !.current = f].sharing
          /\ [sess[c] EXCEPT !.current = f].user # NoId
      BY DEF Inv, FindRoot, At, ConnOK, ControlOK, SessionOK, Serving, Typed, Session
    <2> QED BY <1>1, <2>2, <2>3, Answers, SessionAnswer DEF FindRoot, Inv, store
  <1>2. ASSUME Reply(c, 500), sess' = sess PROVE LocalStep(c)
    BY <1>2, Ended DEF FindRoot
  <1> QED BY <1>1, <1>2 DEF FindRoot

LEMMA LogoutLocal ==
    ASSUME NEW c \in Conns, Inv, Logout(c) PROVE LocalStep(c)
  <1>1. FreshSession \in Session /\ ~FreshSession.sharing
    BY DEF FreshSession, Session, NoId, Roles
  <1>2. Answered(c)
    BY Replies DEF Logout, Inv, CommandNames
  <1> QED BY <1>1, <1>2, SessionAnswer, AnswerLocal DEF Logout, store, Grown, FilesGrown

LEMMA LookupCodes ==
    ASSUME NEW cmd \in FolderCommands,
           NEW ret \in {"ERR", "DELETED", "NOT_FOUND", "NAME_NOT_FOUND"}
    PROVE  /\ LookupCode[cmd][ret] \in Nat
           /\ LookupCode[cmd][ret] = 0 =>
                 cmd \in {"SHARE_FOLDER", "UNSHARE_FOLDER", "LIST_SHARED_USERS_FOLDER"}
  BY DEF FolderCommands, LookupCode

LEMMA AfterLookupTo ==
    /\ AfterLookup["RMDIR"] = "is_empty" /\ AfterLookup["RENAME"] = "folder_rename"
    /\ AfterLookup["SHARE_FOLDER"] = "grant_folder"
    /\ AfterLookup["UNSHARE_FOLDER"] = "revoke_folder"
    /\ AfterLookup["LIST_SHARED_USERS_FOLDER"] = "list_users"
    /\ DOMAIN AfterLookup = {"RMDIR", "RENAME", "SHARE_FOLDER", "UNSHARE_FOLDER",
                             "LIST_SHARED_USERS_FOLDER"}
    /\ \A cmd \in DOMAIN AfterLookup : AfterLookup[cmd] \in Places
  BY DEF AfterLookup, Places, FailsWith500

\* What follows a lookup belongs to the request that made it.
LEMMA AfterLookupControl ==
    ASSUME NEW c \in Conns, Inv, Cmd(c) \in DOMAIN AfterLookup, req[c].pc # "reply",
           MovedTo(c, AfterLookup[Cmd(c)])
    PROVE  ControlOK(req'[c])
  BY AfterLookupTo
  DEF Inv, ConnOK, ControlOK, Serving, MovedTo, Cmd, RenameAt, WriteAt, GrantAt, WriteCommands,
      GrantCommands

LEMMA LookupFailsLocal ==
    ASSUME NEW c \in Conns, Inv, Cmd(c) \in FolderCommands, req[c].pc # "reply",
           NEW ret \in {"ERR", "DELETED", "NOT_FOUND", "NAME_NOT_FOUND"},
           LookupFails(c, ret), UNCHANGED <<store, sess>>
    PROVE  LocalStep(c)
  <1>1. CASE LookupCode[Cmd(c)][ret] # 0
    BY <1>1, LookupCodes, Ended DEF LookupFails
  <1>2. CASE LookupCode[Cmd(c)][ret] = 0
    <2>1. Cmd(c) \in {"SHARE_FOLDER", "UNSHARE_FOLDER", "LIST_SHARED_USERS_FOLDER"}
      BY <1>2, LookupCodes
    <2>2. PICK i \in {NoId} \cup FolderIds : Found(c, i, AfterLookup[Cmd(c)])
      BY <1>2 DEF LookupFails
    <2>3. i \in Nat
      BY DEF Inv, Tables, FolderIds, NoId
    <2>4. MovedTo(c, AfterLookup[Cmd(c)])
      BY <2>1, <2>2, <2>3, Finds, AfterLookupTo DEF Inv
    <2>5. StandsOK(folders, files, sess[c], req'[c])
      BY <2>1, <2>4, AfterLookupTo DEF Inv, ConnOK, StandsOK, MovedTo
    <2> QED BY <2>1, <2>4, <2>5, AfterLookupControl, AfterLookupTo, MoveLocal DEF store
  <1> QED BY <1>1, <1>2

LEMMA CheckStatusLocal ==
    ASSUME NEW c \in Conns, Inv, CheckStatus(c) PROVE LocalStep(c)
  <1> DEFINE status == StatusOf(sess[c].current)
  <1>1. status \in {"OK", "DELETED", "NOT_FOUND"}
    BY DEF StatusOf
  <1>2. CASE status = "OK"
    <2>1. MovedTo(c, "find_folder")
      BY <1>2, Goes DEF Inv, CheckStatus, Places
    <2>2. sess[c].current \in DOMAIN folders
      BY <1>2 DEF StatusOf, FolderIds
    <2>3. ControlOK(req'[c]) /\ StandsOK(folders, files, sess[c], req'[c])
      BY <2>1, <2>2 DEF Inv, CheckStatus, At, ConnOK, ControlOK, StandsOK, Serving, MovedTo,
                        RenameAt, WriteAt, GrantAt
    <2> QED BY <2>1, <2>3, MoveLocal DEF CheckStatus, At, store
  <1>3. CASE status # "OK"
    BY <1>1, <1>3, LookupFailsLocal DEF CheckStatus, At
  <1> QED BY <1>2, <1>3

LEMMA FindFolderLocal ==
    ASSUME NEW c \in Conns, Inv, FindFolder(c) PROVE LocalStep(c)
  <1>1. ASSUME NEW f \in FoldersNamed(sess[c].current, req[c].name),
               Found(c, f, AfterLookup[Cmd(c)])
        PROVE  LocalStep(c)
    <2>1. f \in Nat /\ f \in DOMAIN folders /\ folders[f].parent = sess[c].current
      BY DEF FoldersNamed, FolderIds, Inv, Tables
    <2>2. MovedTo(c, AfterLookup[Cmd(c)]) /\ req'[c].id = f
      BY <1>1, <2>1, Finds, AfterLookupTo DEF FindFolder, Inv
    <2>3. StandsOK(folders, files, sess[c], req'[c])
      BY <2>1, <2>2, AfterLookupTo DEF Inv, ConnOK, StandsOK, MovedTo, FindFolder, At
    <2> QED BY <2>2, <2>3, AfterLookupControl, AfterLookupTo, MoveLocal
            DEF FindFolder, At, store
  <1>2. ASSUME LookupFails(c, "NAME_NOT_FOUND") PROVE LocalStep(c)
    <2>1. Cmd(c) \in FolderCommands
      BY AfterLookupTo DEF FindFolder, FolderCommands, LookupCode
    <2> QED BY <1>2, <2>1, LookupFailsLocal DEF FindFolder, At
  <1> QED BY <1>1, <1>2 DEF FindFolder

LEMMA FindFileLocal ==
    ASSUME NEW c \in Conns, Inv, FindFile(c) PROVE LocalStep(c)
  <1> DEFINE next == AfterFileLookup[Cmd(c)]
  <1>1. /\ Cmd(c) \in {"DELETE", "SHARE_FILE", "UNSHARE_FILE", "LIST_SHARED_USERS_FILE"}
        /\ next \in Places
        /\ next = "file_soft_delete" <=> Cmd(c) = "DELETE"
        /\ next \in {"file_soft_delete", "grant_file", "revoke_file", "list_users"}
        /\ next \in {"grant_file", "revoke_file"} => Cmd(c) \in GrantCommands
    BY DEF FindFile, AfterFileLookup, Places, FailsWith500, GrantCommands
  <1>2. ASSUME NEW x \in FilesNamed(sess[c].current, req[c].name), Found(c, x, next)
        PROVE  LocalStep(c)
    <2>1. x \in Nat /\ x \in DOMAIN files /\ files[x].folder = sess[c].current
      BY DEF FilesNamed, FileIds, Inv, Tables
    <2>2. MovedTo(c, next) /\ req'[c].id = x
      BY <1>1, <1>2, <2>1, Finds DEF Inv
    <2>3. ControlOK(req'[c]) /\ StandsOK(folders, files, sess[c], req'[c])
      BY <1>1, <2>1, <2>2 DEF Inv, ConnOK, ControlOK, StandsOK, Serving, MovedTo, Cmd, RenameAt,
                              WriteAt, GrantAt, WriteCommands
    <2> QED BY <1>1, <2>2, <2>3, MoveLocal DEF FindFile, At, store
  <1> QED BY <1>2, Ended DEF FindFile

LEMMA StatementFailsLocal ==
    ASSUME NEW c \in Conns, Inv, StatementFails(c) PROVE LocalStep(c)
  <1>1. CASE Cmd(c) \in FolderCommands /\ LookupFails(c, "ERR")
                /\ req[c].pc \in {"check_status", "find_folder"}
    BY <1>1, LookupFailsLocal DEF StatementFails
  <1>2. CASE Reply(c, 500)
    BY <1>2, Ended DEF StatementFails
  <1> QED BY <1>1, <1>2 DEF StatementFails

LEMMA SendReplyLocal ==
    ASSUME NEW c \in Conns, Inv, SendReply(c) PROVE LocalStep(c)
  BY Ends, AnswerLocal DEF SendReply, Inv, store, Grown, FilesGrown

LEMMA DisconnectLocal ==
    ASSUME NEW c \in Conns, Inv, Disconnect(c) PROVE LocalStep(c)
  <1>1. FreshSession \in Session /\ ~FreshSession.sharing
    BY DEF FreshSession, Session, NoId, Roles
  <1>2. Typed' /\ sess'[c] = FreshSession /\ req'[c] = req[c]
    BY <1>1 DEF Inv, Typed, Disconnect, SetSession
  <1>3. ConnOK(folders, files, FreshSession, req[c])
    BY <1>1 DEF Inv, ConnOK, ControlOK, SessionOK, StandsOK, Disconnect, At, Serving,
                WriteCommands, GrantCommands
  <1> QED BY <1>2, <1>3 DEF LocalStep, Inv, Typed, Disconnect, SetSession, store

-----------------------------------------------------------------------------
(* Where a session goes: CD, OPEN_SHARED_FOLDER, EXIT_SHARED.              *)

\* Entering a folder that is below the share root, if there is one.
LEMMA EnterLocal ==
    ASSUME NEW c \in Conns, NEW f \in Nat, Inv, EnterFolder(c, f), UNCHANGED store,
           sess[c].user # NoId, sess[c].sharing => Below(folders, f, sess[c].root)
    PROVE  LocalStep(c)
  <1> DEFINE s == [sess[c] EXCEPT !.current = f]
  <1>1. /\ s \in Session
        /\ s.sharing = sess[c].sharing /\ s.user = sess[c].user /\ s.root = sess[c].root
        /\ s.current = f
    BY DEF Inv, Typed, Session
  <1>2. s.sharing => s.root \in FolderIds /\ Below(folders, s.current, s.root)
    BY <1>1 DEF Inv, ConnOK, StandsOK, FolderIds
  <1>3. Answered(c) /\ SetSession(c, s)
    BY Answers DEF EnterFolder, Inv
  <1> HIDE DEF s
  <1> QED BY <1>1, <1>2, <1>3, SessionAnswer DEF store

LEMMA CdDownLocal ==
    ASSUME NEW c \in Conns, Inv, CdDown(c) PROVE LocalStep(c)
  <1>1. ASSUME NEW f \in FoldersNamed(sess[c].current, req[c].name), EnterFolder(c, f)
        PROVE  LocalStep(c)
    <2>1. f \in Nat /\ f \in DOMAIN folders /\ folders[f].parent = sess[c].current
      BY DEF FoldersNamed, FolderIds, Inv, Tables
    <2>2. sess[c].sharing => Below(folders, f, sess[c].root)
      BY <2>1, ChildBelow DEF Inv, ConnOK, StandsOK
    <2>3. sess[c].user # NoId
      BY DEF Inv, ConnOK, SessionOK, Serving, CdDown, At, Cmd
    <2> QED BY <1>1, <2>1, <2>2, <2>3, EnterLocal DEF CdDown
  <1>2. ASSUME LookupFails(c, "NAME_NOT_FOUND"), sess' = sess PROVE LocalStep(c)
    <2>1. Cmd(c) \in FolderCommands
      BY DEF CdDown, FolderCommands, LookupCode
    <2> QED BY <1>2, <2>1, LookupFailsLocal DEF CdDown, At
  <1> QED BY <1>1, <1>2 DEF CdDown

\* CD .. was refused at the share root, so the parent is below it.
LEMMA CdUpLocal ==
    ASSUME NEW c \in Conns, Inv, CdUp(c) PROVE LocalStep(c)
  <1> DEFINE f == sess[c].current
             p == folders[f].parent
  <1>0. f \in DOMAIN folders
    BY DEF Inv, ConnOK, StandsOK, CdUp, At
  <1>1. f \in DOMAIN folders /\ f \in Nat /\ p \in Nat
    BY <1>0, RowTyped DEF Inv
  <1>2. sess[c].sharing => Below(folders, f, sess[c].root) /\ f # sess[c].root
    BY DEF Inv, ConnOK, StandsOK, SessionOK, CdUp, At
  <1>3. sess[c].sharing => Below(folders, p, sess[c].root)
    BY <1>1, <1>2, ParentBelow
  <1>4. sess[c].user # NoId
    BY DEF Inv, ConnOK, ControlOK, SessionOK, Serving, CdUp, At
  <1> QED BY <1>1, <1>2, <1>3, <1>4, EnterLocal DEF CdUp

LEMMA ParentStatusLocal ==
    ASSUME NEW c \in Conns, Inv, ParentStatus(c) PROVE LocalStep(c)
  <1>1. ASSUME StatusOf(sess[c].current) = "OK", Goto(c, "find_parent") PROVE LocalStep(c)
    <2>1. MovedTo(c, "find_parent")
      BY <1>1, Goes DEF Inv, Places, FailsWith500
    <2>2. sess[c].current \in DOMAIN folders
      BY <1>1 DEF StatusOf, FolderIds
    <2>3. ControlOK(req'[c]) /\ StandsOK(folders, files, sess[c], req'[c])
      BY <2>1, <2>2 DEF Inv, ParentStatus, At, ConnOK, ControlOK, StandsOK, Serving, MovedTo,
                        RenameAt, WriteAt, GrantAt
    <2>4. ~(sess[c].sharing /\ sess[c].current = sess[c].root)
      BY DEF Inv, ConnOK, SessionOK, ParentStatus, At
    <2> QED BY <2>1, <2>3, <2>4, MoveLocal DEF ParentStatus, At, store
  <1> QED BY <1>1, Ended DEF ParentStatus

LEMMA ListLocal ==
    ASSUME NEW c \in Conns, Inv, ListStatus(c) \/ ListFiles(c) \/ ListFolders(c)
    PROVE  LocalStep(c)
  <1>1. CASE ListStatus(c)
    BY <1>1, Ended, Goes, PlainMove
    DEF ListStatus, At, Inv, Places, FailsWith500, Plain, store
  <1>2. CASE ListFiles(c)
    BY <1>2, Goes, PlainMove DEF ListFiles, At, Inv, Places, FailsWith500, Plain, store
  <1>3. CASE ListFolders(c)
    BY <1>3, Ended DEF ListFolders
  <1> QED BY <1>1, <1>2, <1>3

LEMMA CheckAccessFolderLocal ==
    ASSUME NEW c \in Conns, Inv, CheckAccessFolder(c) PROVE LocalStep(c)
  <1>1. CASE Goto(c, "access_info")
    <2>1. MovedTo(c, "access_info")
      BY <1>1, Goes DEF Inv, Places, FailsWith500
    <2>2. /\ ControlOK(req'[c]) /\ StandsOK(folders, files, sess[c], req'[c])
          /\ sess[c].user # NoId
      BY <2>1 DEF Inv, CheckAccessFolder, At, ConnOK, ControlOK, SessionOK, StandsOK, Serving,
                  MovedTo, RenameAt, WriteAt, GrantAt
    <2> QED BY <2>1, <2>2, MoveLocal DEF CheckAccessFolder, At, store
  <1>2. CASE Reply(c, 402)
    BY <1>2, Ended DEF CheckAccessFolder
  <1> QED BY <1>1, <1>2 DEF CheckAccessFolder

\* A permission is on a folder, and a session that has one is logged in: a
\* session in sharing mode, or not, starts again at a share root.
LEMMA OpenSharedLocal ==
    ASSUME NEW c \in Conns, Inv, OpenShared(c) PROVE LocalStep(c)
  <1> DEFINE f == req[c].id
  <1>1. ASSUME NEW p \in folderPerms, p.folder = f, p.user = sess[c].user,
               SetSession(c, [sess[c] EXCEPT !.sharing = TRUE, !.old = sess[c].current,
                                             !.root = f, !.current = f, !.role = p.role]),
               Reply(c, 200)
        PROVE  LocalStep(c)
    <2> DEFINE s == [sess[c] EXCEPT !.sharing = TRUE, !.old = sess[c].current,
                                    !.root = f, !.current = f, !.role = p.role]
    <2>1. p.role \in Roles /\ f \in Nat /\ f \in FolderIds
      BY <1>1 DEF Inv, Tables, TreeOK, FolderPerm, FolderIds
    <2>2. sess[c].user # NoId
      BY DEF Inv, ConnOK, SessionOK, OpenShared, At
    <2>3. s \in Session /\ s.user = sess[c].user /\ s.current = f /\ s.root = f
      BY <2>1 DEF Inv, Typed, Session
    <2>4. Answered(c) /\ SetSession(c, s) /\ folders' = folders /\ files' = files
      BY <1>1, Answers DEF Inv, OpenShared, store
    <2>5. s.root \in FolderIds /\ Below(folders, s.current, s.root)
      BY <2>1, <2>3, BelowItself
    <2> HIDE DEF s
    <2> QED BY <2>2, <2>3, <2>4, <2>5, SessionAnswer
  <1>2. ASSUME Reply(c, 402), sess' = sess PROVE LocalStep(c)
    <2>1. UNCHANGED store
      BY DEF OpenShared
    <2> QED BY <1>2, <2>1, Ended
  <1> QED BY <1>1, <1>2 DEF OpenShared

LEMMA ExitSharedLocal ==
    ASSUME NEW c \in Conns, Inv, ExitShared(c) PROVE LocalStep(c)
  <1> DEFINE s == [sess[c] EXCEPT !.sharing = FALSE, !.current = sess[c].old,
                                  !.root = NoId, !.old = NoId]
  <1>1. s \in Session /\ ~s.sharing /\ s.user = sess[c].user
    BY DEF Inv, Typed, Session, NoId
  <1>2. Answered(c)
    BY Replies DEF ExitShared, Inv, CommandNames
  <1>3. sess' = sess \/ (SetSession(c, s) /\ sess[c].user # NoId)
    BY DEF ExitShared, LoggedIn
  <1> HIDE DEF s
  <1> QED BY <1>1, <1>2, <1>3, SessionAnswer, AnswerLocal
          DEF ExitShared, store, Grown, FilesGrown

-----------------------------------------------------------------------------
(* The statements of the other handlers that only read.                    *)

\* the second statement of MKDIR and of RMDIR
LEMMA ExistDirnameLocal ==
    ASSUME NEW c \in Conns, Inv, ExistDirname(c) PROVE LocalStep(c)
  <1>1. CASE Goto(c, "create_folder")
    <2>1. MovedTo(c, "create_folder")
      BY <1>1, Goes DEF Inv, Places, FailsWith500
    <2>2. ControlOK(req'[c]) /\ StandsOK(folders, files, sess[c], req'[c])
      BY <2>1 DEF Inv, ExistDirname, At, ConnOK, ControlOK, StandsOK, Serving, MovedTo,
                  RenameAt, WriteAt, GrantAt
    <2> QED BY <2>1, <2>2, MoveLocal DEF ExistDirname, At, store
  <1> QED BY <1>1, Ended DEF ExistDirname

LEMMA CheckEmptyLocal ==
    ASSUME NEW c \in Conns, Inv, CheckEmpty(c) PROVE LocalStep(c)
  <1>1. CASE Goto(c, "folder_soft_delete")
    <2>1. MovedTo(c, "folder_soft_delete") /\ req'[c].id = req[c].id
      BY <1>1, Goes DEF Inv, Places, FailsWith500
    <2>2. ControlOK(req'[c]) /\ StandsOK(folders, files, sess[c], req'[c])
      BY <2>1 DEF Inv, CheckEmpty, At, ConnOK, ControlOK, StandsOK, Serving, MovedTo,
                  RenameAt, WriteAt, GrantAt
    <2> QED BY <2>1, <2>2, MoveLocal DEF CheckEmpty, At, store
  <1> QED BY <1>1, Ended DEF CheckEmpty

LEMMA RenameFindFileLocal ==
    ASSUME NEW c \in Conns, Inv, RenameFindFile(c) PROVE LocalStep(c)
  <1>1. ASSUME NEW x \in FilesNamed(sess[c].current, req[c].name), Found(c, x, "file_rename")
        PROVE  LocalStep(c)
    <2>1. x \in Nat /\ x \in DOMAIN files /\ files[x].folder = sess[c].current
      BY DEF FilesNamed, FileIds, Inv, Tables
    <2>2. MovedTo(c, "file_rename") /\ req'[c].id = x
      BY <1>1, <2>1, Finds DEF Inv, Places, FailsWith500
    <2>3. ControlOK(req'[c]) /\ StandsOK(folders, files, sess[c], req'[c])
      BY <2>1, <2>2 DEF Inv, RenameFindFile, At, ConnOK, ControlOK, StandsOK, Serving, MovedTo,
                        RenameAt, WriteAt, GrantAt
    <2> QED BY <2>2, <2>3, MoveLocal DEF RenameFindFile, At, store
  <1>2. CASE Goto(c, "check_status")
    BY <1>2, Goes, PlainMove DEF RenameFindFile, At, Inv, Places, Plain, store
  <1> QED BY <1>1, <1>2 DEF RenameFindFile

\* UPLOAD makes a blob, and no row yet
LEMMA FileExistsLocal ==
    ASSUME NEW c \in Conns, Inv, FileExists(c) PROVE LocalStep(c)
  <1>1. sess' = sess /\ folders' = folders /\ files' = files
    BY DEF FileExists, tables
  <1>2. CASE Found(c, Len(blobs) + 1, "receive")
    <2>1. MovedTo(c, "receive")
      BY <1>2, Finds DEF Inv, Tables, Places
    <2>2. ControlOK(req'[c]) /\ StandsOK(folders, files, sess[c], req'[c])
      BY <2>1 DEF Inv, FileExists, At, ConnOK, ControlOK, StandsOK, Serving, MovedTo,
                  RenameAt, WriteAt, GrantAt
    <2> QED BY <1>1, <2>1, <2>2, MoveLocal DEF FileExists, At
  <1>3. CASE Reply(c, 409)
    BY <1>1, <1>3, Answers, AnswerLocal DEF Inv, Grown, FilesGrown
  <1> QED BY <1>2, <1>3 DEF FileExists

LEMMA UploadReceivedLocal ==
    ASSUME NEW c \in Conns, Inv, UploadReceived(c) PROVE LocalStep(c)
  <1>1. MovedTo(c, "file_insert")
    BY Goes DEF UploadReceived, Inv, Places
  <1>2. ControlOK(req'[c]) /\ StandsOK(folders, files, sess[c], req'[c])
    BY <1>1 DEF Inv, UploadReceived, At, ConnOK, ControlOK, StandsOK, Serving, MovedTo,
                RenameAt, WriteAt, GrantAt
  <1> QED BY <1>1, <1>2, MoveLocal DEF UploadReceived, At, tables

LEMMA DownloadsLocal ==
    ASSUME NEW c \in Conns, Inv,
           FindByName(c) \/ SendFile(c) \/ CheckAccessFile(c) \/ AccessAgain(c) \/ FindById(c)
    PROVE  LocalStep(c)
  <1>1. ASSUME NEW x \in FileIds PROVE files[x].blob \in Nat
    <2>1. files[x] \in FileRow
      BY DEF Inv, Tables, FileIds
    <2> QED BY <2>1 DEF FileRow
  <1>2. ASSUME DownloadError(c), UNCHANGED <<store, sess>> PROVE LocalStep(c)
    BY <1>2, Answers, Ends, AnswerLocal DEF DownloadError, Inv, store, Grown, FilesGrown
  <1>3. CASE FindByName(c)
    <2>1. ASSUME NEW x \in FileIds, Found(c, files[x].blob, "send") PROVE LocalStep(c)
      BY <1>1, <1>3, <2>1, Finds, PlainMove DEF FindByName, At, Inv, Places, Plain, store
    <2> QED BY <1>2, <1>3, <2>1, Ended DEF FindByName, FilesNamed
  <1>4. CASE SendFile(c)
    BY <1>2, <1>4, Ended DEF SendFile
  <1>5. CASE CheckAccessFile(c)
    <2>1. CASE Goto(c, "access_again")
      BY <1>5, <2>1, Goes, PlainMove DEF CheckAccessFile, At, Inv, Places, Plain, store
    <2> QED BY <1>5, <2>1, Ended DEF CheckAccessFile
  <1>6. CASE AccessAgain(c)
    <2>1. CASE Goto(c, "find_by_id")
      BY <1>6, <2>1, Goes, PlainMove
      DEF AccessAgain, At, Inv, Places, FailsWith500, Plain, store
    <2> QED BY <1>6, <2>1, Ended DEF AccessAgain
  <1>7. CASE FindById(c)
    <2>1. CASE Live(files, req[c].id)
      <3>1. req[c].id \in FileIds /\ Found(c, files[req[c].id].blob, "send")
        BY <1>7, <2>1 DEF FindById, Live, FileIds
      <3> QED BY <1>1, <1>7, <3>1, Finds, PlainMove DEF FindById, At, Inv, Places, Plain, store
    <2> QED BY <1>7, <2>1, Ended DEF FindById
  <1> QED BY <1>3, <1>4, <1>5, <1>6, <1>7

LEMMA FindUserLocal ==
    ASSUME NEW c \in Conns, Inv, FindUser(c) PROVE LocalStep(c)
  <1>1. ASSUME NEW u \in UserNamed(req[c].arg), NEW pc \in {"check_status", "find_file"},
               Then(c, [req[c] EXCEPT !.uid = u, !.pc = pc])
        PROVE  LocalStep(c)
    <2> DEFINE r == [req[c] EXCEPT !.uid = u, !.pc = pc]
    <2>1. u \in Nat /\ pc \in Places /\ pc \in Plain
      BY DEF UserNamed, UserIds, Inv, Tables, Places, FailsWith500, Plain
    <2>2. /\ r \in Requests /\ r.pc = pc /\ r.cmd = req[c].cmd /\ r.name = req[c].name
          /\ r.arg = req[c].arg /\ r.role = req[c].role
      BY <2>1 DEF Inv, Typed, Requests
    <2> HIDE DEF r
    <2>3. MovedTo(c, pc)
      BY <1>1, <2>2 DEF r, Then, MovedTo, Others, Inv, Typed
    <2> QED BY <2>1, <2>3, PlainMove DEF FindUser, At, store
  <1>2. ASSUME Reply(c, 404) PROVE LocalStep(c)
    <2>1. UNCHANGED <<store, sess>>
      BY DEF FindUser
    <2> QED BY <1>2, <2>1, Ended
  <1>3. (IF Cmd(c) \in FolderCommands THEN "check_status" ELSE "find_file")
            \in {"check_status", "find_file"}
    OBVIOUS
  <1> QED BY <1>1, <1>2, <1>3 DEF FindUser

LEMMA ReadersLocal ==
    ASSUME NEW c \in Conns, Inv, UploadBroken(c) \/ GrantFile(c) \/ ListUsers(c)
    PROVE  LocalStep(c)
  BY Ended DEF UploadBroken, GrantFile, ListUsers

-----------------------------------------------------------------------------
(* What a write leaves of the store: no row moves, a root stays a root.    *)

LEMMA FolderAdded ==
    ASSUME Inv, NEW e \in FolderRow, folders' = Append(folders, e), e.parent < Len(folders) + 1,
           e.parent = NoId => /\ e.name = "/" /\ ~e.deleted
                              /\ \A f \in FolderIds :
                                    folders[f].parent = NoId => folders[f].owner # e.owner,
           UNCHANGED <<users, files, folderPerms, filePerms, blobs>>
    PROVE  StoreStep
  <1> DEFINE n == Len(folders) + 1
  <1> USE DEF FolderIds
  <1>1. folders \in Seq(FolderRow)
    BY DEF Inv, Tables
  <1>2. /\ folders' \in Seq(FolderRow) /\ FolderIds' = FolderIds \cup {n}
        /\ folders'[n] = e /\ n \notin FolderIds
        /\ \A f \in FolderIds : folders'[f] = folders[f]
    BY <1>1, Appended
  <1> HIDE DEF n
  <1>3. Tables'
    BY <1>2 DEF Inv, Tables
  <1>4. \A f \in FolderIds' : folders'[f].parent < f
    BY <1>2 DEF n, Inv, TreeOK
  <1>5. RootsStay'
    BY <1>2 DEF Inv, TreeOK, RootsStay
  <1>6. Grown(folders, folders') /\ FilesGrown(files, files')
    BY <1>2 DEF Grown, FilesGrown
  <1>7. /\ \A p \in folderPerms' : p.folder \in FolderIds'
        /\ \A x \in FileIds' : files'[x].folder \in FolderIds'
    BY <1>2 DEF Inv, TreeOK, FileIds
  <1> QED BY <1>3, <1>4, <1>5, <1>6, <1>7 DEF StoreStep, TreeOK

LEMMA FolderChanged ==
    ASSUME Inv, NEW f \in DOMAIN folders, NEW e \in FolderRow, folders' = [folders EXCEPT ![f] = e],
           e.parent = folders[f].parent, e.parent # NoId, e.owner = folders[f].owner,
           UNCHANGED <<users, files, folderPerms, filePerms, blobs>>
    PROVE  StoreStep
  <1> USE DEF FolderIds
  <1>1. folders \in Seq(FolderRow)
    BY DEF Inv, Tables
  <1>2. /\ folders' \in Seq(FolderRow) /\ FolderIds' = FolderIds
        /\ folders'[f] = e
        /\ \A g \in FolderIds \ {f} : folders'[g] = folders[g]
    BY <1>1, Replaced
  <1>3. Tables'
    BY <1>2 DEF Inv, Tables
  <1>4. \A g \in FolderIds' : folders'[g].parent < g
    BY <1>2 DEF Inv, TreeOK
  <1>5. RootsStay'
    BY <1>2 DEF Inv, TreeOK, RootsStay
  <1>6. Grown(folders, folders') /\ FilesGrown(files, files')
    BY <1>2 DEF Grown, FilesGrown
  <1>7. /\ \A p \in folderPerms' : p.folder \in FolderIds'
        /\ \A x \in FileIds' : files'[x].folder \in FolderIds'
    BY <1>2 DEF Inv, TreeOK, FileIds
  <1> QED BY <1>3, <1>4, <1>5, <1>6, <1>7 DEF StoreStep, TreeOK

\* The files, the blobs or the permissions change, the folders do not.
LEMMA FoldersKept ==
    ASSUME Inv, UNCHANGED <<users, folders>>,
           files' \in Seq(FileRow), FilesGrown(files, files'), blobs' \in Seq(BlobStates),
           \A x \in DOMAIN files' : files'[x].folder \in FolderIds,
           folderPerms' \in SUBSET FolderPerm, \A p \in folderPerms' : p.folder \in FolderIds,
           filePerms' \in SUBSET FilePerm
    PROVE  StoreStep
  BY DEF Inv, Tables, TreeOK, RootsStay, FolderIds, FileIds, StoreStep, Grown

LEMMA FileAdded ==
    ASSUME Inv, NEW e \in FileRow, files' = Append(files, e), e.folder \in FolderIds,
           UNCHANGED <<users, folders, folderPerms, filePerms, blobs>>
    PROVE  StoreStep
  <1>1. files \in Seq(FileRow)
    BY DEF Inv, Tables
  <1>2. /\ files' \in Seq(FileRow) /\ FilesGrown(files, files')
        /\ \A x \in DOMAIN files' : files'[x] = e \/ (x \in FileIds /\ files'[x] = files[x])
    BY <1>1, Appended DEF FilesGrown, FileIds
  <1>3. \A x \in DOMAIN files' : files'[x].folder \in FolderIds
    BY <1>2 DEF Inv, TreeOK
  <1> QED BY <1>2, <1>3, FoldersKept DEF Inv, Tables, TreeOK

LEMMA FileChanged ==
    ASSUME Inv, NEW x \in DOMAIN files, NEW e \in FileRow, files' = [files EXCEPT ![x] = e],
           e.folder = files[x].folder, e.blob = files[x].blob,
           UNCHANGED <<users, folders, folderPerms, filePerms, blobs>>
    PROVE  StoreStep
  <1>1. files \in Seq(FileRow)
    BY DEF Inv, Tables
  <1>2. /\ files' \in Seq(FileRow) /\ FilesGrown(files, files')
        /\ DOMAIN files' = FileIds
    BY <1>1, Replaced DEF FilesGrown, FileIds
  <1>3. \A y \in DOMAIN files' : files'[y].folder \in FolderIds
    BY <1>2 DEF Inv, TreeOK, FilesGrown, FileIds
  <1> QED BY <1>2, <1>3, FoldersKept DEF Inv, Tables, TreeOK

LEMMA BlobsChanged ==
    ASSUME Inv, blobs' \in Seq(BlobStates), UNCHANGED tables
    PROVE  StoreStep
  BY FoldersKept DEF Inv, Tables, TreeOK, tables, FilesGrown, FileIds

\* The write fails: nothing changes.
LEMMA NothingWritten ==
    ASSUME Inv, UNCHANGED <<users, folders, files, folderPerms, filePerms, blobs>>
    PROVE  StoreStep
  BY SameStore DEF store

\* The statement that writes is the last of its request.
LEMMA WriteAnswered ==
    ASSUME NEW c \in Conns, NEW code \in Nat, Inv, StoreStep, Reply(c, code), sess' = sess
    PROVE  LocalStep(c) /\ StoreStep
  BY Answers, AnswerLocal DEF Inv, StoreStep

-----------------------------------------------------------------------------
(* The statements that write.                                              *)

LEMMA InsertUserStep ==
    ASSUME NEW c \in Conns, Inv, InsertUser(c) PROVE LocalStep(c) /\ StoreStep
  <1>0. UNCHANGED <<folders, files, folderPerms, filePerms, blobs, sess>>
    BY DEF InsertUser
  <1>1. ASSUME users' = Append(users, req[c].name), Goto(c, "create_root")
        PROVE  LocalStep(c) /\ StoreStep
    <2>1. MovedTo(c, "create_root")
      BY <1>1, Goes DEF Inv, Places, FailsWith500
    <2>2. req[c].name \in Users /\ users \in Seq(Users)
      BY DEF Inv, ConnOK, ControlOK, InsertUser, At, Tables
    <2>3. users' \in Seq(Users)
      BY <1>1, <2>2, Appended
    <2>4. StoreStep
      BY <1>0, <2>3 DEF StoreStep, Inv, Tables, TreeOK, RootsStay, FolderIds, FileIds,
                         Grown, FilesGrown
    <2>5. ControlOK(req'[c]) /\ StandsOK(folders, files, sess[c], req'[c])
      BY <2>1 DEF Inv, InsertUser, At, ConnOK, ControlOK, StandsOK, Serving, MovedTo,
                  RenameAt, WriteAt, GrantAt
    <2>6. req[c].pc # "reply"
      BY DEF InsertUser, At
    <2> QED BY <1>0, <2>1, <2>4, <2>5, <2>6, MoveLocal
  <1>2. ASSUME users' = users, Reply(c, 500) PROVE LocalStep(c) /\ StoreStep
    BY <1>0, <1>2, NothingWritten, WriteAnswered
  <1> QED BY <1>1, <1>2 DEF InsertUser

LEMMA CreateRootStep ==
    ASSUME NEW c \in Conns, Inv, CreateRoot(c) PROVE LocalStep(c) /\ StoreStep
  <1>0. UNCHANGED <<users, files, folderPerms, filePerms, blobs, sess>>
    BY DEF CreateRoot
  <1>1. ASSUME NEW u \in UserNamed(req[c].name), RootsOf(u) = {}, Reply(c, 200),
               folders' = Append(folders, [owner |-> u, parent |-> NoId, name |-> "/",
                                           deleted |-> FALSE])
        PROVE  LocalStep(c) /\ StoreStep
    <2> DEFINE e == [owner |-> u, parent |-> NoId, name |-> "/", deleted |-> FALSE]
    <2>1. u \in Nat
      BY DEF UserNamed, UserIds, Inv, Tables
    <2>2. e \in FolderRow /\ e.parent = 0 /\ e.owner = u /\ e.name = "/" /\ ~e.deleted
      BY <2>1 DEF FolderRow, NoId
    <2>3. \A f \in FolderIds : folders[f].parent = NoId => folders[f].owner # u
      BY <1>1 DEF RootsOf
    <2>4. 0 < Len(folders) + 1
      BY DEF Inv, Tables
    <2>5. folders' = Append(folders, e)
      BY <1>1
    <2> HIDE DEF e
    <2>6. StoreStep
      BY <1>0, <2>2, <2>3, <2>4, <2>5, FolderAdded
    <2> QED BY <1>0, <1>1, <2>6, WriteAnswered
  <1>2. ASSUME folders' = folders, Reply(c, 500) PROVE LocalStep(c) /\ StoreStep
    BY <1>0, <1>2, NothingWritten, WriteAnswered
  <1> QED BY <1>1, <1>2 DEF CreateRoot

LEMMA CreateFolderStep ==
    ASSUME NEW c \in Conns, Inv, CreateFolder(c) PROVE LocalStep(c) /\ StoreStep
  <1>0. UNCHANGED <<users, files, folderPerms, filePerms, blobs, sess>>
    BY DEF CreateFolder
  <1>1. ASSUME folders' = Append(folders, NewFolder(c)), Reply(c, 200),
               sess[c].current \in FolderIds
        PROVE  LocalStep(c) /\ StoreStep
    <2>1. req[c].name \in Names
      BY DEF Inv, ConnOK, ControlOK, CreateFolder, At
    <2>2. sess[c] \in Session
      BY DEF Inv, Typed
    <2>3. /\ NewFolder(c) \in FolderRow /\ NewFolder(c).parent = sess[c].current
      BY <2>1, <2>2 DEF NewFolder, FolderRow, Session
    <2>4. sess[c].current < Len(folders) + 1 /\ sess[c].current # NoId
      BY <1>1 DEF Inv, Tables, FolderIds, NoId
    <2>5. StoreStep
      BY <1>0, <1>1, <2>3, <2>4, FolderAdded
    <2> QED BY <1>0, <1>1, <2>5, WriteAnswered
  <1>2. ASSUME folders' = folders, Reply(c, 500) PROVE LocalStep(c) /\ StoreStep
    BY <1>0, <1>2, NothingWritten, WriteAnswered
  <1> QED BY <1>1, <1>2 DEF CreateFolder

\* The folder an earlier statement found in the current folder is no root.
LEMMA FolderWrittenStep ==
    ASSUME NEW c \in Conns, Inv, FolderSoftDelete(c) \/ FolderRename(c)
    PROVE  LocalStep(c) /\ StoreStep
  <1> DEFINE f == req[c].id
  <1>0. UNCHANGED <<users, files, folderPerms, filePerms, blobs, sess>>
    BY DEF FolderSoftDelete, FolderRename
  <1>1. f \in DOMAIN folders /\ folders[f].parent \in DOMAIN folders
    BY DEF Inv, ConnOK, StandsOK, FolderSoftDelete, FolderRename, At
  <1>2. folders[f] \in FolderRow /\ folders[f].parent # NoId
    BY <1>1 DEF Inv, Tables, NoId
  <1>3. ASSUME NEW e \in FolderRow, folders' = [folders EXCEPT ![f] = e],
               e.parent = folders[f].parent, e.owner = folders[f].owner, Reply(c, 200)
        PROVE  LocalStep(c) /\ StoreStep
    <2>1. StoreStep
      BY <1>0, <1>1, <1>2, <1>3, FolderChanged
    <2> QED BY <1>0, <1>3, <2>1, WriteAnswered
  <1>4. ASSUME folders' = folders, Reply(c, 500) PROVE LocalStep(c) /\ StoreStep
    BY <1>0, <1>4, NothingWritten, WriteAnswered
  <1>5. CASE FolderSoftDelete(c)
    <2> DEFINE e == [folders[f] EXCEPT !.deleted = TRUE]
    <2>1. e \in FolderRow /\ e.parent = folders[f].parent /\ e.owner = folders[f].owner
      BY <1>2 DEF FolderRow
    <2>2. \/ folders' = [folders EXCEPT ![f] = e] /\ Reply(c, 200)
          \/ folders' = folders /\ Reply(c, 500)
      BY <1>5 DEF FolderSoftDelete
    <2> HIDE DEF e
    <2> QED BY <1>3, <1>4, <2>1, <2>2
  <1>6. CASE FolderRename(c)
    <2> DEFINE e == [folders[f] EXCEPT !.name = req[c].arg]
    <2>1. req[c].arg \in Names
      BY <1>6 DEF Inv, ConnOK, ControlOK, FolderRename, At, Serving, RenameAt
    <2>2. e \in FolderRow /\ e.parent = folders[f].parent /\ e.owner = folders[f].owner
      BY <1>2, <2>1 DEF FolderRow
    <2>3. \/ folders' = [folders EXCEPT ![f] = e] /\ Reply(c, 200)
          \/ folders' = folders /\ Reply(c, 500)
      BY <1>6 DEF FolderRename
    <2> HIDE DEF e
    <2> QED BY <1>3, <1>4, <2>2, <2>3
  <1> QED BY <1>5, <1>6

LEMMA FileWrittenStep ==
    ASSUME NEW c \in Conns, Inv, FileRename(c) \/ FileSoftDelete(c)
    PROVE  LocalStep(c) /\ StoreStep
  <1> DEFINE x == req[c].id
  <1>0. UNCHANGED <<users, folders, folderPerms, filePerms, blobs, sess>>
    BY DEF FileRename, FileSoftDelete
  <1>1. x \in DOMAIN files
    BY DEF Inv, ConnOK, StandsOK, FileRename, FileSoftDelete, At
  <1>2. files[x] \in FileRow
    BY <1>1 DEF Inv, Tables
  <1>3. ASSUME NEW e \in FileRow, files' = [files EXCEPT ![x] = e],
               e.folder = files[x].folder, e.blob = files[x].blob, Reply(c, 200)
        PROVE  LocalStep(c) /\ StoreStep
    <2>1. StoreStep
      BY <1>0, <1>1, <1>3, FileChanged
    <2> QED BY <1>0, <1>3, <2>1, WriteAnswered
  <1>4. ASSUME files' = files, NEW code \in Nat, Reply(c, code) PROVE LocalStep(c) /\ StoreStep
    BY <1>0, <1>4, NothingWritten, WriteAnswered
  <1>5. CASE FileRename(c)
    <2> DEFINE e == [files[x] EXCEPT !.name = req[c].arg]
    <2>1. req[c].arg \in Names
      BY <1>5 DEF Inv, ConnOK, ControlOK, FileRename, At, Serving, RenameAt
    <2>2. e \in FileRow /\ e.folder = files[x].folder /\ e.blob = files[x].blob
      BY <1>2, <2>1 DEF FileRow
    <2>3. \/ files' = [files EXCEPT ![x] = e] /\ Reply(c, 200)
          \/ files' = files /\ Reply(c, 500)
      BY <1>5 DEF FileRename
    <2> HIDE DEF e
    <2> QED BY <1>3, <1>4, <2>2, <2>3
  <1>6. CASE FileSoftDelete(c)
    <2> DEFINE e == [files[x] EXCEPT !.deleted = TRUE]
    <2>1. e \in FileRow /\ e.folder = files[x].folder /\ e.blob = files[x].blob
      BY <1>2 DEF FileRow
    <2>2. /\ files' = [files EXCEPT ![x] = e] \/ files' = files
          /\ Reply(c, 200)
      BY <1>6 DEF FileSoftDelete
    <2> HIDE DEF e
    <2> QED BY <1>3, <1>4, <2>1, <2>2
  <1> QED BY <1>5, <1>6

LEMMA FileExistsStep ==
    ASSUME NEW c \in Conns, Inv, FileExists(c) PROVE LocalStep(c) /\ StoreStep
  <1>1. blobs \in Seq(BlobStates) /\ "partial" \in BlobStates
    BY DEF Inv, Tables, BlobStates
  <1>2. blobs' = blobs \/ blobs' = Append(blobs, "partial")
    BY DEF FileExists
  <1>3. blobs' \in Seq(BlobStates)
    BY <1>1, <1>2, Appended
  <1>4. UNCHANGED tables
    BY DEF FileExists
  <1> QED BY <1>3, <1>4, FileExistsLocal, BlobsChanged

LEMMA UploadReceivedStep ==
    ASSUME NEW c \in Conns, Inv, UploadReceived(c) PROVE LocalStep(c) /\ StoreStep
  <1>1. blobs \in Seq(BlobStates)
    BY DEF Inv, Tables
  <1>2. PICK state \in BlobStates : blobs' = [blobs EXCEPT ![req[c].id] = state]
    BY DEF UploadReceived, BlobStates
  <1>3. blobs' \in Seq(BlobStates)
    BY <1>1, <1>2, Overwritten
  <1>4. UNCHANGED tables
    BY DEF UploadReceived
  <1> QED BY <1>3, <1>4, UploadReceivedLocal, BlobsChanged

LEMMA FileInsertStep ==
    ASSUME NEW c \in Conns, Inv, FileInsert(c) PROVE LocalStep(c) /\ StoreStep
  <1> DEFINE f == sess[c].current
  <1>0. UNCHANGED <<users, folders, folderPerms, filePerms, sess>>
    BY DEF FileInsert
  <1>1. ASSUME Inserts(c, f) PROVE LocalStep(c) /\ StoreStep
    <2> DEFINE e == [owner |-> sess[c].user, folder |-> f, name |-> req[c].name,
                     blob |-> req[c].id, deleted |-> FALSE]
    <2>1. req[c].name \in Names
      BY DEF Inv, ConnOK, ControlOK, FileInsert, At
    <2>2. sess[c].user \in Nat /\ f \in Nat /\ req[c].id \in Nat
      BY DEF Inv, Typed, Session, Requests
    <2>3. e \in FileRow
      BY <2>1, <2>2 DEF FileRow
    <2>4. /\ files' = Append(files, e) /\ blobs' = blobs /\ Reply(c, 200)
          /\ e.folder \in FolderIds
      BY <1>1 DEF Inserts
    <2> HIDE DEF e
    <2>5. StoreStep
      BY <1>0, <2>3, <2>4, FileAdded
    <2> QED BY <1>0, <2>4, <2>5, WriteAnswered
  <1>2. ASSUME InsertFails(c, f), RemovesBlob(c), Reply(c, 500) PROVE LocalStep(c) /\ StoreStep
    <2>1. blobs \in Seq(BlobStates) /\ "removed" \in BlobStates
      BY DEF Inv, Tables, BlobStates
    <2>2. blobs' \in Seq(BlobStates)
      BY <1>2, <2>1, Overwritten DEF RemovesBlob
    <2>3. StoreStep
      BY <1>0, <1>2, <2>2, BlobsChanged DEF InsertFails, tables
    <2> QED BY <1>0, <1>2, <2>3, WriteAnswered
  <1> QED BY <1>1, <1>2 DEF FileInsert

LEMMA GrantFolderStep ==
    ASSUME NEW c \in Conns, Inv, GrantFolder(c) PROVE LocalStep(c) /\ StoreStep
  <1> DEFINE f == req[c].id
             u == req[c].uid
             p == [folder |-> f, user |-> u, role |-> req[c].role]
  <1>0. UNCHANGED <<users, folders, files, filePerms, blobs, sess>>
    BY DEF GrantFolder
  <1>1. ASSUME f \in FolderIds, folderPerms' = folderPerms \cup {p}, Reply(c, 200)
        PROVE  LocalStep(c) /\ StoreStep
    <2>1. f \in Nat /\ u \in Nat /\ req[c].role \in Roles
      BY DEF Inv, Typed, Requests
    <2>2. p \in FolderPerm /\ p.folder = f
      BY <2>1 DEF FolderPerm
    <2> HIDE DEF p
    <2>3. /\ folderPerms' \in SUBSET FolderPerm
          /\ \A q \in folderPerms' : q.folder \in FolderIds
      BY <1>1, <2>2 DEF Inv, Tables, TreeOK
    <2>4. StoreStep
      BY <1>0, <2>3, FoldersKept DEF Inv, Tables, TreeOK, FileIds, FilesGrown
    <2> QED BY <1>0, <1>1, <2>4, WriteAnswered
  <1>2. ASSUME folderPerms' = folderPerms, Reply(c, 500) PROVE LocalStep(c) /\ StoreStep
    BY <1>0, <1>2, NothingWritten, WriteAnswered
  <1> QED BY <1>1, <1>2 DEF GrantFolder

LEMMA RevokeStep ==
    ASSUME NEW c \in Conns, Inv, RevokeFolder(c) \/ RevokeFile(c)
    PROVE  LocalStep(c) /\ StoreStep
  <1>1. /\ UNCHANGED <<users, folders, files, blobs, sess>>
        /\ folderPerms' \subseteq folderPerms /\ filePerms' \subseteq filePerms
    BY DEF RevokeFolder, RevokeFile
  <1>2. StoreStep
    BY <1>1, FoldersKept DEF Inv, Tables, TreeOK, FileIds, FilesGrown
  <1>3. Reply(c, 200) \/ Reply(c, 404)
    BY DEF RevokeFolder, RevokeFile
  <1> QED BY <1>1, <1>2, <1>3, WriteAnswered

-----------------------------------------------------------------------------
(* The requests received: what their handlers check first.                 *)

Texts == Names \cup Users \cup {NoName}

LEMMA ArgTyped ==
    ASSUME NEW r \in Requests, NEW n \in Texts
    PROVE  /\ [r EXCEPT !.arg = n] \in Requests
           /\ [r EXCEPT !.arg = n].cmd = r.cmd /\ [r EXCEPT !.arg = n].pc = r.pc
           /\ [r EXCEPT !.arg = n].name = r.name /\ [r EXCEPT !.arg = n].arg = n
  BY DEF Requests, Texts

LEMMA RoleTyped ==
    ASSUME NEW r \in Requests, NEW role \in Roles
    PROVE  /\ [r EXCEPT !.role = role] \in Requests
           /\ [r EXCEPT !.role = role].cmd = r.cmd /\ [r EXCEPT !.role = role].pc = r.pc
  BY DEF Requests

LEMMA BareTyped ==
    ASSUME NEW cmd \in CommandNames, NEW pc \in Places
    PROVE  /\ [NoReq EXCEPT !.cmd = cmd, !.pc = pc] \in Requests
           /\ [NoReq EXCEPT !.cmd = cmd, !.pc = pc].cmd = cmd
           /\ [NoReq EXCEPT !.cmd = cmd, !.pc = pc].pc = pc
  BY NoReqTyped DEF Requests

LEMMA IdTyped ==
    ASSUME NEW cmd \in CommandNames, NEW pc \in Places, NEW i \in Nat
    PROVE  /\ [NoReq EXCEPT !.cmd = cmd, !.pc = pc, !.id = i] \in Requests
           /\ [NoReq EXCEPT !.cmd = cmd, !.pc = pc, !.id = i].cmd = cmd
           /\ [NoReq EXCEPT !.cmd = cmd, !.pc = pc, !.id = i].pc = pc
  BY NoReqTyped DEF Requests

\* Statements no handler starts with.
LateAt == {"find_folder", "find_parent", "is_empty", "folder_soft_delete", "folder_rename",
           "file_rename", "file_soft_delete", "create_root", "receive", "file_insert", "send",
           "find_root", "create_folder"}

\* A request begins: the store is left alone.
Begun(c) == LocalStep(c) /\ UNCHANGED store /\ req'[c].pc \notin LateAt

LEMMA FirstStatement ==
    ASSUME NEW c \in Conns, NEW r \in Requests, NEW refused \in Nat, Inv, Receive(c, r, refused),
           r.pc \notin LateAt, ControlOK(r), refused = 0 => SessionOK(sess[c], r)
    PROVE  Begun(c)
  <1>1. StandsOK(folders, files, sess[c], r)
    BY DEF Inv, ConnOK, StandsOK, LateAt
  <1>2. LocalStep(c) /\ UNCHANGED store
    BY <1>1, Received
  <1>3. req'[c] = r \/ (\E code : req'[c] = ReplyTo(r.cmd, code))
    BY DEF Receive, Then, Inv, Typed
  <1>4. req'[c].pc = r.pc \/ req'[c].pc = "reply"
    BY <1>3 DEF ReplyTo, NoReq
  <1> QED BY <1>2, <1>4 DEF Begun, LateAt

LEMMA SessionStands ==
    ASSUME NEW c \in Conns, Inv
    PROVE  /\ sess[c].sharing => sess[c].user # NoId
           /\ sess[c].user = NoId => sess[c] = FreshSession
  <1>1. ~FreshSession.sharing
    BY DEF FreshSession
  <1> QED BY <1>1 DEF Inv, ConnOK, SessionOK

LEMMA AccountReceived ==
    ASSUME NEW c \in Conns, NEW n, Inv,
           \/ n \in Users /\ BeginRegister(c, n)
           \/ n \in Logins[c] /\ BeginLogin(c, n)
    PROVE  Begun(c)
  <1>1. n \in Users /\ n \in Names \cup Users \cup {NoName}
    BY ClientsAssumption
  <1>2. CASE BeginRegister(c, n)
    <2> DEFINE r == Request("REGISTER", "user_exists", n)
    <2>1. r \in Requests /\ r.cmd = "REGISTER" /\ r.pc = "user_exists" /\ r.name = n
      BY <1>1, RequestTyped DEF CommandNames, Places, FailsWith500
    <2>2. Receive(c, r, 0)
      BY <1>2 DEF BeginRegister
    <2> HIDE DEF r
    <2>3. ControlOK(r) /\ SessionOK(sess[c], r) /\ r.pc \notin LateAt
      BY <1>1, <2>1, SessionStands DEF ControlOK, SessionOK, Serving, RenameAt, WriteAt, GrantAt,
                                       WriteCommands, GrantCommands, LateAt
    <2> QED BY <2>1, <2>2, <2>3, FirstStatement
  <1>3. CASE BeginLogin(c, n)
    <2> DEFINE r == Request("LOGIN", "check_login", n)
               refused == IF LoggedIn(c) THEN 402 ELSE 0
    <2>1. r \in Requests /\ r.cmd = "LOGIN" /\ r.pc = "check_login"
      BY <1>1, RequestTyped DEF CommandNames, Places, FailsWith500
    <2>2. Receive(c, r, refused) /\ refused \in Nat
      BY <1>3 DEF BeginLogin
    <2>3. /\ refused = 0 => ~sess[c].sharing /\ sess[c].user = NoId
          /\ sess[c].user = NoId => sess[c] = FreshSession
      BY SessionStands DEF LoggedIn
    <2> HIDE DEF r, refused
    <2>4. /\ ControlOK(r) /\ r.pc \notin LateAt
          /\ refused = 0 => SessionOK(sess[c], r)
      BY <2>1, <2>3 DEF ControlOK, SessionOK, Serving, RenameAt, WriteAt, GrantAt,
                        WriteCommands, GrantCommands, LateAt
    <2> QED BY <2>1, <2>2, <2>4, FirstStatement
  <1> QED BY <1>2, <1>3

\* MKDIR, RMDIR, DELETE, UPLOAD and RENAME are refused to a viewer.
LEMMA WriteReceived ==
    ASSUME NEW c \in Conns, NEW r \in Requests, NEW refused \in Nat, Inv, Receive(c, r, refused),
           r.cmd \in WriteCommands, refused = 0 => NeedWrite(c) = 0,
           r.pc \in {"exist_dirname", "check_status", "find_file", "file_exists",
                     "rename_find_file"},
           r.name \in Names, r.cmd = "RENAME" => r.arg \in Names,
           r.pc = "rename_find_file" => r.cmd = "RENAME",
           r.pc = "exist_dirname" => r.cmd = "MKDIR",
           r.pc = "file_exists" => r.cmd = "UPLOAD"
    PROVE  Begun(c)
  <1>1. refused = 0 => LoggedIn(c) /\ ~Viewer(c)
    BY DEF NeedWrite
  <1>2. ControlOK(r) /\ r.pc \notin LateAt
    BY DEF ControlOK, Serving, RenameAt, WriteAt, GrantAt, LateAt
  <1>3. refused = 0 => SessionOK(sess[c], r)
    BY <1>1, SessionStands DEF SessionOK, Serving, WriteCommands, GrantCommands, LoggedIn, Viewer
  <1> QED BY <1>2, <1>3, FirstStatement

LEMMA EntriesReceived ==
    ASSUME NEW c \in Conns, NEW n \in Names, NEW new \in Names, Inv,
           \/ BeginMkdir(c, n) \/ BeginRmdir(c, n) \/ BeginDelete(c, n) \/ BeginUpload(c, n)
           \/ BeginRename(c, n, new)
    PROVE  Begun(c)
  <1> DEFINE Refused == IF NeedWrite(c) = 0 /\ n \in BadNames THEN 422 ELSE NeedWrite(c)
  <1>1. /\ NeedWrite(c) \in Nat /\ Refused \in Nat
        /\ Refused = 0 => NeedWrite(c) = 0
    BY DEF NeedWrite
  <1>2. n \in Names \cup Users \cup {NoName} /\ new \in Texts
    BY DEF Texts
  <1> HIDE DEF Refused
  <1>3. CASE BeginMkdir(c, n)
    <2> DEFINE r == Request("MKDIR", "exist_dirname", n)
    <2>1. r \in Requests /\ r.cmd = "MKDIR" /\ r.pc = "exist_dirname" /\ r.name = n
      BY <1>2, RequestTyped DEF CommandNames, Places, FailsWith500
    <2>2. Receive(c, r, Refused)
      BY <1>3 DEF BeginMkdir, Refused
    <2> HIDE DEF r
    <2> QED BY <1>1, <2>1, <2>2, WriteReceived DEF WriteCommands
  <1>4. CASE BeginUpload(c, n)
    <2> DEFINE r == Request("UPLOAD", "file_exists", n)
    <2>1. r \in Requests /\ r.cmd = "UPLOAD" /\ r.pc = "file_exists" /\ r.name = n
      BY <1>2, RequestTyped DEF CommandNames, Places, FailsWith500
    <2>2. Receive(c, r, Refused)
      BY <1>4 DEF BeginUpload, Refused
    <2> HIDE DEF r
    <2> QED BY <1>1, <2>1, <2>2, WriteReceived DEF WriteCommands
  <1>5. CASE BeginRmdir(c, n)
    <2> DEFINE r == Request("RMDIR", "check_status", n)
    <2>1. r \in Requests /\ r.cmd = "RMDIR" /\ r.pc = "check_status" /\ r.name = n
      BY <1>2, RequestTyped DEF CommandNames, Places, FailsWith500
    <2>2. Receive(c, r, NeedWrite(c))
      BY <1>5 DEF BeginRmdir
    <2> HIDE DEF r
    <2> QED BY <1>1, <2>1, <2>2, WriteReceived DEF WriteCommands
  <1>6. CASE BeginDelete(c, n)
    <2> DEFINE r == Request("DELETE", "find_file", n)
    <2>1. r \in Requests /\ r.cmd = "DELETE" /\ r.pc = "find_file" /\ r.name = n
      BY <1>2, RequestTyped DEF CommandNames, Places, FailsWith500
    <2>2. Receive(c, r, NeedWrite(c))
      BY <1>6 DEF BeginDelete
    <2> HIDE DEF r
    <2> QED BY <1>1, <2>1, <2>2, WriteReceived DEF WriteCommands
  <1>7. CASE BeginRename(c, n, new)
    <2> DEFINE q == Request("RENAME", "rename_find_file", n)
               r == [q EXCEPT !.arg = new]
    <2>1. q \in Requests /\ q.cmd = "RENAME" /\ q.pc = "rename_find_file" /\ q.name = n
      BY <1>2, RequestTyped DEF CommandNames, Places, FailsWith500
    <2>2. Receive(c, r, NeedWrite(c))
      BY <1>7 DEF BeginRename
    <2> HIDE DEF q
    <2>3. /\ r \in Requests /\ r.cmd = "RENAME" /\ r.pc = "rename_find_file"
          /\ r.name = n /\ r.arg = new
      BY <1>2, <2>1, ArgTyped
    <2> HIDE DEF r
    <2> QED BY <1>1, <2>2, <2>3, WriteReceived DEF WriteCommands
  <1> QED BY <1>3, <1>4, <1>5, <1>6, <1>7

\* SHARE_*, UNSHARE_* and LIST_SHARED_USERS_* are refused in sharing mode.
LEMMA HomeReceived ==
    ASSUME NEW c \in Conns, NEW r \in Requests, Inv, Receive(c, r, NeedHome(c)),
           r.cmd \notin WriteCommands \cup {"LOGIN"},
           r.pc \in {"find_user", "check_status", "find_file"},
           r.pc = "find_user" => r.cmd \in GrantCommands
    PROVE  Begun(c)
  <1>1. NeedHome(c) \in Nat /\ (NeedHome(c) = 0 => ~sess[c].sharing /\ LoggedIn(c))
    BY DEF NeedHome
  <1>2. ControlOK(r) /\ r.pc \notin LateAt
    BY DEF ControlOK, Serving, RenameAt, WriteAt, GrantAt, LateAt, WriteCommands
  <1>3. NeedHome(c) = 0 => SessionOK(sess[c], r)
    BY <1>1 DEF SessionOK, Serving, LoggedIn
  <1> QED BY <1>1, <1>2, <1>3, FirstStatement

LEMMA ShareTyped ==
    ASSUME NEW cmd \in GrantCommands, NEW n \in Names, NEW u \in Users
    PROVE  /\ ShareRequest(cmd, "find_user", n, u) \in Requests
           /\ ShareRequest(cmd, "find_user", n, u).cmd = cmd
           /\ ShareRequest(cmd, "find_user", n, u).pc = "find_user"
  <1> DEFINE q == Request(cmd, "find_user", n)
  <1>1. n \in Names \cup Users \cup {NoName} /\ u \in Texts
    BY DEF Texts
  <1>2. cmd \in CommandNames /\ "find_user" \in Places
    BY DEF CommandNames, GrantCommands, Places, FailsWith500
  <1>3. q \in Requests /\ q.cmd = cmd /\ q.pc = "find_user"
    BY <1>1, <1>2, RequestTyped
  <1>4. ShareRequest(cmd, "find_user", n, u) = [q EXCEPT !.arg = u]
    BY DEF ShareRequest
  <1> HIDE DEF q
  <1> DEFINE r == [q EXCEPT !.arg = u]
  <1>5. r \in Requests /\ r.cmd = q.cmd /\ r.pc = q.pc
    BY <1>1, <1>3, ArgTyped
  <1> HIDE DEF r
  <1>6. ShareRequest(cmd, "find_user", n, u) = r
    BY <1>4 DEF r
  <1> QED BY <1>3, <1>5, <1>6

LEMMA SharingReceived ==
    ASSUME NEW c \in Conns, NEW n \in Names, NEW u \in Users, NEW role \in Roles, Inv,
           \/ BeginShareFolder(c, n, u, role) \/ BeginUnshareFolder(c, n, u)
           \/ BeginShareFile(c, n, u) \/ BeginUnshareFile(c, n, u)
    PROVE  Begun(c)
  <1>1. ASSUME NEW cmd \in GrantCommands,
               Receive(c, ShareRequest(cmd, "find_user", n, u), NeedHome(c))
        PROVE  Begun(c)
    BY <1>1, ShareTyped, HomeReceived DEF GrantCommands, WriteCommands
  <1>2. CASE BeginShareFolder(c, n, u, role)
    <2> DEFINE q == ShareRequest("SHARE_FOLDER", "find_user", n, u)
               r == [q EXCEPT !.role = role]
    <2>1. q \in Requests /\ q.cmd = "SHARE_FOLDER" /\ q.pc = "find_user"
      BY ShareTyped DEF GrantCommands
    <2>2. Receive(c, r, NeedHome(c))
      BY <1>2 DEF BeginShareFolder
    <2> HIDE DEF q
    <2>3. r \in Requests /\ r.cmd = "SHARE_FOLDER" /\ r.pc = "find_user"
      BY <2>1, RoleTyped
    <2> HIDE DEF r
    <2> QED BY <2>2, <2>3, HomeReceived DEF WriteCommands, GrantCommands
  <1>3. CASE BeginUnshareFolder(c, n, u)
    BY <1>1, <1>3 DEF BeginUnshareFolder, GrantCommands
  <1>4. CASE BeginShareFile(c, n, u)
    BY <1>1, <1>4 DEF BeginShareFile, GrantCommands
  <1>5. CASE BeginUnshareFile(c, n, u)
    BY <1>1, <1>5 DEF BeginUnshareFile, GrantCommands
  <1> QED BY <1>2, <1>3, <1>4, <1>5

LEMMA ListReceived ==
    ASSUME NEW c \in Conns, NEW n \in Names, Inv,
           BeginListShareFolder(c, n) \/ BeginListShareFile(c, n)
    PROVE  Begun(c)
  <1>1. ASSUME NEW cmd \in {"LIST_SHARED_USERS_FOLDER", "LIST_SHARED_USERS_FILE"},
               NEW pc \in {"check_status", "find_file"},
               Receive(c, Request(cmd, pc, n), NeedHome(c))
        PROVE  Begun(c)
    <2> DEFINE r == Request(cmd, pc, n)
    <2>0. cmd \in CommandNames /\ pc \in Places
      BY DEF CommandNames, Places, FailsWith500
    <2>1. r \in Requests /\ r.cmd = cmd /\ r.pc = pc
      BY <2>0, RequestTyped
    <2> HIDE DEF r
    <2> QED BY <1>1, <2>1, HomeReceived DEF r, WriteCommands
  <1> QED BY <1>1 DEF BeginListShareFolder, BeginListShareFile

\* The requests that need a session only; CD .. needs it not to be at the
\* root of its share.
LEMMA LoginReceived ==
    ASSUME NEW c \in Conns, NEW r \in Requests, NEW refused \in Nat, Inv, Receive(c, r, refused),
           refused = 0 => LoggedIn(c),
           r.cmd \notin WriteCommands \cup GrantCommands \cup {"LOGIN"},
           r.pc \in {"check_status", "parent_status", "check_access_folder", "find_by_name",
                     "check_access_file", "list_shared_with_me"},
           r.pc = "parent_status" => r.cmd = "CD",
           r.pc = "parent_status" /\ refused = 0 =>
               ~(sess[c].sharing /\ sess[c].current = sess[c].root)
    PROVE  Begun(c)
  <1>1. ControlOK(r) /\ r.pc \notin LateAt
    BY DEF ControlOK, Serving, RenameAt, WriteAt, GrantAt, LateAt, WriteCommands
  <1>2. refused = 0 => SessionOK(sess[c], r)
    BY DEF SessionOK, Serving, LoggedIn
  <1> QED BY <1>1, <1>2, FirstStatement

LEMMA PlainReceived ==
    ASSUME NEW c \in Conns, NEW r \in Requests, Inv, Receive(c, r, NeedLogin(c)),
           r.cmd \notin WriteCommands \cup GrantCommands \cup {"LOGIN"},
           r.pc \in {"check_status", "check_access_folder", "find_by_name",
                     "check_access_file", "list_shared_with_me"}
    PROVE  Begun(c)
  <1>1. NeedLogin(c) \in Nat /\ (NeedLogin(c) = 0 => LoggedIn(c))
    BY DEF NeedLogin
  <1> QED BY <1>1, LoginReceived

LEMMA MovesReceived ==
    ASSUME NEW c \in Conns, Inv, BeginCdUp(c) \/ BeginList(c) \/ (\E n \in Names : BeginCd(c, n))
    PROVE  Begun(c)
  <1>1. ASSUME NEW n \in Names, BeginCd(c, n) PROVE Begun(c)
    <2> DEFINE r == Request("CD", "check_status", n)
    <2>1. r \in Requests /\ r.cmd = "CD" /\ r.pc = "check_status"
      BY RequestTyped DEF CommandNames, Places, FailsWith500
    <2> HIDE DEF r
    <2> QED BY <1>1, <2>1, PlainReceived DEF r, BeginCd, WriteCommands, GrantCommands
  <1>2. CASE BeginList(c)
    <2> DEFINE r == [NoReq EXCEPT !.cmd = "LIST", !.pc = "check_status"]
    <2>1. r \in Requests /\ r.cmd = "LIST" /\ r.pc = "check_status"
      BY BareTyped DEF CommandNames, Places, FailsWith500
    <2>2. Receive(c, r, NeedLogin(c))
      BY <1>2 DEF BeginList
    <2> HIDE DEF r
    <2> QED BY <2>1, <2>2, PlainReceived DEF WriteCommands, GrantCommands
  <1>3. CASE BeginCdUp(c)
    <2> DEFINE r == [NoReq EXCEPT !.cmd = "CD", !.pc = "parent_status"]
               refused == IF LoggedIn(c) /\ sess[c].sharing /\ sess[c].current = sess[c].root
                          THEN 403 ELSE NeedLogin(c)
    <2>1. r \in Requests /\ r.cmd = "CD" /\ r.pc = "parent_status"
      BY BareTyped DEF CommandNames, Places, FailsWith500
    <2>2. Receive(c, r, refused)
      BY <1>3 DEF BeginCdUp
    <2>3. /\ refused \in Nat
          /\ refused = 0 => LoggedIn(c) /\ ~(sess[c].sharing /\ sess[c].current = sess[c].root)
      BY DEF NeedLogin
    <2> HIDE DEF r, refused
    <2> QED BY <2>1, <2>2, <2>3, LoginReceived DEF WriteCommands, GrantCommands
  <1> QED BY <1>1, <1>2, <1>3

LEMMA SharedReceived ==
    ASSUME NEW c \in Conns, Inv,
           \/ \E f \in FolderIds : BeginOpen(c, f)
           \/ \E x \in FileIds : BeginDownloadShared(c, x)
           \/ \E n \in Names : BeginDownload(c, n)
           \/ \E cmd \in Commands[c] : BeginListSharedWithMe(c, cmd)
    PROVE  Begun(c)
  <1>0. FolderIds \subseteq Nat /\ FileIds \subseteq Nat
    BY DEF Inv, Tables, FolderIds, FileIds
  <1>1. ASSUME NEW f \in FolderIds, BeginOpen(c, f) PROVE Begun(c)
    <2> DEFINE r == [NoReq EXCEPT !.cmd = "OPEN_SHARED_FOLDER", !.pc = "check_access_folder",
                                  !.id = f]
    <2>0. /\ "OPEN_SHARED_FOLDER" \in CommandNames
          /\ "check_access_folder" \in Places
      BY DEF CommandNames, Places, FailsWith500
    <2>1. r \in Requests /\ r.cmd = "OPEN_SHARED_FOLDER" /\ r.pc = "check_access_folder"
      BY <1>0, <2>0, IdTyped
    <2>2. Receive(c, r, NeedLogin(c))
      BY <1>1 DEF BeginOpen
    <2> HIDE DEF r
    <2> QED BY <2>1, <2>2, PlainReceived DEF WriteCommands, GrantCommands
  <1>2. ASSUME NEW x \in FileIds, BeginDownloadShared(c, x) PROVE Begun(c)
    <2> DEFINE r == [NoReq EXCEPT !.cmd = "DOWNLOAD_SHARED", !.pc = "check_access_file",
                                  !.id = x]
    <2>0. /\ "DOWNLOAD_SHARED" \in CommandNames
          /\ "check_access_file" \in Places
      BY DEF CommandNames, Places, FailsWith500
    <2>1. r \in Requests /\ r.cmd = "DOWNLOAD_SHARED" /\ r.pc = "check_access_file"
      BY <1>0, <2>0, IdTyped
    <2>2. Receive(c, r, NeedLogin(c))
      BY <1>2 DEF BeginDownloadShared
    <2> HIDE DEF r
    <2> QED BY <2>1, <2>2, PlainReceived DEF WriteCommands, GrantCommands
  <1>3. ASSUME NEW n \in Names, BeginDownload(c, n) PROVE Begun(c)
    <2> DEFINE r == Request("DOWNLOAD", "find_by_name", n)
    <2>1. r \in Requests /\ r.cmd = "DOWNLOAD" /\ r.pc = "find_by_name"
      BY RequestTyped DEF CommandNames, Places, FailsWith500
    <2> HIDE DEF r
    <2> QED BY <1>3, <2>1, PlainReceived DEF r, BeginDownload, WriteCommands, GrantCommands
  <1>4. ASSUME NEW cmd, BeginListSharedWithMe(c, cmd) PROVE Begun(c)
    <2> DEFINE r == [NoReq EXCEPT !.cmd = cmd, !.pc = "list_shared_with_me"]
    <2>1. cmd \in {"LIST_SHARED_FILES_WITH_ME", "LIST_SHARED_FOLDERS_WITH_ME"}
      BY <1>4 DEF BeginListSharedWithMe
    <2>0. cmd \in CommandNames /\ "list_shared_with_me" \in Places
      BY <2>1 DEF CommandNames, Places, FailsWith500
    <2>2. r \in Requests /\ r.cmd = cmd /\ r.pc = "list_shared_with_me"
      BY <2>0, BareTyped
    <2>3. Receive(c, r, NeedLogin(c))
      BY <1>4 DEF BeginListSharedWithMe
    <2> HIDE DEF r
    <2> QED BY <2>1, <2>2, <2>3, PlainReceived DEF WriteCommands, GrantCommands
  <1> QED BY <1>1, <1>2, <1>3, <1>4

LEMMA DispatchStep ==
    ASSUME NEW c \in Conns, Inv, Dispatch(c) PROVE Begun(c)
  <1>1. CASE \/ \E n \in Users : BeginRegister(c, n)
             \/ \E n \in Logins[c] : BeginLogin(c, n)
    BY <1>1, AccountReceived
  <1>2. CASE Logout(c)
    <2>1. Answered(c)
      BY <1>2, Replies DEF Logout, Inv, CommandNames
    <2> QED BY <1>2, <2>1, LogoutLocal DEF Logout, Begun, Answered, LateAt
  <1>3. CASE ExitShared(c)
    <2>1. Answered(c)
      BY <1>3, Replies DEF ExitShared, Inv, CommandNames
    <2> QED BY <1>3, <2>1, ExitSharedLocal DEF ExitShared, Begun, Answered, LateAt
  <1>4. CASE BeginCdUp(c) \/ BeginList(c)
    BY <1>4, MovesReceived
  <1>5. ASSUME NEW n \in Names,
               \/ BeginCd(c, n) \/ BeginMkdir(c, n) \/ BeginRmdir(c, n) \/ BeginDelete(c, n)
               \/ BeginUpload(c, n) \/ BeginDownload(c, n)
               \/ BeginListShareFolder(c, n) \/ BeginListShareFile(c, n)
               \/ \E new \in Names : BeginRename(c, n, new)
               \/ \E u \in Users :
                     \/ BeginUnshareFolder(c, n, u) \/ BeginShareFile(c, n, u)
                     \/ BeginUnshareFile(c, n, u)
                     \/ \E role \in Roles : BeginShareFolder(c, n, u, role)
        PROVE  Begun(c)
    <2>1. CASE BeginCd(c, n) \/ BeginDownload(c, n)
      BY <2>1, MovesReceived, SharedReceived
    <2>2. CASE \/ BeginMkdir(c, n) \/ BeginRmdir(c, n) \/ BeginDelete(c, n) \/ BeginUpload(c, n)
               \/ \E new \in Names : BeginRename(c, n, new)
      BY <2>2, EntriesReceived
    <2>3. CASE BeginListShareFolder(c, n) \/ BeginListShareFile(c, n)
      BY <2>3, ListReceived
    <2>4. ASSUME NEW u \in Users,
                 \/ BeginUnshareFolder(c, n, u) \/ BeginShareFile(c, n, u)
                 \/ BeginUnshareFile(c, n, u)
                 \/ \E role \in Roles : BeginShareFolder(c, n, u, role)
          PROVE  Begun(c)
      BY <2>4, SharingReceived DEF Roles
    <2> QED BY <1>5, <2>1, <2>2, <2>3, <2>4
  <1>6. CASE \/ \E f \in FolderIds : BeginOpen(c, f)
             \/ \E x \in FileIds : BeginDownloadShared(c, x)
             \/ \E cmd \in Commands[c] : BeginListSharedWithMe(c, cmd)
    BY <1>6, SharedReceived
  <1> QED BY <1>1, <1>2, <1>3, <1>4, <1>5, <1>6 DEF Dispatch

-----------------------------------------------------------------------------
(* Every step of a thread, and of the process, keeps the invariant.        *)

LEMMA ServeStep ==
    ASSUME NEW c \in Conns, Inv,
           \/ Serve(c) \/ UploadReceived(c) \/ UploadBroken(c) \/ Disconnect(c)
    PROVE  LocalStep(c) /\ StoreStep
  <1>1. CASE Accounting(c)
    <2>1. CASE UserExists(c)
      BY <2>1, UserExistsLocal, SameStore DEF UserExists
    <2>2. CASE InsertUser(c)
      BY <2>2, InsertUserStep
    <2>3. CASE CreateRoot(c)
      BY <2>3, CreateRootStep
    <2>4. CASE CheckLogin(c)
      BY <2>4, CheckLoginLocal, SameStore DEF CheckLogin
    <2>5. CASE FindRoot(c)
      BY <2>5, FindRootLocal, SameStore DEF FindRoot
    <2> QED BY <1>1, <2>1, <2>2, <2>3, <2>4, <2>5 DEF Accounting
  <1>2. CASE Navigating(c)
    <2>1. CASE CheckStatus(c)
      BY <2>1, CheckStatusLocal, SameStore DEF CheckStatus
    <2>2. CASE CdDown(c)
      BY <2>2, CdDownLocal, SameStore DEF CdDown
    <2>3. CASE ParentStatus(c)
      BY <2>3, ParentStatusLocal, SameStore DEF ParentStatus
    <2>4. CASE CdUp(c)
      BY <2>4, CdUpLocal, SameStore DEF CdUp
    <2>5. CASE ListStatus(c) \/ ListFiles(c) \/ ListFolders(c)
      BY <2>5, ListLocal, SameStore DEF ListStatus, ListFiles, ListFolders
    <2>6. CASE CheckAccessFolder(c)
      BY <2>6, CheckAccessFolderLocal, SameStore DEF CheckAccessFolder
    <2>7. CASE OpenShared(c)
      BY <2>7, OpenSharedLocal, SameStore DEF OpenShared
    <2> QED BY <1>2, <2>1, <2>2, <2>3, <2>4, <2>5, <2>6, <2>7 DEF Navigating
  <1>3. CASE Editing(c)
    <2>1. CASE FindFolder(c)
      BY <2>1, FindFolderLocal, SameStore DEF FindFolder
    <2>2. CASE FindFile(c)
      BY <2>2, FindFileLocal, SameStore DEF FindFile
    <2>3. CASE ExistDirname(c)
      BY <2>3, ExistDirnameLocal, SameStore DEF ExistDirname
    <2>4. CASE CreateFolder(c)
      BY <2>4, CreateFolderStep
    <2>5. CASE CheckEmpty(c)
      BY <2>5, CheckEmptyLocal, SameStore DEF CheckEmpty
    <2>6. CASE FolderSoftDelete(c) \/ FolderRename(c)
      BY <2>6, FolderWrittenStep
    <2>7. CASE RenameFindFile(c)
      BY <2>7, RenameFindFileLocal, SameStore DEF RenameFindFile
    <2>8. CASE FileRename(c) \/ FileSoftDelete(c)
      BY <2>8, FileWrittenStep
    <2> QED BY <1>3, <2>1, <2>2, <2>3, <2>4, <2>5, <2>6, <2>7, <2>8 DEF Editing
  <1>4. CASE Transferring(c)
    <2>1. CASE FileExists(c)
      BY <2>1, FileExistsStep
    <2>2. CASE FileInsert(c)
      BY <2>2, FileInsertStep
    <2>3. CASE \/ FindByName(c) \/ SendFile(c) \/ CheckAccessFile(c) \/ AccessAgain(c)
               \/ FindById(c)
      BY <2>3, DownloadsLocal, SameStore
      DEF FindByName, SendFile, CheckAccessFile, AccessAgain, FindById
    <2> QED BY <1>4, <2>1, <2>2, <2>3 DEF Transferring
  <1>5. CASE Permitting(c)
    <2>1. CASE FindUser(c)
      BY <2>1, FindUserLocal, SameStore DEF FindUser
    <2>2. CASE GrantFolder(c)
      BY <2>2, GrantFolderStep
    <2>3. CASE RevokeFolder(c) \/ RevokeFile(c)
      BY <2>3, RevokeStep
    <2>4. CASE GrantFile(c) \/ ListUsers(c)
      BY <2>4, ReadersLocal, SameStore DEF GrantFile, ListUsers
    <2> QED BY <1>5, <2>1, <2>2, <2>3, <2>4 DEF Permitting
  <1>6. CASE StatementFails(c)
    BY <1>6, StatementFailsLocal, SameStore DEF StatementFails
  <1>7. CASE SendReply(c)
    BY <1>7, SendReplyLocal, SameStore DEF SendReply
  <1>8. CASE UploadReceived(c)
    BY <1>8, UploadReceivedStep
  <1>9. CASE UploadBroken(c)
    BY <1>9, ReadersLocal, SameStore DEF UploadBroken
  <1>10. CASE Disconnect(c)
    BY <1>10, DisconnectLocal, SameStore DEF Disconnect
  <1> QED BY <1>1, <1>2, <1>3, <1>4, <1>5, <1>6, <1>7, <1>8, <1>9, <1>10 DEF Serve

-----------------------------------------------------------------------------
(* From one statement of a request to the next.                            *)

\* statement q may come right after statement p of a request cmd
Follows(cmd, p, q) ==
    \/ p = "user_exists" /\ q = "user_insert"
    \/ p = "user_insert" /\ q = "create_root"
    \/ p = "check_login" /\ q = "find_root"
    \/ p = "check_status" /\ q \in {"find_folder", "list_files"}
    \/ p \in {"check_status", "find_folder"} /\ cmd \in DOMAIN AfterLookup /\ q = AfterLookup[cmd]
    \/ p = "parent_status" /\ q = "find_parent"
    \/ p = "list_files" /\ q = "list_folders"
    \/ p = "check_access_folder" /\ q = "access_info"
    \/ p = "exist_dirname" /\ q = "create_folder"
    \/ p = "is_empty" /\ q = "folder_soft_delete"
    \/ p = "rename_find_file" /\ q \in {"file_rename", "check_status"}
    \/ p = "find_file" /\ cmd \in DOMAIN AfterFileLookup /\ q = AfterFileLookup[cmd]
    \/ p = "file_exists" /\ q = "receive"
    \/ p = "receive" /\ q = "file_insert"
    \/ p \in {"find_by_name", "find_by_id"} /\ q = "send"
    \/ p = "check_access_file" /\ q = "access_again"
    \/ p = "access_again" /\ q = "find_by_id"
    \/ p = "find_user" /\ q \in {"check_status", "find_file"}

Ending(c) == req'[c].pc \in {"reply", "idle"}

GoesOn(c) == req'[c].cmd = req[c].cmd /\ Follows(req[c].cmd, req[c].pc, req'[c].pc)

\* A request being served: its next statement, or its answer, which is sent.
Advance(c) ==
    \/ req[c].pc = "reply" /\ req'[c].pc = "idle"
    \/ req[c].pc \notin {"idle", "reply"} /\ (Ending(c) \/ GoesOn(c))

LEMMA NextPc ==
    ASSUME NEW c \in Conns, Typed
    PROVE  /\ \A code : Reply(c, code) => req'[c].pc = "reply"
           /\ Then(c, NoReq) => req'[c].pc = "idle"
           /\ \A pc : Goto(c, pc) =>
                 req'[c].pc = pc /\ req'[c].id = req[c].id /\ req'[c].cmd = req[c].cmd
           /\ \A i, pc : Found(c, i, pc) =>
                 req'[c].pc = pc /\ req'[c].id = i /\ req'[c].cmd = req[c].cmd
  <1>1. ASSUME NEW r, Then(c, r) PROVE req'[c] = r
    BY <1>1 DEF Typed, Then
  <1>2. ASSUME NEW pc, NEW i
        PROVE  /\ [req[c] EXCEPT !.pc = pc].pc = pc /\ [req[c] EXCEPT !.pc = pc].id = req[c].id
               /\ [req[c] EXCEPT !.pc = pc].cmd = req[c].cmd
               /\ [req[c] EXCEPT !.id = i, !.pc = pc].pc = pc
               /\ [req[c] EXCEPT !.id = i, !.pc = pc].id = i
               /\ [req[c] EXCEPT !.id = i, !.pc = pc].cmd = req[c].cmd
    BY DEF Typed, Requests
  <1>3. ASSUME NEW code PROVE ReplyTo(Cmd(c), code).pc = "reply" /\ NoReq.pc = "idle"
    BY DEF ReplyTo, NoReq
  <1>4. ASSUME NEW code, Reply(c, code) PROVE req'[c].pc = "reply"
    <2>1. req'[c] = ReplyTo(Cmd(c), code)
      BY <1>1, <1>4 DEF Reply
    <2> QED BY <1>3, <2>1
  <1>5. ASSUME NEW pc, Goto(c, pc)
        PROVE  req'[c].pc = pc /\ req'[c].id = req[c].id /\ req'[c].cmd = req[c].cmd
    <2>1. req'[c] = [req[c] EXCEPT !.pc = pc]
      BY <1>1, <1>5 DEF Goto
    <2> QED BY <1>2, <2>1
  <1>6. ASSUME NEW i, NEW pc, Found(c, i, pc)
        PROVE  req'[c].pc = pc /\ req'[c].id = i /\ req'[c].cmd = req[c].cmd
    <2>1. req'[c] = [req[c] EXCEPT !.id = i, !.pc = pc]
      BY <1>1, <1>6 DEF Found
    <2> QED BY <1>2, <2>1
  <1> QED BY <1>1, <1>3, <1>4, <1>5, <1>6

LEMMA LookupFailsOn ==
    ASSUME NEW c \in Conns, Inv, NEW ret \in {"ERR", "DELETED", "NOT_FOUND", "NAME_NOT_FOUND"},
           Cmd(c) \in FolderCommands, LookupFails(c, ret),
           req[c].pc \in {"check_status", "find_folder"}
    PROVE  Ending(c) \/ GoesOn(c)
  <1>1. CASE LookupCode[Cmd(c)][ret] # 0
    BY <1>1, NextPc DEF LookupFails, Inv, Ending
  <1>2. CASE LookupCode[Cmd(c)][ret] = 0
    <2>1. req'[c].pc = AfterLookup[Cmd(c)] /\ req'[c].cmd = req[c].cmd
      BY <1>2, NextPc DEF LookupFails, Inv
    <2> QED BY <1>2, <2>1, LookupCodes, AfterLookupTo DEF GoesOn, Follows, Cmd
  <1> QED BY <1>1, <1>2

\* the end of a request, and each statement that may follow, is nearer to it
LEMMA AdvanceNearer ==
    ASSUME NEW c \in Conns, Advance(c) PROVE StepsLeft(req'[c].pc) < StepsLeft(req[c].pc)
  <1>1. ASSUME NEW cmd \in DOMAIN AfterLookup
        PROVE  AfterLookup[cmd] \in {"is_empty", "folder_rename", "grant_folder", "revoke_folder",
                                     "list_users"}
    BY <1>1 DEF AfterLookup
  <1>2. ASSUME NEW cmd \in DOMAIN AfterFileLookup
        PROVE  AfterFileLookup[cmd] \in {"file_soft_delete", "grant_file", "revoke_file",
                                         "list_users"}
    BY <1>2 DEF AfterFileLookup
  <1>3. CASE Ending(c)
    BY <1>3 DEF Advance, Ending, GoesOn, Follows, StepsLeft
  <1>4. ASSUME GoesOn(c), req[c].pc \in {"check_status", "find_folder"}
        PROVE  StepsLeft(req'[c].pc) < StepsLeft(req[c].pc)
    BY <1>1, <1>4 DEF GoesOn, Follows, StepsLeft
  <1>5. ASSUME GoesOn(c), req[c].pc = "find_file"
        PROVE  StepsLeft(req'[c].pc) < StepsLeft(req[c].pc)
    BY <1>2, <1>5 DEF GoesOn, Follows, StepsLeft
  <1>6. ASSUME GoesOn(c), req[c].pc \notin {"check_status", "find_folder", "find_file"}
        PROVE  StepsLeft(req'[c].pc) < StepsLeft(req[c].pc)
    BY <1>6 DEF GoesOn, Follows, StepsLeft
  <1> QED BY <1>3, <1>4, <1>5, <1>6 DEF Advance, Ending

LEMMA DispatchIdle == ASSUME NEW c, Dispatch(c) PROVE req[c].pc = "idle"
  BY DEF Dispatch, BeginRegister, BeginLogin, Logout, BeginCdUp, BeginList, ExitShared, BeginCd,
         BeginMkdir, BeginRmdir, BeginDelete, BeginUpload, BeginDownload, BeginListShareFolder,
         BeginListShareFile, BeginRename, BeginUnshareFolder, BeginShareFile, BeginUnshareFile,
         BeginShareFolder, BeginOpen, BeginDownloadShared, BeginListSharedWithMe, Receive, At

LEMMA ServeAdvances ==
    ASSUME NEW c \in Conns, Inv, Serve(c) \/ UploadReceived(c) \/ UploadBroken(c)
    PROVE  Advance(c)
  <1> USE NextPc DEF Advance, At, Cmd
  <1>0. Typed
    BY DEF Inv
  <1>1. CASE Accounting(c)
    BY <1>0, <1>1 DEF Accounting, UserExists, InsertUser, CreateRoot, CheckLogin, FindRoot,
                      Ending, GoesOn, Follows
  <1>2. CASE Navigating(c)
    <2>1. CASE CheckStatus(c)
      <3>1. StatusOf(sess[c].current) \in {"OK", "DELETED", "NOT_FOUND"}
        BY DEF StatusOf
      <3>2. CASE Goto(c, "find_folder")
        BY <1>0, <2>1, <3>2 DEF CheckStatus, GoesOn, Follows
      <3> QED BY <2>1, <3>1, <3>2, LookupFailsOn DEF CheckStatus
    <2>2. CASE CdDown(c)
      <3>1. Cmd(c) \in FolderCommands
        BY <2>2 DEF CdDown, FolderCommands, LookupCode
      <3>2. CASE \E f : EnterFolder(c, f)
        BY <1>0, <2>2, <3>2 DEF CdDown, EnterFolder, Ending
      <3> QED BY <2>2, <3>1, <3>2, LookupFailsOn DEF CdDown
    <2>3. CASE \/ ParentStatus(c) \/ CdUp(c) \/ ListStatus(c) \/ ListFiles(c) \/ ListFolders(c)
               \/ CheckAccessFolder(c) \/ OpenShared(c)
      BY <1>0, <2>3 DEF ParentStatus, CdUp, EnterFolder, ListStatus, ListFiles, ListFolders,
                        CheckAccessFolder, OpenShared, Ending, GoesOn, Follows
    <2> QED BY <1>2, <2>1, <2>2, <2>3 DEF Navigating
  <1>3. CASE Editing(c)
    <2>1. CASE FindFolder(c)
      <3>1. Cmd(c) \in FolderCommands
        BY <2>1, AfterLookupTo DEF FindFolder, FolderCommands, LookupCode
      <3>2. CASE \E f : Found(c, f, AfterLookup[Cmd(c)])
        BY <1>0, <2>1, <3>2 DEF FindFolder, GoesOn, Follows
      <3> QED BY <2>1, <3>1, <3>2, LookupFailsOn DEF FindFolder
    <2>2. CASE FindFile(c)
      BY <1>0, <2>2 DEF FindFile, Ending, GoesOn, Follows
    <2>3. CASE \/ ExistDirname(c) \/ CreateFolder(c) \/ CheckEmpty(c) \/ FolderSoftDelete(c)
               \/ FolderRename(c)
      BY <1>0, <2>3 DEF ExistDirname, CreateFolder, CheckEmpty, FolderSoftDelete, FolderRename,
                        Ending, GoesOn, Follows
    <2>4. CASE RenameFindFile(c) \/ FileRename(c) \/ FileSoftDelete(c)
      BY <1>0, <2>4 DEF RenameFindFile, FileRename, FileSoftDelete, Ending, GoesOn, Follows
    <2> QED BY <1>3, <2>1, <2>2, <2>3, <2>4 DEF Editing
  <1>4. CASE Transferring(c)
    <2>1. CASE FileExists(c) \/ FileInsert(c)
      BY <1>0, <2>1 DEF FileExists, FileInsert, Inserts, Ending, GoesOn, Follows
    <2>2. CASE FindByName(c) \/ SendFile(c)
      BY <1>0, <2>2 DEF FindByName, SendFile, DownloadError, Ending, GoesOn, Follows
    <2>3. CASE CheckAccessFile(c) \/ AccessAgain(c) \/ FindById(c)
      BY <1>0, <2>3 DEF CheckAccessFile, AccessAgain, FindById, Ending, GoesOn, Follows
    <2> QED BY <1>4, <2>1, <2>2, <2>3 DEF Transferring
  <1>5. CASE Permitting(c)
    <2>1. CASE FindUser(c)
      <3>1. ASSUME NEW u, NEW pc \in {"check_status", "find_file"},
                   Then(c, [req[c] EXCEPT !.uid = u, !.pc = pc])
            PROVE  req'[c].pc = pc /\ req'[c].cmd = req[c].cmd
        BY <1>0, <3>1 DEF Then, Typed, Requests
      <3>2. (IF Cmd(c) \in FolderCommands THEN "check_status" ELSE "find_file")
                \in {"check_status", "find_file"}
        OBVIOUS
      <3>3. \/ req'[c].pc = "reply"
            \/ req'[c].pc \in {"check_status", "find_file"} /\ req'[c].cmd = req[c].cmd
        BY <1>0, <2>1, <3>1, <3>2 DEF FindUser
      <3> QED BY <2>1, <3>3 DEF FindUser, Ending, GoesOn, Follows
    <2>2. CASE GrantFolder(c) \/ RevokeFolder(c) \/ GrantFile(c) \/ RevokeFile(c) \/ ListUsers(c)
      BY <1>0, <2>2 DEF GrantFolder, RevokeFolder, GrantFile, RevokeFile, ListUsers, Ending
    <2> QED BY <1>5, <2>1, <2>2 DEF Permitting
  <1>6. CASE StatementFails(c)
    BY <1>0, <1>6, LookupFailsOn DEF StatementFails, FailsWith500, Ending
  <1>7. CASE SendReply(c)
    BY <1>0, <1>7 DEF SendReply
  <1>8. CASE UploadReceived(c) \/ UploadBroken(c)
    BY <1>0, <1>8 DEF UploadReceived, UploadBroken, Ending, GoesOn, Follows
  <1> QED BY <1>1, <1>2, <1>3, <1>4, <1>5, <1>6, <1>7, <1>8 DEF Serve

-----------------------------------------------------------------------------
\* a session that has not logged in, and no request
LEMMA FreshOK == /\ FreshSession \in Session /\ NoReq \in Requests
                 /\ \A fs, xs : ConnOK(fs, xs, FreshSession, NoReq)
  BY NoReqTyped DEF FreshSession, Session, NoReq, Roles, NoId, ConnOK, ControlOK, SessionOK,
                    StandsOK, Serving, RenameAt, WriteAt, GrantAt, WriteCommands, GrantCommands

LEMMA CrashInv == ASSUME Inv, Crash PROVE Inv'
  <1>1. Typed' /\ \A c \in Conns : ConnOK(folders', files', sess'[c], req'[c])
    BY FreshOK DEF Crash, Typed
  <1>2. StoreStep
    BY SameStore DEF Crash
  <1> QED BY <1>1, <1>2 DEF Inv, StoreStep

LEMMA InitInv == Init => Inv
  <1> SUFFICES ASSUME Init PROVE Inv
    OBVIOUS
  <1>1. Typed /\ \A c \in Conns : ConnOK(folders, files, sess[c], req[c])
    BY FreshOK DEF Init, Typed
  <1>2. blobs \in Seq(BlobStates)
    BY InitAssumption DEF Init, StoreInit, WellFormed, BlobStates
  <1>3. Tables
    BY <1>2, InitAssumption DEF Init, StoreInit, WellFormed, Tables
  <1>4. TreeOK
    BY InitAssumption DEF Init, StoreInit, WellFormed, TreeOK, RootsStay, FolderIds, FileIds
  <1> QED BY <1>1, <1>3, <1>4 DEF Inv

LEMMA NextInv == Inv /\ [Next]_vars => Inv'
  <1> SUFFICES ASSUME Inv, [Next]_vars PROVE Inv'
    OBVIOUS
  <1>1. CASE Crash
    BY <1>1, CrashInv
  <1>2. ASSUME NEW c \in Conns, Step(c) PROVE Inv'
    BY <1>2, DispatchStep, ServeStep, SameStore, StepInv DEF Step, Begun
  <1>3. CASE UNCHANGED vars
    BY <1>3 DEF vars, store, Inv, Typed, Tables, TreeOK, RootsStay, FolderIds, FileIds
  <1> QED BY <1>1, <1>2, <1>3 DEF Next

LEMMA Invariant == Spec => []Inv
  BY InitInv, NextInv, PTL DEF Spec

-----------------------------------------------------------------------------

\* Every row, session and request keeps its type, for any number of clients
\* and whatever they send: the statements of the handlers only pass on ids
\* and names that earlier ones found.
THEOREM Typing == Spec => []TypeOK
  <1>1. Inv => TypeOK
    BY DEF Inv, Typed, Tables, TypeOK
  <1> QED BY <1>1, Invariant, PTL

\* A session in sharing mode stands in the folder it opened or below it,
\* whatever other sessions make, rename and remove meanwhile: rows never move
\* in the tree, so what cd.c checked stays true.
THEOREM Confined == Spec => []ConfinedToShare
  <1>1. Inv => ConfinedToShare
    BY DEF Inv, ConnOK, StandsOK, ConfinedToShare, FolderIds, InSubtree
  <1> QED BY <1>1, Invariant, PTL

\* A user's root folder is neither removed nor renamed, and there is one at
\* most: RMDIR and RENAME only find folders that have a parent.
THEOREM RootsKept == Spec => []RootsStay
  <1>1. Inv => RootsStay
    BY DEF Inv, TreeOK
  <1> QED BY <1>1, Invariant, PTL

\* Nothing is tried twice and nobody is waited for: at most five statements
\* lie between a request and its answer, whatever the other connections do
\* and whichever statements fail.  The measure is what a proof of
\* RequestsAnswered would need beside fairness.
THEOREM Advancing == Spec => RequestsAdvance
  <1> DEFINE Nearer == /\ \A c \in Conns : req[c].pc # "idle" /\ StepOf(c) =>
                             StepsLeft(req'[c].pc) < StepsLeft(req[c].pc)
                       /\ req' = req => store' = store
  <1>1. ASSUME Inv, Next PROVE Nearer
    <2>1. CASE Crash
      <3>1. \A c \in Conns : req'[c] = NoReq
        BY <2>1 DEF Crash
      <3>2. ASSUME NEW c \in Conns, req[c].pc # "idle"
            PROVE  StepsLeft("idle") < StepsLeft(req[c].pc)
        BY <3>2 DEF StepsLeft
      <3> QED BY <2>1, <3>1, <3>2 DEF Crash, NoReq
    <2>2. ASSUME NEW c \in Conns, Dispatch(c) \/ Disconnect(c) PROVE Nearer
      <3>1. LocalStep(c) /\ UNCHANGED store /\ req[c].pc = "idle"
        BY <1>1, <2>2, DispatchStep, DispatchIdle, DisconnectLocal DEF Begun, Disconnect, At
      <3> QED BY <3>1 DEF LocalStep, StepOf
    <2>3. ASSUME NEW c \in Conns, Serve(c) \/ UploadReceived(c) \/ UploadBroken(c) PROVE Nearer
      <3>1. LocalStep(c) /\ StepsLeft(req'[c].pc) < StepsLeft(req[c].pc)
        BY <1>1, <2>3, ServeStep, ServeAdvances, AdvanceNearer
      <3>2. req' # req
        <4>1. ASSUME NEW pc PROVE ~(StepsLeft(pc) < StepsLeft(pc))
          BY DEF StepsLeft
        <4> QED BY <3>1, <4>1
      <3> QED BY <3>1, <3>2 DEF LocalStep, StepOf
    <2> QED BY <1>1, <2>1, <2>2, <2>3 DEF Next, Step
  <1>2. Inv /\ [Next]_vars => [Nearer]_vars
    BY <1>1
  <1> HIDE DEF Nearer
  <1>3. Spec => [][Nearer]_vars
    BY <1>2, Invariant, PTL DEF Spec
  <1> QED BY <1>3 DEF Nearer, RequestsAdvance
=============================================================================
