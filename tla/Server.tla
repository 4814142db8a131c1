------------------------------- MODULE Server ------------------------------
(***************************************************************************)
(* The file server: every connection's thread serving requests over the    *)
(* shared store, and a process that may die and be started again.          *)
(***************************************************************************)
EXTENDS Accounts, Navigation, Entries, Transfer, Sharing

CONSTANTS MayCrash      \* a write to a closed socket (SIGPIPE), a crash

ASSUME CrashAssumption == MayCrash \in BOOLEAN

Init ==
    /\ StoreInit
    /\ sess = [c \in Conns |-> FreshSession]
    /\ req = [c \in Conns |-> NoReq]

-----------------------------------------------------------------------------
\* handle_client: the requests a client may send
Dispatch(c) ==
    \/ \E n \in Users : BeginRegister(c, n)
    \/ \E n \in Logins[c] : BeginLogin(c, n)
    \/ Logout(c) \/ BeginCdUp(c) \/ BeginList(c) \/ ExitShared(c)
    \/ \E n \in Names :
          \/ BeginCd(c, n) \/ BeginMkdir(c, n) \/ BeginRmdir(c, n) \/ BeginDelete(c, n)
          \/ BeginUpload(c, n) \/ BeginDownload(c, n)
          \/ BeginListShareFolder(c, n) \/ BeginListShareFile(c, n)
          \/ \E new \in Names : BeginRename(c, n, new)
          \/ \E u \in Users :
                \/ BeginUnshareFolder(c, n, u) \/ BeginShareFile(c, n, u)
                \/ BeginUnshareFile(c, n, u)
                \/ \E role \in Roles : BeginShareFolder(c, n, u, role)
    \/ \E f \in FolderIds : BeginOpen(c, f)
    \/ \E x \in FileIds : BeginDownloadShared(c, x)
    \/ \E cmd \in Commands[c] : BeginListSharedWithMe(c, cmd)

\* the handlers, between the request and its reply
Accounting(c) ==
    UserExists(c) \/ InsertUser(c) \/ CreateRoot(c) \/ CheckLogin(c) \/ FindRoot(c)

Navigating(c) ==
    \/ CheckStatus(c) \/ CdDown(c) \/ ParentStatus(c) \/ CdUp(c)
    \/ ListStatus(c) \/ ListFiles(c) \/ ListFolders(c)
    \/ CheckAccessFolder(c) \/ OpenShared(c)

Editing(c) ==
    \/ FindFolder(c) \/ FindFile(c)
    \/ ExistDirname(c) \/ CreateFolder(c) \/ CheckEmpty(c) \/ FolderSoftDelete(c)
    \/ RenameFindFile(c) \/ FileRename(c) \/ FolderRename(c) \/ FileSoftDelete(c)

Transferring(c) ==
    \/ FileExists(c) \/ FileInsert(c) \/ FindByName(c) \/ SendFile(c)
    \/ CheckAccessFile(c) \/ AccessAgain(c) \/ FindById(c)

Permitting(c) ==
    FindUser(c) \/ GrantFolder(c) \/ RevokeFolder(c) \/ GrantFile(c) \/ RevokeFile(c)
        \/ ListUsers(c)

\* what the thread does by itself; a client's data, or its absence, is not it
Serve(c) ==
    \/ Accounting(c) \/ Navigating(c) \/ Editing(c) \/ Transferring(c) \/ Permitting(c)
    \/ StatementFails(c) \/ SendReply(c)

Step(c) ==
    Dispatch(c) \/ Serve(c) \/ UploadReceived(c) \/ UploadBroken(c) \/ Disconnect(c)

\* The process dies and is started again: every session and request is lost,
\* the database and ./storage are not.
Crash ==
    /\ MayCrash
    /\ req # [c \in Conns |-> NoReq]
    /\ req' = [c \in Conns |-> NoReq]
    /\ sess' = [c \in Conns |-> FreshSession]
    /\ UNCHANGED store

Next == Crash \/ \E c \in Conns : Step(c)

Spec == Init /\ [][Next]_vars

\* A thread is scheduled, and PostgreSQL answers every statement.
FairSpec == Spec /\ \A c \in Conns : WF_vars(Serve(c))

-----------------------------------------------------------------------------
(* Types, and the properties that hold.                                    *)

\* Every variable has its type; ids in sessions and rows are ids or NoId.
TypeOK ==
    /\ users \in Seq(Users)
    /\ folders \in Seq(FolderRow)
    /\ files \in Seq(FileRow)
    /\ folderPerms \in SUBSET FolderPerm
    /\ filePerms \in SUBSET FilePerm
    /\ blobs \in Seq(BlobStates)
    /\ sess \in [Conns -> Session]
    /\ req \in [Conns -> Requests]

\* However it moves (cd.c's test of "..", the opening of another share, other
\* sessions' MKDIR, RMDIR and RENAME in the same tree), a session in sharing
\* mode stands in the folder it opened or below it.
ConfinedToShare ==
    \A c \in Conns : sess[c].sharing =>
        sess[c].root \in FolderIds /\ InSubtree(sess[c].current, sess[c].root)

\* the rows a step writes; the root that handle_register makes is left out,
\* since REGISTER takes no session and any connection may send it
FoldersWritten ==
    {f \in DOMAIN folders' : /\ f \in FolderIds => folders'[f] # folders[f]
                             /\ folders'[f].parent # NoId}
FilesWritten == {x \in DOMAIN files' : x \in FileIds => files'[x] # files[x]}

\* The step is one of c's thread.
StepOf(c) == req'[c] # req[c]

\* A session in sharing mode writes nothing but entries of folders in the
\* subtree it opened, never that folder itself, and grants and revokes
\* nothing: the ids its handlers look up are still below the share when a
\* later statement uses them (mkdir, rmdir, mv, rm, put in shared folders).
SharedWritesConfined ==
    [][\A c \in Conns : sess[c].sharing /\ StepOf(c) =>
          /\ \A f \in FoldersWritten :
                f # sess[c].root /\ InSubtree(folders'[f].parent, sess[c].root)
          /\ \A x \in FilesWritten : InSubtree(files'[x].folder, sess[c].root)
          /\ folderPerms' = folderPerms /\ filePerms' = filePerms]_vars

\* A session that opened a folder as a viewer writes no row at all, however
\* its requests interleave with those of others (the 403 of the writing
\* handlers is decided before their first statement).
ViewerNeverWrites ==
    [][\A c \in Conns : Viewer(c) /\ StepOf(c) =>
          /\ FoldersWritten = {} /\ FilesWritten = {}
          /\ folderPerms' = folderPerms /\ filePerms' = filePerms]_vars

\* Nobody, through a share or not, removes or renames a user's root folder,
\* which LOGIN looks for without a filter; and a user has one root at most.
RootsStay ==
    /\ \A f \in FolderIds :
          folders[f].parent = NoId => ~folders[f].deleted /\ folders[f].name = "/"
    /\ \A f, g \in FolderIds :
          /\ folders[f].parent = NoId /\ folders[g].parent = NoId
          /\ folders[f].owner = folders[g].owner
          => f = g

\* Two uploads never share a blob, and a row of files, live or deleted, has
\* a whole one, after failed inserts, broken uploads and crashes too.
RowsHaveBlobs ==
    /\ \A x \in FileIds : files[x].blob \in DOMAIN blobs /\ blobs[files[x].blob] = "full"
    /\ \A x, y \in FileIds : files[x].blob = files[y].blob => x = y

\* A download, once it has announced the size of a file, has that file's
\* whole blob to send, even if the file is deleted or renamed meanwhile.
DownloadHasBlob ==
    \A c \in Conns : At(c, "send") => req[c].id \in DOMAIN blobs /\ blobs[req[c].id] = "full"

\* Without a crash, no blob is whole without a row, unless the row is about
\* to be inserted: file_service_upload removes it when the insert fails.
NoOrphanBlob ==
    \A b \in DOMAIN blobs : blobs[b] = "full" =>
        \/ \E x \in FileIds : files[x].blob = b
        \/ \E c \in Conns : At(c, "file_insert") /\ req[c].id = b

\* Without failures, a user without a root folder is one whose REGISTER is
\* about to make it: two REGISTERs of one name cannot leave a user half made.
UsersGetRoots ==
    \A u \in UserIds :
        \/ RootsOf(u) # {}
        \/ \E c \in Conns : At(c, "create_root") /\ req[c].name = users[u]

\* Every request is answered, except while an upload waits for its client,
\* and but for DOWNLOAD, whose 500 may come out empty.
RequestsAnswered ==
    \A c \in Conns : ~At(c, "idle") /\ ~At(c, "receive") /\ Cmd(c) # "DOWNLOAD"
                        ~> At(c, "reply") \/ At(c, "receive")

\* a bound of the steps a request at this statement still takes
StepsLeft(pc) ==
    CASE pc = "idle"  -> 0
      [] pc = "reply" -> 1
      [] pc \in {"user_insert", "check_login", "exist_dirname", "is_empty", "parent_status",
                 "find_by_name", "find_by_id", "check_access_folder", "list_files", "receive",
                 "find_file"} -> 3
      [] pc \in {"user_exists", "find_folder", "file_exists", "access_again"} -> 4
      [] pc \in {"check_status", "check_access_file"} -> 5
      [] pc \in {"find_user", "rename_find_file"} -> 6
      [] OTHER -> 2

\* What there is of RequestsAnswered without fairness: no statement is tried
\* again and no handler waits for another connection.  Whatever fails or is
\* found, a step of a request being served brings it nearer to its end, and
\* no step writes to the store without such progress.
RequestsAdvance ==
    [][/\ \A c \in Conns : req[c].pc # "idle" /\ StepOf(c) =>
             StepsLeft(req'[c].pc) < StepsLeft(req[c].pc)
       /\ req' = req => store' = store]_vars

-----------------------------------------------------------------------------
(* The server as those who share folders see it.                           *)

SeenFolders ==
    [f \in FolderIds |-> [owner |-> folders[f].owner, dir |-> folders[f].parent,
                          name |-> folders[f].name, deleted |-> folders[f].deleted]]
SeenFiles ==
    [x \in FileIds |-> [owner |-> files[x].owner, dir |-> files[x].folder,
                        name |-> files[x].name, deleted |-> files[x].deleted]]

\* LOGIN takes effect when the root has been looked up.
SeenSession == [c \in Conns |-> IF req[c].pc = "find_root" THEN FreshSession ELSE sess[c]]

Rights == INSTANCE Access WITH
    RootName <- "/", Nowhere <- NoId, Fresh <- FreshSession,
    folders <- SeenFolders, files <- SeenFiles,
    folderGrants <- folderPerms, fileGrants <- filePerms, session <- SeenSession

\* Handlers of several statements, interleaved, failing and dying, do to the
\* tables and to the sessions what single steps of Access do: what was found
\* out and allowed by earlier statements still holds at the one that writes.
\* What is allowed is what the handlers ask for: in a shared folder an editor
\* may rename the owner's entries, as rename.c:34 has it and protocols.txt:134
\* does not (Access, Renames).
RightsKept == Rights!Spec

-----------------------------------------------------------------------------
(* What documents and comments say, and the code does not keep.            *)

\* exit_shared.c:24: EXIT_SHARED "restores the folder from before entering
\* the shared workspace": outside sharing mode a session is in its own tree.
HomeOutsideShares ==
    \A c \in Conns : LoggedIn(c) /\ ~sess[c].sharing /\ sess[c].current # NoId =>
        \E r \in RootsOf(sess[c].user) : InSubtree(sess[c].current, r)

\* protocols.txt:124 (RMDIR): "a directory that is not empty must not be
\* removed".
RemovedEmpty ==
    [][\A f \in FolderIds : ~folders[f].deleted /\ folders'[f].deleted => IsEmpty(f)]_vars
=============================================================================
