---------------------------- MODULE RecordProofs ---------------------------
(***************************************************************************)
(* What the store records: the rows of files and their blobs, users and    *)
(* their roots, while any number of threads upload, delete and register.   *)
(***************************************************************************)
EXTENDS ServerProofs

-----------------------------------------------------------------------------
(* What a step does to the blobs.                                          *)

\* the statements whose request's id is a blob
BlobAt == {"receive", "file_insert", "send"}

NoBlobStep(c) ==
    /\ blobs' = blobs /\ DOMAIN files' = DOMAIN files
    /\ req'[c].pc \notin BlobAt /\ req[c].pc # "file_insert"

SendStep(c) ==
    /\ blobs' = blobs /\ files' = files
    /\ req'[c].pc = "send" /\ req[c].pc # "file_insert"
    /\ \E x \in FileIds : req'[c].id = files[x].blob

StartStep(c) ==
    /\ blobs' = Append(blobs, "partial") /\ files' = files
    /\ req'[c].pc = "receive" /\ req[c].pc # "file_insert"
    /\ req'[c].id = Len(blobs) + 1

WholeStep(c) ==
    /\ \E state \in {"full", "short"} :
          /\ blobs' = [blobs EXCEPT ![req[c].id] = state]
          /\ ~DiskMayFail => state = "full"
    /\ files' = files
    /\ req[c].pc = "receive" /\ req'[c].pc = "file_insert" /\ req'[c].id = req[c].id

RowStep(c) ==
    /\ req[c].pc = "file_insert" /\ req'[c].pc \notin BlobAt
    /\ \/ \E e : files' = Append(files, e) /\ e.blob = req[c].id /\ blobs' = blobs
       \/ files' = files /\ blobs' = [blobs EXCEPT ![req[c].id] = "removed"]

LEMMA LookupFailsPc ==
    ASSUME NEW c \in Conns, Inv, NEW ret \in {"ERR", "DELETED", "NOT_FOUND", "NAME_NOT_FOUND"},
           Cmd(c) \in FolderCommands, LookupFails(c, ret)
    PROVE  req'[c].pc \notin BlobAt
  <1>1. CASE LookupCode[Cmd(c)][ret] # 0
    BY <1>1, NextPc DEF LookupFails, Inv, BlobAt
  <1>2. CASE LookupCode[Cmd(c)][ret] = 0
    <2>1. req'[c].pc = AfterLookup[Cmd(c)]
      BY <1>2, NextPc DEF LookupFails, Inv
    <2> QED BY <1>2, <2>1, LookupCodes, AfterLookupTo DEF BlobAt
  <1> QED BY <1>1, <1>2

LEMMA BlobStep ==
    ASSUME NEW c \in Conns, Inv, Step(c)
    PROVE  NoBlobStep(c) \/ SendStep(c) \/ StartStep(c) \/ WholeStep(c) \/ RowStep(c)
  <1> USE NextPc DEF NoBlobStep, BlobAt, At
  <1>0. Typed
    BY DEF Inv
  <1>1. CASE Dispatch(c)
    <2>1. req[c].pc # "file_insert"
      BY <1>1 DEF Dispatch, BeginRegister, BeginLogin, Logout, BeginCdUp, BeginList, ExitShared,
           BeginCd, BeginMkdir, BeginRmdir, BeginDelete, BeginUpload, BeginDownload,
           BeginListShareFolder, BeginListShareFile, BeginRename, BeginUnshareFolder,
           BeginShareFile, BeginUnshareFile, BeginShareFolder, BeginOpen, BeginDownloadShared,
           BeginListSharedWithMe, Receive
    <2> QED BY <1>1, <2>1, DispatchStep DEF Begun, LateAt, store
  <1>2. CASE Accounting(c)
    <2>1. /\ UNCHANGED <<files, blobs>>
          /\ req[c].pc \in {"user_exists", "user_insert", "create_root", "check_login", "find_root"}
      BY <1>2 DEF Accounting, UserExists, InsertUser, CreateRoot, CheckLogin, FindRoot, store
    <2>2. \/ \E code : Reply(c, code)
          \/ Goto(c, "user_insert") \/ Goto(c, "create_root") \/ Goto(c, "find_root")
      BY <1>2 DEF Accounting, UserExists, InsertUser, CreateRoot, CheckLogin, FindRoot
    <2> QED BY <1>0, <2>1, <2>2
  <1>3. CASE Navigating(c)
    <2>1. CASE CheckStatus(c)
      <3>1. StatusOf(sess[c].current) \in {"OK", "DELETED", "NOT_FOUND"}
        BY DEF StatusOf
      <3> QED BY <1>0, <2>1, <3>1, LookupFailsPc DEF CheckStatus, store
    <2>2. CASE CdDown(c)
      <3>1. Cmd(c) \in FolderCommands
        BY <2>2 DEF CdDown, FolderCommands, LookupCode
      <3> QED BY <1>0, <2>2, <3>1, LookupFailsPc DEF CdDown, EnterFolder, store
    <2>3. CASE ParentStatus(c) \/ CdUp(c) \/ ListStatus(c) \/ ListFiles(c) \/ ListFolders(c)
      <3>1. /\ UNCHANGED store
            /\ req[c].pc \in {"parent_status", "find_parent", "check_status", "list_files",
                              "list_folders"}
        BY <2>3 DEF ParentStatus, CdUp, ListStatus, ListFiles, ListFolders
      <3>2. \/ \E code : Reply(c, code)
            \/ Goto(c, "find_parent") \/ Goto(c, "list_files") \/ Goto(c, "list_folders")
        BY <2>3 DEF ParentStatus, CdUp, EnterFolder, ListStatus, ListFiles, ListFolders
      <3> QED BY <1>0, <3>1, <3>2 DEF store
    <2>4. CASE CheckAccessFolder(c) \/ OpenShared(c)
      <3>1. UNCHANGED store /\ req[c].pc \in {"check_access_folder", "access_info"}
        BY <2>4 DEF CheckAccessFolder, OpenShared
      <3>2. (\E code : Reply(c, code)) \/ Goto(c, "access_info")
        BY <2>4 DEF CheckAccessFolder, OpenShared
      <3> QED BY <1>0, <3>1, <3>2 DEF store
    <2> QED BY <1>3, <2>1, <2>2, <2>3, <2>4 DEF Navigating
  <1>4. CASE Editing(c)
    <2>1. CASE FindFolder(c)
      <3>1. Cmd(c) \in FolderCommands
        BY <2>1, AfterLookupTo DEF FindFolder, FolderCommands, LookupCode
      <3> QED BY <1>0, <2>1, <3>1, LookupFailsPc, AfterLookupTo DEF FindFolder, store
    <2>2. CASE FindFile(c)
      <3>1. AfterFileLookup[Cmd(c)]
                \in {"file_soft_delete", "grant_file", "revoke_file", "list_users"}
        BY <2>2 DEF FindFile, AfterFileLookup
      <3> QED BY <1>0, <2>2, <3>1 DEF FindFile, store
    <2>3. CASE \/ ExistDirname(c) \/ CreateFolder(c) \/ CheckEmpty(c) \/ FolderSoftDelete(c)
               \/ FolderRename(c)
      <3>1. /\ UNCHANGED <<files, blobs>>
            /\ req[c].pc \in {"exist_dirname", "create_folder", "is_empty", "folder_soft_delete",
                              "folder_rename"}
        BY <2>3 DEF ExistDirname, CreateFolder, CheckEmpty, FolderSoftDelete, FolderRename, store
      <3>2. \/ \E code : Reply(c, code)
            \/ Goto(c, "create_folder") \/ Goto(c, "folder_soft_delete")
        BY <2>3 DEF ExistDirname, CreateFolder, CheckEmpty, FolderSoftDelete, FolderRename
      <3> QED BY <1>0, <3>1, <3>2
    <2>4. CASE RenameFindFile(c)
      BY <1>0, <2>4 DEF RenameFindFile, store
    <2>5. CASE FileRename(c) \/ FileSoftDelete(c)
      <3>1. DOMAIN files' = DOMAIN files /\ blobs' = blobs
        BY <2>5 DEF FileRename, FileSoftDelete
      <3> QED BY <1>0, <2>5, <3>1 DEF FileRename, FileSoftDelete
    <2> QED BY <1>4, <2>1, <2>2, <2>3, <2>4, <2>5 DEF Editing
  <1>5. CASE Transferring(c)
    <2>1. CASE FileExists(c)
      BY <1>0, <2>1 DEF FileExists, StartStep, tables
    <2>2. CASE FileInsert(c)
      <3>1. CASE Inserts(c, sess[c].current)
        BY <1>0, <2>2, <3>1 DEF FileInsert, Inserts, RowStep
      <3>2. CASE InsertFails(c, sess[c].current) /\ RemovesBlob(c) /\ Reply(c, 500)
        BY <1>0, <2>2, <3>2 DEF FileInsert, InsertFails, RemovesBlob, RowStep
      <3> QED BY <2>2, <3>1, <3>2 DEF FileInsert
    <2>3. CASE FindByName(c)
      BY <1>0, <2>3 DEF FindByName, DownloadError, FilesNamed, SendStep, store
    <2>4. CASE SendFile(c)
      BY <1>0, <2>4 DEF SendFile, DownloadError, store
    <2>5. CASE CheckAccessFile(c) \/ AccessAgain(c)
      BY <1>0, <2>5 DEF CheckAccessFile, AccessAgain, store
    <2>6. CASE FindById(c)
      BY <1>0, <2>6 DEF FindById, Live, FileIds, SendStep, store
    <2> QED BY <1>5, <2>1, <2>2, <2>3, <2>4, <2>5, <2>6 DEF Transferring
  <1>6. CASE Permitting(c)
    <2>1. CASE FindUser(c)
      <3>1. ASSUME NEW u, NEW pc \in {"check_status", "find_file"},
                   Then(c, [req[c] EXCEPT !.uid = u, !.pc = pc])
            PROVE  req'[c].pc = pc
        BY <1>0, <3>1 DEF Then, Typed, Requests
      <3>2. (IF Cmd(c) \in FolderCommands THEN "check_status" ELSE "find_file")
                \in {"check_status", "find_file"}
        OBVIOUS
      <3>3. UNCHANGED store /\ req[c].pc = "find_user"
        BY <2>1 DEF FindUser
      <3>4. req'[c].pc \in {"check_status", "find_file", "reply"}
        BY <1>0, <2>1, <3>1, <3>2 DEF FindUser
      <3> QED BY <3>3, <3>4 DEF store
    <2>2. CASE GrantFolder(c) \/ RevokeFolder(c) \/ GrantFile(c) \/ RevokeFile(c) \/ ListUsers(c)
      BY <1>0, <2>2 DEF GrantFolder, RevokeFolder, GrantFile, RevokeFile, ListUsers, store
    <2> QED BY <1>6, <2>1, <2>2 DEF Permitting
  <1>7. CASE StatementFails(c)
    BY <1>0, <1>7, LookupFailsPc DEF StatementFails, FailsWith500, store
  <1>8. CASE SendReply(c) \/ UploadBroken(c) \/ Disconnect(c)
    BY <1>0, <1>8 DEF SendReply, UploadBroken, Disconnect, store
  <1>9. CASE UploadReceived(c)
    <2>1. PICK state \in {"full"} \cup (IF DiskMayFail THEN {"short"} ELSE {}) :
             blobs' = [blobs EXCEPT ![req[c].id] = state]
      BY <1>9 DEF UploadReceived
    <2>2. state \in {"full", "short"} /\ (~DiskMayFail => state = "full")
      OBVIOUS
    <2>3. /\ files' = files /\ req[c].pc = "receive"
          /\ req'[c].pc = "file_insert" /\ req'[c].id = req[c].id
      BY <1>0, <1>9 DEF UploadReceived, tables
    <2> QED BY <2>1, <2>2, <2>3 DEF WholeStep
  <1> QED BY <1>1, <1>2, <1>3, <1>4, <1>5, <1>6, <1>7, <1>8, <1>9 DEF Step, Serve

-----------------------------------------------------------------------------
(* Blobs and the rows that refer to them.                                  *)

Uploading(r) == r.pc \in {"receive", "file_insert"}

\* every row has a blob of its own, and an upload has one no row has
BlobsApart ==
    /\ \A x \in FileIds : files[x].blob \in DOMAIN blobs
    /\ \A x, y \in FileIds : files[x].blob = files[y].blob => x = y
    /\ \A c \in Conns : Uploading(req[c]) =>
          /\ req[c].id \in DOMAIN blobs
          /\ \A x \in FileIds : files[x].blob # req[c].id
    /\ \A c, d \in Conns :
          Uploading(req[c]) /\ Uploading(req[d]) /\ req[c].id = req[d].id => c = d
    /\ \A c \in Conns : req[c].pc = "send" => \E x \in FileIds : files[x].blob = req[c].id

\* unless the disk fills up, the blob of a row is whole, and that of an
\* upload whose row is about to be inserted
BlobsWhole ==
    /\ \A x \in FileIds : blobs[files[x].blob] = "full"
    /\ \A c \in Conns : req[c].pc = "file_insert" => blobs[req[c].id] = "full"

BlobInv == Inv /\ BlobsApart

\* What the other threads, and the rows there were, see of a step.
LEMMA StepFrame ==
    ASSUME NEW c \in Conns, Inv, Step(c)
    PROVE  /\ \A d \in Conns \ {c} : req'[d] = req[d]
           /\ FileIds \subseteq DOMAIN files'
           /\ \A x \in FileIds : files'[x].blob = files[x].blob
  BY DispatchStep, ServeStep, SameStore
  DEF Step, Begun, LocalStep, StoreStep, FilesGrown, FileIds

\* A row that is added is the last.
LEMMA RowAdded ==
    ASSUME Inv, NEW e, files' = Append(files, e)
    PROVE  \E n \in Nat : /\ n \notin FileIds /\ FileIds' = FileIds \cup {n}
                          /\ files'[n] = e
  <1>1. files \in Seq(FileRow)
    BY DEF Inv, Tables
  <1>2. Len(files) + 1 \in Nat
    BY <1>1
  <1> QED BY <1>1, <1>2 DEF FileIds

LEMMA ApartStep == ASSUME BlobInv, NEW c \in Conns, Step(c) PROVE BlobsApart'
  <1> USE DEF BlobInv, BlobAt
  <1>0. blobs \in Seq(BlobStates)
    BY DEF Inv, Tables
  <1>1. CASE NoBlobStep(c) \/ SendStep(c)
    BY <1>1, StepFrame DEF NoBlobStep, SendStep, BlobsApart, Uploading, FileIds
  <1>2. CASE StartStep(c)
    <2>1. /\ Len(blobs) + 1 \notin DOMAIN blobs
          /\ DOMAIN blobs' = DOMAIN blobs \cup {Len(blobs) + 1}
      BY <1>0, <1>2 DEF StartStep
    <2> QED BY <1>2, <2>1, StepFrame DEF StartStep, BlobsApart, Uploading, FileIds
  <1>3. CASE WholeStep(c)
    <2>1. DOMAIN blobs' = DOMAIN blobs
      BY <1>0, <1>3 DEF WholeStep
    <2> QED BY <1>3, <2>1, StepFrame DEF WholeStep, BlobsApart, Uploading, FileIds
  <1>4. CASE RowStep(c)
    <2>1. DOMAIN blobs' = DOMAIN blobs
      BY <1>0, <1>4 DEF RowStep
    <2>2. CASE files' = files
      BY <1>4, <2>1, <2>2, StepFrame DEF RowStep, BlobsApart, Uploading, FileIds
    <2>3. ASSUME NEW e, files' = Append(files, e), e.blob = req[c].id PROVE BlobsApart'
      <3>1. PICK n \in Nat : n \notin FileIds /\ FileIds' = FileIds \cup {n} /\ files'[n] = e
        BY <2>3, RowAdded
      <3>2. req[c].id \in DOMAIN blobs /\ \A x \in FileIds : files[x].blob # req[c].id
        BY <1>4 DEF RowStep, BlobsApart, Uploading
      <3>3. \A d \in Conns \ {c} : Uploading(req[d]) => req[d].id # req[c].id
        BY <1>4 DEF RowStep, BlobsApart, Uploading
      <3>4. \A x \in FileIds : files'[x].blob = files[x].blob
        BY StepFrame
      <3>5. files'[n].blob = req[c].id
        BY <2>3, <3>1
      <3>6. req'[c].pc \notin BlobAt
        BY <1>4 DEF RowStep
      <3>7. \A x \in FileIds' : files'[x].blob \in DOMAIN blobs'
        BY <2>1, <3>1, <3>2, <3>4, <3>5 DEF BlobsApart
      <3>8. \A x, y \in FileIds' : files'[x].blob = files'[y].blob => x = y
        BY <3>1, <3>2, <3>4, <3>5 DEF BlobsApart
      <3>9. \A d \in Conns : Uploading(req'[d]) =>
               /\ d # c /\ req'[d] = req[d] /\ req'[d].id \in DOMAIN blobs'
               /\ \A x \in FileIds' : files'[x].blob # req'[d].id
        BY <2>1, <3>1, <3>3, <3>4, <3>5, <3>6, StepFrame DEF BlobsApart, Uploading
      <3>10. \A d \in Conns :
                req'[d].pc = "send" => \E x \in FileIds' : files'[x].blob = req'[d].id
        BY <3>1, <3>4, <3>6, StepFrame DEF BlobsApart
      <3> QED BY <3>7, <3>8, <3>9, <3>10 DEF BlobsApart
    <2> QED BY <1>4, <2>2, <2>3 DEF RowStep
  <1> QED BY <1>1, <1>2, <1>3, <1>4, BlobStep

LEMMA BlobInvariant == Spec => []BlobInv
  <1>1. Init => BlobInv
    <2> SUFFICES ASSUME Init PROVE BlobsApart
      BY InitInv DEF BlobInv
    <2>1. \A c \in Conns : req[c].pc = "idle"
      BY DEF Init, NoReq
    <2>2. \A x \in FileIds : files[x].blob = x /\ x \in DOMAIN blobs
      BY InitAssumption DEF Init, StoreInit, WellFormed, FileIds
    <2> QED BY <2>1, <2>2 DEF BlobsApart, Uploading
  <1>2. BlobInv /\ [Next]_vars => BlobInv'
    <2> SUFFICES ASSUME BlobInv, [Next]_vars PROVE BlobsApart'
      BY NextInv DEF BlobInv
    <2>1. CASE Crash
      BY <2>1 DEF Crash, store, BlobInv, BlobsApart, Uploading, FileIds, NoReq
    <2>2. CASE UNCHANGED vars
      BY <2>2 DEF vars, store, BlobInv, BlobsApart, FileIds
    <2> QED BY <2>1, <2>2, ApartStep DEF Next
  <1> QED BY <1>1, <1>2, PTL DEF Spec

LEMMA WholeKept ==
    ASSUME BlobInv, BlobsWhole, ~DiskMayFail, NEW c \in Conns, Step(c) PROVE BlobsWhole'
  <1> USE DEF BlobInv, BlobAt
  <1>0. blobs \in Seq(BlobStates)
    BY DEF Inv, Tables
  <1>1. CASE NoBlobStep(c) \/ SendStep(c)
    BY <1>1, StepFrame DEF NoBlobStep, SendStep, BlobsWhole, FileIds
  <1>2. CASE StartStep(c)
    <2>1. \A b \in DOMAIN blobs : blobs'[b] = blobs[b]
      BY <1>0, <1>2 DEF StartStep
    <2> QED BY <1>2, <2>1, StepFrame DEF StartStep, BlobsWhole, BlobsApart, Uploading, FileIds
  <1>3. CASE WholeStep(c)
    <2>1. blobs' = [blobs EXCEPT ![req[c].id] = "full"]
      BY <1>3 DEF WholeStep
    <2>2. req[c].id \in DOMAIN blobs
      BY <1>3 DEF WholeStep, BlobsApart, Uploading
    <2>3. \A b \in DOMAIN blobs : blobs'[b] = IF b = req[c].id THEN "full" ELSE blobs[b]
      BY <1>0, <2>1, <2>2
    <2> QED BY <1>3, <2>2, <2>3, StepFrame DEF WholeStep, BlobsWhole, BlobsApart, Uploading, FileIds
  <1>4. CASE RowStep(c)
    <2>1. /\ req[c].id \in DOMAIN blobs /\ blobs[req[c].id] = "full"
          /\ \A x \in FileIds : files[x].blob # req[c].id
          /\ \A d \in Conns \ {c} : Uploading(req[d]) => req[d].id # req[c].id
      BY <1>4 DEF RowStep, BlobsApart, BlobsWhole, Uploading
    <2>2. ASSUME files' = files, blobs' = [blobs EXCEPT ![req[c].id] = "removed"]
          PROVE  BlobsWhole'
      <3>1. \A b \in DOMAIN blobs \ {req[c].id} : blobs'[b] = blobs[b]
        BY <1>0, <2>1, <2>2
      <3> QED BY <1>4, <2>1, <2>2, <3>1, StepFrame
              DEF RowStep, BlobsWhole, BlobsApart, Uploading, FileIds
    <2>3. ASSUME NEW e, files' = Append(files, e), e.blob = req[c].id, blobs' = blobs
          PROVE  BlobsWhole'
      <3>1. PICK n \in Nat : n \notin FileIds /\ FileIds' = FileIds \cup {n} /\ files'[n] = e
        BY <2>3, RowAdded
      <3>2. files'[n].blob = req[c].id
        BY <2>3, <3>1
      <3>3. \A x \in FileIds' : blobs'[files'[x].blob] = "full"
        BY <2>1, <2>3, <3>1, <3>2, StepFrame DEF BlobsWhole
      <3>4. \A d \in Conns : req'[d].pc = "file_insert" => blobs'[req'[d].id] = "full"
        BY <1>4, <2>3, StepFrame DEF RowStep, BlobsWhole
      <3> QED BY <3>3, <3>4 DEF BlobsWhole
    <2> QED BY <1>4, <2>2, <2>3 DEF RowStep
  <1> QED BY <1>1, <1>2, <1>3, <1>4, BlobStep

LEMMA WholeInvariant == ASSUME ~DiskMayFail PROVE Spec => []BlobsWhole
  <1>1. Init => BlobsWhole
    <2> SUFFICES ASSUME Init PROVE BlobsWhole
      OBVIOUS
    <2>1. \A c \in Conns : req[c].pc = "idle"
      BY DEF Init, NoReq
    <2>2. \A x \in FileIds : files[x].blob = x /\ blobs[x] = "full"
      BY InitAssumption DEF Init, StoreInit, WellFormed, FileIds
    <2> QED BY <2>1, <2>2 DEF BlobsWhole
  <1>2. BlobInv /\ BlobsWhole /\ [Next]_vars => BlobsWhole'
    <2> SUFFICES ASSUME BlobInv, BlobsWhole, [Next]_vars PROVE BlobsWhole'
      OBVIOUS
    <2>1. CASE Crash
      BY <2>1 DEF Crash, store, BlobsWhole, FileIds, NoReq
    <2>2. CASE UNCHANGED vars
      BY <2>2 DEF vars, store, BlobsWhole, FileIds
    <2> QED BY <2>1, <2>2, WholeKept DEF Next
  <1> QED BY <1>1, <1>2, BlobInvariant, PTL DEF Spec

\* As long as no write is cut short, a row of files has a whole blob, its
\* own, after failed inserts, broken uploads and crashes: the blob is whole
\* before the row is inserted, only the upload that made it removes it, and
\* only when it has no row.
THEOREM RowsWhole == ASSUME ~DiskMayFail PROVE Spec => []RowsHaveBlobs
  <1>1. BlobInv /\ BlobsWhole => RowsHaveBlobs
    BY DEF BlobInv, BlobsApart, BlobsWhole, RowsHaveBlobs
  <1> QED BY <1>1, BlobInvariant, WholeInvariant, PTL

\* A download that announced a size has the whole blob of a row to send,
\* whoever deletes or renames the file meanwhile: a deletion marks the row.
THEOREM DownloadsWhole == ASSUME ~DiskMayFail PROVE Spec => []DownloadHasBlob
  <1>1. BlobInv /\ BlobsWhole => DownloadHasBlob
    BY DEF BlobInv, BlobsApart, BlobsWhole, DownloadHasBlob, At
  <1> QED BY <1>1, BlobInvariant, WholeInvariant, PTL

-----------------------------------------------------------------------------
LEMMA OrphanStep == ASSUME BlobInv, NoOrphanBlob, NEW c \in Conns, Step(c) PROVE NoOrphanBlob'
  <1> USE DEF BlobInv, BlobAt, At
  <1>0. blobs \in Seq(BlobStates)
    BY DEF Inv, Tables
  <1> SUFFICES ASSUME NEW b \in DOMAIN blobs', blobs'[b] = "full"
               PROVE  \/ \E x \in FileIds' : files'[x].blob = b
                      \/ \E d \in Conns : req'[d].pc = "file_insert" /\ req'[d].id = b
    BY DEF NoOrphanBlob
  \* a blob that was whole, and is not the one this step is about
  <1>1. ASSUME b \in DOMAIN blobs, blobs[b] = "full",
               ~(req[c].pc = "file_insert" /\ req[c].id = b)
        PROVE  \/ \E x \in FileIds' : files'[x].blob = b
               \/ \E d \in Conns : req'[d].pc = "file_insert" /\ req'[d].id = b
    <2>1. CASE \E x \in FileIds : files[x].blob = b
      BY <2>1, StepFrame DEF FileIds
    <2>2. ASSUME NEW d \in Conns, req[d].pc = "file_insert", req[d].id = b
          PROVE  req'[d].pc = "file_insert" /\ req'[d].id = b
      BY <1>1, <2>2, StepFrame
    <2> QED BY <1>1, <2>1, <2>2 DEF NoOrphanBlob
  <1>2. CASE NoBlobStep(c) \/ SendStep(c)
    BY <1>1, <1>2 DEF NoBlobStep, SendStep
  <1>3. CASE StartStep(c)
    <2>1. b \in DOMAIN blobs /\ blobs[b] = "full"
      BY <1>0, <1>3 DEF StartStep
    <2> QED BY <1>1, <1>3, <2>1 DEF StartStep
  <1>4. CASE WholeStep(c)
    <2>1. b \in DOMAIN blobs /\ (b # req[c].id => blobs[b] = "full")
      BY <1>0, <1>4 DEF WholeStep
    <2> QED BY <1>1, <1>4, <2>1 DEF WholeStep
  <1>5. CASE RowStep(c)
    <2>1. req[c].id \in DOMAIN blobs
      BY <1>5 DEF RowStep, BlobsApart, Uploading
    <2>2. ASSUME files' = files, blobs' = [blobs EXCEPT ![req[c].id] = "removed"]
          PROVE  b # req[c].id /\ b \in DOMAIN blobs /\ blobs[b] = "full"
      BY <1>0, <2>1, <2>2
    <2>3. ASSUME NEW e, files' = Append(files, e), e.blob = req[c].id, b = req[c].id
          PROVE  \E x \in FileIds' : files'[x].blob = b
      BY <2>3, RowAdded
    <2> QED BY <1>1, <1>5, <2>2, <2>3 DEF RowStep
  <1> QED BY <1>2, <1>3, <1>4, <1>5, BlobStep

\* As long as the process does not die, a whole blob has its row or is about
\* to get it: an upload whose insert fails, for whatever reason, removes the
\* blob it made.  A crash between the two leaves the blob, and only then.
THEOREM NoOrphans == ASSUME ~MayCrash PROVE Spec => []NoOrphanBlob
  <1>1. Init => NoOrphanBlob
    <2> SUFFICES ASSUME Init PROVE NoOrphanBlob
      OBVIOUS
    <2>1. \A b \in DOMAIN blobs : b \in FileIds /\ files[b].blob = b
      BY InitAssumption DEF Init, StoreInit, WellFormed, FileIds
    <2> QED BY <2>1 DEF NoOrphanBlob
  <1>2. BlobInv /\ NoOrphanBlob /\ [Next]_vars => NoOrphanBlob'
    <2> SUFFICES ASSUME BlobInv, NoOrphanBlob, [Next]_vars PROVE NoOrphanBlob'
      OBVIOUS
    <2>1. CASE UNCHANGED vars
      BY <2>1 DEF vars, store, NoOrphanBlob, FileIds, At
    <2> QED BY <2>1, OrphanStep DEF Next, Crash
  <1> QED BY <1>1, <1>2, BlobInvariant, PTL DEF Spec

-----------------------------------------------------------------------------
(* Users and their roots.                                                  *)

NamesApart == \A u, v \in UserIds : users[u] = users[v] => u = v

\* What a step does to users and to the request of its thread: a root is
\* made for every user of the name, since there is one.
InsertStep(c) ==
    /\ UserNamed(req[c].name) = {} /\ users' = Append(users, req[c].name)
    /\ folders' = folders
    /\ req'[c].pc = "create_root" /\ req'[c].name = req[c].name

RootStep(c) ==
    /\ users' = users
    /\ \A u \in UserNamed(req[c].name) : \E f \in DOMAIN folders' :
          folders'[f].owner = u /\ folders'[f].parent = NoId

AccountStep(c) == InsertStep(c) \/ RootStep(c) \/ (users' = users /\ req[c].pc # "create_root")

LEMMA CreateRootMakes ==
    ASSUME NEW c \in Conns, Inv, NamesApart, CreateRoot(c) PROVE RootStep(c)
  <1>1. PICK u \in UserNamed(req[c].name) :
           \/ RootsOf(u) # {} /\ folders' = folders
           \/ folders' = Append(folders, [owner |-> u, parent |-> NoId, name |-> "/",
                                          deleted |-> FALSE])
    BY DEF CreateRoot
  <1>2. \A v \in UserNamed(req[c].name) : v = u
    BY DEF UserNamed, NamesApart
  <1>3. CASE RootsOf(u) # {} /\ folders' = folders
    BY <1>2, <1>3 DEF CreateRoot, RootStep, RootsOf, FolderIds
  <1>4. CASE folders' = Append(folders, [owner |-> u, parent |-> NoId, name |-> "/",
                                         deleted |-> FALSE])
    <2> DEFINE e == [owner |-> u, parent |-> NoId, name |-> "/", deleted |-> FALSE]
    <2>1. folders' = Append(folders, e) /\ e.owner = u /\ e.parent = NoId
      BY <1>4
    <2>2. folders \in Seq(FolderRow)
      BY DEF Inv, Tables
    <2> HIDE DEF e
    <2>3. Len(folders) + 1 \in DOMAIN folders' /\ folders'[Len(folders) + 1] = e
      BY <2>1, <2>2
    <2> QED BY <1>2, <2>1, <2>3 DEF CreateRoot, RootStep
  <1> QED BY <1>1, <1>3, <1>4

LEMMA AccountSteps ==
    ASSUME NEW c \in Conns, Inv, NamesApart, ~DbMayFail, Step(c) PROVE AccountStep(c)
  <1>1. CASE InsertUser(c)
    <2>1. CASE users' = Append(users, req[c].name) /\ UserNamed(req[c].name) = {}
                   /\ Goto(c, "create_root")
      <3>1. MovedTo(c, "create_root")
        BY <2>1, Goes DEF Inv, Places, FailsWith500
      <3> QED BY <1>1, <2>1, <3>1 DEF InsertUser, AccountStep, InsertStep, MovedTo
    <2>2. CASE users' = users
      BY <1>1, <2>2 DEF InsertUser, At, AccountStep
    <2> QED BY <1>1, <2>1, <2>2 DEF InsertUser
  <1>2. CASE CreateRoot(c)
    BY <1>2, CreateRootMakes DEF AccountStep
  <1>3. CASE Dispatch(c)
    <2>1. req[c].pc = "idle"
      BY <1>3 DEF Dispatch, BeginRegister, BeginLogin, Logout, BeginCdUp, BeginList, ExitShared,
           BeginCd, BeginMkdir, BeginRmdir, BeginDelete, BeginUpload, BeginDownload,
           BeginListShareFolder, BeginListShareFile, BeginRename, BeginUnshareFolder,
           BeginShareFile, BeginUnshareFile, BeginShareFolder, BeginOpen, BeginDownloadShared,
           BeginListSharedWithMe, Receive, At
    <2> QED BY <1>3, <2>1, DispatchStep DEF Begun, store, AccountStep
  <1>4. CASE UserExists(c) \/ CheckLogin(c) \/ FindRoot(c)
    BY <1>4 DEF UserExists, CheckLogin, FindRoot, At, store, AccountStep
  <1>5. CASE Navigating(c)
    BY <1>5 DEF Navigating, CheckStatus, CdDown, ParentStatus, CdUp, ListStatus, ListFiles,
                ListFolders, CheckAccessFolder, OpenShared, At, store, AccountStep
  <1>6. CASE Editing(c)
    BY <1>6 DEF Editing, FindFolder, FindFile, ExistDirname, CreateFolder, CheckEmpty,
                FolderSoftDelete, RenameFindFile, FileRename, FolderRename, FileSoftDelete,
                At, store, AccountStep
  <1>7. CASE Transferring(c) \/ UploadReceived(c) \/ UploadBroken(c)
    BY <1>7 DEF Transferring, FileExists, FileInsert, FindByName, SendFile, CheckAccessFile,
                AccessAgain, FindById, UploadReceived, UploadBroken, At, store, tables, AccountStep
  <1>8. CASE Permitting(c)
    BY <1>8 DEF Permitting, FindUser, GrantFolder, RevokeFolder, GrantFile, RevokeFile,
                ListUsers, At, store, AccountStep
  <1>9. CASE SendReply(c) \/ Disconnect(c)
    BY <1>9 DEF SendReply, Disconnect, At, store, AccountStep
  <1> QED BY <1>1, <1>2, <1>3, <1>4, <1>5, <1>6, <1>7, <1>8, <1>9
          DEF Step, Serve, Accounting, StatementFails

AccountInv == Inv /\ NamesApart /\ UsersGetRoots

LEMMA RootsOfKept ==
    ASSUME Inv, NEW c \in Conns, Step(c), NEW u, RootsOf(u) # {} PROVE RootsOf(u)' # {}
  <1>1. Grown(folders, folders')
    BY DispatchStep, ServeStep, SameStore DEF Step, Begun, StoreStep
  <1> QED BY <1>1 DEF Grown, RootsOf, FolderIds

LEMMA AccountKept ==
    ASSUME AccountInv, ~DbMayFail, NEW c \in Conns, Step(c) PROVE NamesApart' /\ UsersGetRoots'
  <1> USE DEF AccountInv, At
  <1>0. users \in Seq(Users)
    BY DEF Inv, Tables
  <1>1. ASSUME NEW u \in UserIds, RootsOf(u) = {}, InsertStep(c) \/ ~RootStep(c)
        PROVE  \E d \in Conns : req'[d].pc = "create_root" /\ req'[d].name = users[u]
    <2>1. PICK d \in Conns : req[d].pc = "create_root" /\ req[d].name = users[u]
      BY <1>1 DEF UsersGetRoots
    <2>2. d # c \/ InsertStep(c)
      BY <1>1, <2>1, AccountSteps DEF AccountStep
    <2>3. CASE d # c
      BY <2>1, <2>3, StepFrame
    <2>4. CASE d = c /\ InsertStep(c)
      BY <2>1, <2>4 DEF InsertStep
    <2> QED BY <2>2, <2>3, <2>4
  <1>2. CASE InsertStep(c)
    <2>1. PICK n : /\ UserIds' = UserIds \cup {n} /\ n \notin UserIds
                   /\ users'[n] = req[c].name /\ \A u \in UserIds : users'[u] = users[u]
      BY <1>0, <1>2, Appended DEF InsertStep, UserIds
    <2>2. \A u \in UserIds : users[u] # req[c].name
      BY <1>2 DEF InsertStep, UserNamed
    <2>3. NamesApart'
      BY <2>1, <2>2 DEF NamesApart
    <2>4. UsersGetRoots'
      BY <1>1, <1>2, <2>1, RootsOfKept DEF InsertStep, UsersGetRoots
    <2> QED BY <2>3, <2>4
  <1>3. CASE RootStep(c)
    <2>1. UserIds' = UserIds /\ users' = users
      BY <1>3 DEF RootStep, UserIds
    <2>2. ASSUME NEW u \in UserIds, RootsOf(u) = {}
          PROVE  \/ RootsOf(u)' # {}
                 \/ \E d \in Conns : req'[d].pc = "create_root" /\ req'[d].name = users[u]
      <3>1. PICK d \in Conns : req[d].pc = "create_root" /\ req[d].name = users[u]
        BY <2>2 DEF UsersGetRoots
      <3>2. CASE d = c
        BY <1>3, <3>1, <3>2 DEF RootStep, UserNamed, RootsOf, FolderIds
      <3>3. CASE d # c
        BY <3>1, <3>3, StepFrame
      <3> QED BY <3>2, <3>3
    <2> QED BY <2>1, <2>2, RootsOfKept DEF NamesApart, UsersGetRoots
  <1>4. CASE ~InsertStep(c) /\ ~RootStep(c)
    <2>1. UserIds' = UserIds /\ users' = users
      BY <1>4, AccountSteps DEF AccountStep, UserIds
    <2> QED BY <1>1, <1>4, <2>1, RootsOfKept DEF NamesApart, UsersGetRoots
  <1> QED BY <1>2, <1>3, <1>4

\* When no statement fails and the process lives, a user without a root is
\* one whose REGISTER is about to make it, two REGISTERs of one name and all:
\* username is unique, so the second insert fails before its root.
THEOREM EveryoneGetsRoot ==
    ASSUME ~DbMayFail, ~MayCrash,
           \A u \in DOMAIN InitUsers : \E f \in DOMAIN InitFolders :
               InitFolders[f].owner = u /\ InitFolders[f].parent = NoId
    PROVE  Spec => []UsersGetRoots
  <1>1. Init => AccountInv
    <2> SUFFICES ASSUME Init PROVE NamesApart /\ UsersGetRoots
      BY InitInv DEF AccountInv
    <2>1. NamesApart
      BY InitAssumption DEF Init, StoreInit, WellFormed, NamesApart, UserIds
    <2>2. UsersGetRoots
      BY DEF Init, StoreInit, UsersGetRoots, UserIds, RootsOf, FolderIds
    <2> QED BY <2>1, <2>2
  <1>2. AccountInv /\ [Next]_vars => AccountInv'
    <2> SUFFICES ASSUME AccountInv, [Next]_vars PROVE NamesApart' /\ UsersGetRoots'
      BY NextInv DEF AccountInv
    <2>1. CASE UNCHANGED vars
      BY <2>1 DEF vars, store, AccountInv, NamesApart, UsersGetRoots, UserIds, RootsOf, FolderIds, At
    <2> QED BY <2>1, AccountKept DEF Next, Crash
  <1>3. AccountInv => UsersGetRoots
    BY DEF AccountInv
  <1> QED BY <1>1, <1>2, <1>3, PTL DEF Spec

-----------------------------------------------------------------------------
(* RMDIR: the check that a folder is empty and its removal are two         *)
(* statements, and what may come between them.                             *)

\* Whoever removes folders is alone in making entries.
LoneRemover ==
    \A c, d \in Conns :
        c # d /\ "RMDIR" \in Commands[c] => Commands[d] \cap {"MKDIR", "UPLOAD"} = {}

Sent(r, cmds) == r.pc \notin {"idle", "reply"} => r.cmd \in cmds

RemovalInv ==
    /\ Inv
    /\ \A c \in Conns : Sent(req[c], Commands[c])
    /\ \A c \in Conns : req[c].pc = "folder_soft_delete" => IsEmpty(req[c].id)

LEMMA ReceivedSent ==
    ASSUME NEW c \in Conns, Typed, NEW r, NEW refused, Receive(c, r, refused)
    PROVE  Sent(req'[c], Commands[c])
  <1>1. req'[c] = r \/ (\E code : req'[c] = ReplyTo(r.cmd, code))
    BY DEF Receive, Then, Typed
  <1>2. \A code : ReplyTo(r.cmd, code).pc = "reply"
    BY DEF ReplyTo, NoReq
  <1> QED BY <1>1, <1>2 DEF Receive, Sent

LEMMA DispatchSent ==
    ASSUME NEW c \in Conns, Typed, Dispatch(c) PROVE Sent(req'[c], Commands[c])
  <1>1. CASE Logout(c) \/ ExitShared(c)
    <2>1. \E cmd, code : req' = [req EXCEPT ![c] = ReplyTo(cmd, code)]
      BY <1>1 DEF Logout, ExitShared, Then
    <2>2. \E cmd, code : req'[c] = ReplyTo(cmd, code)
      BY <2>1 DEF Typed
    <2> QED BY <2>2 DEF ReplyTo, NoReq, Sent
  <1>2. CASE ~(Logout(c) \/ ExitShared(c))
    <2>1. \E r, refused : Receive(c, r, refused)
      BY <1>2 DEF Dispatch, BeginRegister, BeginLogin, BeginCdUp, BeginList, BeginCd,
         BeginMkdir, BeginRmdir, BeginDelete, BeginUpload, BeginDownload, BeginListShareFolder,
         BeginListShareFile, BeginRename, BeginUnshareFolder, BeginShareFile, BeginUnshareFile,
         BeginShareFolder, BeginOpen, BeginDownloadShared, BeginListSharedWithMe
    <2> QED BY <2>1, ReceivedSent
  <1> QED BY <1>1, <1>2

LEMMA SentKept ==
    ASSUME NEW c \in Conns, Inv, Step(c), Sent(req[c], Commands[c])
    PROVE  Sent(req'[c], Commands[c])
  <1>1. CASE Dispatch(c)
    BY <1>1, DispatchSent DEF Inv
  <1>2. CASE Disconnect(c)
    BY <1>2 DEF Disconnect
  <1>3. CASE Serve(c) \/ UploadReceived(c) \/ UploadBroken(c)
    BY <1>3, ServeAdvances DEF Advance, Ending, GoesOn, Sent
  <1> QED BY <1>1, <1>2, <1>3 DEF Step

\* Only an insert can put something in a folder that is empty.
LEMMA StaysEmpty ==
    ASSUME NEW c \in Conns, Inv, Step(c), NEW f \in FolderIds, IsEmpty(f),
           req[c].pc \notin {"create_folder", "file_insert"}
    PROVE  IsEmpty(f)'
  <1>0. folders \in Seq(FolderRow) /\ files \in Seq(FileRow) /\ f # NoId
    BY DEF Inv, Tables, FolderIds, NoId
  <1>1. ASSUME FolderIds' = FolderIds, FileIds' = FileIds,
               \A g \in FolderIds : folders'[g].parent = folders[g].parent
                                       /\ (folders[g].deleted => folders'[g].deleted),
               \A x \in FileIds : files'[x].folder = files[x].folder
                                       /\ (files[x].deleted => files'[x].deleted)
        PROVE  IsEmpty(f)'
    BY <1>1 DEF IsEmpty, Live, FolderIds, FileIds
  <1>2. CASE folders' = folders /\ files' = files
    BY <1>1, <1>2 DEF FolderIds, FileIds
  <1>3. CASE CreateRoot(c)
    <2>1. ASSUME NEW e, e.parent = NoId, folders' = Append(folders, e) PROVE IsEmpty(f)'
      <3> DEFINE n == Len(folders) + 1
      <3>1. /\ FolderIds' = FolderIds \cup {n} /\ folders'[n] = e
            /\ \A g \in FolderIds : folders'[g] = folders[g]
        BY <1>0, <2>1 DEF FolderIds
      <3> HIDE DEF n
      <3>2. files' = files
        BY <1>3 DEF CreateRoot
      <3> QED BY <1>0, <2>1, <3>1, <3>2 DEF IsEmpty, Live, FolderIds, FileIds
    <2>2. \/ folders' = folders /\ files' = files
          \/ \E e : e.parent = NoId /\ folders' = Append(folders, e)
      <3>1. PICK u \in UserNamed(req[c].name) :
               \/ folders' = folders
               \/ folders' = Append(folders, [owner |-> u, parent |-> NoId, name |-> "/",
                                              deleted |-> FALSE])
        BY <1>3 DEF CreateRoot
      <3> DEFINE e == [owner |-> u, parent |-> NoId, name |-> "/", deleted |-> FALSE]
      <3>2. e.parent = NoId
        OBVIOUS
      <3>3. folders' = folders \/ folders' = Append(folders, e)
        BY <3>1
      <3>4. files' = files
        BY <1>3 DEF CreateRoot
      <3> HIDE DEF e
      <3> QED BY <3>2, <3>3, <3>4
    <2> QED BY <1>2, <2>1, <2>2
  <1>4. CASE FolderSoftDelete(c) \/ FolderRename(c)
    <2>1. files' = files
      BY <1>4 DEF FolderSoftDelete, FolderRename
    <2>2. folders' = folders \/ FolderSoftDelete(c) \/ FolderRename(c)
      BY <1>4
    <2>3. /\ FolderIds' = FolderIds
          /\ \A g \in FolderIds : folders'[g].parent = folders[g].parent
                                     /\ (folders[g].deleted => folders'[g].deleted)
      <3>1. ASSUME NEW d \in BOOLEAN, NEW g, d, folders' = [folders EXCEPT ![g].deleted = d]
            PROVE  <2>3!1 /\ <2>3!2
        BY <1>0, <3>1 DEF FolderIds, FolderRow
      <3>2. ASSUME NEW n, NEW g, folders' = [folders EXCEPT ![g].name = n]
            PROVE  <2>3!1 /\ <2>3!2
        BY <1>0, <3>2 DEF FolderIds, FolderRow
      <3>3. CASE folders' = folders
        BY <3>3 DEF FolderIds
      <3> QED BY <1>4, <3>1, <3>2, <3>3 DEF FolderSoftDelete, FolderRename
    <2> QED BY <1>1, <2>1, <2>3 DEF FileIds
  <1>5. CASE FileSoftDelete(c) \/ FileRename(c)
    <2>1. folders' = folders
      BY <1>5 DEF FileSoftDelete, FileRename
    <2>3. /\ FileIds' = FileIds
          /\ \A x \in FileIds : files'[x].folder = files[x].folder
                                   /\ (files[x].deleted => files'[x].deleted)
      <3>1. ASSUME NEW d \in BOOLEAN, NEW x, d, files' = [files EXCEPT ![x].deleted = d]
            PROVE  <2>3!1 /\ <2>3!2
        BY <1>0, <3>1 DEF FileIds, FileRow
      <3>2. ASSUME NEW n, NEW x, files' = [files EXCEPT ![x].name = n]
            PROVE  <2>3!1 /\ <2>3!2
        BY <1>0, <3>2 DEF FileIds, FileRow
      <3>3. CASE files' = files
        BY <3>3 DEF FileIds
      <3> QED BY <1>5, <3>1, <3>2, <3>3 DEF FileSoftDelete, FileRename
    <2> QED BY <1>1, <2>1, <2>3 DEF FolderIds
  <1>6. CASE Dispatch(c)
    BY <1>2, <1>6, DispatchStep DEF Begun, store
  <1>7. CASE ~(\/ CreateRoot(c) \/ FolderSoftDelete(c) \/ FolderRename(c)
               \/ FileSoftDelete(c) \/ FileRename(c) \/ Dispatch(c))
    <2>1. CASE Accounting(c) \/ Navigating(c)
      BY <1>2, <1>7, <2>1 DEF Accounting, UserExists, InsertUser, CheckLogin, FindRoot,
         Navigating, CheckStatus, CdDown, ParentStatus, CdUp, ListStatus, ListFiles, ListFolders,
         CheckAccessFolder, OpenShared, store
    <2>2. CASE Editing(c)
      BY <1>2, <1>7, <2>2 DEF Editing, FindFolder, FindFile, ExistDirname, CreateFolder,
         CheckEmpty, RenameFindFile, At, store
    <2>3. CASE Transferring(c) \/ UploadReceived(c) \/ UploadBroken(c)
      BY <1>2, <2>3 DEF Transferring, FileExists, FileInsert, FindByName, SendFile,
         CheckAccessFile, AccessAgain, FindById, UploadReceived, UploadBroken, At, store, tables
    <2>4. CASE Permitting(c) \/ StatementFails(c) \/ SendReply(c) \/ Disconnect(c)
      BY <1>2, <2>4 DEF Permitting, FindUser, GrantFolder, RevokeFolder, GrantFile, RevokeFile,
         ListUsers, StatementFails, SendReply, Disconnect, store
    <2> QED BY <1>7, <2>1, <2>2, <2>3, <2>4 DEF Step, Serve
  <1> QED BY <1>3, <1>4, <1>5, <1>6, <1>7

\* A thread about to remove a folder has just found it empty.
LEMMA ChecksEmpty ==
    ASSUME NEW c \in Conns, Inv, Step(c), req'[c].pc = "folder_soft_delete",
           req[c].pc # "folder_soft_delete"
    PROVE  IsEmpty(req[c].id) /\ req'[c].id = req[c].id /\ UNCHANGED store
  <1>1. Serve(c) \/ UploadReceived(c) \/ UploadBroken(c)
    BY DispatchStep DEF Step, Disconnect, Begun, LateAt
  <1>2. req[c].pc = "is_empty"
    <2>1. ASSUME NEW cmd \in DOMAIN AfterLookup PROVE AfterLookup[cmd] # "folder_soft_delete"
      BY <2>1 DEF AfterLookup
    <2>2. ASSUME NEW cmd \in DOMAIN AfterFileLookup
          PROVE  AfterFileLookup[cmd] # "folder_soft_delete"
      BY <2>2 DEF AfterFileLookup
    <2> QED BY <1>1, <2>1, <2>2, ServeAdvances DEF Advance, Ending, GoesOn, Follows
  <1>3. CheckEmpty(c) \/ StatementFails(c)
    BY <1>1, <1>2 DEF Serve, Accounting, UserExists, InsertUser, CreateRoot, CheckLogin, FindRoot,
       Navigating, CheckStatus, CdDown, ParentStatus, CdUp, ListStatus, ListFiles, ListFolders,
       CheckAccessFolder, OpenShared, Editing, FindFolder, FindFile, ExistDirname, CreateFolder,
       FolderSoftDelete, RenameFindFile, FileRename, FolderRename, FileSoftDelete,
       Transferring, FileExists, FileInsert, FindByName, SendFile, CheckAccessFile, AccessAgain,
       FindById, Permitting, FindUser, GrantFolder, RevokeFolder, GrantFile, RevokeFile,
       ListUsers, SendReply, UploadReceived, UploadBroken, At
  <1>4. Typed
    BY DEF Inv
  <1>5. CASE StatementFails(c)
    <2>1. Reply(c, 500)
      BY <1>2, <1>5 DEF StatementFails, At
    <2> QED BY <1>4, <2>1, NextPc
  <1>6. CASE CheckEmpty(c)
    BY <1>4, <1>6, NextPc DEF CheckEmpty
  <1> QED BY <1>3, <1>5, <1>6

LEMMA RemovalStep ==
    ASSUME RemovalInv, LoneRemover, NEW c \in Conns, Step(c), NEW d \in Conns,
           req'[d].pc = "folder_soft_delete"
    PROVE  IsEmpty(req[d].id)' /\ req'[d].id = req[d].id
  <1> USE DEF RemovalInv
  <1>1. CASE d = c
    <2>1. req[c].pc # "folder_soft_delete"
      <3>1. ASSUME req[c].pc = "folder_soft_delete" PROVE FALSE
        <4>1. Serve(c) \/ UploadReceived(c) \/ UploadBroken(c)
          BY <1>1, <3>1, DispatchIdle DEF Step, Disconnect, At
        <4> QED BY <1>1, <3>1, <4>1, ServeAdvances DEF Advance, Ending, GoesOn, Follows
      <3> QED BY <3>1
    <2>2. IsEmpty(req[c].id) /\ req'[c].id = req[c].id /\ UNCHANGED store
      BY <1>1, <2>1, ChecksEmpty
    <2> QED BY <1>1, <2>2 DEF store, IsEmpty, Live, FolderIds, FileIds
  <1>2. CASE d # c
    <2>1. req'[d] = req[d] /\ IsEmpty(req[d].id)
      BY <1>2, StepFrame
    <2>2. req[d].id \in FolderIds /\ req[d].cmd = "RMDIR" /\ "RMDIR" \in Commands[d]
      BY <2>1 DEF Inv, ConnOK, ControlOK, StandsOK, Sent, FolderIds
    <2>3. req[c].pc \notin {"create_folder", "file_insert"}
      BY <1>2, <2>2 DEF LoneRemover, Inv, ConnOK, ControlOK, Sent
    <2>4. ASSUME NEW f \in FolderIds, IsEmpty(f) PROVE IsEmpty(f)'
      BY <2>3, <2>4, StaysEmpty
    <2> QED BY <2>1, <2>2, <2>4
  <1> QED BY <1>1, <1>2

LEMMA RemovalInvariant == ASSUME LoneRemover PROVE Spec => []RemovalInv
  <1>1. Init => RemovalInv
    <2> SUFFICES ASSUME Init PROVE RemovalInv
      OBVIOUS
    <2>1. \A c \in Conns : req[c].pc = "idle"
      BY DEF Init, NoReq
    <2> QED BY <2>1, InitInv DEF RemovalInv, Sent
  <1>2. RemovalInv /\ [Next]_vars => RemovalInv'
    <2> SUFFICES ASSUME RemovalInv, [Next]_vars PROVE RemovalInv'
      OBVIOUS
    <2>0. Inv /\ Inv'
      BY NextInv DEF RemovalInv
    <2>1. CASE Crash
      <3>1. \A c \in Conns : req'[c].pc = "idle"
        BY <2>1 DEF Crash, NoReq
      <3> QED BY <2>0, <3>1 DEF RemovalInv, Sent
    <2>2. CASE UNCHANGED vars
      BY <2>0, <2>2 DEF vars, store, RemovalInv, IsEmpty, Live, FolderIds, FileIds
    <2>3. ASSUME NEW c \in Conns, Step(c) PROVE RemovalInv'
      <3>1. ASSUME NEW d \in Conns PROVE Sent(req'[d], Commands[d])
        <4>1. CASE d = c
          BY <2>0, <2>3, <4>1, SentKept DEF RemovalInv
        <4>2. CASE d # c
          BY <2>0, <2>3, <4>2, StepFrame DEF RemovalInv
        <4> QED BY <4>1, <4>2
      <3>2. ASSUME NEW d \in Conns, req'[d].pc = "folder_soft_delete"
            PROVE  IsEmpty(req[d].id)'
        BY <2>3, <3>2, RemovalStep
      <3> QED BY <2>0, <3>1, <3>2 DEF RemovalInv
    <2> QED BY <2>1, <2>2, <2>3 DEF Next
  <1> QED BY <1>1, <1>2, PTL DEF Spec

\* The mark of deletion is set by RMDIR's last statement only.
LEMMA RemovedBy ==
    ASSUME NEW c \in Conns, Inv, Step(c), NEW f \in FolderIds,
           ~folders[f].deleted, folders'[f].deleted
    PROVE  req[c].pc = "folder_soft_delete" /\ f = req[c].id
  <1>0. folders \in Seq(FolderRow)
    BY DEF Inv, Tables
  <1>1. folders' # folders
    OBVIOUS
  <1>2. CASE Dispatch(c)
    BY <1>1, <1>2, DispatchStep DEF Begun, store
  <1>3. CASE CreateRoot(c) \/ CreateFolder(c)
    <2>1. \E e : folders' = Append(folders, e)
      BY <1>1, <1>3 DEF CreateRoot, CreateFolder
    <2> QED BY <1>0, <2>1 DEF FolderIds
  <1>4. CASE FolderRename(c)
    <2>1. folders' = [folders EXCEPT ![req[c].id].name = req[c].arg]
      BY <1>1, <1>4 DEF FolderRename
    <2>2. folders[f] \in FolderRow
      BY <1>0 DEF FolderIds
    <2>3. folders'[f].deleted = folders[f].deleted
      BY <1>0, <2>1, <2>2 DEF FolderIds, FolderRow
    <2> QED BY <2>3
  <1>5. CASE FolderSoftDelete(c)
    <2>1. folders' = [folders EXCEPT ![req[c].id].deleted = TRUE]
      BY <1>1, <1>5 DEF FolderSoftDelete
    <2>2. f = req[c].id
      <3>1. ASSUME f # req[c].id PROVE folders'[f] = folders[f]
        BY <1>0, <2>1, <3>1 DEF FolderIds
      <3> QED BY <3>1
    <2> QED BY <1>5, <2>2 DEF FolderSoftDelete, At
  <1>6. CASE ~(Dispatch(c) \/ CreateRoot(c) \/ CreateFolder(c) \/ FolderRename(c)
               \/ FolderSoftDelete(c))
    BY <1>1, <1>6 DEF Step, Serve, Accounting, UserExists, InsertUser, CheckLogin, FindRoot,
       Navigating, CheckStatus, CdDown, ParentStatus, CdUp, ListStatus, ListFiles, ListFolders,
       CheckAccessFolder, OpenShared, Editing, FindFolder, FindFile, ExistDirname, CheckEmpty,
       RenameFindFile, FileRename, FileSoftDelete, Transferring, FileExists, FileInsert,
       FindByName, SendFile, CheckAccessFile, AccessAgain, FindById, Permitting, FindUser,
       GrantFolder, RevokeFolder, GrantFile, RevokeFile, ListUsers, StatementFails, SendReply,
       UploadReceived, UploadBroken, Disconnect, store, tables
  <1> QED BY <1>2, <1>3, <1>4, <1>5, <1>6

\* RMDIR's race, which the run rmdir_race shows, needs another connection
\* that makes a folder or uploads a file.  Against any number of connections
\* that do anything else, the two statements of RMDIR are as good as one.
THEOREM RemovedAlone == ASSUME LoneRemover PROVE Spec => RemovedEmpty
  <1> DEFINE Kept == \A f \in FolderIds : ~folders[f].deleted /\ folders'[f].deleted => IsEmpty(f)
  <1>1. RemovalInv /\ [Next]_vars => Kept
    <2> SUFFICES ASSUME RemovalInv, [Next]_vars, NEW f \in FolderIds,
                        ~folders[f].deleted, folders'[f].deleted
                 PROVE  IsEmpty(f)
      OBVIOUS
    <2>1. folders' # folders
      OBVIOUS
    <2>2. PICK c \in Conns : Step(c)
      BY <2>1 DEF Next, Crash, vars, store
    <2> QED BY <2>2, RemovedBy DEF RemovalInv
  <1>2. RemovalInv /\ [Next]_vars => [Kept]_vars
    BY <1>1
  <1> HIDE DEF Kept
  <1>3. Spec => [][Kept]_vars
    BY <1>2, RemovalInvariant, PTL DEF Spec
  <1> QED BY <1>3 DEF Kept, RemovedEmpty
=============================================================================
