----------------------------- MODULE Transfer ------------------------------
(* UPLOAD, DOWNLOAD and DOWNLOAD_SHARED: rows of files and their blobs.    *)
(* The bytes are not modelled: a blob is being written, whole, cut short   *)
(* by a write nobody checked, or removed.                                  *)
EXTENDS Sessions

CONSTANTS DiskMayFail   \* fwrite may write less than it is given

ASSUME DiskAssumption == DiskMayFail \in BOOLEAN

BeginUpload(c, n) ==
    /\ Len(blobs) < MaxFiles
    /\ Receive(c, Request("UPLOAD", "file_exists", n),
               IF NeedWrite(c) = 0 /\ n \in BadNames THEN 422 ELSE NeedWrite(c))

\* Only DB_FILE_EXISTS stops the upload.  150 READY_TO_RECEIVE is sent and
\* storage_save_file creates the blob, under a new storage_key.
FileExists(c) ==
    /\ At(c, "file_exists")
    /\ \/ /\ FilesNamed(sess[c].current, req[c].name) # {}
          /\ Reply(c, 409) /\ blobs' = blobs
       \/ /\ FilesNamed(sess[c].current, req[c].name) = {} \/ DbMayFail
          /\ blobs' = Append(blobs, "partial")
          /\ Found(c, Len(blobs) + 1, "receive")
    /\ UNCHANGED <<tables, sess>>

\* storage_save_file got all the bytes it counts; fwrite's result is unused
UploadReceived(c) ==
    /\ At(c, "receive")
    /\ \E state \in {"full"} \cup (IF DiskMayFail THEN {"short"} ELSE {}) :
          blobs' = [blobs EXCEPT ![req[c].id] = state]
    /\ Goto(c, "file_insert")
    /\ UNCHANGED <<tables, sess>>

\* Mutant: the result of storage_save_file is not tested.
UploadBrokenInserted(c) ==
    /\ At(c, "receive") /\ Goto(c, "file_insert")
    /\ UNCHANGED <<store, sess>>

\* the client stops sending: the blob is left as it is
UploadBroken(c) ==
    /\ At(c, "receive") /\ Reply(c, 500)
    /\ UNCHANGED <<store, sess>>

\* The insert of a row for folder f, and three mutants: into the folder the
\* session left; a failure that keeps the blob; a failure that is not answered.
Inserts(c, f) ==
    /\ ~FileClash(NoId, sess[c].user, f, req[c].name) /\ f \in FolderIds
    /\ files' = Append(files, [owner |-> sess[c].user, folder |-> f, name |-> req[c].name,
                               blob |-> req[c].id, deleted |-> FALSE])
    /\ blobs' = blobs /\ Reply(c, 200)

InsertFails(c, f) ==
    /\ FileClash(NoId, sess[c].user, f, req[c].name) \/ f \notin FolderIds \/ DbMayFail
    /\ files' = files

RemovesBlob(c) == blobs' = [blobs EXCEPT ![req[c].id] = "removed"]

FileInsertElsewhere(c) ==
    LET f == IF sess[c].sharing THEN sess[c].old ELSE sess[c].current IN
    /\ At(c, "file_insert")
    /\ Inserts(c, f) \/ (InsertFails(c, f) /\ RemovesBlob(c) /\ Reply(c, 500))
    /\ UNCHANGED <<users, folders, folderPerms, filePerms, sess>>

FileInsertKeepsBlob(c) ==
    LET f == sess[c].current IN
    /\ At(c, "file_insert")
    /\ Inserts(c, f) \/ (InsertFails(c, f) /\ blobs' = blobs /\ Reply(c, 500))
    /\ UNCHANGED <<users, folders, folderPerms, filePerms, sess>>

FileInsertSilent(c) ==
    LET f == sess[c].current IN
    /\ At(c, "file_insert")
    /\ Inserts(c, f) \/ (InsertFails(c, f) /\ RemovesBlob(c) /\ Then(c, NoReq))
    /\ UNCHANGED <<users, folders, folderPerms, filePerms, sess>>

\* db_file_insert; when it fails (uq_file_name, no folder, no connection) the
\* blob is removed
FileInsert(c) ==
    LET f == sess[c].current IN
    /\ At(c, "file_insert")
    /\ Inserts(c, f) \/ (InsertFails(c, f) /\ RemovesBlob(c) /\ Reply(c, 500))
    /\ UNCHANGED <<users, folders, folderPerms, filePerms, sess>>

-----------------------------------------------------------------------------
BeginDownload(c, n) == Receive(c, Request("DOWNLOAD", "find_by_name", n), NeedLogin(c))

\* The 500 of handle_download is written with snprintf(res, strlen(res), ...)
\* into an uninitialised res: it may be sent, or come out empty.
DownloadError(c) == Reply(c, 500) \/ Then(c, NoReq)

\* db_file_find_by_name: id becomes the blob to send
FindByName(c) ==
    /\ At(c, "find_by_name")
    /\ LET found == FilesNamed(sess[c].current, req[c].name) IN
       \/ \E f \in found : Found(c, files[f].blob, "send")
       \/ found = {} /\ Reply(c, 404)
       \/ DbMayFail /\ DownloadError(c)
    /\ UNCHANGED <<store, sess>>

\* storage_send_file after 50 START_DOWNLOAD; only a failed fopen is seen
SendFile(c) ==
    /\ At(c, "send")
    /\ IF blobs[req[c].id] # "removed" THEN Reply(c, 200)
       ELSE IF Cmd(c) = "DOWNLOAD" THEN DownloadError(c) ELSE Reply(c, 500)
    /\ UNCHANGED <<store, sess>>

-----------------------------------------------------------------------------
BeginDownloadShared(c, x) ==
    Receive(c, [NoReq EXCEPT !.cmd = "DOWNLOAD_SHARED", !.pc = "check_access_file", !.id = x],
            NeedLogin(c))

\* db_permission_check_access_file, asked by the handler (403) ...
CheckAccessFile(c) ==
    /\ At(c, "check_access_file")
    /\ IF HasFilePerm(req[c].id, sess[c].user) THEN Goto(c, "access_again") ELSE Reply(c, 403)
    /\ UNCHANGED <<store, sess>>

\* ... and again by file_service_download_by_file_id (ERR: 500)
AccessAgain(c) ==
    /\ At(c, "access_again")
    /\ \/ HasFilePerm(req[c].id, sess[c].user) /\ Goto(c, "find_by_id")
       \/ (~HasFilePerm(req[c].id, sess[c].user) \/ DbMayFail) /\ Reply(c, 500)
    /\ UNCHANGED <<store, sess>>

\* a deleted file is DB_FILE_NOT_FOUND, which the handler does not test for:
\* 200 DOWNLOAD_SUCCESS and nothing sent
FindById(c) ==
    /\ At(c, "find_by_id")
    /\ IF Live(files, req[c].id) THEN Found(c, files[req[c].id].blob, "send") ELSE Reply(c, 200)
    /\ UNCHANGED <<store, sess>>
=============================================================================
