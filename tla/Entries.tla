------------------------------ MODULE Entries ------------------------------
(* MKDIR, RMDIR, RENAME and DELETE: the entries of the current folder.     *)
EXTENDS Sessions

\* the new folder's row; the owner is the session's user, not the parent's
NewFolder(c) == [owner |-> sess[c].user, parent |-> sess[c].current,
                 name |-> req[c].name, deleted |-> FALSE]

BeginMkdir(c, n) ==
    /\ Len(folders) < MaxFolders
    /\ Receive(c, Request("MKDIR", "exist_dirname", n),
               IF NeedWrite(c) = 0 /\ n \in BadNames THEN 422 ELSE NeedWrite(c))

\* db_folder_check_exist_dirname sees the deleted folders too
ExistDirname(c) ==
    /\ At(c, "exist_dirname")
    /\ IF FoldersEverNamed(sess[c].current, req[c].name) = {}
       THEN Goto(c, "create_folder") ELSE Reply(c, 409)
    /\ UNCHANGED <<store, sess>>

\* the insert fails on uq_folder_name, and without a parent (current = -1)
CreateFolder(c) ==
    /\ At(c, "create_folder")
    /\ IF \/ FolderClash(NoId, sess[c].user, sess[c].current, req[c].name)
          \/ sess[c].current \notin FolderIds
       THEN folders' = folders /\ Reply(c, 500)
       ELSE folders' = Append(folders, NewFolder(c)) /\ Reply(c, 200)
    /\ UNCHANGED <<users, files, folderPerms, filePerms, blobs, sess>>

-----------------------------------------------------------------------------
BeginRmdir(c, n) == Receive(c, Request("RMDIR", "check_status", n), NeedWrite(c))

\* "ret != OK" comes before the test for DB_FOLDER_NOT_EMPTY: 500
CheckEmpty(c) ==
    /\ At(c, "is_empty")
    /\ IF IsEmpty(req[c].id) THEN Goto(c, "folder_soft_delete") ELSE Reply(c, 500)
    /\ UNCHANGED <<store, sess>>

FolderSoftDelete(c) ==
    LET f == req[c].id IN
    /\ At(c, "folder_soft_delete")
    /\ IF Live(folders, f)
       THEN folders' = [folders EXCEPT ![f].deleted = TRUE] /\ Reply(c, 200)
       ELSE folders' = folders /\ Reply(c, 500)
    /\ UNCHANGED <<users, files, folderPerms, filePerms, blobs, sess>>

-----------------------------------------------------------------------------
\* the new name is not checked
BeginRename(c, n, new) ==
    Receive(c, [Request("RENAME", "rename_find_file", n) EXCEPT !.arg = new], NeedWrite(c))

\* any failure to find a file sends the handler to the folders
RenameFindFile(c) ==
    /\ At(c, "rename_find_file")
    /\ LET found == FilesNamed(sess[c].current, req[c].name) IN
       \/ \E f \in found : Found(c, f, "file_rename")
       \/ (found = {} \/ DbMayFail) /\ Goto(c, "check_status")
    /\ UNCHANGED <<store, sess>>

\* a row deleted meanwhile, or uq_file_name: 500
FileRename(c) ==
    LET f == req[c].id IN
    /\ At(c, "file_rename")
    /\ IF Live(files, f) /\ ~FileClash(f, files[f].owner, files[f].folder, req[c].arg)
       THEN files' = [files EXCEPT ![f].name = req[c].arg] /\ Reply(c, 200)
       ELSE files' = files /\ Reply(c, 500)
    /\ UNCHANGED <<users, folders, folderPerms, filePerms, blobs, sess>>

FolderRename(c) ==
    LET f == req[c].id IN
    /\ At(c, "folder_rename")
    /\ IF Live(folders, f) /\ ~FolderClash(f, folders[f].owner, folders[f].parent, req[c].arg)
       THEN folders' = [folders EXCEPT ![f].name = req[c].arg] /\ Reply(c, 200)
       ELSE folders' = folders /\ Reply(c, 500)
    /\ UNCHANGED <<users, files, folderPerms, filePerms, blobs, sess>>

-----------------------------------------------------------------------------
BeginDelete(c, n) == Receive(c, Request("DELETE", "find_file", n), NeedWrite(c))

\* Mutant: DELETE removes the blob as well (storage_delete_file, which the
\* code leaves unimplemented).
FileDeleteWithBlob(c) ==
    LET f == req[c].id IN
    /\ At(c, "file_soft_delete")
    /\ files' = IF Live(files, f) THEN [files EXCEPT ![f].deleted = TRUE] ELSE files
    /\ blobs' = [blobs EXCEPT ![files[f].blob] = "removed"]
    /\ Reply(c, 200)
    /\ UNCHANGED <<users, folders, folderPerms, filePerms, sess>>

\* db_file_soft_delete does not count the rows it marks; the blob stays
FileSoftDelete(c) ==
    LET f == req[c].id IN
    /\ At(c, "file_soft_delete")
    /\ files' = IF Live(files, f) THEN [files EXCEPT ![f].deleted = TRUE] ELSE files
    /\ Reply(c, 200)
    /\ UNCHANGED <<users, folders, folderPerms, filePerms, blobs, sess>>
=============================================================================
