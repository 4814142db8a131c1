------------------------------ MODULE Sharing ------------------------------
(* SHARE_*, UNSHARE_* and the LIST_SHARED_* requests: the permissions.     *)
EXTENDS Sessions

ShareRequest(cmd, pc, n, u) == [Request(cmd, pc, n) EXCEPT !.arg = u]

\* INVALID_ROLE is left out: role is one of Roles
BeginShareFolder(c, n, u, role) ==
    Receive(c, [ShareRequest("SHARE_FOLDER", "find_user", n, u) EXCEPT !.role = role],
            NeedHome(c))

BeginUnshareFolder(c, n, u) ==
    Receive(c, ShareRequest("UNSHARE_FOLDER", "find_user", n, u), NeedHome(c))

BeginShareFile(c, n, u) ==
    Receive(c, ShareRequest("SHARE_FILE", "find_user", n, u), NeedHome(c))

BeginUnshareFile(c, n, u) ==
    Receive(c, ShareRequest("UNSHARE_FILE", "find_user", n, u), NeedHome(c))

BeginListShareFolder(c, n) ==
    Receive(c, Request("LIST_SHARED_USERS_FOLDER", "check_status", n), NeedHome(c))

BeginListShareFile(c, n) ==
    Receive(c, Request("LIST_SHARED_USERS_FILE", "find_file", n), NeedHome(c))

BeginListSharedWithMe(c, cmd) ==
    /\ cmd \in {"LIST_SHARED_FILES_WITH_ME", "LIST_SHARED_FOLDERS_WITH_ME"}
    /\ Receive(c, [NoReq EXCEPT !.cmd = cmd, !.pc = "list_shared_with_me"], NeedLogin(c))

-----------------------------------------------------------------------------
\* db_user_find_id_by_username, then the lookup of the file or the folder
FindUser(c) ==
    /\ At(c, "find_user")
    /\ \/ \E u \in UserNamed(req[c].arg) :
             Then(c, [req[c] EXCEPT !.uid = u,
                      !.pc = IF Cmd(c) \in FolderCommands THEN "check_status" ELSE "find_file"])
       \/ UserNamed(req[c].arg) = {} /\ Reply(c, 404)
    /\ UNCHANGED <<store, sess>>

\* the insert fails on the primary key (folder_id, user_id) and on a
\* folder_id that is no folder's; nobody's authority over it is asked
GrantFolder(c) ==
    LET f == req[c].id
        u == req[c].uid
    IN  /\ At(c, "grant_folder")
        /\ IF f \notin FolderIds \/ HasFolderPerm(f, u)
           THEN folderPerms' = folderPerms /\ Reply(c, 500)
           ELSE /\ folderPerms' = folderPerms \cup
                                    {[folder |-> f, user |-> u, role |-> req[c].role]}
                /\ Reply(c, 200)
        /\ UNCHANGED <<users, folders, files, filePerms, blobs, sess>>

RevokeFolder(c) ==
    LET f == req[c].id
        u == req[c].uid
    IN  /\ At(c, "revoke_folder")
        /\ folderPerms' = {p \in folderPerms : ~(p.folder = f /\ p.user = u)}
        /\ Reply(c, IF HasFolderPerm(f, u) THEN 200 ELSE 404)
        /\ UNCHANGED <<users, folders, files, filePerms, blobs, sess>>

\* db_sharing_grant_file_access inserts no role, and file_permissions.role is
\* NOT NULL without a default: the insert always fails
GrantFile(c) ==
    /\ At(c, "grant_file") /\ Reply(c, 500)
    /\ UNCHANGED <<store, sess>>

RevokeFile(c) ==
    LET p == [file |-> req[c].id, user |-> req[c].uid] IN
    /\ At(c, "revoke_file")
    /\ filePerms' = filePerms \ {p}
    /\ Reply(c, IF p \in filePerms THEN 200 ELSE 404)
    /\ UNCHANGED <<users, folders, files, folderPerms, blobs, sess>>

\* the rows sent are left out
ListUsers(c) ==
    /\ At(c, "list_users") \/ At(c, "list_shared_with_me")
    /\ Reply(c, 200)
    /\ UNCHANGED <<store, sess>>
=============================================================================
