---------------------------- MODULE Navigation -----------------------------
(* CD, LIST, OPEN_SHARED_FOLDER and EXIT_SHARED: where a session stands.   *)
(* The paths kept for PWD (cwd, old_cwd) are not modelled here.            *)
EXTENDS Sessions

BeginCd(c, n) == Receive(c, Request("CD", "check_status", n), NeedLogin(c))

EnterFolder(c, f) ==
    SetSession(c, [sess[c] EXCEPT !.current = f]) /\ Reply(c, 200)

\* the select of CD <name>; its db_folder_check_status is CheckStatus
CdDown(c) ==
    /\ At(c, "find_folder") /\ Cmd(c) = "CD"
    /\ LET found == FoldersNamed(sess[c].current, req[c].name) IN
       \/ \E f \in found : EnterFolder(c, f)
       \/ found = {} /\ LookupFails(c, "NAME_NOT_FOUND") /\ sess' = sess
    /\ UNCHANGED store

\* Mutant: CD .. is refused nowhere.
BeginCdUpFree(c) ==
    Receive(c, [NoReq EXCEPT !.cmd = "CD", !.pc = "parent_status"], NeedLogin(c))

\* CD .. : refused at the folder that was opened
BeginCdUp(c) ==
    LET s == sess[c] IN
    Receive(c, [NoReq EXCEPT !.cmd = "CD", !.pc = "parent_status"],
            IF LoggedIn(c) /\ s.sharing /\ s.current = s.root THEN 403 ELSE NeedLogin(c))

\* db_folder_find_parent: first the status of the current folder ...
ParentStatus(c) ==
    /\ At(c, "parent_status")
    /\ \/ /\ StatusOf(sess[c].current) = "OK"
          /\ Goto(c, "find_parent")
       \/ StatusOf(sess[c].current) # "OK" /\ Reply(c, 422)
       \/ DbMayFail /\ Reply(c, 500)
    /\ UNCHANGED <<store, sess>>

\* ... then its parent, which is not asked to be live; a root is its own
CdUp(c) ==
    /\ At(c, "find_parent")
    /\ LET f == sess[c].current
           p == folders[f].parent
       IN EnterFolder(c, IF p = NoId THEN f ELSE p)
    /\ UNCHANGED store

-----------------------------------------------------------------------------
BeginList(c) ==
    Receive(c, [NoReq EXCEPT !.cmd = "LIST", !.pc = "check_status"], NeedLogin(c))

\* only ERR and DB_FOLDER_DELETED are tested for: 200 LIST_BEGIN is sent for
\* a session whose folder does not exist.  The entries sent are left out.
ListStatus(c) ==
    /\ At(c, "check_status") /\ Cmd(c) = "LIST"
    /\ IF StatusOf(sess[c].current) = "DELETED" THEN Reply(c, 402) ELSE Goto(c, "list_files")
    /\ UNCHANGED <<store, sess>>

ListFiles(c) ==
    /\ At(c, "list_files") /\ Goto(c, "list_folders")
    /\ UNCHANGED <<store, sess>>

ListFolders(c) ==
    /\ At(c, "list_folders") /\ Reply(c, 200)
    /\ UNCHANGED <<store, sess>>

-----------------------------------------------------------------------------
\* handle_open_shared_folder does not ask whether the session is already in
\* sharing mode, nor whether the folder is live.
BeginOpen(c, f) ==
    Receive(c, [NoReq EXCEPT !.cmd = "OPEN_SHARED_FOLDER", !.pc = "check_access_folder",
                             !.id = f],
            NeedLogin(c))

CheckAccessFolder(c) ==
    /\ At(c, "check_access_folder")
    /\ IF HasFolderPerm(req[c].id, sess[c].user) THEN Goto(c, "access_info") ELSE Reply(c, 402)
    /\ UNCHANGED <<store, sess>>

\* db_sharing_get_folder_access_info: the permission again, with its role
OpenShared(c) ==
    LET f == req[c].id
        s == sess[c]
    IN  /\ At(c, "access_info")
        /\ \/ \E p \in folderPerms :
                 /\ p.folder = f /\ p.user = s.user
                 /\ SetSession(c, [s EXCEPT !.sharing = TRUE, !.old = s.current, !.root = f,
                                            !.current = f, !.role = p.role])
                 /\ Reply(c, 200)
           \/ ~HasFolderPerm(f, s.user) /\ Reply(c, 402) /\ sess' = sess
        /\ UNCHANGED store

\* handle_exit_shared: no statement, and role is kept
ExitShared(c) ==
    LET s == sess[c] IN
    /\ At(c, "idle") /\ "EXIT_SHARED" \in Commands[c]
    /\ IF LoggedIn(c) /\ s.sharing
       THEN /\ SetSession(c, [s EXCEPT !.sharing = FALSE, !.current = s.old,
                                       !.root = NoId, !.old = NoId])
            /\ Then(c, ReplyTo("EXIT_SHARED", 200))
       ELSE /\ sess' = sess
            /\ Then(c, ReplyTo("EXIT_SHARED", IF LoggedIn(c) THEN 409 ELSE 401))
    /\ UNCHANGED store
=============================================================================
