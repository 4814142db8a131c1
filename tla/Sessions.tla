----------------------------- MODULE Sessions ------------------------------
(***************************************************************************)
(* What every request handler shares: the session_t of a connection, the   *)
(* progress of the request its thread is serving, and the two lookups      *)
(* (db_folder_check_status, then a select) several handlers go through.    *)
(*                                                                         *)
(* A thread serves one request at a time: handle_client receives it, calls *)
(* the handler and receives again.  A request is received in one step,     *)
(* with the handler's checks of the session, which only this thread reads  *)
(* and writes; every database statement is a step of its own, with the     *)
(* local code that follows it; the last one sends the reply.               *)
(***************************************************************************)
EXTENDS Store

CONSTANTS
    Conns,          \* client connections, one server thread each
    Commands,       \* the requests each client sends,
    Logins,         \* and the users it logs in as
    DbMayFail,      \* a statement may fail: pool exhausted, broken connection
    MaxFolders,     \* bounds of the tables: no request that adds a row is
    MaxFiles,       \*   accepted once its table has that many rows
    MaxUsers

VARIABLES sess, req

vars == <<store, sess, req>>

\* PWD and unknown words, which are answered without any statement, are left out.
CommandNames ==
    {"REGISTER", "LOGIN", "LOGOUT", "LIST", "CD", "MKDIR", "DELETE", "RENAME", "RMDIR",
     "UPLOAD", "DOWNLOAD", "SHARE_FILE", "SHARE_FOLDER", "UNSHARE_FILE", "UNSHARE_FOLDER",
     "LIST_SHARED_USERS_FILE", "LIST_SHARED_USERS_FOLDER", "LIST_SHARED_FILES_WITH_ME",
     "LIST_SHARED_FOLDERS_WITH_ME", "DOWNLOAD_SHARED", "OPEN_SHARED_FOLDER", "EXIT_SHARED"}

ASSUME ClientsAssumption ==
    /\ Commands \in [Conns -> SUBSET CommandNames]
    /\ Logins \in [Conns -> SUBSET Users]

ASSUME BoundsAssumption ==
    /\ DbMayFail \in BOOLEAN
    /\ MaxFolders \in Nat /\ MaxFiles \in Nat /\ MaxUsers \in Nat

-----------------------------------------------------------------------------
\* user = NoId when logged_in is 0.  share_root_folder_id and old_folder_id
\* are root and old; role is the zero of share_role_t until a folder is opened.
Session == [user : Nat, current : Nat, sharing : BOOLEAN, role : Roles,
            root : Nat, old : Nat]

\* Mutant: a session that is not zeroed, whose role is no share_role_t.
FreshSessionUnset == [user |-> NoId, current |-> NoId, sharing |-> FALSE,
                      role |-> "unset", root |-> NoId, old |-> NoId]

FreshSession == [user |-> NoId, current |-> NoId, sharing |-> FALSE,
                 role |-> "editor", root |-> NoId, old |-> NoId]

LoggedIn(c) == sess[c].user # NoId

\* the check at the head of mkdir, delete, rename, rmdir and upload
Viewer(c) == sess[c].sharing /\ sess[c].role = "viewer"

-----------------------------------------------------------------------------
\* A request being served: pc is the statement to execute next, id and uid
\* what the earlier ones found, arg a second name or the user a grant is for.
\* The statements whose failure (ERR) the handler answers with 500; the
\* failure of the others is among their own disjuncts, or in StatementFails.
FailsWith500 ==
    {"user_insert", "create_root", "check_login", "find_root", "find_parent",
     "list_files", "list_folders", "exist_dirname", "create_folder", "is_empty",
     "folder_soft_delete", "folder_rename", "find_file", "file_soft_delete",
     "file_rename", "check_access_file", "find_by_id", "find_user", "grant_file",
     "revoke_file", "grant_folder", "revoke_folder", "list_users",
     "list_shared_with_me", "check_access_folder", "access_info"}

Places == FailsWith500 \cup
    {"idle", "reply", "user_exists", "check_status", "find_folder", "parent_status",
     "rename_find_file", "file_exists", "receive", "file_insert", "find_by_name", "send",
     "access_again"}

Requests == [cmd : CommandNames \cup {"none"}, pc : Places,
             name : Names \cup Users \cup {NoName}, arg : Names \cup Users \cup {NoName},
             role : Roles, id : Nat, uid : Nat, code : Nat]

NoReq == [cmd |-> "none", pc |-> "idle", name |-> NoName, arg |-> NoName,
          role |-> "editor", id |-> NoId, uid |-> NoId, code |-> 0]

Request(cmd, pc, n) == [NoReq EXCEPT !.cmd = cmd, !.pc = pc, !.name = n]

At(c, pc) == req[c].pc = pc
Cmd(c)    == req[c].cmd

Then(c, r)      == req' = [req EXCEPT ![c] = r]
Goto(c, pc)     == Then(c, [req[c] EXCEPT !.pc = pc])
Found(c, i, pc) == Then(c, [req[c] EXCEPT !.id = i, !.pc = pc])

ReplyTo(cmd, code) == [NoReq EXCEPT !.cmd = cmd, !.pc = "reply", !.code = code]
Reply(c, code)     == Then(c, ReplyTo(Cmd(c), code))

SetSession(c, s) == sess' = [sess EXCEPT ![c] = s]

\* A request arrives.  refused is the code its handler answers before any
\* statement, or 0; sscanf failures (400) change nothing and are left out.
Receive(c, r, refused) ==
    /\ At(c, "idle")
    /\ r.cmd \in Commands[c]
    /\ Then(c, IF refused # 0 THEN ReplyTo(r.cmd, refused) ELSE r)
    /\ UNCHANGED <<store, sess>>

NeedLogin(c) == IF LoggedIn(c) THEN 0 ELSE 401

\* Mutants: the viewer let through; a shared session refused as a viewer only.
NeedWriteAnyRole(c) == NeedLogin(c)
NeedHomeViewer(c) == IF ~LoggedIn(c) THEN 401 ELSE IF Viewer(c) THEN 403 ELSE 0

NeedWrite(c) == IF ~LoggedIn(c) THEN 401 ELSE IF Viewer(c) THEN 403 ELSE 0
NeedHome(c)  == IF ~LoggedIn(c) THEN 401 ELSE IF sess[c].sharing THEN 403 ELSE 0

SendReply(c) ==
    /\ At(c, "reply")
    /\ Then(c, NoReq)
    /\ UNCHANGED <<store, sess>>

\* net_recv returns 0 or -1: the session is gone.  The connection's identity
\* is then free for the next client.
Disconnect(c) ==
    /\ At(c, "idle")
    /\ sess[c] # FreshSession
    /\ SetSession(c, FreshSession)
    /\ UNCHANGED <<store, req>>

-----------------------------------------------------------------------------
(* db_folder_find_folder_by_name(current_folder_id, name)                  *)

\* Mutants: RMDIR, or RENAME, that forgets DB_FOLDER_NAME_NOT_FOUND, as
\* SHARE_FOLDER does.
LookupCodeRmdir ==
    [CD     |-> [ERR |-> 500, DELETED |-> 422, NOT_FOUND |-> 422, NAME_NOT_FOUND |-> 409],
     RMDIR  |-> [ERR |-> 500, DELETED |-> 500, NOT_FOUND |-> 404, NAME_NOT_FOUND |-> 0],
     RENAME |-> [ERR |-> 404, DELETED |-> 404, NOT_FOUND |-> 404, NAME_NOT_FOUND |-> 404]]
LookupCodeRename ==
    [LookupCodeRmdir EXCEPT !.RMDIR.NAME_NOT_FOUND = 500, !.RENAME.NAME_NOT_FOUND = 0]

\* The codes of the handlers for each result of the lookup; 0 where the
\* handler does not test for it and goes on with folder_id uninitialised.
LookupCode ==
    [CD             |-> [ERR |-> 500, DELETED |-> 422, NOT_FOUND |-> 422, NAME_NOT_FOUND |-> 409],
     RMDIR          |-> [ERR |-> 500, DELETED |-> 500, NOT_FOUND |-> 404, NAME_NOT_FOUND |-> 500],
     RENAME         |-> [ERR |-> 404, DELETED |-> 404, NOT_FOUND |-> 404, NAME_NOT_FOUND |-> 404],
     SHARE_FOLDER   |-> [ERR |-> 500, DELETED |-> 0,   NOT_FOUND |-> 404, NAME_NOT_FOUND |-> 0],
     UNSHARE_FOLDER |-> [ERR |-> 500, DELETED |-> 0,   NOT_FOUND |-> 404, NAME_NOT_FOUND |-> 0],
     LIST_SHARED_USERS_FOLDER
                    |-> [ERR |-> 500, DELETED |-> 0,   NOT_FOUND |-> 404, NAME_NOT_FOUND |-> 0]]

FolderCommands == DOMAIN LookupCode

\* where the handler goes with the folder's id (CD ends, in Navigation)
AfterLookup ==
    [RMDIR |-> "is_empty", RENAME |-> "folder_rename", SHARE_FOLDER |-> "grant_folder",
     UNSHARE_FOLDER |-> "revoke_folder", LIST_SHARED_USERS_FOLDER |-> "list_users"]

\* An uninitialised int holds anything: no folder's id, or any folder's.
LookupFails(c, ret) ==
    LET code == LookupCode[Cmd(c)][ret] IN
    IF code # 0 THEN Reply(c, code)
    ELSE \E i \in {NoId} \cup FolderIds : Found(c, i, AfterLookup[Cmd(c)])

StatusOf(f) ==
    IF f \notin FolderIds THEN "NOT_FOUND"
    ELSE IF folders[f].deleted THEN "DELETED" ELSE "OK"

CheckStatus(c) ==
    /\ At(c, "check_status") /\ Cmd(c) \in FolderCommands
    /\ LET status == StatusOf(sess[c].current) IN
       IF status = "OK" THEN Goto(c, "find_folder") ELSE LookupFails(c, status)
    /\ UNCHANGED <<store, sess>>

FindFolder(c) ==
    /\ At(c, "find_folder") /\ Cmd(c) \in DOMAIN AfterLookup
    /\ LET found == FoldersNamed(sess[c].current, req[c].name) IN
       \/ \E f \in found : Found(c, f, AfterLookup[Cmd(c)])
       \/ found = {} /\ LookupFails(c, "NAME_NOT_FOUND")
    /\ UNCHANGED <<store, sess>>

-----------------------------------------------------------------------------
\* db_file_find_id_by_name(current_folder_id, name), for DELETE and the
\* commands on a shared file; RENAME and DOWNLOAD treat its failure apart.
AfterFileLookup ==
    [DELETE |-> "file_soft_delete", SHARE_FILE |-> "grant_file",
     UNSHARE_FILE |-> "revoke_file", LIST_SHARED_USERS_FILE |-> "list_users"]

FindFile(c) ==
    /\ At(c, "find_file") /\ Cmd(c) \in DOMAIN AfterFileLookup
    /\ LET found == FilesNamed(sess[c].current, req[c].name) IN
       \/ \E f \in found : Found(c, f, AfterFileLookup[Cmd(c)])
       \/ found = {} /\ Reply(c, 404)
    /\ UNCHANGED <<store, sess>>

-----------------------------------------------------------------------------
\* A statement fails: no connection left in the pool, or a broken one.
StatementFails(c) ==
    /\ DbMayFail
    /\ \/ req[c].pc \in FailsWith500 /\ Reply(c, 500)
       \/ /\ req[c].pc \in {"check_status", "find_folder"}
          /\ Cmd(c) \in FolderCommands
          /\ LookupFails(c, "ERR")
       \/ At(c, "check_status") /\ Cmd(c) = "LIST" /\ Reply(c, 500)
    /\ UNCHANGED <<store, sess>>
=============================================================================
