----------------------------- MODULE Accounts ------------------------------
(* REGISTER, LOGIN and LOGOUT.  A password is the right one of its user:   *)
(* check_password and the hash compare are not modelled.                   *)
EXTENDS Sessions

\* handle_register: WEAK_PASSWORD and a bad format are left out
BeginRegister(c, n) ==
    /\ Len(users) < MaxUsers
    /\ Receive(c, Request("REGISTER", "user_exists", n), 0)

\* Only DB_USER_EXISTS is tested for: an ERR goes on to the insert.
UserExists(c) ==
    /\ At(c, "user_exists")
    /\ IF UserNamed(req[c].name) = {}
       THEN Goto(c, "user_insert")
       ELSE Reply(c, 409) \/ (DbMayFail /\ Goto(c, "user_insert"))
    /\ UNCHANGED <<store, sess>>

\* Mutant: the account is acknowledged before its root folder is made.
InsertUserOnly(c) ==
    /\ At(c, "user_insert")
    /\ IF UserNamed(req[c].name) = {}
       THEN users' = Append(users, req[c].name) /\ Reply(c, 200)
       ELSE users' = users /\ Reply(c, 500)
    /\ UNCHANGED <<folders, files, folderPerms, filePerms, blobs, sess>>

\* Mutant: an insert that username's uniqueness refuses is tried again.
InsertUserRetry(c) ==
    /\ At(c, "user_insert")
    /\ IF UserNamed(req[c].name) = {}
       THEN users' = Append(users, req[c].name) /\ Goto(c, "create_root")
       ELSE users' = users /\ Goto(c, "user_exists")
    /\ UNCHANGED <<folders, files, folderPerms, filePerms, blobs, sess>>

\* username is UNIQUE
InsertUser(c) ==
    /\ At(c, "user_insert")
    /\ IF UserNamed(req[c].name) = {}
       THEN users' = Append(users, req[c].name) /\ Goto(c, "create_root")
       ELSE users' = users /\ Reply(c, 500)
    /\ UNCHANGED <<folders, files, folderPerms, filePerms, blobs, sess>>

\* db_folder_create_root: the user's id (users never leave the table), then
\* the insert, which uq_root_folder may refuse
CreateRoot(c) ==
    /\ At(c, "create_root")
    /\ \E u \in UserNamed(req[c].name) :
          IF RootsOf(u) = {}
          THEN /\ folders' = Append(folders, [owner |-> u, parent |-> NoId,
                                              name |-> "/", deleted |-> FALSE])
               /\ Reply(c, 200)
          ELSE folders' = folders /\ Reply(c, 500)
    /\ UNCHANGED <<users, files, folderPerms, filePerms, blobs, sess>>

-----------------------------------------------------------------------------
BeginLogin(c, n) ==
    Receive(c, Request("LOGIN", "check_login", n), IF LoggedIn(c) THEN 402 ELSE 0)

\* logged_in, user_id and cwd are set here, before the root is looked up
CheckLogin(c) ==
    /\ At(c, "check_login")
    /\ \/ \E u \in UserNamed(req[c].name) :
             /\ SetSession(c, [sess[c] EXCEPT !.user = u])
             /\ Goto(c, "find_root")
       \/ UserNamed(req[c].name) = {} /\ Reply(c, 401) /\ sess' = sess
    /\ UNCHANGED store

\* Mutant: the select of the root leaves the owner out.
FindRootAnyones(c) ==
    /\ At(c, "find_root")
    /\ \/ \E f \in FolderIds :
             folders[f].parent = NoId /\ SetSession(c, [sess[c] EXCEPT !.current = f]) /\ Reply(c, 200)
       \/ RootsOf(sess[c].user) = {} /\ Reply(c, 500) /\ sess' = sess
    /\ UNCHANGED store

\* DB_USER_NOT_FOUND when the user has no root: 500, and still logged in
FindRoot(c) ==
    /\ At(c, "find_root")
    /\ \/ \E f \in RootsOf(sess[c].user) :
             SetSession(c, [sess[c] EXCEPT !.current = f]) /\ Reply(c, 200)
       \/ RootsOf(sess[c].user) = {} /\ Reply(c, 500) /\ sess' = sess
    /\ UNCHANGED store

-----------------------------------------------------------------------------
\* handle_logout zeroes the session, in sharing mode too
Logout(c) ==
    /\ At(c, "idle") /\ "LOGOUT" \in Commands[c]
    /\ IF LoggedIn(c)
       THEN SetSession(c, FreshSession) /\ Then(c, ReplyTo("LOGOUT", 200))
       ELSE sess' = sess /\ Then(c, ReplyTo("LOGOUT", 201))
    /\ UNCHANGED store
=============================================================================
