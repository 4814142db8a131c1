------------------------------ MODULE MCServer -----------------------------
(* Small databases for TLC: what earlier connections left.                 *)
EXTENDS Server, TLC

CONSTANTS c1, c2, a, b

Row(o, p, n)  == [owner |-> o, parent |-> p, name |-> n, deleted |-> FALSE]
File(o, f, n, x) == [owner |-> o, folder |-> f, name |-> n, blob |-> x, deleted |-> FALSE]

\* users u (1) and v (2), their roots 1 and 2; 3 is u's folder a, 4 its
\* subfolder b, and 5 u's folder b
TwoUsers == <<"u", "v">>
Roots    == <<Row(1, 0, "/"), Row(2, 0, "/")>>
Tree     == Roots \o <<Row(1, 1, a), Row(1, 3, b)>>
Wide     == Tree \o <<Row(1, 1, b)>>
Flat     == Roots \o <<Row(1, 1, a)>>

\* v may open u's folder a, to write or to read
Editor == {[folder |-> 3, user |-> 2, role |-> "editor"]}
\* v may read a, and write b below it
Mixed == {[folder |-> 3, user |-> 2, role |-> "viewer"],
          [folder |-> 4, user |-> 2, role |-> "editor"]}
\* ... and write u's b, which is empty
Wider == Mixed \cup {[folder |-> 5, user |-> 2, role |-> "editor"]}

\* c1 is u's client and c2 is v's; or both are u's
OwnerAndGuest == (c1 :> {"u"}) @@ (c2 :> {"v"})
OwnerTwice == [c \in Conns |-> {"u"}]

Both(cmds)        == [c \in Conns |-> {"LOGIN"} \cup cmds]
Each(cmds1, cmds2) == (c1 :> {"LOGIN"} \cup cmds1) @@ (c2 :> {"LOGIN"} \cup cmds2)

ShareCommands ==
    Each({"RMDIR"}, {"CD", "MKDIR", "RENAME", "OPEN_SHARED_FOLDER", "EXIT_SHARED"})
FileCommands ==
    Each({"CD", "DELETE", "LIST"},
         {"OPEN_SHARED_FOLDER", "UPLOAD", "RENAME", "DOWNLOAD"})
SharingCommands ==
    Each({"SHARE_FOLDER", "DELETE", "SHARE_FILE", "UNSHARE_FILE", "REGISTER", "LOGOUT",
          "LIST_SHARED_USERS_FILE", "LIST_SHARED_USERS_FOLDER"},
         {"OPEN_SHARED_FOLDER", "UNSHARE_FOLDER", "DOWNLOAD_SHARED", "REGISTER",
          "LIST_SHARED_FILES_WITH_ME", "LIST_SHARED_FOLDERS_WITH_ME"})
PathCommands   == Each({"CD", "RENAME"}, {"CD", "OPEN_SHARED_FOLDER", "EXIT_SHARED"})
OpenCommands   == Each({}, {"OPEN_SHARED_FOLDER", "EXIT_SHARED"})
RmdirCommands  == Both({"CD", "MKDIR", "RMDIR"})

NoRows  == <<>>
NoPerms == {}

\* one file in u's root; a row of file_permissions that somebody wrote with
\* psql (the program cannot insert one)
OneFile   == <<File(1, 1, a, 1)>>
OneShared == <<File(1, 3, a, 1)>>
FileShared == {[file |-> 1, user |-> 2]}
=============================================================================
