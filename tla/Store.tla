------------------------------- MODULE Store -------------------------------
(***************************************************************************)
(* The persistent state of the file server: the tables of                  *)
(* server/src/database/schema.sql, and the blobs under ./storage.          *)
(*                                                                         *)
(* A table with a BIGSERIAL key is a sequence, and a row's id is its index:*)
(* no statement of the code deletes a row of users, folders or files, a    *)
(* deletion only marks it (deleted_at).  Ids start at 1, so NoId stands    *)
(* for the 0 and the -1 the code uses for "none", and for a NULL parent.   *)
(***************************************************************************)
EXTENDS Naturals, Sequences

CONSTANTS
    Users,          \* user names clients register and log in with
    Names,          \* file and folder names
    BadNames,       \* the names folder_service_check_fname refuses
    NoName,         \* a request without that argument
    InitUsers,      \* the database left by earlier connections:
    InitFolders,    \*   sequences of rows, and the permissions
    InitFiles,
    InitFolderPerms,
    InitFilePerms

VARIABLES users, folders, files, folderPerms, filePerms, blobs

tables == <<users, folders, files, folderPerms, filePerms>>
store  == <<users, folders, files, folderPerms, filePerms, blobs>>

NoId  == 0
Roles == {"viewer", "editor"}

UserIds   == DOMAIN users
FolderIds == DOMAIN folders
FileIds   == DOMAIN files

FolderRow == [owner : Nat, parent : Nat, name : Names \cup {"/"}, deleted : BOOLEAN]
FileRow   == [owner : Nat, folder : Nat, name : Names, blob : Nat, deleted : BOOLEAN]
FolderPerm == [folder : Nat, user : Nat, role : Roles]
FilePerm   == [file : Nat, user : Nat]

\* What ./storage/<storage_key> holds.  A key is the index of its blob: it
\* is built from the user, the time, rand() and the name, and the model
\* assumes that two uploads never draw the same one (UNIQUE in the schema).
BlobStates == {"partial", "full", "short", "removed"}

Live(table, i) == i \in DOMAIN table /\ ~table[i].deleted

-----------------------------------------------------------------------------
(* What the selects of the code return.                                    *)

\* db_folder_find_root: no filter on deleted_at
RootsOf(u) == {f \in FolderIds : folders[f].owner = u /\ folders[f].parent = NoId}

\* the live folders called n in folder f, whoever owns them
FoldersNamed(f, n) ==
    {g \in FolderIds : Live(folders, g) /\ folders[g].parent = f /\ folders[g].name = n}

\* db_folder_check_exist_dirname asks the same without the deleted_at filter
FoldersEverNamed(f, n) ==
    {g \in FolderIds : folders[g].parent = f /\ folders[g].name = n}

FilesNamed(f, n) ==
    {g \in FileIds : Live(files, g) /\ files[g].folder = f /\ files[g].name = n}

IsEmpty(f) ==
    /\ \A g \in FolderIds : Live(folders, g) => folders[g].parent # f
    /\ \A g \in FileIds : Live(files, g) => files[g].folder # f

UserNamed(n) == {u \in UserIds : users[u] = n}

HasFolderPerm(f, u) == \E p \in folderPerms : p.folder = f /\ p.user = u
HasFilePerm(f, u)   == \E p \in filePerms : p.file = f /\ p.user = u

-----------------------------------------------------------------------------
(* The unique indexes: what makes an insert or an update fail.             *)

\* uq_folder_name: another live row with the same owner, parent and name
FolderClash(self, o, p, n) ==
    \E g \in FolderIds \ {self} :
        /\ Live(folders, g)
        /\ folders[g].owner = o /\ folders[g].parent = p /\ folders[g].name = n

\* uq_file_name
FileClash(self, o, f, n) ==
    \E g \in FileIds \ {self} :
        /\ Live(files, g)
        /\ files[g].owner = o /\ files[g].folder = f /\ files[g].name = n

-----------------------------------------------------------------------------
(* In the folders fs, f is r or below it: f is in every set that holds r   *)
(* and, with a folder, its subfolders.                                     *)

ClosedDown(fs, S) == \A g \in DOMAIN fs : fs[g].parent \in S => g \in S

Below(fs, f, r) == \A S \in SUBSET DOMAIN fs : r \in S /\ ClosedDown(fs, S) => f \in S

InSubtree(f, r) == Below(folders, f, r)

-----------------------------------------------------------------------------
\* A root is its owner's only folder without a parent; a row refers to
\* rows that were there before it (the foreign keys of the schema).
WellFormed(us, fs, xs, fp, xp) ==
    /\ us \in Seq(Users)
    /\ \A u, v \in DOMAIN us : us[u] = us[v] => u = v
    /\ fs \in Seq(FolderRow)
    /\ \A f \in DOMAIN fs :
          /\ fs[f].owner \in DOMAIN us
          /\ fs[f].parent < f
          /\ fs[f].parent = NoId => ~fs[f].deleted /\ fs[f].name = "/"
          /\ \A g \in DOMAIN fs :
                fs[f].parent = NoId /\ fs[g].parent = NoId /\ fs[f].owner = fs[g].owner
                    => f = g
    /\ xs \in Seq(FileRow)
    /\ \A x \in DOMAIN xs :
          xs[x].owner \in DOMAIN us /\ xs[x].folder \in DOMAIN fs /\ xs[x].blob = x
    /\ fp \in SUBSET FolderPerm
    /\ \A p \in fp : p.folder \in DOMAIN fs /\ p.user \in DOMAIN us
    /\ xp \in SUBSET FilePerm
    /\ \A p \in xp : p.file \in DOMAIN xs /\ p.user \in DOMAIN us

ASSUME NamesAssumption ==
    /\ NoName \notin Names \cup Users
    /\ BadNames \subseteq Names
    /\ "/" \notin Names

ASSUME InitAssumption ==
    WellFormed(InitUsers, InitFolders, InitFiles, InitFolderPerms, InitFilePerms)

\* uq_folder_name, uq_file_name and the key of folder_permissions hold of the
\* initial tables: PostgreSQL has kept them.
ASSUME IndexAssumption ==
    /\ \A f, g \in DOMAIN InitFolders :
          /\ ~InitFolders[f].deleted /\ ~InitFolders[g].deleted
          /\ InitFolders[f].owner = InitFolders[g].owner
          /\ InitFolders[f].parent = InitFolders[g].parent
          /\ InitFolders[f].name = InitFolders[g].name
          => f = g
    /\ \A x, y \in DOMAIN InitFiles :
          /\ ~InitFiles[x].deleted /\ ~InitFiles[y].deleted
          /\ InitFiles[x].owner = InitFiles[y].owner
          /\ InitFiles[x].folder = InitFiles[y].folder
          /\ InitFiles[x].name = InitFiles[y].name
          => x = y
    /\ \A p, q \in InitFolderPerms : p.folder = q.folder /\ p.user = q.user => p = q

StoreInit ==
    /\ users = InitUsers
    /\ folders = InitFolders
    /\ files = InitFiles
    /\ folderPerms = InitFolderPerms
    /\ filePerms = InitFilePerms
    /\ blobs = [x \in DOMAIN InitFiles |-> "full"]
=============================================================================
