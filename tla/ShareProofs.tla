----------------------------- MODULE ShareProofs ---------------------------
(***************************************************************************)
(* What a session may write while it is in the folder of somebody else:    *)
(* the action properties of the server, for any clients and databases.     *)
(***************************************************************************)
EXTENDS ServerProofs

Quiet ==
    /\ FoldersWritten = {} /\ FilesWritten = {}
    /\ folderPerms' = folderPerms /\ filePerms' = filePerms

\* no row is written but, maybe, that of folder f, or that of file x
OnlyFolder(f) ==
    /\ \A g \in DOMAIN folders' : g # f => g \in FolderIds /\ folders'[g] = folders[g]
    /\ UNCHANGED <<files, folderPerms, filePerms>>
OnlyFile(x) ==
    /\ \A y \in DOMAIN files' : y # x => y \in FileIds /\ files'[y] = files[y]
    /\ UNCHANGED <<folders, folderPerms, filePerms>>

LEMMA StoreQuiet == ASSUME UNCHANGED store PROVE Quiet
  BY DEF Quiet, FoldersWritten, FilesWritten, store, FolderIds, FileIds

-----------------------------------------------------------------------------
(* The steps that write nothing.                                           *)

\* The folder REGISTER makes is a root.
LEMMA CreateRootQuiet == ASSUME NEW c, Inv, CreateRoot(c) PROVE Quiet
  <1>1. UNCHANGED <<files, folderPerms, filePerms>>
    BY DEF CreateRoot
  <1>2. CASE folders' = folders
    BY <1>1, <1>2 DEF Quiet, FoldersWritten, FilesWritten, FolderIds, FileIds
  <1>3. ASSUME NEW u, folders' = Append(folders, [owner |-> u, parent |-> NoId, name |-> "/",
                                                   deleted |-> FALSE])
        PROVE  Quiet
    <2> DEFINE e == [owner |-> u, parent |-> NoId, name |-> "/", deleted |-> FALSE]
    <2>1. folders' = Append(folders, e) /\ e.parent = NoId
      BY <1>3
    <2>2. folders \in Seq(FolderRow)
      BY DEF Inv, Tables
    <2> HIDE DEF e
    <2>3. \A f \in DOMAIN folders' :
             \/ f \in FolderIds /\ folders'[f] = folders[f]
             \/ folders'[f].parent = NoId
      BY <2>1, <2>2 DEF FolderIds
    <2> QED BY <1>1, <2>3 DEF Quiet, FoldersWritten, FilesWritten, FileIds
  <1> QED BY <1>2, <1>3 DEF CreateRoot

\* Only the statements of WriteAt and GrantAt write rows that are no root's,
\* or permissions.
LEMMA OthersQuiet ==
    ASSUME NEW c \in Conns, Inv, Step(c), req[c].pc \notin WriteAt \cup GrantAt PROVE Quiet
  <1> USE StoreQuiet
  <1>1. CASE Dispatch(c)
    BY <1>1, DispatchStep DEF Begun
  <1>2. CASE Accounting(c)
    <2>1. CASE InsertUser(c)
      BY <2>1 DEF InsertUser, Quiet, FoldersWritten, FilesWritten, FolderIds, FileIds
    <2>2. CASE UserExists(c) \/ CheckLogin(c) \/ FindRoot(c)
      BY <2>2 DEF UserExists, CheckLogin, FindRoot
    <2> QED BY <1>2, <2>1, <2>2, CreateRootQuiet DEF Accounting
  <1>3. CASE Navigating(c)
    BY <1>3 DEF Navigating, CheckStatus, CdDown, ParentStatus, CdUp, ListStatus, ListFiles,
                ListFolders, CheckAccessFolder, OpenShared
  <1>4. CASE Editing(c)
    BY <1>4 DEF Editing, FindFolder, FindFile, ExistDirname, CreateFolder, CheckEmpty,
                FolderSoftDelete, RenameFindFile, FileRename, FolderRename, FileSoftDelete,
                At, WriteAt, RenameAt
  <1>5. CASE Transferring(c)
    BY <1>5 DEF Transferring, FileExists, FileInsert, FindByName, SendFile, CheckAccessFile,
                AccessAgain, FindById, At, WriteAt
  <1>6. CASE Permitting(c)
    BY <1>6 DEF Permitting, FindUser, GrantFolder, RevokeFolder, GrantFile, RevokeFile,
                ListUsers, At, GrantAt
  <1>7. CASE \/ StatementFails(c) \/ SendReply(c) \/ UploadReceived(c) \/ UploadBroken(c)
             \/ Disconnect(c)
    BY <1>7 DEF StatementFails, SendReply, UploadReceived, UploadBroken, Disconnect, At, WriteAt
  <1> QED BY <1>1, <1>2, <1>3, <1>4, <1>5, <1>6, <1>7 DEF Step, Serve

-----------------------------------------------------------------------------
(* The steps that write: one entry of the current folder.                  *)

\* the row of a folder in folder f, made or written over; or of a file in f
WritesIn(f) ==
    \/ Quiet
    \/ \E g \in DOMAIN folders' : /\ OnlyFolder(g) /\ folders'[g].parent = f
                                  /\ g \in FolderIds => folders[g].parent = f
    \/ \E x \in DOMAIN files' : OnlyFile(x) /\ files'[x].folder = f

LEMMA FolderAddedIn ==
    ASSUME Inv, NEW e, folders' = Append(folders, e), UNCHANGED <<files, folderPerms, filePerms>>
    PROVE  WritesIn(e.parent)
  <1> DEFINE n == Len(folders) + 1
  <1>1. folders \in Seq(FolderRow)
    BY DEF Inv, Tables
  <1>2. /\ DOMAIN folders' = FolderIds \cup {n} /\ folders'[n] = e /\ n \notin FolderIds
        /\ \A f \in FolderIds : folders'[f] = folders[f]
    BY <1>1 DEF FolderIds
  <1> HIDE DEF n
  <1> QED BY <1>2 DEF WritesIn, OnlyFolder

LEMMA FolderChangedIn ==
    ASSUME Inv, NEW f \in FolderIds, NEW e, folders' = [folders EXCEPT ![f] = e],
           e.parent = folders[f].parent, UNCHANGED <<files, folderPerms, filePerms>>
    PROVE  WritesIn(folders[f].parent)
  <1>1. /\ DOMAIN folders' = FolderIds /\ folders'[f] = e
        /\ \A g \in FolderIds \ {f} : folders'[g] = folders[g]
    BY DEF FolderIds
  <1> QED BY <1>1 DEF WritesIn, OnlyFolder

LEMMA FileAddedIn ==
    ASSUME Inv, NEW e, files' = Append(files, e), UNCHANGED <<folders, folderPerms, filePerms>>
    PROVE  WritesIn(e.folder)
  <1> DEFINE n == Len(files) + 1
  <1>1. files \in Seq(FileRow)
    BY DEF Inv, Tables
  <1>2. /\ DOMAIN files' = FileIds \cup {n} /\ files'[n] = e
        /\ \A x \in FileIds : files'[x] = files[x]
    BY <1>1 DEF FileIds
  <1> HIDE DEF n
  <1> QED BY <1>2 DEF WritesIn, OnlyFile

LEMMA FileChangedIn ==
    ASSUME Inv, NEW x \in FileIds, NEW e, files' = [files EXCEPT ![x] = e],
           e.folder = files[x].folder, UNCHANGED <<folders, folderPerms, filePerms>>
    PROVE  WritesIn(files[x].folder)
  <1>1. /\ DOMAIN files' = FileIds /\ files'[x] = e
        /\ \A y \in FileIds \ {x} : files'[y] = files[y]
    BY DEF FileIds
  <1> QED BY <1>1 DEF WritesIn, OnlyFile

LEMMA NothingIn ==
    ASSUME NEW f, UNCHANGED <<folders, files, folderPerms, filePerms>> PROVE WritesIn(f)
  BY DEF WritesIn, Quiet, FoldersWritten, FilesWritten, FolderIds, FileIds

\* The id an earlier statement found is still an entry of the current folder.
LEMMA WritersWriteHere ==
    ASSUME NEW c \in Conns, Inv, Step(c), req[c].pc \in WriteAt
    PROVE  WritesIn(sess[c].current)
  <1> DEFINE i == req[c].id
             f == sess[c].current
  <1>1. CASE CreateFolder(c)
    <2>1. folders' = folders \/ folders' = Append(folders, NewFolder(c))
      BY <1>1 DEF CreateFolder
    <2>2. NewFolder(c).parent = f
      BY DEF NewFolder
    <2> QED BY <1>1, <2>1, <2>2, FolderAddedIn, NothingIn DEF CreateFolder
  <1>2. CASE FolderSoftDelete(c) \/ FolderRename(c)
    <2>1. i \in FolderIds /\ folders[i].parent = f
      BY <1>2 DEF Inv, ConnOK, StandsOK, FolderSoftDelete, FolderRename, At, FolderIds
    <2>2. folders[i] \in FolderRow
      BY <2>1 DEF Inv, Tables, FolderIds
    <2>3. UNCHANGED <<files, folderPerms, filePerms>>
      BY <1>2 DEF FolderSoftDelete, FolderRename
    <2>4. \/ folders' = folders
          \/ folders' = [folders EXCEPT ![i] = [folders[i] EXCEPT !.deleted = TRUE]]
          \/ folders' = [folders EXCEPT ![i] = [folders[i] EXCEPT !.name = req[c].arg]]
      BY <1>2 DEF FolderSoftDelete, FolderRename
    <2>5. /\ [folders[i] EXCEPT !.deleted = TRUE].parent = folders[i].parent
          /\ [folders[i] EXCEPT !.name = req[c].arg].parent = folders[i].parent
      BY <2>2 DEF FolderRow
    <2>6. ASSUME NEW e, folders' = [folders EXCEPT ![i] = e], e.parent = folders[i].parent
          PROVE  WritesIn(f)
      BY <2>1, <2>3, <2>6, FolderChangedIn
    <2> QED BY <2>3, <2>4, <2>5, <2>6, NothingIn
  <1>3. CASE FileRename(c) \/ FileSoftDelete(c)
    <2>1. i \in FileIds /\ files[i].folder = f
      BY <1>3 DEF Inv, ConnOK, StandsOK, FileRename, FileSoftDelete, At, FileIds
    <2>2. files[i] \in FileRow
      BY <2>1 DEF Inv, Tables, FileIds
    <2>3. UNCHANGED <<folders, folderPerms, filePerms>>
      BY <1>3 DEF FileRename, FileSoftDelete
    <2>4. \/ files' = files
          \/ files' = [files EXCEPT ![i] = [files[i] EXCEPT !.deleted = TRUE]]
          \/ files' = [files EXCEPT ![i] = [files[i] EXCEPT !.name = req[c].arg]]
      BY <1>3 DEF FileRename, FileSoftDelete
    <2>5. /\ [files[i] EXCEPT !.deleted = TRUE].folder = files[i].folder
          /\ [files[i] EXCEPT !.name = req[c].arg].folder = files[i].folder
      BY <2>2 DEF FileRow
    <2>6. ASSUME NEW e, files' = [files EXCEPT ![i] = e], e.folder = files[i].folder
          PROVE  WritesIn(f)
      BY <2>1, <2>3, <2>6, FileChangedIn
    <2> QED BY <2>3, <2>4, <2>5, <2>6, NothingIn
  <1>4. CASE FileInsert(c)
    <2>1. UNCHANGED <<folders, folderPerms, filePerms>>
      BY <1>4 DEF FileInsert
    <2>2. CASE Inserts(c, f)
      <3> DEFINE e == [owner |-> sess[c].user, folder |-> f, name |-> req[c].name,
                       blob |-> req[c].id, deleted |-> FALSE]
      <3>1. files' = Append(files, e) /\ e.folder = f
        BY <2>2 DEF Inserts
      <3> HIDE DEF e
      <3> QED BY <2>1, <3>1, FileAddedIn
    <2>3. CASE InsertFails(c, f)
      BY <2>1, <2>3, NothingIn DEF InsertFails
    <2> QED BY <1>4, <2>2, <2>3 DEF FileInsert
  <1>5. CASE \/ ExistDirname(c) \/ CheckEmpty(c) \/ FileExists(c) \/ UploadReceived(c)
             \/ UploadBroken(c) \/ RenameFindFile(c) \/ StatementFails(c)
    BY <1>5, NothingIn DEF ExistDirname, CheckEmpty, FileExists, UploadReceived, UploadBroken,
                           RenameFindFile, StatementFails, store, tables
  <1>6. CASE Dispatch(c)
    BY <1>6, DispatchStep, StoreQuiet DEF WritesIn, Begun
  <1> QED
    BY <1>1, <1>2, <1>3, <1>4, <1>5, <1>6
    DEF Step, Serve, Accounting, Navigating, Editing, Transferring, Permitting, At, WriteAt,
        RenameAt, UserExists, InsertUser, CreateRoot, CheckLogin, FindRoot, CheckStatus, CdDown,
        ParentStatus, CdUp, ListStatus, ListFiles, ListFolders, CheckAccessFolder, OpenShared,
        FindFolder, FindFile, FindByName, SendFile, CheckAccessFile, AccessAgain, FindById,
        FindUser, GrantFolder, RevokeFolder, GrantFile, RevokeFile, ListUsers, SendReply,
        Disconnect

-----------------------------------------------------------------------------
\* The thread that makes a step: only its request changes.
LEMMA StepIsOf ==
    ASSUME Inv, Next, NEW d \in Conns, StepOf(d)
    PROVE  Quiet \/ Step(d)
  <1>1. CASE Crash
    BY <1>1, StoreQuiet DEF Crash
  <1>2. ASSUME NEW c \in Conns, Step(c) PROVE Quiet \/ Step(d)
    <2>1. LocalStep(c)
      BY <1>2, DispatchStep, ServeStep DEF Step, Begun
    <2> QED BY <1>2, <2>1 DEF LocalStep, StepOf
  <1> QED BY <1>1, <1>2 DEF Next

\* A session that opened a folder as a viewer writes no row and changes no
\* permission: the statements that write are only reached by requests whose
\* handlers refused a viewer when they began, and the session has not moved
\* into sharing mode since.
THEOREM ViewersRead == Spec => ViewerNeverWrites
  <1>1. ASSUME Inv, Next, NEW d \in Conns, Viewer(d), StepOf(d) PROVE Quiet
    <2>1. req[d].pc \notin WriteAt \cup GrantAt
      BY <1>1 DEF Inv, ConnOK, ControlOK, SessionOK, Serving, Viewer, WriteAt, RenameAt, GrantAt
    <2> QED BY <1>1, <2>1, StepIsOf, OthersQuiet
  <1>2. Inv /\ [Next]_vars =>
            [\A c \in Conns : Viewer(c) /\ StepOf(c) =>
                /\ FoldersWritten = {} /\ FilesWritten = {}
                /\ folderPerms' = folderPerms /\ filePerms' = filePerms]_vars
    BY <1>1 DEF Quiet
  <1> QED BY <1>2, Invariant, PTL DEF Spec, ViewerNeverWrites

\* A session in sharing mode, editor or not, writes only entries of folders
\* in the subtree it opened, never the opened folder, and no permission: it
\* stands below the share, and what it writes is an entry of where it stands.
THEOREM SharesConfineWrites == Spec => SharedWritesConfined
  <1>1. ASSUME Inv, Next, NEW d \in Conns, sess[d].sharing, StepOf(d)
        PROVE  /\ \A f \in FoldersWritten :
                     f # sess[d].root /\ InSubtree(folders'[f].parent, sess[d].root)
               /\ \A x \in FilesWritten : InSubtree(files'[x].folder, sess[d].root)
               /\ folderPerms' = folderPerms /\ filePerms' = filePerms
    <2> DEFINE r == sess[d].root
               f == sess[d].current
    <2>1. CASE Quiet
      BY <2>1 DEF Quiet
    <2>2. CASE Step(d) /\ WritesIn(f)
      <3>1. r \in DOMAIN folders /\ Below(folders, f, r)
        BY <1>1 DEF Inv, ConnOK, StandsOK
      <3>2. /\ DOMAIN folders \subseteq Nat
            /\ \A g \in DOMAIN folders : folders[g].parent \in Nat /\ folders[g].parent < g
        BY <1>1, RowTyped DEF Inv, Tables, TreeOK, FolderIds
      <3>3. r <= f /\ r \in Nat /\ f \in Nat
        BY <3>1, <3>2, BelowIsLater
      <3>4. ASSUME NEW g \in DOMAIN folders', OnlyFolder(g), folders'[g].parent = f,
                   g \in FolderIds => folders[g].parent = f
            PROVE  /\ FoldersWritten \subseteq {g} /\ FilesWritten = {} /\ g # r
                   /\ folderPerms' = folderPerms /\ filePerms' = filePerms
        <4>1. FoldersWritten \subseteq {g} /\ FilesWritten = {}
          BY <3>4 DEF FoldersWritten, FilesWritten, OnlyFolder, FileIds
        <4>2. g # r
          BY <3>1, <3>2, <3>3, <3>4 DEF FolderIds
        <4> QED BY <3>4, <4>1, <4>2 DEF OnlyFolder
      <3>5. ASSUME NEW x \in DOMAIN files', OnlyFile(x)
            PROVE  /\ FilesWritten \subseteq {x} /\ FoldersWritten = {}
                   /\ folderPerms' = folderPerms /\ filePerms' = filePerms
        BY <3>5 DEF FoldersWritten, FilesWritten, OnlyFile, FolderIds
      <3> QED BY <2>1, <2>2, <3>1, <3>4, <3>5 DEF WritesIn, InSubtree
    <2>3. CASE Step(d) /\ ~WritesIn(f)
      <3>1. req[d].pc \notin GrantAt
        BY <1>1 DEF Inv, ConnOK, ControlOK, SessionOK, Serving, GrantAt
      <3> QED BY <1>1, <2>1, <2>3, <3>1, WritersWriteHere, OthersQuiet
    <2> QED BY <1>1, <2>1, <2>2, <2>3, StepIsOf
  <1>2. Inv /\ [Next]_vars =>
            [\A c \in Conns : sess[c].sharing /\ StepOf(c) =>
                /\ \A f \in FoldersWritten :
                      f # sess[c].root /\ InSubtree(folders'[f].parent, sess[c].root)
                /\ \A x \in FilesWritten : InSubtree(files'[x].folder, sess[c].root)
                /\ folderPerms' = folderPerms /\ filePerms' = filePerms]_vars
    BY <1>1
  <1> QED BY <1>2, Invariant, PTL DEF Spec, SharedWritesConfined

-----------------------------------------------------------------------------
(* The server as those who share folders see it: each step is one of       *)
(* Access, or changes nothing they see.                                    *)

FolderSeen(e) == [owner |-> e.owner, dir |-> e.parent, name |-> e.name, deleted |-> e.deleted]
FileSeen(e)   == [owner |-> e.owner, dir |-> e.folder, name |-> e.name, deleted |-> e.deleted]

LEMMA SameSeen ==
    /\ UNCHANGED folders => UNCHANGED SeenFolders
    /\ UNCHANGED files => UNCHANGED SeenFiles
    /\ UNCHANGED store => UNCHANGED Rights!tables
  BY DEF SeenFolders, SeenFiles, FolderIds, FileIds, store, Rights!tables

LEMMA SeenAs ==
    /\ DOMAIN SeenFolders = FolderIds /\ DOMAIN SeenFiles = FileIds
    /\ \A f \in FolderIds : SeenFolders[f] = FolderSeen(folders[f])
    /\ \A x \in FileIds : SeenFiles[x] = FileSeen(files[x])
  BY DEF SeenFolders, SeenFiles, FolderSeen, FileSeen

LEMMA FolderPut ==
    ASSUME Inv, NEW e
    PROVE  /\ folders' = Append(folders, e) =>
                 /\ Rights!Puts(SeenFolders, SeenFolders', Len(folders) + 1, FolderSeen(e))
                 /\ Len(folders) + 1 \in DOMAIN SeenFolders' \ DOMAIN SeenFolders
           /\ \A f \in FolderIds : folders' = [folders EXCEPT ![f] = e] =>
                 Rights!Puts(SeenFolders, SeenFolders', f, FolderSeen(e))
  <1>0. folders \in Seq(FolderRow)
    BY DEF Inv, Tables
  <1>1. ASSUME NEW i, FolderIds' = FolderIds \cup {i}, folders'[i] = e,
               \A g \in FolderIds \ {i} : folders'[g] = folders[g]
        PROVE  Rights!Puts(SeenFolders, SeenFolders', i, FolderSeen(e))
    <2>1. SeenFolders' = [j \in FolderIds \cup {i} |-> IF j = i THEN FolderSeen(e)
                                                       ELSE SeenFolders[j]]
      BY <1>1 DEF SeenFolders, FolderSeen
    <2> QED BY <2>1, SeenAs DEF Rights!Puts
  <1>2. ASSUME folders' = Append(folders, e)
        PROVE  /\ Rights!Puts(SeenFolders, SeenFolders', Len(folders) + 1, FolderSeen(e))
               /\ Len(folders) + 1 \in DOMAIN SeenFolders' \ DOMAIN SeenFolders
    <2> DEFINE n == Len(folders) + 1
    <2>1. /\ FolderIds' = FolderIds \cup {n} /\ folders'[n] = e /\ n \notin FolderIds
          /\ \A g \in FolderIds : folders'[g] = folders[g]
      BY <1>0, <1>2 DEF FolderIds
    <2>2. DOMAIN SeenFolders' = FolderIds' /\ DOMAIN SeenFolders = FolderIds
      BY DEF SeenFolders
    <2> HIDE DEF n
    <2>3. Rights!Puts(SeenFolders, SeenFolders', n, FolderSeen(e))
      BY <1>1, <2>1
    <2> QED BY <2>1, <2>2, <2>3 DEF n
  <1>3. ASSUME NEW f \in FolderIds, folders' = [folders EXCEPT ![f] = e]
        PROVE  Rights!Puts(SeenFolders, SeenFolders', f, FolderSeen(e))
    <2>1. /\ FolderIds' = FolderIds \cup {f} /\ folders'[f] = e
          /\ \A g \in FolderIds \ {f} : folders'[g] = folders[g]
      BY <1>3 DEF FolderIds
    <2> QED BY <1>1, <2>1
  <1> QED BY <1>2, <1>3

LEMMA FilePut ==
    ASSUME Inv, NEW e
    PROVE  /\ files' = Append(files, e) =>
                 /\ Rights!Puts(SeenFiles, SeenFiles', Len(files) + 1, FileSeen(e))
                 /\ Len(files) + 1 \in DOMAIN SeenFiles' \ DOMAIN SeenFiles
           /\ \A x \in FileIds : files' = [files EXCEPT ![x] = e] =>
                 Rights!Puts(SeenFiles, SeenFiles', x, FileSeen(e))
  <1>0. files \in Seq(FileRow)
    BY DEF Inv, Tables
  <1>1. ASSUME NEW i, FileIds' = FileIds \cup {i}, files'[i] = e,
               \A y \in FileIds \ {i} : files'[y] = files[y]
        PROVE  Rights!Puts(SeenFiles, SeenFiles', i, FileSeen(e))
    <2>1. SeenFiles' = [j \in FileIds \cup {i} |-> IF j = i THEN FileSeen(e) ELSE SeenFiles[j]]
      BY <1>1 DEF SeenFiles, FileSeen
    <2> QED BY <2>1, SeenAs DEF Rights!Puts
  <1>2. ASSUME files' = Append(files, e)
        PROVE  /\ Rights!Puts(SeenFiles, SeenFiles', Len(files) + 1, FileSeen(e))
               /\ Len(files) + 1 \in DOMAIN SeenFiles' \ DOMAIN SeenFiles
    <2> DEFINE n == Len(files) + 1
    <2>1. /\ FileIds' = FileIds \cup {n} /\ files'[n] = e /\ n \notin FileIds
          /\ \A y \in FileIds : files'[y] = files[y]
      BY <1>0, <1>2 DEF FileIds
    <2>2. DOMAIN SeenFiles' = FileIds' /\ DOMAIN SeenFiles = FileIds
      BY DEF SeenFiles
    <2> HIDE DEF n
    <2>3. Rights!Puts(SeenFiles, SeenFiles', n, FileSeen(e))
      BY <1>1, <2>1
    <2> QED BY <2>1, <2>2, <2>3 DEF n
  <1>3. ASSUME NEW x \in FileIds, files' = [files EXCEPT ![x] = e]
        PROVE  Rights!Puts(SeenFiles, SeenFiles', x, FileSeen(e))
    <2>1. /\ FileIds' = FileIds \cup {x} /\ files'[x] = e
          /\ \A y \in FileIds \ {x} : files'[y] = files[y]
      BY <1>3 DEF FileIds
    <2> QED BY <1>1, <2>1
  <1> QED BY <1>2, <1>3

\* A name that the unique index let through is not taken.
LEMMA FreeName ==
    ASSUME NEW self, NEW i, NEW e
    PROVE  /\ ~FolderClash(self, e.owner, e.dir, e.name) /\ self \notin FolderIds \ {i}
                  => ~Rights!Taken(SeenFolders, i, e)
           /\ ~FileClash(self, e.owner, e.dir, e.name) /\ self \notin FileIds \ {i}
                  => ~Rights!Taken(SeenFiles, i, e)
  BY SeenAs DEF FolderClash, FileClash, Live, FolderIds, FileIds, FolderSeen, FileSeen,
                Rights!Taken

\* Only this thread's session changes, and LOGIN's when its root is looked up.
LEMMA SessionSeen ==
    ASSUME NEW c \in Conns, Inv, LocalStep(c)
    PROVE  /\ req[c].pc # "find_root" => SeenSession[c] = sess[c]
           /\ req[c].pc = "find_root" => SeenSession[c] = FreshSession
           /\ req'[c].pc # "find_root" => SeenSession' = [SeenSession EXCEPT ![c] = sess'[c]]
           /\ req'[c].pc = "find_root" => SeenSession' = [SeenSession EXCEPT ![c] = FreshSession]
  BY DEF SeenSession, LocalStep

LEMMA SessionStays ==
    ASSUME NEW c \in Conns, Inv, LocalStep(c), sess' = sess,
           req[c].pc # "find_root", req'[c].pc # "find_root"
    PROVE  UNCHANGED SeenSession
  <1>1. SeenSession' = [SeenSession EXCEPT ![c] = SeenSession[c]]
    BY SessionSeen
  <1> QED BY <1>1 DEF SeenSession

\* Nothing that is seen changes.
LEMMA Unseen ==
    ASSUME NEW c \in Conns, Inv, LocalStep(c), UNCHANGED <<store, sess>>,
           req[c].pc # "find_root", req'[c].pc # "find_root"
    PROVE  UNCHANGED Rights!vars
  BY SessionStays, SameSeen DEF Rights!vars

\* A statement that writes an entry of the current folder.
LEMMA Writes ==
    ASSUME NEW c \in Conns, Inv, LocalStep(c), req[c].pc \in WriteAt, req'[c].pc # "find_root",
           UNCHANGED <<sess, folderPerms, filePerms>>, sess[c].current \in FolderIds,
           \/ Rights!Edits(c, SeenFolders, SeenFolders') /\ files' = files
           \/ Rights!Edits(c, SeenFiles, SeenFiles') /\ folders' = folders
    PROVE  Rights!Write(c)
  <1>1. req[c].pc # "find_root" /\ Serving(req[c], WriteCommands)
    BY DEF Inv, ConnOK, ControlOK, Serving, WriteAt, RenameAt
  <1>2. SeenSession[c] = sess[c] /\ UNCHANGED SeenSession
    BY <1>1, SessionSeen, SessionStays
  <1>3. sess[c].user # NoId /\ ~(sess[c].sharing /\ sess[c].role = "viewer")
    BY <1>1 DEF Inv, ConnOK, SessionOK, Serving
  <1> QED BY <1>2, <1>3, SameSeen, SeenAs
          DEF Rights!Write, Rights!MayWrite, Rights!In, Rights!Here

LEMMA SeenMarked ==
    /\ \A e \in FolderRow :
          FolderSeen([e EXCEPT !.deleted = TRUE]) = [FolderSeen(e) EXCEPT !.deleted = TRUE]
    /\ \A e \in FileRow :
          FileSeen([e EXCEPT !.deleted = TRUE]) = [FileSeen(e) EXCEPT !.deleted = TRUE]
  <1>1. ASSUME NEW e \in FolderRow, NEW b \in BOOLEAN
        PROVE  FolderSeen([e EXCEPT !.deleted = b]) = [FolderSeen(e) EXCEPT !.deleted = b]
    BY <1>1 DEF FolderSeen, FolderRow
  <1>2. ASSUME NEW e \in FileRow, NEW b \in BOOLEAN
        PROVE  FileSeen([e EXCEPT !.deleted = b]) = [FileSeen(e) EXCEPT !.deleted = b]
    BY <1>2 DEF FileSeen, FileRow
  <1> QED BY <1>1, <1>2

LEMMA CreateFolderSeen ==
    ASSUME NEW c \in Conns, Inv, CreateFolder(c)
    PROVE  Rights!Write(c) \/ UNCHANGED Rights!vars
  <1> DEFINE e == NewFolder(c)
             n == Len(folders) + 1
             d == sess[c].current
  <1>0. /\ UNCHANGED <<users, files, folderPerms, filePerms, blobs, sess>>
        /\ req[c].pc = "create_folder" /\ LocalStep(c)
    BY CreateFolderStep DEF CreateFolder, At
  <1>1. req'[c].pc = "reply" /\ SeenSession[c] = sess[c]
    BY <1>0, NextPc, SessionSeen DEF CreateFolder, Inv
  <1>2. CASE folders' = folders
    BY <1>0, <1>1, <1>2, Unseen DEF store
  <1>3. ASSUME folders' = Append(folders, e), d \in FolderIds,
               ~FolderClash(NoId, sess[c].user, d, req[c].name)
        PROVE  Rights!Write(c)
    <2>1. FolderSeen(e) = Rights!Entry(SeenSession[c].user, Rights!Here(c), req[c].name)
      BY <1>1 DEF FolderSeen, NewFolder, Rights!Entry, Rights!Here
    <2>2. /\ Rights!Puts(SeenFolders, SeenFolders', n, FolderSeen(e))
          /\ n \in DOMAIN SeenFolders' \ DOMAIN SeenFolders
      BY <1>3, FolderPut
    <2>3. ~Rights!Taken(SeenFolders, n, FolderSeen(e))
      <3>1. NoId \notin FolderIds
        BY DEF Inv, Tables, FolderIds, NoId
      <3>2. /\ FolderSeen(e).owner = sess[c].user /\ FolderSeen(e).dir = d
            /\ FolderSeen(e).name = req[c].name
        BY DEF FolderSeen, NewFolder
      <3> QED BY <1>3, <3>1, <3>2, FreeName
    <2>4. req[c].name \in Names
      BY <1>0 DEF Inv, ConnOK, ControlOK
    <2>5. Rights!Makes(c, SeenFolders, SeenFolders')
      BY <2>1, <2>2, <2>3, <2>4 DEF Rights!Makes
    <2> QED BY <1>0, <1>1, <1>3, <2>5, Writes DEF WriteAt, Rights!Edits
  <1> QED BY <1>2, <1>3 DEF CreateFolder

LEMMA FolderWrittenSeen ==
    ASSUME NEW c \in Conns, Inv, FolderSoftDelete(c) \/ FolderRename(c)
    PROVE  Rights!Write(c) \/ UNCHANGED Rights!vars
  <1> DEFINE f == req[c].id
  <1>0. /\ UNCHANGED <<users, files, folderPerms, filePerms, blobs, sess>>
        /\ req[c].pc \in {"folder_soft_delete", "folder_rename"} /\ LocalStep(c)
    BY FolderWrittenStep DEF FolderSoftDelete, FolderRename, At
  <1>1. req'[c].pc = "reply" /\ SeenSession[c] = sess[c]
    BY <1>0, NextPc, SessionSeen DEF FolderSoftDelete, FolderRename, Inv
  <1>2. CASE folders' = folders
    BY <1>0, <1>1, <1>2, Unseen DEF store
  <1>3. /\ f \in FolderIds /\ folders[f].parent = sess[c].current
        /\ sess[c].current \in FolderIds /\ folders[f] \in FolderRow
    BY <1>0 DEF Inv, ConnOK, StandsOK, Tables, FolderIds
  <1>4. SeenFolders[f] = FolderSeen(folders[f]) /\ f \in DOMAIN SeenFolders
    BY <1>3, SeenAs
  <1>5. SeenFolders[f].dir = Rights!Here(c) /\ SeenFolders[f].deleted = folders[f].deleted
    BY <1>1, <1>3, <1>4 DEF FolderSeen, Rights!Here
  <1>6. ASSUME Live(folders, f), folders' = [folders EXCEPT ![f].deleted = TRUE]
        PROVE  Rights!Write(c)
    <2> DEFINE e == [folders[f] EXCEPT !.deleted = TRUE]
    <2>1. FolderSeen(e) = [SeenFolders[f] EXCEPT !.deleted = TRUE]
      BY <1>3, <1>4, SeenMarked
    <2>2. Rights!Puts(SeenFolders, SeenFolders', f, FolderSeen(e))
      BY <1>3, <1>6, FolderPut
    <2> HIDE DEF e
    <2>3. Rights!Removes(c, SeenFolders, SeenFolders')
      BY <1>4, <1>5, <1>6, <2>1, <2>2 DEF Rights!Removes, Live
    <2> QED BY <1>0, <1>1, <1>3, <2>3, Writes DEF WriteAt, RenameAt, Rights!Edits
  <1>7. ASSUME Live(folders, f), folders' = [folders EXCEPT ![f].name = req[c].arg],
               ~FolderClash(f, folders[f].owner, folders[f].parent, req[c].arg),
               req[c].pc = "folder_rename"
        PROVE  Rights!Write(c)
    <2> DEFINE e == [folders[f] EXCEPT !.name = req[c].arg]
    <2>1. FolderSeen(e) = [SeenFolders[f] EXCEPT !.name = req[c].arg]
      BY <1>3, <1>4 DEF FolderSeen, FolderRow
    <2>2. Rights!Puts(SeenFolders, SeenFolders', f, FolderSeen(e))
      BY <1>3, <1>7, FolderPut
    <2>3. /\ FolderSeen(e).owner = folders[f].owner /\ FolderSeen(e).dir = folders[f].parent
          /\ FolderSeen(e).name = req[c].arg
      BY <1>3 DEF FolderSeen, FolderRow
    <2> HIDE DEF e
    <2>4. ~Rights!Taken(SeenFolders, f, FolderSeen(e))
      BY <1>7, <2>3, FreeName
    <2>5. req[c].arg \in Names
      BY <1>7 DEF Inv, ConnOK, ControlOK, Serving, RenameAt
    <2>6. Rights!Renames(c, SeenFolders, SeenFolders')
      BY <1>4, <1>5, <1>7, <2>1, <2>2, <2>4, <2>5 DEF Rights!Renames, Live
    <2> QED BY <1>0, <1>1, <1>3, <2>6, Writes DEF WriteAt, RenameAt, Rights!Edits
  <1> QED BY <1>2, <1>6, <1>7 DEF FolderSoftDelete, FolderRename, At

LEMMA FileWrittenSeen ==
    ASSUME NEW c \in Conns, Inv, FileSoftDelete(c) \/ FileRename(c)
    PROVE  Rights!Write(c) \/ UNCHANGED Rights!vars
  <1> DEFINE x == req[c].id
  <1>0. /\ UNCHANGED <<users, folders, folderPerms, filePerms, blobs, sess>>
        /\ req[c].pc \in {"file_soft_delete", "file_rename"} /\ LocalStep(c)
    BY FileWrittenStep DEF FileSoftDelete, FileRename, At
  <1>1. req'[c].pc = "reply" /\ SeenSession[c] = sess[c]
    BY <1>0, NextPc, SessionSeen DEF FileSoftDelete, FileRename, Inv
  <1>2. CASE files' = files
    BY <1>0, <1>1, <1>2, Unseen DEF store
  <1>3. /\ x \in FileIds /\ files[x].folder = sess[c].current
        /\ sess[c].current \in FolderIds /\ files[x] \in FileRow
    BY <1>0 DEF Inv, TreeOK, ConnOK, StandsOK, Tables, FileIds
  <1>4. SeenFiles[x] = FileSeen(files[x]) /\ x \in DOMAIN SeenFiles
    BY <1>3, SeenAs
  <1>5. SeenFiles[x].dir = Rights!Here(c) /\ SeenFiles[x].deleted = files[x].deleted
    BY <1>1, <1>3, <1>4 DEF FileSeen, Rights!Here
  <1>6. ASSUME Live(files, x), files' = [files EXCEPT ![x].deleted = TRUE]
        PROVE  Rights!Write(c)
    <2> DEFINE e == [files[x] EXCEPT !.deleted = TRUE]
    <2>1. FileSeen(e) = [SeenFiles[x] EXCEPT !.deleted = TRUE]
      BY <1>3, <1>4, SeenMarked
    <2>2. Rights!Puts(SeenFiles, SeenFiles', x, FileSeen(e))
      BY <1>3, <1>6, FilePut
    <2> HIDE DEF e
    <2>3. Rights!Removes(c, SeenFiles, SeenFiles')
      BY <1>4, <1>5, <1>6, <2>1, <2>2 DEF Rights!Removes, Live
    <2> QED BY <1>0, <1>1, <1>3, <2>3, Writes DEF WriteAt, RenameAt, Rights!Edits
  <1>7. ASSUME Live(files, x), files' = [files EXCEPT ![x].name = req[c].arg],
               ~FileClash(x, files[x].owner, files[x].folder, req[c].arg),
               req[c].pc = "file_rename"
        PROVE  Rights!Write(c)
    <2> DEFINE e == [files[x] EXCEPT !.name = req[c].arg]
    <2>1. FileSeen(e) = [SeenFiles[x] EXCEPT !.name = req[c].arg]
      BY <1>3, <1>4 DEF FileSeen, FileRow
    <2>2. Rights!Puts(SeenFiles, SeenFiles', x, FileSeen(e))
      BY <1>3, <1>7, FilePut
    <2>3. /\ FileSeen(e).owner = files[x].owner /\ FileSeen(e).dir = files[x].folder
          /\ FileSeen(e).name = req[c].arg
      BY <1>3 DEF FileSeen, FileRow
    <2> HIDE DEF e
    <2>4. ~Rights!Taken(SeenFiles, x, FileSeen(e))
      BY <1>7, <2>3, FreeName
    <2>5. req[c].arg \in Names
      BY <1>7 DEF Inv, ConnOK, ControlOK, Serving, RenameAt
    <2>6. Rights!Renames(c, SeenFiles, SeenFiles')
      BY <1>4, <1>5, <1>7, <2>1, <2>2, <2>4, <2>5 DEF Rights!Renames, Live
    <2> QED BY <1>0, <1>1, <1>3, <2>6, Writes DEF WriteAt, RenameAt, Rights!Edits
  <1> QED BY <1>2, <1>6, <1>7 DEF FileSoftDelete, FileRename, At

LEMMA FileInsertSeen ==
    ASSUME NEW c \in Conns, Inv, FileInsert(c)
    PROVE  Rights!Write(c) \/ UNCHANGED Rights!vars
  <1> DEFINE d == sess[c].current
             e == [owner |-> sess[c].user, folder |-> d, name |-> req[c].name,
                   blob |-> req[c].id, deleted |-> FALSE]
             n == Len(files) + 1
  <1>0. /\ UNCHANGED <<users, folders, folderPerms, filePerms, sess>>
        /\ req[c].pc = "file_insert" /\ LocalStep(c)
    BY FileInsertStep DEF FileInsert, At
  <1>1. req'[c].pc = "reply" /\ SeenSession[c] = sess[c]
    BY <1>0, NextPc, SessionSeen DEF FileInsert, Inserts, Inv
  <1>2. CASE files' = files
    BY <1>0, <1>1, <1>2, SessionStays, SameSeen DEF Rights!vars, Rights!tables
  <1>3. ASSUME files' = Append(files, e), d \in FolderIds,
               ~FileClash(NoId, sess[c].user, d, req[c].name)
        PROVE  Rights!Write(c)
    <2>1. FileSeen(e) = Rights!Entry(SeenSession[c].user, Rights!Here(c), req[c].name)
      BY <1>1 DEF FileSeen, Rights!Entry, Rights!Here
    <2>2. /\ Rights!Puts(SeenFiles, SeenFiles', n, FileSeen(e))
          /\ n \in DOMAIN SeenFiles' \ DOMAIN SeenFiles
      BY <1>3, FilePut
    <2>3. ~Rights!Taken(SeenFiles, n, FileSeen(e))
      <3>1. NoId \notin FileIds
        BY DEF Inv, Tables, FileIds, NoId
      <3>2. /\ FileSeen(e).owner = sess[c].user /\ FileSeen(e).dir = d
            /\ FileSeen(e).name = req[c].name
        BY DEF FileSeen
      <3> QED BY <1>3, <3>1, <3>2, FreeName
    <2>4. req[c].name \in Names
      BY <1>0 DEF Inv, ConnOK, ControlOK
    <2>5. Rights!Makes(c, SeenFiles, SeenFiles')
      BY <2>1, <2>2, <2>3, <2>4 DEF Rights!Makes
    <2> QED BY <1>0, <1>1, <1>3, <2>5, Writes DEF WriteAt, Rights!Edits
  <1> QED BY <1>2, <1>3 DEF FileInsert, Inserts, InsertFails

LEMMA CreateRootSeen ==
    ASSUME NEW c \in Conns, Inv, CreateRoot(c)
    PROVE  Rights!Register \/ UNCHANGED Rights!vars
  <1>0. /\ UNCHANGED <<users, files, folderPerms, filePerms, blobs, sess>>
        /\ req[c].pc = "create_root" /\ LocalStep(c)
    BY CreateRootStep DEF CreateRoot, At
  <1>1. req'[c].pc = "reply"
    BY NextPc DEF CreateRoot, Inv
  <1>2. UNCHANGED SeenSession
    BY <1>0, <1>1, SessionStays
  <1>3. CASE folders' = folders
    BY <1>0, <1>1, <1>3, Unseen DEF store
  <1>4. ASSUME NEW u, RootsOf(u) = {},
               folders' = Append(folders, [owner |-> u, parent |-> NoId, name |-> "/",
                                           deleted |-> FALSE])
        PROVE  Rights!Register
    <2> DEFINE e == [owner |-> u, parent |-> NoId, name |-> "/", deleted |-> FALSE]
               n == Len(folders) + 1
    <2>1. FolderSeen(e) = Rights!Entry(u, NoId, "/") /\ FolderSeen(e).owner = u
      BY DEF FolderSeen, Rights!Entry
    <2>2. /\ Rights!Puts(SeenFolders, SeenFolders', n, FolderSeen(e))
          /\ n \in DOMAIN SeenFolders' \ DOMAIN SeenFolders
      BY <1>4, FolderPut
    <2> HIDE DEF e, n
    <2>3. SeenFolders'[n].owner = u
      BY <2>1, <2>2 DEF Rights!Puts
    <2>4. Rights!HomesOf(u) = {}
      BY <1>4, SeenAs DEF Rights!HomesOf, RootsOf, FolderSeen
    <2> QED BY <1>0, <1>2, <2>1, <2>2, <2>3, <2>4, SameSeen DEF Rights!Register
  <1> QED BY <1>3, <1>4 DEF CreateRoot

LEMMA PermitsSeen ==
    ASSUME NEW c \in Conns, Inv, GrantFolder(c) \/ RevokeFolder(c) \/ RevokeFile(c)
    PROVE  Rights!Grant(c) \/ Rights!Revoke(c) \/ UNCHANGED Rights!vars
  <1> DEFINE f == req[c].id
             u == req[c].uid
  <1>0. /\ UNCHANGED <<users, folders, files, blobs, sess>>
        /\ req[c].pc \in {"grant_folder", "revoke_folder", "revoke_file"} /\ LocalStep(c)
    BY GrantFolderStep, RevokeStep DEF GrantFolder, RevokeFolder, RevokeFile, At
  <1>1. req'[c].pc = "reply" /\ SeenSession[c] = sess[c]
    BY <1>0, NextPc, SessionSeen DEF GrantFolder, RevokeFolder, RevokeFile, Inv
  <1>2. UNCHANGED <<SeenSession, SeenFolders, SeenFiles>>
    BY <1>0, <1>1, SessionStays, SameSeen
  <1>3. Rights!MayGrant(c)
    <2>1. Serving(req[c], GrantCommands)
      BY <1>0 DEF Inv, ConnOK, ControlOK, Serving, GrantAt
    <2> QED BY <1>1, <2>1 DEF Inv, ConnOK, SessionOK, Serving, Rights!MayGrant, Rights!In
  <1>4. CASE UNCHANGED <<folderPerms, filePerms>>
    BY <1>2, <1>4 DEF Rights!vars, Rights!tables
  <1>5. CASE GrantFolder(c)
    <2> DEFINE p == [folder |-> f, user |-> u, role |-> req[c].role]
    <2>1. filePerms' = filePerms
      BY <1>5 DEF GrantFolder
    <2>2. ASSUME f \in FolderIds, ~HasFolderPerm(f, u), folderPerms' = folderPerms \cup {p}
          PROVE  Rights!Grant(c)
      <3>1. /\ p \in folderPerms' /\ p.folder \in DOMAIN SeenFolders
            /\ \A q \in folderPerms : q.folder # p.folder \/ q.user # p.user
        BY <2>2, SeenAs DEF HasFolderPerm
      <3> HIDE DEF p
      <3> QED BY <1>2, <1>3, <2>1, <2>2, <3>1 DEF Rights!Grant
    <2> QED BY <1>4, <1>5, <2>1, <2>2 DEF GrantFolder
  <1>6. CASE RevokeFolder(c)
    <2>1. filePerms' = filePerms /\ folderPerms' = {p \in folderPerms : ~(p.folder = f /\ p.user = u)}
      BY <1>6 DEF RevokeFolder
    <2>2. CASE HasFolderPerm(f, u)
      <3>1. PICK p \in folderPerms : p.folder = f /\ p.user = u
        BY <2>2 DEF HasFolderPerm
      <3>2. folderPerms' = {q \in folderPerms : q.folder # p.folder \/ q.user # p.user}
        BY <2>1, <3>1
      <3> QED BY <1>2, <1>3, <2>1, <3>2 DEF Rights!Revoke
    <2>3. CASE ~HasFolderPerm(f, u)
      BY <1>4, <2>1, <2>3 DEF HasFolderPerm
    <2> QED BY <2>2, <2>3
  <1>7. CASE RevokeFile(c)
    <2> DEFINE p == [file |-> f, user |-> u]
    <2>1. folderPerms' = folderPerms /\ filePerms' = filePerms \ {p}
      BY <1>7 DEF RevokeFile
    <2> HIDE DEF p
    <2>2. CASE p \in filePerms
      BY <1>2, <1>3, <2>1, <2>2 DEF Rights!Revoke
    <2>3. CASE p \notin filePerms
      BY <1>4, <2>1, <2>3
    <2> QED BY <2>2, <2>3
  <1> QED BY <1>5, <1>6, <1>7

-----------------------------------------------------------------------------
(* Sessions: what LOGIN, CD, OPEN_SHARED_FOLDER and the others do to them.  *)

\* the session becomes s, nothing else does
Turns(c, s) ==
    /\ LocalStep(c) /\ UNCHANGED store
    /\ sess' = [sess EXCEPT ![c] = s] /\ req'[c].pc # "find_root"

LEMMA TurnSeen ==
    ASSUME NEW c \in Conns, NEW s, Inv, Turns(c, s)
    PROVE  Rights!Becomes(c, s) /\ SeenSession'[c] = s
  <1>1. sess'[c] = s
    BY DEF Turns, Inv, Typed
  <1>2. SeenSession' = [SeenSession EXCEPT ![c] = s]
    BY <1>1, SessionSeen DEF Turns
  <1> QED BY <1>2, SameSeen DEF Turns, Rights!Becomes, SeenSession

\* CHECK of the password: the session is not seen before its root is found.
LEMMA CheckLoginSeen ==
    ASSUME NEW c \in Conns, Inv, CheckLogin(c) PROVE UNCHANGED Rights!vars
  <1>0. LocalStep(c) /\ UNCHANGED store /\ req[c].pc = "check_login"
    BY CheckLoginLocal DEF CheckLogin, At
  <1>1. CASE sess' = sess /\ Reply(c, 401)
    BY <1>0, <1>1, NextPc, Unseen DEF Inv
  <1>2. CASE Goto(c, "find_root")
    <2>1. sess[c] = FreshSession /\ req'[c].pc = "find_root"
      BY <1>0, <1>2, NextPc DEF Inv, ConnOK, SessionOK
    <2>2. SeenSession' = [SeenSession EXCEPT ![c] = SeenSession[c]]
      BY <1>0, <2>1, SessionSeen
    <2>3. UNCHANGED SeenSession
      BY <2>2 DEF SeenSession
    <2> QED BY <1>0, <2>3, SameSeen DEF Rights!vars
  <1> QED BY <1>1, <1>2 DEF CheckLogin

\* The user's root, or its absence, or the failure of the select.
LEMMA FindRootSeen ==
    ASSUME NEW c \in Conns, Inv,
           \/ FindRoot(c)
           \/ StatementFails(c) /\ req[c].pc = "find_root"
    PROVE  Rights!LogIn(c)
  <1> DEFINE u == sess[c].user
  <1>0. /\ LocalStep(c) /\ UNCHANGED store /\ req[c].pc = "find_root"
    BY FindRootLocal, StatementFailsLocal DEF FindRoot, StatementFails, At
  <1>1. u # NoId /\ sess[c] = [FreshSession EXCEPT !.user = u] /\ SeenSession[c] = FreshSession
    BY <1>0, SessionSeen DEF Inv, ConnOK, SessionOK
  <1>2. req'[c].pc = "reply"
    <2>1. Typed
      BY DEF Inv
    <2>2. Reply(c, 200) \/ Reply(c, 500)
      BY <1>0 DEF FindRoot, StatementFails, At
    <2> QED BY <2>1, <2>2, NextPc
  <1>3. ASSUME NEW f \in Rights!HomesOf(u) \cup {NoId},
               sess' = [sess EXCEPT ![c] = [FreshSession EXCEPT !.user = u, !.current = f]]
        PROVE  Rights!LogIn(c)
    <2> DEFINE s == [FreshSession EXCEPT !.user = u, !.current = f]
    <2>1. s.user = u /\ s.current = f /\ ~FreshSession.sharing /\ FreshSession.user = NoId
      BY DEF FreshSession
    <2>2. Turns(c, s)
      BY <1>0, <1>2, <1>3 DEF Turns
    <2>3. s = [FreshSession EXCEPT !.user = s.user, !.current = s.current]
      BY <2>1
    <2> HIDE DEF s
    <2>4. Rights!Becomes(c, s) /\ SeenSession'[c] = s
      BY <2>2, TurnSeen
    <2> QED BY <1>1, <2>1, <2>3, <2>4 DEF Rights!LogIn, Rights!In
  <1>4. ASSUME NEW f \in RootsOf(u), SetSession(c, [sess[c] EXCEPT !.current = f])
        PROVE  Rights!LogIn(c)
    <2>1. f \in Rights!HomesOf(u)
      BY SeenAs DEF RootsOf, Rights!HomesOf, FolderSeen
    <2>2. [sess[c] EXCEPT !.current = f] = [FreshSession EXCEPT !.user = u, !.current = f]
      BY <1>1 DEF FreshSession
    <2> QED BY <1>3, <1>4, <2>1, <2>2 DEF SetSession
  <1>5. ASSUME sess' = sess PROVE Rights!LogIn(c)
    <2>1. sess[c] = [FreshSession EXCEPT !.user = u, !.current = NoId]
      BY <1>1 DEF FreshSession
    <2>2. sess' = [sess EXCEPT ![c] = sess[c]]
      BY <1>5 DEF Inv, Typed
    <2> QED BY <1>3, <2>1, <2>2
  <1> QED BY <1>0, <1>4, <1>5 DEF FindRoot, StatementFails

LEMMA CdSeen ==
    ASSUME NEW c \in Conns, Inv, CdDown(c) \/ CdUp(c)
    PROVE  Rights!Down(c) \/ Rights!Up(c) \/ UNCHANGED Rights!vars
  <1>0. /\ LocalStep(c) /\ UNCHANGED store /\ sess[c].user # NoId
        /\ req[c].pc \in {"find_folder", "find_parent"} /\ SeenSession[c] = sess[c]
    <2>1. LocalStep(c)
      BY CdDownLocal, CdUpLocal
    <2>2. sess[c].user # NoId /\ req[c].pc \in {"find_folder", "find_parent"}
      BY DEF Inv, ConnOK, ControlOK, SessionOK, Serving, CdDown, CdUp, At, Cmd
    <2> QED BY <2>1, <2>2, SessionSeen DEF CdDown, CdUp
  <1>1. ASSUME NEW f, EnterFolder(c, f) PROVE Rights!Walk(c, f)
    <2>1. Turns(c, [sess[c] EXCEPT !.current = f])
      BY <1>0, <1>1, NextPc DEF Turns, EnterFolder, SetSession, Inv
    <2> QED BY <1>0, <2>1, TurnSeen DEF Rights!Walk, Rights!In
  <1>2. CASE CdDown(c)
    <2>1. ASSUME NEW f \in FoldersNamed(sess[c].current, req[c].name), EnterFolder(c, f)
          PROVE  Rights!Down(c)
      <3>1. f \in FolderIds /\ ~folders[f].deleted /\ folders[f].parent = sess[c].current
        BY DEF FoldersNamed, Live
      <3>2. /\ f \in DOMAIN SeenFolders /\ ~SeenFolders[f].deleted
            /\ SeenFolders[f].dir = Rights!Here(c)
        BY <1>0, <3>1, SeenAs DEF FolderSeen, Rights!Here
      <3> QED BY <1>1, <2>1, <3>2 DEF Rights!Down
    <2>2. ASSUME LookupFails(c, "NAME_NOT_FOUND"), sess' = sess
          PROVE  UNCHANGED Rights!vars
      <3>1. LookupCode[Cmd(c)]["NAME_NOT_FOUND"] # 0
        BY <1>2 DEF CdDown, LookupCode
      <3>2. req'[c].pc = "reply"
        BY <2>2, <3>1, NextPc DEF LookupFails, Inv
      <3> QED BY <1>0, <2>2, <3>2, Unseen
    <2> QED BY <1>2, <2>1, <2>2 DEF CdDown
  <1>3. CASE CdUp(c)
    <2> DEFINE f == sess[c].current
               p == folders[f].parent
    <2>1. f \in FolderIds /\ ~(sess[c].sharing /\ f = sess[c].root)
      BY <1>3 DEF Inv, ConnOK, SessionOK, StandsOK, CdUp, At, FolderIds
    <2>2. SeenFolders[f].dir = p /\ f \in DOMAIN SeenFolders
      BY <2>1, SeenAs DEF FolderSeen
    <2>3. CASE p # NoId
      <3>1. Rights!Walk(c, p)
        BY <1>1, <1>3, <2>3 DEF CdUp
      <3> QED BY <1>0, <2>1, <2>2, <2>3, <3>1 DEF Rights!Up, Rights!Here
    <2>4. CASE p = NoId
      <3>1. EnterFolder(c, f)
        BY <1>3, <2>4 DEF CdUp
      <3>2. [sess[c] EXCEPT !.current = f] = sess[c]
        BY DEF Inv, Typed, Session
      <3>3. sess' = sess /\ req'[c].pc = "reply"
        BY <3>1, <3>2, NextPc DEF EnterFolder, SetSession, Inv, Typed
      <3> QED BY <1>0, <3>3, Unseen
    <2> QED BY <2>3, <2>4
  <1> QED BY <1>2, <1>3

LEMMA OpenSharedSeen ==
    ASSUME NEW c \in Conns, Inv, OpenShared(c)
    PROVE  Rights!Open(c) \/ UNCHANGED Rights!vars
  <1> DEFINE f == req[c].id
  <1>0. /\ LocalStep(c) /\ UNCHANGED store /\ sess[c].user # NoId
        /\ req[c].pc = "access_info" /\ SeenSession[c] = sess[c] /\ req'[c].pc = "reply"
    <2>1. LocalStep(c) /\ req[c].pc = "access_info" /\ req'[c].pc = "reply"
      BY OpenSharedLocal, NextPc DEF OpenShared, At, Inv
    <2>2. sess[c].user # NoId
      BY <2>1 DEF Inv, ConnOK, SessionOK
    <2> QED BY <2>1, <2>2, SessionSeen DEF OpenShared
  <1>1. CASE sess' = sess
    BY <1>0, <1>1, Unseen
  <1>2. ASSUME NEW p \in folderPerms, p.folder = f, p.user = sess[c].user,
               SetSession(c, [sess[c] EXCEPT !.sharing = TRUE, !.old = sess[c].current,
                                             !.root = f, !.current = f, !.role = p.role])
        PROVE  Rights!Open(c)
    <2> DEFINE s == [sess[c] EXCEPT !.sharing = TRUE, !.old = sess[c].current,
                                    !.root = f, !.current = f, !.role = p.role]
    <2>1. Turns(c, s)
      BY <1>0, <1>2 DEF Turns, SetSession
    <2>2. s = [SeenSession[c] EXCEPT !.sharing = TRUE, !.old = Rights!Here(c),
                                     !.root = p.folder, !.current = p.folder, !.role = p.role]
      BY <1>0, <1>2 DEF Rights!Here
    <2> HIDE DEF s
    <2>3. Rights!Becomes(c, s)
      BY <2>1, TurnSeen
    <2> QED BY <1>0, <1>2, <2>2, <2>3 DEF Rights!Open, Rights!In
  <1> QED BY <1>1, <1>2 DEF OpenShared

LEMMA LeavesSeen ==
    ASSUME NEW c \in Conns, Inv, ExitShared(c) \/ Logout(c) \/ Disconnect(c)
    PROVE  Rights!Exit(c) \/ Rights!Leave(c) \/ UNCHANGED Rights!vars
  <1>0. /\ LocalStep(c) /\ UNCHANGED store /\ req[c].pc = "idle"
        /\ req'[c].pc \in {"idle", "reply"} /\ SeenSession[c] = sess[c]
    <2>1. LocalStep(c)
      BY ExitSharedLocal, LogoutLocal, DisconnectLocal
    <2>2. UNCHANGED store /\ req[c].pc = "idle"
      BY DEF ExitShared, Logout, Disconnect, At, store
    <2>3. \/ req' = req
          \/ \E cmd \in {"LOGOUT", "EXIT_SHARED"}, code \in Nat : Then(c, ReplyTo(cmd, code))
      BY DEF ExitShared, Logout, Disconnect
    <2>4. req'[c].pc \in {"idle", "reply"}
      BY <2>2, <2>3, ReplyToTyped DEF CommandNames, Then, Inv, Typed
    <2> QED BY <2>1, <2>2, <2>4, SessionSeen
  <1>1. CASE sess' = sess
    BY <1>0, <1>1, Unseen
  <1>2. CASE SetSession(c, FreshSession)
    <2>1. Turns(c, FreshSession)
      BY <1>0, <1>2 DEF Turns, SetSession
    <2> QED BY <2>1, TurnSeen DEF Rights!Leave
  <1>3. ASSUME sess[c].sharing,
               SetSession(c, [sess[c] EXCEPT !.sharing = FALSE, !.current = sess[c].old,
                                             !.root = NoId, !.old = NoId])
        PROVE  Rights!Exit(c)
    <2>1. Turns(c, [sess[c] EXCEPT !.sharing = FALSE, !.current = sess[c].old,
                                   !.root = NoId, !.old = NoId])
      BY <1>0, <1>3 DEF Turns, SetSession
    <2> QED BY <1>0, <1>3, <2>1, TurnSeen DEF Rights!Exit
  <1> QED BY <1>1, <1>2, <1>3 DEF ExitShared, Logout, Disconnect

-----------------------------------------------------------------------------
(* The other statements: nobody sees them.                                 *)

\* what the folders, the files and the permissions are seen to be is kept
SeenKept == UNCHANGED <<folders, files, folderPerms, filePerms>>

\* Only the password's check leads to the lookup of the root.
LEMMA NotYetRoot ==
    ASSUME NEW c \in Conns, Advance(c), req[c].pc # "check_login"
    PROVE  req'[c].pc # "find_root"
  <1>1. ASSUME NEW cmd \in DOMAIN AfterLookup PROVE AfterLookup[cmd] # "find_root"
    BY <1>1 DEF AfterLookup
  <1>2. ASSUME NEW cmd \in DOMAIN AfterFileLookup PROVE AfterFileLookup[cmd] # "find_root"
    BY <1>2 DEF AfterFileLookup
  <1> QED BY <1>1, <1>2 DEF Advance, Ending, GoesOn, Follows

LEMMA KeptUnseen ==
    ASSUME NEW c \in Conns, Inv, LocalStep(c), Advance(c), SeenKept, sess' = sess,
           req[c].pc \notin {"check_login", "find_root"}
    PROVE  UNCHANGED Rights!vars
  BY NotYetRoot, SessionStays, SameSeen DEF Rights!vars, SeenKept, Rights!tables

\* The statements that only read, and those of the users and the blobs.
LEMMA ReadsUnseen ==
    ASSUME NEW c \in Conns, Inv,
           \/ UserExists(c) \/ InsertUser(c) \/ CheckStatus(c) \/ ParentStatus(c)
           \/ ListStatus(c) \/ ListFiles(c) \/ ListFolders(c) \/ CheckAccessFolder(c)
           \/ FindFolder(c) \/ FindFile(c) \/ ExistDirname(c) \/ CheckEmpty(c)
           \/ RenameFindFile(c) \/ FileExists(c) \/ FindByName(c) \/ SendFile(c)
           \/ CheckAccessFile(c) \/ AccessAgain(c) \/ FindById(c) \/ FindUser(c)
           \/ GrantFile(c) \/ ListUsers(c) \/ SendReply(c)
           \/ UploadReceived(c) \/ UploadBroken(c)
    PROVE  UNCHANGED Rights!vars
  <1>1. Serve(c) \/ UploadReceived(c) \/ UploadBroken(c)
    BY DEF Serve, Accounting, Navigating, Editing, Transferring, Permitting
  <1>2. LocalStep(c) /\ Advance(c)
    BY <1>1, ServeStep, ServeAdvances
  <1>3. SeenKept /\ sess' = sess /\ req[c].pc \notin {"check_login", "find_root"}
    BY DEF SeenKept, store, tables, At, UserExists, InsertUser, CheckStatus, ParentStatus,
           ListStatus, ListFiles, ListFolders, CheckAccessFolder, FindFolder, FindFile,
           ExistDirname, CheckEmpty, RenameFindFile, FileExists, FindByName, SendFile,
           CheckAccessFile, AccessAgain, FindById, FindUser, GrantFile, ListUsers, SendReply,
           UploadReceived, UploadBroken
  <1> QED BY <1>2, <1>3, KeptUnseen

\* A statement that fails is seen by nobody, except LOGIN's last.
LEMMA FailureSeen ==
    ASSUME NEW c \in Conns, Inv, StatementFails(c)
    PROVE  Rights!LogIn(c) \/ UNCHANGED Rights!vars
  <1>1. CASE req[c].pc = "find_root"
    BY <1>1, FindRootSeen
  <1>2. CASE req[c].pc # "find_root"
    <2>1. LocalStep(c) /\ UNCHANGED store /\ sess' = sess
      BY StatementFailsLocal DEF StatementFails
    <2>2. req'[c].pc # "find_root"
      <3>1. CASE req[c].pc = "check_login"
        <4>1. Reply(c, 500) /\ Typed
          BY <3>1 DEF StatementFails, At, Inv
        <4> QED BY <4>1, NextPc
      <3>2. CASE req[c].pc # "check_login"
        BY <3>2, ServeAdvances, NotYetRoot DEF Serve
      <3> QED BY <3>1, <3>2
    <2> QED BY <1>2, <2>1, <2>2, Unseen
  <1> QED BY <1>1, <1>2

\* A request is received; LOGOUT and EXIT_SHARED are served at once.
LEMMA DispatchSeen ==
    ASSUME NEW c \in Conns, Inv, Dispatch(c)
    PROVE  Rights!Exit(c) \/ Rights!Leave(c) \/ UNCHANGED Rights!vars
  <1>1. CASE Logout(c) \/ ExitShared(c)
    BY <1>1, LeavesSeen
  <1>2. CASE ~(Logout(c) \/ ExitShared(c))
    <2>1. Begun(c) /\ req[c].pc = "idle"
      BY DispatchStep, DispatchIdle
    <2>2. sess' = sess
      BY <1>2 DEF Dispatch, BeginRegister, BeginLogin, BeginCdUp, BeginList, BeginCd,
         BeginMkdir, BeginRmdir, BeginDelete, BeginUpload, BeginDownload, BeginListShareFolder,
         BeginListShareFile, BeginRename, BeginUnshareFolder, BeginShareFile, BeginUnshareFile,
         BeginShareFolder, BeginOpen, BeginDownloadShared, BeginListSharedWithMe, Receive
    <2> QED BY <2>1, <2>2, Unseen DEF Begun, LateAt
  <1> QED BY <1>1, <1>2

LEMMA CrashSeen == ASSUME Inv, Crash PROVE Rights!EveryoneLeaves
  <1>1. NoReq.pc # "find_root"
    BY DEF NoReq
  <1>2. SeenSession' = [c \in Conns |-> FreshSession]
    BY <1>1 DEF Crash, SeenSession
  <1> QED BY <1>2, SameSeen DEF Crash, Rights!EveryoneLeaves

LEMMA StepSeen ==
    ASSUME NEW c \in Conns, Inv, Step(c)
    PROVE  Rights!Next \/ UNCHANGED Rights!vars
  <1>1. CASE Dispatch(c) \/ Disconnect(c)
    BY <1>1, DispatchSeen, LeavesSeen DEF Rights!Next
  <1>2. CASE CreateRoot(c)
    BY <1>2, CreateRootSeen DEF Rights!Next
  <1>3. CASE CheckLogin(c)
    BY <1>3, CheckLoginSeen
  <1>4. CASE FindRoot(c) \/ StatementFails(c)
    BY <1>4, FindRootSeen, FailureSeen DEF Rights!Next
  <1>5. CASE CdDown(c) \/ CdUp(c) \/ OpenShared(c)
    BY <1>5, CdSeen, OpenSharedSeen DEF Rights!Next
  <1>6. CASE CreateFolder(c) \/ FolderSoftDelete(c) \/ FolderRename(c)
    BY <1>6, CreateFolderSeen, FolderWrittenSeen DEF Rights!Next
  <1>7. CASE FileSoftDelete(c) \/ FileRename(c) \/ FileInsert(c)
    BY <1>7, FileWrittenSeen, FileInsertSeen DEF Rights!Next
  <1>8. CASE GrantFolder(c) \/ RevokeFolder(c) \/ RevokeFile(c)
    BY <1>8, PermitsSeen DEF Rights!Next
  <1> QED BY <1>1, <1>2, <1>3, <1>4, <1>5, <1>6, <1>7, <1>8, ReadsUnseen
          DEF Step, Serve, Accounting, Navigating, Editing, Transferring, Permitting

LEMMA InitSeen == Init => Rights!Init
  BY DEF Init, Rights!Init, SeenSession, NoReq

\* Every step of the server is one step of Access, or none is seen.
LEMMA NextSeen == Inv /\ [Next]_vars => [Rights!Next]_(Rights!vars)
  <1> SUFFICES ASSUME Inv, [Next]_vars PROVE Rights!Next \/ UNCHANGED Rights!vars
    OBVIOUS
  <1>1. CASE Crash
    BY <1>1, CrashSeen DEF Rights!Next
  <1>2. ASSUME NEW c \in Conns, Step(c) PROVE Rights!Next \/ UNCHANGED Rights!vars
    BY <1>2, StepSeen
  <1>3. CASE UNCHANGED vars
    BY <1>3, SameSeen DEF vars, SeenSession, Rights!vars
  <1> QED BY <1>1, <1>2, <1>3 DEF Next

\* The server implements Access: whatever the clients interleave, a handler's
\* last statement does what its session may do at that instant, to an entry
\* of the folder it stands in and under a free name, or to one permission;
\* nothing a handler found out or allowed earlier is stale when it is used.
THEOREM RightsRefined == Spec => RightsKept
  <1>1. Spec => Rights!Init /\ [][Rights!Next]_(Rights!vars)
    BY InitSeen, NextSeen, Invariant, PTL DEF Spec
  <1> QED BY <1>1 DEF RightsKept, Rights!Spec

-----------------------------------------------------------------------------
(* What Access keeps, the server keeps.                                    *)

LEMMA PutApart ==
    ASSUME NEW t, NEW u, NEW i, NEW e, Rights!Apart(t), Rights!Puts(t, u, i, e),
           ~Rights!Taken(t, i, e) \/ e.deleted
    PROVE  Rights!Apart(u)
  BY DEF Rights!Apart, Rights!Puts, Rights!Taken

LEMMA EditsApart ==
    ASSUME NEW c, NEW t, NEW u, Rights!Apart(t), Rights!Edits(c, t, u),
           \A i \in DOMAIN t : "deleted" \in DOMAIN t[i]
    PROVE  Rights!Apart(u)
  <1>1. ASSUME NEW i \in DOMAIN t PROVE [t[i] EXCEPT !.deleted = TRUE].deleted
    OBVIOUS
  <1> QED BY <1>1, PutApart DEF Rights!Edits, Rights!Makes, Rights!Renames, Rights!Removes

LEMMA SettledStep ==
    ASSUME Rights!Settled, [Rights!Next]_(Rights!vars) PROVE Rights!Settled'
  <1> DEFINE OneRole == \A p, q \in folderPerms : p.folder = q.folder /\ p.user = q.user => p = q
  <1>0. /\ \A i \in DOMAIN SeenFolders : "deleted" \in DOMAIN SeenFolders[i]
        /\ \A i \in DOMAIN SeenFiles : "deleted" \in DOMAIN SeenFiles[i]
    BY SeenAs DEF FolderSeen, FileSeen
  <1>1. CASE UNCHANGED Rights!tables
    BY <1>1 DEF Rights!Settled, Rights!Apart, Rights!tables
  <1>2. ASSUME NEW c \in Conns, Rights!Write(c) PROVE Rights!Settled'
    <2>1. Rights!Apart(SeenFolders') /\ Rights!Apart(SeenFiles')
      BY <1>0, <1>2, EditsApart DEF Rights!Settled, Rights!Write
    <2> QED BY <1>2, <2>1 DEF Rights!Settled, Rights!Write, Rights!Apart
  <1>3. CASE Rights!Register
    <2>1. PICK i \in DOMAIN SeenFolders' \ DOMAIN SeenFolders :
             /\ Rights!HomesOf(SeenFolders'[i].owner) = {}
             /\ Rights!Puts(SeenFolders, SeenFolders', i,
                            Rights!Entry(SeenFolders'[i].owner, NoId, "/"))
      BY <1>3 DEF Rights!Register
    <2>2. Rights!Apart(SeenFolders')
      BY <2>1, PutApart DEF Rights!Settled, Rights!Taken, Rights!HomesOf, Rights!Entry
    <2> QED BY <1>3, <2>2 DEF Rights!Settled, Rights!Register, Rights!Apart
  <1>4. ASSUME NEW c \in Conns, Rights!Grant(c) \/ Rights!Revoke(c) PROVE Rights!Settled'
    BY <1>4 DEF Rights!Settled, Rights!Grant, Rights!Revoke, Rights!Apart
  <1>5. ASSUME NEW c \in Conns,
               \/ Rights!LogIn(c) \/ Rights!Down(c) \/ Rights!Up(c)
               \/ Rights!Open(c) \/ Rights!Exit(c) \/ Rights!Leave(c)
        PROVE  UNCHANGED Rights!tables
    BY <1>5 DEF Rights!LogIn, Rights!Down, Rights!Up, Rights!Open, Rights!Exit, Rights!Leave,
               Rights!Walk, Rights!Becomes
  <1> QED BY <1>1, <1>2, <1>3, <1>4, <1>5 DEF Rights!Next, Rights!vars, Rights!EveryoneLeaves

LEMMA SettledFirst == Init => Rights!Settled
  BY IndexAssumption, SeenAs
  DEF Init, StoreInit, Rights!Settled, Rights!Apart, FolderSeen, FileSeen, FolderIds, FileIds

\* However MKDIR, RENAME and UPLOAD race after their checks of a name, an
\* owner has one live folder and one live file of a name in a directory, and
\* a user one role in a folder: it holds of Access, so of what implements it.
THEOREM NamesSettled == Spec => []Rights!Settled
  <1>1. Spec => [][Rights!Next]_(Rights!vars)
    BY NextSeen, Invariant, PTL DEF Spec
  <1>2. Rights!Settled /\ [Rights!Next]_(Rights!vars) => Rights!Settled'
    BY SettledStep
  <1>3. Init => Rights!Settled
    BY SettledFirst
  <1> QED BY <1>1, <1>2, <1>3, PTL DEF Spec
=============================================================================
