# Verification of the secure socket file server

The program is a multi-user file server written in C: a server that keeps
users, folders, files and permissions in PostgreSQL and file contents under
`./storage`, and a command-line client that talks to it over TLS, one text
line per request.  This directory holds TLA+ specifications of both programs and
of what goes between them, TLC configurations that check them on small
instances, and TLAPS proofs.

## The system and its parts

| Part | Code | State | Operations |
|---|---|---|---|
| Acceptor, client threads | `server/src/app/server.c` | the listening socket, `g_ssl_table[MAX_CLIENT]` indexed by descriptor | accept, TLS handshake, publish the SSL object, create a thread; end a thread |
| Request loop | `server/src/app/client.c` | `session_t` of the connection | receive a line, dispatch on its first word, send the reply |
| Connection pool | `server/src/database/db_pool.c` | `g_pool`: slots with a `used` flag, one mutex | `db_acquire`, `db_release` |
| Database access | `server/src/database/db_*.c`, `schema.sql` | users, folders, files, folder_permissions, file_permissions | one SQL statement per function, sometimes two |
| Handlers | `server/src/controller/*.c` | none of their own | one per request |
| Storage | `server/src/services/storage.c`, `file_service.c` | `./storage/<storage_key>` | save, send, remove |
| Framing | `server/src/services/transport.c`, `client/src/service/transport.c` | none: nothing on the wire says where a message ends | `net_send`, `net_recv` over SSL if the table has an entry, plain otherwise; `net_send_all`, `net_recv_all`; the client's `recv_response`, `recv_line`, `recv_multiline_reponse` |
| Client | `client/src/command/*.c`, `app/app.c` | `is_logged_in` and the `cwd` its prompt shows | one function per command: a request, and the reads of what it expects to be the answer |

A client thread calls handlers one at a time; a handler calls `db_*`
functions one at a time; each of them takes a pool connection, runs its
statement and gives the connection back.  Threads share the database, the
storage, the pool and the SSL table, and nothing else: a session belongs to
one thread.  No handler opens a transaction, so a request is a sequence of
statements and any other thread's may fall between two of them.

What is hard here, and what would be correct:

* **A handler is several statements.**  What it looked up (an id, a parent,
  emptiness, the absence of a name) may have changed when it uses it.
  Correct: entries are written only where the session may write; a root is
  never removed; a row of files always has its blob.
* **Sharing mode.**  A session may stand in another user's folder, with a role
  copied at the opening.  Correct: it never leaves the subtree it opened, a
  viewer writes nothing, and nobody grants from inside a share.
* **Two stores.**  A blob is on disk before its row is in the database.
  Correct: no row without a whole blob, no whole blob left without a row
  unless the process died.
* **Accounts in two statements.**  A user is inserted before its root.
* **The pool.**  Correct: exclusive connections, NULL only when all are taken,
  the mutex always given back.
* **The SSL table.**  No lock, and descriptors are reused while old threads
  clean up.  Correct: no thread gets another's SSL object, none that is freed.
* **Failures.**  Any statement may fail, a client may stop in the middle of an
  upload, and the process may die between any two statements.
* **An unframed conversation.**  A request is whatever one `recv` returns, a reply
  what the command's function reads, a file as many bytes as a line announced.
  One side that stops early, or late, or never sends its last line, puts the two
  out of step for good.  Correct: neither ever takes a line for a piece of a file
  or a piece for a line, a command reads the whole of its answer and comes back,
  an upload is entered when all of it has come.
* **State kept twice.**  The session holds a folder id and a path that names it,
  moved by different code; the client holds copies of `logged_in` and of the path.
  Correct: the client's copies agree with the session, and the path is a way to the folder, as far as
  it can be: other sessions rename folders, and nobody tells the path.

## Modules

`Store` – the tables (sequences, an id is an index, a deletion marks), the
blobs, the selects and the unique indexes.  `InSubtree(f, r)`, "f is r or below
it", is stated without recursion (f is in every set of folders that holds r and
is closed under subfolders) so that it can be used in proofs.

`Sessions` – `session_t` (`sess[c]`), the request being served (`req[c]`: `pc` is
the next statement, `id` and `uid` what the earlier ones found), and what the
handlers share: the login and permission checks at their head, the two-statement
lookup `db_folder_find_folder_by_name`, failing statements, the reply.

`Accounts` (REGISTER, LOGIN, LOGOUT), `Navigation` (CD, LIST, OPEN_SHARED_FOLDER,
EXIT_SHARED), `Entries` (MKDIR, RMDIR, RENAME, DELETE), `Transfer` (UPLOAD,
DOWNLOAD, DOWNLOAD_SHARED), `Sharing` (the grants, revocations and listings of
shares) – one action per statement of each handler.  An action takes the local
code that follows the statement up to the next one with it; the first action of
a request takes the checks of the session, which no other thread can change.

`Server` – composes them: `Dispatch` is the request loop, `Serve` what the thread
does by itself, `Crash` the death and restart of the process.  All properties of
the composed server are stated here.

`Access` – the abstract specification of the server: what it promises to those who keep
and share folders in it.  A request changes the tables at one instant, by one row, and the right to
do so is had at that instant: `Write` (an entry of the folder the session stands in is made, renamed
or removed, by a session that is not a viewer's, under a name no live entry of its owner has there),
`Grant` and `Revoke` (outside sharing mode, one role of one user in one folder), `Register`, and
the moves of a session, one folder at a time.  `Rights` in `Server` is the refinement mapping: files and
folders become functions from ids to entries, and a LOGIN takes effect when the root has been looked
up, its last statement.  `Settled`, of `Access`, says that names and roles are unique.  What a user may do in a
shared folder is what the handlers let him: `Renames` has the test of `rename.c:34`, which refuses viewers,
and not the one of the protocol's description, which asks for the owner (see Disagreements).

`Paths` – the server with `cwd` and `old_cwd`, the texts each session keeps beside its folder ids.  PWD
alone reads them, so they follow `Server`'s steps and hinder none; they are kept apart to spare the other
runs their states.  `called`, an auxiliary variable, keeps the names each folder has had: a RENAME changes
the row, and no session's text.

`Pool` – what the pool promises, each call in one instant.  `DbPool` – the pool of
`db_pool.c` step by step, with its refinement of `Pool`.

`ConnTable` – the acceptor and the client threads over descriptors and
`g_ssl_table`.

`Wire` – one connection as its two ends see it: a direction is a sequence of
requests, or of reply lines and pieces of files; what a read takes, what is lost
when a sender dies, how `SSL_read` ends (0 after a close_notify, -1 without).

`Shell` – the client program.  `client.pc` names the call it is blocked in
(`recv_response`, `recv_line`, the loops of `put` and `get`, ...), and one action is
one such read or send of a command's function, with what the function does next.

`Thread` – the server thread of that connection: each handler of one reply is one
action (what it finds in the database is a choice), the listings go line by line,
UPLOAD and DOWNLOAD chunk by chunk, with `atoi`'s 32 bits (`IntMod`) and the `size_t`
the result becomes (`SizeMod`).  `at`, `root` and `old` are `current_folder_id`,
`share_root_folder_id` and `old_folder_id`, each the way of ids down from a user's root; `cwd` and `oldCwd` are the
texts, and the name by which a folder is found, there and then, is any: what a name has to do with the
folder it was found for is `Paths`' matter.

`Dialogue` – composes the three: the two programs run, the user types, either side
may die.  `Call` is the abstract specification of it, what a connection promises to
the one who types: a command is carried out once, between its request and its
prompt, and changes the session at that instant only, and only if it is one of the five
commands meant to.  `Calls` in `Dialogue` is the refinement mapping.

`MCServer`, `MCPaths`, `MCDbPool`, `MCConnTable` – instances for TLC (`Dialogue` needs none).
`DbPoolProofs`, `ConnTableProofs`, `ServerProofs` (with the lemmas about the tables and about single
steps), `ShareProofs`, `RecordProofs`, `PathProofs`, `DialogueProofs`, `AdvanceProofs` – the proofs.

The server model does not go through `DbPool`: what it needs from the pool is
that a statement runs alone on its connection or fails (`StatementFails`), which
is what `DbPool` establishes.  In the same way it takes from `ConnTable` that the
requests a thread reads are its own client's, and from `Dialogue` that what the thread reads
as a request is one, which `Framed` says.  `Dialogue` takes from `Server` that a handler
succeeds or fails, and leaves which of the two, and the entries, open.

### What an action stands for, and what is left out

* Ids start at 1; 0 stands for the 0 and the -1 the code uses for "none" and for
  a NULL parent.  A root is a row with parent 0 and name `/`.
* A select that may return several rows picks any of them, as PostgreSQL may.
* `folder_id` left uninitialised (SHARE_FOLDER and two others, after a lookup
  result no branch tests) is any id or none.  The 500 of DOWNLOAD, written into
  an uninitialised buffer bounded by its own `strlen`, is sent or comes out empty.
* Malformed requests (400, WEAK_PASSWORD, INVALID_ROLE) change nothing and are
  left out; a password is right; what a listing sends is left out.
* File contents are four states: being written, whole, cut short by an unchecked
  `fwrite`, removed.  Storage keys are assumed distinct.
* `MaxUsers`, `MaxFolders` and `MaxFiles` bound the tables: a request that adds a
  row is not accepted once its table is that long.  The proofs hold for any
  values of them.
* On the wire a line is read whole: `recv_line` reads byte by byte up to its end, and the
  other reads take one TLS record, which is what one `SSL_write` sent.  (LIST's lines are
  read by `recv_line`; no answer to `recv_response` is longer than its buffer.)
* Pieces of one file that follow each other are one piece of their total length, and a
  read takes any part of it: chunk boundaries carry no meaning in this code, and it
  keeps the states few without losing a way of dividing the stream.
* A path is the sequence of its components; `"them:"` stands for the `owner:` that starts the
  path of a share.  Its length in characters, hence the truncation at 255 and the client's
  `cwd[64]`, is left out: `MaxDepth` stands for paths that fit.
* The checks of arguments that the client makes before it sends anything are left out, and so is the
  request of BUFSIZ bytes, which it cannot send.
* `cause` is a history variable: the first thing that put the two programs out of step. Each
  value is a place where the code really does so, listed below; the properties of the
  conversation are about what happens until then, and a client is not followed further
  after it.

## Runs

| Run | What it explores | What it shows |
|---|---|---|
| `shares` | a guest with a viewer grant on a folder, an editor grant on its subfolder and one on another folder opens them, moves, makes and renames, the owner's folders too; the owner removes folders meanwhile; the process dies | it never leaves what it opened, writes nowhere else, never as a viewer; roots stay; `Access` implemented (`RightsKept`) |
| `files` | in one shared folder the owner moves, deletes and lists while the guest uploads, renames and downloads; statements fail, uploads break off | every row keeps a whole blob of its own, every download finds it, no whole blob is left without a row; `RightsKept`; every request is answered |
| `sharing` | an owner grants folders, unshares and deletes a file, registers a third user; a guest registers the same name, opens, tries to revoke, downloads the shared file | permissions are not changed from inside a share and nobody gets two roles in a folder (`RightsKept`); shared downloads are whole; nobody is left without a root; each statement brings its request nearer to the answer (`RequestsAdvance`) |
| `paths` | the owner walks and renames folders, those the guest stands in or came through too; the guest opens a share and a folder inside it, walks and leaves; the process dies | `PathTold`: PWD's text leads from the root or from the share, by a name for each folder on the way that the folder has or has had, to the folder of the id |
| `dialogue` | one client and its thread; every command; files of three sizes; statements, disks and the client's files fail; either side dies | see below |
| `pool` | three threads, two slots | exclusive connections, `Pool` implemented; a release finds its slot (`ReleaseFindsSlot`); the mutex is given back, nearer with each step (`MutexReleased`, `MutexAdvances`) |
| `connections` | four connections, three descriptors, failed handshakes and threads | no cross-talk, no dangling entry; a connection given up is closed (`GivenUpClosed`); a thread without its SSL object has a descriptor used before (`PlainOnlyAfterReuse`); descriptors are given back |
| `plain_channel`, `exit_shared`, `rmdir_race`, `file_acl`, `broken_upload` | see Disagreements | each violates the one property it checks |

`dialogue` shows, as long as `cause` is `"none"`: `Framed` (what is at the head of a stream is what its
reader waits for), `AnswersRead` (nothing of an answer is left when the prompt is back), `UploadWhole`
(when the loop of an upload ends, all that was announced is saved and all that was sent is read),
`PromptTold` (what the prompt shows is the session's, with the two exceptions the property states),
`NeverBothWait` (neither side has a timeout: one of them always has something to do), `CommandsAdvance` (each
step of either, in any order, brings the command nearer to its end), `Returns` (a command comes back or the
program ends); and, whatever the cause, `CalledOnce` (`Call` is implemented).  The causes themselves are not
found by these properties: they are where the properties stop.

**Bounds.**  Two clients are enough for the interleavings that matter: every
hazard of the handlers is between two statements of one thread and one or two of
another.  The tree has the depth that tells a share root, a folder inside it and
one above it apart, and one folder more may be made.  Two names are needed where
renaming or a second directory matters, one elsewhere.  Two blobs let two uploads
race.  `shares` has six folders: both roots, a folder with a subfolder, an empty one beside them for the
owner to remove while the guest stands in it, and one that is made.  `paths` has the first four of them, and
two names, so that a folder can be renamed and renamed back, or take the name another had; nobody adds to
them, since what is made moves no folder.  In the pool, one slot fewer than threads gives both contention and
exhaustion; a third descriptor lets one be reused while the others are open.
Ids are symmetric but the databases are not, so no symmetry is declared.

On the wire a unit stands for half of the server's buffer: `ServerBuf` is 2, `ClientBuf` 4 (8192 is
twice 4096).  The sizes are the empty file, one (5) that takes several rounds of either loop with a
remainder in both, and one (7) that `atoi` makes negative (`IntMod` 12, `SizeMod` 16, so that the
difference of the two widths is seen).  Depth 2 tells a share root, a folder below it and the
folder above it apart; one id and one name will do, since the client and the wire never compare two.  One entry is enough for a
listing to have a middle.  The run takes 0.8 million states; the proofs lift all these bounds.

`RowsHaveBlobs` and `DownloadHasBlob` under crashes are not in a run, since a crash leaves the orphan that
`NoOrphanBlob`, in the same run, is about (`files` and `sharing` have `MayCrash` FALSE; `shares` and `paths` have it
TRUE and no files): they are proved with crashes included (`RowsWhole`, `DownloadsWhole`).

**Fairness.**  `FairSpec` has weak fairness of `Serve(c)`: a thread is scheduled and
PostgreSQL answers or fails each statement (the code has no timeout, so an
unanswered one would block it for ever).  Nothing is assumed of the clients: they
need not send a request nor finish an upload, which is why `RequestsAnswered`
excepts the wait for upload data.  The pool's `FairSpec` schedules a thread that is
inside the pool; when it releases is up to its handler.  The mutex itself needs no
fairness beyond that, since `MutexReleased` speaks of its holder.  `Dialogue`'s `FairSpec` has weak fairness
of `ClientProceeds` and of `ThreadProceeds`: two processes, each scheduled when its read has
something to return or its write somewhere to go, on a TCP connection that delivers what was
sent.  The user's typing, the deaths and `quit` have none.  `ConnTable`'s `FairSpec` schedules the acceptor after a
handshake and a thread after its client has gone, not the handshake, which waits for a client, nor
the client's going.

## Proofs

All proved for every value of the constants, and checked by `tlapm` with Z3, Zenon
and LS4.

**The server** (`ServerProofs`, `ShareProofs`), for any set of connections, users, names
and requests and any initial database that is `WellFormed`: `Typing` (`TypeOK`),
`Confined` (`ConfinedToShare`), `RootsKept` (`RootsStay`), `ViewersRead`
(`ViewerNeverWrites`), `SharesConfineWrites` (`SharedWritesConfined`), `Advancing`
(`RequestsAdvance`), `RightsRefined` (`RightsKept`) and `NamesSettled` (`Rights!Settled`).  The assumptions
used are the named ones of the modules: what `Names` and `Commands` may be, that
the initial tables are sequences of rows that refer to earlier rows, and, for
`NamesSettled`, `IndexAssumption`: the initial database keeps its own unique indexes.

None of these is inductive.  What makes them so is what a thread relies on between two
statements, `ConnOK`, one conjunct of the invariant `Inv` for each connection:
`ControlOK` (the statement belongs to a request that makes it, with the arguments it
uses), `SessionOK` (the checks made when the request arrived still hold, since only this
thread changes its session) and `StandsOK` (where the session stands, and that the id an
earlier statement found is an entry of the current folder).  `StandsOK` speaks of the
shared tables, so the argument is in two halves: every step of a thread re-establishes
its own `ConnOK` (`LocalStep`), and changes the tables only in ways that keep everybody
else's (`StoreStep`: rows are added, marked and renamed, never moved, so that what is
below a folder stays below it, `StaysBelow`).  `StepInv` puts the halves together.  The
tree itself needs one fact, that a folder's parent has a smaller id (`TreeOK`), from
which a strict descendant of a folder is never that folder (`BelowIsLater`): it is why
a session cannot rename or remove the root of the share it is in.  CD .. needs
`ParentBelow`: a folder below the share root, other than it, has its parent below it.

The action properties follow by showing which statements write (`OthersQuiet`,
`WritersWriteHere`) and that a viewer, or a session in sharing mode, is never at those
it should not reach.

**The refinement of `Access`** (`ShareProofs`).  The handlers test in one statement and write in
another, with the statements of all other threads in between; `Access` tests and writes at once.  So
`RightsRefined` is the statement that what the earlier statements found out still holds at the one that
writes, and what it needs is again `Inv`: the role and the mode are the session's own (`SessionOK`), the
entry is still in the folder the session stands in because rows do not move (`StandsOK`), and that
its name is free and its mark not set is tested by the writing statement itself, an index or a
`WHERE`.  A statement that finds the row gone since is a stutter.  What the handlers do *not* keep of
what they found out is therefore seen by what `Access` does not promise: a folder removed need not be
empty (`rmdir_race`), a folder granted need not be the session's own (`share_folder.c:83`, Observations), an entry may be
made in a folder that is removed.  `NamesSettled` is an invariant of `Access` carried over, proved on the server's own
tables: every row inserted or renamed passes the index.  TLC has checked `Settled` too, on the `shares` instance with both
owner and guest making and renaming in one folder (1.8 million states); without the index check in
`FolderRename` it is violated.

`RemovedAlone` (in `RecordProofs`) is the other side of `rmdir_race`: if only one connection sends RMDIR and
no other sends MKDIR or UPLOAD (`LoneRemover`), every folder is empty when it is removed.  Its invariant,
`RemovalInv`, is that the emptiness found by one statement holds until the next, which is
what a second connection breaks.  TLC agrees on an instance of its own (6.1 million states, and a counterexample
as soon as the other connection may send MKDIR).

**Progress without fairness.**  Three liveness properties have a half that is a safety property, and
that half is proved.  `RequestsAdvance` (`Advancing`): each step of a request lowers `StepsLeft`, a bound of the statements
it still makes, so no statement is retried and no handler waits for another.  `MutexAdvances`
(`MutexAdvancing`): each step of the thread that has the mutex lowers what its scan has left.  `CommandsAdvance`
(`CommandsGetOn`, below): each step of either program lowers a pair of numbers.  What is left to fairness is only that
the next step is taken.

**Blobs and accounts** (`RecordProofs`).  If no write to disk is cut short (`~DiskMayFail`),
`RowsWhole` (`RowsHaveBlobs`) and `DownloadsWhole` (`DownloadHasBlob`), crashes included; if
the process does not die (`~MayCrash`), `NoOrphans` (`NoOrphanBlob`); if neither it dies nor
a statement fails, and every user of the initial database has a root,
`EveryoneGetsRoot` (`UsersGetRoots`).  The hypotheses are those of the runs that check these
properties, and each is needed (set the constant to TRUE in the run's cfg and TLC finds a
counterexample): a short `fwrite` gives a row a blob that is not whole, a crash between the
save and the insert leaves a blob, and a crash or a failure between the insert of a user
and that of its root leaves a user whose LOGIN is answered 500 for ever.  `BlobStep` reduces every
action to one of five effects on blobs; the strengthening is `BlobsApart` (a row's blob is
no other row's, an upload's blob is no row's and no other upload's, a download's is
some row's) and `BlobsWhole` (the blob is whole before its row is inserted).

**The paths** (`PathProofs`), over the whole server and for any databases and clients: `PathsTrue` (`PathTold`).
`PathsInv` is `Inv` with three facts: every folder's name is among those it was called; texts are
texts; and for each session (`Kept`) the text is a way (`Way`: a sequence of folders, each the parent of the next,
each called the name in its place) to the folder of its id, and the text and the folder EXIT_SHARED will give back
likewise.  A thread's own step lengthens, shortens or replaces way and id alike (`CdDownKept`,
`CdUpKept`, `OpenSharedKept`, `ExitSharedKept`, ...), although CD moves the id by what it finds in the database and the text
by a string; all others' steps keep every way (`KeptStays`), since rows do not move and a RENAME only adds to what a
folder was called.  That is as much as can hold: with the names of today in place of those since the start, TLC
refutes it by one RENAME.

**The pool** (`DbPoolProofs`), for any finite number of threads and slots: `Typing`,
`Exclusive` (`ExclusiveUse`), `Implements` (the scan under the mutex implements `Pool`), `SlotFound`
(`ReleaseFindsSlot`: the loop of `db_release`, which gives up in silence at the end of the array,
starts no later than its slot and stops at it), `MutexAdvancing` (`MutexAdvances`) and
`NoExhaustion` (with at least as many slots as threads, `db_acquire` never returns NULL,
by counting the holders of the slots a scan has passed).

**The SSL table** (`ConnTableProofs`), for any connections and descriptors: `Typing`, `NoCross`
(`NoCrossTalk`), `NoDangling` (`NoDanglingEntry`), `Closing` (`GivenUpClosed`) and `OnlyReuse`
(`PlainOnlyAfterReuse`).  The last says that `plain_channel` is the only way to lose TLS; it holds of serving
threads only because it holds from acceptance on (`ClearedLate`), and that needs `GivenUpClosed`: an open descriptor
has one owner, so whoever clears its entry late is over, and was there before.

**The conversation** (`DialogueProofs`), for any names, sizes, buffers, integer widths, depths and
any of the failures: `Typing` (`TypeOK`), `FramesKept` (`Framed`), `AnswersTaken`
(`AnswersRead`), `UploadsWhole` (`UploadWhole`), `PromptsTrue` (`PromptTold`) and `Implements` (`CalledOnce`).
The assumptions are `Wire`'s: the sizes are numbers, the buffers and `IntMod` are positive, `SizeMod` is
larger than `IntMod`, and the three texts that are no folder's name are none.

`Framed` alone says nothing about what is behind the head of a queue, so it is not inductive.  The
invariant is `Shared`: `TypeOK`; `Working` (a transfer loop's counters bound each other); `Matched`
(the place the client is blocked in belongs to its command, and its counters to that place); `Joined`
(`link` says who has gone); and `Talk`, which gives for each place of the client the whole of what is in
both streams and where the thread is: nothing at the prompt; a lone request or a lone line while a
single reply is due (`Exchange`); a listing's lines with the end mark last or still to come (`Listing`); for a
file the equation that ties what is saved, what `net_recv_all` has, what is on the wire and what is yet to
be sent to the size announced (`Uploading`, `Downloading`); what a thread finds of a client that left
(`LeftBehind`).  `Coming` takes off the line that opens a transfer, so that sending it and reading it leave
the equations as they are.  From `Shared` the first three properties follow at once.

`PromptTold` needs `Placed` (a session in sharing mode has an owner's path) and `Told`, which says what the client will be told by the line on its way: between
the handler of LOGIN and the client's reading of the 200 the two disagree, and the line is what will make them
agree.  `Implements` shows that each step is a step of `Call` or a stutter: `Talk` gives that a request
is on the wire in no other place than `Exchanging`, so the prompt comes back only from `"served"`.

`AdvanceProofs` adds `TurnsKept` (`NeverBothWait`) and `CommandsGetOn` (`CommandsAdvance`).  The first needs, besides
`Shared`, `Filling`: a thread that still has to save has room for more of the chunk it is reading, or it would
read nothing.  The second compares the pair (`Stage`, `Effort`) before and after each step of either program:
`Stage` counts the requests a command still makes and whether one is being answered, `Effort`
what is left of the answer, counted on both sides of the wire.  That a chunk sent, a chunk read and a chunk
saved each lower it, whatever their lengths, rests on the equations of `Uploading` and `Downloading`.  They hold
in step only: `spinning`, in the table of causes, is a loop that lowers nothing.

What the provers cannot reach stays with TLC: the liveness properties
(`RequestsAnswered`, `MutexReleased`, `Returns`, `DescriptorsReturned`), which rest on fairness.  Every other property
of a passing run is proved, and so are all three refinements: `DbPool` of `Pool`, `Dialogue` of
`Call`, `Server` of `Access`.

## Disagreements

Five runs check what a document or comment of the repository says and find the
code doing otherwise.

* `plain_channel`: `client_thread` closes its descriptor before it clears the table
  entry (`server.c:125,127`); a connection accepted in between on the same
  descriptor loses its entry and is served over plain `send`/`recv`.
* `exit_shared`: opening a folder while in sharing mode overwrites `old_folder_id`, so
  EXIT_SHARED leaves the session in another user's folder, outside sharing mode.
* `rmdir_race`: emptiness is tested in one statement and the folder removed in
  another; an entry made in between is left below a removed folder.
* `file_acl`: the client reads the listing of a file's readers up to a mark that the server sends for
  folders only (`sharing.c:107`, `list_share_file.c:70`): the command never comes back.
* `broken_upload`: `net_recv_all`'s -1 goes into a `size_t`, so that the test meant for "an error, or the
  client closed the connection" (`storage.c:27`) misses it and the thread never leaves the loop.

One disagreement has no run, because one request shows it.  `server/docs/protocols.txt:134-135` says of RENAME
"Chỉ được phép đổi tên nếu chủ sỡ hữu là mình" (renaming is allowed only to the owner) and answers
403 to others; `rename.c:34` answers 403 to a viewer of a share only, and neither `db_file_rename` nor
`db_folder_rename` looks at the owner.  So an editor renames the owner's files and folders, in `shares` and `files`
too.  `Access` is written from the code and allows it: that `RightsKept` holds in these runs says that a rename is
made with the right the code asks for, still had when it is made, and nothing of the owner's
right that the document reserves.

The causes, that is, the ways the two programs fall out of step.  All are actions of the model:

| `cause` | What happens | Code |
|---|---|---|
| `file_acl` | the end mark above | `sharing.c:107` |
| `list_failed` | LIST fails after its first line; the client reads on for LIST_END | `list.c:55` |
| `no_reply` | DOWNLOAD's 500 comes out empty; the client waits | `download.c:36` |
| `no_storage` | the blob cannot be opened after 150: the file is read as requests | `storage.c:13` |
| `no_blob`, `short_blob` | the file announced by 50 does not come, or not all of it | `storage.c:43,60` |
| `int_size` | a size of 2 GiB or more goes through `atoi` | `upload.c:45` |
| `size_changed` | the file has grown or shrunk since `put` announced it | `transfer.c:89` |
| `no_destination` | `get` cannot write its file and leaves the rest on the wire | `transfer.c:155` |
| `spinning` | `get` reads 0 for ever once the server has gone | `transfer.c:172` |

Observations, modelled but without a run of their own: the unique indexes of names
include the owner, so an owner and an editor can make two entries of one name in
one directory (`schema.sql:25,60`; the comment there, "các thư mục trong cùng 1 dir phải khác tên", says that
folders of one directory have different names, which `NamesSettled` shows of one owner's only); a removed folder keeps its name taken for MKDIR
(`db_folder.c:325`); RMDIR of a folder that is not empty is answered 500, the 409
branch being dead (`rmdir.c:63`); RENAME does not check the new name (`rename.c:70`);
a RENAME leaves every session's path as it is, so that those in the folder renamed, or below it, are shown by PWD a path
that is no more, or that is another folder's by now (`rename.c:70`, why `PathTold` speaks of names a folder had);
SHARE_FOLDER of a name that is not there goes on with an uninitialised `folder_id` and may grant another folder, where
`protocols.txt:213` has 404 (`share_folder.c:83`);
a session keeps its role after the grant is revoked (`mkdir.c:33`); LOGIN sets
`logged_in` before it can fail (`login.c:57`); SHARE_FILE always fails, its insert
giving no role (`db_sharing.c:18`); DOWNLOAD's 500 may be empty (`download.c:36`);
a short `fwrite` is not noticed (`storage.c:33`); the prompt keeps the share's path after exit-shared
(`shared_workspace.c:106`); DOWNLOAD_SHARED of a file deleted since answers 200 and sends nothing
(`download_share_file.c:41`); a share opened inside a share, then left, leaves the session under a path of
the outer owner with no bound (the second limit of `PathTold`, and `exit_shared` above).

## Not modelled

Start-up and configuration (sequential, any failure ends the process); the TLS context and password
hashing (library calls without state of the program's own); reconnection of the pool, which the code
does not do; bytes, hence the buffers that are indexed by what a peer sent (`client.c:38`, `state.h:10`);
the acceptor blocked in a handshake (`server.c:83`), about which no document promises anything.

## Plan

1. *(done)* The server: `Store`, `Sessions`, the five handler modules, `Server`; the
   pool with its abstract specification; the SSL table; their proofs.
2. *(done)* The client, and what it waits for: `Wire`, `Shell`, `Dialogue`.
3. *(done)* The transfer loops and their integer widths, and the framing: `Thread`.
4. *(done)* The paths next to the folders they name, with others' RENAMEs: `Paths`, `PathTold`, `PathProofs`.
5. *(done)* The abstract specification of a connection, `Call`, and its refinement.
6. *(done)* The proofs of 2 to 5: `DialogueProofs`.
7. *(done)* The abstract access-control specification `Access`, implemented by `Server`: checked
   and proved.
8. *(done)* Names unique per owner and directory under racing MKDIR, RENAME and UPLOAD, from the
   unique indexes: `NamesSettled`.
9. *(done)* What there is of the liveness properties without fairness: `RequestsAdvance`,
   `MutexAdvances`, `CommandsAdvance`, `NeverBothWait`; and the descriptors, `GivenUpClosed`.
10. Left: the line readers of the client byte by byte (`Wire` reads a line whole), which would
   take bytes into the model.
