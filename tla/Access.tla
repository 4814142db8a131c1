------------------------------- MODULE Access ------------------------------
(***************************************************************************)
(* What the server promises to those who keep folders in it and share      *)
(* them.  A request changes the tables at one instant, by one row, and the *)
(* right to do so is had at that instant: entries are made, renamed and    *)
(* removed in the folder the session stands in, by a session that is not a *)
(* viewer's; permissions are given and taken back outside sharing mode; a  *)
(* session moves one folder at a time, never above the one it opened.      *)
(*                                                                         *)
(* Files and folders are entries: functions from ids, never used again, to *)
(* an owner, the directory they are in, a name and a mark of deletion.     *)
(***************************************************************************)
EXTENDS Naturals

CONSTANTS
    Conns, Names,
    RootName,
    Nowhere,        \* no id
    Fresh           \* the session of nobody

VARIABLES folders, files, folderGrants, fileGrants, session

tables == <<folders, files, folderGrants, fileGrants>>
vars   == <<tables, session>>

Here(c) == session[c].current

In(c)       == session[c].user # Nowhere
MayWrite(c) == In(c) /\ ~(session[c].sharing /\ session[c].role = "viewer")
MayGrant(c) == In(c) /\ ~session[c].sharing

\* A name is its owner's for one live entry of a directory.
Taken(t, self, e) ==
    \E i \in DOMAIN t \ {self} :
        ~t[i].deleted /\ t[i].owner = e.owner /\ t[i].dir = e.dir /\ t[i].name = e.name

Entry(u, d, n) == [owner |-> u, dir |-> d, name |-> n, deleted |-> FALSE]

\* u is t with the entry e at i, where there was none or another
Puts(t, u, i, e) == u = [j \in DOMAIN t \cup {i} |-> IF j = i THEN e ELSE t[j]]

HomesOf(u) == {f \in DOMAIN folders : folders[f].owner = u /\ folders[f].dir = Nowhere}

-----------------------------------------------------------------------------
\* The tables are those that earlier connections left, whatever they are.
Init == session = [c \in Conns |-> Fresh]

\* of one of the two tables of entries: u is t with an entry of Here(c) made,
\* renamed or removed
Makes(c, t, u) ==
    \E i \in DOMAIN u \ DOMAIN t, n \in Names :
        LET e == Entry(session[c].user, Here(c), n) IN ~Taken(t, i, e) /\ Puts(t, u, i, e)

\* whoever owns it: rename.c:34 refuses viewers only, where protocols.txt:134-135
\* allows a RENAME to the owner alone (403)
Renames(c, t, u) ==
    \E i \in DOMAIN t, n \in Names :
        LET e == [t[i] EXCEPT !.name = n] IN
        ~t[i].deleted /\ t[i].dir = Here(c) /\ ~Taken(t, i, e) /\ Puts(t, u, i, e)

Removes(c, t, u) ==
    \E i \in DOMAIN t :
        ~t[i].deleted /\ t[i].dir = Here(c) /\ Puts(t, u, i, [t[i] EXCEPT !.deleted = TRUE])

Edits(c, t, u) == Makes(c, t, u) \/ Renames(c, t, u) \/ Removes(c, t, u)

Write(c) ==
    /\ MayWrite(c) /\ Here(c) \in DOMAIN folders
    /\ \/ Edits(c, folders, folders') /\ files' = files
       \/ Edits(c, files, files') /\ folders' = folders
    /\ UNCHANGED <<folderGrants, fileGrants, session>>

\* An account begins with its root, and has one.
Register ==
    /\ \E i \in DOMAIN folders' \ DOMAIN folders :
          LET u == folders'[i].owner IN
          HomesOf(u) = {} /\ Puts(folders, folders', i, Entry(u, Nowhere, RootName))
    /\ UNCHANGED <<files, folderGrants, fileGrants, session>>

-----------------------------------------------------------------------------
\* One user has one role in a folder, whoever grants it.
Grant(c) ==
    /\ MayGrant(c)
    /\ \E p \in folderGrants' :
          /\ p.folder \in DOMAIN folders
          /\ \A q \in folderGrants : q.folder # p.folder \/ q.user # p.user
          /\ folderGrants' = folderGrants \cup {p}
    /\ UNCHANGED <<folders, files, fileGrants, session>>

Revoke(c) ==
    /\ MayGrant(c)
    /\ \/ /\ \E p \in folderGrants :
                folderGrants' = {q \in folderGrants : q.folder # p.folder \/ q.user # p.user}
          /\ fileGrants' = fileGrants
       \/ /\ \E p \in fileGrants : fileGrants' = fileGrants \ {p}
          /\ folderGrants' = folderGrants
    /\ UNCHANGED <<folders, files, session>>

-----------------------------------------------------------------------------
Becomes(c, s) == session' = [session EXCEPT ![c] = s] /\ UNCHANGED tables

\* at home, or nowhere for a user without a root, or if it cannot be found
LogIn(c) ==
    LET s == session'[c] IN
    /\ ~In(c) /\ s.user # Nowhere
    /\ s.current \in HomesOf(s.user) \cup {Nowhere}
    /\ Becomes(c, [Fresh EXCEPT !.user = s.user, !.current = s.current])

Walk(c, f) == In(c) /\ Becomes(c, [session[c] EXCEPT !.current = f])

Down(c) ==
    \E f \in DOMAIN folders : ~folders[f].deleted /\ folders[f].dir = Here(c) /\ Walk(c, f)

Up(c) ==
    /\ Here(c) \in DOMAIN folders /\ folders[Here(c)].dir # Nowhere
    /\ ~(session[c].sharing /\ Here(c) = session[c].root)
    /\ Walk(c, folders[Here(c)].dir)

Open(c) ==
    \E p \in folderGrants :
        /\ In(c) /\ p.user = session[c].user
        /\ Becomes(c, [session[c] EXCEPT !.sharing = TRUE, !.old = Here(c), !.root = p.folder,
                                         !.current = p.folder, !.role = p.role])

Exit(c) ==
    /\ session[c].sharing
    /\ Becomes(c, [session[c] EXCEPT !.sharing = FALSE, !.current = session[c].old,
                                     !.root = Nowhere, !.old = Nowhere])

Leave(c) == Becomes(c, Fresh)

EveryoneLeaves == session' = [c \in Conns |-> Fresh] /\ UNCHANGED tables

Next ==
    \/ Register \/ EveryoneLeaves
    \/ \E c \in Conns :
          \/ Write(c) \/ Grant(c) \/ Revoke(c)
          \/ LogIn(c) \/ Down(c) \/ Up(c) \/ Open(c) \/ Exit(c) \/ Leave(c)

Spec == Init /\ [][Next]_vars

-----------------------------------------------------------------------------
\* Two live entries of one owner in one directory have different names.
Apart(t) ==
    \A i, j \in DOMAIN t :
        /\ ~t[i].deleted /\ ~t[j].deleted
        /\ t[i].owner = t[j].owner /\ t[i].dir = t[j].dir /\ t[i].name = t[j].name
        => i = j

\* What a name means and what a user may do are each settled by one row.
Settled ==
    /\ Apart(folders) /\ Apart(files)
    /\ \A p, q \in folderGrants : p.folder = q.folder /\ p.user = q.user => p = q
=============================================================================
