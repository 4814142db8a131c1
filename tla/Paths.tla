------------------------------- MODULE Paths -------------------------------
(***************************************************************************)
(* The server with the texts a session keeps beside the ids of its         *)
(* folders: cwd and old_cwd.  They are read by PWD only, so they follow    *)
(* the steps of Server and hinder none.                                    *)
(***************************************************************************)
EXTENDS Server, SequencesExt

VARIABLES
    path,       \* path[c]: cwd and old_cwd of c's session
    called      \* auxiliary: the names each folder has, and has had

pvars == <<vars, path, called>>

\* "/a/b" is <<a, b>> of nobody; "u:/a/b" is <<a, b>> of the user {u}.
Path == [of : SUBSET Nat, down : Seq(Names \cup {"/"})]

Top == [of |-> {}, down |-> <<>>]

FreshPaths == [cwd |-> Top, old |-> Top]

-----------------------------------------------------------------------------
\* Mutant: the last name is kept.
AboveKept(p) == [p EXCEPT !.down = IF Len(@) <= 1 THEN @ ELSE Front(@)]

\* folder_service_change_dir: "..", which leaves "/" and "u:" as they are,
\* and a name.  Neither asks the database.
Above(p)     == [p EXCEPT !.down = IF @ = <<>> THEN @ ELSE Front(@)]
Inside(p, n) == [p EXCEPT !.down = Append(@, n)]

\* The step carries out c's request, a cmd that had come to the statement pc.
Done(c, pc, cmd) == At(c, pc) /\ req'[c] = ReplyTo(cmd, 200)

\* What a step of c's thread makes of the session's texts.
PathsAfter(c) ==
    LET p == path[c]
        f == req[c].id
    IN  IF sess'[c].user = NoId THEN FreshPaths     \* memset, or a new session
        ELSE CASE At(c, "check_login") -> [p EXCEPT !.cwd = Top]
               [] Done(c, "find_folder", "CD") -> [p EXCEPT !.cwd = Inside(@, req[c].name)]
               [] Done(c, "find_parent", "CD") -> [p EXCEPT !.cwd = Above(@)]
               [] Done(c, "access_info", Cmd(c)) ->
                     [cwd |-> [of |-> {folders[f].owner}, down |-> <<folders[f].name>>],
                      old |-> p.cwd]
               [] Done(c, "idle", "EXIT_SHARED") -> [p EXCEPT !.cwd = p.old]
               [] OTHER -> p

NamesSince(f) == IF f \in DOMAIN called THEN called[f] ELSE {}

PathsInit ==
    /\ path = [c \in Conns |-> FreshPaths]
    /\ called = [f \in FolderIds |-> {folders[f].name}]

PathsFollow ==
    /\ \/ Crash /\ path' = [c \in Conns |-> FreshPaths]
       \/ \E c \in Conns : Step(c) /\ path' = [path EXCEPT ![c] = PathsAfter(c)]
    /\ called' = [f \in DOMAIN folders' |-> NamesSince(f) \cup {folders'[f].name}]

PathsSpec == Init /\ PathsInit /\ [][PathsFollow]_pvars

-----------------------------------------------------------------------------
\* The names lead from folder r down to folder f, one for each folder on the
\* way, and each is one that its folder has or has had.
Leads(r, names, f) ==
    \E way \in [0..Len(names) -> FolderIds] :
        /\ way[0] = r /\ way[Len(names)] = f
        /\ \A i \in 1..Len(names) :
              folders[way[i]].parent = way[i - 1] /\ names[i] \in called[way[i]]

\* The id a session stands at and the text that PWD shows for it are moved by
\* code of their own, the id through the database, where others rename and
\* remove meanwhile, the text through a string: and still the text leads from
\* the session's root, or from the folder it opened, to the folder of the id,
\* with a name for every folder on the way.  That name is one the folder has
\* or has had: a RENAME (rename.c:70) leaves every session's text as it is,
\* below the folder renamed too, so the text may name folders by what they
\* were called, or lead elsewhere by what others are called now.  (Left out is
\* the session that opened a share inside a share and left the inner one: it
\* is in the owner's tree with an owner's path, and CD .. takes it above what
\* the path knows.)
PathTold ==
    \A c \in Conns :
        LET s == sess[c]
            p == path[c].cwd
        IN  s.user # NoId /\ s.current # NoId =>
              IF s.sharing
              THEN /\ p.of = {folders[s.root].owner}
                   /\ p.down # <<>> /\ Head(p.down) \in called[s.root]
                   /\ Leads(s.root, Tail(p.down), s.current)
              ELSE p.of # {} \/ \E r \in RootsOf(s.user) : Leads(r, p.down, s.current)
=============================================================================
