----------------------------- MODULE PathProofs ----------------------------
(***************************************************************************)
(* Proofs about the texts of the sessions' folders, for any clients, names *)
(* and databases.                                                          *)
(***************************************************************************)
EXTENDS Paths, ServerProofs

-----------------------------------------------------------------------------
(* Ways down a tree.                                                       *)

\* Leads, in the tree fs whose folders are or were called cl.
Way(fs, cl, r, names, f) ==
    \E way \in [0..Len(names) -> DOMAIN fs] :
        /\ way[0] = r /\ way[Len(names)] = f
        /\ \A i \in 1..Len(names) :
              fs[way[i]].parent = way[i - 1] /\ names[i] \in cl[way[i]]

LEMMA WayLeads ==
    ASSUME NEW r, NEW names, NEW f
    PROVE  Leads(r, names, f) <=> Way(folders, called, r, names, f)
  BY DEF Leads, Way, FolderIds

LEMMA FrontIs ==
    ASSUME NEW T, NEW q \in Seq(T), q # <<>>
    PROVE  /\ Front(q) \in Seq(T) /\ Len(Front(q)) = Len(q) - 1
           /\ \A i \in 1..Len(q) - 1 : Front(q)[i] = q[i]
  <1>1. Len(q) \in Nat /\ Len(q) >= 1
    OBVIOUS
  <1>2. Front(q) = [i \in 1..Len(q) - 1 |-> q[i]]
    BY <1>1 DEF Front
  <1>3. \A i \in 1..Len(q) - 1 : q[i] \in T
    BY <1>1
  <1>4. Len(q) - 1 \in Nat
    BY <1>1
  <1> QED BY <1>2, <1>3, <1>4

LEMMA LongerTail ==
    ASSUME NEW T, NEW q \in Seq(T), q # <<>>, NEW n \in T
    PROVE  /\ Append(q, n) \in Seq(T) /\ Append(q, n) # <<>>
           /\ Head(Append(q, n)) = Head(q)
           /\ Len(Tail(Append(q, n))) = Len(Append(Tail(q), n))
           /\ \A i \in 1..Len(Append(Tail(q), n)) : Tail(Append(q, n))[i] = Append(Tail(q), n)[i]
  <1> DEFINE k == Len(q)
             longer == Append(q, n)
             rest == Append(Tail(q), n)
  <1>1. k \in Nat /\ k >= 1 /\ Head(q) = q[1]
    OBVIOUS
  <1>2. /\ longer \in Seq(T) /\ Len(longer) = k + 1 /\ longer[k + 1] = n
        /\ \A i \in 1..k : longer[i] = q[i]
    OBVIOUS
  <1>3. Tail(q) \in Seq(T) /\ Len(Tail(q)) = k - 1 /\ \A i \in 1..k - 1 : Tail(q)[i] = q[i + 1]
    OBVIOUS
  <1>4. /\ Len(rest) = k /\ rest[k] = n
        /\ \A i \in 1..k - 1 : rest[i] = Tail(q)[i]
    <2>1. /\ Len(rest) = Len(Tail(q)) + 1 /\ rest[Len(Tail(q)) + 1] = n
          /\ \A i \in 1..Len(Tail(q)) : rest[i] = Tail(q)[i]
      BY <1>3
    <2> HIDE DEF rest
    <2> QED BY <1>1, <1>3, <2>1
  <1> HIDE DEF longer, k
  <1>5. /\ longer # <<>> /\ Head(longer) = longer[1]
        /\ Len(Tail(longer)) = k /\ \A i \in 1..k : Tail(longer)[i] = longer[i + 1]
    BY <1>1, <1>2
  <1> HIDE DEF rest
  <1>6. ASSUME NEW i \in 1..k PROVE longer[i + 1] = rest[i]
    <2>1. CASE i = k
      BY <1>2, <1>4, <2>1
    <2>2. CASE i # k
      <3>1. i \in 1..k - 1 /\ i + 1 \in 1..k
        BY <1>1, <2>2
      <3> QED BY <1>2, <1>3, <1>4, <3>1
    <2> QED BY <2>1, <2>2
  <1>7. 1 \in 1..k
    BY <1>1
  <1> QED BY <1>1, <1>2, <1>4, <1>5, <1>6, <1>7 DEF longer, rest

LEMMA ShorterTail ==
    ASSUME NEW T, NEW q \in Seq(T), q # <<>>, Tail(q) # <<>>
    PROVE  /\ Front(q) # <<>> /\ Head(Front(q)) = Head(q)
           /\ Len(Tail(Front(q))) = Len(Front(Tail(q)))
           /\ \A i \in 1..Len(Front(Tail(q))) : Tail(Front(q))[i] = Front(Tail(q))[i]
  <1> DEFINE k == Len(q)
             shorter == Front(q)
             rest == Front(Tail(q))
  <1>1. k \in Nat /\ k >= 1 /\ Head(q) = q[1]
    OBVIOUS
  <1>2. Tail(q) \in Seq(T) /\ Len(Tail(q)) = k - 1 /\ \A i \in 1..k - 1 : Tail(q)[i] = q[i + 1]
    OBVIOUS
  <1>3. k >= 2
    BY <1>1, <1>2
  <1>4. shorter \in Seq(T) /\ Len(shorter) = k - 1 /\ \A i \in 1..k - 1 : shorter[i] = q[i]
    BY FrontIs
  <1>5. Len(rest) = k - 2 /\ \A i \in 1..k - 2 : rest[i] = Tail(q)[i]
    <2>1. /\ Len(rest) = Len(Tail(q)) - 1
          /\ \A i \in 1..Len(Tail(q)) - 1 : rest[i] = Tail(q)[i]
      BY <1>2, FrontIs
    <2> HIDE DEF rest
    <2> QED BY <1>1, <1>2, <1>3, <2>1
  <1> HIDE DEF shorter, rest, k
  <1>6. /\ shorter # <<>> /\ Head(shorter) = shorter[1]
        /\ Len(Tail(shorter)) = k - 2 /\ \A i \in 1..k - 2 : Tail(shorter)[i] = shorter[i + 1]
    BY <1>1, <1>3, <1>4
  <1>7. 1 \in 1..k - 1 /\ \A i \in 1..k - 2 : i \in 1..k - 1 /\ i + 1 \in 1..k - 1
    BY <1>1, <1>3
  <1> QED BY <1>1, <1>2, <1>4, <1>5, <1>6, <1>7 DEF shorter, rest

LEMMA WayHere == ASSUME NEW fs, NEW cl, NEW r \in DOMAIN fs PROVE Way(fs, cl, r, <<>>, r)
  <1> DEFINE way == [i \in 0..0 |-> r]
  <1>1. way \in [0..Len(<<>>) -> DOMAIN fs] /\ way[0] = r /\ way[Len(<<>>)] = r
    OBVIOUS
  <1>2. 1..Len(<<>>) = {}
    OBVIOUS
  <1> QED BY <1>1, <1>2 DEF Way

\* It ends where its last name is, at a folder, and starts there if it has none.
LEMMA WayEnds ==
    ASSUME NEW fs, NEW cl, NEW T, NEW names \in Seq(T), NEW r, NEW f, Way(fs, cl, r, names, f)
    PROVE  /\ f \in DOMAIN fs
           /\ Len(names) = 0 => f = r
           /\ Len(names) # 0 => fs[f].parent \in DOMAIN fs
  <1> DEFINE k == Len(names)
  <1>1. k \in Nat
    OBVIOUS
  <1>2. PICK way \in [0..k -> DOMAIN fs] :
           /\ way[0] = r /\ way[k] = f
           /\ \A i \in 1..k : fs[way[i]].parent = way[i - 1] /\ names[i] \in cl[way[i]]
    BY DEF Way
  <1>3. k \in 0..k /\ (k # 0 => k \in 1..k /\ k - 1 \in 0..k)
    BY <1>1
  <1> HIDE DEF k
  <1> QED BY <1>2, <1>3 DEF k

\* Only the names matter, not how they are written down.
LEMMA WaySame ==
    ASSUME NEW fs, NEW cl, NEW names, NEW others, NEW r, NEW f, Way(fs, cl, r, names, f),
           Len(others) = Len(names), \A i \in 1..Len(names) : others[i] = names[i]
    PROVE  Way(fs, cl, r, others, f)
  BY DEF Way

LEMMA WayDown ==
    ASSUME NEW fs, NEW cl, NEW T, NEW names \in Seq(T), NEW n \in T, NEW r, NEW f,
           Way(fs, cl, r, names, f), NEW g \in DOMAIN fs, fs[g].parent = f, n \in cl[g]
    PROVE  Way(fs, cl, r, Append(names, n), g)
  <1> DEFINE k == Len(names)
             longer == Append(names, n)
  <1>1. /\ k \in Nat /\ Len(longer) = k + 1 /\ longer[k + 1] = n
        /\ \A i \in 1..k : longer[i] = names[i]
    OBVIOUS
  <1>2. PICK way \in [0..k -> DOMAIN fs] :
           /\ way[0] = r /\ way[k] = f
           /\ \A i \in 1..k : fs[way[i]].parent = way[i - 1] /\ names[i] \in cl[way[i]]
    BY DEF Way
  <1> DEFINE next == [i \in 0..k + 1 |-> IF i = k + 1 THEN g ELSE way[i]]
  <1> HIDE DEF k, longer
  <1>3. \A i \in 0..k : i \in 0..k + 1 /\ i # k + 1
    BY <1>1
  <1>4. \A i \in 0..k + 1 : i = k + 1 \/ i \in 0..k
    BY <1>1
  <1>5. next \in [0..k + 1 -> DOMAIN fs]
    BY <1>2, <1>4
  <1>6. next[k + 1] = g /\ \A i \in 0..k : next[i] = way[i]
    BY <1>1, <1>3
  <1>7. 0 \in 0..k /\ k \in 0..k
    BY <1>1
  <1> HIDE DEF next
  <1>8. ASSUME NEW i \in 1..k + 1
        PROVE  fs[next[i]].parent = next[i - 1] /\ longer[i] \in cl[next[i]]
    <2>1. CASE i = k + 1
      <3>1. i - 1 = k
        BY <1>1, <2>1
      <3> QED BY <1>1, <1>2, <1>6, <1>7, <2>1, <3>1
    <2>2. CASE i # k + 1
      <3>1. i \in 1..k /\ i \in 0..k /\ i - 1 \in 0..k
        BY <1>1, <2>2
      <3> QED BY <1>1, <1>2, <1>6, <3>1
    <2> QED BY <2>1, <2>2
  <1>9. next[0] = r
    BY <1>2, <1>6, <1>7
  <1>10. \E w \in [0..Len(longer) -> DOMAIN fs] :
           /\ w[0] = r /\ w[Len(longer)] = g
           /\ \A i \in 1..Len(longer) :
                 fs[w[i]].parent = w[i - 1] /\ longer[i] \in cl[w[i]]
    <2>1. next \in [0..Len(longer) -> DOMAIN fs]
      BY <1>1, <1>5
    <2> WITNESS next \in [0..Len(longer) -> DOMAIN fs]
    <2> QED BY <1>1, <1>6, <1>8, <1>9
  <1> QED BY <1>10 DEF Way, longer

LEMMA WayUp ==
    ASSUME NEW fs, NEW cl, NEW T, NEW names \in Seq(T), NEW r, NEW f,
           Way(fs, cl, r, names, f), Len(names) # 0
    PROVE  Way(fs, cl, r, Front(names), fs[f].parent)
  <1> DEFINE k == Len(names)
             shorter == Front(names)
  <1>1. k \in Nat /\ k >= 1
    OBVIOUS
  <1>2. /\ Len(shorter) = k - 1
        /\ \A i \in 1..k - 1 : shorter[i] = names[i]
    BY FrontIs
  <1>3. PICK way \in [0..k -> DOMAIN fs] :
           /\ way[0] = r /\ way[k] = f
           /\ \A i \in 1..k : fs[way[i]].parent = way[i - 1] /\ names[i] \in cl[way[i]]
    BY DEF Way
  <1> DEFINE back == [i \in 0..k - 1 |-> way[i]]
  <1> HIDE DEF k, shorter
  <1>4. /\ \A i \in 0..k - 1 : i \in 0..k
        /\ \A i \in 1..k - 1 : i \in 1..k /\ i \in 0..k - 1 /\ i - 1 \in 0..k - 1
        /\ 0 \in 0..k - 1 /\ k - 1 \in 0..k - 1 /\ k \in 1..k
    BY <1>1
  <1>5. back \in [0..k - 1 -> DOMAIN fs] /\ \A i \in 0..k - 1 : back[i] = way[i]
    BY <1>3, <1>4
  <1> HIDE DEF back
  <1>6. /\ back[0] = r /\ back[k - 1] = fs[f].parent
        /\ \A i \in 1..k - 1 :
              fs[back[i]].parent = back[i - 1] /\ shorter[i] \in cl[back[i]]
    BY <1>2, <1>3, <1>4, <1>5
  <1>7. \E w \in [0..Len(shorter) -> DOMAIN fs] :
           /\ w[0] = r /\ w[Len(shorter)] = fs[f].parent
           /\ \A i \in 1..Len(shorter) :
                 fs[w[i]].parent = w[i - 1] /\ shorter[i] \in cl[w[i]]
    <2>1. back \in [0..Len(shorter) -> DOMAIN fs]
      BY <1>2, <1>5
    <2> WITNESS back \in [0..Len(shorter) -> DOMAIN fs]
    <2> QED BY <1>2, <1>6
  <1> QED BY <1>7 DEF Way, shorter

\* Folders do not move, and a name once had is not forgotten.
LEMMA WayStays ==
    ASSUME NEW fs, NEW gs, NEW cl, NEW dl, Grown(fs, gs),
           \A f \in DOMAIN fs : cl[f] \subseteq dl[f],
           NEW T, NEW names \in Seq(T), NEW r, NEW f, Way(fs, cl, r, names, f)
    PROVE  Way(gs, dl, r, names, f)
  <1> DEFINE k == Len(names)
  <1>1. k \in Nat
    OBVIOUS
  <1>2. PICK way \in [0..k -> DOMAIN fs] :
           /\ way[0] = r /\ way[k] = f
           /\ \A i \in 1..k : fs[way[i]].parent = way[i - 1] /\ names[i] \in cl[way[i]]
    BY DEF Way
  <1>3. way \in [0..k -> DOMAIN gs]
    BY <1>2 DEF Grown
  <1>4. \A i \in 1..k : i \in 0..k
    BY <1>1
  <1> HIDE DEF k
  <1>5. \A i \in 1..k : gs[way[i]].parent = way[i - 1] /\ names[i] \in dl[way[i]]
    BY <1>2, <1>4 DEF Grown
  <1> QED BY <1>2, <1>3, <1>5 DEF Way, k

-----------------------------------------------------------------------------
(* Where the text of a session leads.                                      *)

Text == Names \cup {"/"}

PathsTyped ==
    /\ path \in [Conns -> [cwd : Path, old : Path]]
    /\ DOMAIN called = FolderIds

\* The text p leads a session of user u, in its own tree, to folder f: it is
\* "/" before there is one, and the owner's once an inner share was left.
HomeOf(fs, cl, u, f, p) ==
    \/ p.of # {}
    \/ f = NoId /\ p = Top
    \/ f # NoId /\ \E r \in DOMAIN fs :
          fs[r].owner = u /\ fs[r].parent = NoId /\ Way(fs, cl, r, p.down, f)

\* It leads from the opened folder r to f.
ShareOf(fs, cl, r, f, p) ==
    /\ r \in DOMAIN fs
    /\ p.of = {fs[r].owner}
    /\ p.down # <<>> /\ Head(p.down) \in cl[r]
    /\ Way(fs, cl, r, Tail(p.down), f)

\* A session in sharing mode keeps where it is to return to as well.
Kept(fs, cl, s, p) ==
    IF s.sharing THEN ShareOf(fs, cl, s.root, s.current, p.cwd) /\ HomeOf(fs, cl, s.user, s.old, p.old)
    ELSE HomeOf(fs, cl, s.user, s.current, p.cwd)

KeptIn(fs, cl, s, p) == s.user # NoId => Kept(fs, cl, s, p)

PathsInv ==
    /\ Inv /\ PathsTyped
    /\ \A f \in FolderIds : folders[f].name \in called[f]
    /\ \A c \in Conns : KeptIn(folders, called, sess[c], path[c])

NamesKept(cl, dl, fs) == \A f \in DOMAIN fs : cl[f] \subseteq dl[f]

LEMMA HomeStays ==
    ASSUME NEW fs, NEW gs, NEW cl, NEW dl, Grown(fs, gs), NamesKept(cl, dl, fs),
           NEW u, NEW f, NEW p \in Path, HomeOf(fs, cl, u, f, p)
    PROVE  HomeOf(gs, dl, u, f, p)
  <1>1. p.down \in Seq(Text)
    BY DEF Path, Text
  <1>2. ASSUME NEW r \in DOMAIN fs, fs[r].owner = u, fs[r].parent = NoId,
               Way(fs, cl, r, p.down, f), f # NoId
        PROVE  HomeOf(gs, dl, u, f, p)
    <2>1. Way(gs, dl, r, p.down, f)
      BY <1>1, <1>2, WayStays DEF NamesKept
    <2>2. r \in DOMAIN gs /\ gs[r].owner = u /\ gs[r].parent = NoId
      BY <1>2 DEF Grown
    <2> QED BY <1>2, <2>1, <2>2 DEF HomeOf
  <1> QED BY <1>2 DEF HomeOf

\* What others do to the tables leaves a session's text right.
LEMMA KeptStays ==
    ASSUME NEW fs, NEW gs, NEW cl, NEW dl, Grown(fs, gs), NamesKept(cl, dl, fs),
           NEW s, NEW p \in [cwd : Path, old : Path], KeptIn(fs, cl, s, p)
    PROVE  KeptIn(gs, dl, s, p)
  <1>1. p.cwd \in Path /\ p.old \in Path /\ p.cwd.down \in Seq(Text)
    BY DEF Path, Text
  <1>2. ASSUME ShareOf(fs, cl, s.root, s.current, p.cwd)
        PROVE  ShareOf(gs, dl, s.root, s.current, p.cwd)
    <2> DEFINE names == Tail(p.cwd.down)
    <2>1. names \in Seq(Text) /\ Way(fs, cl, s.root, names, s.current)
      BY <1>1, <1>2 DEF ShareOf
    <2>2. \A f \in DOMAIN fs : cl[f] \subseteq dl[f]
      BY DEF NamesKept
    <2> HIDE DEF names
    <2>3. Way(gs, dl, s.root, names, s.current)
      BY <2>1, <2>2, WayStays
    <2> QED BY <1>2, <2>2, <2>3 DEF names, ShareOf, Grown
  <1> QED BY <1>1, <1>2, HomeStays DEF KeptIn, Kept

-----------------------------------------------------------------------------
(* A step of a thread: what it makes of its session's text.                *)

\* The cases of PathsAfter, of which at most one holds.
LEMMA AfterIs ==
    ASSUME NEW c \in Conns
    PROVE  /\ sess'[c].user = NoId => PathsAfter(c) = FreshPaths
           /\ sess'[c].user # NoId =>
                 /\ At(c, "check_login") => PathsAfter(c) = [path[c] EXCEPT !.cwd = Top]
                 /\ Done(c, "find_folder", "CD") =>
                       PathsAfter(c) = [path[c] EXCEPT !.cwd = Inside(@, req[c].name)]
                 /\ Done(c, "find_parent", "CD") =>
                       PathsAfter(c) = [path[c] EXCEPT !.cwd = Above(@)]
                 /\ Done(c, "access_info", Cmd(c)) =>
                       PathsAfter(c) = [cwd |-> [of |-> {folders[req[c].id].owner},
                                                 down |-> <<folders[req[c].id].name>>],
                                        old |-> path[c].cwd]
                 /\ Done(c, "idle", "EXIT_SHARED") =>
                       PathsAfter(c) = [path[c] EXCEPT !.cwd = path[c].old]
                 /\ \/ At(c, "check_login") \/ Done(c, "find_folder", "CD")
                    \/ Done(c, "find_parent", "CD") \/ Done(c, "idle", "EXIT_SHARED")
                    \/ Done(c, "access_info", Cmd(c))
                    \/ PathsAfter(c) = path[c]
  BY DEF PathsAfter, Done, At

\* The session and its text stay as they are.
Unmoved(c) == sess'[c] = sess[c] /\ PathsAfter(c) = path[c]

\* The request keeps its name.
LEMMA NextCmd ==
    ASSUME NEW c \in Conns, Typed
    PROVE  /\ \A code : Reply(c, code) => req'[c] = ReplyTo(req[c].cmd, code)
           /\ \A pc : Goto(c, pc) => req'[c].cmd = req[c].cmd
           /\ \A i, pc : Found(c, i, pc) => req'[c].cmd = req[c].cmd
           /\ \A cmd, code : ReplyTo(cmd, code).cmd = cmd /\ ReplyTo(cmd, code).code = code
  <1>1. \A cmd, code : ReplyTo(cmd, code).cmd = cmd /\ ReplyTo(cmd, code).code = code
    BY DEF ReplyTo, NoReq
  <1>2. ASSUME NEW code, Reply(c, code) PROVE req'[c] = ReplyTo(req[c].cmd, code)
    BY <1>2 DEF Reply, Then, Typed, Cmd
  <1> QED BY <1>1, <1>2, NextPc

\* A path is kept at the other statements of the handlers.
LEMMA Elsewhere ==
    ASSUME NEW c \in Conns, sess' = sess, sess[c].user # NoId,
           req[c].pc \notin {"idle", "check_login", "find_folder", "find_parent", "access_info"}
    PROVE  Unmoved(c)
  BY AfterIs DEF Unmoved, Done, At

\* A failure is answered with a code that is not 200.
LEMMA Failed ==
    ASSUME NEW c \in Conns, Typed, NEW code, code # 200, Reply(c, code), sess' = sess,
           sess[c].user # NoId, req[c].pc # "check_login"
    PROVE  Unmoved(c)
  <1>1. req'[c].code # 200
    BY NextCmd
  <1>2. \A pc, cmd : ~Done(c, pc, cmd)
    BY <1>1, NextCmd DEF Done
  <1> QED BY <1>2, AfterIs DEF Unmoved, At

\* Another command than CD at the select of a folder.
LEMMA NotCd ==
    ASSUME NEW c \in Conns, Typed, sess' = sess, sess[c].user # NoId, req[c].pc = "find_folder",
           req'[c].cmd # "CD"
    PROVE  Unmoved(c)
  <1>1. ~Done(c, "find_folder", "CD")
    BY NextCmd DEF Done
  <1> QED BY <1>1, AfterIs DEF Unmoved, Done, At

\* The lookup that several handlers share.
LEMMA LookupUnmoved ==
    ASSUME NEW c \in Conns, Inv, sess[c].user # NoId, sess' = sess,
           Cmd(c) \in FolderCommands, req[c].pc \in {"check_status", "find_folder"},
           NEW ret \in {"ERR", "DELETED", "NOT_FOUND", "NAME_NOT_FOUND"}, LookupFails(c, ret)
    PROVE  Unmoved(c)
  <1>0. Typed
    BY DEF Inv
  <1>1. CASE req[c].pc = "check_status"
    BY <1>1, Elsewhere
  <1>2. CASE req[c].pc = "find_folder" /\ Cmd(c) = "CD"
    <2>1. LookupCode["CD"][ret] # 0 /\ LookupCode["CD"][ret] # 200
      BY DEF LookupCode
    <2>2. Reply(c, LookupCode["CD"][ret])
      BY <1>2, <2>1 DEF LookupFails
    <2> QED BY <1>0, <1>2, <2>1, <2>2, Failed
  <1>3. CASE req[c].pc = "find_folder" /\ Cmd(c) # "CD"
    <2>1. req'[c].cmd = req[c].cmd
      BY <1>0, NextCmd DEF LookupFails
    <2> QED BY <1>0, <1>3, <2>1, NotCd DEF Cmd
  <1> QED BY <1>1, <1>2, <1>3

LEMMA FailureUnmoved ==
    ASSUME NEW c \in Conns, Inv, sess[c].user # NoId, StatementFails(c)
    PROVE  Unmoved(c)
  <1>1. CASE Reply(c, 500)
    <2>1. req[c].pc # "check_login"
      BY DEF Inv, ConnOK, SessionOK
    <2> QED BY <1>1, <2>1, Failed DEF StatementFails, Inv
  <1>2. CASE /\ req[c].pc \in {"check_status", "find_folder"}
             /\ Cmd(c) \in FolderCommands /\ LookupFails(c, "ERR")
    BY <1>2, LookupUnmoved DEF StatementFails
  <1> QED BY <1>1, <1>2 DEF StatementFails

\* The handlers that do not move the session.
LEMMA HandlersUnmoved ==
    ASSUME NEW c \in Conns, Inv, sess[c].user # NoId,
           \/ UserExists(c) \/ InsertUser(c) \/ CreateRoot(c) \/ CheckStatus(c)
           \/ ParentStatus(c) \/ ListStatus(c) \/ ListFiles(c) \/ ListFolders(c)
           \/ CheckAccessFolder(c) \/ Editing(c) \/ Transferring(c) \/ Permitting(c)
           \/ SendReply(c) \/ UploadReceived(c) \/ UploadBroken(c)
    PROVE  Unmoved(c)
  <1>0. Typed
    BY DEF Inv
  <1>1. CASE FindFolder(c)
    <2>1. sess' = sess /\ req[c].pc = "find_folder" /\ Cmd(c) # "CD"
      BY <1>1 DEF FindFolder, At, AfterLookup
    <2>2. req'[c].cmd = req[c].cmd
      BY <1>0, <1>1, NextCmd DEF FindFolder, LookupFails
    <2> QED BY <1>0, <2>1, <2>2, NotCd DEF Cmd
  <1>2. CASE ~FindFolder(c)
    <2>1. CASE \/ UserExists(c) \/ InsertUser(c) \/ CreateRoot(c) \/ CheckStatus(c)
               \/ ParentStatus(c) \/ ListStatus(c) \/ ListFiles(c) \/ ListFolders(c)
               \/ CheckAccessFolder(c) \/ SendReply(c) \/ UploadReceived(c) \/ UploadBroken(c)
      <3>1. /\ sess' = sess
            /\ req[c].pc \notin {"idle", "check_login", "find_folder", "find_parent", "access_info"}
        BY <2>1 DEF UserExists, InsertUser, CreateRoot, CheckStatus, ParentStatus, ListStatus,
                    ListFiles, ListFolders, CheckAccessFolder, SendReply, UploadReceived,
                    UploadBroken, At
      <3> QED BY <3>1, Elsewhere
    <2>2. CASE Editing(c)
      <3>1. /\ sess' = sess
            /\ req[c].pc \notin {"idle", "check_login", "find_folder", "find_parent", "access_info"}
        BY <1>2, <2>2
        DEF Editing, FindFile, ExistDirname, CreateFolder, CheckEmpty, FolderSoftDelete,
            RenameFindFile, FileRename, FolderRename, FileSoftDelete, At
      <3> QED BY <3>1, Elsewhere
    <2>3. CASE Transferring(c) \/ Permitting(c)
      <3>1. /\ sess' = sess
            /\ req[c].pc \notin {"idle", "check_login", "find_folder", "find_parent", "access_info"}
        BY <2>3
        DEF Transferring, FileExists, FileInsert, FindByName, SendFile, CheckAccessFile,
            AccessAgain, FindById, Permitting, FindUser, GrantFolder, RevokeFolder, GrantFile,
            RevokeFile, ListUsers, At
      <3> QED BY <3>1, Elsewhere
    <2> QED BY <2>1, <2>2, <2>3
  <1> QED BY <1>1, <1>2

-----------------------------------------------------------------------------
(* A request is received.                                                  *)

LEMMA ReceivedUnmoved ==
    ASSUME NEW c \in Conns, Typed, sess[c].user # NoId, NEW r, NEW refused,
           Receive(c, r, refused), r.cmd # "EXIT_SHARED"
    PROVE  Unmoved(c)
  <1>1. req'[c].cmd = r.cmd /\ sess' = sess /\ req[c].pc = "idle"
    BY NextCmd DEF Receive, Then, Typed, At
  <1>2. ~Done(c, "idle", "EXIT_SHARED")
    BY <1>1, NextCmd DEF Done
  <1> QED BY <1>1, <1>2, AfterIs DEF Unmoved, Done, At

LEMMA RequestCmds ==
    ASSUME NEW cmd, NEW pc, NEW n
    PROVE  /\ Request(cmd, pc, n).cmd = cmd
           /\ \A u : [Request(cmd, pc, n) EXCEPT !.arg = u].cmd = cmd
           /\ [NoReq EXCEPT !.cmd = cmd, !.pc = pc].cmd = cmd
           /\ \A i : [NoReq EXCEPT !.cmd = cmd, !.pc = pc, !.id = i].cmd = cmd
  BY DEF Request, NoReq

LEMMA DispatchUnmoved ==
    ASSUME NEW c \in Conns, Inv, sess[c].user # NoId, Dispatch(c),
           ~(Logout(c) \/ ExitShared(c))
    PROVE  Unmoved(c)
  <1>0. Typed
    BY DEF Inv
  <1>1. ASSUME NEW cmd, cmd # "EXIT_SHARED", NEW pc, NEW n, NEW refused,
               Receive(c, Request(cmd, pc, n), refused)
        PROVE  Unmoved(c)
    BY <1>0, <1>1, RequestCmds, ReceivedUnmoved
  <1>2. ASSUME NEW cmd, cmd # "EXIT_SHARED", NEW pc, NEW n, NEW u, NEW refused,
               Receive(c, [Request(cmd, pc, n) EXCEPT !.arg = u], refused)
        PROVE  Unmoved(c)
    <2> DEFINE r == [Request(cmd, pc, n) EXCEPT !.arg = u]
    <2>1. r.cmd = cmd /\ Receive(c, r, refused)
      BY <1>2, RequestCmds
    <2> HIDE DEF r
    <2> QED BY <1>0, <1>2, <2>1, ReceivedUnmoved
  <1>3. ASSUME NEW cmd, cmd # "EXIT_SHARED", NEW pc, NEW refused,
               Receive(c, [NoReq EXCEPT !.cmd = cmd, !.pc = pc], refused)
        PROVE  Unmoved(c)
    <2> DEFINE r == [NoReq EXCEPT !.cmd = cmd, !.pc = pc]
    <2>1. r.cmd = cmd /\ Receive(c, r, refused)
      BY <1>3, RequestCmds
    <2> HIDE DEF r
    <2> QED BY <1>0, <1>3, <2>1, ReceivedUnmoved
  <1>4. ASSUME NEW cmd, cmd # "EXIT_SHARED", NEW pc, NEW i, NEW refused,
               Receive(c, [NoReq EXCEPT !.cmd = cmd, !.pc = pc, !.id = i], refused)
        PROVE  Unmoved(c)
    <2> DEFINE r == [NoReq EXCEPT !.cmd = cmd, !.pc = pc, !.id = i]
    <2>1. r.cmd = cmd /\ Receive(c, r, refused)
      BY <1>4, RequestCmds
    <2> HIDE DEF r
    <2> QED BY <1>0, <1>4, <2>1, ReceivedUnmoved
  <1>5. ASSUME NEW n, NEW u, NEW role, BeginShareFolder(c, n, u, role) PROVE Unmoved(c)
    <2> DEFINE r == [ShareRequest("SHARE_FOLDER", "find_user", n, u) EXCEPT !.role = role]
    <2>1. r.cmd = "SHARE_FOLDER"
      BY DEF ShareRequest, Request, NoReq
    <2>2. Receive(c, r, NeedHome(c))
      BY <1>5 DEF BeginShareFolder
    <2> HIDE DEF r
    <2> QED BY <1>0, <2>1, <2>2, ReceivedUnmoved
  <1>6. ASSUME NEW n,
               \/ BeginRegister(c, n) \/ BeginLogin(c, n) \/ BeginCdUp(c) \/ BeginList(c)
               \/ BeginListSharedWithMe(c, n) \/ BeginOpen(c, n) \/ BeginDownloadShared(c, n)
        PROVE  Unmoved(c)
    BY <1>1, <1>3, <1>4, <1>6
    DEF BeginRegister, BeginLogin, BeginCdUp, BeginList, BeginListSharedWithMe, BeginOpen,
        BeginDownloadShared
  <1>7. ASSUME NEW n,
               \/ BeginCd(c, n) \/ BeginMkdir(c, n) \/ BeginRmdir(c, n) \/ BeginDelete(c, n)
               \/ BeginUpload(c, n) \/ BeginDownload(c, n)
               \/ BeginListShareFolder(c, n) \/ BeginListShareFile(c, n)
        PROVE  Unmoved(c)
    BY <1>1, <1>7
    DEF BeginCd, BeginMkdir, BeginRmdir, BeginDelete, BeginUpload, BeginDownload,
        BeginListShareFolder, BeginListShareFile
  <1>8. ASSUME NEW n, NEW u,
               \/ BeginRename(c, n, u) \/ BeginUnshareFolder(c, n, u)
               \/ BeginShareFile(c, n, u) \/ BeginUnshareFile(c, n, u)
        PROVE  Unmoved(c)
    BY <1>2, <1>8
    DEF BeginRename, BeginUnshareFolder, BeginShareFile, BeginUnshareFile, ShareRequest
  <1> QED BY <1>5, <1>6, <1>7, <1>8 DEF Dispatch

-----------------------------------------------------------------------------
(* The steps that move a session.                                          *)

KeptNext(c) == Kept(folders, called, sess'[c], PathsAfter(c))

LEMMA UnmovedKept ==
    ASSUME NEW c \in Conns, PathsInv, sess[c].user # NoId, Unmoved(c) PROVE KeptNext(c)
  BY DEF PathsInv, KeptIn, Unmoved, KeptNext

LEMMA FreshText == FreshSession.user = NoId /\ FreshSession.current = NoId /\ ~FreshSession.sharing
  BY DEF FreshSession

\* LOGIN: "/", before the root is looked up
LEMMA CheckLoginKept ==
    ASSUME NEW c \in Conns, PathsInv, CheckLogin(c), sess'[c].user # NoId PROVE KeptNext(c)
  <1>1. sess[c] = FreshSession /\ req[c].pc = "check_login"
    BY DEF PathsInv, Inv, ConnOK, SessionOK, CheckLogin, At
  <1>2. PICK u : sess' = [sess EXCEPT ![c] = [sess[c] EXCEPT !.user = u]]
    BY <1>1, FreshText DEF CheckLogin, SetSession
  <1>3. sess'[c] = [FreshSession EXCEPT !.user = u]
    BY <1>1, <1>2 DEF PathsInv, Inv, Typed
  <1>4. sess'[c].current = NoId /\ ~sess'[c].sharing
    BY <1>3, FreshText DEF FreshSession
  <1>5. PathsAfter(c).cwd = Top
    <2>1. path[c] \in [cwd : Path, old : Path]
      BY DEF PathsInv, PathsTyped
    <2> QED BY <1>1, <2>1, AfterIs DEF At
  <1> QED BY <1>4, <1>5 DEF KeptNext, Kept, HomeOf

LEMMA FindRootKept ==
    ASSUME NEW c \in Conns, PathsInv, FindRoot(c), sess[c].user # NoId PROVE KeptNext(c)
  <1>0. req[c].pc = "find_root"
    BY DEF FindRoot, At
  <1>1. CASE sess' = sess
    BY <1>0, <1>1, Elsewhere, UnmovedKept
  <1>2. ASSUME NEW f \in RootsOf(sess[c].user), SetSession(c, [sess[c] EXCEPT !.current = f])
        PROVE  KeptNext(c)
    <2>1. sess'[c] = [sess[c] EXCEPT !.current = f] /\ sess[c] \in Session
      BY <1>2 DEF SetSession, PathsInv, Inv, Typed
    <2>2. sess'[c].current = f /\ sess'[c].user = sess[c].user /\ sess'[c].sharing = sess[c].sharing
      BY <2>1 DEF Session
    <2>3. sess[c].current = NoId /\ ~sess[c].sharing
      BY <1>0 DEF PathsInv, Inv, ConnOK, SessionOK, FreshSession
    <2>4. PathsAfter(c) = path[c]
      BY <1>0, <2>2, AfterIs DEF Done, At
    <2>5. HomeOf(folders, called, sess[c].user, NoId, path[c].cwd)
      BY <2>3 DEF PathsInv, KeptIn, Kept
    <2>6. f \in DOMAIN folders /\ folders[f].owner = sess[c].user /\ folders[f].parent = NoId
      BY DEF RootsOf, FolderIds
    <2>7. f # NoId
      BY <2>6 DEF PathsInv, Inv, Tables, NoId
    <2>8. Way(folders, called, f, Top.down, f)
      BY <2>6, WayHere DEF Top
    <2> QED BY <2>2, <2>3, <2>4, <2>5, <2>6, <2>7, <2>8 DEF KeptNext, Kept, HomeOf
  <1> QED BY <1>1, <1>2 DEF FindRoot

\* A session enters a folder, with a new text for where it is.
LEMMA Entered ==
    ASSUME NEW c \in Conns, PathsInv, NEW f, EnterFolder(c, f)
    PROVE  /\ sess'[c].current = f /\ sess'[c].user = sess[c].user
           /\ sess'[c].sharing = sess[c].sharing /\ sess'[c].root = sess[c].root
           /\ sess'[c].old = sess[c].old
           /\ req'[c] = ReplyTo(req[c].cmd, 200)
  <1>1. sess'[c] = [sess[c] EXCEPT !.current = f] /\ sess[c] \in Session
    BY DEF EnterFolder, SetSession, PathsInv, Inv, Typed
  <1>2. req'[c] = ReplyTo(req[c].cmd, 200)
    BY NextCmd DEF EnterFolder, PathsInv, Inv
  <1> QED BY <1>1, <1>2 DEF Session

\* CD <name>: a name more, that of the folder found
LEMMA CdDownKept ==
    ASSUME NEW c \in Conns, PathsInv, CdDown(c), sess[c].user # NoId PROVE KeptNext(c)
  <1> DEFINE s == sess[c]
             n == req[c].name
             p == path[c].cwd
  <1>0. /\ req[c].pc = "find_folder" /\ req[c].cmd = "CD" /\ s.current \in DOMAIN folders
        /\ KeptIn(folders, called, s, path[c])
        /\ path[c] \in [cwd : Path, old : Path]
    BY DEF CdDown, At, Cmd, PathsInv, PathsTyped, Inv, ConnOK, StandsOK
  <1>1. ASSUME LookupFails(c, "NAME_NOT_FOUND"), sess' = sess PROVE KeptNext(c)
    <2>1. Cmd(c) \in FolderCommands /\ Inv
      BY <1>0 DEF Cmd, FolderCommands, LookupCode, PathsInv
    <2> QED BY <1>0, <1>1, <2>1, LookupUnmoved, UnmovedKept
  <1>2. ASSUME NEW g \in FoldersNamed(s.current, n), EnterFolder(c, g) PROVE KeptNext(c)
    <2>1. /\ g \in DOMAIN folders /\ folders[g].parent = s.current /\ folders[g].name = n
          /\ n \in called[g] /\ n \in Text
      <3>1. g \in FolderIds /\ folders[g].parent = s.current /\ folders[g].name = n
        BY DEF FoldersNamed
      <3>2. folders[g] \in FolderRow
        BY <3>1 DEF PathsInv, Inv, Tables, FolderIds
      <3>3. folders[g].name \in Text
        BY <3>2 DEF FolderRow, Text
      <3> QED BY <3>1, <3>3 DEF PathsInv, FolderIds
    <2>2. /\ sess'[c].current = g /\ sess'[c].user = s.user /\ sess'[c].sharing = s.sharing
          /\ sess'[c].root = s.root /\ sess'[c].old = s.old
          /\ Done(c, "find_folder", "CD")
      BY <1>0, <1>2, Entered DEF Done, At
    <2>3. PathsAfter(c) = [path[c] EXCEPT !.cwd = Inside(@, n)]
      BY <2>2, AfterIs
    <2>4. p \in Path /\ p.down \in Seq(Text)
      BY <1>0 DEF Path, Text
    <2>5. /\ PathsAfter(c).cwd.of = p.of /\ PathsAfter(c).cwd.down = Append(p.down, n)
          /\ PathsAfter(c).old = path[c].old
      BY <1>0, <2>3, <2>4 DEF Inside, Path
    <2>6. g # NoId /\ s.current # NoId
      BY <1>0, <2>1 DEF PathsInv, Inv, Tables, NoId
    <2>7. CASE ~s.sharing
      <3>1. HomeOf(folders, called, s.user, s.current, p)
        BY <1>0, <2>7 DEF KeptIn, Kept
      <3>2. ASSUME NEW r \in DOMAIN folders, Way(folders, called, r, p.down, s.current)
            PROVE  Way(folders, called, r, Append(p.down, n), g)
        BY <2>1, <2>4, <3>2, WayDown
      <3>3. HomeOf(folders, called, s.user, g, PathsAfter(c).cwd)
        BY <2>5, <2>6, <3>1, <3>2 DEF HomeOf
      <3> QED BY <2>2, <2>7, <3>3 DEF KeptNext, Kept
    <2>8. CASE s.sharing
      <3>1. /\ ShareOf(folders, called, s.root, s.current, p)
            /\ HomeOf(folders, called, s.user, s.old, path[c].old)
        BY <1>0, <2>8 DEF KeptIn, Kept
      <3> DEFINE names == Tail(p.down)
                 longer == Append(p.down, n)
      <3>2. /\ names \in Seq(Text) /\ Way(folders, called, s.root, names, s.current)
            /\ p.down # <<>>
        BY <2>4, <3>1 DEF ShareOf
      <3>3. /\ longer # <<>> /\ Head(longer) = Head(p.down)
            /\ Len(Tail(longer)) = Len(Append(names, n))
            /\ \A i \in 1..Len(Append(names, n)) : Tail(longer)[i] = Append(names, n)[i]
        BY <2>1, <2>4, <3>2, LongerTail
      <3> HIDE DEF names
      <3>4. Way(folders, called, s.root, Append(names, n), g)
        BY <2>1, <3>2, WayDown
      <3>5. Way(folders, called, s.root, Tail(longer), g)
        BY <3>3, <3>4, WaySame
      <3>6. ShareOf(folders, called, s.root, g, PathsAfter(c).cwd)
        BY <2>5, <3>1, <3>3, <3>5 DEF ShareOf
      <3> QED BY <2>2, <2>5, <2>8, <3>1, <3>6 DEF KeptNext, Kept
    <2> QED BY <2>7, <2>8
  <1> QED BY <1>1, <1>2 DEF CdDown

\* CD .. : a name less; at a root there is none, at the opened folder CD ..
\* is refused
LEMMA CdUpKept ==
    ASSUME NEW c \in Conns, PathsInv, CdUp(c), sess[c].user # NoId PROVE KeptNext(c)
  <1> DEFINE s == sess[c]
             p == path[c].cwd
             f == s.current
             g == folders[f].parent
  <1>0. /\ req[c].pc = "find_parent" /\ req[c].cmd = "CD" /\ f \in DOMAIN folders
        /\ ~(s.sharing /\ f = s.root)
        /\ KeptIn(folders, called, s, path[c])
        /\ path[c] \in [cwd : Path, old : Path]
    BY DEF CdUp, At, PathsInv, PathsTyped, Inv, ConnOK, ControlOK, SessionOK, StandsOK
  <1>1. p \in Path /\ p.down \in Seq(Text) /\ f # NoId /\ NoId \notin DOMAIN folders
    BY <1>0 DEF Path, Text, PathsInv, Inv, Tables, NoId
  <1>2. PICK to : EnterFolder(c, to) /\ to = (IF g = NoId THEN f ELSE g)
    BY DEF CdUp
  <1>3. /\ sess'[c].current = to /\ sess'[c].user = s.user /\ sess'[c].sharing = s.sharing
        /\ sess'[c].root = s.root /\ sess'[c].old = s.old
        /\ Done(c, "find_parent", "CD")
    BY <1>0, <1>2, Entered DEF Done, At
  <1>4. PathsAfter(c) = [path[c] EXCEPT !.cwd = Above(@)]
    BY <1>3, AfterIs
  <1>5. /\ PathsAfter(c).cwd.of = p.of
        /\ PathsAfter(c).cwd.down = (IF p.down = <<>> THEN p.down ELSE Front(p.down))
        /\ PathsAfter(c).old = path[c].old
    BY <1>0, <1>1, <1>4 DEF Above, Path
  <1> DEFINE down == PathsAfter(c).cwd.down
  <1>6. CASE ~s.sharing
    <2>1. HomeOf(folders, called, s.user, f, p)
      BY <1>0, <1>6 DEF KeptIn, Kept
    <2>2. ASSUME NEW r \in DOMAIN folders, folders[r].parent = NoId,
                 Way(folders, called, r, p.down, f)
          PROVE  Way(folders, called, r, down, to) /\ to # NoId
      <3>1. CASE p.down = <<>>
        <4>0. Len(p.down) = 0
          BY <3>1
        <4>1. f = r
          BY <1>1, <2>2, <4>0, WayEnds
        <4> QED BY <1>1, <1>2, <1>5, <2>2, <3>1, <4>1
      <3>2. CASE p.down # <<>>
        <4>1. g \in DOMAIN folders
          BY <1>1, <2>2, <3>2, WayEnds
        <4>2. Way(folders, called, r, Front(p.down), g)
          BY <1>1, <2>2, <3>2, WayUp
        <4> QED BY <1>1, <1>2, <1>5, <3>2, <4>1, <4>2
      <3> QED BY <3>1, <3>2
    <2>3. HomeOf(folders, called, s.user, to, PathsAfter(c).cwd)
      BY <1>1, <1>5, <2>1, <2>2 DEF HomeOf
    <2> QED BY <1>3, <1>6, <2>3 DEF KeptNext, Kept
  <1>7. CASE s.sharing
    <2>1. /\ ShareOf(folders, called, s.root, f, p)
          /\ HomeOf(folders, called, s.user, s.old, path[c].old)
      BY <1>0, <1>7 DEF KeptIn, Kept
    <2> DEFINE names == Tail(p.down)
    <2>2. /\ names \in Seq(Text) /\ Way(folders, called, s.root, names, f)
          /\ p.down # <<>>
      BY <1>1, <2>1 DEF ShareOf
    <2>3. names # <<>> => /\ Front(p.down) # <<>> /\ Head(Front(p.down)) = Head(p.down)
                          /\ Len(Tail(Front(p.down))) = Len(Front(names))
                          /\ \A i \in 1..Len(Front(names)) :
                                Tail(Front(p.down))[i] = Front(names)[i]
      BY <1>1, <2>2, ShorterTail
    <2> HIDE DEF names
    <2>4. names # <<>> /\ Len(names) # 0
      BY <1>0, <1>7, <2>2, WayEnds
    <2>5. g \in DOMAIN folders /\ Way(folders, called, s.root, Front(names), g)
      BY <2>2, <2>4, WayEnds, WayUp
    <2>6. down = Front(p.down) /\ to = g
      BY <1>1, <1>2, <1>5, <2>2, <2>5
    <2>7. Way(folders, called, s.root, Tail(down), to)
      BY <2>3, <2>4, <2>5, <2>6, WaySame
    <2>8. ShareOf(folders, called, s.root, to, PathsAfter(c).cwd)
      BY <1>5, <2>1, <2>3, <2>4, <2>6, <2>7 DEF ShareOf
    <2> QED BY <1>3, <1>5, <1>7, <2>1, <2>8 DEF KeptNext, Kept
  <1> QED BY <1>6, <1>7

\* OPEN_SHARED_FOLDER: the owner and the name of the folder; where the
\* session was, and its text, are put aside together, of a share or not
LEMMA OpenSharedKept ==
    ASSUME NEW c \in Conns, PathsInv, OpenShared(c), sess[c].user # NoId PROVE KeptNext(c)
  <1> DEFINE s == sess[c]
             f == req[c].id
             name == folders[f].name
  <1>0. /\ req[c].pc = "access_info" /\ KeptIn(folders, called, s, path[c])
        /\ path[c] \in [cwd : Path, old : Path] /\ s \in Session /\ Typed
    BY DEF OpenShared, At, PathsInv, PathsTyped, Inv, Typed
  <1>1. ASSUME Reply(c, 402), sess' = sess PROVE KeptNext(c)
    BY <1>0, <1>1, Failed, UnmovedKept
  <1>2. ASSUME NEW w \in folderPerms, w.folder = f,
               SetSession(c, [s EXCEPT !.sharing = TRUE, !.old = s.current, !.root = f,
                                       !.current = f, !.role = w.role]),
               Reply(c, 200)
        PROVE  KeptNext(c)
    <2>1. f \in DOMAIN folders /\ name \in called[f]
      BY <1>2 DEF PathsInv, Inv, TreeOK, FolderIds
    <2>2. sess'[c] = [s EXCEPT !.sharing = TRUE, !.old = s.current, !.root = f,
                               !.current = f, !.role = w.role]
      BY <1>0, <1>2 DEF SetSession, Typed
    <2>3. /\ sess'[c].sharing /\ sess'[c].old = s.current /\ sess'[c].root = f
          /\ sess'[c].current = f /\ sess'[c].user = s.user
      BY <1>0, <2>2 DEF Session
    <2>4. Done(c, "access_info", Cmd(c))
      BY <1>0, <1>2, NextCmd DEF Done, At, Cmd
    <2>5. PathsAfter(c) = [cwd |-> [of |-> {folders[f].owner}, down |-> <<name>>],
                           old |-> path[c].cwd]
      BY <2>3, <2>4, AfterIs
    <2>6. /\ PathsAfter(c).cwd.of = {folders[f].owner} /\ PathsAfter(c).cwd.down = <<name>>
          /\ PathsAfter(c).old = path[c].cwd
      BY <2>5
    <2>7. Way(folders, called, f, Tail(<<name>>), f) /\ Head(<<name>>) = name /\ <<name>> # <<>>
      <3>1. Tail(<<name>>) = <<>>
        OBVIOUS
      <3> QED BY <2>1, <3>1, WayHere
    <2>8. ShareOf(folders, called, f, f, PathsAfter(c).cwd)
      BY <2>1, <2>6, <2>7 DEF ShareOf
    <2>9. HomeOf(folders, called, s.user, s.current, path[c].cwd)
      BY <1>0 DEF KeptIn, Kept, ShareOf, HomeOf
    <2> QED BY <2>3, <2>6, <2>8, <2>9 DEF KeptNext, Kept
  <1> QED BY <1>1, <1>2 DEF OpenShared

\* EXIT_SHARED: what was put aside
LEMMA ExitSharedKept ==
    ASSUME NEW c \in Conns, PathsInv, ExitShared(c), sess[c].user # NoId PROVE KeptNext(c)
  <1> DEFINE s == sess[c]
  <1>0. /\ req[c].pc = "idle" /\ KeptIn(folders, called, s, path[c])
        /\ path[c] \in [cwd : Path, old : Path] /\ s \in Session /\ Typed
    BY DEF ExitShared, At, PathsInv, PathsTyped, Inv, Typed
  <1>1. CASE s.sharing
    <2>1. /\ sess'[c] = [s EXCEPT !.sharing = FALSE, !.current = s.old,
                                  !.root = NoId, !.old = NoId]
          /\ Done(c, "idle", "EXIT_SHARED")
      BY <1>0, <1>1 DEF ExitShared, LoggedIn, SetSession, Then, Typed, Done, At
    <2>2. ~sess'[c].sharing /\ sess'[c].current = s.old /\ sess'[c].user = s.user
      BY <1>0, <2>1 DEF Session
    <2>3. PathsAfter(c) = [path[c] EXCEPT !.cwd = path[c].old]
      BY <2>1, <2>2, AfterIs
    <2>4. PathsAfter(c).cwd = path[c].old
      BY <1>0, <2>3
    <2>5. HomeOf(folders, called, s.user, s.old, path[c].old)
      BY <1>0, <1>1 DEF KeptIn, Kept
    <2> QED BY <2>2, <2>4, <2>5 DEF KeptNext, Kept
  <1>2. CASE ~s.sharing
    <2>1. sess' = sess /\ req'[c] = ReplyTo("EXIT_SHARED", 409)
      BY <1>0, <1>2 DEF ExitShared, LoggedIn, Then, Typed
    <2>2. ~Done(c, "idle", "EXIT_SHARED")
      BY <2>1, <1>0, NextCmd DEF Done
    <2>3. Unmoved(c)
      BY <1>0, <2>1, <2>2, AfterIs DEF Unmoved, Done, At
    <2> QED BY <2>3, UnmovedKept
  <1> QED BY <1>1, <1>2

LEMMA StepKept ==
    ASSUME NEW c \in Conns, PathsInv, Step(c), sess[c].user # NoId, sess'[c].user # NoId
    PROVE  KeptNext(c)
  <1>0. Inv /\ Typed
    BY DEF PathsInv, Inv
  <1>1. CASE Logout(c) \/ Disconnect(c)
    <2>1. FALSE
      BY <1>0, <1>1, FreshText DEF Logout, Disconnect, SetSession, LoggedIn, Typed
    <2> QED BY <2>1
  <1>2. CASE ExitShared(c)
    BY <1>2, ExitSharedKept
  <1>3. CASE Dispatch(c) /\ ~(Logout(c) \/ ExitShared(c))
    BY <1>0, <1>3, DispatchUnmoved, UnmovedKept
  <1>4. CASE Accounting(c)
    BY <1>0, <1>4, CheckLoginKept, FindRootKept, HandlersUnmoved, UnmovedKept DEF Accounting
  <1>5. CASE Navigating(c)
    BY <1>0, <1>5, CdDownKept, CdUpKept, OpenSharedKept, HandlersUnmoved, UnmovedKept
    DEF Navigating
  <1>6. CASE \/ Editing(c) \/ Transferring(c) \/ Permitting(c) \/ SendReply(c)
             \/ UploadReceived(c) \/ UploadBroken(c)
    BY <1>0, <1>6, HandlersUnmoved, UnmovedKept
  <1>7. CASE StatementFails(c)
    BY <1>0, <1>7, FailureUnmoved, UnmovedKept
  <1> QED BY <1>1, <1>2, <1>3, <1>4, <1>5, <1>6, <1>7 DEF Step, Serve

\* Only the password's check makes a session somebody's.
LEMMA NobodyKept ==
    ASSUME NEW c \in Conns, PathsInv, Step(c), sess[c].user = NoId, sess'[c].user # NoId
    PROVE  KeptNext(c)
  <1>0. Inv /\ Typed /\ LocalStep(c)
    BY DispatchStep, ServeStep DEF PathsInv, Inv, Step, Begun
  <1>1. sess'[c] # sess[c] /\ sess[c] = FreshSession
    BY <1>0 DEF Inv, ConnOK, SessionOK
  <1>2. CASE CheckLogin(c)
    BY <1>2, CheckLoginKept
  <1>3. CASE ~CheckLogin(c)
    <2>1. CASE FindRoot(c) \/ CdDown(c) \/ CdUp(c) \/ OpenShared(c)
      <3>1. /\ req[c].pc \in {"find_root", "find_folder", "find_parent", "access_info"}
            /\ req[c].pc = "find_folder" => req[c].cmd = "CD"
        BY <2>1 DEF FindRoot, CdDown, CdUp, OpenShared, At, Cmd
      <3>2. sess[c].user # NoId
        BY <1>0, <3>1 DEF Inv, ConnOK, ControlOK, SessionOK, Serving
      <3> QED BY <3>2
    <2>2. CASE Dispatch(c) \/ Disconnect(c)
      <3>1. sess'[c] = sess[c] \/ sess'[c] = FreshSession
        BY <1>0, <1>1, <2>2, FreshText
        DEF Dispatch, BeginRegister, BeginLogin, BeginCdUp, BeginList, BeginCd,
         BeginMkdir, BeginRmdir, BeginDelete, BeginUpload, BeginDownload, BeginListShareFolder,
         BeginListShareFile, BeginRename, BeginUnshareFolder, BeginShareFile, BeginUnshareFile,
         BeginShareFolder, BeginOpen, BeginDownloadShared, BeginListSharedWithMe, Receive,
         Logout, ExitShared, Disconnect, LoggedIn, SetSession, Typed
      <3> QED BY <1>1, <3>1
    <2>3. CASE Serve(c) \/ UploadReceived(c) \/ UploadBroken(c)
      <3>1. sess' = sess \/ FindRoot(c) \/ CdDown(c) \/ CdUp(c) \/ OpenShared(c)
        BY <1>3, <2>3
        DEF Serve, Accounting, Navigating, Editing, Transferring, Permitting,
           UserExists, InsertUser, CreateRoot, CheckStatus, ParentStatus,
           ListStatus, ListFiles, ListFolders, CheckAccessFolder, FindFolder, FindFile,
           ExistDirname, CheckEmpty, RenameFindFile, FileExists, FindByName, SendFile,
           CheckAccessFile, AccessAgain, FindById, FindUser, GrantFile, ListUsers, SendReply,
           UploadReceived, UploadBroken, StatementFails, CreateFolder, FolderSoftDelete,
           FolderRename, FileRename, FileSoftDelete, FileInsert, GrantFolder, RevokeFolder,
           RevokeFile
      <3> QED BY <1>1, <2>1, <3>1
    <2> QED BY <2>2, <2>3 DEF Step
  <1> QED BY <1>2, <1>3

-----------------------------------------------------------------------------
(* The invariant.                                                          *)

LEMMA TextTyped ==
    /\ Top \in Path /\ FreshPaths \in [cwd : Path, old : Path]
    /\ \A p \in Path : Above(p) \in Path
    /\ \A p \in Path, n \in Text : Inside(p, n) \in Path
    /\ \A o \in Nat, n \in Text : [of |-> {o}, down |-> <<n>>] \in Path
  <1>1. Top \in Path
    BY DEF Top, Path
  <1>2. ASSUME NEW p \in Path PROVE Above(p) \in Path
    <2>1. p.of \in SUBSET Nat /\ p.down \in Seq(Text) /\ p = [of |-> p.of, down |-> p.down]
      BY DEF Path, Text
    <2>2. (IF p.down = <<>> THEN p.down ELSE Front(p.down)) \in Seq(Text)
      BY <2>1, FrontIs
    <2>3. Above(p) = [of |-> p.of, down |-> IF p.down = <<>> THEN p.down ELSE Front(p.down)]
      BY <2>1 DEF Above, Path
    <2> QED BY <2>1, <2>2, <2>3 DEF Path, Text
  <1>3. ASSUME NEW p \in Path, NEW n \in Text PROVE Inside(p, n) \in Path
    <2>1. p.of \in SUBSET Nat /\ p.down \in Seq(Text)
      BY DEF Path, Text
    <2>2. Append(p.down, n) \in Seq(Text)
      BY <2>1
    <2>3. Inside(p, n) = [of |-> p.of, down |-> Append(p.down, n)]
      BY <2>1 DEF Inside, Path
    <2> QED BY <2>1, <2>2, <2>3 DEF Path, Text
  <1>4. ASSUME NEW o \in Nat, NEW n \in Text PROVE [of |-> {o}, down |-> <<n>>] \in Path
    BY DEF Path, Text
  <1> QED BY <1>1, <1>2, <1>3, <1>4 DEF FreshPaths

\* What a CD or an opening answered with 200 has found.
LEMMA FoundNamed ==
    ASSUME NEW c \in Conns, Inv, Step(c), req'[c].code = 200, req'[c].cmd = "CD",
           req[c].pc = "find_folder"
    PROVE  req[c].name \in Text
  <1>1. CASE CdDown(c)
    <2>1. ASSUME NEW g \in FoldersNamed(sess[c].current, req[c].name) PROVE req[c].name \in Text
      <3>1. g \in DOMAIN folders /\ folders[g].name = req[c].name
        BY DEF FoldersNamed, FolderIds
      <3>2. folders[g] \in FolderRow
        BY <3>1 DEF Inv, Tables
      <3> QED BY <3>1, <3>2 DEF FolderRow, Text
    <2>2. ASSUME LookupFails(c, "NAME_NOT_FOUND") PROVE FALSE
      <3>1. Reply(c, 409)
        BY <1>1, <2>2 DEF CdDown, LookupFails, LookupCode
      <3> QED BY <3>1, NextCmd DEF Inv
    <2> QED BY <1>1, <2>1, <2>2 DEF CdDown
  <1>2. CASE FindFolder(c)
    <2>1. req'[c].cmd = Cmd(c) /\ Cmd(c) # "CD"
      BY <1>2, NextCmd DEF FindFolder, LookupFails, AfterLookup, Inv, Cmd
    <2> QED BY <2>1
  <1>3. CASE StatementFails(c)
    <2>1. LookupFails(c, "ERR") /\ Cmd(c) = "CD"
      BY <1>3, NextCmd DEF StatementFails, At, LookupFails, FailsWith500, Inv, Cmd
    <2>2. Reply(c, 500)
      BY <2>1 DEF LookupFails, LookupCode
    <2> QED BY <2>2, NextCmd DEF Inv
  <1>4. CASE Dispatch(c) \/ Disconnect(c)
    BY <1>4, DispatchIdle DEF Disconnect, At
  <1> QED BY <1>1, <1>2, <1>3, <1>4
    DEF Step, Serve, Accounting, Navigating, Editing, Transferring, Permitting, At,
        UserExists, InsertUser, CreateRoot, CheckLogin, FindRoot, CheckStatus, ParentStatus,
        CdUp, ListStatus, ListFiles, ListFolders, CheckAccessFolder, OpenShared, FindFile,
        ExistDirname, CreateFolder, CheckEmpty, FolderSoftDelete, RenameFindFile, FileRename,
        FolderRename, FileSoftDelete, FileExists, FileInsert, FindByName, SendFile,
        CheckAccessFile, AccessAgain, FindById, FindUser, GrantFolder, RevokeFolder, GrantFile,
        RevokeFile, ListUsers, SendReply, UploadReceived, UploadBroken

LEMMA OpenedIs ==
    ASSUME NEW c \in Conns, Inv, Step(c), req'[c].code = 200, req[c].pc = "access_info"
    PROVE  req[c].id \in FolderIds
  <1> DEFINE f == req[c].id
             s == sess[c]
  <1>1. CASE OpenShared(c)
    <2>1. ~Reply(c, 402)
      BY NextCmd DEF Inv
    <2>2. \A p \in folderPerms : p.folder \in FolderIds
      BY DEF Inv, TreeOK
    <2>3. ASSUME NEW p \in folderPerms, p.folder = f, p.user = s.user,
                 SetSession(c, [s EXCEPT !.sharing = TRUE, !.old = s.current, !.root = f,
                                         !.current = f, !.role = p.role]),
                 Reply(c, 200)
          PROVE  f \in FolderIds
      BY <2>2, <2>3
    <2>4. ASSUME Reply(c, 402), sess' = sess PROVE f \in FolderIds
      BY <2>1, <2>4
    <2> QED BY <1>1, <2>3, <2>4 DEF OpenShared
  <1>2. CASE StatementFails(c)
    <2>1. Reply(c, 500)
      BY <1>2 DEF StatementFails, At
    <2> QED BY <2>1, NextCmd DEF Inv
  <1>3. CASE Dispatch(c) \/ Disconnect(c)
    BY <1>3, DispatchIdle DEF Disconnect, At
  <1> QED BY <1>1, <1>2, <1>3
    DEF Step, Serve, Accounting, Navigating, Editing, Transferring, Permitting, At,
        UserExists, InsertUser, CreateRoot, CheckLogin, FindRoot, CheckStatus, CdDown,
        ParentStatus, CdUp, ListStatus, ListFiles, ListFolders, CheckAccessFolder, FindFile,
        FindFolder, ExistDirname, CreateFolder, CheckEmpty, FolderSoftDelete, RenameFindFile,
        FileRename, FolderRename, FileSoftDelete, FileExists, FileInsert, FindByName, SendFile,
        CheckAccessFile, AccessAgain, FindById, FindUser, GrantFolder, RevokeFolder, GrantFile,
        RevokeFile, ListUsers, SendReply, UploadReceived, UploadBroken

\* The names a session is told are of folders that were there.
LEMMA AfterTyped ==
    ASSUME NEW c \in Conns, PathsInv, Step(c) PROVE PathsAfter(c) \in [cwd : Path, old : Path]
  <1> DEFINE p == path[c]
             f == req[c].id
  <1>0. p \in [cwd : Path, old : Path] /\ p.cwd \in Path /\ p.old \in Path /\ Inv /\ Typed
    BY DEF PathsInv, PathsTyped, Inv
  <1>1. CASE Done(c, "find_folder", "CD")
    <2>1. req'[c].code = 200 /\ req'[c].cmd = "CD" /\ req[c].pc = "find_folder"
      BY <1>0, <1>1, NextCmd DEF Done, At
    <2>2. req[c].name \in Text
      BY <1>0, <2>1, FoundNamed
    <2>3. PathsAfter(c) \in {FreshPaths, [p EXCEPT !.cwd = Inside(@, req[c].name)]}
      BY <1>1, AfterIs
    <2> QED BY <1>0, <2>2, <2>3, TextTyped
  <1>2. CASE Done(c, "access_info", Cmd(c))
    <2>1. req'[c].code = 200 /\ req[c].pc = "access_info"
      BY <1>0, <1>2, NextCmd DEF Done, At
    <2>2. f \in FolderIds
      BY <1>0, <2>1, OpenedIs
    <2>3. folders[f] \in FolderRow
      BY <1>0, <2>2 DEF Inv, Tables, FolderIds
    <2>4. folders[f].owner \in Nat /\ folders[f].name \in Text
      BY <2>3 DEF FolderRow, Text
    <2>5. PathsAfter(c) \in {FreshPaths,
              [cwd |-> [of |-> {folders[f].owner}, down |-> <<folders[f].name>>],
               old |-> p.cwd]}
      BY <1>2, AfterIs
    <2> QED BY <1>0, <2>4, <2>5, TextTyped
  <1>3. CASE ~Done(c, "find_folder", "CD") /\ ~Done(c, "access_info", Cmd(c))
    <2>1. PathsAfter(c) \in {FreshPaths, p, [p EXCEPT !.cwd = Top], [p EXCEPT !.cwd = Above(@)],
                             [p EXCEPT !.cwd = p.old]}
      BY <1>3, AfterIs
    <2> QED BY <1>0, <2>1, TextTyped
  <1> QED BY <1>1, <1>2, <1>3

LEMMA PathsFirst == Init /\ PathsInit => PathsInv
  <1> SUFFICES ASSUME Init, PathsInit PROVE PathsInv
    OBVIOUS
  <1>1. Inv /\ \A c \in Conns : sess[c].user = NoId
    BY InitInv, FreshText DEF Init
  <1>2. PathsTyped
    BY TextTyped DEF PathsInit, PathsTyped
  <1> QED BY <1>1, <1>2 DEF PathsInit, PathsInv, KeptIn

\* A session's text keeps up with its own moves, and nobody else's step moves
\* a folder or takes a name out of those it has had.
LEMMA PathsNext == PathsInv /\ [PathsFollow]_pvars => PathsInv'
  <1> SUFFICES ASSUME PathsInv, [PathsFollow]_pvars PROVE PathsInv'
    OBVIOUS
  <1>1. CASE PathsFollow
    <2>1. Inv' /\ Grown(folders, folders')
      <3>1. Crash \/ \E c \in Conns : Step(c)
        BY <1>1 DEF PathsFollow
      <3>2. StoreStep
        BY <3>1, DispatchStep, ServeStep, SameStore DEF Crash, Step, Begun, PathsInv
      <3> QED BY <3>1, <3>2, NextInv DEF StoreStep, Next, PathsInv
    <2>2. /\ DOMAIN called' = FolderIds'
          /\ \A f \in FolderIds' : folders'[f].name \in called'[f]
          /\ NamesKept(called, called', folders)
      BY <1>1, <2>1 DEF PathsFollow, NamesSince, FolderIds, PathsInv, PathsTyped, Grown, NamesKept
    <2>3. CASE Crash /\ path' = [c \in Conns |-> FreshPaths]
      <3>1. \A c \in Conns : sess'[c].user = NoId
        BY <2>3, FreshText DEF Crash
      <3> QED BY <2>1, <2>2, <2>3, <3>1, TextTyped DEF PathsInv, PathsTyped, KeptIn
    <2>4. ASSUME NEW c \in Conns, Step(c), path' = [path EXCEPT ![c] = PathsAfter(c)]
          PROVE  PathsInv'
      <3>1. path' \in [Conns -> [cwd : Path, old : Path]] /\ path'[c] = PathsAfter(c)
        BY <2>4, AfterTyped DEF PathsInv, PathsTyped
      <3>2. ASSUME NEW d \in Conns PROVE KeptIn(folders, called, sess'[d], path'[d])
        <4>1. CASE d = c
          BY <2>4, <3>1, <4>1, StepKept, NobodyKept DEF KeptIn, KeptNext
        <4>2. CASE d # c
          <5>1. LocalStep(c)
            BY <2>4, DispatchStep, ServeStep DEF PathsInv, Step, Begun
          <5> QED BY <2>4, <4>2, <5>1 DEF LocalStep, PathsInv, PathsTyped
        <4> QED BY <4>1, <4>2
      <3>3. ASSUME NEW d \in Conns PROVE KeptIn(folders', called', sess'[d], path'[d])
        BY <2>1, <2>2, <3>1, <3>2, KeptStays
      <3> QED BY <2>1, <2>2, <3>1, <3>3 DEF PathsInv, PathsTyped
    <2> QED BY <1>1, <2>3, <2>4 DEF PathsFollow
  <1>2. CASE UNCHANGED pvars
    <2>1. Inv'
      BY <1>2, NextInv DEF PathsInv, pvars
    <2>2. UNCHANGED <<folders, sess, path, called>>
      BY <1>2 DEF pvars, vars, store
    <2> QED BY <2>1, <2>2 DEF PathsInv, PathsTyped, KeptIn, Kept, FolderIds
  <1> QED BY <1>1, <1>2

\* The text PWD shows leads from the session's root, or from the folder it
\* opened, to the folder of the session's id, one name for each folder on the
\* way: for any databases and clients, whatever others make, remove and rename
\* on the way meanwhile, through shares opened inside shares, failures and
\* crashes.  After a RENAME (rename.c:70) a name may be one that its folder
\* had: the statement is about the folders' names until now, and so is no
\* promise that the text is a path of today.  The session that has left a
\* share it opened inside another is the exception, as PathTold says.
THEOREM PathsTrue == PathsSpec => []PathTold
  <1>1. PathsInv => PathTold
    <2> SUFFICES ASSUME PathsInv, NEW c \in Conns, sess[c].user # NoId, sess[c].current # NoId
                 PROVE  LET s == sess[c]
                            p == path[c].cwd
                        IN  IF s.sharing
                            THEN /\ p.of = {folders[s.root].owner}
                                 /\ p.down # <<>> /\ Head(p.down) \in called[s.root]
                                 /\ Leads(s.root, Tail(p.down), s.current)
                            ELSE p.of # {} \/ \E r \in RootsOf(s.user) :
                                                 Leads(r, p.down, s.current)
      BY DEF PathTold
    <2>1. Kept(folders, called, sess[c], path[c])
      BY DEF PathsInv, KeptIn
    <2>2. CASE sess[c].sharing
      BY <2>1, <2>2, WayLeads DEF Kept, ShareOf
    <2>3. CASE ~sess[c].sharing
      BY <2>1, <2>3, WayLeads DEF Kept, HomeOf, RootsOf, FolderIds
    <2> QED BY <2>2, <2>3
  <1> QED BY <1>1, PathsFirst, PathsNext, PTL DEF PathsSpec
=============================================================================
