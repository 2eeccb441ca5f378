------------------------------- MODULE MemFs --------------------------------
(***************************************************************************)
(* The in-memory file system server of h2o_fs: mutable directories         *)
(* (mem/dir.rs), files (mem/file.rs), and the handler task each connection *)
(* runs (dir/handle.rs, file/handle.rs, file/stream.rs), with the event    *)
(* tokens by which one connection names another's directory in a rename or *)
(* a link (dir/event.rs).                                                  *)
(*                                                                         *)
(* Handlers run on any thread of the executor, so their steps interleave   *)
(* between the critical sections of a directory's mutex.  A handler serves *)
(* one request at a time; `job' is where it is in it.  What a file holds,  *)
(* the immutable MemDir and the notifications sent to clients are left     *)
(* out; so is read permission, which every node and connection has.        *)
(***************************************************************************)
EXTENDS Integers, Sequences, FiniteSets

CONSTANTS
    Conn, FName,
    NrNodes,     \* bound: entries ever created
    MaxAsked     \* bound: requests ever made

VARIABLES
    nodeKind,    \* "dir", "file", or "unborn"
    ent,     \* the directory's entries: names to nodes, 0 where there is none
    place,   \* MemDirMut::path, what it was when the directory was made
    perm,    \* may the node be opened for writing
    flag,    \* MemFile::locked
    conn,    \* a connection: its node (0 when closed), write option, lock, stream
    tokens,  \* EventTokens: the connections whose event handle is registered
    job,     \* the request a connection's handler is in
    due,     \* names a node should have: created and linked, less unlinked
    asked    \* requests made so far

fsvars == <<nodeKind, ent, place, perm, flag, conn, tokens, job, due, asked>>

FNode == 1 .. NrNodes
FRoot == 1
IdleJob == [op |-> "idle"]
Closed == [node |-> 0, write |-> FALSE, locked |-> FALSE, stream |-> FALSE, token |-> FALSE]
Opened(n, w) == [Closed EXCEPT !.node = n, !.write = w, !.stream = TRUE]
NoEntries == [a \in FName |-> 0]

(* The tree a Builder makes, a directory and a file below the root, with   *)
(* one or two connections open.                                            *)
FsInit ==
    LET a == CHOOSE x \in FName : TRUE
        b == CHOOSE x \in FName \ {a} : TRUE
    IN  /\ nodeKind = [n \in FNode |-> CASE n = 1 \/ n = 2 -> "dir" [] n = 3 -> "file" [] OTHER -> "unborn"]
        /\ ent = [n \in FNode |-> IF n = FRoot THEN [x \in FName |-> CASE x = a -> 2 [] x = b -> 3 [] OTHER -> 0]
                                 ELSE NoEntries]
        /\ place = [n \in FNode |-> IF n = 2 THEN <<a>> ELSE <<>>]
        /\ perm = [n \in FNode |-> TRUE]
        /\ flag = [n \in FNode |-> FALSE]
        /\ \E c, d \in Conn, n \in {1, 2, 3} :
               conn = [e \in Conn |-> IF e = c THEN Opened(FRoot, TRUE) ELSE IF e = d THEN Opened(n, TRUE) ELSE Closed]
        /\ tokens = {}
        /\ job = [c \in Conn |-> IdleJob]
        /\ due = [n \in FNode |-> IF n \in {2, 3} THEN 1 ELSE 0]
        /\ asked = 0

Request(c, k) ==
    /\ conn[c].node # 0 /\ nodeKind[conn[c].node] = k /\ job[c] = IdleJob
    /\ asked < MaxAsked /\ asked' = asked + 1

(* A directory's mutex is held across steps by unlink alone.               *)
Unlocked(d) == \A c \in Conn : job[c].op \in {"unlink", "unlinking"} => job[c].node # d

Finish(c) == job' = [job EXCEPT ![c] = IdleJob]
JobStep(c, j) == job' = [job EXCEPT ![c] = j]

-----------------------------------------------------------------------------
(* Entry::open walks the path one directory, and one critical section, at  *)
(* a time.  mode is the CREATE and CREATE_NEW options.                     *)
OpenRequest(c, path, mode, write) ==
    /\ \E k \in {"dir", "file"} : Request(c, k)
    /\ \E d \in Conn : conn[d].node = 0
    /\ JobStep(c, [op |-> "open", node |-> conn[c].node, path |-> path, mode |-> mode, write |-> write])
    /\ UNCHANGED <<nodeKind, ent, place, perm, flag, conn, tokens, due>>

(* MemDirMut::get and get_or_insert: a name that is not the last of the    *)
(* path is made a file by the inserter, the last one a directory.          *)
OpenName(c) ==
    /\ job[c].op = "open" /\ nodeKind[job[c].node] = "dir" /\ job[c].path # <<>>
    /\ Unlocked(job[c].node)
    /\ LET j == job[c]
           x == Head(j.path)
           n == ent[j.node][x]
       IN  IF n # 0
           THEN /\ IF j.mode = "create_new" THEN Finish(c)
                   ELSE JobStep(c, [j EXCEPT !.node = n, !.path = Tail(@)])
                /\ UNCHANGED <<nodeKind, ent, place, perm, due>>
           ELSE IF j.mode = "none"
           THEN Finish(c) /\ UNCHANGED <<nodeKind, ent, place, perm, due>>
           ELSE \E m \in FNode :
                /\ nodeKind[m] = "unborn" /\ \A k \in 1 .. m - 1 : nodeKind[k] # "unborn"
                /\ nodeKind' = [nodeKind EXCEPT ![m] = IF Len(j.path) > 1 THEN "file" ELSE "dir"]
                /\ perm' = [perm EXCEPT ![m] = Len(j.path) > 1 \/ j.write]
                /\ place' = [place EXCEPT ![m] = IF Len(j.path) > 1 THEN <<>> ELSE Append(place[j.node], x)]
                /\ ent' = [ent EXCEPT ![j.node][x] = m]
                /\ due' = [due EXCEPT ![m] = 1]
                /\ JobStep(c, [j EXCEPT !.node = m, !.path = Tail(@)])
    /\ UNCHANGED <<flag, conn, tokens, asked>>

(* The walk ends: a connection is opened, unless the node is a file with a *)
(* path left, is locked, lacks the permission, or is a directory opened    *)
(* with CREATE_NEW (which get_or_insert may just have made).               *)
OpenEnd(c) ==
    /\ job[c].op = "open" /\ (nodeKind[job[c].node] = "file" \/ job[c].path = <<>>)
    /\ LET j == job[c]
           ok == /\ j.path = <<>> /\ (j.write => perm[j.node])
                 /\ IF nodeKind[j.node] = "file" THEN ~flag[j.node] ELSE j.mode # "create_new"
       IN  IF ok THEN \E d \in Conn : conn[d].node = 0 /\ conn' = [conn EXCEPT ![d] = Opened(j.node, j.write)]
           ELSE UNCHANGED conn
    /\ Finish(c)
    /\ UNCHANGED <<nodeKind, ent, place, perm, flag, tokens, due, asked>>

(* CloseConnection, or the client's end of the channel is gone: the        *)
(* handler ends, a token it registered is removed, and dropping the stream *)
(* unlocks a file it had locked.                                           *)
CloseConn(c) ==
    /\ \E k \in {"dir", "file"} : Request(c, k)
    /\ flag' = [flag EXCEPT ![conn[c].node] = @ /\ ~conn[c].locked]
    /\ conn' = [conn EXCEPT ![c] = Closed]
    /\ tokens' = IF conn[c].token THEN tokens \ {c} ELSE tokens
    /\ UNCHANGED <<nodeKind, ent, place, perm, job, due>>

-----------------------------------------------------------------------------
EventToken(c) ==
    /\ Request(c, "dir") /\ conn[c].write
    /\ conn' = [conn EXCEPT ![c].token = TRUE]
    /\ tokens' = tokens \cup {c}
    /\ UNCHANGED <<nodeKind, ent, place, perm, flag, job, due>>

IsPrefixOf(s, t) == Len(s) <= Len(t) /\ SubSeq(t, 1, Len(s)) = s

(* Is dst below src, by the paths the directories were made at?            *)
WouldCycle(d, x, dst, y) ==
    LET from == Append(place[d], x)
        to   == Append(place[dst], y)
    IN  IsPrefixOf(from, to) /\ from # to

(* Rename and Link: take_if removes the token of the destination.          *)
TakeToken(c, op, x, t, y) ==
    /\ Request(c, "dir") /\ conn[c].write
    /\ t \in tokens /\ tokens' = tokens \ {t}
    /\ LET d == conn[c].node
           dst == conn[t].node
       IN  IF WouldCycle(d, x, dst, y) THEN UNCHANGED job
           ELSE JobStep(c, [op |-> op, node |-> d, name |-> x, dst |-> dst, to |-> y])
    /\ UNCHANGED <<nodeKind, ent, place, perm, flag, conn, due>>

(* MemDirMut::remove: the entry leaves the source directory.               *)
RenameRemove(c) ==
    /\ job[c].op = "rename" /\ Unlocked(job[c].node)
    /\ LET j == job[c]
           n == ent[j.node][j.name]
       IN  IF n = 0 THEN Finish(c) /\ UNCHANGED ent
           ELSE /\ ent' = [ent EXCEPT ![j.node][j.name] = 0]
                /\ JobStep(c, [op |-> "insert", node |-> j.node, name |-> j.name,
                            dst |-> j.dst, to |-> j.to, moved |-> n])
    /\ UNCHANGED <<nodeKind, place, perm, flag, conn, tokens, due, asked>>

(* A bug: the destination is not looked at.                                *)
RenameInsert_Replace(c) ==
    /\ job[c].op = "insert" /\ Unlocked(job[c].dst)
    /\ LET j == job[c]
       IN  ent' = [ent EXCEPT ![j.dst][j.to] = j.moved] /\ Finish(c)
    /\ UNCHANGED <<nodeKind, place, perm, flag, conn, tokens, due, asked>>

(* MemDirMut::insert at the destination; an occupied name is an error.     *)
RenameInsert(c) ==
    /\ job[c].op = "insert" /\ Unlocked(job[c].dst)
    /\ LET j == job[c]
       IN  IF ent[j.dst][j.to] = 0
           THEN ent' = [ent EXCEPT ![j.dst][j.to] = j.moved] /\ Finish(c)
           ELSE JobStep(c, [j EXCEPT !.op = "back"]) /\ UNCHANGED ent
    /\ UNCHANGED <<nodeKind, place, perm, flag, conn, tokens, due, asked>>

(* The entry goes back under its old name; if that was taken meanwhile the *)
(* insertion fails, its result is dropped, and the entry with it.          *)
RenameBack(c) ==
    /\ job[c].op = "back" /\ Unlocked(job[c].node)
    /\ LET j == job[c]
       IN  IF ent[j.node][j.name] = 0
           THEN ent' = [ent EXCEPT ![j.node][j.name] = j.moved] /\ UNCHANGED due
           ELSE due' = [due EXCEPT ![j.moved] = @ - 1] /\ UNCHANGED ent
    /\ Finish(c)
    /\ UNCHANGED <<nodeKind, place, perm, flag, conn, tokens, asked>>

LinkGet(c) ==
    /\ job[c].op = "link" /\ Unlocked(job[c].node)
    /\ LET j == job[c]
           n == ent[j.node][j.name]
       IN  IF n = 0 THEN Finish(c)
           ELSE JobStep(c, [op |-> "linked", dst |-> j.dst, to |-> j.to, moved |-> n])
    /\ UNCHANGED <<nodeKind, ent, place, perm, flag, conn, tokens, due, asked>>

LinkInsert(c) ==
    /\ job[c].op = "linked" /\ Unlocked(job[c].dst)
    /\ LET j == job[c]
       IN  IF ent[j.dst][j.to] # 0 THEN UNCHANGED <<ent, due>>
           ELSE /\ ent' = [ent EXCEPT ![j.dst][j.to] = j.moved]
                /\ due' = [due EXCEPT ![j.moved] = @ + 1]
    /\ Finish(c)
    /\ UNCHANGED <<nodeKind, place, perm, flag, conn, tokens, asked>>

(* Unlink holds the directory's lock while it asks the entry, under the    *)
(* entry's own lock, whether it is an empty directory.                     *)
Unlink(c, x, expectDir) ==
    /\ Request(c, "dir") /\ conn[c].write /\ Unlocked(conn[c].node)
    /\ LET n == ent[conn[c].node][x]
       IN  n # 0 /\ JobStep(c, [op |-> "unlink", node |-> conn[c].node, name |-> x, dir |-> expectDir, child |-> n])
    /\ UNCHANGED <<nodeKind, ent, place, perm, flag, conn, tokens, due>>

UnlinkCheck(c) ==
    /\ job[c].op = "unlink"
    /\ LET n == job[c].child
       IN  /\ nodeKind[n] = "dir" => Unlocked(n)
           /\ IF \/ job[c].dir /\ nodeKind[n] # "dir"
                 \/ nodeKind[n] = "dir" /\ ent[n] # NoEntries
              THEN Finish(c) ELSE JobStep(c, [job[c] EXCEPT !.op = "unlinking"])
    /\ UNCHANGED <<nodeKind, ent, place, perm, flag, conn, tokens, due, asked>>

UnlinkRemove(c) ==
    /\ job[c].op = "unlinking"
    /\ ent' = [ent EXCEPT ![job[c].node][job[c].name] = 0]
    /\ due' = [due EXCEPT ![job[c].child] = @ - 1]
    /\ Finish(c)
    /\ UNCHANGED <<nodeKind, place, perm, flag, conn, tokens, asked>>

(* A bug: a set flag does not refuse the lock.                             *)
LockFile_Anyway(c) ==
    /\ Request(c, "file") /\ ~conn[c].locked
    /\ LET n == conn[c].node
       IN  /\ conn' = [conn EXCEPT ![c].stream = FALSE, ![c].locked = TRUE]
           /\ flag' = [flag EXCEPT ![n] = TRUE]
    /\ UNCHANGED <<nodeKind, ent, place, perm, tokens, job, due>>

(* FileRequest::Lock: the stream is taken out before the file is asked, so *)
(* a refusal loses it; the lock of a file is one atomic swap.              *)
LockFile(c) ==
    /\ Request(c, "file") /\ ~conn[c].locked
    /\ LET n == conn[c].node
       IN  /\ conn' = [conn EXCEPT ![c].stream = FALSE, ![c].locked = ~flag[n]]
           /\ flag' = [flag EXCEPT ![n] = TRUE]
    /\ UNCHANGED <<nodeKind, ent, place, perm, tokens, job, due>>

(* The opens clients ask for: every path of up to two names; the options   *)
(* vary where they matter.                                                 *)
FsOpens ==
    {[path |-> <<>>, mode |-> "none", write |-> TRUE]}
        \cup {[path |-> <<x>>, mode |-> m, write |-> w] : x \in FName, m \in {"none", "create"}, w \in BOOLEAN}
        \cup {[path |-> <<x>>, mode |-> "create_new", write |-> TRUE] : x \in FName}
        \cup {[path |-> <<x, y>>, mode |-> "create", write |-> TRUE] : x \in FName, y \in FName}

FsNext ==
    \E c \in Conn :
        \/ \E o \in FsOpens : OpenRequest(c, o.path, o.mode, o.write)
        \/ \E op \in {"rename", "link"}, x, y \in FName, t \in Conn : TakeToken(c, op, x, t, y)
        \/ \E x \in FName, e \in BOOLEAN : Unlink(c, x, e)
        \/ OpenName(c) \/ OpenEnd(c) \/ CloseConn(c) \/ EventToken(c) \/ LockFile(c)
        \/ RenameRemove(c) \/ RenameInsert(c) \/ RenameBack(c) \/ LinkGet(c) \/ LinkInsert(c)
        \/ UnlinkCheck(c) \/ UnlinkRemove(c)

FsSpec == FsInit /\ [][FsNext]_fsvars

-----------------------------------------------------------------------------
NamesOf(n) == {<<d, x>> \in FNode \X FName : ent[d][x] = n}
CarriedBy(n) == {c \in Conn : job[c].op \in {"insert", "back"} /\ job[c].moved = n}

(* However renames, links, unlinks and creations interleave, an entry has  *)
(* a name for each time it was made or linked and not unlinked, counting   *)
(* one a rename carries between its two directories: a rename that fails   *)
(* restores the entry, unless its name was taken meanwhile (the insertion  *)
(* that puts it back then drops it), and one that succeeds neither copies  *)
(* it nor destroys what the name stood for.  A file's lock flag is up      *)
(* exactly while one connection holds the lock and the file's stream.      *)
FilesKept ==
    /\ \A n \in FNode : Cardinality(NamesOf(n)) + Cardinality(CarriedBy(n)) = due[n]
    /\ \A n \in FNode :
           LET owners == {c \in Conn : conn[c].node = n /\ conn[c].locked}
           IN  Cardinality(owners) = (IF flag[n] THEN 1 ELSE 0)
=============================================================================
