------------------------------ MODULE LocalFs -------------------------------
(***************************************************************************)
(* The mount tree of a process: LocalFs of h2o_fs/src/fs.rs.  Inner nodes  *)
(* are directories behind a mutex each, leaves are remote file systems; a  *)
(* path is first made canonical against the current directory, then walked *)
(* one directory, and one critical section, at a time, so callers on       *)
(* several threads interleave between the directories of their paths.      *)
(*                                                                         *)
(* What a remote does with the rest of a path is external: a call ends     *)
(* when it has found its remote and the path to ask it for.  A path is a   *)
(* sequence of components ("/" only in front).  LocalIter, which keeps its *)
(* directory's mutex, and export are left out.                             *)
(***************************************************************************)
EXTENDS Integers, Sequences

CONSTANTS
    Caller,     \* the threads, and the remote each of them would mount
    LName,      \* names
    NrDirs,     \* bound: inner nodes ever made, the root being 1
    MaxCalls    \* bound: calls made altogether

VARIABLES
    dirs,       \* entries of the inner nodes: names to [dir |-> i] or [remote |-> c]
    nrDirs,     \* inner nodes made so far
    cwd,        \* LocalFs::cwd, canonical
    call,       \* where each thread is in its call
    nrCalls,      \* calls made so far
    mounts,     \* mounts that returned Ok and that no unmount since has undone
    ever        \* every mount there has been

lfsvars == <<dirs, nrDirs, cwd, call, nrCalls, mounts, ever>>

LRoot == 1
Absent == [is |-> "none", at |-> 0]
DirNode(i) == [is |-> "dir", at |-> i]
Remote(c) == [is |-> "remote", at |-> c]
NoCall == [op |-> "none"]
Bad == <<"bad">>

IsUnder(s, t) == Len(s) <= Len(t) /\ SubSeq(t, 1, Len(s)) = s
Parents(s) == SubSeq(s, 1, Len(s) - 1)

(* canonicalize_with: a rooted path replaces the current directory when    *)
(* joined to it; ".." of the root is an error.                             *)
RECURSIVE Resolve(_, _)
Resolve(out, path) ==
    IF path = <<>> THEN out
    ELSE IF Head(path) = "/" THEN Resolve(out, Tail(path))
    ELSE IF Head(path) # ".." THEN Resolve(Append(out, Head(path)), Tail(path))
    ELSE IF out = <<>> THEN Bad ELSE Resolve(Parents(out), Tail(path))

CanonicalizeWith(path, base) ==
    Resolve(<<>>, IF path # <<>> /\ Head(path) = "/" THEN path ELSE base \o path)

LfsInit ==
    /\ dirs = [i \in 1 .. NrDirs |-> [x \in LName |-> Absent]]
    /\ nrDirs = 1 /\ cwd = <<>>
    /\ call = [c \in Caller |-> NoCall] /\ nrCalls = 0
    /\ mounts = {} /\ ever = {}

(* A call at the start of its walk along `rest'; src, dst and dir are those *)
(* of an operation on two paths.                                           *)
Walk(op, path, goal) ==
    [op |-> op, node |-> DirNode(LRoot), rest |-> path, path |-> goal, base |-> cwd,
     late |-> FALSE, src |-> <<>>, dst |-> <<>>, dir |-> 0]

(* mount, open (with metadata and read_dir), unmount and unlink: one       *)
(* lock of cwd, then the walk.  unmount walks to the parent.  unlink opens *)
(* the parent through LocalFs::open, which joins the canonical path, that  *)
(* has no root, to the current directory a second time.                    *)
Begin(c, op, path) ==
    LET canon == CanonicalizeWith(path, cwd)
        again == CanonicalizeWith(Parents(canon), cwd)
    IN  /\ call[c].op = "none" /\ nrCalls < MaxCalls /\ nrCalls' = nrCalls + 1
        /\ canon # Bad /\ (op # "open" => canon # <<>>)
        /\ CASE op \in {"unmount", "unmount_all"} -> call' = [call EXCEPT ![c] = Walk(op, Parents(canon), canon)]
             [] op = "unlink" ->
                  again # Bad /\ call' = [call EXCEPT ![c] = Walk(op, again, Parents(canon))]
             [] OTHER -> call' = [call EXCEPT ![c] = Walk(op, canon, canon)]
        /\ UNCHANGED <<dirs, nrDirs, cwd, mounts, ever>>

Chdir(c, path) ==
    LET canon == CanonicalizeWith(path, cwd)
    IN  /\ call[c].op = "none" /\ nrCalls < MaxCalls /\ nrCalls' = nrCalls + 1
        /\ canon # Bad
        /\ call' = [call EXCEPT ![c] = [op |-> "chdir", path |-> canon]]
        /\ UNCHANGED <<dirs, nrDirs, cwd, mounts, ever>>

ChdirStore(c) ==
    /\ call[c].op = "chdir"
    /\ cwd' = call[c].path
    /\ call' = [call EXCEPT ![c] = NoCall]
    /\ UNCHANGED <<dirs, nrDirs, nrCalls, mounts, ever>>

(* rename and link, two_path_op: both paths are made canonical under one   *)
(* lock of cwd, then the longest common prefix is walked.                  *)
CommonPrefix(s, t) ==
    LET shared == {k \in 0 .. Len(s) : k <= Len(t) /\ SubSeq(s, 1, k) = SubSeq(t, 1, k)}
    IN  SubSeq(s, 1, CHOOSE k \in shared : \A l \in shared : l <= k)

TwoPath(c, src, dst) ==
    LET s == CanonicalizeWith(src, cwd)
        d == CanonicalizeWith(dst, cwd)
        lcp == CommonPrefix(s, d)
    IN  /\ call[c].op = "none" /\ nrCalls < MaxCalls /\ nrCalls' = nrCalls + 1
        /\ s # Bad /\ d # Bad /\ lcp # s /\ lcp # d
        /\ call' = [call EXCEPT ![c] = [Walk("lcp", lcp, lcp) EXCEPT !.src = s, !.dst = d]]
        /\ UNCHANGED <<dirs, nrDirs, cwd, mounts, ever>>

(* The prefix ends at a directory, and copy_local opens both parents from  *)
(* there, or in a remote, and both parents are opened from the root.       *)
LcpEnd(c) ==
    /\ call[c].op = "lcp" /\ (call[c].node.is = "remote" \/ call[c].rest = <<>>)
    /\ LET j == call[c]
           from == Parents(j.src)
       IN  call' = [call EXCEPT ![c] =
               IF j.node.is = "dir"
               THEN [j EXCEPT !.op = "copy_src", !.rest = SubSeq(from, Len(j.path) + 1, Len(from)),
                              !.path = from, !.dir = j.node.at]
               ELSE [j EXCEPT !.op = "rename_src", !.node = DirNode(LRoot), !.rest = from, !.path = from]]
    /\ UNCHANGED <<dirs, nrDirs, cwd, nrCalls, mounts, ever>>

(* The source parent is found; the destination parent is opened from the   *)
(* same directory or, resolved against cwd a second time, from the root.   *)
SrcEnd(c) ==
    /\ call[c].op \in {"copy_src", "rename_src"} /\ call[c].node.is = "remote"
    /\ LET j == call[c]
           to == Parents(j.dst)
           lcp == CommonPrefix(j.src, j.dst)
           again == CanonicalizeWith(to, cwd)
       IN  call' = [call EXCEPT ![c] =
               IF j.op = "copy_src"
               THEN [j EXCEPT !.op = "open", !.node = DirNode(j.dir),
                              !.rest = SubSeq(to, Len(lcp) + 1, Len(to)), !.path = to]
               ELSE IF again = Bad THEN NoCall
               ELSE [j EXCEPT !.op = "rename_dst", !.node = DirNode(LRoot), !.rest = again,
                              !.path = to, !.base = cwd]]
    /\ UNCHANGED <<dirs, nrDirs, cwd, nrCalls, mounts, ever>>

Ended(c) == call' = [call EXCEPT ![c] = NoCall]

(* One turn of open_node's loop: a directory step under its lock.          *)
OpenNode(c) ==
    /\ call[c].op \notin {"none", "chdir", "mount", "found"}
    /\ call[c].node.is = "dir" /\ call[c].rest # <<>>
    /\ LET child == dirs[call[c].node.at][Head(call[c].rest)]
       IN  IF child = Absent THEN Ended(c)
           ELSE call' = [call EXCEPT ![c].node = child, ![c].rest = Tail(@)]
    /\ UNCHANGED <<dirs, nrDirs, cwd, nrCalls, mounts, ever>>

(* The walk ends at a remote, with the rest of the path to ask it for, or, *)
(* an error, at a directory.  `late' now marks a path resolved twice.      *)
Found(c) ==
    /\ \/ /\ call[c].op \in {"open", "unlink", "rename_dst"}
          /\ call[c].node.is = "remote" \/ call[c].rest = <<>>
       \/ /\ call[c].op \in {"copy_src", "rename_src"}
          /\ call[c].node.is = "dir" /\ call[c].rest = <<>>
    /\ IF call[c].node.is = "dir" THEN Ended(c)
       ELSE call' = [call EXCEPT ![c].op = "found", ![c].late = call[c].op # "open" /\ call[c].base # <<>>]
    /\ UNCHANGED <<dirs, nrDirs, cwd, nrCalls, mounts, ever>>

Leave(c) == call[c].op = "found" /\ Ended(c) /\ UNCHANGED <<dirs, nrDirs, cwd, nrCalls, mounts, ever>>

(* A bug: insert without looking, over what is there.                      *)
CreateNode_Replace(c) ==
    /\ call[c].op = "mount" /\ call[c].node.is = "dir" /\ call[c].rest # <<>>
    /\ LET i == call[c].node.at
           x == Head(call[c].rest)
           rest == Tail(call[c].rest)
           child == dirs[i][x]
       IN  IF child.is = "dir" /\ rest # <<>>
           THEN /\ call' = [call EXCEPT ![c].node = child, ![c].rest = rest]
                /\ UNCHANGED <<dirs, nrDirs, mounts, ever>>
           ELSE IF rest = <<>>
           THEN /\ dirs' = [dirs EXCEPT ![i][x] = Remote(c)]
                /\ LET m == [path |-> call[c].path, remote |-> c]
                   IN  /\ ever' = ever \cup {m}
                       /\ mounts' = IF call[c].late THEN mounts ELSE mounts \cup {m}
                /\ Ended(c) /\ UNCHANGED nrDirs
           ELSE /\ nrDirs < NrDirs /\ nrDirs' = nrDirs + 1
                /\ dirs' = [dirs EXCEPT ![i][x] = DirNode(nrDirs + 1)]
                /\ call' = [call EXCEPT ![c].node = DirNode(nrDirs + 1), ![c].rest = rest]
                /\ UNCHANGED <<mounts, ever>>
    /\ UNCHANGED <<cwd, nrCalls>>

(* One turn of create_node's loop: look up or insert, under one lock.      *)
CreateNode(c) ==
    /\ call[c].op = "mount" /\ call[c].node.is = "dir" /\ call[c].rest # <<>>
    /\ LET i == call[c].node.at
           x == Head(call[c].rest)
           rest == Tail(call[c].rest)
           child == dirs[i][x]
       IN  IF child # Absent
           THEN /\ IF rest = <<>> \/ child.is = "remote" THEN Ended(c)
                   ELSE call' = [call EXCEPT ![c].node = child, ![c].rest = rest]
                /\ UNCHANGED <<dirs, nrDirs, mounts, ever>>
           ELSE IF rest = <<>>
           THEN /\ dirs' = [dirs EXCEPT ![i][x] = Remote(c)]
                /\ LET m == [path |-> call[c].path, remote |-> c]
                   IN  /\ ever' = ever \cup {m}
                       /\ mounts' = IF call[c].late THEN mounts ELSE mounts \cup {m}
                /\ Ended(c) /\ UNCHANGED nrDirs
           ELSE /\ nrDirs < NrDirs /\ nrDirs' = nrDirs + 1
                /\ dirs' = [dirs EXCEPT ![i][x] = DirNode(nrDirs + 1)]
                /\ call' = [call EXCEPT ![c].node = DirNode(nrDirs + 1), ![c].rest = rest]
                /\ UNCHANGED <<mounts, ever>>
    /\ UNCHANGED <<cwd, nrCalls>>

(* Node::remove, under the parent's lock.  Every mount below is undone,    *)
(* one still being made included: it may go on in what was cut off.        *)
RemoveNode(c) ==
    /\ call[c].op \in {"unmount", "unmount_all"}
    /\ call[c].node.is = "remote" \/ call[c].rest = <<>>
    /\ LET i == call[c].node.at
           at == call[c].path
           x == at[Len(at)]
           old == dirs[i][x]
       IN  IF /\ call[c].node.is = "dir" /\ old # Absent
              /\ call[c].op = "unmount_all" \/ old.is = "remote"
           THEN /\ dirs' = [dirs EXCEPT ![i][x] = Absent]
                /\ mounts' = {m \in mounts : ~IsUnder(at, m.path)}
                /\ call' = [d \in Caller |-> IF d = c THEN NoCall
                               ELSE IF call[d].op = "mount" /\ IsUnder(at, call[d].path)
                               THEN [call[d] EXCEPT !.late = TRUE] ELSE call[d]]
           ELSE Ended(c) /\ UNCHANGED <<dirs, mounts>>
    /\ UNCHANGED <<nrDirs, cwd, nrCalls, ever>>

(* The paths tried: names below one another and beside one another, above  *)
(* the current directory, and absolute.                                    *)
First == CHOOSE x \in LName : TRUE
LPaths == {<<First>>, <<"..">>, <<"..", First>>, <<"/", First>>} \cup {<<First, x>> : x \in LName}

LfsNext ==
    \E c \in Caller :
        \/ \E op \in {"mount", "open", "unmount", "unmount_all", "unlink"}, path \in LPaths : Begin(c, op, path)
        \/ \E path \in LPaths : Chdir(c, path)
        \/ \E s, d \in LPaths : Len(s) = 2 /\ Len(d) = 2 /\ TwoPath(c, s, d)
        \/ LcpEnd(c) \/ SrcEnd(c)
        \/ ChdirStore(c) \/ OpenNode(c) \/ Found(c) \/ Leave(c) \/ CreateNode(c) \/ RemoveNode(c)

LfsSpec == LfsInit /\ [][LfsNext]_lfsvars

-----------------------------------------------------------------------------
RECURSIVE Lookup(_, _)
Lookup(node, path) ==
    IF path = <<>> \/ node.is # "dir" THEN [node |-> node, rest |-> path]
    ELSE Lookup(dirs[node.at][Head(path)], Tail(path))

(* A mount that returned Ok is what its path leads to until an unmount of  *)
(* it or of a directory above it, however other threads mount, unmount and *)
(* change the current directory meanwhile: no other mount takes its place  *)
(* and none of its directories is made twice.  And a call that reaches a   *)
(* remote asks it for the right path: where that remote was mounted, and   *)
(* the rest, make up the path the caller gave.  (unlink and the            *)
(* destination of rename only with the root as the current directory:      *)
(* otherwise they resolve the path against it twice.)                      *)
MountsFound ==
    /\ \A m \in mounts : Lookup(DirNode(LRoot), m.path) = [node |-> Remote(m.remote), rest |-> <<>>]
    /\ \A c \in Caller :
           call[c].op = "found" /\ ~call[c].late =>
               \E m \in ever : m.remote = call[c].node.at /\ m.path \o call[c].rest = call[c].path
=============================================================================
