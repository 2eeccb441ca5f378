-------------------------------- MODULE Path --------------------------------
(***************************************************************************)
(* Paths of the user library: h2o_std/core/src/path.rs.  A path is a       *)
(* sequence of bytes; the bytes that matter are the separator, the dot and *)
(* any other.  parse_prefix (path/imp.rs) never finds a prefix on this     *)
(* system, so what the code does for prefixes is left out.                 *)
(*                                                                         *)
(* Components is a double-ended iterator: `next' and `next_back' cut the   *)
(* two ends of one slice, each with a state of its own.  The module checks *)
(* it, in every interleaving of the two, and the operations built on it    *)
(* (==, hash, cmp, push, pop, strip_prefix, set_extension ...), against    *)
(* Parts, which splits the whole path at once.                             *)
(***************************************************************************)
EXTENDS Integers, Sequences, SequencesExt

CONSTANTS
    MaxPath,   \* bound: bytes of the path that is iterated over
    MaxPair    \* bound: bytes of each of the two paths that are compared

VARIABLES
    p, q,      \* two paths
    it,        \* the Components iterator over p
    heads,     \* what next has returned
    tails      \* what next_back has returned, in path order

pathvars == <<p, q, it, heads, tails>>

Byte == {"/", ".", "a"}
RootDir == <<"/">>
CurDir == <<".">>
ParentDir == <<".", ".">>
NoComp == <<>>

(* State, in the order the derived PartialOrd compares. *)
InPrefix == 0
StartDir == 1
Body == 2
Over == 3

HasRoot(s) == s # <<>> /\ Head(s) = "/"

Components(s) == [path |-> s, root |-> HasRoot(s), front |-> InPrefix, back |-> Body]

IterDone(c) == c.front = Over \/ c.back = Over \/ c.front > c.back

IncludeCurDir(c) ==
    /\ ~c.root /\ c.path # <<>> /\ Head(c.path) = "."
    /\ Len(c.path) > 1 => c.path[2] = "/"

(* A bug: a leading "." is not counted.                                    *)
LenBeforeBody_NoCurDir(c) == IF c.front <= StartDir /\ c.root THEN 1 ELSE 0

LenBeforeBody(c) == IF c.front <= StartDir /\ (c.root \/ IncludeCurDir(c)) THEN 1 ELSE 0

(* parse_single_component: a dot inside the path is normalised away.       *)
ParseSingle(s) == IF s = CurDir THEN NoComp ELSE s

(* parse_next_component and parse_next_component_back: the component at    *)
(* one end of the slice and the bytes it takes with its separator.         *)
ParseNext(c) ==
    LET sep == SelectInSeq(c.path, LAMBDA b : b = "/")
        comp == IF sep = 0 THEN c.path ELSE SubSeq(c.path, 1, sep - 1)
    IN  [size |-> Len(comp) + (IF sep = 0 THEN 0 ELSE 1), comp |-> ParseSingle(comp)]

ParseNextBack(c) ==
    LET start == LenBeforeBody(c)
        rest == SubSeq(c.path, start + 1, Len(c.path))
        sep == SelectLastInSeq(rest, LAMBDA b : b = "/")
        comp == SubSeq(rest, sep + 1, Len(rest))
    IN  [size |-> Len(comp) + (IF sep = 0 THEN 0 ELSE 1), comp |-> ParseSingle(comp)]

CutFront(c, n) == [c EXCEPT !.path = SubSeq(@, n + 1, Len(@))]
CutBack(c, n) == [c EXCEPT !.path = SubSeq(@, 1, Len(@) - n)]

(* Iterator::next, its loop unrolled by recursion.                         *)
RECURSIVE NextComp(_)
NextComp(c) ==
    CASE IterDone(c) -> [it |-> c, out |-> NoComp]
      [] ~IterDone(c) /\ c.front = InPrefix -> NextComp([c EXCEPT !.front = StartDir])
      [] ~IterDone(c) /\ c.front = StartDir ->
            LET d == [c EXCEPT !.front = Body]
            IN  IF c.root THEN [it |-> CutFront(d, 1), out |-> RootDir]
                ELSE IF IncludeCurDir(d) THEN [it |-> CutFront(d, 1), out |-> CurDir]
                ELSE NextComp(d)
      [] ~IterDone(c) /\ c.front = Body /\ c.path # <<>> ->
            LET n == ParseNext(c)
                d == CutFront(c, n.size)
            IN  IF n.comp # NoComp THEN [it |-> d, out |-> n.comp] ELSE NextComp(d)
      [] OTHER -> NextComp([c EXCEPT !.front = Over])

(* DoubleEndedIterator::next_back.                                         *)
RECURSIVE NextBack(_)
NextBack(c) ==
    CASE IterDone(c) -> [it |-> c, out |-> NoComp]
      [] ~IterDone(c) /\ c.back = Body /\ Len(c.path) > LenBeforeBody(c) ->
            LET n == ParseNextBack(c)
                d == CutBack(c, n.size)
            IN  IF n.comp # NoComp THEN [it |-> d, out |-> n.comp] ELSE NextBack(d)
      [] ~IterDone(c) /\ c.back = Body /\ Len(c.path) <= LenBeforeBody(c) ->
            NextBack([c EXCEPT !.back = StartDir])
      [] ~IterDone(c) /\ c.back = StartDir ->
            LET d == [c EXCEPT !.back = InPrefix]
            IN  IF c.root THEN [it |-> CutBack(d, 1), out |-> RootDir]
                ELSE IF IncludeCurDir(d) THEN [it |-> CutBack(d, 1), out |-> CurDir]
                ELSE NextBack(d)
      [] OTHER -> [it |-> [c EXCEPT !.back = Over], out |-> NoComp]

RECURSIVE Collect(_)
Collect(c) == LET n == NextComp(c)
              IN  IF n.out = NoComp THEN <<>> ELSE <<n.out>> \o Collect(n.it)

RECURSIVE CollectBack(_)
CollectBack(c) == LET n == NextBack(c)
                  IN  IF n.out = NoComp THEN <<>> ELSE <<n.out>> \o CollectBack(n.it)

RECURSIVE TrimLeft(_)
TrimLeft(c) == LET n == ParseNext(c)
               IN  IF c.path = <<>> \/ n.comp # NoComp THEN c ELSE TrimLeft(CutFront(c, n.size))

RECURSIVE TrimRight(_)
TrimRight(c) ==
    LET n == ParseNextBack(c)
    IN  IF Len(c.path) <= LenBeforeBody(c) \/ n.comp # NoComp THEN c
        ELSE TrimRight(CutBack(c, n.size))

(* Components::as_path, the part of the path not yet iterated over.        *)
AsPath(c) ==
    LET l == IF c.front = Body THEN TrimLeft(c) ELSE c
        r == IF l.back = Body THEN TrimRight(l) ELSE l
    IN  r.path

-----------------------------------------------------------------------------
(* PartialEq: the bytes when both are untouched, else back to front.       *)
PathEq(s, t) == s = t \/ CollectBack(Components(s)) = CollectBack(Components(t))

(* Hash: the bytes fed to the hasher and their number.  `start' is the     *)
(* first byte not fed or skipped yet.                                      *)
HashByte(s, h, i) ==
    IF s[i] # "/" THEN h
    ELSE LET dot == i < Len(s) /\ s[i + 1] = "." /\ (i + 1 < Len(s) => s[i + 2] = "/")
         IN  [fed |-> h.fed \o SubSeq(s, h.start, i - 1), start |-> i + (IF dot THEN 2 ELSE 1)]

RECURSIVE HashFrom(_, _, _)
HashFrom(s, h, i) == IF i > Len(s) THEN h.fed \o SubSeq(s, h.start, Len(s))
                     ELSE HashFrom(s, HashByte(s, h, i), i + 1)

PathHash(s) == HashFrom(s, [fed |-> <<>>, start |-> 1], 1)

(* The derived orders of bytes and of Component; Before compares two       *)
(* sequences as Iterator::cmp does.                                        *)
Rank(b) == CASE b = "." -> 1 [] b = "/" -> 2 [] b = "a" -> 3
Kind(c) == CASE c = RootDir -> 1 [] c = CurDir -> 2 [] c = ParentDir -> 3 [] OTHER -> 4

RECURSIVE BytesBefore(_, _)
BytesBefore(s, t) ==
    /\ t # <<>>
    /\ s # <<>> => \/ Rank(Head(s)) < Rank(Head(t))
                   \/ Head(s) = Head(t) /\ BytesBefore(Tail(s), Tail(t))

CompBefore(c, d) == Kind(c) < Kind(d) \/ (Kind(c) = 4 /\ Kind(d) = 4 /\ BytesBefore(c, d))

RECURSIVE Before(_, _)
Before(s, t) ==
    /\ t # <<>>
    /\ s # <<>> => \/ CompBefore(Head(s), Head(t))
                   \/ Head(s) = Head(t) /\ Before(Tail(s), Tail(t))

(* compare_components: the iterators the comparison goes on with, past the *)
(* last separator before the first byte in which the paths differ.         *)
SharedPrefix(s, t) ==
    LET least == IF Len(s) < Len(t) THEN Len(s) ELSE Len(t)
        diff == {i \in 1 .. least : s[i] # t[i]}
    IN  IF diff = {} THEN least ELSE (CHOOSE i \in diff : \A j \in diff : i <= j) - 1

(* A bug: go on from the byte that differs instead of the separator.       *)
PastSep_Diff(s, n) == IF n = 0 THEN Components(s) ELSE [CutFront(Components(s), n) EXCEPT !.front = Body]

PastSep(s, n) ==
    LET sep == SelectLastInSeq(SubSeq(s, 1, n), LAMBDA b : b = "/")
    IN  IF sep = 0 THEN Components(s)
        ELSE [CutFront(Components(s), sep) EXCEPT !.front = Body]

PathLess(s, t) ==
    LET n == SharedPrefix(s, t)
    IN  s # t /\ Before(Collect(PastSep(s, n)), Collect(PastSep(t, n)))

-----------------------------------------------------------------------------
(* PathBuf::push (Path::join): a rooted path replaces the buffer.          *)
PushPath(s, t) ==
    IF HasRoot(t) THEN t
    ELSE IF s # <<>> /\ Last(s) # "/" THEN s \o <<"/">> \o t ELSE s \o t

FromIter(cs) == FoldLeft(PushPath, <<>>, cs)

HasParent(s) == NextBack(Components(s)).out \notin {NoComp, RootDir}
Parent(s) == AsPath(NextBack(Components(s)).it)

(* iter_after, over either end: strip_prefix, starts_with, ends_with.      *)
RECURSIVE IterAfter(_, _)
IterAfter(c, d) ==
    LET n == NextComp(c)
        m == NextComp(d)
    IN  IF m.out = NoComp THEN [ok |-> TRUE, it |-> c]
        ELSE IF n.out = m.out THEN IterAfter(n.it, m.it)
        ELSE [ok |-> FALSE, it |-> c]

StripPrefix(s, base) == LET r == IterAfter(Components(s), Components(base))
                        IN  [ok |-> r.ok, path |-> AsPath(r.it)]

RECURSIVE EndsAfter(_, _)
EndsAfter(c, d) ==
    LET n == NextBack(c)
        m == NextBack(d)
    IN  m.out = NoComp \/ (n.out = m.out /\ EndsAfter(n.it, m.it))

(* file_name, file_stem, extension and set_extension.                      *)
FileName(s) == LET c == NextBack(Components(s)).out
               IN  IF c \in {RootDir, CurDir, ParentDir} THEN NoComp ELSE c

StemLen(f) == LET dot == SelectLastInSeq(f, LAMBDA b : b = ".")
              IN  IF dot <= 1 THEN Len(f) ELSE dot - 1

FileStem(s) == LET f == FileName(s) IN SubSeq(f, 1, StemLen(f))
Extension(s) == LET f == FileName(s) IN SubSeq(f, StemLen(f) + 2, Len(f))

(* The stem is a slice of the path, so its end is a place in the buffer.   *)
StemEnd(s) ==
    LET cut == Len(NextBack(Components(s)).it.path)
    IN  (IF s[cut + 1] = "/" THEN cut + 1 ELSE cut) + StemLen(FileName(s))

SetExtension(s, e) ==
    IF FileName(s) = NoComp THEN s
    ELSE SubSeq(s, 1, StemEnd(s)) \o (IF e = <<>> THEN <<>> ELSE <<".">> \o e)

(* set_file_name: pop the last name, if there is one, and push.            *)
SetFileName(s, f) == PushPath(IF FileName(s) # NoComp THEN Parent(s) ELSE s, f)

-----------------------------------------------------------------------------
PathsUpTo(n) == UNION {[1 .. k -> Byte] : k \in 0 .. n}

PathInit ==
    /\ \/ p \in PathsUpTo(MaxPath) /\ q = <<>>
       \/ p \in PathsUpTo(MaxPair) /\ q \in PathsUpTo(MaxPair) \ {<<>>}
    /\ it = Components(p) /\ heads = <<>> /\ tails = <<>>

TakeFront ==
    /\ q = <<>> /\ ~IterDone(it)
    /\ LET n == NextComp(it)
       IN  /\ it' = n.it
           /\ heads' = IF n.out = NoComp THEN heads ELSE Append(heads, n.out)
    /\ UNCHANGED <<p, q, tails>>

TakeBack ==
    /\ q = <<>> /\ ~IterDone(it)
    /\ LET n == NextBack(it)
       IN  /\ it' = n.it
           /\ tails' = IF n.out = NoComp THEN tails ELSE <<n.out>> \o tails
    /\ UNCHANGED <<p, q, heads>>

PathNext == TakeFront \/ TakeBack
PathSpec == PathInit /\ [][PathNext]_pathvars

-----------------------------------------------------------------------------
(* The components of a path, from its pieces between separators.           *)
Pieces(s) == FoldLeft(LAMBDA acc, b : IF b = "/" THEN Append(acc, <<>>)
                                      ELSE [acc EXCEPT ![Len(acc)] = Append(@, b)],
                      <<<<>>>>, s)

Parts(s) ==
    (IF HasRoot(s) THEN <<RootDir>> ELSE <<>>)
        \o (IF Pieces(s)[1] = CurDir THEN <<CurDir>> ELSE <<>>)
        \o SelectSeq(Pieces(s), LAMBDA x : x \notin {<<>>, CurDir})

(* However the calls of next and next_back interleave, each component of   *)
(* the path comes out once and in its place: what the front returned, what *)
(* is left (to either direction, and as the path as_path gives, which      *)
(* parent and strip_prefix hand out) and what the back returned make up    *)
(* the whole path.                                                         *)
PathsParsed ==
    \A rest \in {Collect(it)} :
        /\ heads \o rest \o tails = Parts(p)
        /\ CollectBack(it) = Reverse(rest)
        /\ ~IterDone(it) => \A left \in {AsPath(it)} : Parts(left) = rest

NoDot(cs) == IF cs # <<>> /\ Head(cs) = CurDir THEN Tail(cs) ELSE cs

(* The operations agree with the components whatever shortcut they take:   *)
(* == (bytes first, then back to front) and cmp (skips a shared prefix of  *)
(* bytes) are those of the component sequences, equal paths hash alike     *)
(* although hash works on bytes, a join has the parts of both paths,       *)
(* strip_prefix, starts_with and ends_with find exactly the prefixes and   *)
(* suffixes, and set_extension changes the extension alone.                *)
PathLaws ==
    \A P \in {Parts(p)}, Q \in {Parts(q)}, strip \in {StripPrefix(p, q)}, set \in {SetExtension(p, q)} :
        /\ PathEq(p, q) <=> P = Q
        /\ P = Q => PathHash(p) = PathHash(q)
        /\ PathLess(p, q) <=> Before(P, Q)
        /\ Parts(PushPath(p, q)) = IF HasRoot(q) THEN Q
                               ELSE IF p = <<>> THEN Q ELSE P \o NoDot(Q)
        /\ Parts(FromIter(P)) = P
        /\ HasParent(p) => \A up \in {Parent(p)} : Parts(up) = SubSeq(P, 1, Len(P) - 1)
        /\ strip.ok <=> IsPrefix(Q, P)
        /\ strip.ok => Parts(strip.path) = SubSeq(P, Len(Q) + 1, Len(P))
        /\ EndsAfter(Components(p), Components(q)) <=> IsSuffix(Q, P)
        /\ q # <<>> /\ ~HasRoot(q) /\ FileName(p) # NoComp =>
               \A named \in {SetFileName(p, q)} :
                   Parts(named) = SubSeq(P, 1, Len(P) - 1) \o (IF Len(P) > 1 THEN NoDot(Q) ELSE Q)
        /\ FileName(p) # NoComp /\ q # <<>> /\ (\A i \in 1 .. Len(q) : q[i] = "a") =>
               FileStem(set) = FileStem(p) /\ Extension(set) = q
                   /\ SubSeq(Parts(set), 1, Len(P) - 1) = SubSeq(P, 1, Len(P) - 1)
=============================================================================
