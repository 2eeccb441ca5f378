-------------------------------- MODULE Phys --------------------------------
(***************************************************************************)
(* Physical memory objects, h2o/kernel/src/mem/space/phys.  An extensible  *)
(* object is a list of pages that are allocated at the first write; a copy *)
(* of a part of it (create_sub) moves the pages to a branch that both      *)
(* lists then look pages up in, and a page leaves the branch as a copy for *)
(* the first writer and is moved to the next one that asks.  A contiguous  *)
(* object is a window on one allocation, shared by the windows cut out of  *)
(* it.  Each operation holds the lock of its own list and takes the        *)
(* parents' with try_lock: it gives up if one is taken.                    *)
(***************************************************************************)
EXTENDS Integers, FiniteSets, FiniteSetsExt, TLC

CONSTANTS Shapes,    \* bounds: pages of an object, and objects with their branches
          NrPhysFrames, \* frames to allocate from; ZERO_PAGE is frame 0
          PhysVal,   \* what a page may contain; 0 is a zeroed page
          MaxMaps,   \* mappings alive at a time
          MaxPin     \* the pin count of a list

VARIABLES shape, \* the bounds of this behaviour, [pages, objs]
          list,  \* the PageList of each extensible object and branch
          cont,  \* the contiguous objects: [inner, offset, len]
          data,  \* the contents of the frames
          maps,  \* the mappings made with pin: [obj, idx, frame, write]
          want   \* what each extensible object was last given to hold

physvars == <<shape, list, cont, data, maps, want>>

ZERO_PAGE == 0
PageCount == shape.pages
Obj       == 1 .. shape.objs
Node(f)   == [state |-> "ShouldCopy", page |-> f, pin |-> 0]

OwnedBy(L) == UNION {{L[l].pages[i].page : i \in DOMAIN L[l].pages} : l \in DOMAIN L}
ContFrames == UNION {cont[c].inner : c \in DOMAIN cont}
FreeFrames(L) == (1 .. NrPhysFrames) \ (OwnedBy(L) \cup ContFrames)

SetPage(L, l, i, node) == [L EXCEPT ![l].pages = (i :> node) @@ @]
DelPage(L, l, i) == [L EXCEPT ![l].pages = [j \in DOMAIN @ \ {i} |-> @[j]]]

(* commit_impl and get_from_branch: what becomes of the lists and the      *)
(* frames' contents, whether the page is handed over ("insert") or only    *)
(* referred to, and which frame it is.                                     *)
RECURSIVE Commit(_, _, _, _, _)
Commit(L, D, l, i, write) ==
    LET me   == L[l]
        new  == Min(FreeFrames(L))
        up   == Commit(L, D, me.parent, me.pstart + i, write)
        Done(M, E, how, f) == [list |-> M, data |-> E, how |-> how, frame |-> f]
    IN  IF i \in DOMAIN me.pages
        THEN LET n == me.pages[i]
             IN  CASE ~me.branch -> Done(L, D, "ref", n.page)
                   [] n.state = "ShouldMove" -> Done(DelPage(L, l, i), D, "insert", n.page)
                   [] write -> Done(SetPage(L, l, i, [n EXCEPT !.state = "ShouldMove"]),
                                    [D EXCEPT ![new] = D[n.page]], "insert", new)
                   [] OTHER -> Done(L, D, "ref", n.page)
        ELSE IF me.parent # 0 /\ me.pstart + i < me.pend
        THEN IF up.how = "insert"
             THEN Done(SetPage(up.list, l, i, Node(up.frame)), up.data, "ref", up.frame)
             ELSE up
        ELSE IF ~write THEN Done(L, D, "ref", ZERO_PAGE)
        ELSE IF me.branch THEN Done(L, [D EXCEPT ![new] = 0], "insert", new)
        ELSE Done(SetPage(L, l, i, Node(new)), [D EXCEPT ![new] = 0], "ref", new)

(* pin_impl: the node the page was found in, the branch's for a write that *)
(* left none in the list itself.                                           *)
RECURSIVE PinPage(_, _, _, _)
PinPage(L, l, i, write) ==
    IF i \in DOMAIN L[l].pages
    THEN [L EXCEPT ![l].pages[i].pin = @ + 1, ![l].pin = @ + 1]
    ELSE IF write THEN PinPage(L, L[l].parent, L[l].pstart + i, write) ELSE L

UnpinPage(L, l, i) ==
    IF i \in DOMAIN L[l].pages
    THEN [L EXCEPT ![l].pages[i].pin = Max({@ - 1, 0}), ![l].pin = Max({@ - 1, 0})] ELSE L

Leaves == {l \in DOMAIN list : ~list[l].branch}
Unused == Obj \ (DOMAIN list \cup DOMAIN cont)
Fresh  == IF Unused = {} THEN {} ELSE {Min(Unused)}

NewExt(l, n) ==
    /\ l \in Fresh
    /\ list' = (l :> [branch |-> FALSE, parent |-> 0, pstart |-> 0, pend |-> 0,
                      pages |-> <<>>, count |-> n, pin |-> 0]) @@ list
    /\ want' = (l :> [i \in 0 .. n - 1 |-> 0]) @@ want
    /\ UNCHANGED <<cont, data, maps>>

WriteExt(l, i, val) ==
    /\ i < list[l].count /\ FreeFrames(list) # {}
    /\ LET r == Commit(list, data, l, i, TRUE)
       IN  list' = r.list /\ data' = [r.data EXCEPT ![r.frame] = val]
    /\ want' = [want EXCEPT ![l] = (i :> val) @@ @]
    /\ UNCHANGED <<cont, maps>>

ReadExt(l, i) ==
    /\ i < list[l].count
    /\ LET r == Commit(list, data, l, i, FALSE) IN list' = r.list /\ data' = r.data
    /\ UNCHANGED <<cont, maps, want>>

(* A bug: the pages stay with the object instead of moving to the branch.    *)
SubExt_Kept(l, a, b, br, sub) ==
    /\ list[l].pin = 0 /\ a < b /\ b <= list[l].count
    /\ br \in Fresh /\ sub \in {br + 1} \cap Unused
    /\ list' = (sub :> [branch |-> FALSE, parent |-> br, pstart |-> a, pend |-> b,
                        pages |-> <<>>, count |-> b - a, pin |-> 0])
               @@ (br :> [list[l] EXCEPT !.branch = TRUE])
               @@ [list EXCEPT ![l] = [@ EXCEPT !.parent = br, !.pstart = 0,
                                                !.pend = list[l].count]]
    /\ want' = (sub :> [i \in {j \in 0 .. b - a - 1 : a + j \in DOMAIN want[l]} |-> want[l][a + i]])
                @@ want
    /\ UNCHANGED <<cont, data, maps>>

(* create_sub of the pages a .. b - 1: refused while a page is pinned.     *)
SubExt(l, a, b, br, sub) ==
    /\ list[l].pin = 0 /\ a < b /\ b <= list[l].count
    /\ br \in Fresh /\ sub \in {br + 1} \cap Unused
    /\ list' = (sub :> [branch |-> FALSE, parent |-> br, pstart |-> a, pend |-> b,
                        pages |-> <<>>, count |-> b - a, pin |-> 0])
               @@ (br :> [list[l] EXCEPT !.branch = TRUE])
               @@ [list EXCEPT ![l] = [@ EXCEPT !.parent = br, !.pstart = 0,
                                                !.pend = list[l].count, !.pages = <<>>]]
    /\ want' = (sub :> [i \in {j \in 0 .. b - a - 1 : a + j \in DOMAIN want[l]} |-> want[l][a + i]])
                @@ want
    /\ UNCHANGED <<cont, data, maps>>

(* resize: refused while pinned; the pages beyond a smaller count stay.    *)
ResizeExt(l, n) ==
    /\ list[l].pin = 0
    /\ list' = [list EXCEPT ![l].count = n]
    /\ want' = [want EXCEPT ![l] = [i \in DOMAIN @ \cap (0 .. n - 1) |-> @[i]]]
    /\ UNCHANGED <<cont, data, maps>>

MapExt(l, i, write) ==
    /\ i < list[l].count /\ FreeFrames(list) # {} /\ Cardinality(maps) < MaxMaps
    /\ \A k \in DOMAIN list : list[k].pin < MaxPin
    /\ LET r == Commit(list, data, l, i, write)
       IN  /\ list' = PinPage(r.list, l, i, write) /\ data' = r.data
           /\ maps' = maps \cup {[obj |-> l, idx |-> i, frame |-> r.frame, write |-> write]}
    /\ UNCHANGED <<cont, want>>

UnmapExt(m) ==
    /\ m.obj \in DOMAIN list
    /\ maps' = maps \ {m} /\ list' = UnpinPage(list, m.obj, m.idx)
    /\ UNCHANGED <<cont, data, want>>

(* The last reference to an object goes: with it the branches that nobody  *)
(* looks pages up in any more, and their pages.                            *)
RECURSIVE Lineage(_, _)
Lineage(L, l) == IF l = 0 THEN {} ELSE {l} \cup Lineage(L, L[l].parent)

DropExt(l) ==
    /\ \A m \in maps : m.obj # l
    /\ LET kept == UNION {Lineage(list, k) : k \in Leaves \ {l}}
           L    == [k \in kept |-> list[k]]
       IN  /\ list' = L
           /\ data' = [f \in DOMAIN data |-> IF f \in OwnedBy(L) THEN data[f] ELSE 0]
    /\ want' = [k \in DOMAIN want \ {l} |-> want[k]]
    /\ UNCHANGED <<cont, maps>>

(* Contiguous objects: Phys::allocate, create_sub with and without a copy, *)
(* pin, unpin and drop.                                                    *)
NewCont(c, n) ==
    /\ c \in Fresh
    /\ \E f \in FreeFrames(list) :
           /\ f .. f + n - 1 \subseteq FreeFrames(list)
           /\ cont' = (c :> [inner |-> f .. f + n - 1, offset |-> 0, len |-> n]) @@ cont
    /\ UNCHANGED <<list, data, maps, want>>

SubCont(c, a, b, sub) ==
    /\ sub \in Fresh /\ a < b /\ b <= cont[c].len
    /\ cont' = (sub :> [cont[c] EXCEPT !.offset = @ + a, !.len = b - a]) @@ cont
    /\ UNCHANGED <<list, data, maps, want>>

MapCont(c, i) ==
    /\ i < cont[c].len /\ Cardinality(maps) < MaxMaps
    /\ maps' = maps \cup {[obj |-> c, idx |-> i, write |-> TRUE,
                         frame |-> Min(cont[c].inner) + cont[c].offset + i]}
    /\ UNCHANGED <<list, cont, data, want>>

UnmapCont(m) ==
    /\ m.obj \in DOMAIN cont
    /\ maps' = maps \ {m}
    /\ UNCHANGED <<list, cont, data, want>>

DropCont(c) ==
    /\ \A m \in maps : m.obj # c
    /\ cont' = [d \in DOMAIN cont \ {c} |-> cont[d]]
    /\ UNCHANGED <<list, data, maps, want>>

PhysInit == /\ shape \in Shapes /\ list = <<>> /\ cont = <<>> /\ maps = {} /\ want = <<>>
            /\ data = [f \in 0 .. NrPhysFrames |-> 0]

ExtNext ==
    \/ list = <<>> /\ \E l \in Obj, n \in 1 .. PageCount : NewExt(l, n)
    \/ \E l \in Leaves :
           \/ DropExt(l)
           \/ \E i \in 0 .. PageCount - 1 :
                  \/ ReadExt(l, i)
                  \/ \E v \in PhysVal : WriteExt(l, i, v)
                  \/ \E w \in BOOLEAN : MapExt(l, i, w)
                  \/ ResizeExt(l, i + 1)
           \/ \E a, b \in 0 .. PageCount, br, sub \in Obj : SubExt(l, a, b, br, sub)
    \/ \E m \in maps : UnmapExt(m)

ContNext ==
    \/ cont = <<>> /\ \E c \in Obj, n \in 1 .. PageCount : NewCont(c, n)
    \/ \E c \in DOMAIN cont :
           \/ DropCont(c)
           \/ \E i \in 0 .. PageCount - 1 : MapCont(c, i)
           \/ \E a, b \in 0 .. PageCount, sub \in Obj : SubCont(c, a, b, sub)
    \/ \E m \in maps : UnmapCont(m)

(* Unrelated objects only share the allocator, so one family of objects is *)
(* explored at a time.                                                     *)
PhysNext == /\ (cont = <<>> /\ ExtNext) \/ (list = <<>> /\ ContNext)
            /\ UNCHANGED shape

PhysSpec == PhysInit /\ [][PhysNext]_physvars
-----------------------------------------------------------------------------
(* Neither the object nor what it was copied from or to was copied twice.  *)
Shallow(l) == l \in DOMAIN list => (list[l].parent = 0 \/ list[list[l].parent].parent = 0)

(* A frame is in one place: it belongs to one page of one list or to one   *)
(* contiguous allocation, so it is freed once; and a frame that a writable *)
(* mapping was made with still belongs to the mapped object, whatever was  *)
(* copied, moved or dropped since, so it is not freed under the mapping.   *)
(* (A read-only mapping of a page found in a branch is not pinned, and a   *)
(* write through two branches stays in the lower one: nothing of the kind  *)
(* holds for those.)                                                       *)
FramesOwned ==
    LET Slots == {<<l, i>> \in (DOMAIN list) \X (0 .. PageCount - 1) : i \in DOMAIN list[l].pages}
        PageAt(s) == list[s[1]].pages[s[2]].page
    IN  /\ \A s, t \in Slots : PageAt(s) = PageAt(t) => s = t
        /\ OwnedBy(list) \cap ({ZERO_PAGE} \cup ContFrames) = {}
        /\ \A m \in maps : (m.write /\ Shallow(m.obj)) =>
               \/ m.obj \in DOMAIN cont /\ m.frame \in cont[m.obj].inner
               \/ /\ m.obj \in DOMAIN list
                  /\ \E i \in DOMAIN list[m.obj].pages : list[m.obj].pages[i].page = m.frame

(* A copy made by create_sub and the object it was made from read back     *)
(* what each was given, whatever the other writes afterwards, as long as   *)
(* neither was copied from a copy: the object's branch has no branch above *)
(* it.                                                                     *)
CopiesIsolated ==
    \A l \in Leaves :
        Shallow(l) =>
            \A i \in DOMAIN want[l] :
                LET r == Commit(list, data, l, i, FALSE) IN r.data[r.frame] = want[l][i]
=============================================================================
