-------------------------------- MODULE Heap --------------------------------
(***************************************************************************)
(* The kernel heap, h2o/libs/heap, over the physical memory manager.       *)
(* Small requests are rounded up to one of OBJ_SIZES and served from slab  *)
(* pages, whose first objects are taken by the page's own header; a slab   *)
(* list picks the page with the fewest free objects.  Larger requests, and *)
(* new slab pages, go to the pager, which is PageSource here.  `alloc' and *)
(* `dealloc' hold the pool's lock, or the pager's, from beginning to end.  *)
(***************************************************************************)
EXTENDS Integers, Sequences, FiniteSets, FiniteSetsExt, TLC

CONSTANTS Layouts,    \* the layouts asked for, [size, align]
          HeapFrames, \* the frames the pager has to give
          MaxLive     \* allocations alive at a time

PAGE_SIZE == 4096

OBJ_SIZES == <<16, 24, 32, 48, 64, 80, 96, 112, 128, 160, 192, 224, 256, 320, 384, 448,
               512, 640, 768, 896, 1024, 1152, 1280, 1408, 1536, 1664, 1792, 1920>>

MAX_OBJ_SIZE == OBJ_SIZES[Len(OBJ_SIZES)]
HEADER_SIZE  == 72   \* link (24), objsize (8), the bitmap of 256 bits (32), used_count (8)

VARIABLES page,    \* the slab pages: frame -> [objsize, used]
          slabs,   \* the slab list of each object size, as a set of frames
          given,   \* the pager's grants, [base, n]
          live,    \* what callers hold: [addr, layout]
          used     \* Stat::current_used

hvars == <<page, slabs, given, live, used>>

Pager == INSTANCE PageSource WITH Frame <- HeapFrames, usable <- HeapFrames, held <- given

PadToAlign(l) == ((l.size + l.align - 1) \div l.align) * l.align

(* unwrap_layout: the binary search for the first size that is enough.     *)
SizeOf(l) == OBJ_SIZES[Min({i \in DOMAIN OBJ_SIZES : OBJ_SIZES[i] >= PadToAlign(l)})]

Small(l)  == PadToAlign(l) <= MAX_OBJ_SIZE
NrPages(l) == (PadToAlign(l) + PAGE_SIZE - 1) \div PAGE_SIZE

(* A bug: the division that counts the header's objects rounds down.         *)
HeaderCount_Down(sz) == HEADER_SIZE \div sz

HeaderCount(sz) == HEADER_SIZE \div sz + (IF HEADER_SIZE % sz # 0 THEN 1 ELSE 0)
MaxCount(sz)    == PAGE_SIZE \div sz
FreeCount(p)    == MaxCount(page[p].objsize) - Cardinality(page[p].used)

(* Page::init.                                                             *)
FreshPage(sz) == [objsize |-> sz, used |-> 0 .. HeaderCount(sz) - 1]

(* Page::pop, from the lowest free object.                                 *)
PopFrom(pg, p, l) ==
    LET i == Min((HeaderCount(pg.objsize) .. MaxCount(pg.objsize) - 1) \ pg.used)
    IN  /\ page' = (p :> [pg EXCEPT !.used = @ \cup {i}]) @@ page
        /\ live' = live \cup {[addr |-> p * PAGE_SIZE + pg.objsize * i, layout |-> l]}
        /\ used' = used + PadToAlign(l)

(* Slab::pop: among the pages with a free object, one with the fewest.     *)
SlabFront(sz) == LET some == {p \in slabs[sz] : FreeCount(p) > 0}
                 IN  {p \in some : \A q \in some : FreeCount(p) <= FreeCount(q)}

AllocSmall(l) ==
    LET sz == SizeOf(l)
    IN  /\ Small(l)
        /\ \E p \in SlabFront(sz) : PopFrom(page[p], p, l)
        /\ UNCHANGED <<slabs, given>>

(* Error::NeedExt: Pool::extend with a page of the pager, and a second     *)
(* allocation.  Without a page the request fails and nothing has changed.  *)
ExtendSlab(l) ==
    LET sz == SizeOf(l)
    IN  /\ Small(l) /\ SlabFront(sz) = {}
        /\ \E p \in Pager!Avail :
               /\ given' = given \cup {[base |-> p, n |-> 1]}
               /\ slabs' = [slabs EXCEPT ![sz] = @ \cup {p}]
               /\ PopFrom(FreshPage(sz), p, l)

AllocLarge(l) ==
    LET n == NrPages(l)
    IN  /\ ~Small(l)
        /\ \E p \in HeapFrames :
               /\ Pager!Run(p, n) \subseteq Pager!Avail
               /\ given' = given \cup {[base |-> p, n |-> n]}
               /\ live' = live \cup {[addr |-> p * PAGE_SIZE, layout |-> l]}
        /\ UNCHANGED <<page, slabs, used>>

(* dealloc: Slab::push on the page of the address, which goes back to the  *)
(* list while it has a free object, as it always does here, and to the     *)
(* pager otherwise.                                                        *)
DeallocSmall(o) ==
    LET p    == o.addr \div PAGE_SIZE
        sz   == SizeOf(o.layout)
        left == page[p].used \ {(o.addr % PAGE_SIZE) \div page[p].objsize}
        partially_free == Cardinality(left) < MaxCount(page[p].objsize)
    IN  /\ Small(o.layout)
        /\ page' = [page EXCEPT ![p].used = left]
        /\ slabs' = [slabs EXCEPT ![sz] = IF partially_free THEN @ \cup {p} ELSE @ \ {p}]
        /\ given' = IF partially_free THEN given ELSE given \ {[base |-> p, n |-> 1]}
        /\ live' = live \ {o}
        /\ used' = used - PadToAlign(o.layout)

DeallocLarge(o) ==
    /\ ~Small(o.layout)
    /\ given' = given \ {[base |-> o.addr \div PAGE_SIZE, n |-> NrPages(o.layout)]}
    /\ live' = live \ {o}
    /\ UNCHANGED <<page, slabs, used>>

HeapInit == /\ page = <<>> /\ slabs = [sz \in {OBJ_SIZES[i] : i \in DOMAIN OBJ_SIZES} |-> {}]
            /\ given = {} /\ live = {} /\ used = 0

HeapNext ==
    \/ \E l \in Layouts : /\ Cardinality(live) < MaxLive
                          /\ AllocSmall(l) \/ ExtendSlab(l) \/ AllocLarge(l)
    \/ \E o \in live : DeallocSmall(o) \/ DeallocLarge(o)

HeapSpec == HeapInit /\ [][HeapNext]_hvars
-----------------------------------------------------------------------------
Meets(o, q) == o.addr < q.addr + q.layout.size /\ q.addr < o.addr + o.layout.size

(* Allocations never share a byte with one another or with a slab page's   *)
(* header, they are aligned as their layout asks although OBJ_SIZES are    *)
(* not powers of two, they lie in pages the pager granted, and every slab  *)
(* page with room is on the list a later alloc looks at.                   *)
AllocationsApart ==
    /\ \A o, q \in live : o # q => ~Meets(o, q)
    /\ \A o \in live :
           /\ o.addr % o.layout.align = 0
           /\ \E g \in given : /\ g.base * PAGE_SIZE <= o.addr
                               /\ o.addr + o.layout.size <= (g.base + g.n) * PAGE_SIZE
           /\ Small(o.layout) => /\ o.addr % PAGE_SIZE >= HEADER_SIZE
                                 /\ o.addr \div PAGE_SIZE \in slabs[SizeOf(o.layout)]
    /\ \A p \in DOMAIN page : p \in slabs[page[p].objsize]
    /\ used = MapThenSumSet(LAMBDA o : PadToAlign(o.layout), {o \in live : Small(o.layout)})
=============================================================================
