------------------------------- MODULE Buddy --------------------------------
(***************************************************************************)
(* The physical memory manager, h2o/libs/pmm.  Free frames are kept in     *)
(* blocks of 2^k frames, one list per zone (below and above 4 GiB) and per *)
(* order k.  The head frame of a free block of order k carries k + 1 in    *)
(* its `order' field; every other frame carries 0.  PMM_LOCK is taken by   *)
(* alloc_page_typed and dealloc_page_typed, once per block: allocating an  *)
(* exact number of frames takes it once to pop a block and once for each   *)
(* piece given back, and the other CPUs may run in between.                *)
(***************************************************************************)
EXTENDS Integers, Sequences, FiniteSets, FiniteSetsExt, SequencesExt

CONSTANTS Cpu,
          MAX_ORDER,   \* the orders are 0 .. MAX_ORDER - 1
          NrFrames,    \* frames are numbered from 0
          PFTYPE_BOUND,\* the first frame of the high zone
          Mmap,        \* the boot loader's usable ranges, a sequence of [base, n]
          Reserved,    \* the frames of the trampoline
          MaxGrant     \* the largest request made

Frame == 0 .. NrFrames - 1
Order == 0 .. MAX_ORDER - 1
Zone  == {"low", "high"}
Idle  == [at |-> "idle"]

ASSUME BuddyAssumption ==
    /\ MAX_ORDER \in Nat \ {0} /\ NrFrames \in Nat
    /\ NrFrames % 2^(MAX_ORDER - 1) = 0 /\ PFTYPE_BOUND % 2^(MAX_ORDER - 1) = 0

VARIABLES lists,  \* the free lists: [Zone -> [Order -> sequence of frames]]
          order,  \* the `order' field of every frame
          mmap,   \* the ranges parse_mmap has not reached yet
          usable, \* frames given to the manager so far
          held,   \* grants in the hands of callers, [base, n]
          cpu     \* what each CPU is doing

bvars == <<lists, order, mmap, usable, held, cpu>>

Run(base, n) == base .. base + n - 1

ZoneOf(f) == IF f < PFTYPE_BOUND THEN "low" ELSE "high"
Base(z)   == IF z = "low" THEN 0 ELSE PFTYPE_BOUND
Pfn(f)    == f - Base(ZoneOf(f))

(* BitOpEx: the order of the smallest block of n frames, of the largest    *)
(* block inside n frames, and of the largest block a frame number starts.  *)
Log2c(n) == CHOOSE k \in 0 .. n : 2^k >= n /\ (k = 0 \/ 2^(k - 1) < n)
Log2f(n) == CHOOSE k \in 0 .. n : 2^k <= n /\ 2^(k + 1) > n
Lsb(p)   == IF p = 0 THEN MAX_ORDER ELSE Max({k \in 0 .. p : p % 2^k = 0})

(* get_buddy, and get_combined taken from order 0 up to k.                 *)
BuddyOf(f, k)  == IF (Pfn(f) \div 2^k) % 2 = 0 THEN f + 2^k ELSE f - 2^k
(* A bug: a merge keeps the address of the block that was freed.             *)
Combined_Same(f, k) == f

Combined(f, k) == f - (Pfn(f) % 2^k)

(***************************************************************************)
(* alloc_page_typed: the first block of the smallest list that can serve,  *)
(* and split_page, which puts the upper halves back order by order.        *)
(***************************************************************************)
Serving(z, k) == {o \in k .. MAX_ORDER - 1 : lists[z][o] # <<>>}

PopBlock(z, k, page) ==
    LET o == Min(Serving(z, k))
    IN  /\ page = Head(lists[z][o])
        /\ lists' = [lists EXCEPT ![z] = [i \in Order |->
                         CASE i = o            -> Tail(lists[z][o])
                           [] i \in k .. o - 1 -> Append(lists[z][i], page + 2^i)
                           [] OTHER            -> lists[z][i]]]
        /\ order' = [f \in Frame |->
                         IF f = page THEN 0
                         ELSE IF \E i \in k .. o - 1 : f = page + 2^i
                         THEN 1 + CHOOSE i \in k .. o - 1 : f = page + 2^i
                         ELSE order[f]]

(***************************************************************************)
(* dealloc_page_typed: merge with the buddy while the buddy heads a free   *)
(* block of the same order, then push the result.                          *)
(***************************************************************************)
MergesAt(f, k) == k < MAX_ORDER - 1 /\ order[BuddyOf(Combined(f, k), k)] = k + 1

PushBlock(f, k) ==
    LET z      == ZoneOf(f)
        final  == Min({q \in k .. MAX_ORDER - 1 : ~MergesAt(f, q)})
        Eaten(o) == BuddyOf(Combined(f, o), o)
        p      == Combined(f, final)
    IN  /\ lists' = [lists EXCEPT ![z] = [i \in Order |->
                         CASE i \in k .. final - 1 -> Remove(lists[z][i], Eaten(i))
                           [] i = final            -> Append(lists[z][i], p)
                           [] OTHER                -> lists[z][i]]]
        /\ order' = [[g \in Frame |-> IF \E o \in k .. final - 1 : g = Eaten(o)
                                      THEN 0 ELSE order[g]]
                        EXCEPT ![p] = final + 1]

(***************************************************************************)
(* dealloc_pages_exact: the run is cut from the left into the largest      *)
(* aligned blocks that fit.                                                *)
(***************************************************************************)
Piece(start, end) == Min({Lsb(Pfn(start)), MAX_ORDER - 1, Log2f(end - start)})

Freeing(start, end) == IF start < end
                       THEN [at |-> "free", start |-> start, end |-> end] ELSE Idle

FreePiece(c) ==
    /\ cpu[c].at = "free"
    /\ LET k == Piece(cpu[c].start, cpu[c].end)
       IN  /\ PushBlock(cpu[c].start, k)
           /\ cpu' = [cpu EXCEPT ![c] = Freeing(cpu[c].start + 2^k, cpu[c].end)]
    /\ UNCHANGED <<mmap, usable, held>>

(* parse_mmap, on the boot CPU before any other runs: ranges that touch    *)
(* the trampoline are left out.                                            *)
ParseMmap(c) ==
    /\ mmap # <<>> /\ \A d \in Cpu : cpu[d] = Idle
    /\ mmap' = Tail(mmap)
    /\ LET r    == Head(mmap)
           keep == r.base \notin Reserved /\ r.base + r.n \notin Reserved
       IN  /\ usable' = IF keep THEN usable \cup Run(r.base, r.n) ELSE usable
           /\ cpu' = [cpu EXCEPT ![c] =
                          IF keep THEN Freeing(r.base, r.base + r.n) ELSE Idle]
    /\ UNCHANGED <<lists, order, held>>

(***************************************************************************)
(* alloc_pages_exact(n, pftype): refused when 2^k exceeds the largest      *)
(* block; without a zone, the high one is tried first.                     *)
(***************************************************************************)
AllocExact(c, n, zones) ==
    /\ mmap = <<>> /\ cpu[c] = Idle
    /\ Log2c(n) \in Order
    /\ cpu' = [cpu EXCEPT ![c] = [at |-> "pop", n |-> n, zones |-> zones]]
    /\ UNCHANGED <<lists, order, mmap, usable, held>>

(* alloc_page_typed in one zone, and the start of scale_back_pages.        *)
PopPages(c) ==
    /\ cpu[c].at = "pop"
    /\ LET n == cpu[c].n
           k == Log2c(n)
           z == Head(cpu[c].zones)
       IN  \/ /\ Serving(z, k) # {}
              /\ \E page \in Frame :
                     /\ PopBlock(z, k, page)
                     /\ held' = held \cup {[base |-> page, n |-> n]}
                     /\ cpu' = [cpu EXCEPT ![c] = Freeing(page + n, page + 2^k)]
           \/ /\ Serving(z, k) = {}
              /\ cpu' = [cpu EXCEPT ![c] =
                             IF Len(cpu[c].zones) > 1
                             THEN [cpu[c] EXCEPT !.zones = Tail(@)] ELSE Idle]
              /\ UNCHANGED <<lists, order, held>>
    /\ UNCHANGED <<mmap, usable>>

DeallocExact(c, g) ==
    /\ mmap = <<>> /\ cpu[c] = Idle
    /\ held' = held \ {g}
    /\ cpu' = [cpu EXCEPT ![c] = Freeing(g.base, g.base + g.n)]
    /\ UNCHANGED <<lists, order, mmap, usable>>

BuddyInit ==
    /\ lists = [z \in Zone |-> [o \in Order |-> <<>>]]
    /\ order = [f \in Frame |-> 0]
    /\ mmap = Mmap /\ usable = {} /\ held = {}
    /\ cpu = [c \in Cpu |-> Idle]

BuddyNext ==
    \E c \in Cpu :
        \/ ParseMmap(c)
        \/ FreePiece(c)
        \/ PopPages(c)
        \/ \E n \in 1 .. MaxGrant, zs \in {<<"high", "low">>, <<"low">>} : AllocExact(c, n, zs)
        \/ \E g \in held : DeallocExact(c, g)

BuddySpec == BuddyInit /\ [][BuddyNext]_bvars
-----------------------------------------------------------------------------
InFlight == UNION {IF cpu[c].at = "free" THEN cpu[c].start .. cpu[c].end - 1 ELSE {} : c \in Cpu}

FreeBlock(o) == UNION {ToSet(lists[z][o]) : z \in Zone}

Blocks == {[head |-> f, at |-> o] : <<f, o>> \in {p \in Frame \X Order : p[1] \in FreeBlock(p[2])}}

(* Every usable frame is in exactly one place: a grant, a piece on its way *)
(* back, or one block of one free list; a frame carries k + 1 exactly when *)
(* it heads a block of list k.  So split_page and dealloc_page_typed never *)
(* meet the non-zero `order' their assertions exclude, and no frame leaks; *)
(* and no free block below the largest order has a free buddy, which       *)
(* dealloc_page_typed would have merged with it.                           *)
FreeListsExact ==
    LET Of(b) == Run(b.head, 2^b.at)
        free  == UNION {Of(b) : b \in Blocks}
        given == UNION {Run(g.base, g.n) : g \in held}
    IN  /\ \A z \in Zone, o \in Order : IsInjective(lists[z][o])
        /\ \A f \in Frame, o \in Order : order[f] = o + 1 <=> f \in FreeBlock(o)
        /\ \A b, d \in Blocks : b # d => Of(b) \cap Of(d) = {}
        /\ free \cap (InFlight \cup given) = {} /\ InFlight \cap given = {}
        /\ free \cup InFlight \cup given = usable
        /\ \A o \in 0 .. MAX_ORDER - 2 : \A f \in FreeBlock(o) : BuddyOf(f, o) \notin FreeBlock(o)

Source == INSTANCE PageSource WITH Frame <- 0 .. NrFrames

(* The manager keeps the promise its callers rely on: whatever the CPUs    *)
(* interleave between the locked sections, each allocation is a run of     *)
(* frames nobody else holds.                                               *)
ImplementsPageSource == Source!Spec
=============================================================================
