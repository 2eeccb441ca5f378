-------------------------------- MODULE Virt --------------------------------
(***************************************************************************)
(* Address spaces, h2o/kernel/src/mem/space/virt.rs and space.rs.  A Virt  *)
(* is a range of addresses with children: parts handed out as Virts of     *)
(* their own, and mapped physical objects.  The tree and the page table    *)
(* are under different locks: `map' keeps the children locked while it     *)
(* fills the page table page by page, `unmap' unlocks them before it       *)
(* clears the page table, and a Virt that lost its place in the tree lives *)
(* until the last thread working on it lets go of it, whose Drop then      *)
(* clears what is left.                                                    *)
(*                                                                         *)
(* Addresses are page numbers.  Ranges are shorter than a large page, so   *)
(* the page table maps and unmaps them page by page (see Paging), and they *)
(* are placed by the kernel, or at a fixed offset of a fresh Virt as       *)
(* init_stack does.                                                        *)
(***************************************************************************)
EXTENDS Integers, FiniteSets, FiniteSetsExt, TLC

CONSTANTS Worker,   \* the threads that call in
          RootLen,  \* pages of the root's range
          SubVirt,  \* identities of Virts below the root, which is 0
          PhysId,   \* physical objects
          PhysLen   \* their length

VARIABLES children, \* the live Virts: their children, [base, len, is, id]
          within,   \* the range of each Virt, <<start, end>>
          parent,   \* and its parent
          named,    \* the Virts that a handle leads to; a stack's has none
          locked,   \* the Virts whose children some `map' keeps locked
          pt,       \* the page table: the object and the page mapped at an address
          hdls,     \* objects the user still has a handle of
          work,     \* what each thread is doing
          panicked  \* a kernel panic

virtvars == <<children, within, parent, named, locked, pt, hdls, work, panicked>>

Nothing == <<-1, 0>>
Free    == [at |-> "free", hold |-> {}, todo |-> {}]
End(c)  == c.base + c.len
Span(c) == c.base .. End(c) - 1

VirtOf(c) == IF c.is = "virt" THEN {c.id} ELSE {}
InTree(C) == UNION {UNION {VirtOf(c) : c \in C[v]} : v \in DOMAIN C}
InHand(w) == UNION {w[t].hold \cup UNION {VirtOf(c) : c \in w[t].todo} : t \in Worker}
Usable    == {v \in DOMAIN children : v \notin locked}

(* find_alloc: any position of any gap, picked at random.  When there is   *)
(* none, `rand() % cnt' divides by zero.                                   *)
Fits(v, n) == {b \in within[v][1] .. within[v][2] - n :
                  \A c \in children[v] : End(c) <= b \/ b + n <= c.base}

Panic == panicked' = TRUE /\ UNCHANGED <<children, within, parent, named, locked, pt, hdls, work>>

NewVirt(v, n, base, sub) ==
    /\ children' = (sub :> {}) @@ [children EXCEPT ![v] =
                       @ \cup {[base |-> base, len |-> n, is |-> "virt", id |-> sub]}]
    /\ within' = (sub :> <<base, base + n>>) @@ within
    /\ parent' = (sub :> v) @@ parent

Sought == {work[t].virt : t \in {u \in Worker : work[u].at = "stack"}}
Spare  == LET s == SubVirt \ (DOMAIN children \cup InHand(work) \cup Sought)
          IN  IF s = {} THEN {} ELSE {Min(s)}

Allocate(t, v, n) ==
    /\ work[t] = Free /\ v \in Usable
    /\ IF Fits(v, n) = {} THEN Panic
       ELSE /\ \E b \in Fits(v, n), sub \in Spare : NewVirt(v, n, b, sub) /\ named' = named \cup {sub}
            /\ UNCHANGED <<locked, pt, hdls, work, panicked>>

(* init_stack: a Virt with a guard page on either side of the stack, which *)
(* is found again through its weak reference before it is mapped.          *)
InitStack(t, v, p) ==
    /\ work[t] = Free /\ v \in Usable /\ p \in hdls
    /\ IF Fits(v, PhysLen + 2) = {} THEN Panic
       ELSE /\ \E b \in Fits(v, PhysLen + 2), sub \in Spare :
                   /\ NewVirt(v, PhysLen + 2, b, sub)
                   /\ work' = [work EXCEPT ![t] = [Free EXCEPT !.at = "stack"] @@
                                                      [virt |-> sub, phys |-> p]]
            /\ hdls' = hdls \ {p}
            /\ UNCHANGED <<named, locked, pt, panicked>>

Mapping(t, v, b, p) ==
    /\ locked' = locked \cup {v}
    /\ work' = [work EXCEPT ![t] = [at |-> "map", hold |-> {v}, todo |-> {}, virt |-> v,
                                    base |-> b, next |-> b, phys |-> p]]

StackMap(t) ==
    /\ work[t].at = "stack"
    /\ LET v == work[t].virt
       IN  IF v \notin DOMAIN children THEN Panic
           ELSE /\ v \in Usable
                /\ Mapping(t, v, within[v][1] + 1, work[t].phys)
                /\ UNCHANGED <<children, within, parent, named, pt, hdls, panicked>>

(* virt_map takes the handle and Virt::map a place for the object.         *)
Map(t, v, p) ==
    /\ work[t] = Free /\ v \in Usable /\ p \in hdls
    /\ IF Fits(v, PhysLen) = {} THEN Panic
       ELSE /\ \E b \in Fits(v, PhysLen) : Mapping(t, v, b, p)
            /\ hdls' = hdls \ {p}
            /\ UNCHANGED <<children, within, parent, named, pt, panicked>>

(* A Virt is dropped with its last reference: what was mapped in it is     *)
(* left to the thread that held it.                                        *)
LetGo(t, C, w, virts) ==
    LET w1   == [w EXCEPT ![t].hold = {}]
        dead == {v \in virts : v # 0 /\ v \in DOMAIN C /\ v \notin InTree(C) \cup InHand(w1)}
        C1   == [v \in DOMAIN C \ dead |-> C[v]]
        todo == w1[t].todo \cup UNION {C[v] : v \in dead}
    IN  /\ children' = C1
        /\ within' = [v \in DOMAIN C1 |-> within[v]]
        /\ parent' = [v \in DOMAIN C1 |-> parent[v]]
        /\ named' = named \ dead
        /\ work' = [w1 EXCEPT ![t] = IF todo = {} THEN Free
                                     ELSE [at |-> "clear", hold |-> {}, todo |-> todo]]

(* One page of Virt::map; what is already mapped there makes it give up.   *)
MapPage(t) ==
    LET w == work[t]
    IN  /\ w.at = "map" /\ w.next < w.base + PhysLen
        /\ IF pt[w.next] = Nothing
           THEN /\ pt' = [pt EXCEPT ![w.next] = <<w.phys, w.next - w.base>>]
                /\ work' = [work EXCEPT ![t].next = @ + 1]
           ELSE /\ work' = [work EXCEPT ![t].at = "undo"]
                /\ UNCHANGED pt
        /\ UNCHANGED <<children, within, parent, named, locked, hdls, panicked>>

(* A bug: the page that could not be mapped is cleared as well.              *)
UndoMap_Next(t) ==
    LET w == work[t]
    IN  /\ w.at = "undo"
        /\ pt' = [a \in DOMAIN pt |-> IF a \in w.base .. w.next THEN Nothing ELSE pt[a]]
        /\ locked' = locked \ {w.virt}
        /\ LetGo(t, children, work, w.hold)
        /\ UNCHANGED <<hdls, panicked>>

UndoMap(t) ==
    LET w == work[t]
    IN  /\ w.at = "undo"
        /\ pt' = [a \in DOMAIN pt |-> IF a \in w.base .. w.next - 1 THEN Nothing ELSE pt[a]]
        /\ locked' = locked \ {w.virt}
        /\ LetGo(t, children, work, w.hold)
        /\ UNCHANGED <<hdls, panicked>>

MapDone(t) ==
    LET w == work[t]
        c == [base |-> w.base, len |-> PhysLen, is |-> "phys", id |-> w.phys]
    IN  /\ w.at = "map" /\ w.next = w.base + PhysLen
        /\ locked' = locked \ {w.virt}
        /\ LetGo(t, [children EXCEPT ![w.virt] = @ \cup {c}], work, w.hold)
        /\ UNCHANGED <<pt, hdls, panicked>>

(* unmap: the children are checked from the lowest on, up to the first one *)
(* that ends before the range; all that start in the range are taken out.  *)
Checked(v, s, e) == {c \in children[v] : c.base < e /\
                        \A d \in children[v] : d.base <= c.base => s <= End(d)}

MayUnmap(v, s, e, drop_child) ==
    \A c \in Checked(v, s, e) : s <= c.base /\ End(c) <= e /\ (c.is = "virt" => drop_child)

TakeOut(t, v, s, e, hold) ==
    LET mid == {c \in children[v] : s <= c.base /\ c.base < e}
    IN  /\ children' = [children EXCEPT ![v] = @ \ mid]
        /\ work' = [work EXCEPT ![t] = [at |-> "clear", hold |-> hold, todo |-> mid]]
        /\ UNCHANGED <<within, parent, named, locked, pt, hdls, panicked>>

Unmap(t, v, s, e, drop_child) ==
    /\ work[t] = Free /\ v \in Usable
    /\ within[v][1] <= s /\ s < e /\ e <= within[v][2]
    /\ MayUnmap(v, s, e, drop_child)
    /\ TakeOut(t, v, s, e, {v})

(* virt_drop: the parent unmaps the range of this Virt.                    *)
DestroyVirt(t, v) ==
    /\ work[t] = Free /\ v \in DOMAIN children \ {0}
    /\ parent[v] \in Usable
    /\ MayUnmap(parent[v], within[v][1], within[v][2], TRUE)
    /\ TakeOut(t, parent[v], within[v][1], within[v][2], {v, parent[v]})

(* One child that was taken out, or was left by a dropped Virt: a mapping  *)
(* is cleared and its object released, a Virt is dropped in turn.          *)
Clear(t) ==
    LET w == work[t]
    IN  /\ w.at = "clear" /\ w.todo # {}
        /\ \E c \in w.todo :
               /\ \A d \in w.todo : c.base <= d.base
               /\ pt' = [a \in DOMAIN pt |-> IF c.is = "phys" /\ a \in Span(c) THEN Nothing ELSE pt[a]]
               /\ LetGo(t, children, [work EXCEPT ![t].todo = @ \ {c}],
                        VirtOf(c) \cup (IF w.todo = {c} THEN w.hold ELSE {}))
        /\ UNCHANGED <<locked, hdls, panicked>>

ClearNone(t) ==
    /\ work[t].at = "clear" /\ work[t].todo = {}
    /\ LetGo(t, children, work, work[t].hold)
    /\ UNCHANGED <<locked, pt, hdls, panicked>>
-----------------------------------------------------------------------------
(* Everything that answers for a mapping: a child of a live Virt, one that *)
(* some thread has yet to clear, the pages an unfinished `map' has done.   *)
Owners ==
    {c \in UNION {children[v] : v \in DOMAIN children} : c.is = "phys"}
    \cup {c \in UNION {work[t].todo : t \in Worker} : c.is = "phys"}
    \cup {[base |-> work[t].base, len |-> work[t].next - work[t].base, is |-> "phys",
           id |-> work[t].phys] : t \in {u \in Worker : work[u].at \in {"map", "undo"}}}

(* phys_alloc.                                                             *)
PhysAlloc(p) ==
    /\ p \notin hdls /\ \A c \in Owners : c.id # p
    /\ \A t \in Worker : work[t].at = "stack" => work[t].phys # p
    /\ hdls' = hdls \cup {p}
    /\ UNCHANGED <<children, within, parent, named, locked, pt, work, panicked>>

VirtInit ==
    /\ children = (0 :> {}) /\ within = (0 :> <<0, RootLen>>) /\ parent = (0 :> 0) /\ named = {0}
    /\ locked = {} /\ pt = [a \in 0 .. RootLen - 1 |-> Nothing]
    /\ hdls = {} /\ work = [t \in Worker |-> Free] /\ panicked = FALSE

VirtNext ==
    /\ ~panicked
    /\ \/ \E p \in PhysId : PhysAlloc(p)
       \/ \E t \in Worker :
              \/ \E v \in named :
                     \/ \E n \in 1 .. RootLen - 1 : Allocate(t, v, n)
                     \/ \E p \in PhysId : Map(t, v, p) \/ InitStack(t, v, p)
                     \/ \E s, e \in 0 .. RootLen, d \in BOOLEAN : Unmap(t, v, s, e, d)
                     \/ DestroyVirt(t, v)
              \/ StackMap(t) \/ MapPage(t) \/ UndoMap(t) \/ MapDone(t) \/ Clear(t) \/ ClearNone(t)

VirtSpec == VirtInit /\ [][VirtNext]_virtvars

(* The page table holds exactly the mappings somebody answers for, at one  *)
(* place each: nothing stays mapped after its object was released, nothing *)
(* that is mapped is cleared by someone else's unmap or Drop, and no two   *)
(* mappings share a page, whatever the threads interleave between the tree *)
(* and the page table.                                                     *)
MappingsExact ==
    /\ \A a \in DOMAIN pt :
           LET os == {c \in Owners : a \in Span(c)}
           IN  IF pt[a] = Nothing THEN os = {}
               ELSE \E c \in os : os = {c} /\ pt[a] = <<c.id, a - c.base>>
    /\ \A v \in DOMAIN children : \A c, d \in children[v] :
           /\ within[v][1] <= c.base /\ End(c) <= within[v][2]
           /\ c # d => Span(c) \cap Span(d) = {}
=============================================================================
