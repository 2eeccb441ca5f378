------------------------------ MODULE MCMemory ------------------------------
(***************************************************************************)
(* Memory, one part at a time: the physical memory manager, the heap over  *)
(* it, the page tables, physical objects, address spaces, and what is put  *)
(* into them: program images, dynamic libraries, the shared structures of  *)
(* the kernel (counted references, the hash map), C strings.  The parts    *)
(* meet in the interfaces the modules name (PageSource, the page table as  *)
(* a map from pages), so a behaviour exercises one part and leaves the     *)
(* others in their initial states.                                         *)
(***************************************************************************)
EXTENDS Buddy, Heap, Paging, Phys, Virt, Elf, Ldso, Arsc, CHashMap, CStr

CONSTANTS liba, libb, libc, libd

VARIABLE part

BootRanges == <<[base |-> 0, n |-> 1], [base |-> 1, n |-> 5], [base |-> 6, n |-> 2]>>

Requests == {[size |-> 1000, align |-> 1024], [size |-> 1100, align |-> 128],
             [size |-> 5000, align |-> 4096]}

MapRanges == {[start |-> 0, len |-> 4, phys |-> 4], [start |-> 1, len |-> 3, phys |-> 9],
              [start |-> 6, len |-> 2, phys |-> 2]}

PhysShapes == {[pages |-> 2, objs |-> 3], [pages |-> 1, objs |-> 5]}

Segments == {s \in [offset : {1, 2}, vaddr : {0, 3, 5}, filesz : {0, 2, 3}, memsz : {2, 4}] : s.filesz <= s.memsz}

\* What the program and the libraries liba, libb and libc need: a shared library, a
\* diamond, a chain, a cycle.
Needs(p, x, y, z) == (Prog :> p) @@ (liba :> x) @@ (libb :> y) @@ (libc :> z)
Graphs == {Needs(<<liba, libb>>, <<libb>>, <<>>, <<libb, liba>>), Needs(<<liba>>, <<libb, libc>>, <<libc>>, <<>>),
           Needs(<<libb>>, <<libb>>, <<>>, <<liba>>), Needs(<<liba>>, <<libb>>, <<liba>>, <<>>)}
Shadows == (Prog :> {libb}) @@ (liba :> {}) @@ (libb :> {}) @@ (libc :> {liba})
TlsSizes == (Prog :> 2) @@ (liba :> 1) @@ (libb :> 0) @@ (libc :> 3)

\* liba and libc collide.  The table that four inserts leave behind is the smallest in
\* which a removal does not make the map shrink, so that removed slots remain.
Hashes == (liba :> 0) @@ (libb :> 1) @@ (libc :> 0) @@ (libd :> 3)
FourIn == (0 :> Data(liba, 1)) @@ (1 :> Data(libc, 1)) @@ (2 :> Data(libb, 1)) @@ (3 :> Data(libd, 1))
          @@ (4 :> EmptySlot) @@ (5 :> EmptySlot)

MCInit ==
    /\ part \in {"buddy", "heap", "paging", "phys", "virt", "elf", "ldso", "arsc", "map", "cstr"}
    /\ BuddyInit /\ HeapInit /\ PagingInit /\ VirtInit /\ ArInit
    /\ ChInit(WithCapacity(MIN_CAPACITY)) \/ (part = "map" /\ ChInit(FourIn))
    /\ PhysInit /\ (part # "phys" => shape = [pages |-> 1, objs |-> 5])
    /\ ElfInit /\ (part # "elf" => who = "relr" /\ relr = <<0, 1, 1, 32, 1>>)
    /\ LdInit /\ (part # "ldso" => needs = Needs(<<libb>>, <<libb>>, <<>>, <<liba>>))
    /\ CsInit /\ before[MemLen - 1] = 0 /\ (part # "cstr" => before = [x \in Addr |-> 0])

memvars == <<bvars, hvars, pvars, physvars, virtvars>>
usevars == <<elfvars, ldvars, arvars, chvars, csvars>>

MCNext ==
    /\ UNCHANGED part
    /\ \/ /\ part = "buddy" /\ BuddyNext /\ UNCHANGED <<hvars, pvars, physvars, virtvars, usevars>>
       \/ /\ part = "heap" /\ HeapNext /\ UNCHANGED <<bvars, pvars, physvars, virtvars, usevars>>
       \/ /\ part = "paging" /\ PagingNext /\ UNCHANGED <<bvars, hvars, physvars, virtvars, usevars>>
       \/ /\ part = "phys" /\ PhysNext /\ UNCHANGED <<bvars, hvars, pvars, virtvars, usevars>>
       \/ /\ part = "virt" /\ VirtNext /\ UNCHANGED <<bvars, hvars, pvars, physvars, usevars>>
       \/ /\ part = "elf" /\ ElfNext /\ UNCHANGED <<memvars, ldvars, arvars, chvars, csvars>>
       \/ /\ part = "ldso" /\ LdNext /\ UNCHANGED <<memvars, elfvars, arvars, chvars, csvars>>
       \/ /\ part = "arsc" /\ ArNext /\ UNCHANGED <<memvars, elfvars, ldvars, chvars, csvars>>
       \/ /\ part = "map" /\ ChNext /\ UNCHANGED <<memvars, elfvars, ldvars, arvars, csvars>>
       \/ /\ part = "cstr" /\ CsNext /\ UNCHANGED <<memvars, elfvars, ldvars, arvars, chvars>>

MCSpec == MCInit /\ [][MCNext]_<<part, memvars, usevars>>

-----------------------------------------------------------------------------
\* The free lists of the buddy allocator and the slabs of the heap agree with
\* what was handed out: see FreeListsExact (Buddy) and AllocationsApart (Heap).
AllocatorsExact == (part = "buddy" => FreeListsExact) /\ (part = "heap" => AllocationsApart)

\* A virtual address leads where it was mapped to, in the page tables and in the
\* tree of address ranges: see TranslationExact (Paging) and MappingsExact (Virt).
AddressesExact == (part = "paging" => TranslationExact) /\ (part = "virt" => MappingsExact)

\* A physical object owns its frames, and what one sees of another is what the
\* copy was made of: see FramesOwned and CopiesIsolated (Phys).
ObjectsApart == part = "phys" => FramesOwned /\ CopiesIsolated

\* Programs and libraries are put into memory whole and in order: see ElfExact
\* (Elf) and LinkedInOrder (Ldso).
ImagesExact == (part = "elf" => ElfExact) /\ (part = "ldso" => LinkedInOrder)

\* Counted references free once and never early, and the hash map is the map its
\* operations made: see ArscSafe (Arsc) and MapExact (CHashMap).
SharedExact == (part = "arsc" => ArscSafe) /\ (part = "map" => MapExact)

\* libc's string functions do what C says: see CStrExact (CStr).
StringsExact == part = "cstr" => CStrExact
=============================================================================
