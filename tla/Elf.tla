-------------------------------- MODULE Elf ---------------------------------
(***************************************************************************)
(* ELF images: mapping the segments of a file into an address space by the *)
(* user-space loader (lib/elfload) and by the kernel for its first program *)
(* (sched/task/elf.rs), and the symbol hash table and the packed relative  *)
(* relocations of the dynamic linker (libc/ldso elf.rs).                   *)
(*                                                                         *)
(* A file's byte at position i is Raw(i), never 0, so that file content    *)
(* and zeroed memory differ; past its end the last page is zero, as the    *)
(* physical object's page is.  Memory is a function from mapped addresses. *)
(***************************************************************************)
EXTENDS Integers, Sequences, FiniteSets, SequencesExt, FiniteSetsExt

CONSTANTS
    PAGE,       \* bytes of a page
    FileLen,    \* length of the file
    VirtLen,    \* bound: length of the address space, in bytes
    Segs,       \* the segments to try: [offset, vaddr, filesz, memsz]
    SymByte,    \* the bytes symbol names are made of
    MaxSyms,    \* bound: symbols of a hash table
    HashBits,   \* bits of a symbol's hash (32)
    Bits        \* bits of a word: of the filter, of packed relocations (64)

VARIABLES
    image,      \* [segs, dyn]: the segments of the file, is it ET_DYN?
    space,      \* the address space: mapped address to byte
    todo,       \* segments still to map
    ended,      \* "no", "ok" or "err"
    who,        \* "user", "kernel", "symbols" or "relr"
    syms,       \* the names in a symbol table
    relr        \* a table of packed relocations

elfvars == <<image, space, todo, ended, who, syms, relr>>

Raw(i) == IF i < FileLen THEN i + 1 ELSE 0
Down(n) == (n \div PAGE) * PAGE
Up(n) == Down(n + PAGE - 1)

(* get_addr_range_info.                                                    *)
LoadMin == Min({s.vaddr : s \in ToSet(image.segs)})
LoadMax == Max({s.vaddr + s.memsz : s \in ToSet(image.segs)})

(* The region `load' allocates: page_aligned(max - min) from 0 for a       *)
(* dynamic file, which is mapped at its own addresses relative to it, and  *)
(* from `min' for an executable, where `min' must be page aligned.         *)
RegionLen == Up(LoadMax - LoadMin)
RegionBase == IF image.dyn THEN 0 ELSE LoadMin

(* Virt::map at a fixed place: aligned, inside the region and free.        *)
MayMap(at, n, base, len) ==
    /\ at % PAGE = 0 /\ at >= base /\ at + n <= base + len
    /\ \A a \in at .. at + n - 1 : a \notin DOMAIN space
With(mem, at, n, Byte(_)) == [a \in DOMAIN mem \cup (at .. at + n - 1) |-> IF a \in DOMAIN mem THEN mem[a] ELSE Byte(a)]

Failed == ended' = "err" /\ space' = [a \in {} |-> 0] /\ UNCHANGED todo
SegMapped(m) == space' = m /\ todo' = Tail(todo) /\ UNCHANGED ended

(* A bug: as if the memory ended with the file.                            *)
MemEnd_File(s) == Up(s.offset + s.filesz)
MemEnd(s) == Up(s.offset + s.memsz)

(* map_segment: the whole pages of the file are mapped from a copy, the    *)
(* rest is fresh memory that starts with the file's last bytes.  On an     *)
(* error the guard of `load' destroys the region.                          *)
MapSegment ==
    /\ who = "user" /\ ended = "no" /\ todo # <<>>
    /\ LET s == Head(todo)
           fend == Down(s.offset + s.filesz)
           cend == s.offset + s.filesz
           off == Down(s.offset)
           addr == Down(s.vaddr)
           fsize == fend - off
           asize == IF MemEnd(s) > fend THEN MemEnd(s) - fend ELSE 0
           filed == With(space, addr, fsize, LAMBDA a : Raw(off + a - addr))
       IN  IF \/ s.offset % PAGE # s.vaddr % PAGE
              \/ RegionBase % PAGE # 0
              \/ fsize > 0 /\ ~MayMap(addr, fsize, RegionBase, RegionLen)
              \/ asize > 0 /\ ~MayMap(addr + fsize, asize, RegionBase, RegionLen)
           THEN Failed
           ELSE SegMapped(With(filed, addr + fsize, asize,
                            LAMBDA a : IF a - addr - fsize < cend - fend THEN Raw(fend + a - addr - fsize) ELSE 0))
    /\ UNCHANGED <<image, who, syms, relr>>

(* load_elf and load_prog: sizes are rounded up to pages first, so the     *)
(* file's pages are mapped as they are, and the rest is zeroed memory.     *)
(* What an error leaves mapped goes with the address space.                *)
LoadProg ==
    /\ who = "kernel" /\ ended = "no" /\ todo # <<>>
    /\ LET s == Head(todo)
           fsize == Up(s.filesz)
           msize == Up(s.memsz)
           extra == IF msize > fsize THEN msize - fsize ELSE 0
           filed == With(space, s.vaddr, fsize, LAMBDA a : Raw(s.offset + a - s.vaddr))
       IN  IF \/ fsize > 0 /\ (s.offset % PAGE # 0 \/ ~MayMap(s.vaddr, fsize, 0, VirtLen))
              \/ extra > 0 /\ ~MayMap(s.vaddr + fsize, extra, 0, VirtLen)
           THEN Failed
           ELSE SegMapped(With(filed, s.vaddr + fsize, extra, LAMBDA a : 0))
    /\ UNCHANGED <<image, who, syms, relr>>

LoadDone ==
    /\ ended = "no" /\ todo = <<>> /\ ended' = "ok"
    /\ UNCHANGED <<image, space, todo, who, syms, relr>>

-----------------------------------------------------------------------------
(* GnuHash::hash.                                                          *)
HashOfName(n) == FoldLeft(LAMBDA h, b : (33 * h + b) % (2^HashBits), 5381 % (2^HashBits), n)

(* The table a linker writes for a set of names: symbol 0 is none, the     *)
(* others are ordered by bucket; a chain entry is a hash whose lowest bit  *)
(* tells the end of the bucket.                                            *)
NrBuckets == 2
NrFilters == 2
Shift == 2
FilterBits(h) == {h % Bits, (h \div (2^Shift)) % Bits}
BucketOf(n) == HashOfName(n) % NrBuckets
Sorted == SetToSortSeq(syms, LAMBDA m, n : BucketOf(m) < BucketOf(n) \/ (BucketOf(m) = BucketOf(n) /\ HashOfName(m) < HashOfName(n)))
IsLastIn(s, i) == i = Len(s) \/ BucketOf(s[i]) # BucketOf(s[i + 1])
Table ==
    LET s == Sorted
    IN  [buckets |-> [b \in 0 .. NrBuckets - 1 |->
            LET in == {i \in DOMAIN s : BucketOf(s[i]) = b} IN IF in = {} THEN 0 ELSE Min(in)],
         chains |-> [i \in DOMAIN s |-> (HashOfName(s[i]) \div 2) * 2 + (IF IsLastIn(s, i) THEN 1 ELSE 0)],
         filters |-> UNION {{(HashOfName(n) \div Bits) % NrFilters} \X FilterBits(HashOfName(n)) : n \in syms},
         names |-> s]

(* GnuHash::parse: the number of symbols, from the chain of the last one.  *)
RECURSIVE ChainEnd(_, _)
ChainEnd(t, i) == IF t.chains[i] % 2 = 1 THEN i ELSE ChainEnd(t, i + 1)
SymLen(t) == ChainEnd(t, Max({t.buckets[b] : b \in DOMAIN t.buckets}))

MayContain(t, h) == \A b \in FilterBits(h) : <<(h \div Bits) % NrFilters, b>> \in t.filters

(* GnuHash::lookup: the index of the symbol, or 0.                         *)
RECURSIVE WalkChain(_, _, _)
WalkChain(t, n, i) ==
    IF i > Len(t.chains) THEN 0
    ELSE IF t.chains[i] \div 2 = HashOfName(n) \div 2 /\ t.names[i] = n THEN i
    ELSE IF t.chains[i] % 2 = 1 THEN 0 ELSE WalkChain(t, n, i + 1)
Lookup(t, n) == IF t.buckets[BucketOf(n)] < 1 THEN 0 ELSE WalkChain(t, n, t.buckets[BucketOf(n)])
GetHashed(t, n) == IF MayContain(t, HashOfName(n)) THEN Lookup(t, n) ELSE 0

-----------------------------------------------------------------------------
(* apply_relr: an address is relocated, and each word of bits after it     *)
(* stands for the Bits - 1 words that follow.  `run' and `bits' as in the  *)
(* inner loop; the result is how often each word was relocated.            *)
RECURSIVE ApplyBits(_, _, _), ApplyRelr(_, _, _)
TrailingZeros(n) == Min({k \in 0 .. Bits : (n \div (2^k)) % 2 = 1})
Relocate(mem, w) == [x \in DOMAIN mem \cup {w} |-> IF x \notin DOMAIN mem THEN 1 ELSE IF x = w THEN mem[x] + 1 ELSE mem[x]]
ApplyBits(mem, run, bits) ==
    IF bits = 0 THEN mem
    ELSE LET skip == TrailingZeros(bits)
         IN  ApplyBits(Relocate(mem, run + skip), run + skip + 1, bits \div (2^(skip + 1)))
ApplyRelr(mem, addr, tab) ==
    IF tab = <<>> THEN mem
    ELSE IF Head(tab) % 2 = 0 THEN ApplyRelr(Relocate(mem, Head(tab)), Head(tab) + 1, Tail(tab))
    ELSE ApplyRelr(ApplyBits(mem, addr, Head(tab) \div 2), addr + Bits - 1, Tail(tab))

-----------------------------------------------------------------------------
SymNames == SeqOf(SymByte, 2)
SymSets == kSubset(MaxSyms, SymNames) \cup kSubset(1, SymNames)
RelrTables == {<<0, x, y, 32, z>> : x, y, z \in {2 * k + 1 : k \in 0 .. (2^(Bits - 1)) - 1}}
SomeImage == [segs |-> <<CHOOSE s \in Segs : TRUE>>, dyn |-> TRUE]

ElfInit ==
    /\ \/ /\ who \in {"user", "kernel"} /\ syms = {} /\ relr = <<>>
          /\ \E s \in SeqOf(Segs, 2) \ {<<>>}, d \in BOOLEAN : image = [segs |-> s, dyn |-> d]
       \/ who = "symbols" /\ syms \in SymSets /\ relr = <<>> /\ image = SomeImage
       \/ who = "relr" /\ relr \in RelrTables /\ syms = {} /\ image = SomeImage
    /\ space = [a \in {} |-> 0] /\ todo = image.segs /\ ended = "no"

ElfNext == MapSegment \/ LoadProg \/ LoadDone
ElfSpec == ElfInit /\ [][ElfNext]_elfvars

-----------------------------------------------------------------------------
InSeg(s, a) == s.vaddr <= a /\ a < s.vaddr + s.memsz
Expected(s, a) == IF a - s.vaddr < s.filesz THEN Raw(s.offset + a - s.vaddr) ELSE 0

(* A loaded program finds its segments in memory: the file's bytes, then   *)
(* zeros up to memsz, whatever the alignment of their ends; a file that    *)
(* cannot be mapped leaves nothing behind.  The kernel's loader promises   *)
(* the zeros only from the first page after the file's bytes.  The symbol  *)
(* table finds each of its names and no other, also with equal hashes, and *)
(* counts its symbols; packed relocations are applied once each.           *)
ElfExact ==
    /\ who = "user" /\ ended = "ok" => \A s \in ToSet(image.segs) : \A a \in s.vaddr .. s.vaddr + s.memsz - 1 :
          a \in DOMAIN space /\ space[a] = Expected(s, a)
    /\ who = "kernel" /\ ended = "ok" => \A s \in ToSet(image.segs) : \A a \in s.vaddr .. s.vaddr + s.memsz - 1 :
          a \in DOMAIN space /\ (a < s.vaddr + s.filesz \/ a >= s.vaddr + Up(s.filesz) => space[a] = Expected(s, a))
    /\ ended = "err" => DOMAIN space = {}
    /\ who = "symbols" =>
          LET t == Table
          IN  /\ SymLen(t) = Cardinality(syms)
              /\ \A n \in SymNames : IF n \in syms THEN t.names[GetHashed(t, n)] = n ELSE GetHashed(t, n) = 0
    /\ who = "relr" =>
          LET bit(e, j) == (e \div (2^j)) % 2 = 1
              words == {0, 32} \cup {j : j \in {k \in 1 .. Bits - 1 : bit(relr[2], k)}}
                               \cup {Bits - 1 + j : j \in {k \in 1 .. Bits - 1 : bit(relr[3], k)}}
                               \cup {32 + j : j \in {k \in 1 .. Bits - 1 : bit(relr[5], k)}}
          IN  ApplyRelr([w \in {} |-> 0], 0, relr) = [w \in words |-> 1]
=============================================================================
