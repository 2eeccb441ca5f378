------------------------------- MODULE Paging -------------------------------
(***************************************************************************)
(* The page-table library, h2o/libs/paging, as the arch space calls it     *)
(* under its root_table lock, one call at a time.  The root is at level    *)
(* Top, where no entry is a page; level 0 holds the smallest pages, and    *)
(* `maps' uses a page of the highest level that the address, the length    *)
(* left and the frame are all aligned to.  Addresses and frames are        *)
(* counted in the smallest pages.                                          *)
(*                                                                         *)
(* Callers map ranges nothing is mapped in, and reprotect or unmap either  *)
(* a whole range as it was mapped, or a page at a time; `unmaps' relies on *)
(* it, since it passes over whatever is not a page of the level it picks.  *)
(***************************************************************************)
EXTENDS Integers, FiniteSets, FiniteSetsExt

CONSTANTS NR_ENTRIES, \* entries of a table
          Top,        \* the level of the root table
          Regions,    \* the ranges mapped: [start, len, phys]
          Single,     \* the pages reprotected or unmapped on their own
          Attrs       \* page attributes

VARIABLES tables,  \* table -> index -> entry; DOMAIN tables is what is allocated
          regions, \* ranges mapped and since then only touched as a whole
          wanted   \* what each page should translate to

pvars == <<tables, regions, wanted>>

PageSize(lvl) == NR_ENTRIES^lvl
Pages         == 0 .. NR_ENTRIES^(Top + 1) - 1
Idx(v, lvl)   == (v \div PageSize(lvl)) % NR_ENTRIES

Empty      == [is |-> "none"]
Leaf(p, a) == [is |-> "leaf", phys |-> p, attr |-> a]
Link(t)    == [is |-> "table", to |-> t]
NoEntries  == [i \in 0 .. NR_ENTRIES - 1 |-> Empty]

Fit(x)          == Max({l \in 0 .. Top - 1 : x % PageSize(l) = 0})
FitAll(s, e, p) == Min({Fit(s), Fit(e - s), Fit(p)})

NewTable(T) == Min((1 .. Cardinality(DOMAIN T) + 1) \ DOMAIN T)

(* create_table allocates a zeroed table; split_table fills it with the    *)
(* pages the large page was made of.                                       *)
AddTable(T, t, i, entries) == LET n == NewTable(T)
                              IN  [u \in DOMAIN T \cup {n} |->
                                      IF u = n THEN entries
                                      ELSE IF u = t THEN [T[u] EXCEPT ![i] = Link(n)] ELSE T[u]]

SplitEntries(e, lvl) == [i \in 0 .. NR_ENTRIES - 1 |-> Leaf(e.phys + i * PageSize(lvl - 1), e.attr)]

(* get_page.                                                               *)
RECURSIVE GetPage(_, _, _, _)
GetPage(T, t, lvl, v) ==
    LET e == T[t][Idx(v, lvl)]
    IN  CASE e.is = "leaf"  -> [phys |-> e.phys + (v % PageSize(lvl)), attr |-> e.attr]
          [] e.is = "table" -> GetPage(T, e.to, lvl - 1, v)
          [] OTHER          -> [phys |-> -1, attr |-> "none"]

Query(T, v) == GetPage(T, 0, Top, v)

(* new_page: down to `level', creating the tables on the way.              *)
RECURSIVE NewPage(_, _, _, _, _, _)
NewPage(T, t, lvl, v, leaf, level) ==
    LET i == Idx(v, lvl)
    IN  CASE lvl = level           -> [T EXCEPT ![t][i] = leaf]
          [] T[t][i].is = "table"  -> NewPage(T, T[t][i].to, lvl - 1, v, leaf, level)
          [] OTHER -> NewPage(AddTable(T, t, i, NoEntries), NewTable(T), lvl - 1, v, leaf, level)

(* A bug: the table goes while it still has entries.                         *)
Destroy_Used(T, t, i) ==
    LET n == T[t][i].to
    IN  [u \in DOMAIN T \ {n} |-> IF u = t THEN [T[u] EXCEPT ![i] = Empty] ELSE T[u]]

(* destroy_tables, for one level: a table left without entries goes back   *)
(* to the allocator, and its entry is reset.                               *)
Destroy(T, t, i) ==
    LET n == T[t][i].to
    IN  IF T[n] # NoEntries THEN T
        ELSE [u \in DOMAIN T \ {n} |-> IF u = t THEN [T[u] EXCEPT ![i] = Empty] ELSE T[u]]

(* modify_page and drop_page: down to `level', splitting the large pages   *)
(* on the way; what is not there is passed over.  The attribute "none"     *)
(* stands for the drop, which may empty the tables on the way.             *)
RECURSIVE EditPage(_, _, _, _, _, _)
EditPage(T, t, lvl, v, level, a) ==
    LET i    == Idx(v, lvl)
        e    == T[t][i]
        S    == IF e.is = "leaf" THEN AddTable(T, t, i, SplitEntries(e, lvl)) ELSE T
        down == EditPage(S, S[t][i].to, lvl - 1, v, level, a)
    IN  CASE lvl = level /\ e.is = "leaf" ->
                 [T EXCEPT ![t][i] = IF a = "none" THEN Empty ELSE Leaf(e.phys, a)]
          [] lvl = level \/ e.is = "none" -> T
          [] OTHER -> IF a = "none" THEN Destroy(down, t, i) ELSE down

RECURSIVE MapPages(_, _, _, _, _)
MapPages(T, s, e, p, a) ==
    IF s = e THEN T
    ELSE LET l == FitAll(s, e, p)
         IN  MapPages(NewPage(T, 0, Top, s, Leaf(p, a), l), s + PageSize(l), e, p + PageSize(l), a)

RECURSIVE EditPages(_, _, _, _)
EditPages(T, s, e, a) ==
    IF s = e THEN T
    ELSE LET q == Query(T, s)
             l == FitAll(s, e, IF q.phys = -1 THEN 0 ELSE q.phys)
         IN  EditPages(EditPage(T, 0, Top, s, l, a), s + PageSize(l), e, a)

Within(r) == r.start .. r.start + r.len - 1
Mapped   == {v \in Pages : wanted[v].phys # -1}
NotMapped == [phys |-> -1, attr |-> "none"]

Maps(r, a) ==
    /\ Within(r) \cap Mapped = {}
    /\ tables' = MapPages(tables, r.start, r.start + r.len, r.phys, a)
    /\ regions' = regions \cup {r}
    /\ wanted' = [v \in Pages |-> IF v \in Within(r)
                                  THEN [phys |-> r.phys + v - r.start, attr |-> a] ELSE wanted[v]]

(* A part of a range: from then on that range is handled page by page.     *)
Touched(s, e) == {r \in regions : Within(r) \cap (s .. e - 1) = {} \/ (r.start = s /\ r.len = e - s)}

Reprotect(s, e, a) ==
    /\ tables' = EditPages(tables, s, e, a)
    /\ regions' = Touched(s, e)
    /\ wanted' = [v \in Pages |-> IF v \in s .. e - 1 /\ wanted[v].phys # -1
                                  THEN [wanted[v] EXCEPT !.attr = a] ELSE wanted[v]]

Unmaps(s, e) ==
    /\ tables' = EditPages(tables, s, e, "none")
    /\ regions' = {r \in Touched(s, e) : r.start # s}
    /\ wanted' = [v \in Pages |-> IF v \in s .. e - 1 THEN NotMapped ELSE wanted[v]]

PagingInit == /\ tables = [t \in {0} |-> NoEntries]
              /\ regions = {} /\ wanted = [v \in Pages |-> NotMapped]

PagingNext ==
    \/ \E r \in Regions, a \in Attrs : Maps(r, a)
    \/ \E r \in regions : \/ Unmaps(r.start, r.start + r.len)
                          \/ \E a \in Attrs : Reprotect(r.start, r.start + r.len, a)
    \/ \E v \in Single  : Unmaps(v, v + 1) \/ \E a \in Attrs : Reprotect(v, v + 1, a)

PagingSpec == PagingInit /\ [][PagingNext]_pvars
-----------------------------------------------------------------------------
(* Every address translates to the frame and the attributes it was last    *)
(* given, across the large pages that maps chooses and modify_page and     *)
(* drop_page split, and nothing else is mapped; the tables allocated are   *)
(* exactly the ones some entry leads to, and none of them is empty, so     *)
(* destroy_tables neither frees a table in use nor leaks one.              *)
TranslationExact ==
    /\ \A v \in Pages : Query(tables, v) = wanted[v]
    /\ \A t \in DOMAIN tables \ {0} :
           /\ tables[t] # NoEntries
           /\ \E u \in DOMAIN tables, i \in 0 .. NR_ENTRIES - 1 : tables[u][i] = Link(t)
    /\ \A u \in DOMAIN tables, i \in 0 .. NR_ENTRIES - 1 :
           tables[u][i].is = "table" => tables[u][i].to \in DOMAIN tables
=============================================================================
