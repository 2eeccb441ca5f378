----------------------------- MODULE CHashMap -------------------------------
(***************************************************************************)
(* The concurrent hash map of the kernel (libs/collection_ex, chash_map.rs *)
(* and chash_map/inner.rs; h2o_std sync/chash_map has a second copy of     *)
(* it): open addressing with linear probing, a spinning reader-writer lock *)
(* per slot and one around the bucket array, which operations hold for     *)
(* reading and resizes for writing.  The copies differ in one place: the   *)
(* user one does not grow a table found full, but probes it again.         *)
(*                                                                         *)
(* `entry' keeps the first removed slot it meets locked while it probes    *)
(* on.  A slot it only looks at is locked and unlocked within one step.    *)
(***************************************************************************)
EXTENDS Integers, FiniteSets, FiniteSetsExt

CONSTANTS
    User,           \* threads
    Key,            \* keys
    HashOf,         \* the hash of each key
    MIN_CAPACITY,   \* 8 in the code; the other factors are the code's
    MaxOps          \* bound: operations started

GROW_FACTOR == 2
LOAD_FACTOR_N == 70
LOAD_FACTOR_D == 100

VARIABLES
    slots,      \* slot number (from 0) to Empty, Removed, or the data
    len,        \* CHashMap::len
    slock,      \* slot locks held across steps: slot to thread
    at,         \* what each thread is doing
    model,      \* the map the operations should make: a set of data
    raced,      \* has a removal overlapped another update?
    ops

chvars == <<slots, len, slock, at, model, raced, ops>>

EmptySlot == [is |-> "empty"]
Removed == [is |-> "removed"]
Data(k, v) == [is |-> "data", key |-> k, val |-> v]
Resting == [op |-> "rest"]

Cap == Cardinality(DOMAIN slots)
WithCapacity(n) == [i \in 0 .. n - 1 |-> EmptySlot]
Reading(u) == at[u].op \in {"insert", "remove", "get"}
Updating(u) == at[u].op \in {"insert", "remove", "grow", "shrink", "retry"}
Removing(u) == at[u].op \in {"remove", "shrink"}

InSlots(t) == {t[i] : i \in {j \in DOMAIN t : t[j].is = "data"}}

(* A map with what some inserts have left in it, an empty one for none.     *)
ChInit(stored) ==
    /\ slots = stored /\ model = InSlots(stored) /\ len = Cardinality(InSlots(stored))
    /\ slock = [i \in {} |-> 0] /\ at = [u \in User |-> Resting] /\ raced = FALSE /\ ops = 0

Go(u, a) == at' = [at EXCEPT ![u] = a]
Probe(u, op, k) == [op |-> op, key |-> k, i |-> 0, free |-> -1, to |-> -1,
                    missed |-> \A d \in model : d.key # k]

(* insert, get_or_insert, remove, get: take the bucket array for reading.  *)
StartOp(u, op, k) ==
    /\ at[u] = Resting /\ ops < MaxOps /\ ops' = ops + 1
    /\ Go(u, Probe(u, op, k))
    /\ raced' = (raced \/ \E w \in User \ {u} : (op = "remove" /\ Updating(w)) \/ (op = "insert" /\ Removing(w)))
    /\ UNCHANGED <<slots, len, slock, model>>

Slot(u) == (HashOf[at[u].key] + at[u].i) % Cap
Unheld(i) == i \notin DOMAIN slock
Hold(i, u) == [j \in DOMAIN slock \cup {i} |-> IF j = i THEN u ELSE slock[j]]
Release(S) == [j \in DOMAIN slock \ S |-> slock[j]]
HeldBy(u) == {j \in DOMAIN slock : slock[j] = u}

(* A bug: stop at the first slot without data, a removed one too.          *)
ProbeSlot_FirstFree(u) ==
    /\ at[u].op \in {"insert", "remove"} /\ at[u].to = -1 /\ at[u].i < Cap
    /\ Unheld(Slot(u))
    /\ LET a == at[u]
           s == Slot(u)
           e == slots[s]
       IN  IF e.is # "data" \/ e.key = a.key
           THEN Go(u, [a EXCEPT !.to = s]) /\ slock' = Hold(s, u)
           ELSE Go(u, [a EXCEPT !.i = @ + 1]) /\ UNCHANGED slock
    /\ UNCHANGED <<slots, len, model, raced, ops>>

(* One slot of Buckets::entry's loop: stop at the key or at an empty slot, *)
(* and then take the removed slot kept on the way if there is one.         *)
ProbeSlot(u) ==
    /\ at[u].op \in {"insert", "remove"} /\ at[u].to = -1 /\ at[u].i < Cap
    /\ Unheld(Slot(u))
    /\ LET a == at[u]
           s == Slot(u)
           e == slots[s]
       IN  IF e = EmptySlot
           THEN /\ Go(u, [a EXCEPT !.to = IF a.free # -1 THEN a.free ELSE s])
                /\ slock' = IF a.free # -1 THEN slock ELSE Hold(s, u)
           ELSE IF e.is = "data" /\ e.key = a.key
           THEN /\ Go(u, [a EXCEPT !.to = s])
                /\ slock' = [j \in (DOMAIN slock \ HeldBy(u)) \cup {s} |-> IF j = s THEN u ELSE slock[j]]
           ELSE IF e = Removed /\ a.free = -1
           THEN Go(u, [a EXCEPT !.free = s, !.i = @ + 1]) /\ slock' = Hold(s, u)
           ELSE Go(u, [a EXCEPT !.i = @ + 1]) /\ UNCHANGED slock
    /\ UNCHANGED <<slots, len, model, raced, ops>>

(* All slots probed: the removed one if any, else the table is full and    *)
(* insert grows it and tries again (get_or_insert would spin).             *)
ProbeEnd(u) ==
    /\ at[u].op \in {"insert", "remove"} /\ at[u].to = -1 /\ at[u].i = Cap
    /\ IF at[u].free # -1 THEN Go(u, [at[u] EXCEPT !.to = at[u].free])
       ELSE IF at[u].op = "insert" THEN Go(u, [op |-> "retry", key |-> at[u].key, n |-> len * GROW_FACTOR])
       ELSE Go(u, Resting)
    /\ UNCHANGED <<slots, len, slock, model, raced, ops>>

(* insert: replace the entry; a new one may make the table grow.           *)
Insert(u) ==
    /\ at[u].op = "insert" /\ at[u].to # -1
    /\ LET s == at[u].to
           k == at[u].key
           new == slots[s].is # "data"
       IN  /\ slots' = [slots EXCEPT ![s] = Data(k, u)]
           /\ model' = {d \in model : d.key # k} \cup {Data(k, u)}
           /\ len' = IF new THEN len + 1 ELSE len
           /\ Go(u, IF new /\ (len + 1) * LOAD_FACTOR_D >= Cap * LOAD_FACTOR_N
                    THEN [op |-> "grow", n |-> len + 1] ELSE Resting)
    /\ slock' = Release(HeldBy(u))
    /\ UNCHANGED <<raced, ops>>

(* A bug: the slot becomes empty, which ends the probes that pass it.      *)
RemoveKey_ToEmpty(u) ==
    /\ at[u].op = "remove" /\ at[u].to # -1
    /\ LET s == at[u].to
           k == at[u].key
       IN  IF slots[s].is # "data" THEN Go(u, Resting) /\ UNCHANGED <<slots, len, model>>
           ELSE /\ slots' = [slots EXCEPT ![s] = EmptySlot]
                /\ model' = {d \in model : d.key # k}
                /\ len' = len - 1 /\ Go(u, Resting)
    /\ slock' = Release(HeldBy(u))
    /\ UNCHANGED <<raced, ops>>

(* remove_entry_if, try_remove_entry, remove_from.                         *)
RemoveKey(u) ==
    /\ at[u].op = "remove" /\ at[u].to # -1
    /\ LET s == at[u].to
           k == at[u].key
       IN  IF slots[s].is # "data" THEN Go(u, Resting) /\ UNCHANGED <<slots, len, model>>
           ELSE /\ slots' = [slots EXCEPT ![s] = Removed]
                /\ model' = {d \in model : d.key # k}
                /\ len' = len - 1
                /\ at' = [w \in User |->
                     IF w = u THEN IF (len - 1) * GROW_FACTOR * LOAD_FACTOR_D < Cap * LOAD_FACTOR_N
                                   THEN [op |-> "shrink", n |-> len - 1] ELSE Resting
                     ELSE IF at[w].op = "get" /\ at[w].key = k THEN [at[w] EXCEPT !.missed = TRUE]
                     ELSE at[w]]
    /\ slock' = Release(HeldBy(u))
    /\ UNCHANGED <<raced, ops>>

(* find_read of get: only the key itself stops the search.                 *)
Get(u) ==
    /\ at[u].op = "get" /\ at[u].i < Cap /\ Unheld(Slot(u))
    /\ LET e == slots[Slot(u)]
       IN  Go(u, IF e.is = "data" /\ e.key = at[u].key THEN Resting ELSE [at[u] EXCEPT !.i = @ + 1])
    /\ UNCHANGED <<slots, len, slock, model, raced, ops>>

GetMissed(u) == /\ at[u].op = "get" /\ at[u].i = Cap /\ Go(u, Resting)
                /\ UNCHANGED <<slots, len, slock, model, raced, ops>>

(* Buckets::move_from, slot by slot: each entry goes to the first free     *)
(* slot from its hash, and is dropped when there is none.                  *)
FirstFree(t, k) ==
    LET n == Cardinality(DOMAIN t)
        free == {i \in 0 .. n - 1 : t[(HashOf[k] + i) % n].is # "data"}
    IN  IF free = {} THEN {} ELSE {(HashOf[k] + Min(free)) % n}

RECURSIVE MoveFrom(_, _)
MoveFrom(t, i) ==
    IF i = Cap THEN t
    ELSE MoveFrom([j \in DOMAIN t |-> IF slots[i].is = "data" /\ j \in FirstFree(t, slots[i].key)
                                      THEN slots[i] ELSE t[j]], i + 1)

(* grow and shrink wait for every reader of the bucket array.              *)
ResizeSlots(u) ==
    /\ at[u].op \in {"grow", "retry", "shrink"}
    /\ \A w \in User : ~Reading(w)
    /\ LET a == at[u]
           want == IF a.op = "shrink" THEN a.n ELSE a.n * GROW_FACTOR
           doit == IF a.op = "shrink" THEN Cap > want ELSE Cap < want
       IN  /\ slots' = IF doit THEN MoveFrom(WithCapacity(IF want < MIN_CAPACITY /\ a.op = "shrink"
                                                          THEN MIN_CAPACITY ELSE want), 0)
                       ELSE slots
           /\ Go(u, IF a.op = "retry" THEN Probe(u, "insert", a.key) ELSE Resting)
    /\ UNCHANGED <<len, slock, model, raced, ops>>

(* take: swap the buckets for empty ones under the write lock.             *)
TakeAll(u) ==
    /\ at[u] = Resting /\ ops < MaxOps /\ ops' = ops + 1
    /\ \A w \in User : ~Reading(w)
    /\ slots' = WithCapacity(MIN_CAPACITY) /\ len' = 0 /\ model' = {}
    /\ raced' = (raced \/ \E w \in User \ {u} : Updating(w))
    /\ UNCHANGED <<slock, at>>

ChNext ==
    \E u \in User :
        \/ \E k \in Key, op \in {"insert", "remove", "get"} : StartOp(u, op, k)
        \/ ProbeSlot(u) \/ ProbeEnd(u) \/ Insert(u) \/ RemoveKey(u) \/ Get(u) \/ GetMissed(u)
        \/ ResizeSlots(u) \/ TakeAll(u)

ChSpec == ChInit(WithCapacity(MIN_CAPACITY)) /\ [][ChNext]_chvars

-----------------------------------------------------------------------------
(* Unless a removal has run at the same time as another update, the slots  *)
(* hold each entry that was inserted and not removed, once, whatever was   *)
(* resized and however probes passed removed slots; len counts them; and a *)
(* get that returns None did so because the key was absent at some moment  *)
(* of the call.  (With a removal in between, two inserts of one key can    *)
(* fill two slots, and a shrink to a stale length can drop entries.)       *)
MapExact ==
    ~raced => /\ InSlots(slots) = model
              /\ \A i, j \in DOMAIN slots : slots[i].is = "data" /\ slots[i] = slots[j] => i = j
              /\ len = Cardinality(model)
              /\ \A u \in User : at[u].op = "get" /\ at[u].i = Cap => at[u].missed
=============================================================================
