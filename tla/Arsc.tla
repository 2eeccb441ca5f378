-------------------------------- MODULE Arsc --------------------------------
(***************************************************************************)
(* Arsc, the strong-only atomic reference count used all over the kernel   *)
(* (sched/ipc/arsc.rs) and the user library (core/src/sync/arsc.rs; the    *)
(* two copies agree).  One step per atomic operation on the counter.       *)
(*                                                                         *)
(* The counter is a machine word of Width bits: it saturates in the upper  *)
(* half instead of wrapping, and the data is then leaked.  Handles that    *)
(* went through into_raw are counted in `raw', forgotten ones in `lost'.   *)
(***************************************************************************)
EXTENDS Integers, FiniteSets, FiniteSetsExt

CONSTANTS
    Holder,     \* threads
    NrInner,    \* bound: allocations
    Width,      \* bits of the counter
    MaxOwn,     \* bound: handles of one thread to one allocation
    MaxRaw,     \* bound: raw handles to an allocation
    MaxLost     \* bound: forgotten handles to an allocation

ArscInner == 1 .. NrInner
REF_COUNT_MAX == 2^(Width - 1) - 1
REF_COUNT_SATURATED == (2^(Width - 1)) + (2^(Width - 2))

(* In the window between a saturating decrement and the store that follows *)
(* it there are never enough handles left to bring the counter to zero.    *)
ASSUME ArscAssumption == Cardinality(Holder) * MaxOwn + MaxRaw < REF_COUNT_MAX - 1

VARIABLES
    refc,       \* ref_count of each allocation
    inside,       \* its data: "unused", "in", "moved" out, "dropped"
    mem,        \* its memory: "unused", "live", "freed"
    own,        \* handles each thread has to it
    raw,        \* raw handles to it
    lost,       \* forgotten handles to it
    doing,      \* what each thread is in the middle of
    mutref      \* the allocation a thread has a &mut into, or 0

arvars == <<refc, inside, mem, own, raw, lost, doing, mutref>>

Calm == [op |-> "calm", i |-> 0]

ArInit ==
    /\ refc = [i \in ArscInner |-> 0]
    /\ inside = [i \in ArscInner |-> "unused"] /\ mem = [i \in ArscInner |-> "unused"]
    /\ own = [h \in Holder |-> [i \in ArscInner |-> 0]] /\ raw = [i \in ArscInner |-> 0]
    /\ lost = [i \in ArscInner |-> 0]
    /\ doing = [h \in Holder |-> Calm] /\ mutref = [h \in Holder |-> 0]

Wrap(n) == n % (2^Width)
Handles(i) == raw[i] + lost[i] + MapThenSumSet(LAMBDA h : own[h][i], Holder)
Does(h, op, i) == doing' = [doing EXCEPT ![h] = [op |-> op, i |-> i]]
Owns(h, d, i) == own' = [own EXCEPT ![h][i] = @ + d]

(* A handle that is not borrowed: what the next call goes through.         *)
Uses(h, i) == doing[h] = Calm /\ own[h][i] > 0 /\ mutref[h] # i

(* try_new_in.                                                             *)
TryNew(h, i) ==
    /\ doing[h] = Calm /\ mem[i] = "unused"
    /\ mem' = [mem EXCEPT ![i] = "live"] /\ inside' = [inside EXCEPT ![i] = "in"]
    /\ refc' = [refc EXCEPT ![i] = 1] /\ Owns(h, 1, i)
    /\ UNCHANGED <<raw, doing, mutref, lost>>

(* Clone: fetch_add, and a saturated count is put back in its place.       *)
Clone(h, i) ==
    /\ Uses(h, i) /\ own[h][i] < MaxOwn
    /\ refc' = [refc EXCEPT ![i] = Wrap(@ + 1)]
    /\ IF refc[i] >= REF_COUNT_MAX THEN Does(h, "clone", i) /\ UNCHANGED own
       ELSE Owns(h, 1, i) /\ UNCHANGED doing
    /\ UNCHANGED <<inside, mem, raw, mutref, lost>>

CloneSaturated(h) ==
    /\ doing[h].op = "clone"
    /\ refc' = [refc EXCEPT ![doing[h].i] = REF_COUNT_SATURATED]
    /\ Owns(h, 1, doing[h].i) /\ doing' = [doing EXCEPT ![h] = Calm]
    /\ UNCHANGED <<inside, mem, raw, mutref, lost>>

(* A bug: compare what the counter has become instead of what it was.      *)
AfterSub_New(i) == IF refc[i] >= REF_COUNT_MAX THEN "saturate" ELSE IF refc[i] - 1 = 1 THEN "free" ELSE "calm"

(* Drop: fetch_sub; the last handle frees, a saturated count stays there.  *)
AfterSub(i) == IF refc[i] >= REF_COUNT_MAX THEN "saturate" ELSE IF refc[i] = 1 THEN "free" ELSE "calm"

DropRef(h, i) ==
    /\ Uses(h, i) /\ Owns(h, -1, i)
    /\ refc' = [refc EXCEPT ![i] = Wrap(@ - 1)]
    /\ doing' = [doing EXCEPT ![h] = IF AfterSub(i) = "calm" THEN Calm ELSE [op |-> AfterSub(i), i |-> i]]
    /\ UNCHANGED <<inside, mem, raw, mutref, lost>>

DropSaturated(h) ==
    /\ doing[h].op = "saturate"
    /\ refc' = [refc EXCEPT ![doing[h].i] = REF_COUNT_SATURATED]
    /\ doing' = [doing EXCEPT ![h] = Calm]
    /\ UNCHANGED <<inside, mem, own, raw, mutref, lost>>

FreeInner(h) ==
    /\ doing[h].op = "free"
    /\ inside' = [inside EXCEPT ![doing[h].i] = IF @ = "in" THEN "dropped" ELSE @]
    /\ mem' = [mem EXCEPT ![doing[h].i] = "freed"]
    /\ doing' = [doing EXCEPT ![h] = Calm]
    /\ UNCHANGED <<refc, own, raw, mutref, lost>>

(* into_raw, and from_raw by any thread that was given the pointer.        *)
IntoRaw(h, i) == /\ Uses(h, i) /\ raw[i] < MaxRaw /\ Owns(h, -1, i) /\ raw' = [raw EXCEPT ![i] = @ + 1]
                 /\ UNCHANGED <<refc, inside, mem, doing, mutref, lost>>
FromRaw(h, i) == /\ doing[h] = Calm /\ raw[i] > 0 /\ own[h][i] < MaxOwn /\ mutref[h] # i
                 /\ Owns(h, 1, i) /\ raw' = [raw EXCEPT ![i] = @ - 1]
                 /\ UNCHANGED <<refc, inside, mem, doing, mutref, lost>>

(* mem::forget of a handle.                                                *)
Forget(h, i) == /\ Uses(h, i) /\ lost[i] < MaxLost /\ Owns(h, -1, i) /\ lost' = [lost EXCEPT ![i] = @ + 1]
                /\ UNCHANGED <<refc, inside, mem, raw, doing, mutref>>

(* A bug: look at the counter without taking it.                           *)
Exchange_Anyway(h, op, i) ==
    /\ Uses(h, i) /\ refc[i] < REF_COUNT_MAX
    /\ refc' = [refc EXCEPT ![i] = 0] /\ Does(h, op, i)
    /\ UNCHANGED <<inside, mem, own, raw, mutref, lost>>

(* get_mut, try_unwrap, try_make_mut_with: compare_exchange(1, 0).  On     *)
(* failure get_mut and try_unwrap give up and make_mut moves to a copy.    *)
Exchange(h, op, i) ==
    /\ Uses(h, i)
    /\ IF refc[i] = 1 THEN refc' = [refc EXCEPT ![i] = 0] /\ Does(h, op, i)
       ELSE /\ op = "make_mut" /\ \E j \in ArscInner : mem[j] = "unused"
            /\ Does(h, "copy", i) /\ UNCHANGED refc
    /\ UNCHANGED <<inside, mem, own, raw, mutref, lost>>

(* *this = Self::try_new_in(..)?: the new value first, then the old        *)
(* handle is dropped.                                                      *)
MakeCopy(h, j) ==
    /\ doing[h].op = "copy" /\ mem[j] = "unused"
    /\ LET i == doing[h].i
       IN  /\ mem' = [mem EXCEPT ![j] = "live"] /\ inside' = [inside EXCEPT ![j] = "in"]
           /\ own' = [own EXCEPT ![h][i] = @ - 1, ![h][j] = 1]
           /\ refc' = [refc EXCEPT ![j] = 1, ![i] = Wrap(@ - 1)]
           /\ doing' = [doing EXCEPT ![h] = IF AfterSub(i) = "calm" THEN Calm ELSE [op |-> AfterSub(i), i |-> i]]
           /\ mutref' = [mutref EXCEPT ![h] = j]
    /\ UNCHANGED <<raw, lost>>

(* The allocation of the copy failed: the handle stays as it was.          *)
CopyFailed(h) == /\ doing[h].op = "copy" /\ doing' = [doing EXCEPT ![h] = Calm]
                 /\ UNCHANGED <<refc, inside, mem, own, raw, mutref, lost>>

(* store(1): the &mut is handed out.                                       *)
StoreOne(h) ==
    /\ doing[h].op \in {"get_mut", "make_mut"}
    /\ refc' = [refc EXCEPT ![doing[h].i] = 1] /\ mutref' = [mutref EXCEPT ![h] = doing[h].i]
    /\ doing' = [doing EXCEPT ![h] = Calm]
    /\ UNCHANGED <<inside, mem, own, raw, lost>>

(* try_unwrap: read the data, then drop the handle as MaybeUninit.         *)
Unwrap(h) ==
    /\ doing[h].op = "unwrap"
    /\ refc' = [refc EXCEPT ![doing[h].i] = 0] /\ inside' = [inside EXCEPT ![doing[h].i] = "moved"]
    /\ Owns(h, -1, doing[h].i) /\ Does(h, "free", doing[h].i)
    /\ UNCHANGED <<mem, raw, mutref, lost>>

EndMut(h) == /\ mutref[h] # 0 /\ doing[h] = Calm /\ mutref' = [mutref EXCEPT ![h] = 0]
             /\ UNCHANGED <<refc, inside, mem, own, raw, doing, lost>>

ArNext ==
    \E h \in Holder :
        \/ \E i \in ArscInner : TryNew(h, i) \/ Clone(h, i) \/ DropRef(h, i) \/ IntoRaw(h, i) \/ FromRaw(h, i)
                                 \/ Forget(h, i)
        \/ \E i \in ArscInner, op \in {"get_mut", "unwrap", "make_mut"} : Exchange(h, op, i)
        \/ CloneSaturated(h) \/ DropSaturated(h) \/ FreeInner(h) \/ CopyFailed(h) \/ StoreOne(h)
        \/ Unwrap(h) \/ EndMut(h)
        \/ \E j \in ArscInner : MakeCopy(h, j)

ArSpec == ArInit /\ [][ArNext]_arvars

-----------------------------------------------------------------------------
(* Whatever is cloned, dropped, unwrapped, leaked and taken mutably at the *)
(* same time: memory is freed only when no handle to it is left, and by    *)
(* one thread; the data of a handle is there (not moved out, not dropped); *)
(* a &mut from get_mut or try_make_mut excludes every other handle; and    *)
(* memory no handle leads to is being freed, unless the count saturated.   *)
ArscSafe ==
    \A i \in ArscInner :
        LET freeing == {h \in Holder : doing[h] = [op |-> "free", i |-> i]}
        IN  /\ Handles(i) > 0 => mem[i] = "live" /\ inside[i] = "in" /\ freeing = {}
            /\ Cardinality(freeing) <= 1
            /\ \A h \in Holder : mutref[h] = i => Handles(i) = 1 /\ own[h][i] = 1
            /\ mem[i] = "live" /\ Handles(i) = 0 => freeing # {} \/ refc[i] >= REF_COUNT_MAX \/ \E h \in Holder : doing[h].i = i
            /\ \A h \in Holder : doing[h].i = i => mem[i] = "live"
=============================================================================
