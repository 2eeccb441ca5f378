------------------------------- MODULE Deque --------------------------------
(* The work-stealing deques the schedulers are built on (sched/imp/deque.rs, *)
(* and its copy in h2o_std/core/src/sync): a Worker that pushes and pops, and*)
(* Stealers.  Indices do not wrap here; the epochs that keep a replaced      *)
(* buffer readable are external, so buffers are never taken away.            *)
(* The Injector (the kernel's migration queue is its twin) is a list of      *)
(* blocks pushed to at the tail and stolen from at the head.  An index counts*)
(* slots, BLOCK_CAP of every LAP = BLOCK_CAP + 1 being real; that of the head*)
(* has the bit HAS_NEXT.  A block is freed by the last of those who read from*)
(* it.                                                                       *)
EXTENDS UserThread, FiniteSetsExt, SequencesExt

CONSTANTS
    Own,        \* [Thread -> {"A", "B"}]  the Worker of a thread; A is stolen from
    MIN_CAP,    \* 64 in the code
    MAX_BATCH   \* 32 in the code

VARIABLES
    flavor,     \* [{"A", "B"} -> {"Fifo", "Lifo"}]
    front, back,  \* [{"A", "B"} -> Nat]
    cur,        \* [{"A", "B"} -> index of bufs]   Inner.buffer
    bufs,       \* Seq([cap, slots])               every buffer allocated
    loc,        \* [Thread -> record]              what an operation has read
    took,       \* [item -> Nat]                   how often it was handed out
    pushed      \* the items pushed so far are 1 .. pushed

dvars == <<flavor, front, back, cur, bufs, loc, took, pushed>>
KeepD == UNCHANGED <<futexes, cont, reg, flavor>>

Idle == [kind |-> None, f |-> 0, b |-> 0, len |-> 0, buf |-> 0, n |-> 0, got |-> <<>>]
Buf(d) == bufs[cur[d]]
At2(buf, i) == buf.slots[i % buf.cap]
Take(x) == took' = [took EXCEPT ![x] = @ + 1]
Local(t, r) == loc' = [loc EXCEPT ![t] = r]

\* Worker::resize: the live tasks are copied, and the buffer replaced.
Resized(d, cap) ==
    LET live == front[d] .. back[d] - 1
    IN  [cap |-> cap,
         slots |-> [k \in 0..cap - 1 |->
                       IF \E i \in live : i % cap = k
                       THEN At2(Buf(d), CHOOSE i \in live : i % cap = k) ELSE None]]
Resize(d, cap) ==
    /\ bufs' = Append(bufs, Resized(d, cap)) /\ cur' = [cur EXCEPT ![d] = Len(bufs) + 1]

-----------------------------------------------------------------------------
\* Worker::push: room first, then the slot, then the index that shows it.
Push(t) ==
    LET d == Own[t] len == back[d] - front[d]
    IN  /\ Ready(t, "push") /\ KeepD /\ UNCHANGED <<front, back, cur, bufs, loc, took, pushed>>
        /\ Goto(t, IF len >= Buf(d).cap THEN "push_resize" ELSE "push_write")

PushResize(t) ==
    /\ At(t, "push_resize") /\ Resize(Own[t], 2 * Buf(Own[t]).cap) /\ Goto(t, "push_write")
    /\ KeepD /\ UNCHANGED <<todo, front, back, loc, took, pushed>>

PushWrite(t) ==
    LET d == Own[t]
    IN  /\ At(t, "push_write") /\ Goto(t, "push_back") /\ pushed' = pushed + 1
        /\ bufs' = [bufs EXCEPT ![cur[d]].slots[back[d] % Buf(d).cap] = pushed + 1]
        /\ KeepD /\ UNCHANGED <<todo, front, back, cur, loc, took>>

PushBack(t) ==
    /\ At(t, "push_back") /\ back' = [back EXCEPT ![Own[t]] = @ + 1] /\ Done(t)
    /\ KeepD /\ UNCHANGED <<todo, front, cur, bufs, loc, took, pushed>>

-----------------------------------------------------------------------------
\* Worker::pop, told apart by flavor after one look at the length.
Popping(t) ==
    LET d == Own[t] len == back[d] - front[d]
    IN  /\ Local(t, [Idle EXCEPT !.len = len])
        /\ Goto(t, CASE len <= 0 -> "ready" [] flavor[d] = "Fifo" -> "pop_add" [] OTHER -> "pop_back")
        /\ KeepD /\ UNCHANGED <<front, back, cur, bufs, took, pushed>>

Pop(t) == Ready(t, "pop") /\ Popping(t)

\* Fifo: claims the front index, and gives it back if nothing was there.
PopAdd(t) ==
    LET d == Own[t] f == front[d]
    IN  /\ At(t, "pop_add") /\ front' = [front EXCEPT ![d] = f + 1]
        /\ KeepD /\ UNCHANGED <<todo, back, cur, bufs, pushed>>
        /\ IF back[d] - (f + 1) < 0
           THEN Goto(t, "pop_undo") /\ Local(t, [loc[t] EXCEPT !.f = f]) /\ UNCHANGED took
           ELSE /\ Take(At2(Buf(d), f)) /\ UNCHANGED loc
                /\ Goto(t, IF Buf(d).cap > MIN_CAP /\ loc[t].len <= Buf(d).cap \div 4
                           THEN "pop_resize" ELSE "ready")

PopUndo(t) ==
    /\ At(t, "pop_undo") /\ front' = [front EXCEPT ![Own[t]] = loc[t].f] /\ Done(t)
    /\ KeepD /\ UNCHANGED <<todo, back, cur, bufs, loc, took, pushed>>

PopResize(t) ==
    /\ At(t, "pop_resize") /\ Resize(Own[t], Buf(Own[t]).cap \div 2) /\ Done(t)
    /\ KeepD /\ UNCHANGED <<todo, front, back, loc, took, pushed>>

\* Lifo: the back index first; the last task is raced for with the stealers.
PopBack(t) ==
    /\ At(t, "pop_back") /\ back' = [back EXCEPT ![Own[t]] = @ - 1] /\ Goto(t, "pop_front")
    /\ KeepD /\ UNCHANGED <<todo, front, cur, bufs, loc, took, pushed>>

(* A bug: the last task is taken without racing for it.                      *)
PopFront_Last(t) ==
    LET d == Own[t] len == back[d] - front[d]
    IN  /\ At(t, "pop_front") /\ KeepD /\ UNCHANGED <<todo, front, back, cur, bufs, pushed>>
        /\ Local(t, [loc[t] EXCEPT !.f = front[d]])
        /\ IF len < 0 THEN Goto(t, "pop_restore") /\ UNCHANGED took
           ELSE Take(At2(Buf(d), back[d])) /\ Goto(t, "ready")

PopFront(t) ==
    LET d == Own[t] len == back[d] - front[d]
    IN  /\ At(t, "pop_front") /\ KeepD /\ UNCHANGED <<todo, front, back, cur, bufs, pushed>>
        /\ Local(t, [loc[t] EXCEPT !.f = front[d]])
        /\ IF len <= 0
           THEN Goto(t, IF len < 0 THEN "pop_restore" ELSE "pop_cas") /\ UNCHANGED took
           ELSE /\ Take(At2(Buf(d), back[d]))
                /\ Goto(t, IF Buf(d).cap > MIN_CAP /\ len < Buf(d).cap \div 4
                           THEN "pop_resize" ELSE "ready")

PopCas(t) ==
    LET d == Own[t]
    IN  /\ At(t, "pop_cas") /\ Goto(t, "pop_restore")
        /\ IF front[d] = loc[t].f THEN front' = [front EXCEPT ![d] = @ + 1] /\ Take(At2(Buf(d), back[d]))
           ELSE UNCHANGED <<front, took>>
        /\ KeepD /\ UNCHANGED <<todo, back, cur, bufs, loc, pushed>>

PopRestore(t) ==
    /\ At(t, "pop_restore") /\ back' = [back EXCEPT ![Own[t]] = @ + 1] /\ Done(t)
    /\ KeepD /\ UNCHANGED <<todo, front, cur, bufs, loc, took, pushed>>

-----------------------------------------------------------------------------
\* Stealer::steal, steal_batch and steal_batch_and_pop, from A.  Stealing from
\* one's own Worker is a look or a pop.
Steal(t, kind) ==
    /\ Ready(t, kind)
    /\ IF Own[t] = "A" /\ kind = "steal_batch_and_pop" THEN Popping(t)
       ELSE /\ Local(t, [Idle EXCEPT !.kind = kind, !.f = front["A"]])
            /\ Goto(t, IF Own[t] = "A" /\ kind = "steal_batch" THEN "ready" ELSE "steal_back")
            /\ KeepD /\ UNCHANGED <<front, back, cur, bufs, took, pushed>>

\* How many are taken at most, with room for those that go to the own Worker.
Batch(kind, len) ==
    CASE kind = "steal"       -> 0
      [] kind = "steal_batch" -> Min({(len + 1) \div 2, MAX_BATCH})
      [] OTHER                -> Min({(len - 1) \div 2, MAX_BATCH - 1})

\* Worker::reserve.
NewCap(cap, len, n) == Min({c \in {cap, 2 * cap, 4 * cap, 8 * cap} : c - len >= n})
Reserve(d, n) ==
    LET len == back[d] - front[d] cap == Buf(d).cap
    IN  IF n > 0 /\ cap - len < n THEN Resize(d, NewCap(cap, len, n)) ELSE UNCHANGED <<bufs, cur>>

StealBack(t) ==
    LET r == loc[t] len == back["A"] - r.f n == Batch(r.kind, len)
    IN  /\ At(t, "steal_back") /\ KeepD /\ UNCHANGED <<todo, front, back, took, pushed>>
        /\ IF len <= 0 THEN Done(t) /\ UNCHANGED <<loc, bufs, cur>>
           ELSE Local(t, [r EXCEPT !.n = n]) /\ Reserve(Own[t], n) /\ Goto(t, "steal_buffer")

StealBuffer(t) ==
    /\ At(t, "steal_buffer") /\ Local(t, [loc[t] EXCEPT !.buf = cur["A"]]) /\ Goto(t, "steal_slot")
    /\ KeepD /\ UNCHANGED <<todo, front, back, cur, bufs, took, pushed>>

\* From a Fifo all are claimed at once, from a Lifo one after the other.
Wanted(r) == IF r.kind = "steal_batch" THEN r.n ELSE r.n + 1
Together(r) == flavor["A"] = "Fifo" \/ r.kind = "steal"
ReadSlot(r) == At2(bufs[r.buf], IF Together(r) THEN r.f + Len(r.got) ELSE r.f)

StealSlot(t) ==
    LET r == loc[t] have == Len(r.got) + 1
    IN  /\ At(t, "steal_slot") /\ Local(t, [r EXCEPT !.got = Append(@, ReadSlot(r))])
        /\ Goto(t, CASE Together(r) /\ have < Wanted(r) -> "steal_slot"
                     [] ~Together(r) /\ r.kind = "steal_batch_and_pop" /\ have = 1 -> "steal_cas"
                     [] OTHER -> "steal_check")
        /\ KeepD /\ UNCHANGED <<todo, front, back, cur, bufs, took, pushed>>

\* A task that was read but not won is forgotten; the ones won before are kept.
Lose(t) ==
    LET kept == IF Together(loc[t]) THEN <<>> ELSE SubSeq(loc[t].got, 1, Len(loc[t].got) - 1)
    IN  /\ Local(t, [loc[t] EXCEPT !.got = kept])
        /\ Goto(t, IF kept = <<>> THEN "ready" ELSE "steal_publish")

StealCheck(t) ==
    /\ At(t, "steal_check") /\ KeepD /\ UNCHANGED <<todo, front, back, cur, bufs, took, pushed>>
    /\ IF cur["A"] = loc[t].buf THEN Goto(t, "steal_cas") /\ UNCHANGED loc ELSE Lose(t)

StealCas(t) ==
    LET r == loc[t] step == IF Together(r) THEN Len(r.got) ELSE 1
    IN  /\ At(t, "steal_cas") /\ KeepD /\ UNCHANGED <<todo, back, cur, bufs, took, pushed>>
        /\ IF front["A"] # r.f THEN Lose(t) /\ UNCHANGED front
           ELSE /\ front' = [front EXCEPT !["A"] = @ + step]
                /\ Local(t, [r EXCEPT !.f = @ + step])
                /\ Goto(t, IF Len(r.got) < Wanted(r) THEN "steal_again" ELSE "steal_publish")

StealAgain(t) ==
    /\ At(t, "steal_again")
    /\ Goto(t, IF back["A"] - loc[t].f <= 0 THEN "steal_publish" ELSE "steal_slot")
    /\ KeepD /\ UNCHANGED <<todo, front, back, cur, bufs, loc, took, pushed>>

\* One task is the caller's, the others go behind those of its own Worker, the
\* oldest where that Worker pops first.
Mine(r) == CASE r.kind = "steal_batch" -> <<>>
             [] flavor["A"] = "Lifo" -> <<Last(r.got)>>
             [] OTHER -> <<Head(r.got)>>
Moved(r) == CASE r.kind = "steal_batch" -> r.got
              [] flavor["A"] = "Lifo" -> Front(r.got)
              [] OTHER -> Tail(r.got)

\* The slots behind back are written before back shows them.
Appended(d, moved) ==
    LET at == [k \in 1..Len(moved) |-> (back[d] + k - 1) % Buf(d).cap]
    IN  [bufs EXCEPT ![cur[d]].slots =
            [s \in DOMAIN @ |-> IF \E k \in DOMAIN at : at[k] = s
                                THEN moved[CHOOSE k \in DOMAIN at : at[k] = s] ELSE @[s]]]

StealPublish(t) ==
    LET r == loc[t]  d == Own[t]
        moved == IF flavor["A"] = flavor[d] THEN Moved(r) ELSE Reverse(Moved(r))
    IN  /\ At(t, "steal_publish") /\ Done(t)
        /\ bufs' = Appended(d, moved) /\ back' = [back EXCEPT ![d] = @ + Len(moved)]
        /\ IF Mine(r) = <<>> THEN UNCHANGED took ELSE Take(Mine(r)[1])
        /\ KeepD /\ UNCHANGED <<todo, front, cur, loc, pushed>>

-----------------------------------------------------------------------------
DequeInit(items) ==
    /\ flavor \in [{"A", "B"} -> {"Fifo", "Lifo"}]
    /\ front = [d \in {"A", "B"} |-> 0] /\ back = [d \in {"A", "B"} |-> 0]
    /\ bufs = [i \in 1..2 |-> [cap |-> MIN_CAP, slots |-> [k \in 0..MIN_CAP - 1 |-> None]]]
    /\ cur = [d \in {"A", "B"} |-> IF d = "A" THEN 1 ELSE 2]
    /\ loc = [t \in Thread |-> Idle] /\ took = [x \in items |-> 0] /\ pushed = 0

DequeStep(t) ==
    \/ Push(t) \/ PushResize(t) \/ PushWrite(t) \/ PushBack(t)
    \/ Pop(t) \/ PopAdd(t) \/ PopUndo(t) \/ PopResize(t)
    \/ PopBack(t) \/ PopFront(t) \/ PopCas(t) \/ PopRestore(t)
    \/ \E kind \in {"steal", "steal_batch", "steal_batch_and_pop"} : Steal(t, kind)
    \/ StealBack(t) \/ StealBuffer(t) \/ StealSlot(t) \/ StealCheck(t) \/ StealCas(t)
    \/ StealAgain(t) \/ StealPublish(t)

\* The tasks in a Worker.
Queued(d) == [i \in 1..back[d] - front[d] |-> At2(Buf(d), front[d] + i - 1)]

-----------------------------------------------------------------------------
\* Injector.
CONSTANT BLOCK_CAP       \* 63 in the code

VARIABLES
    head, hblock,    \* [i, next], block     Injector.head
    tail, tblock,    \* Nat, block           Injector.tail
    blocks,          \* Seq([next, slots, alive])
    il               \* [Thread -> record]   what an operation has read

ivars == <<head, hblock, tail, tblock, blocks, il>>
workers == <<flavor, front, back, cur, bufs, loc, took, pushed>>
KeepI == UNCHANGED <<futexes, cont, reg>>

LAP == BLOCK_CAP + 1
Offset(i) == i % LAP
NoSlot == [task |-> None, write |-> FALSE, read |-> FALSE, destroy |-> FALSE]
NewBlock == [next |-> None, slots |-> [k \in 0..BLOCK_CAP - 1 |-> NoSlot], alive |-> TRUE]
NoLocal == [kind |-> None, h |-> [i |-> 0, next |-> FALSE], cross |-> FALSE, block |-> 1,
            off |-> 0, n |-> 0, next |-> 0, k |-> 0, got |-> <<>>]
Keeps(t, r) == il' = [il EXCEPT ![t] = r]

-----------------------------------------------------------------------------
\* push: claim a slot of the tail block; who claims the last one brings the
\* next block.
LoadTail(t) ==
    Keeps(t, [NoLocal EXCEPT !.h.i = tail, !.off = Offset(tail)]) /\ Goto(t, "ipush_block")

IPush(t) ==
    /\ LoadTail(t) /\ KeepI /\ UNCHANGED <<head, hblock, tail, tblock, blocks, workers>>
    /\ Ready(t, "ipush") \/ (At(t, "ipush_load") /\ UNCHANGED todo)

IPushBlock(t) ==
    /\ At(t, "ipush_block") /\ Keeps(t, [il[t] EXCEPT !.block = tblock])
    /\ Goto(t, IF il[t].off = BLOCK_CAP THEN "ipush_load" ELSE "ipush_cas")
    /\ KeepI /\ UNCHANGED <<todo, head, hblock, tail, tblock, blocks, workers>>

IPushCas(t) ==
    LET r == il[t]
    IN  /\ At(t, "ipush_cas") /\ KeepI /\ UNCHANGED <<todo, head, hblock, tblock, blocks, workers>>
        /\ IF tail = r.h.i
           THEN /\ tail' = tail + 1 /\ UNCHANGED il
                /\ Goto(t, IF r.off + 1 = BLOCK_CAP THEN "ipush_newblock" ELSE "ipush_write")
           ELSE LoadTail(t) /\ UNCHANGED tail

IPushNewBlock(t) ==
    /\ At(t, "ipush_newblock") /\ Goto(t, "ipush_newindex")
    /\ blocks' = Append(blocks, NewBlock) /\ tblock' = Len(blocks) + 1
    /\ Keeps(t, [il[t] EXCEPT !.next = Len(blocks) + 1])
    /\ KeepI /\ UNCHANGED <<todo, head, hblock, tail, workers>>

IPushNewIndex(t) ==
    /\ At(t, "ipush_newindex") /\ tail' = il[t].h.i + 2 /\ Goto(t, "ipush_next")
    /\ KeepI /\ UNCHANGED <<todo, head, hblock, tblock, blocks, il, workers>>

IPushNext(t) ==
    /\ At(t, "ipush_next") /\ blocks' = [blocks EXCEPT ![il[t].block].next = il[t].next]
    /\ Goto(t, "ipush_write")
    /\ KeepI /\ UNCHANGED <<todo, head, hblock, tail, tblock, il, workers>>

IPushWrite(t) ==
    /\ At(t, "ipush_write") /\ Done(t) /\ pushed' = pushed + 1
    /\ blocks' = [blocks EXCEPT ![il[t].block].slots[il[t].off] =
                     [@ EXCEPT !.task = pushed + 1, !.write = TRUE]]
    /\ KeepI /\ UNCHANGED <<todo, head, hblock, tail, tblock, il, flavor, front, back, cur,
                            bufs, loc, took>>

-----------------------------------------------------------------------------
\* steal, steal_batch and steal_batch_and_pop: claim slots of the head block.
Kinds == {"isteal", "isteal_batch", "isteal_batch_and_pop"}

ISteal(t, kind) ==
    /\ Ready(t, kind) \/ (At(t, "isteal_load") /\ il[t].kind = kind /\ UNCHANGED todo)
    /\ Keeps(t, [NoLocal EXCEPT !.kind = kind, !.h = head, !.off = Offset(head.i)])
    /\ Goto(t, "isteal_block")
    /\ KeepI /\ UNCHANGED <<head, hblock, tail, tblock, blocks, workers>>

\* The most a kind takes: MAX_BATCH and one for the caller who pops.
Most(kind) == CASE kind = "isteal" -> 1 [] kind = "isteal_batch" -> MAX_BATCH
                [] OTHER -> MAX_BATCH + 1
ToEnd(r) == Min({BLOCK_CAP - r.off, Most(r.kind)})

IStealBlock(t) ==
    LET r == il[t]
    IN  /\ At(t, "isteal_block")
        /\ Keeps(t, [r EXCEPT !.block = hblock, !.n = ToEnd(r), !.cross = r.h.next])
        /\ Goto(t, CASE r.off = BLOCK_CAP -> "isteal_load"
                     [] r.h.next -> "isteal_cas" [] OTHER -> "isteal_tail")
        /\ KeepI /\ UNCHANGED <<todo, head, hblock, tail, tblock, blocks, workers>>

IStealTail(t) ==
    LET r == il[t] cross == r.h.i \div LAP # tail \div LAP
        half == Min({(tail - r.h.i + 1) \div 2, Most(r.kind)})
    IN  /\ At(t, "isteal_tail")
        /\ IF r.h.i = tail THEN Done(t) /\ UNCHANGED il
           ELSE /\ Keeps(t, [r EXCEPT !.cross = cross, !.n = IF cross THEN ToEnd(r) ELSE half])
                /\ Goto(t, "isteal_cas")
        /\ KeepI /\ UNCHANGED <<todo, head, hblock, tail, tblock, blocks, workers>>

\* What goes to the caller's own Worker, which first makes room for it.
ForWorker(r) == IF r.kind = "isteal_batch" THEN r.n ELSE r.n - 1

IStealCas(t) ==
    LET r == il[t]
    IN  /\ At(t, "isteal_cas")
        /\ IF head = r.h
           THEN /\ head' = [i |-> r.h.i + r.n, next |-> r.cross]
                /\ Reserve(Own[t], ForWorker(r))
                /\ Goto(t, IF r.off + r.n = BLOCK_CAP THEN "isteal_wait_next" ELSE "isteal_slot")
           ELSE Done(t) /\ UNCHANGED <<head, bufs, cur>>
        /\ KeepI /\ UNCHANGED <<todo, hblock, tail, tblock, blocks, il, flavor, front, back, loc,
                                took, pushed>>

\* Who took the last slot moves the head on to the next block.
IStealWaitNext(t) ==
    LET n == blocks[il[t].block].next
    IN  /\ At(t, "isteal_wait_next") /\ n # None /\ hblock' = n
        /\ Keeps(t, [il[t] EXCEPT !.next = n, !.cross = blocks[n].next # None])
        /\ Goto(t, "isteal_newindex")
        /\ KeepI /\ UNCHANGED <<todo, head, tail, tblock, blocks, workers>>

IStealNewIndex(t) ==
    LET r == il[t]
    IN  /\ At(t, "isteal_newindex") /\ head' = [i |-> r.h.i + r.n + 1, next |-> r.cross]
        /\ Goto(t, "isteal_slot")
        /\ KeepI /\ UNCHANGED <<todo, hblock, tail, tblock, blocks, il, workers>>

\* wait_write, then the task.
IStealSlot(t) ==
    LET r == il[t] slot == blocks[r.block].slots[r.off + Len(r.got)]
    IN  /\ At(t, "isteal_slot") /\ slot.write /\ Keeps(t, [r EXCEPT !.got = Append(@, slot.task)])
        /\ Goto(t, IF Len(r.got) + 1 < r.n THEN "isteal_slot" ELSE "isteal_publish")
        /\ KeepI /\ UNCHANGED <<todo, head, hblock, tail, tblock, blocks, workers>>

IStealPublish(t) ==
    LET r == il[t]  d == Own[t]
        rest == IF r.kind = "isteal_batch" THEN r.got ELSE Tail(r.got)
        moved == IF flavor[d] = "Fifo" THEN rest ELSE Reverse(rest)
    IN  /\ At(t, "isteal_publish")
        /\ bufs' = Appended(d, moved) /\ back' = [back EXCEPT ![d] = @ + Len(moved)]
        /\ IF r.kind = "isteal_batch" THEN UNCHANGED took ELSE Take(Head(r.got))
        /\ Goto(t, IF r.off + r.n = BLOCK_CAP THEN "destroy" ELSE "isteal_read")
        /\ Keeps(t, [r EXCEPT !.k = IF r.off + r.n = BLOCK_CAP THEN r.off ELSE 0])
        /\ KeepI /\ UNCHANGED <<todo, head, hblock, tail, tblock, blocks, flavor, front, cur, loc,
                                pushed>>

\* The slots are marked READ; one marked DESTROY hands on the duty to free.
IStealRead(t) ==
    LET r == il[t] s == r.off + r.k
    IN  /\ At(t, "isteal_read") /\ blocks' = [blocks EXCEPT ![r.block].slots[s].read = TRUE]
        /\ IF blocks[r.block].slots[s].destroy
           THEN Goto(t, "destroy") /\ Keeps(t, [r EXCEPT !.k = r.off])
           ELSE /\ Keeps(t, [r EXCEPT !.k = @ + 1])
                /\ Goto(t, IF r.k + 1 < r.n THEN "isteal_read" ELSE "ready")
        /\ KeepI /\ UNCHANGED <<todo, head, hblock, tail, tblock, workers>>

\* Block::destroy, downwards from slot k - 1.
Destroy(t) ==
    LET r == il[t]
    IN  /\ At(t, "destroy")
        /\ CASE r.k = 0 -> /\ blocks' = [blocks EXCEPT ![r.block].alive = FALSE]
                           /\ Done(t) /\ UNCHANGED il
             [] r.k > 0 /\ blocks[r.block].slots[r.k - 1].read ->
                    Keeps(t, [r EXCEPT !.k = @ - 1]) /\ UNCHANGED <<pc, blocks>>
             [] OTHER -> /\ blocks' = [blocks EXCEPT ![r.block].slots[r.k - 1].destroy = TRUE]
                         /\ Done(t) /\ UNCHANGED il
        /\ KeepI /\ UNCHANGED <<todo, head, hblock, tail, tblock, workers>>

-----------------------------------------------------------------------------
InjectorInit ==
    /\ head = [i |-> 0, next |-> FALSE] /\ tail = 0 /\ hblock = 1 /\ tblock = 1
    /\ blocks = <<NewBlock>> /\ il = [t \in Thread |-> NoLocal]

InjectorStep(t) ==
    \/ IPush(t) \/ IPushBlock(t) \/ IPushCas(t) \/ IPushNewBlock(t) \/ IPushNewIndex(t)
    \/ IPushNext(t) \/ IPushWrite(t)
    \/ \E kind \in Kinds : ISteal(t, kind)
    \/ IStealBlock(t) \/ IStealTail(t) \/ IStealCas(t) \/ IStealWaitNext(t) \/ IStealNewIndex(t)
    \/ IStealSlot(t) \/ IStealPublish(t) \/ IStealRead(t) \/ Destroy(t)

-----------------------------------------------------------------------------
AllFinished == \A t \in Thread : Finished(t)
InInjector == {x \in 1..pushed :
    \E b \in DOMAIN blocks : \E k \in 0..BLOCK_CAP - 1 :
        blocks[b].slots[k].task = x /\ blocks[b].alive /\ (b - 1) * LAP + k >= head.i}

\* A task that was pushed, to a Worker or to the Injector, is handed out at most
\* once, and when nobody is at work each is handed out or still queued in one
\* place, whatever the races of push, pop, steal, resize and the moves in batches
\* (Worker::push, pop, resize, Stealer::steal*, Injector::push, steal*).
NoTaskLost ==
    /\ \A x \in DOMAIN took : took[x] <= 1
    /\ AllFinished => LET left == Queued("A") \o Queued("B")
                      IN  /\ IsInjective(left) /\ ToSet(left) \intersect InInjector = {}
                          /\ ToSet(left) \union InInjector = {x \in 1..pushed : took[x] = 0}

\* A block is not freed while someone will still look into it, no block is freed
\* twice, and none that the head has left behind stays allocated (Block::destroy).
BlocksFreedOnce ==
    /\ \A t \in Thread :
           pc[t] \in {"ipush_next", "ipush_write", "isteal_wait_next", "isteal_slot",
                      "isteal_read", "destroy"} => blocks[il[t].block].alive
    /\ AllFinished => \A b \in DOMAIN blocks : blocks[b].alive <=> b >= hblock
=============================================================================
