------------------------------ MODULE AsyncDisp -----------------------------
(* The reactor of h2o_async (disp.rs) and the futures that wait through it:  *)
(* Receive of ipc/channel.rs, Read, Write and Resize of mem.rs, TryWait of   *)
(* ipc.rs, which Timer and the others use.  A future asks the kernel's       *)
(* dispatcher to watch its object, and io_task hands the answers out: pop    *)
(* an answer, take the task out of the map, unpack into its oneshot, wake.   *)
(* The kernel's side (Event) is one step per call.                           *)
EXTENDS Integers, Sequences, FiniteSets, SequencesExt

CONSTANTS Fut,        \* futures
          FutKinds,      \* kinds of futures checked: "recv", "phys", "wait"
          DispCap,   \* of the kernel's dispatcher
          MaxKey,     \* bound: pushes into the dispatcher
          MaxSignal   \* bound: messages sent to the object, releases of it

VARIABLES
    fpc,      \* [Fut -> STRING]
    key,      \* [Fut -> key or 0]
    slot,     \* [Fut -> "none", "empty" or the result]  the oneshot
    waker,    \* [Fut -> 1..2]  the waker it was last polled with
    woken,    \* SUBSET (Fut \X (1..2))  wakers called
    tasks,    \* [key -> [f, w]]  Dispatcher.tasks
    pending,  \* set of keys the kernel watches for
    ready,    \* Seq(key)  those answered, not popped yet
    owner,    \* [key -> Fut]   which future a key was given to
    io,       \* io_task: [pc, key, res, task]
    kind,     \* what the futures wait for, all on one object
    avail,    \* messages in it, or 1 if its lock is free
    sent,     \* Nat
    numRecv   \* 1 while the DispReceiver lives

dispvars == <<fpc, key, slot, waker, woken, tasks, pending, ready, owner, io, kind, avail, sent, numRecv>>
DispKeys == DOMAIN owner
Step(f, l) == fpc' = [fpc EXCEPT ![f] = l]

\* What the kernel's call gives a future: "ok", or the error to wait out.  A
\* packed receive is given too small a buffer (its packet is empty).
Direct == IF avail > 0 THEN "ok" ELSE IF kind = "recv" THEN "ENOENT" ELSE "EAGAIN"
Packed == CASE kind = "wait" -> "ok"
               [] kind = "recv" /\ avail > 0 -> "EBUFFER"
               [] OTHER -> Direct
Retry == [recv |-> "EBUFFER", phys |-> "EAGAIN", wait |-> "no"]

Consume == avail' = IF kind = "recv" THEN avail - 1 ELSE avail

-----------------------------------------------------------------------------
\* poll: the result of an earlier poll first (result_recv).
PollFut(f, w) ==
    /\ fpc[f] = "new" \/ (fpc[f] = "pending" /\ (<<f, waker[f]>> \in woken \/ w # waker[f]))
    /\ waker' = [waker EXCEPT ![f] = w] /\ woken' = {x \in woken : x[1] # f}
    /\ CASE slot[f] \in {"none", Retry[kind]} -> /\ Step(f, "try")
                                                  /\ slot' = [slot EXCEPT ![f] = "empty"]
         [] slot[f] = "empty" -> Step(f, "update") /\ UNCHANGED slot
         [] OTHER -> Step(f, "done") /\ UNCHANGED slot
    /\ UNCHANGED <<key, tasks, pending, ready, owner, io, avail, sent, kind, numRecv>>

(* A bug: the waker of the first poll stays in the map.                      *)
UpdateWaker_Not(f) ==
    /\ fpc[f] = "update"
    /\ Step(f, IF numRecv > 0 /\ key[f] \in DOMAIN tasks THEN "pending" ELSE "recv")
    /\ UNCHANGED <<key, slot, waker, woken, tasks, pending, ready, owner, io, avail, sent, kind, numRecv>>

\* Still waiting: the new waker replaces the old one.  A task that is gone from
\* the map has its answer on the way; only a final one is accepted here.
UpdateWaker(f) ==
    /\ fpc[f] = "update"
    /\ IF numRecv > 0 /\ key[f] \in DOMAIN tasks
       THEN tasks' = [tasks EXCEPT ![key[f]].w = waker[f]] /\ Step(f, "pending")
       ELSE Step(f, "recv") /\ UNCHANGED tasks
    /\ UNCHANGED <<key, slot, waker, woken, pending, ready, owner, io, avail, sent, kind, numRecv>>

BlockingRecv(f) ==
    /\ fpc[f] = "recv" /\ slot[f] # "empty"
    /\ Step(f, IF kind = "recv" /\ slot[f] = "EBUFFER" THEN "panic" ELSE "done")
    /\ UNCHANGED <<key, slot, waker, woken, tasks, pending, ready, owner, io, avail, sent, kind, numRecv>>

\* The call itself, when it need not wait.
TryFut(f) ==
    /\ fpc[f] = "try"
    /\ IF kind # "wait" /\ Direct = "ok" THEN Consume /\ Step(f, "done")
       ELSE Step(f, "push") /\ UNCHANGED avail
    /\ UNCHANGED <<key, slot, waker, woken, tasks, pending, ready, owner, io, sent, kind, numRecv>>

\* poll_send: registers with the kernel, where a level-triggered request may be
\* answered at once; back to the call while the dispatcher is full.
PushFut(f) ==
    LET k == Cardinality(DispKeys) + 1
    IN  /\ fpc[f] = "push" /\ k <= MaxKey
        /\ CASE numRecv = 0 -> Step(f, "panic") /\ UNCHANGED <<key, pending, ready, owner>>
             [] Cardinality(pending) + Len(ready) >= DispCap
                -> Step(f, "try") /\ UNCHANGED <<key, pending, ready, owner>>
             [] OTHER -> /\ Step(f, "insert") /\ key' = [key EXCEPT ![f] = k]
                         /\ owner' = [j \in DispKeys \union {k} |-> IF j = k THEN f ELSE owner[j]]
                         /\ IF avail > 0 /\ kind # "wait"
                            THEN ready' = Append(ready, k)
                                 /\ UNCHANGED pending
                            ELSE pending' = pending \union {k} /\ UNCHANGED ready
    /\ UNCHANGED <<slot, waker, woken, tasks, io, avail, sent, kind, numRecv>>

InsertTask(f) ==
    /\ fpc[f] = "insert" /\ Step(f, "pending")
    /\ tasks' = [k \in DOMAIN tasks \union {key[f]} |->
                    IF k = key[f] THEN [f |-> f, w |-> waker[f]] ELSE tasks[k]]
    /\ UNCHANGED <<key, slot, waker, woken, pending, ready, owner, io, avail, sent, kind, numRecv>>

\* A pending future is dropped; its oneshot goes with it.
DropFut(f) ==
    /\ fpc[f] = "pending" /\ Step(f, "done")
    /\ UNCHANGED <<key, slot, waker, woken, tasks, pending, ready, owner, io, avail, sent, kind, numRecv>>

-----------------------------------------------------------------------------
\* io_task, poll_receive: the kernel runs the packed call when the answer is popped.
PopAnswer ==
    /\ io.pc = "pop" /\ numRecv > 0 /\ ready # <<>> /\ ready' = Tail(ready)
    /\ io' = [io EXCEPT !.pc = "remove", !.key = Head(ready), !.res = Packed]
    /\ UNCHANGED <<fpc, key, slot, waker, woken, tasks, pending, owner, avail, sent, kind, numRecv>>

\* The answer may come before the sender has put its task into the map.
RemoveTask ==
    /\ io.pc = "remove" /\ io.key \in DOMAIN tasks
    /\ io' = [io EXCEPT !.pc = "unpack", !.task = tasks[io.key]]
    /\ tasks' = [k \in DOMAIN tasks \ {io.key} |-> tasks[k]]
    /\ UNCHANGED <<fpc, key, slot, waker, woken, pending, ready, owner, avail, sent, kind, numRecv>>

\* The future may be gone by now, or wait for the answer to a later request.
Unpack ==
    /\ io.pc = "unpack" /\ io' = [io EXCEPT !.pc = "wake"]
    /\ LET f == io.task.f
       IN  slot' = IF fpc[f] # "done" /\ key[f] = io.key THEN [slot EXCEPT ![f] = io.res] ELSE slot
    /\ UNCHANGED <<fpc, key, waker, woken, tasks, pending, ready, owner, avail, sent, kind, numRecv>>

WakeFut ==
    /\ io.pc = "wake" /\ woken' = woken \union {<<io.task.f, io.task.w>>}
    /\ io' = [io EXCEPT !.pc = "pop"]
    /\ UNCHANGED <<fpc, key, slot, waker, tasks, pending, ready, owner, avail, sent, kind, numRecv>>

\* Drop for the last DispReceiver: the counter first, then every task in the map
\* is told.
DropReceiver ==
    /\ numRecv = 1 /\ io.pc = "pop" /\ numRecv' = 0 /\ io' = [io EXCEPT !.pc = "take"]
    /\ UNCHANGED <<fpc, key, slot, waker, woken, tasks, pending, ready, owner, avail, sent, kind>>

TakeTasks ==
    /\ io.pc = "take" /\ io' = [io EXCEPT !.pc = "gone"] /\ tasks' = <<>>
    /\ slot' = [f \in Fut |-> IF \E k \in DOMAIN tasks : tasks[k].f = f /\ key[f] = k
                              THEN "ETIME" ELSE slot[f]]
    /\ woken' = woken \union {<<tasks[k].f, tasks[k].w>> : k \in DOMAIN tasks}
    /\ UNCHANGED <<fpc, key, waker, pending, ready, owner, avail, sent, kind, numRecv>>

-----------------------------------------------------------------------------
\* The object: a message is sent, or the lock of a Phys is released; what the
\* kernel watches for is answered.  Others take the lock.
SignalObj ==
    /\ sent < MaxSignal /\ sent' = sent + 1
    /\ avail' = IF kind = "recv" THEN avail + 1 ELSE 1
    /\ pending' = {} /\ ready' = ready \o SetToSortSeq(pending, <)
    /\ UNCHANGED <<fpc, key, slot, waker, woken, tasks, owner, io, kind, numRecv>>

Occupy ==
    /\ kind = "phys" /\ avail = 1 /\ sent < MaxSignal /\ avail' = 0
    /\ UNCHANGED <<fpc, key, slot, waker, woken, tasks, pending, ready, owner, io, sent, kind, numRecv>>

DispInit ==
    /\ fpc = [f \in Fut |-> "new"] /\ key = [f \in Fut |-> 0] /\ slot = [f \in Fut |-> "none"]
    /\ waker = [f \in Fut |-> 1] /\ woken = {} /\ tasks = <<>> /\ pending = {} /\ ready = <<>>
    /\ owner = <<>> /\ io = [pc |-> "pop", key |-> 0, res |-> "none", task |-> <<>>]
    /\ kind \in FutKinds /\ avail = 0 /\ sent = 0 /\ numRecv = 1

DispNext ==
    \/ \E f \in Fut : \/ \E w \in 1..2 : PollFut(f, w)
                      \/ UpdateWaker(f) \/ BlockingRecv(f) \/ TryFut(f) \/ PushFut(f) \/ InsertTask(f) \/ DropFut(f)
    \/ PopAnswer \/ RemoveTask \/ Unpack \/ WakeFut \/ DropReceiver \/ TakeTasks
    \/ SignalObj \/ Occupy

DispSpec == DispInit /\ [][DispNext]_dispvars

-----------------------------------------------------------------------------
FutWaiting(f) == fpc[f] = "pending" /\ <<f, waker[f]>> \notin woken

\* No answer is lost on its way to a future: when io_task has nothing left to
\* hand out and every future has been told, a future still waits only because
\* its object has nothing for it, and its waker is the one io_task would call
\* (poll_send, update, poll_receive: the answer may overtake the insertion into
\* the map, and a future may be polled with another waker meanwhile).
FuturesServed ==
    numRecv > 0 /\ ready = <<>> /\ io.pc = "pop" => \A f \in Fut : FutWaiting(f) =>
        /\ key[f] \in pending /\ key[f] \in DOMAIN tasks
        /\ tasks[key[f]] = [f |-> f, w |-> waker[f]]
        /\ kind # "wait" => avail = 0
=============================================================================
