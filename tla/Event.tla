------------------------------- MODULE Event -------------------------------
(* Kernel events (sched/ipc.rs), the blockers of obj_wait and the dispatcher *)
(* (sched/imp/waiter.rs).  An event has signal bits and a map of waiters; a  *)
(* blocker puts one task to sleep on one event; the dispatcher collects the  *)
(* requests of many waits, and has an event of its own that tells when some  *)
(* are ready.  Tasks run on CPUs of their own.  CHashMap::retain, which a    *)
(* notification walks the waiters with, locks one slot at a time, so that    *)
(* registrations interleave with the walk; take waits until no walk is on.   *)
EXTENDS Integers, Sequences, FiniteSets

CONSTANTS Task,
          Calls,      \* [Task -> SUBSET ...]: the system calls a task makes
          Budget,     \* bound: [Task -> Nat], the number of them
          Waits,      \* the arguments of obj_wait
          Notes,      \* the (clear, set) pairs of event_notify
          Capacity,   \* the capacity of the dispatcher
          Want,       \* the signals that are waited for; none is zero
          None

Bit == {"R", "W"}            \* SIG_READ, SIG_WRITE
Ev == {"obj", "disp"}        \* an object's event and the dispatcher's own
Disp == <<None, 0>>          \* the dispatcher as a waiter
Call == {"wait", "push", "pop", "notify", "cancel"}
Blocker == UNION {{t} \X (1..Budget[t]) : t \in Task}
Args == [ev : Ev, want : Want, level : BOOLEAN, all : BOOLEAN, poll : BOOLEAN]

ASSUME EventAssumption ==
    /\ IsFiniteSet(Task) /\ Budget \in [Task -> Nat] /\ Capacity \in Nat
    /\ Calls \in [Task -> SUBSET Call]
    /\ Waits \subseteq Args
    /\ Notes \subseteq (SUBSET Bit) \X (SUBSET Bit)
    /\ Want \subseteq (SUBSET Bit) \ {{}}
    /\ None \notin Task /\ None \notin Args

VARIABLES
    signal,   \* [Ev -> SUBSET Bit]      EventData.signal
    waiters,  \* [Ev -> SUBSET ...]      EventData.waiters
    blk,      \* [Blocker -> ...]        the arguments of obj_wait
    status,   \* [Blocker -> ...]        Blocker.status
    asleep,   \* SUBSET Blocker          blockers whose task sleeps in Blocker.wo
    pending,  \* SUBSET Request          Dispatcher.pending, in key order
    ready,    \* Seq(Ready)              Dispatcher.ready
    popped,   \* SUBSET Nat              history: the keys disp_pop returned
    cut,      \* SUBSET Nat              history: pending when a cancel took the waiters
    nextKey,  \* Nat                     Dispatcher.next_key
    calls,    \* [Task -> Nat]           system calls made
    pc,       \* [Task -> ...]
    walk,     \* [Task -> Seq(Frame)]    the notifications a task is in, innermost first
    after,    \* [Task -> ...]           where the task goes on after them
    loc       \* [Task -> ...]           a status or a signal that was read

vars == <<signal, waiters, blk, status, asleep, pending, ready, popped, cut, nextKey,
          calls, pc, walk, after, loc>>
objVars == <<signal, waiters>>
blkVars == <<blk, status, asleep>>
dispVars == <<pending, ready, popped, cut, nextKey>>

Request == [key : Nat, want : Want, level : BOOLEAN]
Ready == [key : Nat, canceled : BOOLEAN, signal : SUBSET Bit]
Frame == [ev : Ev, step : {"cas", "start", "take", "notify", "cancel"}, clear : SUBSET Bit,
          set : SUBSET Bit, signal : SUBSET Bit, todo : SUBSET (Blocker \cup {Disp})]

NoStatus == [has |-> TRUE, signal |-> {}]

Init ==
    /\ signal = [e \in Ev |-> {}] /\ waiters = [e \in Ev |-> {}]
    /\ blk = [b \in Blocker |-> None]
    /\ status = [b \in Blocker |-> NoStatus] /\ asleep = {}
    /\ pending = {} /\ ready = <<>> /\ popped = {} /\ cut = {} /\ nextKey = 1
    /\ calls = [t \in Task |-> 0] /\ pc = [t \in Task |-> "user"]
    /\ walk = [t \in Task |-> <<>>] /\ after = [t \in Task |-> "user"]
    /\ loc = [t \in Task |-> NoStatus]

Go(t, label) == pc' = [pc EXCEPT ![t] = label]
Cur(t) == <<t, calls[t]>>

Enter(t, name) ==
    /\ pc[t] = "user" /\ name \in Calls[t] /\ calls[t] < Budget[t]
    /\ calls' = [calls EXCEPT ![t] = @ + 1]

\* WaiterData::can_signal.
CanSignal(w, sig, onWait) == ~(onWait /\ ~w.level) /\ w.want \subseteq sig

-----------------------------------------------------------------------------
\* Nobody has the blocker any more; st is what becomes of the others.
Forget(b, st) ==
    /\ blk' = [blk EXCEPT ![b] = None]
    /\ status' = [st EXCEPT ![b] = NoStatus]

\* Registering with an event.  A walk that is under way meets the new waiter or
\* not, depending on the slot it gets.
OnWalk(f, e) == f.ev = e /\ f.step = "notify"
Walking(e) == {t \in Task : \E i \in DOMAIN walk[t] : OnWalk(walk[t][i], e)}

Insert(e, w) ==
    /\ waiters' = [waiters EXCEPT ![e] = @ \cup {w}]
    /\ \E met \in SUBSET Walking(e) :
         walk' = [t \in Task |-> [i \in DOMAIN walk[t] |->
                    IF t \in met /\ OnWalk(walk[t][i], e)
                    THEN [walk[t][i] EXCEPT !.todo = @ \cup {w}] ELSE walk[t][i]]]

\* obj_wait: Blocker::new, with the signal that wait_impl loads and tries at
\* once; no other task knows the blocker yet.
ObjWait(t, args) ==
    LET b == <<t, calls[t] + 1>>  sig == signal[args.ev]  hit == CanSignal(args, sig, TRUE) IN
    /\ Enter(t, "wait")
    /\ blk' = [blk EXCEPT ![b] = args]
    /\ status' = IF hit THEN [status EXCEPT ![b] = [has |-> TRUE, signal |-> sig]] ELSE status
    /\ Go(t, IF hit THEN "bWait" ELSE "bInsert")
    /\ UNCHANGED <<objVars, dispVars, asleep, walk, after, loc>>

BlockerInsert(t) ==
    /\ pc[t] = "bInsert" /\ Insert(blk[Cur(t)].ev, Cur(t))
    /\ Go(t, "bWait")
    /\ UNCHANGED <<signal, blkVars, dispVars, calls, after, loc>>

\* Blocker::wait: under the lock of the status, return or go to sleep.
BlockerWait(t) ==
    LET b == Cur(t) IN
    /\ pc[t] = "bWait"
    /\ IF blk[b].poll \/ status[b].signal # {}
       THEN Go(t, "bStatus") /\ UNCHANGED asleep
       ELSE Go(t, "asleep") /\ asleep' = asleep \cup {b}
    /\ UNCHANGED <<objVars, dispVars, blk, status, calls, walk, after, loc>>

\* The timer fires first: ETIME, and the blocker is not detached.
BlockerTimeout(t) ==
    /\ pc[t] = "asleep" /\ asleep' = asleep \ {Cur(t)}
    /\ Go(t, "user")
    /\ UNCHANGED <<objVars, dispVars, blk, status, calls, walk, after, loc>>

\* Blocker::detach: read the status, unwait, and consume the signal unless all
\* waiters are to see it (notify(wait_for, 0) adds no bit and walks nobody).
BlockerStatus(t) ==
    /\ pc[t] = "bStatus" /\ Go(t, "bUnwait")
    /\ loc' = [loc EXCEPT ![t].has = status[Cur(t)].has]
    /\ UNCHANGED <<objVars, blkVars, dispVars, calls, walk, after>>

BlockerUnwait_IgnoresMap(t) ==
    /\ pc[t] = "bUnwait" /\ Go(t, "bReturn")
    /\ waiters' = [waiters EXCEPT ![blk[Cur(t)].ev] = @ \ {Cur(t)}]
    /\ UNCHANGED <<signal, blkVars, dispVars, calls, walk, after, loc>>

BlockerUnwait(t) ==
    LET b == Cur(t)  e == blk[b].ev IN
    /\ pc[t] = "bUnwait" /\ Go(t, "bReturn")
    /\ waiters' = [waiters EXCEPT ![e] = @ \ {b}]
    /\ loc' = [loc EXCEPT ![t].has = b \notin waiters[e] /\ loc[t].has]
    /\ UNCHANGED <<signal, blkVars, dispVars, calls, walk, after>>

BlockerReturn(t) ==
    LET b == Cur(t)  a == blk[b] IN
    /\ pc[t] = "bReturn" /\ Go(t, "user")
    /\ signal' = IF loc[t].has /\ ~a.all THEN [signal EXCEPT ![a.ev] = @ \ a.want] ELSE signal
    /\ loc' = [loc EXCEPT ![t] = NoStatus]
    /\ Forget(b, status)
    /\ UNCHANGED <<waiters, asleep, dispVars, calls, walk, after>>

-----------------------------------------------------------------------------
\* notify and cancel as frames, innermost first: the dispatcher notifies its own
\* event while it is being notified.
NoFrame == [ev |-> "obj", step |-> "cas", clear |-> {}, set |-> {}, signal |-> {}, todo |-> {}]
Notification(e, clear, set) == [NoFrame EXCEPT !.ev = e, !.clear = clear, !.set = set]
Top(t) == Head(walk[t])
SetTop(t, f) == walk' = [walk EXCEPT ![t] = <<f>> \o Tail(@)]

\* The frame is done; the task goes on where the outermost one was called.
PopFrame(t) ==
    /\ walk' = [walk EXCEPT ![t] = Tail(@)]
    /\ Go(t, IF Len(walk[t]) = 1 THEN after[t] ELSE "walk")

EventNotify(t, clear, set) ==
    /\ Enter(t, "notify")
    /\ walk' = [walk EXCEPT ![t] = <<Notification("obj", clear, set)>>]
    /\ after' = [after EXCEPT ![t] = "user"] /\ Go(t, "walk")
    /\ UNCHANGED <<objVars, blkVars, dispVars, loc>>

\* notify_impl: the exchange; the waiters are walked only when a bit was added.
NotifyCas(t) ==
    LET f == Top(t)  prev == signal[f.ev]  new == (prev \ f.clear) \cup f.set IN
    /\ pc[t] = "walk" /\ f.step = "cas"
    /\ signal' = [signal EXCEPT ![f.ev] = new]
    /\ IF new \subseteq prev THEN PopFrame(t)
       ELSE SetTop(t, [f EXCEPT !.step = "start", !.signal = new]) /\ UNCHANGED pc
    /\ UNCHANGED <<waiters, blkVars, dispVars, calls, after, loc>>

NotifyStart(t) ==
    /\ pc[t] = "walk" /\ Top(t).step = "start"
    /\ SetTop(t, [Top(t) EXCEPT !.step = "notify", !.todo = waiters[Top(t).ev]])
    /\ UNCHANGED <<objVars, blkVars, dispVars, calls, pc, after, loc>>

\* event_cancel: the signal is loaded, then the whole map is taken.
EventCancel(t) ==
    /\ Enter(t, "cancel")
    /\ walk' = [walk EXCEPT ![t] = <<[NoFrame EXCEPT !.step = "take", !.signal = signal["obj"]]>>]
    /\ after' = [after EXCEPT ![t] = "user"] /\ Go(t, "walk")
    /\ UNCHANGED <<objVars, blkVars, dispVars, loc>>

CancelTake(t) ==
    LET e == Top(t).ev IN
    /\ pc[t] = "walk" /\ Top(t).step = "take" /\ Walking(e) = {}
    /\ waiters' = [waiters EXCEPT ![e] = {}]
    /\ SetTop(t, [Top(t) EXCEPT !.step = "cancel", !.todo = waiters[e]])
    /\ cut' = IF Disp \in waiters[e] THEN cut \cup {req.key : req \in pending} ELSE cut
    /\ UNCHANGED <<signal, blkVars, pending, ready, popped, nextKey, calls, pc, after, loc>>

WalkEnd(t) ==
    /\ pc[t] = "walk" /\ Top(t).step \in {"notify", "cancel"} /\ Top(t).todo = {}
    /\ PopFrame(t)
    /\ UNCHANGED <<objVars, blkVars, dispVars, calls, after, loc>>

\* WaitObject::notify of the blocker: its task goes on, if it sleeps.
WakeSleeper_Not(b) == UNCHANGED <<asleep, pc>>
WakeSleeper(b) ==
    /\ asleep' = asleep \ {b}
    /\ pc' = IF b \in asleep THEN [pc EXCEPT ![b[1]] = "bStatus"] ELSE pc

\* Blocker::on_notify and on_cancel: the status, then the sleeper.
VisitBlocker(t, b) ==
    LET f == Top(t)
        hit == f.step = "cancel" \/ (b \in waiters[f.ev] /\ CanSignal(blk[b], f.signal, FALSE))
    IN
    /\ pc[t] = "walk" /\ f.step \in {"notify", "cancel"} /\ b \in f.todo
    /\ SetTop(t, [f EXCEPT !.todo = @ \ {b}])
    /\ IF hit
       THEN /\ IF pc[b[1]] = "user" \/ Cur(b[1]) # b THEN Forget(b, status)
               ELSE /\ status' = [status EXCEPT ![b] = [has |-> f.step = "notify", signal |-> f.signal]]
                    /\ UNCHANGED blk
            /\ waiters' = [waiters EXCEPT ![f.ev] = @ \ {b}]
            /\ WakeSleeper(b)
       ELSE UNCHANGED <<blkVars, waiters, pc>>
    /\ UNCHANGED <<signal, dispVars, calls, after, loc>>

-----------------------------------------------------------------------------
\* The requests that drain_filter takes out of pending, in order, to ready.
InKeyOrder(S) ==
    {s \in [1..Cardinality(S) -> S] : \A i, j \in DOMAIN s : i < j => s[i].key < s[j].key}

ToReady(s, sig, canceled) ==
    [i \in DOMAIN s |-> [key |-> s[i].key, canceled |-> canceled, signal |-> sig]]

Drain_Copy(hit, sig, canceled) ==
    /\ pending' = pending
    /\ \E s \in InKeyOrder(hit) : ready' = ready \o ToReady(s, sig, canceled)

Drain_DropCanceled(hit, sig, canceled) ==
    /\ pending' = pending \ hit
    /\ \E s \in InKeyOrder(hit) :
         ready' = IF canceled THEN ready ELSE ready \o ToReady(s, sig, canceled)

Drain(hit, sig, canceled) ==
    /\ pending' = pending \ hit
    /\ \E s \in InKeyOrder(hit) : ready' = ready \o ToReady(s, sig, canceled)

Matching(sig, onWait) == {req \in pending : CanSignal(req, sig, onWait)}

\* What try_on_notify returns: nothing is pending any more.
Served_Some(hit) == hit # {}
Served(hit) == pending \ hit = {}

ReadyUp == Notification("disp", {}, {"R"})

\* Dispatcher::try_on_notify from a walk: the dispatcher leaves the waiters when
\* nothing is pending any more.  The length of ready is read just before the lock
\* of pending is taken; it is full only when nothing is pending.
VisitDispatcher(t) ==
    LET f == Top(t)  hit == Matching(f.signal, FALSE)  seen == [f EXCEPT !.todo = @ \ {Disp}] IN
    /\ pc[t] = "walk" /\ f.step = "notify" /\ Disp \in f.todo
    /\ IF Disp \notin waiters[f.ev] \/ Len(ready) >= Capacity
       THEN SetTop(t, seen) /\ UNCHANGED <<pending, ready, waiters>>
       ELSE /\ Drain(hit, f.signal, FALSE)
            /\ waiters' = IF Served(hit) THEN [waiters EXCEPT ![f.ev] = @ \ {Disp}] ELSE waiters
            /\ walk' = [walk EXCEPT ![t] = (IF hit = {} THEN <<>> ELSE <<ReadyUp>>)
                                             \o <<seen>> \o Tail(@)]
    /\ UNCHANGED <<signal, blkVars, popped, cut, nextKey, calls, pc, after, loc>>

\* Dispatcher::on_cancel: only the requests whose signal is there are taken.
CancelDispatcher(t) ==
    LET f == Top(t)  hit == Matching(f.signal, FALSE)  seen == [f EXCEPT !.todo = @ \ {Disp}] IN
    /\ pc[t] = "walk" /\ f.step = "cancel" /\ Disp \in f.todo
    /\ Drain(hit, f.signal, TRUE)
    /\ walk' = [walk EXCEPT ![t] = (IF hit = {} THEN <<>> ELSE <<ReadyUp>>) \o <<seen>> \o Tail(@)]
    /\ UNCHANGED <<objVars, blkVars, popped, cut, nextKey, calls, pc, after, loc>>

\* disp_push: the key is used up even when there is no room.
Full_OffByOne == Cardinality(pending) > Capacity - Len(ready)
Full == Cardinality(pending) >= Capacity - Len(ready)

DispPush(t, want, level) ==
    /\ Enter(t, "push")
    /\ nextKey' = nextKey + 1
    /\ IF Full THEN Go(t, "user") /\ UNCHANGED pending
       ELSE /\ Go(t, "pLoad")
            /\ pending' = pending \cup {[key |-> nextKey, want |-> want, level |-> level]}
    /\ UNCHANGED <<objVars, blkVars, ready, popped, cut, walk, after, loc>>

\* Event::wait of the dispatcher: load, try, register.
PushLoad(t) ==
    /\ pc[t] = "pLoad" /\ Go(t, "pTry")
    /\ loc' = [loc EXCEPT ![t].signal = signal["obj"]]
    /\ UNCHANGED <<objVars, blkVars, dispVars, calls, walk, after>>

PushTry(t) ==
    LET sig == loc[t].signal  hit == Matching(sig, TRUE) IN
    /\ pc[t] = "pTry"
    /\ IF Len(ready) >= Capacity
       THEN Go(t, "pInsert") /\ UNCHANGED <<pending, ready, walk, after>>
       ELSE LET next == IF Served(hit) THEN "user" ELSE "pInsert" IN
            /\ Drain(hit, sig, FALSE)
            /\ Go(t, IF hit = {} THEN next ELSE "walk")
            /\ walk' = IF hit = {} THEN walk ELSE [walk EXCEPT ![t] = <<ReadyUp>>]
            /\ after' = [after EXCEPT ![t] = next]
    /\ loc' = [loc EXCEPT ![t] = NoStatus]
    /\ UNCHANGED <<objVars, blkVars, popped, cut, nextKey, calls>>

PushInsert(t) ==
    /\ pc[t] = "pInsert" /\ Insert("obj", Disp)
    /\ Go(t, "user")
    /\ UNCHANGED <<signal, blkVars, dispVars, calls, after, loc>>

\* disp_pop: the oldest ready request, and room for another one.
DispPop(t) ==
    /\ Enter(t, "pop")
    /\ IF ready = <<>> THEN Go(t, "user") /\ UNCHANGED <<ready, popped, walk, after>>
       ELSE /\ ready' = Tail(ready) /\ popped' = popped \cup {Head(ready).key}
            /\ walk' = [walk EXCEPT ![t] = <<Notification("disp", {}, {"W"})>>]
            /\ after' = [after EXCEPT ![t] = "user"] /\ Go(t, "walk")
    /\ UNCHANGED <<objVars, blkVars, pending, cut, nextKey, loc>>

-----------------------------------------------------------------------------
Kernel(t) ==
    \/ BlockerInsert(t) \/ BlockerWait(t) \/ BlockerStatus(t) \/ BlockerUnwait(t) \/ BlockerReturn(t)
    \/ NotifyCas(t) \/ NotifyStart(t) \/ CancelTake(t) \/ WalkEnd(t)
    \/ \E b \in Blocker : VisitBlocker(t, b)
    \/ VisitDispatcher(t) \/ CancelDispatcher(t)
    \/ PushLoad(t) \/ PushTry(t) \/ PushInsert(t)

UserCall(t) ==
    \/ \E args \in Waits : ObjWait(t, args)
    \/ \E n \in Notes : EventNotify(t, n[1], n[2])
    \/ EventCancel(t)
    \/ \E want \in Want, level \in BOOLEAN : DispPush(t, want, level)
    \/ DispPop(t)

Next == \E t \in Task : Kernel(t) \/ UserCall(t) \/ BlockerTimeout(t)

Spec == Init /\ [][Next]_vars

-----------------------------------------------------------------------------
PendingKeys == {req.key : req \in pending}
ReadyKeys == {ready[i].key : i \in DOMAIN ready}

\* The requests of a dispatcher, pending and ready, never exceed its capacity,
\* whatever pushes, pops and notifications interleave: capacity - ready.len() in
\* Dispatcher::push does not underflow.
DispatcherBounded == Cardinality(pending) + Len(ready) <= Capacity

\* A request is answered once: its key is pending, ready or popped, and only one
\* of them.
AnsweredOnce ==
    /\ \A i, j \in DOMAIN ready : ready[i].key = ready[j].key => i = j
    /\ \A x, y \in pending : x.key = y.key => x = y
    /\ PendingKeys \cap ReadyKeys = {}
    /\ popped \cap (PendingKeys \cup ReadyKeys) = {}

\* A request that push accepted is never dropped before disp_pop returns it.
NeverForgotten ==
    [][PendingKeys \cup ReadyKeys \cup popped
         \subseteq PendingKeys' \cup ReadyKeys' \cup popped']_vars

\* While requests are pending, the dispatcher is registered with the object's
\* event, or a push is about to register it, or a cancel cut it off.
PendingCovered ==
    pending # {} =>
        \/ Disp \in waiters["obj"]
        \/ \E t \in Task : pc[t] \in {"pLoad", "pTry", "pInsert"}
                             \/ (pc[t] = "walk" /\ after[t] = "pInsert")
        \/ PendingKeys \subseteq cut

CancelHas(b) ==
    \E t \in Task : \E i \in DOMAIN walk[t] :
        walk[t][i].step = "cancel" /\ b \in walk[t][i].todo

\* obj_wait succeeds only if the signal was there, or if a cancel took the
\* blocker from the waiters at the same time.
OkWasSignalled ==
    \A t \in Task : pc[t] = "bReturn" /\ loc[t].has =>
        LET b == Cur(t) IN
        \/ blk[b].want \subseteq status[b].signal
        \/ ~status[b].has
        \/ CancelHas(b)

\* A sleeping blocker can still be reached: it is registered with its event, or
\* a cancel that took it has yet to visit it.  The exception is a cancel without
\* signals that came before the task went to sleep.
SleeperRegistered ==
    \A b \in asleep :
        b \in waiters[blk[b].ev] \/ CancelHas(b) \/ ~status[b].has

\* Whoever waits can be reached by the event it waits for: the requests of the
\* dispatcher (PendingCovered) and the sleeping blockers (SleeperRegistered),
\* however waits, pushes, notifications and cancels overlap in the waiters' map.
WaitersReachable == PendingCovered /\ SleeperRegistered

\* A level-triggered wait does not sleep through a signal that is set: once no
\* call is under way, the bits a sleeper waits for are not all there.
LevelSleeperUnsignalled ==
    (\A t \in Task : pc[t] \in {"user", "asleep"}) =>
        \A b \in asleep : blk[b].level => ~(blk[b].want \subseteq signal[blk[b].ev])
=============================================================================
