----------------------------- MODULE AsyncLocks -----------------------------
(* Mutex and RwLock of h2o_async (sync/mutex.rs, sync/rw_lock.rs).  A future *)
(* may be dropped wherever it is suspended, by a select or a cancelled task. *)
(* The channels (sync/channel.rs) have a queue of messages, an event per     *)
(* kind of waiter, and the number of handles on each side.  The queue        *)
(* (ArrayQueue or SegQueue of crossbeam) is external, each operation atomic. *)
EXTENDS AsyncEvent

VARIABLES mutex,   \* Mutex.state: the lock bit, plus 2 per starved locker
          rw       \* RwLock.state: [r: readers, w: the writer bit]

avars == <<mutex, rw>>
Locked == mutex % 2 = 1
Stay == UNCHANGED <<evs, awake, on, calls, tcont, ret, jobs>>
TIdle == UNCHANGED <<awake, calls, ret, jobs>>

-----------------------------------------------------------------------------
\* Mutex::lock: try_lock first.
MLock(t) ==
    /\ TAt(t, "m_lock") /\ Stay /\ UNCHANGED rw
    /\ IF mutex = 0 THEN mutex' = 1 /\ TGoto(t, ret[t]) ELSE UNCHANGED mutex /\ TGoto(t, "m_listen")

\* acquire_slow, while nobody starves: listen, try, wait, try.
MListen(t) ==
    /\ TAt(t, "m_listen") /\ Listen(t, "lock_ops") /\ TGoto(t, "m_cas")
    /\ TIdle /\ UNCHANGED <<tcont, avars>>

MCas(t) ==
    /\ TAt(t, "m_cas") /\ UNCHANGED <<evs, on, rw>> /\ TIdle
    /\ CASE mutex = 0 -> mutex' = 1 /\ TCall(t, "drop_listener", ret[t])
         [] mutex = 1 -> TCall(t, "await", "m_recas") /\ UNCHANGED mutex
         [] OTHER     -> TCall(t, "drop_listener", "m_starve") /\ UNCHANGED mutex

\* After the wait: another round, or starving after 500 us.
MRecas(t) ==
    /\ TAt(t, "m_recas") /\ UNCHANGED <<evs, awake, on, ret, jobs, rw>>
    /\ CASE mutex = 0 -> mutex' = 1 /\ TGoto(t, ret[t]) /\ UNCHANGED <<calls, tcont>>
         [] mutex = 1 -> /\ \E l \in {"m_listen", "m_starve"} : TGoto(t, l)
                         /\ UNCHANGED <<calls, tcont, mutex>>
         [] OTHER     -> NotifyAll(t, <<One("lock_ops")>>, "m_starve") /\ UNCHANGED mutex

\* Starving: counted in the state, which keeps the others from barging in.
MStarve(t) ==
    /\ TAt(t, "m_starve") /\ mutex' = mutex + 2 /\ TGoto(t, "m_slisten") /\ Stay /\ UNCHANGED rw

MStarveListen(t) ==
    /\ TAt(t, "m_slisten") /\ Listen(t, "lock_ops") /\ TGoto(t, "m_scas")
    /\ TIdle /\ UNCHANGED <<tcont, avars>>

MStarveCas(t) ==
    /\ TAt(t, "m_scas") /\ UNCHANGED <<evs, awake, on, ret, jobs, rw>>
    /\ CASE mutex = 2 -> mutex' = 3 /\ TCall(t, "drop_listener", "m_unstarve") /\ UNCHANGED calls
         [] Locked    -> TCall(t, "await", "m_or") /\ UNCHANGED <<calls, mutex>>
         [] OTHER     -> NotifyAll(t, <<One("lock_ops")>>, "m_swait") /\ UNCHANGED mutex

MStarveWait(t) ==
    /\ TAt(t, "m_swait") /\ TCall(t, "await", "m_or") /\ UNCHANGED <<evs, on, avars>> /\ TIdle

MOr(t) ==
    /\ TAt(t, "m_or") /\ Stay /\ UNCHANGED rw
    /\ IF Locked THEN UNCHANGED mutex /\ TGoto(t, "m_slisten")
       ELSE mutex' = mutex + 1 /\ TGoto(t, "m_unstarve")

MUnstarve(t) ==
    /\ TAt(t, "m_unstarve") /\ mutex' = mutex - 2 /\ TGoto(t, ret[t]) /\ Stay /\ UNCHANGED rw

\* Drop for MutexGuard.
MUnlock(t) ==
    /\ TAt(t, "m_unlock") /\ mutex' = mutex - 1 /\ NotifyAll(t, <<One("lock_ops")>>, ret[t])
    /\ UNCHANGED <<evs, awake, on, ret, jobs, rw>>

\* A lock future dropped while it waits.
MCancel(t) ==
    /\ TAt(t, "suspended") /\ tcont[t] \in {"m_recas", "m_or"} /\ jobs[t] # <<>>
    /\ Head(jobs[t]) = "or_cancel" /\ DropListener(t, "ready")
    /\ mutex' = IF tcont[t] = "m_or" THEN mutex - 2 ELSE mutex
    /\ jobs' = [jobs EXCEPT ![t] = Tail(@)] /\ UNCHANGED <<calls, tcont, ret, rw>>

\* A critical section of the program, by lock or by try_lock.
MCritical(t) ==
    \/ /\ TReady(t, "lock") /\ TGoto(t, "m_lock") /\ ret' = [ret EXCEPT ![t] = "m_critical"]
       /\ UNCHANGED <<evs, awake, on, calls, tcont, avars>>
    \/ /\ TReady(t, "try_lock") /\ UNCHANGED <<evs, awake, on, calls, tcont, ret, rw>>
       /\ IF mutex = 0 THEN mutex' = 1 /\ TGoto(t, "m_critical") ELSE TDone(t) /\ UNCHANGED mutex
    \/ /\ TAt(t, "m_critical") /\ TGoto(t, "m_unlock") /\ ret' = [ret EXCEPT ![t] = "ready"]
       /\ UNCHANGED <<evs, awake, on, calls, tcont, jobs, avars>>

-----------------------------------------------------------------------------
\* RwLock::read.
RRead(t) ==
    /\ TAt(t, "r_read") /\ Stay /\ UNCHANGED mutex
    /\ IF rw.w THEN UNCHANGED rw /\ TGoto(t, "r_listen")
       ELSE rw' = [rw EXCEPT !.r = @ + 1] /\ TGoto(t, "reading")

RListen(t) ==
    /\ TAt(t, "r_listen") /\ Listen(t, "no_writer") /\ TGoto(t, "r_check")
    /\ TIdle /\ UNCHANGED <<tcont, avars>>

RCheck(t) ==
    /\ TAt(t, "r_check") /\ UNCHANGED <<evs, on, avars>> /\ TIdle
    /\ IF rw.w THEN TCall(t, "await", "r_notify") ELSE TCall(t, "drop_listener", "r_read")

\* A woken reader lets the next one in.
RNotify(t) ==
    /\ TAt(t, "r_notify") /\ NotifyAll(t, <<One("no_writer")>>, "r_read")
    /\ UNCHANGED <<evs, awake, on, ret, jobs, avars>>

\* Drop for RwLockReadGuard.
RUnlock(t, back) ==
    /\ rw' = [rw EXCEPT !.r = @ - 1]
    /\ NotifyAll(t, IF rw.r = 1 THEN <<One("no_readers")>> ELSE <<>>, back)
    /\ UNCHANGED <<evs, awake, on, mutex>>

\* RwLock::write: the mutex keeps the other writers out, the bit the readers.
WBit(t) ==
    /\ TAt(t, "w_bit") /\ rw' = [rw EXCEPT !.w = TRUE] /\ TGoto(t, "w_wait") /\ Stay /\ UNCHANGED mutex

WWait(t) ==
    /\ TAt(t, "w_wait") /\ Stay /\ UNCHANGED avars
    /\ TGoto(t, IF rw.r = 0 THEN "writing" ELSE "w_listen")

WListen(t) ==
    /\ TAt(t, "w_listen") /\ Listen(t, "no_readers") /\ TGoto(t, "w_check")
    /\ TIdle /\ UNCHANGED <<tcont, avars>>

WCheck(t) ==
    /\ TAt(t, "w_check") /\ UNCHANGED <<evs, on, avars>> /\ TIdle
    /\ TCall(t, IF rw.r # 0 THEN "await" ELSE "drop_listener", "w_wait")

\* Drop for RwLockWriteGuardInner, then of the mutex guard.
WUnlock(t) ==
    /\ TAt(t, "w_unlock") /\ rw' = [rw EXCEPT !.w = FALSE]
    /\ NotifyAll(t, <<One("no_writer")>>, "m_unlock") /\ ret' = [ret EXCEPT ![t] = "ready"]
    /\ UNCHANGED <<evs, awake, on, jobs, mutex>>

\* A write future dropped while it waits for the readers gives up the bit.
WCancel(t) ==
    /\ TAt(t, "suspended") /\ tcont[t] = "w_wait" /\ jobs[t] # <<>>
    /\ Head(jobs[t]) = "or_cancel" /\ DropListener(t, "w_unlock")
    /\ jobs' = [jobs EXCEPT ![t] = Tail(@)] /\ UNCHANGED <<calls, tcont, ret, avars>>

\* upgradable_read: a reader that holds the mutex as well.
UInc(t) ==
    /\ TAt(t, "u_inc") /\ rw' = [rw EXCEPT !.r = @ + 1] /\ TGoto(t, "upgradable")
    /\ Stay /\ UNCHANGED mutex

\* What a holder does with its guard: drop, downgrade, upgrade, try_upgrade.
Reading(t) ==
    TAt(t, "reading") /\ RUnlock(t, "ready") /\ UNCHANGED <<ret, jobs>>

Upgradable(t) ==
    /\ TAt(t, "upgradable") /\ UNCHANGED jobs
    /\ \/ RUnlock(t, "m_unlock") /\ ret' = [ret EXCEPT ![t] = "ready"]
       \/ /\ TGoto(t, "m_unlock") /\ ret' = [ret EXCEPT ![t] = "reading"]
          /\ UNCHANGED <<evs, awake, on, calls, tcont, avars>>
       \/ /\ rw' = [r |-> rw.r - 1, w |-> TRUE] /\ TGoto(t, "w_wait")
          /\ UNCHANGED <<evs, awake, on, calls, tcont, ret, mutex>>
       \/ /\ rw = [r |-> 1, w |-> FALSE] /\ rw' = [r |-> 0, w |-> TRUE] /\ TGoto(t, "writing")
          /\ UNCHANGED <<evs, awake, on, calls, tcont, ret, mutex>>

Writing(t) ==
    /\ TAt(t, "writing") /\ UNCHANGED <<evs, awake, on, jobs, mutex>>
    /\ \/ TGoto(t, "w_unlock") /\ UNCHANGED <<calls, tcont, ret, rw>>
       \/ /\ rw' = [r |-> rw.r + 1, w |-> FALSE] /\ ret' = [ret EXCEPT ![t] = "reading"]
          /\ NotifyAll(t, <<One("no_writer")>>, "m_unlock")

RwOps(t) ==
    \/ TStart(t, "read", "r_read") /\ UNCHANGED avars
    \/ /\ TReady(t, "try_read") /\ UNCHANGED <<evs, awake, on, calls, tcont, ret, mutex>>
       /\ IF rw.w THEN TDone(t) /\ UNCHANGED rw
          ELSE rw' = [rw EXCEPT !.r = @ + 1] /\ TGoto(t, "reading")
    \/ \E op \in {"write", "upgradable_read"} :
          /\ TReady(t, op) /\ TGoto(t, "m_lock")
          /\ ret' = [ret EXCEPT ![t] = IF op = "write" THEN "w_bit" ELSE "u_inc"]
          /\ UNCHANGED <<evs, awake, on, calls, tcont, avars>>
    \/ /\ TReady(t, "try_write") /\ UNCHANGED <<evs, awake, on, calls, tcont, rw>>
       /\ IF mutex = 0 THEN /\ mutex' = 1 /\ TGoto(t, "w_try") /\ ret' = [ret EXCEPT ![t] = "ready"]
          ELSE TDone(t) /\ UNCHANGED <<mutex, ret>>

(* A bug: try_write does not look for readers.                               *)
WTry_Readers(t) ==
    /\ TAt(t, "w_try") /\ Stay /\ UNCHANGED mutex
    /\ rw' = [rw EXCEPT !.w = TRUE] /\ TGoto(t, "writing")

\* try_write: the bit only if there is no reader, or the mutex is given back.
WTry(t) ==
    /\ TAt(t, "w_try") /\ Stay /\ UNCHANGED mutex
    /\ IF rw = [r |-> 0, w |-> FALSE] THEN rw' = [r |-> 0, w |-> TRUE] /\ TGoto(t, "writing")
       ELSE UNCHANGED rw /\ TGoto(t, "m_unlock")

ALocksInit == mutex = 0 /\ rw = [r |-> 0, w |-> FALSE]

ALocksStep(t) ==
    \/ MLock(t) \/ MListen(t) \/ MCas(t) \/ MRecas(t) \/ MStarve(t) \/ MStarveListen(t)
    \/ MStarveCas(t) \/ MStarveWait(t) \/ MOr(t) \/ MUnstarve(t) \/ MUnlock(t)
    \/ MCancel(t) \/ MCritical(t)
    \/ RRead(t) \/ RListen(t) \/ RCheck(t) \/ RNotify(t) \/ WBit(t) \/ WWait(t) \/ WListen(t)
    \/ WCheck(t) \/ WUnlock(t) \/ WCancel(t) \/ UInc(t) \/ Reading(t) \/ Upgradable(t)
    \/ Writing(t) \/ RwOps(t) \/ WTry(t)

-----------------------------------------------------------------------------
Excluding(t) == tpc[t] \in {"m_critical", "writing"}

\* One holder at a time, and a writer without readers, however guards are
\* upgraded and downgraded and whichever futures are dropped (Mutex, RwLock).
AsyncExclusive ==
    \A t, u \in Task : t # u /\ Excluding(t)
        => ~Excluding(u) /\ (TAt(t, "writing") => tpc[u] \notin {"reading", "upgradable"})

-----------------------------------------------------------------------------
\* Channels.
CONSTANT Capacity

VARIABLES msgs,      \* Seq(Task)  messages, named by their sender
          closed,    \* BOOLEAN
          senders,   \* Nat        sender_count
          receivers, \* Nat        receiver_count
          got        \* [Task -> Seq(Task or "closed")]  what it received

cvars == <<msgs, closed, senders, receivers, got>>
Same == UNCHANGED <<evs, awake, on, ret, jobs>>

-----------------------------------------------------------------------------
\* Send::run_with_strategy: try_send, listen, try_send again, wait.
STry(t) ==
    /\ TAt(t, "s_try") /\ Same /\ UNCHANGED <<cvars, calls>>
    /\ IF closed THEN TCall(t, "drop_listener", "ready") ELSE TGoto(t, "s_push") /\ UNCHANGED tcont

SPush(t) ==
    /\ TAt(t, "s_push") /\ Same /\ UNCHANGED <<closed, senders, receivers, got>>
    /\ IF Len(msgs) < Capacity
       THEN /\ msgs' = Append(msgs, t)
            /\ NotifyAll(t, <<OneMore("recv_ops"), Every("stream_ops")>>, "end_listen")
       ELSE /\ UNCHANGED <<msgs, calls>>
            /\ IF on[t] = NoTask THEN TGoto(t, "s_listen") /\ UNCHANGED tcont
               ELSE TCall(t, "await", "s_try")

SListen(t) ==
    /\ TAt(t, "s_listen") /\ Listen(t, "send_ops") /\ TGoto(t, "s_try")
    /\ UNCHANGED <<awake, calls, tcont, ret, jobs, cvars>>

\* Recv::run_with_strategy, and Stream::poll_next, which waits on stream_ops;
\* ret holds the event waited on.
VPop(t) ==
    /\ TAt(t, "v_pop") /\ Same /\ UNCHANGED <<closed, senders, receivers>>
    /\ IF msgs # <<>>
       THEN /\ msgs' = Tail(msgs) /\ got' = [got EXCEPT ![t] = Append(@, Head(msgs))]
            /\ NotifyAll(t, <<OneMore("send_ops")>>, "end_listen")
       ELSE TGoto(t, "v_closed") /\ UNCHANGED <<msgs, got, calls, tcont>>

VClosed(t) ==
    /\ TAt(t, "v_closed") /\ Same /\ UNCHANGED <<msgs, closed, senders, receivers, calls>>
    /\ IF closed
       THEN got' = [got EXCEPT ![t] = Append(@, "closed")] /\ TCall(t, "drop_listener", "ready")
       ELSE /\ UNCHANGED got
            /\ IF on[t] = NoTask THEN TGoto(t, "v_listen") /\ UNCHANGED tcont
               ELSE TCall(t, "await", "v_pop")

VListen(t) ==
    /\ TAt(t, "v_listen") /\ Listen(t, ret[t]) /\ TGoto(t, "v_pop")
    /\ UNCHANGED <<awake, calls, tcont, ret, jobs, cvars>>

\* The listener of a finished or dropped future goes.
EndListen(t) ==
    /\ TAt(t, "end_listen") /\ TCall(t, "drop_listener", "ready")
    /\ Same /\ UNCHANGED <<cvars, calls>>

CCancel(t) ==
    /\ TAt(t, "suspended") /\ tcont[t] \in {"s_try", "v_pop"} /\ jobs[t] # <<>>
    /\ Head(jobs[t]) = "or_cancel" /\ DropListener(t, "ready")
    /\ jobs' = [jobs EXCEPT ![t] = Tail(@)] /\ UNCHANGED <<calls, tcont, ret, cvars>>

-----------------------------------------------------------------------------
\* Channel::close, by a handle or by the last drop of a side.
CClose(t) ==
    /\ TAt(t, "c_close") /\ Same /\ closed' = TRUE
    /\ NotifyAll(t, IF closed THEN <<>> ELSE <<Every("send_ops"), Every("recv_ops"), Every("stream_ops")>>,
                 "ready")
    /\ UNCHANGED <<msgs, senders, receivers, got>>

\* Clone and Drop for Sender and Receiver.
Counted(t, n, m) ==
    /\ senders' = n /\ receivers' = m
    /\ TGoto(t, IF (n = 0 /\ senders = 1) \/ (m = 0 /\ receivers = 1) THEN "c_close" ELSE "ready")

CHandles(t) ==
    /\ \/ TReady(t, "drop_sender") /\ Counted(t, senders - 1, receivers)
       \/ TReady(t, "drop_receiver") /\ Counted(t, senders, receivers - 1)
       \/ TReady(t, "clone_sender") /\ Counted(t, senders + 1, receivers)
       \/ TReady(t, "clone_receiver") /\ Counted(t, senders, receivers + 1)
    /\ UNCHANGED <<evs, awake, on, calls, tcont, ret, msgs, closed, got>>

ChannelOps(t) ==
    \/ TStart(t, "send", "s_try") /\ UNCHANGED cvars
    \/ TStart(t, "close", "c_close") /\ UNCHANGED cvars
    \/ \E op \in {"recv", "next"} :
          /\ TReady(t, op) /\ TGoto(t, "v_pop")
          /\ ret' = [ret EXCEPT ![t] = IF op = "recv" THEN "recv_ops" ELSE "stream_ops"]
          /\ UNCHANGED <<evs, awake, on, calls, tcont, cvars>>

ChannelInit(n, m) ==
    /\ msgs = <<>> /\ closed = FALSE /\ senders = n /\ receivers = m
    /\ got = [t \in Task |-> <<>>]

ChannelStep(t) ==
    \/ STry(t) \/ SPush(t) \/ SListen(t) \/ VPop(t) \/ VClosed(t) \/ VListen(t) \/ EndListen(t)
    \/ CCancel(t) \/ CClose(t) \/ CHandles(t) \/ ChannelOps(t)
=============================================================================
