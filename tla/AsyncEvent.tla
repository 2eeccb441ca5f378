----------------------------- MODULE AsyncEvent -----------------------------
(* Tasks of the async runtime and the Event its locks wait on                *)
(* (h2o_async/src/sync/event.rs).  Tasks run on several worker threads, so   *)
(* their steps interleave at every atomic access; what an Event does under   *)
(* its list lock is one step.  A task that awaits is suspended until its     *)
(* waker has been called, and is then polled again (exe.rs, async_task).     *)
(* A task has at most one listener, so the entries are named by tasks.       *)
EXTENDS Integers, Sequences, FiniteSets, SequencesExt

CONSTANTS Task, Ev, NoTask, Jobs

VARIABLES
    list,     \* [Ev -> Seq([t, st])]  List: the entries, oldest first
    notified, \* [Ev -> Nat]           Inner.notified, read without the lock
    awake,    \* SUBSET Task           wakers called and not yet acted on
    on,       \* [Task -> Ev or NoTask]  the event its listener is registered with
    calls,    \* [Task -> Seq(...)]    notifications it has still to make
    tpc, tcont, \* [Task -> STRING]
    ret,      \* [Task -> STRING]      where an async call returns to
    jobs      \* [Task -> Seq(STRING)] operations still to be called

evs == <<list, notified>>
tvars == <<list, notified, awake, on, calls, tpc, tcont, ret, jobs>>

All == 99    \* usize::MAX

TAt(t, l) == tpc[t] = l
TGoto(t, l) == tpc' = [tpc EXCEPT ![t] = l]
TCall(t, l, back) == TGoto(t, l) /\ tcont' = [tcont EXCEPT ![t] = back]

-----------------------------------------------------------------------------
\* List.  Entries are notified from the oldest on, so those notified come first
\* and List.start is the first that is not.
Notified(x) == x.st \in {"notified", "additional"}
NrNotified(l) == Len(SelectSeq(l, Notified))
Entry(l, t) == CHOOSE i \in 1..Len(l) : l[i].t = t

NotifyAdditional(l, n, st) ==
    LET k == NrNotified(l)
    IN  [i \in 1..Len(l) |-> IF i > k /\ i <= k + n THEN [l[i] EXCEPT !.st = st] ELSE l[i]]
ListNotify(l, n) ==
    IF n <= NrNotified(l) THEN l ELSE NotifyAdditional(l, n - NrNotified(l), "notified")

\* The tasks whose wakers a change of a list calls.
Wakes(l, m) == {t \in Task : /\ \E i \in 1..Len(l) : l[i] = [t |-> t, st |-> "polling"]
                             /\ \E i \in 1..Len(m) : m[i].t = t /\ Notified(m[i])}

\* ListGuard::drop, at the end of what is done under the lock, publishes
\* the number notified.
Publish(e, m) ==
    /\ list' = [list EXCEPT ![e] = m]
    /\ notified' = [notified EXCEPT ![e] = IF NrNotified(m) < Len(m) THEN NrNotified(m) ELSE All]

-----------------------------------------------------------------------------
\* Event::listen.
Listen(t, e) ==
    /\ Publish(e, Append(list[e], [t |-> t, st |-> "created"]))
    /\ on' = [on EXCEPT ![t] = e]

(* A bug: a listener that was notified keeps the notification to itself.     *)
DropListener_Keep(t, back) ==
    LET e == on[t]
    IN  IF e = NoTask THEN TGoto(t, back) /\ UNCHANGED <<evs, awake, on>>
        ELSE /\ Publish(e, RemoveAt(list[e], Entry(list[e], t))) /\ UNCHANGED awake
             /\ on' = [on EXCEPT ![t] = NoTask] /\ TGoto(t, back)

\* Drop for EventListener: a notification it got is passed on.
DropListener(t, back) ==
    LET e == on[t]
        i == Entry(list[e], t)
        l == RemoveAt(list[e], i)
        m == CASE list[e][i].st = "notified"   -> ListNotify(l, 1)
               [] list[e][i].st = "additional" -> NotifyAdditional(l, 1, "additional")
               [] OTHER -> l
    IN  IF e = NoTask THEN TGoto(t, back) /\ UNCHANGED <<evs, awake, on>>
        ELSE /\ Publish(e, m) /\ awake' = awake \union Wakes(l, m)
             /\ on' = [on EXCEPT ![t] = NoTask] /\ TGoto(t, back)

DropStep(t) ==
    TAt(t, "drop_listener") /\ DropListener(t, tcont[t]) /\ UNCHANGED <<calls, tcont, ret, jobs>>

\* Event::notify and notify_additional: the published number tells, without the
\* lock, whether there is anything to do.
NotifyAll(t, s, back) == TCall(t, "notify", back) /\ calls' = [calls EXCEPT ![t] = s]
One(e) == [e |-> e, n |-> 1, add |-> FALSE]
OneMore(e) == [e |-> e, n |-> 1, add |-> TRUE]
Every(e) == [e |-> e, n |-> All, add |-> FALSE]

NotifyCheck(t) ==
    /\ TAt(t, "notify")
    /\ IF calls[t] = <<>> THEN TGoto(t, tcont[t]) /\ UNCHANGED calls
       ELSE LET c == Head(calls[t])
            IN  IF notified[c.e] < IF c.add THEN All ELSE c.n
                THEN TGoto(t, "notify_locked") /\ UNCHANGED calls
                ELSE calls' = [calls EXCEPT ![t] = Tail(@)] /\ UNCHANGED tpc
    /\ UNCHANGED <<evs, awake, on, tcont, ret, jobs>>

NotifyLocked(t) ==
    LET c == Head(calls[t])
        m == IF c.add THEN NotifyAdditional(list[c.e], c.n, "additional")
             ELSE ListNotify(list[c.e], c.n)
    IN  /\ TAt(t, "notify_locked") /\ Publish(c.e, m)
        /\ awake' = awake \union Wakes(list[c.e], m)
        /\ calls' = [calls EXCEPT ![t] = Tail(@)] /\ TGoto(t, "notify")
        /\ UNCHANGED <<on, tcont, ret, jobs>>

\* Future::poll for EventListener, and wait_internal, which registers a
\* thread to unpark instead of a waker.
Poll(t) ==
    LET e == on[t]
        i == Entry(list[e], t)
    IN  /\ TAt(t, "await") /\ UNCHANGED <<awake, calls, tcont, ret, jobs>>
        /\ IF Notified(list[e][i])
           THEN Publish(e, RemoveAt(list[e], i)) /\ on' = [on EXCEPT ![t] = NoTask] /\ TGoto(t, tcont[t])
           ELSE /\ Publish(e, [list[e] EXCEPT ![i].st = "polling"])
                /\ TGoto(t, "suspended") /\ UNCHANGED on

\* The executor polls a task whose waker was called.
Repoll(t) ==
    /\ TAt(t, "suspended") /\ t \in awake /\ awake' = awake \ {t} /\ TGoto(t, "await")
    /\ UNCHANGED <<evs, on, calls, tcont, ret, jobs>>

-----------------------------------------------------------------------------
TDone(t) == TGoto(t, "ready")
TReady(t, op) == /\ TAt(t, "ready") /\ jobs[t] # <<>> /\ Head(jobs[t]) = op
                /\ jobs' = [jobs EXCEPT ![t] = Tail(@)]
TStart(t, op, l) == TReady(t, op) /\ TGoto(t, l) /\ UNCHANGED <<evs, awake, on, calls, tcont, ret>>

\* listen and wait_timeout, whose deadline takes the entry out of the list, and
\* with it a notification that came too late.
ListenAwait(t) ==
    /\ TReady(t, "listen_timeout") /\ Listen(t, "event") /\ TCall(t, "await", "ready")
    /\ UNCHANGED <<awake, calls, ret>>

WaitTimeout(t) ==
    /\ TAt(t, "suspended") /\ on[t] = "event"
    /\ Publish("event", RemoveAt(list["event"], Entry(list["event"], t)))
    /\ on' = [on EXCEPT ![t] = NoTask] /\ TDone(t) /\ UNCHANGED <<awake, calls, tcont, ret, jobs>>

\* "or_cancel" in a program: the future before it may be dropped while it is
\* suspended; one that was not dropped passes the marker.
EventOps(t) ==
    \/ ListenAwait(t) \/ WaitTimeout(t) \/ TStart(t, "or_cancel", "ready")
    \/ \E op \in {"notify", "notify_additional"} :
          /\ TReady(t, op) /\ UNCHANGED <<evs, awake, on, ret>>
          /\ NotifyAll(t, IF op = "notify" THEN <<One("event")>> ELSE <<OneMore("event")>>, "ready")

TaskInit ==
    /\ list = [e \in Ev |-> <<>>] /\ notified = [e \in Ev |-> All] /\ awake = {}
    /\ on = [t \in Task |-> NoTask] /\ calls = [t \in Task |-> <<>>]
    /\ tpc = [t \in Task |-> "ready"] /\ tcont = [t \in Task |-> "ready"]
    /\ ret = [t \in Task |-> "ready"] /\ jobs \in Jobs

TaskStep(t) ==
    \/ DropStep(t) \/ NotifyCheck(t) \/ NotifyLocked(t) \/ Poll(t) \/ Repoll(t) \/ EventOps(t)

-----------------------------------------------------------------------------
TaskEnded(t) == TAt(t, "ready") /\ jobs[t] = <<>>
TWaiting(t) == TAt(t, "suspended") /\ t \notin awake /\ on[t] # "event"

\* No notification is lost: a program that gives every waiting its wake-up never
\* comes to a state in which all that is left are suspended tasks (Event, Mutex,
\* RwLock and the channels of h2o_async, a future dropped while it waits
\* included: Drop for EventListener, CallOnDrop of acquire_slow).
NoTaskStranded ==
    (\A t \in Task : TaskEnded(t) \/ TWaiting(t)) => \A t \in Task : TaskEnded(t)
=============================================================================
