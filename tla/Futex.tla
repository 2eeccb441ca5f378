------------------------------- MODULE Futex -------------------------------
(* The futexes of a task space (sched/wait/futex.rs), the wait object they   *)
(* sleep on (sched/wait.rs) and the timers that own the sleeping tasks       *)
(* (cpu/time/timer.rs).  Tasks run on CPUs of their own; the scheduler is    *)
(* Sched.  The entry of a key in the space's hash map is looked up under its *)
(* write lock and kept under the read lock, so that one task at a time works *)
(* on it.  A wait makes a timer that holds the blocked task; the wait queue  *)
(* and the timer queue share it, and whoever takes the callback first        *)
(* unblocks the task.  A timer whose callback is gone stays in the wait      *)
(* queue until a wake-up pops it or a requeue moves it.                      *)
EXTENDS Naturals, Sequences, FiniteSets

CONSTANTS Task, Key, Value,
          Moves,      \* the (from, to) pairs of futex_reque that are called
          Budget,     \* bound: [Task -> Nat], the waits and sleeps of a task
          Word,       \* the keys that futex_wait is called with
          Waker,      \* the tasks that call futex_wake and futex_reque
          None

Timer == UNION {{t} \X (1..Budget[t]) : t \in Task}

ASSUME FutexAssumption ==
    /\ Moves \subseteq {m \in Key \X Key : m[1] # m[2]}
    /\ Budget \in [Task -> Nat] /\ Waker \subseteq Task /\ Word \subseteq Key
    /\ None \notin Task \cup Key \cup Value

VARIABLES
    val,     \* [Key -> Value]         the words in user memory
    entry,   \* SUBSET Key             the keys in Space.futexes
    lock,    \* [Key -> Task or None]  who holds the guard of the key's entry
    wq,      \* [Key -> Seq(Timer)]    Futex.wo.wait_queue
    armed,   \* SUBSET Timer           timers whose callback is still there
    ticking, \* SUBSET Timer           timers in a TIMER_QUEUE
    fired,   \* SUBSET Timer           Timer.fired
    firing,  \* [Timer -> ...]         how far fire has come
    waits,   \* [Task -> Nat]          timers made by a task so far
    pc,      \* [Task -> ...]
    call,    \* [Task -> ...]          the arguments of the call a task is in
    cnt,     \* [Task -> Nat]          woken (requeued) so far by the call
    ret      \* [Task -> ...]          what the last wait returned

vars == <<val, entry, lock, wq, armed, ticking, fired, firing, waits, pc, call, cnt, ret>>

\* The number of wake-ups or moves asked for; 0 wakes all.
Num == {0, 1}
NoCall == [k |-> None, v |-> None, n |-> 0, to |-> None]

Init ==
    /\ val \in [Key -> Value] /\ entry = {}
    /\ lock = [k \in Key |-> None] /\ wq = [k \in Key |-> <<>>]
    /\ armed = {} /\ ticking = {} /\ fired = {} /\ firing = [m \in Timer |-> "no"]
    /\ waits = [t \in Task |-> 0]
    /\ pc = [t \in Task |-> "user"] /\ call = [t \in Task |-> NoCall]
    /\ cnt = [t \in Task |-> 0] /\ ret = [t \in Task |-> "none"]

Go(t, label) == pc' = [pc EXCEPT ![t] = label]
K(t) == call[t].k

\* Back to user code; what the call left in its own timer is dead.
Return(t) ==
    /\ Go(t, "user")
    /\ call' = [call EXCEPT ![t] = NoCall]
    /\ cnt' = [cnt EXCEPT ![t] = 0]
    /\ ret' = [ret EXCEPT ![t] = "none"]
    /\ fired' = {m \in fired : m[1] # t}

TimerOf(t) == <<t, waits[t]>>
NewTimer(t) == <<t, waits[t] + 1>>

-----------------------------------------------------------------------------
\* Space::futex: the entry is made when it is not there; its guard is free.
\* The read guard that is kept excludes other look-ups, which need the write
\* lock for a moment.
GetFutex_Shared(t, k) ==
    /\ lock' = [lock EXCEPT ![k] = t]
    /\ entry' = entry \cup {k}

GetFutex(t, k) ==
    /\ lock[k] = None
    /\ lock' = [lock EXCEPT ![k] = t]
    /\ entry' = entry \cup {k}

\* futex_wait(ptr, expected, timeout) up to the guard of the entry.
FutexWait(t, k, v) ==
    /\ pc[t] = "user" /\ waits[t] < Budget[t]
    /\ GetFutex(t, k)
    /\ call' = [call EXCEPT ![t] = [NoCall EXCEPT !.k = k, !.v = v]]
    /\ Go(t, "wCheck")
    /\ UNCHANGED <<val, wq, armed, ticking, fired, firing, waits, cnt, ret>>

\* Futex::wait: compare under the guard; on a mismatch the guard is dropped.
WaitCheck_Unguarded(t) ==
    /\ pc[t] = "wCheck"
    /\ lock' = [lock EXCEPT ![K(t)] = None]
    /\ IF val[K(t)] = call[t].v
       THEN Go(t, "wPark") /\ UNCHANGED ret
       ELSE Go(t, "wDrop") /\ ret' = [ret EXCEPT ![t] = "invalid"]
    /\ UNCHANGED <<val, entry, wq, armed, ticking, fired, firing, waits, call, cnt>>

WaitCheck(t) ==
    /\ pc[t] = "wCheck"
    /\ IF val[K(t)] = call[t].v
       THEN Go(t, "wPark") /\ UNCHANGED <<lock, ret>>
       ELSE /\ Go(t, "wDrop")
            /\ lock' = [lock EXCEPT ![K(t)] = None]
            /\ ret' = [ret EXCEPT ![t] = "invalid"]
    /\ UNCHANGED <<val, entry, wq, armed, ticking, fired, firing, waits, call, cnt>>

\* block_current: the timer takes the task, is queued when the wait is timed,
\* and is pushed to the wait queue; only then is the guard dropped.
Activate(t, timed) ==
    /\ armed' = armed \cup {NewTimer(t)}
    /\ ticking' = IF timed THEN ticking \cup {NewTimer(t)} ELSE ticking
    /\ waits' = [waits EXCEPT ![t] = @ + 1]

WaitPark(t, timed) ==
    /\ pc[t] = "wPark" /\ Activate(t, timed)
    /\ wq' = [wq EXCEPT ![K(t)] = Append(@, NewTimer(t))]
    /\ lock' = [lock EXCEPT ![K(t)] = None]
    /\ Go(t, "asleep")
    /\ UNCHANGED <<val, entry, fired, firing, call, cnt, ret>>

\* task_sleep(ms): no wait queue, only the timer.
TaskSleep(t) ==
    /\ pc[t] = "user" /\ waits[t] < Budget[t]
    /\ Activate(t, TRUE)
    /\ call' = [call EXCEPT ![t] = NoCall]
    /\ Go(t, "asleep")
    /\ UNCHANGED <<val, entry, lock, wq, fired, firing, cnt, ret>>

\* WaitObject::wait, once the task runs again.
WaitReturn(t) ==
    /\ pc[t] = "woken"
    /\ IF K(t) = None THEN Return(t)
       ELSE /\ ret' = [ret EXCEPT ![t] = IF TimerOf(t) \in fired THEN "timeout" ELSE "ok"]
            /\ Go(t, "wDrop")
            /\ UNCHANGED <<fired, call, cnt>>
    /\ UNCHANGED <<val, entry, lock, wq, armed, ticking, firing, waits>>

\* try_drop_futex: under the write lock, an entry nobody is queued on goes.
Droppable_Always(k) == TRUE
Droppable(k) == wq[k] = <<>>

TryDropFutex(t) ==
    /\ pc[t] = "wDrop" /\ lock[K(t)] = None
    /\ entry' = IF Droppable(K(t)) THEN entry \ {K(t)} ELSE entry
    /\ wq' = IF Droppable(K(t)) THEN [wq EXCEPT ![K(t)] = <<>>] ELSE wq
    /\ Return(t)
    /\ UNCHANGED <<val, lock, armed, ticking, firing, waits>>

-----------------------------------------------------------------------------
\* Whoever takes the callback of a timer has the task; the others find it gone.
TakeCallback_Leave(m) == armed' = armed
TakeCallback(m) == armed' = armed \ {m}

\* timer::tick pops a due timer and fires it: the callback is taken, fired is
\* set, and the task is unblocked, in this order.
FireTake(m) ==
    /\ m \in ticking /\ (m \in armed => pc[m[1]] = "asleep")
    /\ ticking' = ticking \ {m}
    /\ TakeCallback(m)
    /\ firing' = [firing EXCEPT ![m] = IF m \in armed THEN "taken" ELSE @]
    /\ UNCHANGED <<val, entry, lock, wq, fired, waits, pc, call, cnt, ret>>

FireMark(m) ==
    /\ firing[m] = "taken"
    /\ fired' = fired \cup {m}
    /\ firing' = [firing EXCEPT ![m] = "marked"]
    /\ UNCHANGED <<val, entry, lock, wq, armed, ticking, waits, pc, call, cnt, ret>>

FireUnblock_Early(m) ==
    /\ firing[m] = "taken" /\ Go(m[1], "woken")
    /\ UNCHANGED <<val, entry, lock, wq, armed, ticking, fired, firing, waits, call, cnt, ret>>

FireUnblock_Forgotten(m) ==
    /\ firing[m] = "marked" /\ firing' = [firing EXCEPT ![m] = "no"]
    /\ UNCHANGED <<val, entry, lock, wq, armed, ticking, fired, waits, pc, call, cnt, ret>>

FireUnblock(m) ==
    /\ firing[m] = "marked"
    /\ firing' = [firing EXCEPT ![m] = "no"]
    /\ Go(m[1], "woken")
    /\ UNCHANGED <<val, entry, lock, wq, armed, ticking, fired, waits, call, cnt, ret>>

-----------------------------------------------------------------------------
\* User code changes a word and wakes all the sleepers of the key.
StoreAndWake(t, k, v) ==
    /\ pc[t] = "user" /\ val[k] # v
    /\ val' = [val EXCEPT ![k] = v]
    /\ call' = [call EXCEPT ![t] = [NoCall EXCEPT !.k = k]]
    /\ Go(t, "kLock")
    /\ UNCHANGED <<entry, lock, wq, armed, ticking, fired, firing, waits, cnt, ret>>

WakeLock(t) ==
    /\ pc[t] = "kLock" /\ GetFutex(t, K(t))
    /\ Go(t, "kPop")
    /\ UNCHANGED <<val, wq, armed, ticking, fired, firing, waits, call, cnt, ret>>

\* futex_wake(ptr, num) and futex_reque(ptr, num, other, 1), up to the guard of
\* the first entry.
FutexWake(t, k, n) ==
    /\ pc[t] = "user" /\ GetFutex(t, k)
    /\ call' = [call EXCEPT ![t] = [NoCall EXCEPT !.k = k, !.n = n]]
    /\ Go(t, "kPop")
    /\ UNCHANGED <<val, wq, armed, ticking, fired, firing, waits, cnt, ret>>

FutexReque(t, move, n) ==
    /\ pc[t] = "user" /\ GetFutex(t, move[1])
    /\ call' = [call EXCEPT ![t] = [NoCall EXCEPT !.k = move[1], !.to = move[2], !.n = n]]
    /\ Go(t, "kLock2")
    /\ UNCHANGED <<val, wq, armed, ticking, fired, firing, waits, cnt, ret>>

RequeLock(t) ==
    /\ pc[t] = "kLock2" /\ GetFutex(t, call[t].to)
    /\ Go(t, "kPop")
    /\ UNCHANGED <<val, wq, armed, ticking, fired, firing, waits, call, cnt, ret>>

\* WaitObject::notify: pop until enough callbacks have been taken, or none is left.
WakeDone(t) == wq[K(t)] = <<>> \/ (call[t].n # 0 /\ cnt[t] >= call[t].n)

WakePop(t) ==
    LET m == Head(wq[K(t)]) IN
    /\ pc[t] = "kPop" /\ ~WakeDone(t)
    /\ wq' = [wq EXCEPT ![K(t)] = Tail(@)]
    /\ TakeCallback(m)
    /\ IF m \in armed
       THEN /\ pc' = [pc EXCEPT ![m[1]] = "woken"]
            /\ cnt' = [cnt EXCEPT ![t] = @ + 1]
       ELSE UNCHANGED <<pc, cnt>>
    /\ UNCHANGED <<val, entry, lock, ticking, fired, firing, waits, call, ret>>

\* The guards are dropped at the end of the call.
WakeEnd(t) ==
    /\ pc[t] = "kPop" /\ WakeDone(t)
    /\ IF call[t].to = None
       THEN Return(t) /\ lock' = [lock EXCEPT ![K(t)] = None]
       ELSE Go(t, "qPop") /\ UNCHANGED <<lock, call, cnt, ret, fired>>
    /\ UNCHANGED <<val, entry, wq, armed, ticking, firing, waits>>

\* Futex::requeue of one timer, live or stale; rem counts down from 1.
Requeue(t) ==
    LET k == K(t)  l == call[t].to IN
    /\ pc[t] = "qPop"
    /\ wq' = IF wq[k] = <<>> THEN wq
             ELSE [wq EXCEPT ![k] = Tail(@), ![l] = Append(@, Head(wq[k]))]
    /\ lock' = [lock EXCEPT ![k] = None, ![l] = None]
    /\ Return(t)
    /\ UNCHANGED <<val, entry, armed, ticking, firing, waits>>

-----------------------------------------------------------------------------
Kernel(t) ==
    \/ WaitCheck(t) \/ WaitReturn(t) \/ TryDropFutex(t)
    \/ WakeLock(t) \/ RequeLock(t) \/ WakePop(t) \/ WakeEnd(t) \/ Requeue(t)
    \/ \E timed \in BOOLEAN : WaitPark(t, timed)

Fire(m) == FireTake(m) \/ FireMark(m) \/ FireUnblock(m)

UserCall(t) ==
    \/ TaskSleep(t)
    \/ \E k \in Word, v \in Value : FutexWait(t, k, v)
    \/ /\ t \in Waker
       /\ \/ \E k \in Word, v \in Value : StoreAndWake(t, k, v)
          \/ \E k \in Key, n \in Num : FutexWake(t, k, n)
          \/ \E move \in Moves, n \in Num : FutexReque(t, move, n)

Next ==
    \/ \E t \in Task : Kernel(t) \/ UserCall(t)
    \/ \E m \in Timer : Fire(m)

\* The kernel code of a task runs on; the spin lock of an entry, which is not
\* fair by itself, is assumed to be taken by every task that keeps trying (strong
\* fairness); due timers fire.
Spec ==
    /\ Init /\ [][Next]_vars
    /\ \A t \in Task : SF_vars(Kernel(t))
    /\ \A m \in Timer : WF_vars(Fire(m))

-----------------------------------------------------------------------------
Elems(q) == {q[i] : i \in DOMAIN q}

\* The calls implement the atomic FutexSpec.  A waiter that has compared and not
\* yet queued itself counts as the last of the queue; stale timers do not count.
Asleep(t) == pc[t] = "wPark" \/ TimerOf(t) \in armed

AbsQueue ==
    [k \in Key |->
       LET live == SelectSeq(wq[k], LAMBDA m : m \in armed)
           late == {t \in Task : pc[t] = "wPark" /\ K(t) = k}
       IN  [i \in 1..(Len(live) + Cardinality(late)) |->
              IF i <= Len(live) THEN live[i][1] ELSE CHOOSE t \in late : TRUE]]

AbsEnd ==
    [t \in Task |->
       IF Asleep(t) THEN "asleep"
       ELSE IF pc[t] \notin {"asleep", "woken", "wDrop"} \/ ret[t] = "invalid" THEN None
       ELSE IF TimerOf(t) \in fired \/ firing[TimerOf(t)] # "no" THEN "timeout"
       ELSE "woken"]

Abs == INSTANCE FutexSpec WITH queue <- AbsQueue, end <- AbsEnd

\* Comparing and falling asleep is one step to the rest of the system, wake-ups
\* come in order, and each sleep ends once: futex_wait, futex_wake, futex_reque
\* and timer::tick refine FutexSpec.
ImplementsFutexSpec == Abs!Spec

\* A sleeping task can be woken: its timer is in a timer queue, or in the wait
\* queue of an entry that is still in the map (try_drop_futex spares it).
SleeperReachable ==
    \A t \in Task : pc[t] = "asleep" /\ TimerOf(t) \in armed =>
        TimerOf(t) \in ticking \/ \E k \in entry : TimerOf(t) \in Elems(wq[k])

\* Only a task that sleeps, and on this very timer, is ever unblocked: neither a
\* wake-up racing with a time-out nor a stale timer unblocks a task twice.
OnlySleepersUnblocked ==
    \A m \in armed \cup {m \in Timer : firing[m] # "no"} :
        m = TimerOf(m[1]) /\ pc[m[1]] = "asleep"

\* A sleep can be ended, and is ended once: both of the above (futex_wait,
\* try_drop_futex, Timer::fire and cancel).
SleepersSound == SleeperReachable /\ OnlySleepersUnblocked

\* A wait returns ETIME if and only if its timer fired rather than a wake-up
\* having taken the task.
ReturnHonest ==
    \A t \in Task : ret[t] \in {"ok", "timeout"} =>
        (ret[t] = "timeout" <=> TimerOf(t) \in fired \/ firing[TimerOf(t)] # "no")

SleepsOnItsWord(t) ==
    TimerOf(t) \in armed /\ K(t) # None /\ TimerOf(t) \in Elems(wq[K(t)])

\* A task that sleeps on a word that no longer has the expected value is woken
\* by the wake-up that follows the store, unless futex_reque moves it to another
\* word: no interleaving of Futex::wait and notify loses the wake-up.
StoreWakes(t) == (SleepsOnItsWord(t) /\ val[K(t)] # call[t].v) ~> ~SleepsOnItsWord(t)

\* A timed wait, or a sleep, ends, and the call returns.
TimedSleepEnds(t) == (pc[t] = "asleep" /\ TimerOf(t) \in ticking) ~> pc[t] = "user"

=============================================================================
