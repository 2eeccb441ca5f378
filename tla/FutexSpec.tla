----------------------------- MODULE FutexSpec -----------------------------
(* What the futex calls promise, whatever the locks, timers and stale queue  *)
(* entries of the implementation: a wait compares and goes to sleep in one   *)
(* step, sleepers are woken and requeued in the order in which they came,    *)
(* and every wait that slept ends exactly once, woken or timed out.          *)
EXTENDS Sequences

CONSTANTS Task, Key, Value, None

VARIABLES val,     \* [Key -> Value]       the user's words
          queue,   \* [Key -> Seq(Task)]   who sleeps on a key
          end      \* [Task -> ...]        how the sleep ended, or that it lasts

vars == <<val, queue, end>>

Init ==
    /\ val \in [Key -> Value]
    /\ queue = [k \in Key |-> <<>>]
    /\ end = [t \in Task |-> None]

Store(k, v) == val' = [val EXCEPT ![k] = v] /\ UNCHANGED <<queue, end>>

\* futex_wait that finds the expected value.
Wait(t, k, v) ==
    /\ end[t] = None /\ val[k] = v
    /\ queue' = [queue EXCEPT ![k] = Append(@, t)]
    /\ end' = [end EXCEPT ![t] = "asleep"]
    /\ UNCHANGED val

\* One of the wake-ups of futex_wake and futex_reque: the one that came first.
WakeFirst(k) ==
    /\ queue[k] # <<>>
    /\ queue' = [queue EXCEPT ![k] = Tail(@)]
    /\ end' = [end EXCEPT ![Head(queue[k])] = "woken"]
    /\ UNCHANGED val

\* One of the moves of futex_reque.
MoveFirst(k, l) ==
    /\ k # l /\ queue[k] # <<>>
    /\ queue' = [queue EXCEPT ![k] = Tail(@), ![l] = Append(@, Head(queue[k]))]
    /\ UNCHANGED <<val, end>>

\* A time-out takes the task out of the queue, wherever it stands.
TimeOut(t) ==
    /\ end[t] = "asleep"
    /\ queue' = [k \in Key |-> SelectSeq(queue[k], LAMBDA u : u # t)]
    /\ end' = [end EXCEPT ![t] = "timeout"]
    /\ UNCHANGED val

\* task_sleep: a sleep that only the timer ends.
Sleep(t) ==
    /\ end[t] = None
    /\ end' = [end EXCEPT ![t] = "asleep"]
    /\ UNCHANGED <<val, queue>>

\* The call returns; how it ended was told to the caller.
Return(t) ==
    /\ end[t] \in {"woken", "timeout"}
    /\ end' = [end EXCEPT ![t] = None]
    /\ UNCHANGED <<val, queue>>

Next ==
    \/ \E k \in Key, v \in Value : Store(k, v) \/ \E t \in Task : Wait(t, k, v)
    \/ \E k \in Key : WakeFirst(k)
    \/ \E k, l \in Key : MoveFirst(k, l)
    \/ \E t \in Task : TimeOut(t) \/ Sleep(t) \/ Return(t)

Spec == Init /\ [][Next]_vars
=============================================================================
