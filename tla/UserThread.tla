----------------------------- MODULE UserThread -----------------------------
(* The threads of a user program, as the locks of h2o_std see them: atomic   *)
(* words, and the futex calls of h2o_rs/src/sync.rs.  The calls are those of *)
(* FutexSpec, which the kernel's futexes implement (Futex).  A step of a     *)
(* thread is one atomic access or one call; pc names the access that comes   *)
(* next, cont the place a subroutine returns to.  A thread asleep in the     *)
(* kernel keeps the pc at which it goes on.                                  *)
EXTENDS Integers, Sequences, FiniteSets

CONSTANTS Thread, Word, None,
          Programs    \* what the threads do: [Thread -> Seq(operation)] each

\* Threads are finitely many, none of them is a name the words hold, and every
\* thread and every lock has its word.
ASSUME ThreadAssumption ==
    /\ IsFiniteSet(Thread) /\ None \notin Thread
    /\ Thread \intersect {"mutex", "cv", "rw", "writer_notify",
                           "EMPTY", "DATA", "DISCONNECTED"} = {}
    /\ Thread \union {"mutex", "cv", "rw", "writer_notify"} \subseteq Word

VARIABLES
    val,     \* [Word -> ...]          the atomic words slept on
    queue,   \* [Word -> Seq(Thread)]  who sleeps on a word
    end,     \* [Thread -> ...]        how the sleep ended, or that it lasts
    pc,      \* [Thread -> STRING]
    cont,    \* [Thread -> STRING]     where a subroutine returns to
    reg,     \* [Thread -> ...]        the value read last
    todo     \* [Thread -> Seq(...)]   operations still to be called

F == INSTANCE FutexSpec WITH Task <- Thread, Key <- Word, Value <- {}

futexes == <<val, queue, end>>
uvars == <<val, queue, end, pc, cont, reg, todo>>

At(t, l) == pc[t] = l /\ end[t] = None
Goto(t, l) == pc' = [pc EXCEPT ![t] = l]
Call(t, l, back) == Goto(t, l) /\ cont' = [cont EXCEPT ![t] = back]
Load(t, x) == reg' = [reg EXCEPT ![t] = x]
Put(w, x) == val' = [val EXCEPT ![w] = x] /\ UNCHANGED <<queue, end>>

\* futex_wait: asleep if the word still has the value, straight on otherwise.
FutexWait(t, w, x, next) ==
    /\ Goto(t, next)
    /\ \/ F!Wait(t, w, x)
       \/ val[w] # x /\ UNCHANGED futexes

\* futex_wake(w, 1); Woke is what it tells the caller.
Woke(w) == queue[w] # <<>>
FutexWake(w) == IF Woke(w) THEN F!WakeFirst(w) ELSE UNCHANGED futexes

\* A woken thread runs again.
Resume(t) == F!Return(t) /\ UNCHANGED <<pc, cont, reg, todo>>

\* The timer of a timed sleep, told by where the thread goes on.
Expire(t) ==
    /\ pc[t] \in {"parker_timed_woken", "cv_timed_woken"} /\ F!TimeOut(t)
    /\ UNCHANGED <<pc, cont, reg, todo>>

Done(t) == Goto(t, "ready")
Ready(t, op) == /\ At(t, "ready") /\ todo[t] # <<>> /\ Head(todo[t]) = op
                /\ todo' = [todo EXCEPT ![t] = Tail(@)]

ThreadInit(word) ==
    /\ val = word /\ queue = [w \in Word |-> <<>>] /\ end = [t \in Thread |-> None]
    /\ pc = [t \in Thread |-> "ready"] /\ cont = [t \in Thread |-> "ready"]
    /\ reg = [t \in Thread |-> None]
    /\ todo \in Programs

-----------------------------------------------------------------------------
\* thread::park and unpark (Parker of sync/imp.rs): one word per thread, which
\* is 0 (empty), 1 (notified) or -1 (parked).
Park(t) ==
    /\ At(t, "park") /\ Put(t, val[t] - 1)
    /\ IF val[t] = 1 THEN Goto(t, cont[t]) ELSE Goto(t, "parker_wait")
    /\ UNCHANGED <<cont, reg, todo>>

ParkWait(t) ==
    /\ At(t, "parker_wait") /\ FutexWait(t, t, -1, "parker_woken")
    /\ UNCHANGED <<cont, reg, todo>>

ParkWoken(t) ==
    /\ At(t, "parker_woken")
    /\ IF val[t] = 1 THEN Put(t, 0) /\ Goto(t, cont[t])
       ELSE UNCHANGED futexes /\ Goto(t, "parker_wait")
    /\ UNCHANGED <<cont, reg, todo>>

ParkTimeout(t) ==
    /\ At(t, "park_timeout") /\ Put(t, val[t] - 1)
    /\ IF val[t] = 1 THEN Goto(t, cont[t]) ELSE Goto(t, "parker_timed_wait")
    /\ UNCHANGED <<cont, reg, todo>>

ParkTimedWait(t) ==
    /\ At(t, "parker_timed_wait") /\ FutexWait(t, t, -1, "parker_timed_woken")
    /\ UNCHANGED <<cont, reg, todo>>

ParkTimedWoken(t) ==
    /\ At(t, "parker_timed_woken") /\ Put(t, 0) /\ Goto(t, cont[t])
    /\ UNCHANGED <<cont, reg, todo>>

(* A bug: unpark only wakes who already had a notification.                  *)
Unpark_Notified(t) ==
    /\ At(t, "unpark") /\ Put(reg[t], 1)
    /\ Goto(t, IF val[reg[t]] = 1 THEN "unpark_wake" ELSE cont[t])
    /\ UNCHANGED <<cont, reg, todo>>

\* unpark of the thread in reg.
Unpark(t) ==
    /\ At(t, "unpark") /\ Put(reg[t], 1)
    /\ Goto(t, IF val[reg[t]] = -1 THEN "unpark_wake" ELSE cont[t])
    /\ UNCHANGED <<cont, reg, todo>>

UnparkWake(t) ==
    /\ At(t, "unpark_wake") /\ FutexWake(reg[t]) /\ Goto(t, cont[t])
    /\ UNCHANGED <<cont, reg, todo>>

\* park, park_timeout and unpark called by the program itself; the operation u
\* is the unpark of u.
StartPark(t) ==
    /\ UNCHANGED futexes
    /\ \/ Ready(t, "park") /\ Call(t, "park", "ready") /\ UNCHANGED reg
       \/ Ready(t, "park_timeout") /\ Call(t, "park_timeout", "ready") /\ UNCHANGED reg
       \/ \E u \in Thread : Ready(t, u) /\ Call(t, "unpark", "ready") /\ Load(t, u)

ThreadStep(t) ==
    \/ Resume(t) \/ Expire(t) \/ StartPark(t)
    \/ Park(t) \/ ParkWait(t) \/ ParkWoken(t)
    \/ ParkTimeout(t) \/ ParkTimedWait(t) \/ ParkTimedWoken(t)
    \/ Unpark(t) \/ UnparkWake(t)

-----------------------------------------------------------------------------
Finished(t) == At(t, "ready") /\ todo[t] = <<>>
Asleep(t) == end[t] = "asleep"

\* No wake-up is lost, in any of the locks: a program in which every waiting has
\* its wake-up never comes to a state in which all that is left are sleepers
\* (RawMutex, RawCondvar, RawRwLock, Parker, Once, oneshot).
NoneStranded ==
    (\A t \in Thread : Finished(t) \/ Asleep(t)) => \A t \in Thread : Finished(t)
=============================================================================
