----------------------------- MODULE UserLocks ------------------------------
(* RawMutex and RawCondvar of h2o_std (sync/imp.rs, mutex.rs, condvar.rs)    *)
(* and the Parker of sync/parker.rs, which is made of both.                  *)
EXTENDS UserThread

VARIABLES token,      \* Inner.state of the Parker: "empty", "parked", "notified"
          deadline    \* [Thread -> BOOLEAN]  the park has a deadline

lvars == <<token, deadline>>
Mutex == val["mutex"]
Keep == UNCHANGED <<cont, reg, todo, lvars>>

-----------------------------------------------------------------------------
\* RawMutex: 0 is free, 1 locked, 2 locked and slept on.
Contended(s) == IF s = 2 THEN "mutex_wait" ELSE "mutex_swap"

TryLock(t) ==
    /\ At(t, "lock") /\ Keep
    /\ IF Mutex = 0 THEN Put("mutex", 1) /\ Goto(t, cont[t])
       ELSE UNCHANGED futexes /\ Goto(t, "mutex_spin")

MutexSpin(t) ==
    /\ At(t, "mutex_spin") /\ Keep /\ UNCHANGED futexes
    /\ Goto(t, IF Mutex = 0 THEN "mutex_cas" ELSE Contended(Mutex))

MutexCas(t) ==
    /\ At(t, "mutex_cas") /\ Keep
    /\ IF Mutex = 0 THEN Put("mutex", 1) /\ Goto(t, cont[t])
       ELSE UNCHANGED futexes /\ Goto(t, Contended(Mutex))

(* A bug: who waited does not look at what it has swapped out.               *)
MutexSwap_Mine(t) ==
    At(t, "mutex_swap") /\ Keep /\ Put("mutex", 2) /\ Goto(t, cont[t])

MutexSwap(t) ==
    /\ At(t, "mutex_swap") /\ Keep /\ Put("mutex", 2)
    /\ Goto(t, IF Mutex = 0 THEN cont[t] ELSE "mutex_wait")

MutexWait(t) ==
    /\ At(t, "mutex_wait") /\ Keep /\ FutexWait(t, "mutex", 2, "mutex_respin")

MutexRespin(t) ==
    /\ At(t, "mutex_respin") /\ Keep /\ UNCHANGED futexes
    /\ Goto(t, Contended(Mutex))

MutexUnlock(t) ==
    /\ At(t, "unlock") /\ Keep /\ Put("mutex", 0)
    /\ Goto(t, IF Mutex = 2 THEN "mutex_wake" ELSE cont[t])

MutexWake(t) ==
    /\ At(t, "mutex_wake") /\ Keep /\ FutexWake("mutex") /\ Goto(t, cont[t])

\* A critical section of the program, by lock or by try_lock.
StartCritical(t) ==
    \/ /\ Ready(t, "lock") /\ Call(t, "lock", "critical") /\ UNCHANGED <<futexes, reg, lvars>>
    \/ /\ Ready(t, "try_lock") /\ UNCHANGED <<cont, reg, lvars>>
       /\ IF Mutex = 0 THEN Put("mutex", 1) /\ Goto(t, "critical")
          ELSE UNCHANGED futexes /\ Done(t)

Critical(t) ==
    At(t, "critical") /\ Call(t, "unlock", "ready") /\ UNCHANGED <<futexes, reg, todo, lvars>>

-----------------------------------------------------------------------------
\* RawCondvar::wait and notify_one.
CvWait(t) ==
    /\ At(t, "cv_wait") /\ Load(t, val["cv"]) /\ Call(t, "unlock", "cv_sleep")
    /\ UNCHANGED <<futexes, todo, lvars>>

CvSleep(t) ==
    /\ At(t, "cv_sleep") /\ Keep
    /\ FutexWait(t, "cv", reg[t], IF deadline[t] THEN "cv_timed_woken" ELSE "cv_woken")

CvLock(t) ==
    /\ At(t, "cv_woken") \/ At(t, "cv_timed_woken")
    /\ Call(t, "lock", "parked_check") /\ UNCHANGED <<futexes, reg, todo, lvars>>

NotifyOne(t) ==
    /\ At(t, "notify") /\ Keep /\ Put("cv", val["cv"] + 1) /\ Goto(t, "notify_wake")

NotifyWake(t) ==
    /\ At(t, "notify_wake") /\ Keep /\ FutexWake("cv") /\ Done(t)

-----------------------------------------------------------------------------
\* Inner::park: the notification is looked for before the lock is taken, ...
PPark(t, timed) ==
    /\ Ready(t, IF timed THEN "ppark_timeout" ELSE "ppark")
    /\ deadline' = [deadline EXCEPT ![t] = timed]
    /\ IF token = "notified" THEN token' = "empty" /\ Done(t) /\ UNCHANGED cont
       ELSE /\ UNCHANGED token
            /\ \/ Call(t, "lock", "parked_set")
               \/ timed /\ Done(t) /\ UNCHANGED cont
    /\ UNCHANGED <<futexes, reg>>

\* ... again under the lock, ...
PSet(t) ==
    /\ At(t, "parked_set") /\ UNCHANGED <<futexes, reg, todo, deadline>>
    /\ CASE token = "empty"    -> token' = "parked" /\ Goto(t, "parked_loop") /\ UNCHANGED cont
         [] token = "notified" -> token' = "empty" /\ Call(t, "unlock", "ready")
         [] OTHER              -> Goto(t, "panic") /\ UNCHANGED <<cont, token>>

\* ... and after each wait, until the deadline has passed.
PLoop(t) ==
    /\ At(t, "parked_loop") /\ UNCHANGED <<futexes, reg, todo, deadline>>
    /\ \/ Goto(t, "cv_wait") /\ UNCHANGED <<cont, token>>
       \/ /\ deadline[t] /\ token' = "empty"
          /\ IF token = "empty" THEN Goto(t, "panic") /\ UNCHANGED cont
             ELSE Call(t, "unlock", "ready")

PCheck(t) ==
    /\ At(t, "parked_check") /\ UNCHANGED <<futexes, reg, todo, deadline>>
    /\ IF token = "notified" THEN token' = "empty" /\ Call(t, "unlock", "ready")
       ELSE Goto(t, "parked_loop") /\ UNCHANGED <<cont, token>>

\* Inner::unpark.
PUnpark(t) ==
    /\ Ready(t, "punpark") /\ token' = "notified"
    /\ IF token = "parked" THEN Call(t, "lock", "punpark_locked") ELSE Done(t) /\ UNCHANGED cont
    /\ UNCHANGED <<futexes, reg, deadline>>

PUnparkLocked(t) ==
    /\ At(t, "punpark_locked") /\ Call(t, "unlock", "notify")
    /\ UNCHANGED <<futexes, reg, todo, lvars>>

LocksInit == token = "empty" /\ deadline = [t \in Thread |-> FALSE]

LocksStep(t) ==
    \/ StartCritical(t) \/ Critical(t) \/ TryLock(t) \/ MutexSpin(t) \/ MutexCas(t)
    \/ MutexSwap(t) \/ MutexWait(t) \/ MutexRespin(t) \/ MutexUnlock(t) \/ MutexWake(t)
    \/ CvWait(t) \/ CvSleep(t) \/ CvLock(t) \/ NotifyOne(t) \/ NotifyWake(t)
    \/ \E timed \in BOOLEAN : PPark(t, timed)
    \/ PSet(t) \/ PLoop(t) \/ PCheck(t) \/ PUnpark(t) \/ PUnparkLocked(t)

-----------------------------------------------------------------------------
Holding(t) == pc[t] \in {"critical", "parked_set", "parked_loop", "parked_check",
                         "cv_wait", "punpark_locked", "unlock"}

\* The mutex admits one thread at a time (RawMutex; the section between
\* lock and unlock, those inside Condvar::wait and Parker::park included).
MutexExclusive == \A t, u \in Thread : Holding(t) /\ Holding(u) => t = u
=============================================================================
