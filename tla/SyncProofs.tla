----------------------------- MODULE SyncProofs -----------------------------
(* The mutex and the Once of h2o_std, for any threads and any programs that  *)
(* use them together with each other and with the rest of the locks: proofs  *)
(* that the mutex has one holder and that the initialiser of a Once runs in  *)
(* one thread, whose walk over the waiters only meets threads that wait.     *)
EXTENDS UserOnce, TLAPS

-----------------------------------------------------------------------------
\* Where a thread may stand in each part of the library.
AcquirePc == {"lock", "mutex_spin", "mutex_cas", "mutex_swap", "mutex_wait", "mutex_respin"}
ReleasePc == {"unlock", "mutex_wake"}
LockedPc == {"critical", "parked_set", "parked_loop", "parked_check", "cv_wait", "punpark_locked"}
CondPc == {"cv_sleep", "cv_woken", "cv_timed_woken", "notify", "notify_wake"}
MutexPc == AcquirePc \union ReleasePc \union LockedPc \union CondPc
RwPc == {"read_fast", "read_spin", "read_cas", "read_flag", "read_sleep", "reading",
         "write_spin", "write_cas", "write_flag", "write_seq", "write_check", "write_sleep",
         "writing", "wake_writers", "wake_both", "wake_readers", "wake_writer",
         "wake_writer_first", "wake_writer_futex", "wake_writer_first_futex", "wake_all"}
OncePc == {"once_load", "once_cas", "once_init", "once_drop", "once_signal", "once_next",
           "once_wait", "once_check", "send_swap", "send_back", "signal", "recv_block",
           "recv_check", "try_recv", "recv_cas", "recv_take"}
WaitPc == {"park", "parker_wait", "parker_woken"}
TimedPc == {"park_timeout", "parker_timed_wait", "parker_timed_woken"}
UnparkPc == {"unpark", "unpark_wake"}
ParkPc == WaitPc \union TimedPc \union UnparkPc

\* A subroutine returns to one of the places it is called from, and unpark is
\* called with a thread.
MutexFlow(l, c) ==
    /\ l \in AcquirePc => c \in {"critical", "parked_set", "parked_check", "punpark_locked"}
    /\ l \in ReleasePc => c \in {"ready", "cv_sleep", "notify"}
ParkFlow(l, c, r) ==
    /\ l \in WaitPc => c \in {"ready", "once_check", "recv_check"}
    /\ l \in TimedPc => c = "ready"
    /\ l \in UnparkPc => c \in {"ready", "once_next"} /\ r \in Thread
Flow == \A t \in Thread : MutexFlow(pc[t], cont[t]) /\ ParkFlow(pc[t], cont[t], reg[t])

Shape ==
    /\ DOMAIN pc = Thread /\ DOMAIN cont = Thread
    /\ DOMAIN reg = Thread /\ DOMAIN val = Word
    /\ DOMAIN setTo = Thread

\* Who holds the mutex has made its word nonzero.
MutexInv == MutexExclusive /\ \A t \in Thread : Holding(t) => Mutex # 0

-----------------------------------------------------------------------------
\* What a thread shows the others, by its place l, the place c it returns to, the
\* value r it has read and the pointer x in its frame: that it waits in a Once or
\* for a datum, the waiter its walk over the list has come to, the receiver it is
\* about to signal, and that it runs the initialiser.
WaitsAt(l, c) == l = "once_check" \/ (c = "once_check" /\ l \in WaitPc)
RWaitsAt(l, c) == l = "recv_check" \/ (c = "recv_check" /\ l \in WaitPc)
UnparksAt(l, c) == l = "once_next" \/ (c = "once_next" /\ l \in UnparkPc)
WalksAt(l, c, r, x, w) == (l = "once_signal" /\ r = w) \/ (UnparksAt(l, c) /\ x = w)
SignalsAt(l, r, w) == l = "signal" /\ r = w
RunsAt(l) == l \in {"once_init", "once_drop"}

\* The list of a Once: the nodes in it, and who points to them: the word, the
\* drop that walks over the list, and each node to the one behind it.
Live(w) == WaitsAt(pc[w], cont[w]) /\ w \notin signaled
OnWalk(t, w) == WalksAt(pc[t], cont[t], reg[t], setTo[t], w)
OnNext(t, w) == Live(t) /\ next[t] = w

\* A pointer leads to a node in the list, and no two lead to the same one.
ListInv ==
    \A w \in Thread :
        /\ once.head = w => Live(w) /\ \A u \in Thread : ~OnWalk(u, w) /\ ~OnNext(u, w)
        /\ \A t \in Thread : OnWalk(t, w) =>
              Live(w) /\ \A u \in Thread : (OnWalk(u, w) => u = t) /\ ~OnNext(u, w)
        /\ \A t \in Thread : OnNext(t, w) =>
              Live(w) /\ \A u \in Thread : OnNext(u, w) => u = t

\* The receiver that waits on a one-shot channel shares its flag with the nodes:
\* who is about to signal it is the only one, and it does wait.
LiveR(w) == RWaitsAt(pc[w], cont[w]) /\ w \notin signaled
Signals(t, w) == SignalsAt(pc[t], reg[t], w)
ShotInv ==
    /\ shot \in Thread \union {"EMPTY", "DATA", "DISCONNECTED"}
    /\ \A w \in Thread :
          /\ shot = w => LiveR(w) /\ \A u \in Thread : ~Signals(u, w)
          /\ \A t \in Thread : Signals(t, w) =>
                LiveR(w) /\ \A u \in Thread : Signals(u, w) => u = t

\* The word of a Once: RUNNING as long as one thread is in its initialiser, and
\* only then with waiters.
Runs(t) == RunsAt(pc[t])
OnceStates == {"INCOMPLETE", "POISONED", "RUNNING", "COMPLETE"}
OnceType ==
    /\ DOMAIN once = {"st", "head"}
    /\ once.st \in OnceStates /\ once.head \in Thread \union {None}
    /\ DOMAIN next = Thread /\ \A t \in Thread : next[t] \in Thread \union {None}
RunInv ==
    /\ once.st # "RUNNING" => once.head = None
    /\ once.st = "RUNNING" <=> \E t \in Thread : Runs(t)
    /\ \A t, u \in Thread : Runs(t) /\ Runs(u) => t = u
\* What a thread has read, where it stands.
ReadsAt(l, c, r, x) ==
    /\ l = "once_drop" => x \in {"COMPLETE", "POISONED"}
    /\ l = "once_cas" => r.st \in {"INCOMPLETE", "POISONED"}
    /\ l = "once_wait" => r.st = "RUNNING"
    /\ l \in {"once_signal", "signal"} => r \in Thread
    /\ UnparksAt(l, c) => x \in Thread \union {None}
ReadInv == \A t \in Thread : ReadsAt(pc[t], cont[t], reg[t], setTo[t])

OnceInv == OnceType /\ ReadInv /\ RunInv /\ ListInv /\ ShotInv

SyncInv == Shape /\ Flow /\ MutexInv /\ OnceInv

-----------------------------------------------------------------------------
\* Only t moves, from one set of places to another.
Moves(t, from, to) ==
    /\ pc[t] \in from /\ pc'[t] \in to
    /\ \A u \in Thread : u # t => pc'[u] = pc[u] /\ cont'[u] = cont[u] /\ reg'[u] = reg[u]
    /\ Shape'

Idle == {"ready"}
Over == {"ready", "panic"}
Back(t, c) == cont' = [cont EXCEPT ![t] = c]

\* What the assignments do to the functions they assign to.
LEMMA GotoIs ==
    ASSUME NEW t \in Thread, NEW l, DOMAIN pc = Thread, Goto(t, l)
    PROVE  /\ DOMAIN pc' = Thread /\ pc'[t] = l
           /\ \A u \in Thread : u # t => pc'[u] = pc[u]
    BY Zenon DEF Goto

\* See GotoIs.
LEMMA BackIs ==
    ASSUME NEW t \in Thread, NEW c, DOMAIN cont = Thread,
           Back(t, c) \/ (UNCHANGED cont /\ c = cont[t])
    PROVE  /\ DOMAIN cont' = Thread /\ cont'[t] = c
           /\ \A u \in Thread : u # t => cont'[u] = cont[u]
    BY Zenon DEF Back

\* See GotoIs.
LEMMA LoadIs ==
    ASSUME NEW t \in Thread, NEW x, DOMAIN reg = Thread, Load(t, x)
    PROVE  /\ DOMAIN reg' = Thread /\ reg'[t] = x
           /\ \A u \in Thread : u # t => reg'[u] = reg[u]
    BY Zenon DEF Load

\* See GotoIs.
LEMMA PutIs ==
    ASSUME NEW w \in Word, NEW x, DOMAIN val = Word, Put(w, x)
    PROVE  /\ DOMAIN val' = Word /\ val'[w] = x
           /\ \A v \in Word : v # w => val'[v] = val[v]
    BY Zenon DEF Put

\* No place belongs to two parts.
LEMMA PlacesApart ==
    ASSUME NEW l
    PROVE  /\ l \in MutexPc => l \notin RwPc \union OncePc \union ParkPc \union Over
           /\ l \in RwPc => l \notin OncePc \union ParkPc \union Over
           /\ l \in OncePc => l \notin ParkPc \union Over
           /\ l \in ParkPc => l \notin Over
    BY SMT DEF MutexPc, AcquirePc, ReleasePc, LockedPc, CondPc, RwPc, OncePc, ParkPc,
        WaitPc, TimedPc, UnparkPc, Over

\* The words of the locks and of the threads.
LEMMA WordsApart ==
    /\ "mutex" \in Word /\ "cv" \in Word /\ "rw" \in Word /\ "writer_notify" \in Word
    /\ \A t \in Thread : t \in Word /\ t # "mutex" /\ t # "rw"
    BY ThreadAssumption, Zenon

-----------------------------------------------------------------------------
\* The places the state of the lock leads to are places of the lock.
LEMMA RwLabels ==
    ASSUME NEW s
    PROVE  /\ ReadLabel(s) \in RwPc \union Over
           /\ WriteLabel(s) \in RwPc \union Over
           /\ WakeLabel(s) \in RwPc \union Over
<1>1. ReadLabel(s) \in RwPc \union Over BY SMT DEF ReadLabel, RwPc, Over
<1>2. WriteLabel(s) \in RwPc \union Over BY SMT DEF WriteLabel, RwPc, Over
<1>3. WakeLabel(s) \in RwPc \union Over BY SMT DEF WakeLabel, RwPc, Over
<1> QED BY <1>1, <1>2, <1>3, Zenon

\* What the steps of the reader-writer lock touch.
RwTouch(t) ==
    /\ pc[t] \in RwPc \union Idle
    /\ \E l \in RwPc \union Over : Goto(t, l)
    /\ UNCHANGED reg \/ \E x : Load(t, x)
    /\ UNCHANGED val \/ \E x : Put("rw", x) \/ Put("writer_notify", x)
    /\ UNCHANGED cont

\* Each step of the reader-writer lock is such a step.
LEMMA RwTouches ==
    ASSUME NEW t \in Thread, RwStep(t)
    PROVE  RwTouch(t)
<1>1. CASE Read(t)
    BY <1>1, Zenon DEF Read, Ready, futexes, At, RwTouch, RwPc, Idle, Over
<1>2. CASE ReadFast(t)
    BY <1>2, Zenon DEF ReadFast, At, Keep3, Set, futexes, RwTouch, RwPc, Idle, Over
<1>3. CASE ReadSpin(t)
    BY <1>3, RwLabels, Zenon DEF ReadSpin, At, Keep3, futexes, RwTouch, RwPc, Idle, Over
<1>4. CASE ReadCas(t)
    BY <1>4, RwLabels, Zenon DEF ReadCas, At, Keep3, Cas, Set, futexes, RwTouch, RwPc, Idle,
        Over
<1>5. CASE ReadFlag(t)
    BY <1>5, RwLabels, Zenon DEF ReadFlag, At, Keep3, Cas, Set, futexes, RwTouch, RwPc,
        Idle, Over
<1>6. CASE ReadSleep(t)
    BY <1>6, Zenon DEF ReadSleep, At, Keep3, FutexWait, F!Wait, futexes, RwTouch, RwPc,
        Idle, Over
<1>7. CASE TryRead(t)
    BY <1>7, Zenon DEF TryRead, Ready, Set, futexes, Done, At, RwTouch, RwPc, Idle, Over
<1>8. CASE Write(t)
    BY <1>8, Zenon DEF Write, Ready, Set, futexes, At, RwTouch, RwPc, Idle, Over
<1>9. CASE WriteSpin(t)
    BY <1>9, RwLabels, Zenon DEF WriteSpin, At, Keep3, futexes, RwTouch, RwPc, Idle, Over
<1>10. CASE WriteCas(t)
    BY <1>10, RwLabels, Zenon DEF WriteCas, At, Keep3, Cas, Set, futexes, RwTouch, RwPc,
        Idle, Over
<1>11. CASE WriteFlag(t)
    BY <1>11, RwLabels, Zenon DEF WriteFlag, At, Keep3, Cas, Set, futexes, RwTouch, RwPc,
        Idle, Over
<1>12. CASE WriteSeq(t)
    BY <1>12, Zenon DEF WriteSeq, At, futexes, RwTouch, RwPc, Idle, Over
<1>13. CASE WriteCheck(t)
    BY <1>13, RwLabels, Zenon DEF WriteCheck, At, Keep3, futexes, RwTouch, RwPc, Idle, Over
<1>14. CASE WriteSleep(t)
    BY <1>14, Zenon DEF WriteSleep, At, Keep3, FutexWait, F!Wait, futexes, RwTouch, RwPc,
        Idle, Over
<1>15. CASE TryWrite(t)
    BY <1>15, Zenon DEF TryWrite, Ready, Set, futexes, Done, At, RwTouch, RwPc, Idle, Over
<1>16. CASE ReadUnlock(t)
    BY <1>16, RwLabels, Zenon DEF ReadUnlock, At, Keep3, Set, RwTouch, RwPc, Idle, Over
<1>17. CASE WriteUnlock(t)
    BY <1>17, RwLabels, Zenon DEF WriteUnlock, At, Keep3, Set, RwTouch, RwPc, Idle, Over
<1>18. CASE WakeWriters(t)
    BY <1>18, RwLabels, Zenon DEF WakeWriters, At, Keep3, Cas, Set, futexes, RwTouch, RwPc,
        Idle, Over
<1>19. CASE WakeBoth(t)
    BY <1>19, Zenon DEF WakeBoth, At, Keep3, Set, futexes, Done, RwTouch, RwPc, Idle, Over
<1>20. CASE WakeReaders(t)
    BY <1>20, Zenon DEF WakeReaders, At, Keep3, Set, futexes, Done, RwTouch, RwPc, Idle,
        Over
<1>21. CASE WakeWriter(t)
    BY <1>21, Zenon DEF WakeWriter, Keep3, At, RwTouch, RwPc, Idle, Over
<1>22. CASE WakeWriterFutex(t)
    BY <1>22, Zenon DEF WakeWriterFutex, Keep3, FutexWake, At, Done, F!WakeFirst, futexes,
        Woke, RwTouch, RwPc, Idle, Over
<1>23. CASE WakeAll(t)
    BY <1>23, Zenon DEF WakeAll, At, Keep3, FutexWake, F!WakeFirst, futexes, Woke, RwTouch,
        RwPc, Idle, Over
<1> QED BY <1>1, <1>2, <1>3, <1>4, <1>5, <1>6, <1>7, <1>8, <1>9, <1>10, <1>11, <1>12, <1>13,
        <1>14, <1>15, <1>16, <1>17, <1>18, <1>19, <1>20, <1>21, <1>22, <1>23,
        Zenon, ZenonT(30) DEF RwStep

\* A step of the reader-writer lock.
LEMMA RwMoves ==
    ASSUME NEW t \in Thread, Shape, RwStep(t), UNCHANGED ovars
    PROVE  /\ Moves(t, RwPc \union Idle, RwPc \union Over)
           /\ cont' = cont /\ val'["mutex"] = val["mutex"]
<1>1. RwTouch(t) BY RwTouches
<1>2. PICK l \in RwPc \union Over : Goto(t, l) BY <1>1, Zenon DEF RwTouch
<1>4. /\ DOMAIN pc' = Thread /\ pc'[t] = l
      /\ \A u \in Thread : u # t => pc'[u] = pc[u] BY <1>2, GotoIs, Zenon DEF Shape
<1>5. DOMAIN reg' = Thread /\ \A u \in Thread : u # t => reg'[u] = reg[u]
    BY <1>1, LoadIs, Zenon DEF RwTouch, Shape
<1>6. DOMAIN val' = Word /\ val'["mutex"] = val["mutex"]
  <2>1. CASE UNCHANGED val BY <2>1, Zenon DEF Shape
  <2>2. ASSUME NEW x, Put("rw", x) PROVE DOMAIN val' = Word /\ val'["mutex"] = val["mutex"]
    <3>1. "rw" # "mutex" BY Zenon
    <3> QED BY <2>2, <3>1, WordsApart, PutIs, Zenon DEF Shape
  <2>3. ASSUME NEW x, Put("writer_notify", x) PROVE DOMAIN val' = Word /\ val'["mutex"] = val["mutex"]
    <3>1. "writer_notify" # "mutex" BY Zenon
    <3> QED BY <2>3, <3>1, WordsApart, PutIs, Zenon DEF Shape
  <2> QED BY <1>1, <2>1, <2>2, <2>3, Zenon DEF RwTouch
<1>7. cont' = cont BY <1>1, Zenon DEF RwTouch
<1>8. setTo' = setTo BY DEF ovars
<1> QED BY <1>1, <1>4, <1>5, <1>6, <1>7, <1>8, Zenon DEF Moves, Shape, RwTouch

-----------------------------------------------------------------------------
\* What the steps of the mutex, the condition variable and the parker touch.
LocksTouch(t) ==
    /\ pc[t] \in MutexPc \union Idle
    /\ \E l \in MutexPc \union Over : \E c :
          /\ Goto(t, l) /\ MutexFlow(l, c)
          /\ Back(t, c) \/ (UNCHANGED cont /\ c = cont[t])
    /\ UNCHANGED reg \/ \E x : Load(t, x)
    /\ UNCHANGED val \/ \E x : Put("mutex", x) \/ Put("cv", x)

\* Each of their steps is such a step.
LEMMA LocksTouches ==
    ASSUME NEW t \in Thread, Shape, Flow, LocksStep(t)
    PROVE  LocksTouch(t)
<1> MutexFlow(pc[t], cont[t]) BY Zenon DEF Flow
<1>1. CASE StartCritical(t)
    BY <1>1, Zenon DEF StartCritical, Ready, Call, futexes, lvars, Done, At, Back,
        LocksTouch, MutexFlow, MutexPc, AcquirePc, ReleasePc, LockedPc, CondPc, Idle, Over
<1>2. CASE Critical(t)
    BY <1>2, Zenon DEF Critical, At, Call, futexes, lvars, Back, LocksTouch, MutexFlow,
        MutexPc, AcquirePc, ReleasePc, LockedPc, CondPc, Idle, Over
<1>3. CASE TryLock(t)
    BY <1>3, Zenon DEF TryLock, At, Keep, futexes, lvars, Back, LocksTouch, MutexFlow,
        MutexPc, AcquirePc, ReleasePc, LockedPc, CondPc, Idle, Over
<1>4. CASE MutexSpin(t)
    BY <1>4, Zenon DEF MutexSpin, At, Keep, futexes, Contended, lvars, Back, LocksTouch,
        MutexFlow, MutexPc, AcquirePc, ReleasePc, LockedPc, CondPc, Idle, Over
<1>5. CASE MutexCas(t)
    BY <1>5, Zenon DEF MutexCas, At, Keep, futexes, Contended, lvars, Back, LocksTouch,
        MutexFlow, MutexPc, AcquirePc, ReleasePc, LockedPc, CondPc, Idle, Over
<1>6. CASE MutexSwap(t)
    BY <1>6, Zenon DEF MutexSwap, At, Keep, lvars, Back, LocksTouch, MutexFlow, MutexPc,
        AcquirePc, ReleasePc, LockedPc, CondPc, Idle, Over
<1>7. CASE MutexWait(t)
    BY <1>7, Zenon DEF MutexWait, At, Keep, FutexWait, lvars, F!Wait, futexes, Back,
        LocksTouch, MutexFlow, MutexPc, AcquirePc, ReleasePc, LockedPc, CondPc, Idle, Over
<1>8. CASE MutexRespin(t)
    BY <1>8, Zenon DEF MutexRespin, At, Keep, futexes, Contended, lvars, Back, LocksTouch,
        MutexFlow, MutexPc, AcquirePc, ReleasePc, LockedPc, CondPc, Idle, Over
<1>9. CASE MutexUnlock(t)
    BY <1>9, Zenon DEF MutexUnlock, At, Keep, lvars, Back, LocksTouch, MutexFlow, MutexPc,
        AcquirePc, ReleasePc, LockedPc, CondPc, Idle, Over
<1>10. CASE MutexWake(t)
    BY <1>10, Zenon DEF MutexWake, At, Keep, FutexWake, lvars, F!WakeFirst, futexes, Woke,
        Back, LocksTouch, MutexFlow, MutexPc, AcquirePc, ReleasePc, LockedPc, CondPc, Idle,
        Over
<1>11. CASE CvWait(t)
    BY <1>11, Zenon DEF CvWait, At, Call, futexes, lvars, Back, LocksTouch, MutexFlow,
        MutexPc, AcquirePc, ReleasePc, LockedPc, CondPc, Idle, Over
<1>12. CASE CvSleep(t)
    BY <1>12, Zenon DEF CvSleep, At, Keep, FutexWait, lvars, F!Wait, futexes, Back,
        LocksTouch, MutexFlow, MutexPc, AcquirePc, ReleasePc, LockedPc, CondPc, Idle, Over
<1>13. CASE CvLock(t)
    BY <1>13, Zenon DEF CvLock, At, Call, futexes, lvars, Back, LocksTouch, MutexFlow,
        MutexPc, AcquirePc, ReleasePc, LockedPc, CondPc, Idle, Over
<1>14. CASE NotifyOne(t)
    BY <1>14, Zenon DEF NotifyOne, At, Keep, lvars, Back, LocksTouch, MutexFlow, MutexPc,
        AcquirePc, ReleasePc, LockedPc, CondPc, Idle, Over
<1>15. CASE NotifyWake(t)
    BY <1>15, Zenon DEF NotifyWake, At, Keep, FutexWake, Done, lvars, F!WakeFirst, futexes,
        Woke, Back, LocksTouch, MutexFlow, MutexPc, AcquirePc, ReleasePc, LockedPc, CondPc,
        Idle, Over
<1>16. CASE \E timed \in BOOLEAN : PPark(t, timed)
    BY <1>16, Zenon DEF PPark, Ready, Done, Call, futexes, At, Back, LocksTouch, MutexFlow,
        MutexPc, AcquirePc, ReleasePc, LockedPc, CondPc, Idle, Over
<1>17. CASE PSet(t)
    BY <1>17, Zenon DEF PSet, At, futexes, Call, Back, LocksTouch, MutexFlow, MutexPc,
        AcquirePc, ReleasePc, LockedPc, CondPc, Idle, Over
<1>18. CASE PLoop(t)
    BY <1>18, Zenon DEF PLoop, At, futexes, Call, Back, LocksTouch, MutexFlow, MutexPc,
        AcquirePc, ReleasePc, LockedPc, CondPc, Idle, Over
<1>19. CASE PCheck(t)
    BY <1>19, Zenon DEF PCheck, At, futexes, Call, Back, LocksTouch, MutexFlow, MutexPc,
        AcquirePc, ReleasePc, LockedPc, CondPc, Idle, Over
<1>20. CASE PUnpark(t)
    BY <1>20, Zenon DEF PUnpark, Ready, Call, Done, futexes, At, Back, LocksTouch,
        MutexFlow, MutexPc, AcquirePc, ReleasePc, LockedPc, CondPc, Idle, Over
<1>21. CASE PUnparkLocked(t)
    BY <1>21, Zenon DEF PUnparkLocked, At, Call, futexes, lvars, Back, LocksTouch,
        MutexFlow, MutexPc, AcquirePc, ReleasePc, LockedPc, CondPc, Idle, Over
<1> QED BY <1>1, <1>2, <1>3, <1>4, <1>5, <1>6, <1>7, <1>8, <1>9, <1>10, <1>11, <1>12, <1>13,
        <1>14, <1>15, <1>16, <1>17, <1>18, <1>19, <1>20, <1>21, Zenon DEF LocksStep

\* A step of the mutex, the condition variable or the parker.
LEMMA LocksMoves ==
    ASSUME NEW t \in Thread, Shape, Flow, LocksStep(t), UNCHANGED ovars
    PROVE  /\ Moves(t, MutexPc \union Idle, MutexPc \union Over)
           /\ MutexFlow(pc'[t], cont'[t]) /\ val'["rw"] = val["rw"]
<1>1. LocksTouch(t) BY LocksTouches
<1>2. PICK l \in MutexPc \union Over : \E c :
          /\ Goto(t, l) /\ MutexFlow(l, c)
          /\ Back(t, c) \/ (UNCHANGED cont /\ c = cont[t])
    BY <1>1, Zenon DEF LocksTouch
<1>3. PICK c :
          /\ Goto(t, l) /\ MutexFlow(l, c)
          /\ Back(t, c) \/ (UNCHANGED cont /\ c = cont[t])
    BY <1>2, Zenon
<1>5. /\ DOMAIN pc' = Thread /\ pc'[t] = l
      /\ \A u \in Thread : u # t => pc'[u] = pc[u] BY <1>3, GotoIs, Zenon DEF Shape
<1>6. /\ DOMAIN cont' = Thread /\ cont'[t] = c
      /\ \A u \in Thread : u # t => cont'[u] = cont[u] BY <1>3, BackIs, Zenon DEF Shape
<1>7. DOMAIN reg' = Thread /\ \A u \in Thread : u # t => reg'[u] = reg[u]
    BY <1>1, LoadIs, Zenon DEF LocksTouch, Shape
<1>8. DOMAIN val' = Word /\ val'["rw"] = val["rw"]
  <2>1. CASE UNCHANGED val BY <2>1, Zenon DEF Shape
  <2>2. ASSUME NEW x, Put("mutex", x) PROVE DOMAIN val' = Word /\ val'["rw"] = val["rw"]
    <3>1. "mutex" # "rw" BY Zenon
    <3> QED BY <2>2, <3>1, WordsApart, PutIs, Zenon DEF Shape
  <2>3. ASSUME NEW x, Put("cv", x) PROVE DOMAIN val' = Word /\ val'["rw"] = val["rw"]
    <3>1. "cv" # "rw" BY Zenon
    <3> QED BY <2>3, <3>1, WordsApart, PutIs, Zenon DEF Shape
  <2> QED BY <1>1, <2>1, <2>2, <2>3, Zenon DEF LocksTouch
<1>9. setTo' = setTo BY DEF ovars
<1> QED BY <1>1, <1>3, <1>5, <1>6, <1>7, <1>8, <1>9, Zenon DEF Moves, Shape, LocksTouch

-----------------------------------------------------------------------------
\* What the steps of Once and of the one-shot channel touch.
OnceTouch(t) ==
    /\ pc[t] \in OncePc \union Idle
    /\ \/ UNCHANGED cont /\ \E l \in OncePc \union Over : Goto(t, l)
       \/ Goto(t, "park") /\ \E c \in {"once_check", "recv_check"} : Back(t, c)
       \/ /\ Goto(t, "unpark") /\ \E c \in {"ready", "once_next"} : Back(t, c)
          /\ UNCHANGED reg /\ reg[t] \in Thread
    /\ UNCHANGED reg \/ \E x : Load(t, x)
    /\ DOMAIN setTo' = DOMAIN setTo
    /\ UNCHANGED val

\* The state of a Once leads to places of its own.
LEMMA OnceLabels ==
    ASSUME NEW s
    PROVE  OnceLabel(s) \in {"ready", "once_wait", "once_cas"}
    BY SMT DEF OnceLabel

\* Each of their steps is such a step: whom they unpark is a thread.
LEMMA OnceTouches ==
    ASSUME NEW t \in Thread, Shape, ReadInv, OnceStep(t)
    PROVE  OnceTouch(t)
<1>a. pc[t] = "once_signal" \/ pc[t] = "signal" => reg[t] \in Thread
    BY Zenon DEF ReadInv, ReadsAt
<1>1. CASE \E force \in BOOLEAN : CallOnce(t, force)
    BY <1>1, Zenon DEF CallOnce, Ready, futexes, svars, At, Back, OnceTouch, OncePc, WaitPc,
        UnparkPc, Idle, Over
<1>2. CASE OnceLoad(t)
    BY <1>2, OnceLabels, Zenon DEF OnceLoad, At, Act, futexes, ovars, svars, Done, Back,
        OnceTouch, OncePc, WaitPc, UnparkPc, Idle, Over
<1>3. CASE OnceCas(t)
    BY <1>3, OnceLabels, Zenon DEF OnceCas, At, futexes, svars, Act, Done, Back, OnceTouch,
        OncePc, WaitPc, UnparkPc, Idle, Over
<1>4. CASE OnceInit(t)
    BY <1>4, Zenon DEF OnceInit, At, KeepO, futexes, svars, Back, OnceTouch, OncePc, WaitPc,
        UnparkPc, Idle, Over
<1>5. CASE OnceDrop(t)
    BY <1>5, Zenon DEF OnceDrop, At, KeepO, futexes, svars, Back, OnceTouch, OncePc, WaitPc,
        UnparkPc, Idle, Over
<1>6. CASE OnceSignal(t)
    BY <1>6, <1>a, Zenon DEF OnceSignal, At, Call, futexes, svars, Back, OnceTouch, OncePc,
        WaitPc, UnparkPc, Idle, Over
<1>7. CASE OnceNext(t)
    BY <1>7, Zenon DEF OnceNext, At, KeepO, futexes, ovars, svars, Back, OnceTouch, OncePc,
        WaitPc, UnparkPc, Idle, Over
<1>8. CASE OnceWait(t)
    BY <1>8, Zenon DEF OnceWait, At, KeepO, futexes, svars, Back, OnceTouch, OncePc, WaitPc,
        UnparkPc, Idle, Over
<1>9. CASE OnceCheck(t)
    BY <1>9, Zenon DEF OnceCheck, At, futexes, ovars, svars, Call, Back, OnceTouch, OncePc,
        WaitPc, UnparkPc, Idle, Over
<1>10. CASE Send(t)
    BY <1>10, Zenon DEF Send, Ready, futexes, ovars, At, Back, OnceTouch, OncePc, WaitPc,
        UnparkPc, Idle, Over
<1>11. CASE SendSwap(t)
    BY <1>11, Zenon DEF SendSwap, At, futexes, ovars, Back, OnceTouch, OncePc, WaitPc,
        UnparkPc, Idle, Over
<1>12. CASE SendBack(t)
    BY <1>12, Zenon DEF SendBack, At, futexes, ovars, Back, OnceTouch, OncePc, WaitPc,
        UnparkPc, Idle, Over
<1>13. CASE DropChan(t)
    BY <1>13, Zenon DEF DropChan, Ready, futexes, ovars, At, Back, OnceTouch, OncePc,
        WaitPc, UnparkPc, Idle, Over
<1>14. CASE Signal(t)
    BY <1>14, <1>a, Zenon DEF Signal, At, Done, Call, KeepS, futexes, svars, Back,
        OnceTouch, OncePc, WaitPc, UnparkPc, Idle, Over
<1>15. CASE Recv(t)
    BY <1>15, Zenon DEF Recv, Ready, futexes, ovars, svars, At, Back, OnceTouch, OncePc,
        WaitPc, UnparkPc, Idle, Over
<1>16. CASE RecvBlock(t)
    BY <1>16, Zenon DEF RecvBlock, At, KeepS, futexes, Back, OnceTouch, OncePc, WaitPc,
        UnparkPc, Idle, Over
<1>17. CASE RecvCheck(t)
    BY <1>17, Zenon DEF RecvCheck, At, KeepS, futexes, svars, Call, Back, OnceTouch, OncePc,
        WaitPc, UnparkPc, Idle, Over
<1>18. CASE TryRecv(t)
    BY <1>18, Zenon DEF TryRecv, At, futexes, ovars, svars, Back, OnceTouch, OncePc, WaitPc,
        UnparkPc, Idle, Over
<1>19. CASE RecvCas(t)
    BY <1>19, Zenon DEF RecvCas, At, futexes, ovars, Back, OnceTouch, OncePc, WaitPc,
        UnparkPc, Idle, Over
<1>20. CASE RecvTake(t)
    BY <1>20, Zenon DEF RecvTake, At, Done, futexes, ovars, Back, OnceTouch, OncePc, WaitPc,
        UnparkPc, Idle, Over
<1>21. CASE DropPort(t)
    BY <1>21, Zenon DEF DropPort, Ready, futexes, ovars, At, Back, OnceTouch, OncePc,
        WaitPc, UnparkPc, Idle, Over
<1>22. CASE StartTryRecv(t)
    BY <1>22, Zenon DEF StartTryRecv, Ready, futexes, ovars, svars, At, Back, OnceTouch,
        OncePc, WaitPc, UnparkPc, Idle, Over
<1> QED BY <1>1, <1>2, <1>3, <1>4, <1>5, <1>6, <1>7, <1>8, <1>9, <1>10, <1>11, <1>12, <1>13,
        <1>14, <1>15, <1>16, <1>17, <1>18, <1>19, <1>20, <1>21, <1>22, Zenon DEF OnceStep

\* A step of Once or of the one-shot channel.
LEMMA OnceMoves ==
    ASSUME NEW t \in Thread, Shape, ReadInv, OnceStep(t)
    PROVE  /\ Moves(t, OncePc \union Idle, OncePc \union ParkPc \union Over)
           /\ ParkFlow(pc'[t], cont'[t], reg'[t]) /\ val' = val
<1>1. OnceTouch(t) BY OnceTouches
<1>2. PICK l, c :
          /\ Goto(t, l) /\ l \in OncePc \union ParkPc \union Over
          /\ Back(t, c) \/ (UNCHANGED cont /\ c = cont[t])
          /\ ParkFlow(l, c, reg'[t])
  <2>1. CASE UNCHANGED cont /\ \E l \in OncePc \union Over : Goto(t, l)
    <3>1. PICK l \in OncePc \union Over : Goto(t, l) BY <2>1, Zenon
    <3>2. ParkFlow(l, cont[t], reg'[t]) BY PlacesApart, Zenon DEF ParkFlow, ParkPc
    <3> QED BY <2>1, <3>1, <3>2, Zenon
  <2>2. CASE Goto(t, "park") /\ \E c \in {"once_check", "recv_check"} : Back(t, c)
    <3>1. PICK c \in {"once_check", "recv_check"} : Back(t, c) BY <2>2, Zenon
    <3>2. ParkFlow("park", c, reg'[t]) /\ "park" \in ParkPc
        BY Zenon DEF ParkFlow, ParkPc, WaitPc, TimedPc, UnparkPc
    <3> QED BY <2>2, <3>1, <3>2, Zenon
  <2>3. CASE /\ Goto(t, "unpark") /\ \E c \in {"ready", "once_next"} : Back(t, c)
             /\ UNCHANGED reg /\ reg[t] \in Thread
    <3>1. PICK c \in {"ready", "once_next"} : Back(t, c) BY <2>3, Zenon
    <3>2. ParkFlow("unpark", c, reg'[t]) /\ "unpark" \in ParkPc
        BY <2>3, Zenon DEF ParkFlow, ParkPc, WaitPc, TimedPc, UnparkPc
    <3> QED BY <2>3, <3>1, <3>2, Zenon
  <2> QED BY <1>1, <2>1, <2>2, <2>3, Zenon DEF OnceTouch
<1>4. /\ DOMAIN pc' = Thread /\ pc'[t] = l
      /\ \A u \in Thread : u # t => pc'[u] = pc[u] BY <1>2, GotoIs, Zenon DEF Shape
<1>5. /\ DOMAIN cont' = Thread /\ cont'[t] = c
      /\ \A u \in Thread : u # t => cont'[u] = cont[u] BY <1>2, BackIs, Zenon DEF Shape
<1>6. DOMAIN reg' = Thread /\ \A u \in Thread : u # t => reg'[u] = reg[u]
    BY <1>1, LoadIs, Zenon DEF OnceTouch, Shape
<1>7. val' = val /\ DOMAIN setTo' = Thread BY <1>1, Zenon DEF OnceTouch, Shape
<1> QED BY <1>1, <1>2, <1>4, <1>5, <1>6, <1>7, Zenon DEF Moves, Shape, OnceTouch

-----------------------------------------------------------------------------
\* What park and unpark touch; they return to who called them.
Returns == {"ready", "once_check", "recv_check", "once_next"}
ThreadTouch(t) ==
    \/ UNCHANGED <<pc, cont, reg, val>>
    \/ /\ pc[t] \in ParkPc \union Idle
       /\ \E l \in ParkPc \union Returns : \E c, r :
             /\ Goto(t, l) /\ ParkFlow(l, c, r)
             /\ Back(t, c) \/ (UNCHANGED cont /\ c = cont[t])
             /\ Load(t, r) \/ (UNCHANGED reg /\ r = reg[t])
       /\ UNCHANGED val \/ \E w \in Thread : \E x : Put(w, x)

\* Each step of the parker in the kernel's hands is such a step.
LEMMA ThreadTouches ==
    ASSUME NEW t \in Thread, Shape, Flow, ThreadStep(t)
    PROVE  ThreadTouch(t)
<1> ParkFlow(pc[t], cont[t], reg[t]) BY Zenon DEF Flow
<1>1. CASE Resume(t)
    BY <1>1, Zenon DEF Resume, F!Return, F!TimeOut, Back, ThreadTouch, ParkFlow, ParkPc,
        WaitPc, TimedPc, UnparkPc, Idle, Returns
<1>2. CASE Expire(t)
    BY <1>2, Zenon DEF Expire, F!TimeOut, F!Return, Back, ThreadTouch, ParkFlow, ParkPc,
        WaitPc, TimedPc, UnparkPc, Idle, Returns
<1>3. CASE StartPark(t)
    BY <1>3, Zenon DEF StartPark, futexes, Ready, Call, At, F!TimeOut, F!Return, Back,
        ThreadTouch, ParkFlow, ParkPc, WaitPc, TimedPc, UnparkPc, Idle, Returns
<1>4. CASE Park(t)
    BY <1>4, Zenon DEF Park, At, F!TimeOut, F!Return, Back, ThreadTouch, ParkFlow, ParkPc,
        WaitPc, TimedPc, UnparkPc, Idle, Returns
<1>5. CASE ParkWait(t)
    BY <1>5, Zenon DEF ParkWait, At, FutexWait, F!Wait, futexes, F!TimeOut, F!Return, Back,
        ThreadTouch, ParkFlow, ParkPc, WaitPc, TimedPc, UnparkPc, Idle, Returns
<1>6. CASE ParkWoken(t)
    BY <1>6, Zenon DEF ParkWoken, At, futexes, F!TimeOut, F!Return, Back, ThreadTouch,
        ParkFlow, ParkPc, WaitPc, TimedPc, UnparkPc, Idle, Returns
<1>7. CASE ParkTimeout(t)
    BY <1>7, Zenon DEF ParkTimeout, At, F!TimeOut, F!Return, Back, ThreadTouch, ParkFlow,
        ParkPc, WaitPc, TimedPc, UnparkPc, Idle, Returns
<1>8. CASE ParkTimedWait(t)
    BY <1>8, Zenon DEF ParkTimedWait, At, FutexWait, F!Wait, futexes, F!TimeOut, F!Return,
        Back, ThreadTouch, ParkFlow, ParkPc, WaitPc, TimedPc, UnparkPc, Idle, Returns
<1>9. CASE ParkTimedWoken(t)
    BY <1>9, Zenon DEF ParkTimedWoken, At, F!TimeOut, F!Return, Back, ThreadTouch, ParkFlow,
        ParkPc, WaitPc, TimedPc, UnparkPc, Idle, Returns
<1>10. CASE Unpark(t)
    BY <1>10, Zenon DEF Unpark, At, F!TimeOut, F!Return, Back, ThreadTouch, ParkFlow,
        ParkPc, WaitPc, TimedPc, UnparkPc, Idle, Returns
<1>11. CASE UnparkWake(t)
    BY <1>11, Zenon DEF UnparkWake, At, FutexWake, F!WakeFirst, futexes, Woke, F!TimeOut,
        F!Return, Back, ThreadTouch, ParkFlow, ParkPc, WaitPc, TimedPc, UnparkPc, Idle,
        Returns
<1> QED BY <1>1, <1>2, <1>3, <1>4, <1>5, <1>6, <1>7, <1>8, <1>9, <1>10, <1>11,
        Zenon DEF ThreadStep

\* A step of park, of unpark, or of the kernel that wakes a thread.
LEMMA ThreadMoves ==
    ASSUME NEW t \in Thread, Shape, Flow, ThreadStep(t), UNCHANGED ovars
    PROVE  /\ val'["mutex"] = val["mutex"] /\ val'["rw"] = val["rw"]
           /\ \/ UNCHANGED <<pc, cont, reg>> /\ Shape'
              \/ /\ Moves(t, ParkPc \union Idle, ParkPc \union Returns)
                 /\ ParkFlow(pc'[t], cont'[t], reg'[t])
<1>1. ThreadTouch(t) BY ThreadTouches
<1>2. setTo' = setTo BY DEF ovars
<1>3. CASE UNCHANGED <<pc, cont, reg, val>>
    BY <1>2, <1>3, Zenon DEF Shape
<1>4. CASE ~UNCHANGED <<pc, cont, reg, val>>
  <2>1. PICK l \in ParkPc \union Returns : \E c, r :
            /\ Goto(t, l) /\ ParkFlow(l, c, r)
            /\ Back(t, c) \/ (UNCHANGED cont /\ c = cont[t])
            /\ Load(t, r) \/ (UNCHANGED reg /\ r = reg[t])
      BY <1>1, <1>4, Zenon DEF ThreadTouch
  <2>2. PICK c, r :
            /\ Goto(t, l) /\ ParkFlow(l, c, r)
            /\ Back(t, c) \/ (UNCHANGED cont /\ c = cont[t])
            /\ Load(t, r) \/ (UNCHANGED reg /\ r = reg[t])
      BY <2>1, Zenon
  <2>3. /\ DOMAIN pc' = Thread /\ pc'[t] = l
        /\ \A u \in Thread : u # t => pc'[u] = pc[u] BY <2>2, GotoIs, Zenon DEF Shape
  <2>4. /\ DOMAIN cont' = Thread /\ cont'[t] = c
        /\ \A u \in Thread : u # t => cont'[u] = cont[u] BY <2>2, BackIs, Zenon DEF Shape
  <2>5. /\ DOMAIN reg' = Thread /\ reg'[t] = r
        /\ \A u \in Thread : u # t => reg'[u] = reg[u] BY <2>2, LoadIs, Zenon DEF Shape
  <2>6. UNCHANGED val \/ \E w \in Thread : \E x : Put(w, x)
      BY <1>1, <1>4, Zenon DEF ThreadTouch
  <2>7. DOMAIN val' = Word /\ val'["mutex"] = val["mutex"] /\ val'["rw"] = val["rw"]
      BY <2>6, WordsApart, PutIs, ZenonT(30) DEF Shape
  <2>8. pc[t] \in ParkPc \union Idle BY <1>1, <1>4, Zenon DEF ThreadTouch
  <2> QED BY <1>2, <2>2, <2>3, <2>4, <2>5, <2>7, <2>8, Zenon DEF Moves, Shape
<1> QED BY <1>3, <1>4, Zenon

-----------------------------------------------------------------------------
\* The places outside a part say nothing of its subroutines.
LEMMA FlowAway ==
    ASSUME NEW l, NEW c, NEW r
    PROVE  /\ l \notin MutexPc => MutexFlow(l, c)
           /\ l \notin ParkPc => ParkFlow(l, c, r)
    BY Zenon DEF MutexFlow, ParkFlow, MutexPc, ParkPc

\* A step of one thread leaves the others' subroutines alone.
LEMMA FlowMoves ==
    ASSUME NEW t \in Thread, NEW from, NEW to, Flow, Moves(t, from, to),
           MutexFlow(pc'[t], cont'[t]), ParkFlow(pc'[t], cont'[t], reg'[t])
    PROVE  Flow'
<1> SUFFICES ASSUME NEW u \in Thread
             PROVE  MutexFlow(pc'[u], cont'[u]) /\ ParkFlow(pc'[u], cont'[u], reg'[u])
    BY Zenon DEF Flow, MutexFlow, ParkFlow
<1>1. CASE u = t BY <1>1, Zenon
<1>2. CASE u # t
  <2>1. pc'[u] = pc[u] /\ cont'[u] = cont[u] /\ reg'[u] = reg[u] BY <1>2, Zenon DEF Moves
  <2>2. MutexFlow(pc[u], cont[u]) /\ ParkFlow(pc[u], cont[u], reg[u]) BY Zenon DEF Flow
  <2> QED BY <2>1, <2>2, Zenon
<1> QED BY <1>1, <1>2, Zenon

\* Every step keeps the subroutines' places of return.
LEMMA FlowStep ==
    ASSUME NEW t \in Thread, Shape, Flow, ReadInv, SyncStep(t)
    PROVE  Shape' /\ Flow'
<1>1. CASE ThreadStep(t) /\ UNCHANGED <<lvars, rvars, ovars, svars>>
  <2>1. CASE UNCHANGED <<pc, cont, reg>> /\ Shape' BY <2>1, Zenon DEF Flow, MutexFlow, ParkFlow
  <2>2. CASE /\ Moves(t, ParkPc \union Idle, ParkPc \union Returns)
             /\ ParkFlow(pc'[t], cont'[t], reg'[t])
    <3>1. pc'[t] \notin MutexPc
        BY <2>2, PlacesApart, Zenon DEF Moves, Returns, OncePc, Over
    <3> QED BY <2>2, <3>1, FlowAway, FlowMoves, Zenon DEF Moves
  <2> QED BY <1>1, <2>1, <2>2, ThreadMoves, Zenon
<1>2. CASE LocksStep(t) /\ UNCHANGED <<rvars, ovars, svars>>
  <2>1. /\ Moves(t, MutexPc \union Idle, MutexPc \union Over)
        /\ MutexFlow(pc'[t], cont'[t]) BY <1>2, LocksMoves, Zenon
  <2>2. pc'[t] \notin ParkPc BY <2>1, PlacesApart, Zenon DEF Moves
  <2> QED BY <2>1, <2>2, FlowAway, FlowMoves, Zenon DEF Moves
<1>3. CASE RwStep(t) /\ UNCHANGED <<lvars, ovars, svars>>
  <2>1. Moves(t, RwPc \union Idle, RwPc \union Over) BY <1>3, RwMoves, Zenon
  <2>2. pc'[t] \notin ParkPc /\ pc'[t] \notin MutexPc BY <2>1, PlacesApart, Zenon DEF Moves
  <2> QED BY <2>1, <2>2, FlowAway, FlowMoves, Zenon DEF Moves
<1>4. CASE OnceStep(t) /\ UNCHANGED <<lvars, rvars>>
  <2>1. /\ Moves(t, OncePc \union Idle, OncePc \union ParkPc \union Over)
        /\ ParkFlow(pc'[t], cont'[t], reg'[t]) BY <1>4, OnceMoves, Zenon
  <2>2. pc'[t] \notin MutexPc BY <2>1, PlacesApart, Zenon DEF Moves
  <2> QED BY <2>1, <2>2, FlowAway, FlowMoves, Zenon DEF Moves
<1> QED BY <1>1, <1>2, <1>3, <1>4, Zenon DEF SyncStep

-----------------------------------------------------------------------------
HoldPc == LockedPc \union {"unlock"}
FreePc == AcquirePc \union {"mutex_wake"} \union CondPc \union Over

\* What a step of the mutex does to who holds it: nothing, or it takes the free
\* mutex, or it gives it back.
MutexEffect(t) ==
    \/ /\ \/ \E l \in FreePc : Goto(t, l)
          \/ pc[t] \in HoldPc /\ \E l : Goto(t, l)
       /\ UNCHANGED val \/ Put("mutex", 2) \/ \E x : Put("cv", x)
    \/ /\ \E l : Goto(t, l)
       /\ Mutex = 0 /\ (Put("mutex", 1) \/ Put("mutex", 2))
    \/ /\ \E l \in FreePc : Goto(t, l)
       /\ pc[t] = "unlock" /\ Put("mutex", 0)

\* Each step of the mutex, the condition variable and the parker does one of
\* these.
LEMMA MutexEffects ==
    ASSUME NEW t \in Thread, Flow, LocksStep(t)
    PROVE  MutexEffect(t)
<1>a. MutexFlow(pc[t], cont[t]) BY Zenon DEF Flow
<1>1. CASE StartCritical(t)
    BY <1>1, Zenon DEF StartCritical, Ready, Call, futexes, lvars, Done, At, MutexEffect,
        HoldPc, FreePc, AcquirePc, LockedPc, CondPc, Over
<1>2. CASE Critical(t)
    BY <1>2, Zenon DEF Critical, At, Call, futexes, lvars, MutexEffect, HoldPc, FreePc,
        AcquirePc, LockedPc, CondPc, Over
<1>3. CASE TryLock(t)
    BY <1>3, Zenon DEF TryLock, At, Keep, futexes, lvars, MutexEffect, HoldPc, FreePc,
        AcquirePc, LockedPc, CondPc, Over
<1>4. CASE MutexSpin(t)
    BY <1>4, Zenon DEF MutexSpin, At, Keep, futexes, Contended, lvars, MutexEffect, HoldPc,
        FreePc, AcquirePc, LockedPc, CondPc, Over, Contended
<1>5. CASE MutexCas(t)
    BY <1>5, Zenon DEF MutexCas, At, Keep, futexes, Contended, lvars, MutexEffect, HoldPc,
        FreePc, AcquirePc, LockedPc, CondPc, Over, Contended
<1>6. CASE MutexSwap(t)
    BY <1>6, Zenon DEF MutexSwap, At, Keep, lvars, MutexEffect, HoldPc, FreePc, AcquirePc,
        LockedPc, CondPc, Over
<1>7. CASE MutexWait(t)
    BY <1>7, Zenon DEF MutexWait, At, Keep, FutexWait, lvars, F!Wait, futexes, MutexEffect,
        HoldPc, FreePc, AcquirePc, LockedPc, CondPc, Over
<1>8. CASE MutexRespin(t)
    BY <1>8, Zenon DEF MutexRespin, At, Keep, futexes, Contended, lvars, MutexEffect,
        HoldPc, FreePc, AcquirePc, LockedPc, CondPc, Over, Contended
<1>9. CASE MutexUnlock(t)
    BY <1>9, <1>a, Zenon DEF MutexUnlock, At, Keep, lvars, MutexEffect, HoldPc, FreePc,
        AcquirePc, LockedPc, CondPc, Over, MutexFlow, ReleasePc
<1>10. CASE MutexWake(t)
    BY <1>10, <1>a, Zenon DEF MutexWake, At, Keep, FutexWake, lvars, F!WakeFirst, futexes,
        Woke, MutexEffect, HoldPc, FreePc, AcquirePc, LockedPc, CondPc, Over, MutexFlow,
        ReleasePc
<1>11. CASE CvWait(t)
    BY <1>11, Zenon DEF CvWait, At, Call, futexes, lvars, MutexEffect, HoldPc, FreePc,
        AcquirePc, LockedPc, CondPc, Over
<1>12. CASE CvSleep(t)
    BY <1>12, Zenon DEF CvSleep, At, Keep, FutexWait, lvars, F!Wait, futexes, MutexEffect,
        HoldPc, FreePc, AcquirePc, LockedPc, CondPc, Over
<1>13. CASE CvLock(t)
    BY <1>13, Zenon DEF CvLock, At, Call, futexes, lvars, MutexEffect, HoldPc, FreePc,
        AcquirePc, LockedPc, CondPc, Over
<1>14. CASE NotifyOne(t)
    BY <1>14, Zenon DEF NotifyOne, At, Keep, lvars, MutexEffect, HoldPc, FreePc, AcquirePc,
        LockedPc, CondPc, Over
<1>15. CASE NotifyWake(t)
    BY <1>15, Zenon DEF NotifyWake, At, Keep, FutexWake, Done, lvars, F!WakeFirst, futexes,
        Woke, MutexEffect, HoldPc, FreePc, AcquirePc, LockedPc, CondPc, Over
<1>16. CASE \E timed \in BOOLEAN : PPark(t, timed)
    BY <1>16, Zenon DEF PPark, Ready, Done, Call, futexes, At, MutexEffect, HoldPc, FreePc,
        AcquirePc, LockedPc, CondPc, Over
<1>17. CASE PSet(t)
    BY <1>17, Zenon DEF PSet, At, futexes, Call, MutexEffect, HoldPc, FreePc, AcquirePc,
        LockedPc, CondPc, Over
<1>18. CASE PLoop(t)
    BY <1>18, Zenon DEF PLoop, At, futexes, Call, MutexEffect, HoldPc, FreePc, AcquirePc,
        LockedPc, CondPc, Over
<1>19. CASE PCheck(t)
    BY <1>19, Zenon DEF PCheck, At, futexes, Call, MutexEffect, HoldPc, FreePc, AcquirePc,
        LockedPc, CondPc, Over
<1>20. CASE PUnpark(t)
    BY <1>20, Zenon DEF PUnpark, Ready, Call, Done, futexes, At, MutexEffect, HoldPc,
        FreePc, AcquirePc, LockedPc, CondPc, Over
<1>21. CASE PUnparkLocked(t)
    BY <1>21, Zenon DEF PUnparkLocked, At, Call, futexes, lvars, MutexEffect, HoldPc,
        FreePc, AcquirePc, LockedPc, CondPc, Over
<1> QED BY <1>1, <1>2, <1>3, <1>4, <1>5, <1>6, <1>7, <1>8, <1>9, <1>10, <1>11, <1>12, <1>13,
        <1>14, <1>15, <1>16, <1>17, <1>18, <1>19, <1>20, <1>21, ZenonT(30) DEF LocksStep

\* Who is at a free place does not hold the mutex.
LEMMA FreeIsFree ==
    ASSUME NEW l \in FreePc
    PROVE  l \notin HoldPc
    BY SMT DEF FreePc, HoldPc, AcquirePc, LockedPc, CondPc, Over

\* Holding is a matter of the place.
LEMMA HoldingIs ==
    ASSUME NEW t \in Thread
    PROVE  /\ Holding(t) <=> pc[t] \in HoldPc
           /\ Holding(t)' <=> pc'[t] \in HoldPc
    BY Zenon DEF Holding, HoldPc, LockedPc

\* Steps of the other parts leave the mutex to its holder.
LEMMA MutexAway ==
    ASSUME NEW t \in Thread, NEW from, NEW to, MutexInv, Moves(t, from, to),
           pc'[t] \notin MutexPc, val'["mutex"] = val["mutex"]
    PROVE  MutexInv'
<1>1. ~Holding(t)' BY HoldingIs, Zenon DEF HoldPc, MutexPc, ReleasePc
<1>2. \A u \in Thread : Holding(u)' => Holding(u)
    BY <1>1, HoldingIs, Zenon DEF Moves
<1> QED BY <1>2, Zenon DEF MutexInv, MutexExclusive, Mutex

\* A step of the mutex itself.
LEMMA MutexKept ==
    ASSUME NEW t \in Thread, Shape, Flow, MutexInv, LocksStep(t)
    PROVE  MutexInv'
<1>1. MutexEffect(t) BY MutexEffects, Zenon
<1>2. PICK l : Goto(t, l) BY <1>1, Zenon DEF MutexEffect
<1>3. pc'[t] = l /\ \A u \in Thread : u # t => pc'[u] = pc[u] BY <1>2, GotoIs, Zenon DEF Shape
<1>4. \A m : Goto(t, m) => pc'[t] = m BY GotoIs, Zenon DEF Shape
<1>5. \A u \in Thread : u # t => (Holding(u)' <=> Holding(u)) BY <1>3, HoldingIs, Zenon
<1>6. CASE /\ \/ \E m \in FreePc : Goto(t, m)
              \/ pc[t] \in HoldPc /\ \E m : Goto(t, m)
           /\ UNCHANGED val \/ Put("mutex", 2) \/ \E x : Put("cv", x)
  <2>1. Holding(t)' => Holding(t) BY <1>4, <1>6, HoldingIs, FreeIsFree, Zenon
  <2>2. Mutex # 0 => Mutex' # 0
    <3>1. CASE UNCHANGED val BY <3>1, Zenon DEF Mutex
    <3>2. CASE Put("mutex", 2)
      <4>1. Mutex' = 2 BY <3>2, PutIs, WordsApart, Zenon DEF Mutex, Shape
      <4> QED BY <4>1, SMT
    <3>3. CASE \E x : Put("cv", x)
      <4>1. "cv" # "mutex" BY Zenon
      <4> QED BY <3>3, <4>1, PutIs, WordsApart, Zenon DEF Mutex, Shape
    <3> QED BY <1>6, <3>1, <3>2, <3>3, Zenon
  <2> QED BY <1>5, <2>1, <2>2, Zenon DEF MutexInv, MutexExclusive
<1>7. CASE Mutex = 0 /\ (Put("mutex", 1) \/ Put("mutex", 2))
  <2>1. \A u \in Thread : ~Holding(u) BY <1>7, Zenon DEF MutexInv
  <2>2. Mutex' = 1 \/ Mutex' = 2 BY <1>7, PutIs, WordsApart, ZenonT(30) DEF Mutex, Shape
  <2>3. Mutex' # 0 BY <2>2, SMT
  <2> QED BY <1>5, <2>1, <2>3, Zenon DEF MutexInv, MutexExclusive
<1>8. CASE /\ \E m \in FreePc : Goto(t, m)
           /\ pc[t] = "unlock" /\ Put("mutex", 0)
  <2>1. Holding(t) /\ ~Holding(t)' BY <1>4, <1>8, HoldingIs, FreeIsFree, Zenon DEF HoldPc
  <2>2. \A u \in Thread : ~Holding(u)' BY <1>5, <2>1, Zenon DEF MutexInv, MutexExclusive
  <2> QED BY <2>2, Zenon DEF MutexInv, MutexExclusive
<1> QED BY <1>1, <1>6, <1>7, <1>8, Zenon DEF MutexEffect

\* Every step leaves the mutex to one thread.
LEMMA MutexStep ==
    ASSUME NEW t \in Thread, Shape, Flow, MutexInv, ReadInv, SyncStep(t)
    PROVE  MutexInv'
<1>1. CASE ThreadStep(t) /\ UNCHANGED <<lvars, rvars, ovars, svars>>
  <2>1. val'["mutex"] = val["mutex"] BY <1>1, ThreadMoves, Zenon
  <2>2. CASE UNCHANGED <<pc, cont, reg>> /\ Shape'
      BY <2>1, <2>2, Zenon DEF MutexInv, MutexExclusive, Holding, Mutex
  <2>3. CASE Moves(t, ParkPc \union Idle, ParkPc \union Returns)
    <3>1. pc'[t] \notin MutexPc
        BY <2>3, PlacesApart, ZenonT(30) DEF Moves, Returns, OncePc, Over
    <3> QED BY <2>1, <2>3, <3>1, MutexAway, Zenon
  <2> QED BY <1>1, <2>2, <2>3, ThreadMoves, Zenon
<1>2. CASE LocksStep(t) /\ UNCHANGED <<rvars, ovars, svars>> BY <1>2, MutexKept, Zenon
<1>3. CASE RwStep(t) /\ UNCHANGED <<lvars, ovars, svars>>
  <2>1. /\ Moves(t, RwPc \union Idle, RwPc \union Over)
        /\ val'["mutex"] = val["mutex"] BY <1>3, RwMoves, Zenon
  <2>2. pc'[t] \notin MutexPc BY <2>1, PlacesApart, Zenon DEF Moves
  <2> QED BY <2>1, <2>2, MutexAway, Zenon
<1>4. CASE OnceStep(t) /\ UNCHANGED <<lvars, rvars>>
  <2>1. /\ Moves(t, OncePc \union Idle, OncePc \union ParkPc \union Over)
        /\ val' = val BY <1>4, OnceMoves, Zenon
  <2>2. pc'[t] \notin MutexPc BY <2>1, PlacesApart, Zenon DEF Moves
  <2> QED BY <2>1, <2>2, MutexAway, Zenon
<1> QED BY <1>1, <1>2, <1>3, <1>4, Zenon DEF SyncStep

-----------------------------------------------------------------------------
\* What one thread shows the others depends on where it stands.  Between the
\* places where it waits, signals or unparks, it shows nothing.
PlainPc == {"once_load", "once_cas", "once_init", "once_drop", "once_wait", "send_swap",
            "send_back", "recv_block", "try_recv", "recv_cas", "recv_take"} \union Over

\* A thread that does not move shows what it showed.
LEMMA OthersShow ==
    ASSUME NEW t \in Thread, NEW from, NEW to, Moves(t, from, to), NEW u \in Thread, u # t,
           setTo'[u] = setTo[u], u \in signaled' <=> u \in signaled
    PROVE  /\ Live(u)' <=> Live(u)
           /\ LiveR(u)' <=> LiveR(u)
           /\ \A w \in Thread : OnWalk(u, w)' <=> OnWalk(u, w)
           /\ \A w \in Thread : Signals(u, w)' <=> Signals(u, w)
<1>1. pc'[u] = pc[u] /\ cont'[u] = cont[u] /\ reg'[u] = reg[u] BY Zenon DEF Moves
<1>2. Live(u)' <=> Live(u) BY <1>1, Zenon DEF Live
<1>3. LiveR(u)' <=> LiveR(u) BY <1>1, Zenon DEF LiveR
<1>4. \A w \in Thread : OnWalk(u, w)' <=> OnWalk(u, w) BY <1>1, Zenon DEF OnWalk
<1>5. \A w \in Thread : Signals(u, w)' <=> Signals(u, w) BY <1>1, Zenon DEF Signals
<1> QED BY <1>2, <1>3, <1>4, <1>5, Zenon

\* What threads have read only changes for the one that moves.
LEMMA ReadKept ==
    ASSUME NEW t \in Thread, NEW from, NEW to, Moves(t, from, to), ReadInv,
           \A u \in Thread : u # t => setTo'[u] = setTo[u],
           ReadsAt(pc'[t], cont'[t], reg'[t], setTo'[t])
    PROVE  ReadInv'
<1> SUFFICES ASSUME NEW u \in Thread
             PROVE  ReadsAt(pc'[u], cont'[u], reg'[u], setTo'[u])
    BY Zenon DEF ReadInv, ReadsAt, UnparksAt
<1>1. CASE u = t BY <1>1, Zenon
<1>2. CASE u # t
  <2>1. /\ pc'[u] = pc[u] /\ cont'[u] = cont[u] /\ reg'[u] = reg[u]
        /\ setTo'[u] = setTo[u] BY <1>2, Zenon DEF Moves
  <2>2. ReadsAt(pc[u], cont[u], reg[u], setTo[u]) BY Zenon DEF ReadInv
  <2> QED BY <2>1, <2>2, Zenon
<1> QED BY <1>1, <1>2, Zenon

\* At a plain place, or in another part, a thread shows nothing.
LEMMA PlainShows ==
    ASSUME NEW l \in PlainPc \union MutexPc \union RwPc, NEW c, NEW r, NEW x, NEW w
    PROVE  /\ ~WaitsAt(l, c) /\ ~RWaitsAt(l, c)
           /\ ~UnparksAt(l, c) /\ ~WalksAt(l, c, r, x, w) /\ ~SignalsAt(l, r, w)
<1> DEFINE Loud == {"once_check", "recv_check", "signal", "once_signal", "once_next"}
<1>1. l \notin Loud /\ l \notin WaitPc /\ l \notin UnparkPc
  <2>1. CASE l \in PlainPc BY <2>1, SMT DEF PlainPc, Over, WaitPc, UnparkPc
  <2>2. CASE l \in MutexPc \union RwPc
      BY <2>2, PlacesApart, Zenon DEF OncePc, ParkPc
  <2> QED BY <2>1, <2>2, Zenon
<1> QED BY <1>1, Zenon DEF WaitsAt, RWaitsAt, UnparksAt, WalksAt, SignalsAt

\* Nothing is shown that was not, of the list and of the channel.
ListQuiet ==
    /\ next' = next /\ once'.head = once.head
    /\ \A u \in Thread : Live(u)' <=> Live(u)
    /\ \A u, w \in Thread : OnWalk(u, w)' <=> OnWalk(u, w)
ShotQuiet ==
    /\ shot' \in {shot, "EMPTY", "DATA", "DISCONNECTED"}
    /\ \A u \in Thread : LiveR(u)' <=> LiveR(u)
    /\ \A u, w \in Thread : Signals(u, w)' <=> Signals(u, w)
Quiet == ListQuiet /\ ShotQuiet

\* Then the list is as it was.
LEMMA ListKept ==
    ASSUME ListInv, ListQuiet
    PROVE  ListInv'
<1>1. \A u, w \in Thread : OnNext(u, w)' <=> OnNext(u, w) BY Zenon DEF ListQuiet, OnNext
<1> QED BY <1>1, Zenon DEF ListQuiet, ListInv

\* Then the channel is as it was, or empty, full or disconnected.
LEMMA ShotKept ==
    ASSUME ShotInv, ShotQuiet
    PROVE  ShotInv'
<1>1. shot' \in Thread => shot' = shot BY ThreadAssumption, Zenon DEF ShotQuiet
<1>2. shot' \in Thread \union {"EMPTY", "DATA", "DISCONNECTED"} BY Zenon DEF ShotQuiet, ShotInv
<1> QED BY <1>1, <1>2, Zenon DEF ShotQuiet, ShotInv

\* Then both are.
LEMMA QuietKeeps ==
    ASSUME ListInv, ShotInv, Quiet
    PROVE  ListInv' /\ ShotInv'
    BY ListKept, ShotKept, Zenon DEF Quiet

\* A step from one plain place to another is quiet.
LEMMA PlainIsQuiet ==
    ASSUME NEW t \in Thread, NEW from, NEW to, Moves(t, from, to),
           pc[t] \in PlainPc \union MutexPc \union RwPc,
           pc'[t] \in PlainPc \union MutexPc \union RwPc,
           \A u \in Thread : u # t => setTo'[u] = setTo[u],
           next' = next, once'.head = once.head, signaled' \in {signaled, signaled \ {t}},
           shot' \in {shot, "EMPTY", "DATA", "DISCONNECTED"}
    PROVE  Quiet
<1>1. ASSUME NEW u \in Thread
      PROVE  /\ Live(u)' <=> Live(u)
             /\ LiveR(u)' <=> LiveR(u)
             /\ \A w \in Thread : OnWalk(u, w)' <=> OnWalk(u, w)
             /\ \A w \in Thread : Signals(u, w)' <=> Signals(u, w)
  <2>1. CASE u = t
      BY <2>1, PlainShows, Zenon DEF Live, LiveR, OnWalk, Signals
  <2>2. CASE u # t
    <3>1. u \in signaled' <=> u \in signaled BY <2>2, Zenon
    <3> QED BY <2>2, <3>1, OthersShow, Zenon
  <2> QED BY <2>1, <2>2, Zenon
<1> QED BY <1>1, Zenon DEF Quiet, ListQuiet, ShotQuiet
-----------------------------------------------------------------------------
\* As long as the word and who runs are the same.
LEMMA RunsKept ==
    ASSUME NEW t \in Thread, NEW from, NEW to, Moves(t, from, to), RunInv,
           once' = once, RunsAt(pc'[t]) <=> RunsAt(pc[t])
    PROVE  RunInv'
<1>1. \A u \in Thread : Runs(u)' <=> Runs(u) BY Zenon DEF Runs, Moves
<1> QED BY <1>1, Zenon DEF RunInv

\* A step in another part of the library.
LEMMA OnceAway ==
    ASSUME NEW t \in Thread, NEW from, NEW to, Moves(t, from, to), OnceInv,
           pc[t] \in MutexPc \union RwPc \union Over, pc'[t] \in MutexPc \union RwPc \union Over,
           UNCHANGED <<ovars, svars>>
    PROVE  OnceInv'
<1>1. once' = once /\ next' = next /\ signaled' = signaled /\ setTo' = setTo /\ shot' = shot
    BY Zenon DEF ovars, svars
<1>2. pc[t] \notin OncePc /\ pc'[t] \notin OncePc BY PlacesApart, Zenon
<1>3. ~RunsAt(pc[t]) /\ ~RunsAt(pc'[t]) BY <1>2, Zenon DEF RunsAt, OncePc
<1>4. pc[t] \in PlainPc \union MutexPc \union RwPc /\ pc'[t] \in PlainPc \union MutexPc \union RwPc
    BY Zenon DEF PlainPc
<1>5. ~UnparksAt(pc'[t], cont'[t]) BY <1>4, PlainShows, Zenon
<1>6. ReadsAt(pc'[t], cont'[t], reg'[t], setTo'[t]) BY <1>2, <1>5, Zenon DEF ReadsAt, OncePc
<1>7. ReadInv' BY <1>1, <1>6, ReadKept, Zenon DEF OnceInv
<1>8. RunInv' BY <1>1, <1>3, RunsKept, Zenon DEF OnceInv
<1>9. Quiet BY <1>1, <1>4, PlainIsQuiet, Zenon
<1>10. ListInv' /\ ShotInv' BY <1>9, QuietKeeps, Zenon DEF OnceInv
<1>11. OnceType' BY <1>1, Zenon DEF OnceInv, OnceType
<1> QED BY <1>7, <1>8, <1>10, <1>11, Zenon DEF OnceInv

-----------------------------------------------------------------------------
\* What a step of park or unpark does: it goes on inside, returns, or starts for
\* the program itself.
ParkEffect(t) ==
    \/ UNCHANGED <<pc, cont, reg>>
    \/ /\ UNCHANGED <<cont, reg>>
       /\ \/ pc[t] \in WaitPc /\ \E l \in WaitPc : Goto(t, l)
          \/ pc[t] \in TimedPc /\ \E l \in TimedPc : Goto(t, l)
          \/ pc[t] \in UnparkPc /\ \E l \in UnparkPc : Goto(t, l)
          \/ pc[t] \in ParkPc /\ Goto(t, cont[t])
    \/ /\ pc[t] = "ready" /\ Back(t, "ready")
       /\ \E l \in {"park", "park_timeout", "unpark"} : Goto(t, l)

\* Each of their steps does one of these.
LEMMA ParkEffects ==
    ASSUME NEW t \in Thread, ThreadStep(t)
    PROVE  ParkEffect(t)
<1>1. CASE Resume(t)
    BY <1>1, Zenon DEF Resume, F!Return, F!TimeOut, Back, ParkEffect, ParkPc, WaitPc,
        TimedPc, UnparkPc
<1>2. CASE Expire(t)
    BY <1>2, Zenon DEF Expire, F!TimeOut, F!Return, Back, ParkEffect, ParkPc, WaitPc,
        TimedPc, UnparkPc
<1>3. CASE StartPark(t)
    BY <1>3, Zenon DEF StartPark, futexes, Ready, Call, At, F!TimeOut, F!Return, Back,
        ParkEffect, ParkPc, WaitPc, TimedPc, UnparkPc
<1>4. CASE Park(t)
    BY <1>4, Zenon DEF Park, At, F!TimeOut, F!Return, Back, ParkEffect, ParkPc, WaitPc,
        TimedPc, UnparkPc
<1>5. CASE ParkWait(t)
    BY <1>5, Zenon DEF ParkWait, At, FutexWait, F!Wait, futexes, F!TimeOut, F!Return, Back,
        ParkEffect, ParkPc, WaitPc, TimedPc, UnparkPc
<1>6. CASE ParkWoken(t)
    BY <1>6, Zenon DEF ParkWoken, At, futexes, F!TimeOut, F!Return, Back, ParkEffect,
        ParkPc, WaitPc, TimedPc, UnparkPc
<1>7. CASE ParkTimeout(t)
    BY <1>7, Zenon DEF ParkTimeout, At, F!TimeOut, F!Return, Back, ParkEffect, ParkPc,
        WaitPc, TimedPc, UnparkPc
<1>8. CASE ParkTimedWait(t)
    BY <1>8, Zenon DEF ParkTimedWait, At, FutexWait, F!Wait, futexes, F!TimeOut, F!Return,
        Back, ParkEffect, ParkPc, WaitPc, TimedPc, UnparkPc
<1>9. CASE ParkTimedWoken(t)
    BY <1>9, Zenon DEF ParkTimedWoken, At, F!TimeOut, F!Return, Back, ParkEffect, ParkPc,
        WaitPc, TimedPc, UnparkPc
<1>10. CASE Unpark(t)
    BY <1>10, Zenon DEF Unpark, At, F!TimeOut, F!Return, Back, ParkEffect, ParkPc, WaitPc,
        TimedPc, UnparkPc
<1>11. CASE UnparkWake(t)
    BY <1>11, Zenon DEF UnparkWake, At, FutexWake, F!WakeFirst, futexes, Woke, F!TimeOut,
        F!Return, Back, ParkEffect, ParkPc, WaitPc, TimedPc, UnparkPc
<1> QED BY <1>1, <1>2, <1>3, <1>4, <1>5, <1>6, <1>7, <1>8, <1>9, <1>10, <1>11,
        Zenon, ZenonT(30) DEF ThreadStep

\* Inside park and unpark, and back from them, a thread shows what it showed.
LEMMA ParkViews ==
    ASSUME NEW l, NEW m, NEW c, NEW r, NEW x, ParkFlow(l, c, r),
           \/ l \in WaitPc /\ m \in WaitPc
           \/ l \in TimedPc /\ m \in TimedPc
           \/ l \in UnparkPc /\ m \in UnparkPc
           \/ l \in ParkPc /\ m = c
    PROVE  /\ WaitsAt(m, c) <=> WaitsAt(l, c)
           /\ RWaitsAt(m, c) <=> RWaitsAt(l, c)
           /\ \A w : WalksAt(m, c, r, x, w) <=> WalksAt(l, c, r, x, w)
           /\ \A w : ~SignalsAt(m, r, w) /\ ~SignalsAt(l, r, w)
           /\ ~RunsAt(m) /\ ~RunsAt(l)
           /\ ReadsAt(l, c, r, x) => ReadsAt(m, c, r, x)
<1>1. l \in {"park", "parker_wait", "parker_woken", "park_timeout", "parker_timed_wait",
             "parker_timed_woken", "unpark", "unpark_wake"}
    BY Zenon DEF ParkPc, WaitPc, TimedPc, UnparkPc
<1>2. m \in {"park", "parker_wait", "parker_woken", "park_timeout", "parker_timed_wait",
             "parker_timed_woken", "unpark", "unpark_wake"} \/ m = c
    BY Zenon DEF WaitPc, TimedPc, UnparkPc
<1>3. c \in {"ready", "once_check", "recv_check", "once_next"} BY Zenon DEF ParkFlow, ParkPc
<1>4. WaitsAt(m, c) <=> WaitsAt(l, c)
    BY <1>3, SMT DEF ParkFlow, WaitsAt, WaitPc, TimedPc, UnparkPc, ParkPc
<1>5. RWaitsAt(m, c) <=> RWaitsAt(l, c)
    BY <1>3, SMT DEF ParkFlow, RWaitsAt, WaitPc, TimedPc, UnparkPc, ParkPc
<1>6. UnparksAt(m, c) <=> UnparksAt(l, c)
    BY <1>3, SMT DEF ParkFlow, UnparksAt, WaitPc, TimedPc, UnparkPc, ParkPc
<1>7. l # "once_signal" /\ m # "once_signal" /\ l # "signal" /\ m # "signal" BY <1>1, <1>2, <1>3, SMT
<1>8. ~RunsAt(m) /\ ~RunsAt(l) BY <1>1, <1>2, <1>3, SMT DEF RunsAt
<1>9. m \notin {"once_cas", "once_wait", "once_signal", "signal", "once_drop"}
    BY <1>1, <1>2, <1>3, SMT
<1>10. ReadsAt(l, c, r, x) => ReadsAt(m, c, r, x) BY <1>6, <1>9, Zenon DEF ReadsAt
<1>11. \A w : WalksAt(m, c, r, x, w) <=> WalksAt(l, c, r, x, w) BY <1>6, <1>7, Zenon DEF WalksAt
<1>12. \A w : ~SignalsAt(m, r, w) /\ ~SignalsAt(l, r, w) BY <1>7, Zenon DEF SignalsAt
<1> QED BY <1>4, <1>5, <1>8, <1>10, <1>11, <1>12, Zenon

\* A step of park or unpark.
LEMMA OncePark ==
    ASSUME NEW t \in Thread, Shape, Flow, OnceInv, ThreadStep(t), UNCHANGED <<ovars, svars>>
    PROVE  OnceInv'
<1>1. once' = once /\ next' = next /\ signaled' = signaled /\ setTo' = setTo /\ shot' = shot
    BY Zenon DEF ovars, svars
<1>2. ParkEffect(t) BY ParkEffects, Zenon
<1>3. CASE UNCHANGED <<pc, cont, reg>>
  <2>1. Quiet BY <1>1, <1>3, Zenon DEF Quiet, ListQuiet, ShotQuiet, Live, LiveR, OnWalk, Signals
  <2>2. ListInv' /\ ShotInv' BY <2>1, QuietKeeps, Zenon DEF OnceInv
  <2>3. RunInv' BY <1>1, <1>3, Zenon DEF OnceInv, RunInv, Runs
  <2>4. ReadInv' BY <1>1, <1>3, Zenon DEF OnceInv, ReadInv, ReadsAt, UnparksAt
  <2>5. OnceType' BY <1>1, Zenon DEF OnceInv, OnceType
  <2> QED BY <2>2, <2>3, <2>4, <2>5, Zenon DEF OnceInv
<1>4. CASE ~UNCHANGED <<pc, cont, reg>>
  <2>1. PICK from, to : Moves(t, from, to)
      BY <1>4, ThreadMoves, Zenon DEF ovars
  <2>2. /\ RunsAt(pc'[t]) <=> RunsAt(pc[t])
        /\ ReadsAt(pc'[t], cont'[t], reg'[t], setTo'[t])
        /\ Live(t)' <=> Live(t)
        /\ LiveR(t)' <=> LiveR(t)
        /\ \A w \in Thread : OnWalk(t, w)' <=> OnWalk(t, w)
        /\ \A w \in Thread : Signals(t, w)' <=> Signals(t, w)
    <3>1. CASE /\ UNCHANGED <<cont, reg>>
               /\ \/ pc[t] \in WaitPc /\ \E l \in WaitPc : Goto(t, l)
                  \/ pc[t] \in TimedPc /\ \E l \in TimedPc : Goto(t, l)
                  \/ pc[t] \in UnparkPc /\ \E l \in UnparkPc : Goto(t, l)
                  \/ pc[t] \in ParkPc /\ Goto(t, cont[t])
      <4>1. \/ pc[t] \in WaitPc /\ pc'[t] \in WaitPc
            \/ pc[t] \in TimedPc /\ pc'[t] \in TimedPc
            \/ pc[t] \in UnparkPc /\ pc'[t] \in UnparkPc
            \/ pc[t] \in ParkPc /\ pc'[t] = cont[t]
          BY <3>1, GotoIs, Zenon DEF Shape
      <4>2. ParkFlow(pc[t], cont[t], reg[t]) BY Zenon DEF Flow
      <4>3. /\ WaitsAt(pc'[t], cont[t]) <=> WaitsAt(pc[t], cont[t])
            /\ RWaitsAt(pc'[t], cont[t]) <=> RWaitsAt(pc[t], cont[t])
            /\ \A w : WalksAt(pc'[t], cont[t], reg[t], setTo[t], w)
                          <=> WalksAt(pc[t], cont[t], reg[t], setTo[t], w)
            /\ \A w : ~SignalsAt(pc'[t], reg[t], w) /\ ~SignalsAt(pc[t], reg[t], w)
            /\ ~RunsAt(pc'[t]) /\ ~RunsAt(pc[t])
            /\ ReadsAt(pc[t], cont[t], reg[t], setTo[t]) =>
                   ReadsAt(pc'[t], cont[t], reg[t], setTo[t])
          BY <4>1, <4>2, ParkViews, Zenon
      <4>4. ReadsAt(pc[t], cont[t], reg[t], setTo[t]) BY Zenon DEF OnceInv, ReadInv
      <4>5. cont'[t] = cont[t] /\ reg'[t] = reg[t] /\ setTo'[t] = setTo[t] BY <1>1, <3>1, Zenon
      <4> QED BY <1>1, <4>3, <4>4, <4>5, Zenon DEF Live, LiveR, OnWalk, Signals
    <3>2. CASE /\ pc[t] = "ready" /\ Back(t, "ready")
               /\ \E l \in {"park", "park_timeout", "unpark"} : Goto(t, l)
      <4>1. pc'[t] \in {"park", "park_timeout", "unpark"} BY <3>2, GotoIs, Zenon DEF Shape
      <4>2. cont'[t] = "ready" BY <3>2, BackIs, Zenon DEF Shape
      <4>3. ~WaitsAt(pc'[t], cont'[t]) /\ ~RWaitsAt(pc'[t], cont'[t])
          BY <4>1, <4>2, Zenon DEF WaitsAt, RWaitsAt
      <4>4. ~UnparksAt(pc'[t], cont'[t]) BY <4>1, <4>2, Zenon DEF UnparksAt
      <4>5. \A w : /\ ~WalksAt(pc'[t], cont'[t], reg'[t], setTo'[t], w)
                   /\ ~SignalsAt(pc'[t], reg'[t], w)
          BY <4>1, <4>4, Zenon DEF WalksAt, SignalsAt
      <4>6. ~RunsAt(pc'[t]) /\ ~RunsAt(pc[t]) BY <3>2, <4>1, Zenon DEF RunsAt
      <4>7. ReadsAt(pc'[t], cont'[t], reg'[t], setTo'[t]) BY <4>1, <4>4, Zenon DEF ReadsAt
      <4>8. pc[t] \in PlainPc \union MutexPc \union RwPc BY <3>2, Zenon DEF PlainPc, Over
      <4> QED BY <4>3, <4>5, <4>6, <4>7, <4>8, PlainShows, Zenon DEF Live, LiveR, OnWalk, Signals
    <3> QED BY <1>2, <1>4, <3>1, <3>2, Zenon DEF ParkEffect
  <2>3. Quiet
    <3>1. \A u \in Thread :
              /\ Live(u)' <=> Live(u)
              /\ LiveR(u)' <=> LiveR(u)
              /\ \A w \in Thread : OnWalk(u, w)' <=> OnWalk(u, w)
              /\ \A w \in Thread : Signals(u, w)' <=> Signals(u, w)
        BY <1>1, <2>1, <2>2, OthersShow, Zenon
    <3> QED BY <1>1, <3>1, Zenon DEF Quiet, ListQuiet, ShotQuiet
  <2>4. ListInv' /\ ShotInv' BY <2>3, QuietKeeps, Zenon DEF OnceInv
  <2>5. RunInv' BY <1>1, <2>1, <2>2, RunsKept, Zenon DEF OnceInv
  <2>6. ReadInv' BY <1>1, <2>1, <2>2, ReadKept, Zenon DEF OnceInv
  <2>7. OnceType' BY <1>1, Zenon DEF OnceInv, OnceType
  <2> QED BY <2>4, <2>5, <2>6, <2>7, Zenon DEF OnceInv
<1> QED BY <1>3, <1>4, Zenon
-----------------------------------------------------------------------------
\* A step of a Once or of the channel between plain places.
LEMMA OncePlain ==
    ASSUME NEW t \in Thread, NEW from, NEW to, Moves(t, from, to), OnceInv,
           pc[t] \in PlainPc, pc'[t] \in PlainPc,
           \A u \in Thread : u # t => setTo'[u] = setTo[u],
           next' = next, once' = once, signaled' \in {signaled, signaled \ {t}},
           shot' \in {shot, "EMPTY", "DATA", "DISCONNECTED"},
           RunsAt(pc'[t]) <=> RunsAt(pc[t]),
           ReadsAt(pc'[t], cont'[t], reg'[t], setTo'[t])
    PROVE  OnceInv'
<1>1. Quiet BY PlainIsQuiet, Zenon
<1>2. ListInv' /\ ShotInv' BY <1>1, QuietKeeps, Zenon DEF OnceInv
<1>3. RunInv' BY RunsKept, Zenon DEF OnceInv
<1>4. ReadInv' BY ReadKept, Zenon DEF OnceInv
<1>5. OnceType' BY Zenon DEF OnceInv, OnceType
<1> QED BY <1>2, <1>3, <1>4, <1>5, Zenon DEF OnceInv

\* The places where a thread of the channel has nothing to remember, and the
\* steps between them.
TalkPc == {"ready", "panic", "once_load", "send_swap", "send_back", "recv_block", "try_recv",
           "recv_cas", "recv_take"}
TalkEffect(t) ==
    /\ pc[t] \in TalkPc /\ \E l \in TalkPc : Goto(t, l)
    /\ UNCHANGED setTo \/ \E x : setTo' = [setTo EXCEPT ![t] = x]
    /\ next' = next /\ once' = once
    /\ signaled' = signaled \/ signaled' = signaled \ {t}
    /\ shot' \in {shot, "EMPTY", "DATA", "DISCONNECTED"}

\* They are plain places.
LEMMA TalkIsPlain ==
    ASSUME NEW l \in TalkPc, NEW c, NEW r, NEW x
    PROVE  l \in PlainPc /\ ~RunsAt(l) /\ ReadsAt(l, c, r, x)
<1>1. l \in PlainPc BY Zenon DEF TalkPc, PlainPc, Over
<1>2. ~RunsAt(l) BY SMT DEF TalkPc, RunsAt
<1>3. l \notin {"once_drop", "once_cas", "once_wait", "once_signal", "signal"} BY SMT DEF TalkPc
<1>4. ~UnparksAt(l, c) BY <1>1, PlainShows, Zenon
<1> QED BY <1>1, <1>2, <1>3, <1>4, Zenon DEF ReadsAt

\* Such a step.
LEMMA OnceTalk ==
    ASSUME NEW t \in Thread, NEW from, NEW to, Moves(t, from, to), Shape, OnceInv, TalkEffect(t)
    PROVE  OnceInv'
<1>1. pc[t] \in TalkPc /\ pc'[t] \in TalkPc BY GotoIs, Zenon DEF TalkEffect, Shape
<1>2. \A u \in Thread : u # t => setTo'[u] = setTo[u] BY Zenon DEF TalkEffect, Shape
<1>3. /\ next' = next /\ once' = once /\ signaled' \in {signaled, signaled \ {t}}
      /\ shot' \in {shot, "EMPTY", "DATA", "DISCONNECTED"} BY Zenon DEF TalkEffect
<1>4. /\ pc[t] \in PlainPc /\ ~RunsAt(pc[t])
      /\ pc'[t] \in PlainPc /\ ~RunsAt(pc'[t])
      /\ ReadsAt(pc'[t], cont'[t], reg'[t], setTo'[t]) BY <1>1, TalkIsPlain, Zenon
<1> QED BY <1>2, <1>3, <1>4, OncePlain, Zenon

-----------------------------------------------------------------------------
\* The word without waiters.
LEMMA IsIs ==
    ASSUME NEW s
    PROVE  DOMAIN Is(s) = {"st", "head"} /\ Is(s).st = s /\ Is(s).head = None
    BY SMT DEF Is

\* Where the word of a Once sends who has read it.
LEMMA OnceLabelIs ==
    ASSUME NEW s, s.st \in OnceStates
    PROVE  \/ OnceLabel(s) = "ready"
           \/ OnceLabel(s) = "once_wait" /\ s.st = "RUNNING"
           \/ OnceLabel(s) = "once_cas" /\ s.st \in {"INCOMPLETE", "POISONED"}
    BY SMT DEF OnceLabel, OnceStates

\* Who has read the word of a Once remembers what it read.
LEMMA OnceActs ==
    ASSUME NEW t \in Thread, NEW from, NEW to, Moves(t, from, to), Shape, OnceInv,
           pc[t] \in {"once_load", "once_cas"}, Act(t, once), UNCHANGED <<ovars, svars>>
    PROVE  OnceInv'
<1>1. reg'[t] = once BY LoadIs, Zenon DEF Act, Shape
<1>2. pc'[t] = "ready" \/ pc'[t] = OnceLabel(once) BY GotoIs, Zenon DEF Act, Done, Shape
<1>3. once.st \in OnceStates BY Zenon DEF OnceInv, OnceType
<1>4. \/ pc'[t] = "ready"
      \/ pc'[t] = "once_wait" /\ reg'[t].st = "RUNNING"
      \/ pc'[t] = "once_cas" /\ reg'[t].st \in {"INCOMPLETE", "POISONED"}
    BY <1>1, <1>2, <1>3, OnceLabelIs, Zenon
<1>5. pc[t] \in PlainPc /\ pc'[t] \in PlainPc BY <1>4, Zenon DEF PlainPc, Over
<1>6. ~RunsAt(pc[t]) /\ ~RunsAt(pc'[t]) BY <1>4, Zenon DEF RunsAt
<1>7. ~UnparksAt(pc'[t], cont'[t]) BY <1>5, PlainShows, Zenon
<1>8. ReadsAt(pc'[t], cont'[t], reg'[t], setTo'[t]) BY <1>4, <1>7, Zenon DEF ReadsAt
<1> QED BY <1>5, <1>6, <1>8, OncePlain, Zenon DEF ovars, svars

\* The exchange that makes a thread the one that runs.
LEMMA OnceCasKeeps ==
    ASSUME NEW t \in Thread, NEW from, NEW to, Moves(t, from, to), Shape, OnceInv, OnceCas(t)
    PROVE  OnceInv'
<1>1. pc[t] = "once_cas" BY Zenon DEF OnceCas, At
<1>2. CASE once # reg[t]
  <2>1. Act(t, once) /\ UNCHANGED <<ovars, svars>> BY <1>2, Zenon DEF OnceCas, ovars, svars
  <2> QED BY <1>1, <2>1, OnceActs, Zenon
<1>3. CASE once = reg[t]
  <2>1. /\ once' = Is("RUNNING") /\ Goto(t, "once_init")
        /\ next' = next /\ signaled' = signaled /\ setTo' = setTo /\ shot' = shot
      BY <1>3, Zenon DEF OnceCas, svars
  <2>2. pc'[t] = "once_init" BY <2>1, GotoIs, Zenon DEF Shape
  <2>3. once.st \in {"INCOMPLETE", "POISONED"} BY <1>1, <1>3, Zenon DEF OnceInv, ReadInv, ReadsAt
  <2>4. once.st # "RUNNING" BY <2>3, Zenon
  <2>5. once.head = None /\ \A u \in Thread : ~Runs(u) BY <2>4, Zenon DEF OnceInv, RunInv
  <2>6. DOMAIN once' = {"st", "head"} /\ once'.st = "RUNNING" /\ once'.head = None
      BY <2>1, IsIs, Zenon
  <2>7. pc[t] \in PlainPc /\ pc'[t] \in PlainPc BY <1>1, <2>2, Zenon DEF PlainPc, Over
  <2>8. Quiet BY <2>1, <2>5, <2>6, <2>7, PlainIsQuiet, Zenon
  <2>9. ListInv' /\ ShotInv' BY <2>8, QuietKeeps, Zenon DEF OnceInv
  <2>10. ~UnparksAt(pc'[t], cont'[t]) BY <2>7, PlainShows, Zenon
  <2>11. ReadsAt(pc'[t], cont'[t], reg'[t], setTo'[t]) BY <2>2, <2>10, Zenon DEF ReadsAt
  <2>12. ReadInv' BY <2>1, <2>11, ReadKept, Zenon DEF OnceInv
  <2>13. Runs(t)' /\ \A u \in Thread : Runs(u)' => u = t
      BY <2>2, <2>5, Zenon DEF Runs, RunsAt, Moves
  <2>14. RunInv' BY <2>6, <2>13, Zenon DEF RunInv
  <2>15. OnceType' BY <2>1, <2>6, Zenon DEF OnceInv, OnceType, OnceStates
  <2> QED BY <2>9, <2>12, <2>14, <2>15, Zenon DEF OnceInv
<1> QED BY <1>2, <1>3, Zenon

\* The initialiser has run.
LEMMA OnceInitKeeps ==
    ASSUME NEW t \in Thread, NEW from, NEW to, Moves(t, from, to), Shape, OnceInv, OnceInit(t)
    PROVE  OnceInv'
<1>1. pc[t] = "once_init" BY Zenon DEF OnceInit, At
<1>2. pc'[t] = "once_drop" BY GotoIs, Zenon DEF OnceInit, Shape
<1>3. once' = once /\ next' = next /\ signaled' = signaled /\ shot' = shot
    BY Zenon DEF OnceInit, KeepO, svars
<1>4. /\ setTo'[t] \in {"COMPLETE", "POISONED"}
      /\ \A u \in Thread : u # t => setTo'[u] = setTo[u] BY Zenon DEF OnceInit, Shape
<1>5. pc[t] \in PlainPc /\ pc'[t] \in PlainPc BY <1>1, <1>2, Zenon DEF PlainPc, Over
<1>6. RunsAt(pc[t]) /\ RunsAt(pc'[t]) BY <1>1, <1>2, Zenon DEF RunsAt
<1>7. ~UnparksAt(pc'[t], cont'[t]) BY <1>5, PlainShows, Zenon
<1>8. ReadsAt(pc'[t], cont'[t], reg'[t], setTo'[t]) BY <1>2, <1>4, <1>7, Zenon DEF ReadsAt
<1> QED BY <1>3, <1>4, <1>5, <1>6, <1>8, OncePlain, ZenonT(30)
-----------------------------------------------------------------------------
\* What a thread shows where it waits in a Once.
LEMMA CheckShows ==
    ASSUME NEW l, NEW c, NEW r, NEW x, l = "once_check" \/ (l = "park" /\ c = "once_check")
    PROVE  /\ WaitsAt(l, c) /\ ~RWaitsAt(l, c)
           /\ \A w : ~WalksAt(l, c, r, x, w) /\ ~SignalsAt(l, r, w)
    BY SMT DEF WaitsAt, RWaitsAt, UnparksAt, WalksAt, SignalsAt, WaitPc, UnparkPc

\* What it shows where it waits for a datum.
LEMMA RecvShows ==
    ASSUME NEW l, NEW c, NEW r, NEW x, l = "recv_check" \/ (l = "park" /\ c = "recv_check")
    PROVE  /\ ~WaitsAt(l, c) /\ RWaitsAt(l, c)
           /\ \A w : ~WalksAt(l, c, r, x, w) /\ ~SignalsAt(l, r, w)
    BY SMT DEF WaitsAt, RWaitsAt, UnparksAt, WalksAt, SignalsAt, WaitPc, UnparkPc

\* What it shows where it has come to a waiter.
LEMMA WalkShows ==
    ASSUME NEW l, NEW c, NEW r, NEW x, l = "once_signal"
    PROVE  /\ ~WaitsAt(l, c) /\ ~RWaitsAt(l, c)
           /\ \A w : (WalksAt(l, c, r, x, w) <=> r = w) /\ ~SignalsAt(l, r, w)
    BY SMT DEF WaitsAt, RWaitsAt, UnparksAt, WalksAt, SignalsAt, WaitPc, UnparkPc

\* What it shows between two waiters.
LEMMA NextShows ==
    ASSUME NEW l, NEW c, NEW r, NEW x, l = "once_next" \/ (l = "unpark" /\ c = "once_next")
    PROVE  /\ ~WaitsAt(l, c) /\ ~RWaitsAt(l, c)
           /\ \A w : (WalksAt(l, c, r, x, w) <=> x = w) /\ ~SignalsAt(l, r, w)
    BY SMT DEF WaitsAt, RWaitsAt, UnparksAt, WalksAt, SignalsAt, WaitPc, UnparkPc

\* What it shows where it signals a receiver.
LEMMA SignalShows ==
    ASSUME NEW l, NEW c, NEW r, NEW x, l = "signal"
    PROVE  /\ ~WaitsAt(l, c) /\ ~RWaitsAt(l, c)
           /\ \A w : ~WalksAt(l, c, r, x, w) /\ (SignalsAt(l, r, w) <=> r = w)
    BY SMT DEF WaitsAt, RWaitsAt, UnparksAt, WalksAt, SignalsAt, WaitPc, UnparkPc

\* What it shows where it unparks the receiver.
LEMMA UnparkShows ==
    ASSUME NEW l, NEW c, NEW r, NEW x, l = "unpark", c = "ready"
    PROVE  /\ ~WaitsAt(l, c) /\ ~RWaitsAt(l, c)
           /\ \A w : ~WalksAt(l, c, r, x, w) /\ ~SignalsAt(l, r, w)
    BY SMT DEF WaitsAt, RWaitsAt, UnparksAt, WalksAt, SignalsAt, WaitPc, UnparkPc

\* Who waits in a Once does not wait for a datum.
LEMMA WaitsApart ==
    ASSUME NEW l, NEW c
    PROVE  ~(WaitsAt(l, c) /\ RWaitsAt(l, c))
    BY SMT DEF WaitsAt, RWaitsAt, WaitPc

\* A step that leaves the word, the nodes and the channel alone and shows nothing.
LEMMA OnceSame ==
    ASSUME NEW t \in Thread, NEW from, NEW to, Moves(t, from, to), OnceInv,
           UNCHANGED <<ovars, svars>>,
           ~RunsAt(pc[t]), ~RunsAt(pc'[t]), ReadsAt(pc'[t], cont'[t], reg'[t], setTo'[t]),
           Live(t)' <=> Live(t), LiveR(t)' <=> LiveR(t),
           \A w \in Thread : OnWalk(t, w)' <=> OnWalk(t, w),
           \A w \in Thread : Signals(t, w)' <=> Signals(t, w)
    PROVE  OnceInv'
<1>1. once' = once /\ next' = next /\ signaled' = signaled /\ setTo' = setTo /\ shot' = shot
    BY Zenon DEF ovars, svars
<1>2. \A u \in Thread :
          /\ Live(u)' <=> Live(u)
          /\ LiveR(u)' <=> LiveR(u)
          /\ \A w \in Thread : OnWalk(u, w)' <=> OnWalk(u, w)
          /\ \A w \in Thread : Signals(u, w)' <=> Signals(u, w)
    BY <1>1, OthersShow, Zenon
<1>3. Quiet BY <1>1, <1>2, Zenon DEF Quiet, ListQuiet, ShotQuiet
<1>4. ListInv' /\ ShotInv' BY <1>3, QuietKeeps, Zenon DEF OnceInv
<1>5. RunInv' BY <1>1, RunsKept, Zenon DEF OnceInv
<1>6. ReadInv' BY <1>1, ReadKept, Zenon DEF OnceInv
<1>7. OnceType' BY <1>1, Zenon DEF OnceInv, OnceType
<1> QED BY <1>4, <1>5, <1>6, <1>7, Zenon DEF OnceInv

\* A waiter looks at its flag and parks, or goes back to the word.
LEMMA OnceCheckKeeps ==
    ASSUME NEW t \in Thread, NEW from, NEW to, Moves(t, from, to), Shape, OnceInv, OnceCheck(t)
    PROVE  OnceInv'
<1>1. pc[t] = "once_check" /\ UNCHANGED <<ovars, svars>> BY Zenon DEF OnceCheck, At
<1>2. signaled' = signaled BY <1>1, Zenon DEF ovars
<1>3. /\ WaitsAt(pc[t], cont[t]) /\ ~RWaitsAt(pc[t], cont[t])
      /\ \A w : ~WalksAt(pc[t], cont[t], reg[t], setTo[t], w) /\ ~SignalsAt(pc[t], reg[t], w)
    BY <1>1, CheckShows, Zenon
<1>4. ~RunsAt(pc[t]) BY <1>1, Zenon DEF RunsAt
<1>5. CASE t \in signaled
  <2>1. pc'[t] = "once_load" BY <1>5, GotoIs, Zenon DEF OnceCheck, Shape
  <2>2. pc'[t] \in TalkPc BY <2>1, Zenon DEF TalkPc
  <2>3. /\ pc'[t] \in PlainPc /\ ~RunsAt(pc'[t])
        /\ ReadsAt(pc'[t], cont'[t], reg'[t], setTo'[t]) BY <2>2, TalkIsPlain, Zenon
  <2>4. Live(t)' <=> Live(t) BY <1>2, <1>5, Zenon DEF Live
  <2>5. LiveR(t)' <=> LiveR(t) BY <1>2, <1>5, Zenon DEF LiveR
  <2>6. \A w \in Thread : (OnWalk(t, w)' <=> OnWalk(t, w)) /\ (Signals(t, w)' <=> Signals(t, w))
      BY <1>3, <2>3, PlainShows, Zenon DEF OnWalk, Signals
  <2> QED BY <1>1, <1>4, <2>3, <2>4, <2>5, <2>6, OnceSame, Zenon
<1>6. CASE t \notin signaled
  <2>1. Goto(t, "park") /\ Back(t, "once_check") BY <1>6, Zenon DEF OnceCheck, Call, Back
  <2>2. pc'[t] = "park" /\ cont'[t] = "once_check" BY <2>1, GotoIs, BackIs, Zenon DEF Shape
  <2>3. /\ WaitsAt(pc'[t], cont'[t]) /\ ~RWaitsAt(pc'[t], cont'[t])
        /\ \A w : ~WalksAt(pc'[t], cont'[t], reg'[t], setTo'[t], w) /\ ~SignalsAt(pc'[t], reg'[t], w)
      BY <2>2, CheckShows, Zenon
  <2>4. ~RunsAt(pc'[t]) BY <2>2, Zenon DEF RunsAt
  <2>5. ReadsAt(pc'[t], cont'[t], reg'[t], setTo'[t]) BY <2>2, Zenon DEF ReadsAt, UnparksAt, UnparkPc
  <2>6. (Live(t)' <=> Live(t)) /\ (LiveR(t)' <=> LiveR(t))
      BY <1>2, <1>3, <2>3, Zenon DEF Live, LiveR
  <2>7. \A w \in Thread : (OnWalk(t, w)' <=> OnWalk(t, w)) /\ (Signals(t, w)' <=> Signals(t, w))
      BY <1>3, <2>3, Zenon DEF OnWalk, Signals
  <2> QED BY <1>1, <1>4, <2>4, <2>5, <2>6, <2>7, OnceSame, ZenonT(30)
<1> QED BY <1>5, <1>6, Zenon

\* A receiver looks at its flag and parks, or goes on to the packet.
LEMMA RecvCheckKeeps ==
    ASSUME NEW t \in Thread, NEW from, NEW to, Moves(t, from, to), Shape, OnceInv, RecvCheck(t)
    PROVE  OnceInv'
<1>1. pc[t] = "recv_check" /\ UNCHANGED <<ovars, svars>> BY Zenon DEF RecvCheck, At, KeepS, ovars
<1>2. signaled' = signaled BY <1>1, Zenon DEF ovars
<1>3. /\ ~WaitsAt(pc[t], cont[t]) /\ RWaitsAt(pc[t], cont[t])
      /\ \A w : ~WalksAt(pc[t], cont[t], reg[t], setTo[t], w) /\ ~SignalsAt(pc[t], reg[t], w)
    BY <1>1, RecvShows, Zenon
<1>4. ~RunsAt(pc[t]) BY <1>1, Zenon DEF RunsAt
<1>5. CASE t \in signaled
  <2>1. pc'[t] \in {"panic", "try_recv"} BY <1>5, GotoIs, Zenon DEF RecvCheck, Shape
  <2>2. pc'[t] \in TalkPc BY <2>1, ZenonT(30) DEF TalkPc
  <2>3. /\ pc'[t] \in PlainPc /\ ~RunsAt(pc'[t])
        /\ ReadsAt(pc'[t], cont'[t], reg'[t], setTo'[t]) BY <2>2, TalkIsPlain, Zenon
  <2>4. Live(t)' <=> Live(t) BY <1>2, <1>5, Zenon DEF Live
  <2>5. LiveR(t)' <=> LiveR(t) BY <1>2, <1>5, Zenon DEF LiveR
  <2>6. \A w \in Thread : (OnWalk(t, w)' <=> OnWalk(t, w)) /\ (Signals(t, w)' <=> Signals(t, w))
      BY <1>3, <2>3, PlainShows, Zenon DEF OnWalk, Signals
  <2> QED BY <1>1, <1>4, <2>3, <2>4, <2>5, <2>6, OnceSame, ZenonT(30)
<1>6. CASE t \notin signaled
  <2>1. Goto(t, "park") /\ Back(t, "recv_check") BY <1>6, Zenon DEF RecvCheck, Call, Back
  <2>2. pc'[t] = "park" /\ cont'[t] = "recv_check" BY <2>1, GotoIs, BackIs, Zenon DEF Shape
  <2>3. /\ ~WaitsAt(pc'[t], cont'[t]) /\ RWaitsAt(pc'[t], cont'[t])
        /\ \A w : ~WalksAt(pc'[t], cont'[t], reg'[t], setTo'[t], w) /\ ~SignalsAt(pc'[t], reg'[t], w)
      BY <2>2, RecvShows, Zenon
  <2>4. ~RunsAt(pc'[t]) BY <2>2, Zenon DEF RunsAt
  <2>5. ReadsAt(pc'[t], cont'[t], reg'[t], setTo'[t]) BY <2>2, Zenon DEF ReadsAt, UnparksAt, UnparkPc
  <2>6. (Live(t)' <=> Live(t)) /\ (LiveR(t)' <=> LiveR(t))
      BY <1>2, <1>3, <2>3, Zenon DEF Live, LiveR
  <2>7. \A w \in Thread : (OnWalk(t, w)' <=> OnWalk(t, w)) /\ (Signals(t, w)' <=> Signals(t, w))
      BY <1>3, <2>3, Zenon DEF OnWalk, Signals
  <2> QED BY <1>1, <1>4, <2>4, <2>5, <2>6, <2>7, OnceSame, ZenonT(30)
<1> QED BY <1>5, <1>6, Zenon

\* The walk goes on to the waiter it has kept.
LEMMA OnceNextKeeps ==
    ASSUME NEW t \in Thread, NEW from, NEW to, Moves(t, from, to), Shape, OnceInv, OnceNext(t)
    PROVE  OnceInv'
<1>1. pc[t] = "once_next" /\ UNCHANGED <<ovars, svars>> BY Zenon DEF OnceNext, At, KeepO
<1>2. signaled' = signaled /\ setTo' = setTo BY <1>1, Zenon DEF ovars
<1>3. reg'[t] = setTo[t] BY LoadIs, Zenon DEF OnceNext, Shape
<1>4. pc'[t] = IF setTo[t] = None THEN "ready" ELSE "once_signal"
    BY GotoIs, Zenon DEF OnceNext, Shape
<1>5. setTo[t] \in Thread \union {None} BY <1>1, Zenon DEF OnceInv, ReadInv, ReadsAt, UnparksAt
<1>6. /\ ~WaitsAt(pc[t], cont[t]) /\ ~RWaitsAt(pc[t], cont[t])
      /\ \A w : /\ WalksAt(pc[t], cont[t], reg[t], setTo[t], w) <=> setTo[t] = w
                /\ ~SignalsAt(pc[t], reg[t], w)
    BY <1>1, NextShows, Zenon
<1>7. ~RunsAt(pc[t]) BY <1>1, Zenon DEF RunsAt
<1>8. CASE setTo[t] = None
  <2>1. pc'[t] \in TalkPc BY <1>4, <1>8, Zenon DEF TalkPc
  <2>2. /\ pc'[t] \in PlainPc /\ ~RunsAt(pc'[t])
        /\ ReadsAt(pc'[t], cont'[t], reg'[t], setTo'[t]) BY <2>1, TalkIsPlain, Zenon
  <2>3. \A w \in Thread : ~OnWalk(t, w) BY <1>6, <1>8, ThreadAssumption, Zenon DEF OnWalk
  <2>4. (Live(t)' <=> Live(t)) /\ (LiveR(t)' <=> LiveR(t))
      BY <1>6, <2>2, PlainShows, Zenon DEF Live, LiveR
  <2>5. \A w \in Thread : (OnWalk(t, w)' <=> OnWalk(t, w)) /\ (Signals(t, w)' <=> Signals(t, w))
      BY <1>6, <2>2, <2>3, PlainShows, Zenon DEF OnWalk, Signals
  <2> QED BY <1>1, <1>7, <2>2, <2>4, <2>5, OnceSame, ZenonT(30)
<1>9. CASE setTo[t] # None
  <2>1. pc'[t] = "once_signal" BY <1>4, <1>9, Zenon
  <2>2. /\ ~WaitsAt(pc'[t], cont'[t]) /\ ~RWaitsAt(pc'[t], cont'[t])
        /\ \A w : /\ WalksAt(pc'[t], cont'[t], reg'[t], setTo'[t], w) <=> reg'[t] = w
                  /\ ~SignalsAt(pc'[t], reg'[t], w)
      BY <2>1, WalkShows, Zenon
  <2>3. ~RunsAt(pc'[t]) BY <2>1, Zenon DEF RunsAt
  <2>4. ReadsAt(pc'[t], cont'[t], reg'[t], setTo'[t])
      BY <1>3, <1>5, <1>9, <2>1, Zenon DEF ReadsAt, UnparksAt, UnparkPc
  <2>5. (Live(t)' <=> Live(t)) /\ (LiveR(t)' <=> LiveR(t))
      BY <1>6, <2>2, Zenon DEF Live, LiveR
  <2>6. \A w \in Thread : (OnWalk(t, w)' <=> OnWalk(t, w)) /\ (Signals(t, w)' <=> Signals(t, w))
      BY <1>3, <1>6, <2>2, Zenon DEF OnWalk, Signals
  <2> QED BY <1>1, <1>7, <2>3, <2>4, <2>5, <2>6, OnceSame, ZenonT(30)
<1> QED BY <1>8, <1>9, Zenon
-----------------------------------------------------------------------------
\* The walk over the list begins where the word pointed.
LEMMA OnceDropKeeps ==
    ASSUME NEW t \in Thread, NEW from, NEW to, Moves(t, from, to), Shape, OnceInv, OnceDrop(t)
    PROVE  OnceInv'
<1>1. pc[t] = "once_drop" BY Zenon DEF OnceDrop, At
<1>2. /\ once' = Is(setTo[t]) /\ next' = next /\ signaled' = signaled /\ setTo' = setTo
      /\ shot' = shot BY Zenon DEF OnceDrop, KeepO, svars
<1>3. reg'[t] = once.head BY LoadIs, Zenon DEF OnceDrop, Shape
<1>4. pc'[t] = IF once.head = None THEN "ready" ELSE "once_signal"
    BY GotoIs, Zenon DEF OnceDrop, Shape
<1>5. setTo[t] \in {"COMPLETE", "POISONED"} BY <1>1, Zenon DEF OnceInv, ReadInv, ReadsAt
<1>6. DOMAIN once' = {"st", "head"} /\ once'.st = setTo[t] /\ once'.head = None
    BY <1>2, IsIs, Zenon
<1>7. once'.st # "RUNNING" /\ once'.st \in OnceStates BY <1>5, <1>6, Zenon DEF OnceStates
<1>8. pc[t] \in PlainPc BY <1>1, Zenon DEF PlainPc
<1>9. OnceType' BY <1>2, <1>6, <1>7, Zenon DEF OnceInv, OnceType
<1>10. RunInv'
  <2>1. ~Runs(t)' BY <1>4, Zenon DEF Runs, RunsAt
  <2>2. Runs(t) BY <1>1, Zenon DEF Runs, RunsAt
  <2>3. \A u \in Thread : ~Runs(u)' BY <2>1, <2>2, Zenon DEF OnceInv, RunInv, Runs, Moves
  <2> QED BY <1>6, <1>7, <2>3, Zenon DEF RunInv
<1>11. once.head \in Thread \union {None} BY Zenon DEF OnceInv, OnceType
<1>12. CASE once.head = None
  <2>1. pc'[t] \in TalkPc BY <1>4, <1>12, Zenon DEF TalkPc
  <2>2. pc'[t] \in PlainPc /\ ReadsAt(pc'[t], cont'[t], reg'[t], setTo'[t])
      BY <2>1, TalkIsPlain, Zenon
  <2>3. Quiet BY <1>2, <1>6, <1>8, <1>12, <2>2, PlainIsQuiet, ZenonT(30)
  <2>4. ListInv' /\ ShotInv' BY <2>3, QuietKeeps, Zenon DEF OnceInv
  <2>5. ReadInv' BY <1>2, <2>2, ReadKept, Zenon DEF OnceInv
  <2> QED BY <1>9, <1>10, <2>4, <2>5, Zenon DEF OnceInv
<1>13. CASE once.head # None
  <2>1. pc'[t] = "once_signal" BY <1>4, <1>13, ZenonT(30)
  <2>2. /\ ~WaitsAt(pc'[t], cont'[t]) /\ ~RWaitsAt(pc'[t], cont'[t])
        /\ \A w : /\ WalksAt(pc'[t], cont'[t], reg'[t], setTo'[t], w) <=> reg'[t] = w
                  /\ ~SignalsAt(pc'[t], reg'[t], w)
      BY <2>1, WalkShows, Zenon
  <2>3. ReadsAt(pc'[t], cont'[t], reg'[t], setTo'[t])
      BY <1>3, <1>11, <1>13, <2>1, Zenon DEF ReadsAt, UnparksAt, UnparkPc
  <2>4. ReadInv' BY <1>2, <2>3, ReadKept, Zenon DEF OnceInv
  <2>5. \A u \in Thread : (Live(u)' <=> Live(u)) /\ (LiveR(u)' <=> LiveR(u))
      BY <1>2, <1>8, <2>2, PlainShows, OthersShow, ZenonT(30) DEF Live, LiveR
  <2>6. \A u, w \in Thread : Signals(u, w)' <=> Signals(u, w)
      BY <1>2, <1>8, <2>2, PlainShows, OthersShow, Zenon DEF Signals
  <2>7. \A u, w \in Thread : u # t => (OnWalk(u, w)' <=> OnWalk(u, w)) BY <1>2, OthersShow, Zenon
  <2>8. \A w \in Thread : (OnWalk(t, w)' <=> once.head = w) /\ ~OnWalk(t, w)
      BY <1>3, <1>8, <2>2, PlainShows, Zenon DEF OnWalk
  <2>9. \A u, w \in Thread : OnNext(u, w)' <=> OnNext(u, w) BY <1>2, <2>5, Zenon DEF OnNext
  <2>10. \A w \in Thread : once'.head # w BY <1>6, ThreadAssumption, Zenon
  <2>11. ListInv'
    <3>1. ListInv BY Zenon DEF OnceInv
    <3> SUFFICES ASSUME NEW w \in Thread
                 PROVE  /\ \A v \in Thread : OnWalk(v, w)' =>
                              Live(w)' /\ \A u \in Thread : (OnWalk(u, w)' => u = v) /\ ~OnNext(u, w)'
                        /\ \A v \in Thread : OnNext(v, w)' =>
                              Live(w)' /\ \A u \in Thread : OnNext(u, w)' => u = v
        BY <2>10, Zenon DEF ListInv
    <3>2. CASE once.head = w
      <4>1. Live(w) /\ \A u \in Thread : ~OnWalk(u, w) /\ ~OnNext(u, w)
          BY <3>1, <3>2, Zenon DEF ListInv
      <4> QED BY <2>5, <2>7, <2>8, <2>9, <4>1, Zenon
    <3>3. CASE once.head # w
      <4>1. \A u \in Thread : OnWalk(u, w)' <=> OnWalk(u, w) BY <2>7, <2>8, <3>3, Zenon
      <4> QED BY <2>5, <2>9, <3>1, <4>1, Zenon DEF ListInv
    <3> QED BY <3>2, <3>3, ZenonT(30)
  <2>12. ShotQuiet BY <1>2, <2>5, <2>6, Zenon DEF ShotQuiet
  <2>13. ShotInv' BY <2>12, ShotKept, Zenon DEF OnceInv
  <2> QED BY <1>9, <1>10, <2>4, <2>11, <2>13, ZenonT(30) DEF OnceInv
<1> QED BY <1>12, <1>13, Zenon

\* The walk signals a waiter, which may then leave, and keeps the one behind it.
LEMMA OnceSignalKeeps ==
    ASSUME NEW t \in Thread, NEW from, NEW to, Moves(t, from, to), Shape, OnceInv, OnceSignal(t)
    PROVE  OnceInv'
<1> DEFINE w0 == reg[t]
<1>1. pc[t] = "once_signal" BY Zenon DEF OnceSignal, At
<1>2. /\ once' = once /\ next' = next /\ signaled' = signaled \union {w0} /\ shot' = shot
      /\ reg' = reg BY Zenon DEF OnceSignal, svars
<1>3. /\ setTo'[t] = next[w0]
      /\ \A u \in Thread : u # t => setTo'[u] = setTo[u] BY Zenon DEF OnceSignal, Shape
<1>4. pc'[t] = "unpark" /\ cont'[t] = "once_next"
  <2>1. Goto(t, "unpark") /\ Back(t, "once_next") BY Zenon DEF OnceSignal, Call, Back
  <2> QED BY <2>1, GotoIs, BackIs, Zenon DEF Shape
<1>5. w0 \in Thread BY <1>1, Zenon DEF OnceInv, ReadInv, ReadsAt
<1>6. next[w0] \in Thread \union {None} BY <1>5, Zenon DEF OnceInv, OnceType
<1>7. /\ ~WaitsAt(pc[t], cont[t]) /\ ~RWaitsAt(pc[t], cont[t])
      /\ \A w : /\ WalksAt(pc[t], cont[t], reg[t], setTo[t], w) <=> w0 = w
                /\ ~SignalsAt(pc[t], reg[t], w)
    BY <1>1, WalkShows, Zenon
<1>8. /\ ~WaitsAt(pc'[t], cont'[t]) /\ ~RWaitsAt(pc'[t], cont'[t])
      /\ \A w : /\ WalksAt(pc'[t], cont'[t], reg'[t], setTo'[t], w) <=> setTo'[t] = w
                /\ ~SignalsAt(pc'[t], reg'[t], w)
    BY <1>4, NextShows, SMT
<1>9. ~RunsAt(pc[t]) /\ ~RunsAt(pc'[t]) BY <1>1, <1>4, Zenon DEF RunsAt
<1>10. RunInv' BY <1>2, <1>9, RunsKept, Zenon DEF OnceInv
<1>11. OnceType' BY <1>2, Zenon DEF OnceInv, OnceType
<1>12. ReadsAt(pc'[t], cont'[t], reg'[t], setTo'[t])
    BY <1>3, <1>4, <1>6, Zenon DEF ReadsAt, UnparksAt, UnparkPc
<1>13. ReadInv' BY <1>3, <1>12, ReadKept, Zenon DEF OnceInv
<1>14. OnWalk(t, w0) BY <1>7, Zenon DEF OnWalk
<1>15. Live(w0) /\ w0 # t
  <2>1. Live(w0) BY <1>5, <1>14, Zenon DEF OnceInv, ListInv
  <2> QED BY <1>7, <2>1, Zenon DEF Live
<1>16. ~RWaitsAt(pc[w0], cont[w0]) BY <1>15, WaitsApart, Zenon DEF Live
<1>17. \A u \in Thread : u # t => pc'[u] = pc[u] /\ cont'[u] = cont[u] /\ reg'[u] = reg[u]
    BY Zenon DEF Moves
<1>18. \A u \in Thread : Live(u)' <=> Live(u) /\ u # w0
    BY <1>2, <1>7, <1>8, <1>17, Zenon DEF Live
<1>19. \A u \in Thread : LiveR(u)' <=> LiveR(u)
    BY <1>2, <1>7, <1>8, <1>16, <1>17, ZenonT(30) DEF LiveR
<1>20. \A u, w \in Thread : Signals(u, w)' <=> Signals(u, w)
    BY <1>7, <1>8, <1>17, ZenonT(30) DEF Signals
<1>21. ShotQuiet BY <1>2, <1>19, <1>20, ZenonT(30) DEF ShotQuiet
<1>22. ShotInv' BY <1>21, ShotKept, Zenon DEF OnceInv
<1>23. \A u, w \in Thread : u # t => (OnWalk(u, w)' <=> OnWalk(u, w))
    BY <1>3, <1>17, Zenon DEF OnWalk
<1>24. \A w \in Thread : (OnWalk(t, w)' <=> OnNext(w0, w)) /\ (OnWalk(t, w) => w = w0)
    BY <1>3, <1>7, <1>8, <1>15, Zenon DEF OnWalk, OnNext
<1>25. \A u, w \in Thread : OnNext(u, w)' <=> OnNext(u, w) /\ u # w0
    BY <1>2, <1>18, Zenon DEF OnNext
<1>26. ListInv'
  <2>1. ListInv BY Zenon DEF OnceInv
  <2>2. once.head # w0 /\ \A u \in Thread : ~OnNext(u, w0) /\ (OnWalk(u, w0) => u = t)
      BY <1>5, <1>14, <2>1, Zenon DEF ListInv
  <2> SUFFICES ASSUME NEW w \in Thread
               PROVE  /\ once'.head = w => Live(w)' /\ \A u \in Thread : ~OnWalk(u, w)' /\ ~OnNext(u, w)'
                      /\ \A v \in Thread : OnWalk(v, w)' =>
                            Live(w)' /\ \A u \in Thread : (OnWalk(u, w)' => u = v) /\ ~OnNext(u, w)'
                      /\ \A v \in Thread : OnNext(v, w)' =>
                            Live(w)' /\ \A u \in Thread : OnNext(u, w)' => u = v
      BY Zenon DEF ListInv
  <2>3. /\ once.head = w => Live(w) /\ \A u \in Thread : ~OnWalk(u, w) /\ ~OnNext(u, w)
        /\ \A v \in Thread : OnWalk(v, w) =>
              Live(w) /\ \A u \in Thread : (OnWalk(u, w) => u = v) /\ ~OnNext(u, w)
        /\ \A v \in Thread : OnNext(v, w) =>
              Live(w) /\ \A u \in Thread : OnNext(u, w) => u = v
      BY <2>1, Zenon DEF ListInv
  <2>4. CASE w = w0
    <3>1. \A u \in Thread : ~OnNext(u, w)' /\ ~OnWalk(u, w)'
        BY <1>5, <1>23, <1>24, <1>25, <2>2, <2>4, ZenonT(30)
    <3> QED BY <1>2, <2>2, <2>4, <3>1, ZenonT(30)
  <2>5. CASE w # w0
    <3>1. Live(w)' <=> Live(w) BY <1>18, <2>5, Zenon
    <3>2. CASE OnNext(w0, w)
      <4>1. /\ Live(w) /\ once.head # w /\ (\A u \in Thread : OnNext(u, w) => u = w0)
            /\ \A u \in Thread : ~OnWalk(u, w) BY <1>5, <2>3, <3>2, Zenon
      <4>2. \A u \in Thread : ~OnNext(u, w)' BY <1>25, <4>1, Zenon
      <4>3. \A u \in Thread : OnWalk(u, w)' => u = t BY <1>23, <4>1, Zenon
      <4> QED BY <1>2, <3>1, <4>1, <4>2, <4>3, ZenonT(30)
    <3>3. CASE ~OnNext(w0, w)
      <4>1. \A u \in Thread : OnNext(u, w)' <=> OnNext(u, w) BY <1>25, <3>3, Zenon
      <4>2. \A u \in Thread : OnWalk(u, w)' <=> OnWalk(u, w) BY <1>23, <1>24, <2>5, <3>3, ZenonT(30)
      <4> QED BY <1>2, <2>3, <3>1, <4>1, <4>2, ZenonT(30)
    <3> QED BY <3>2, <3>3, ZenonT(30)
  <2> QED BY <2>4, <2>5, Zenon
<1> QED BY <1>10, <1>11, <1>13, <1>22, <1>26, ZenonT(30) DEF OnceInv
-----------------------------------------------------------------------------
\* A thread puts its node at the head of the list, or reads the word again.
LEMMA OnceWaitKeeps ==
    ASSUME NEW t \in Thread, NEW from, NEW to, Moves(t, from, to), Shape, OnceInv, OnceWait(t)
    PROVE  OnceInv'
<1>1. pc[t] = "once_wait" /\ setTo' = setTo /\ shot' = shot BY Zenon DEF OnceWait, At, KeepO, svars
<1>2. ~RunsAt(pc[t]) /\ pc[t] \in PlainPc BY <1>1, Zenon DEF RunsAt, PlainPc
<1>3. CASE once # reg[t]
  <2>1. once' = once /\ next' = next /\ signaled' = signaled BY <1>3, Zenon DEF OnceWait
  <2>2. reg'[t] = once BY <1>3, LoadIs, Zenon DEF OnceWait, Shape
  <2>3. pc'[t] = IF once.st = "RUNNING" THEN "once_wait" ELSE "once_load"
      BY <1>3, GotoIs, Zenon DEF OnceWait, Shape
  <2>4. pc'[t] = "once_load" \/ (pc'[t] = "once_wait" /\ reg'[t].st = "RUNNING")
      BY <2>2, <2>3, Zenon
  <2>5. pc'[t] \in PlainPc /\ ~RunsAt(pc'[t]) BY <2>4, Zenon DEF PlainPc, RunsAt
  <2>6. ~UnparksAt(pc'[t], cont'[t]) BY <2>5, PlainShows, ZenonT(30)
  <2>7. ReadsAt(pc'[t], cont'[t], reg'[t], setTo'[t]) BY <2>4, <2>6, Zenon DEF ReadsAt
  <2> QED BY <1>1, <1>2, <2>1, <2>5, <2>7, OncePlain, ZenonT(30)
<1>4. CASE once = reg[t]
  <2>1. /\ once' = [once EXCEPT !.head = t] /\ next' = [next EXCEPT ![t] = once.head]
        /\ signaled' = signaled \ {t} BY <1>4, Zenon DEF OnceWait
  <2>2. pc'[t] = "once_check" BY <1>4, GotoIs, ZenonT(30) DEF OnceWait, Shape
  <2>3. once.st = "RUNNING" BY <1>1, <1>4, Zenon DEF OnceInv, ReadInv, ReadsAt
  <2>4. DOMAIN once' = {"st", "head"} /\ once'.st = "RUNNING" /\ once'.head = t
      BY <2>1, <2>3, Zenon DEF OnceInv, OnceType
  <2>5. /\ DOMAIN next' = Thread /\ next'[t] = once.head
        /\ \A u \in Thread : u # t => next'[u] = next[u] BY <2>1, Zenon DEF OnceInv, OnceType
  <2>6. OnceType' BY <2>4, <2>5, Zenon DEF OnceInv, OnceType, OnceStates
  <2>7. RunInv'
    <3>1. ~RunsAt(pc'[t]) BY <2>2, Zenon DEF RunsAt
    <3>2. \A u \in Thread : Runs(u)' <=> Runs(u) BY <1>2, <3>1, Zenon DEF Runs, Moves
    <3> QED BY <2>3, <2>4, <3>2, Zenon DEF OnceInv, RunInv
  <2>8. ReadsAt(pc'[t], cont'[t], reg'[t], setTo'[t]) BY <2>2, Zenon DEF ReadsAt, UnparksAt, UnparkPc
  <2>9. ReadInv' BY <1>1, <2>8, ReadKept, ZenonT(30) DEF OnceInv
  <2>10. /\ WaitsAt(pc'[t], cont'[t]) /\ ~RWaitsAt(pc'[t], cont'[t])
         /\ \A w : ~WalksAt(pc'[t], cont'[t], reg'[t], setTo'[t], w) /\ ~SignalsAt(pc'[t], reg'[t], w)
      BY <2>2, CheckShows, Zenon
  <2>11. \A u \in Thread : u # t => (u \in signaled' <=> u \in signaled) BY <2>1, Zenon
  <2>12. Live(t)' /\ ~Live(t) BY <1>2, <2>1, <2>10, PlainShows, Zenon DEF Live
  <2>13. \A u \in Thread : u # t => (Live(u)' <=> Live(u)) BY <1>1, <2>11, OthersShow, Zenon
  <2>14. \A u, w \in Thread : OnWalk(u, w)' <=> OnWalk(u, w)
      BY <1>1, <1>2, <2>10, <2>11, PlainShows, OthersShow, ZenonT(30) DEF OnWalk
  <2>15. \A w \in Thread : (OnNext(t, w)' <=> once.head = w) /\ ~OnNext(t, w)
      BY <2>5, <2>12, Zenon DEF OnNext
  <2>16. \A u, w \in Thread : u # t => (OnNext(u, w)' <=> OnNext(u, w))
      BY <2>5, <2>13, Zenon DEF OnNext
  <2>17. \A u \in Thread : LiveR(u)' <=> LiveR(u)
      BY <1>1, <1>2, <2>10, <2>11, PlainShows, OthersShow, ZenonT(30) DEF LiveR
  <2>18. \A u, w \in Thread : Signals(u, w)' <=> Signals(u, w)
      BY <1>1, <1>2, <2>10, <2>11, PlainShows, OthersShow, ZenonT(30) DEF Signals
  <2>19. ShotQuiet BY <1>1, <2>17, <2>18, ZenonT(30) DEF ShotQuiet
  <2>20. ShotInv' BY <2>19, ShotKept, Zenon DEF OnceInv
  <2>21. ListInv'
    <3>1. ListInv BY Zenon DEF OnceInv
    <3> SUFFICES ASSUME NEW w \in Thread
                 PROVE  /\ once'.head = w => Live(w)' /\ \A u \in Thread : ~OnWalk(u, w)' /\ ~OnNext(u, w)'
                        /\ \A v \in Thread : OnWalk(v, w)' =>
                              Live(w)' /\ \A u \in Thread : (OnWalk(u, w)' => u = v) /\ ~OnNext(u, w)'
                        /\ \A v \in Thread : OnNext(v, w)' =>
                              Live(w)' /\ \A u \in Thread : OnNext(u, w)' => u = v
        BY Zenon DEF ListInv
    <3>2. /\ once.head = w => Live(w) /\ \A u \in Thread : ~OnWalk(u, w) /\ ~OnNext(u, w)
          /\ \A v \in Thread : OnWalk(v, w) =>
                Live(w) /\ \A u \in Thread : (OnWalk(u, w) => u = v) /\ ~OnNext(u, w)
          /\ \A v \in Thread : OnNext(v, w) =>
                Live(w) /\ \A u \in Thread : OnNext(u, w) => u = v
        BY <3>1, Zenon DEF ListInv
    <3>3. CASE w = t
      <4>1. once.head # w /\ \A u \in Thread : ~OnWalk(u, w) /\ ~OnNext(u, w)
          BY <2>12, <3>2, <3>3, Zenon
      <4>2. \A u \in Thread : ~OnWalk(u, w)' /\ ~OnNext(u, w)'
          BY <2>14, <2>15, <2>16, <4>1, ZenonT(30)
      <4> QED BY <2>12, <3>3, <4>2, Zenon
    <3>4. CASE w # t
      <4>1. (Live(w)' <=> Live(w)) /\ once'.head # w BY <2>4, <2>13, <3>4, Zenon
      <4>2. CASE once.head = w
        <5>1. Live(w) /\ \A u \in Thread : ~OnWalk(u, w) /\ ~OnNext(u, w) BY <3>2, <4>2, Zenon
        <5>2. \A u \in Thread : ~OnWalk(u, w)' /\ (OnNext(u, w)' => u = t)
            BY <2>14, <2>16, <5>1, Zenon
        <5> QED BY <4>1, <5>1, <5>2, Zenon
      <4>3. CASE once.head # w
        <5>1. \A u \in Thread : OnNext(u, w)' <=> OnNext(u, w) BY <2>15, <2>16, <4>3, Zenon
        <5> QED BY <2>14, <3>2, <4>1, <5>1, Zenon
      <4> QED BY <4>2, <4>3, Zenon
    <3> QED BY <3>3, <3>4, ZenonT(30)
  <2> QED BY <2>6, <2>7, <2>9, <2>20, <2>21, ZenonT(30) DEF OnceInv
<1> QED BY <1>3, <1>4, Zenon

-----------------------------------------------------------------------------
\* Who finds a receiver's token in the packet takes it out and goes to signal it.
LEMMA TakesToken ==
    ASSUME NEW t \in Thread, NEW from, NEW to, Moves(t, from, to), OnceInv, UNCHANGED ovars,
           pc[t] \in {"ready", "send_swap"}, pc'[t] = "signal", shot \in Thread, reg'[t] = shot,
           shot' \in {"DATA", "DISCONNECTED"}
    PROVE  OnceInv'
<1>1. once' = once /\ next' = next /\ signaled' = signaled /\ setTo' = setTo BY Zenon DEF ovars
<1>2. ~RunsAt(pc[t]) /\ ~RunsAt(pc'[t]) /\ pc[t] \in PlainPc BY Zenon DEF RunsAt, PlainPc, Over
<1>3. /\ ~WaitsAt(pc'[t], cont'[t]) /\ ~RWaitsAt(pc'[t], cont'[t])
      /\ \A w : /\ ~WalksAt(pc'[t], cont'[t], reg'[t], setTo'[t], w)
                /\ SignalsAt(pc'[t], reg'[t], w) <=> reg'[t] = w
    BY SignalShows, ZenonT(30)
<1>4. RunInv' BY <1>1, <1>2, RunsKept, Zenon DEF OnceInv
<1>5. OnceType' BY <1>1, Zenon DEF OnceInv, OnceType
<1>6. ReadsAt(pc'[t], cont'[t], reg'[t], setTo'[t]) BY Zenon DEF ReadsAt, UnparksAt, UnparkPc
<1>7. ReadInv' BY <1>1, <1>6, ReadKept, Zenon DEF OnceInv
<1>8. \A u \in Thread : (Live(u)' <=> Live(u)) /\ (LiveR(u)' <=> LiveR(u))
    BY <1>1, <1>2, <1>3, PlainShows, OthersShow, Zenon DEF Live, LiveR
<1>9. \A u, w \in Thread : OnWalk(u, w)' <=> OnWalk(u, w)
    BY <1>1, <1>2, <1>3, PlainShows, OthersShow, Zenon DEF OnWalk
<1>10. ListQuiet BY <1>1, <1>8, <1>9, Zenon DEF ListQuiet
<1>11. ListInv' BY <1>10, ListKept, Zenon DEF OnceInv
<1>12. \A w \in Thread : (Signals(t, w)' <=> shot = w) /\ ~Signals(t, w)
    BY <1>2, <1>3, PlainShows, Zenon DEF Signals
<1>13. \A u, w \in Thread : u # t => (Signals(u, w)' <=> Signals(u, w))
    BY <1>1, OthersShow, Zenon
<1>14. ShotInv'
  <2>1. \A w \in Thread : shot' # w BY ThreadAssumption, Zenon
  <2>2. ASSUME NEW w \in Thread, NEW v \in Thread, Signals(v, w)'
        PROVE  LiveR(w)' /\ \A u \in Thread : Signals(u, w)' => u = v
    <3>1. /\ shot = w => LiveR(w) /\ \A u \in Thread : ~Signals(u, w)
          /\ Signals(v, w) => LiveR(w) /\ \A u \in Thread : Signals(u, w) => u = v
        BY Zenon DEF OnceInv, ShotInv
    <3> QED BY <1>8, <1>12, <1>13, <2>2, <3>1, ZenonT(30)
  <2> QED BY <2>1, <2>2, Zenon DEF ShotInv
<1> QED BY <1>4, <1>5, <1>7, <1>11, <1>14, ZenonT(30) DEF OnceInv

\* It signals the receiver, which may then leave.
LEMMA SignalKeeps ==
    ASSUME NEW t \in Thread, NEW from, NEW to, Moves(t, from, to), Shape, OnceInv, Signal(t)
    PROVE  OnceInv'
<1> DEFINE w0 == reg[t]
<1>1. pc[t] = "signal" BY Zenon DEF Signal, At
<1>2. /\ once' = once /\ next' = next /\ setTo' = setTo /\ signaled' = signaled \union {w0}
      /\ shot' = shot /\ reg' = reg BY Zenon DEF Signal, KeepS, svars
<1>3. /\ ~WaitsAt(pc[t], cont[t]) /\ ~RWaitsAt(pc[t], cont[t])
      /\ \A w : /\ ~WalksAt(pc[t], cont[t], reg[t], setTo[t], w)
                /\ SignalsAt(pc[t], reg[t], w) <=> reg[t] = w
    BY <1>1, SignalShows, Zenon
<1>4. w0 \in Thread /\ Signals(t, w0) BY <1>1, <1>3, ZenonT(30) DEF OnceInv, ReadInv, ReadsAt, Signals
<1>5. LiveR(w0) /\ shot # w0 /\ \A u \in Thread : Signals(u, w0) => u = t
    BY <1>4, Zenon DEF OnceInv, ShotInv
<1>6. w0 \notin signaled /\ ~WaitsAt(pc[w0], cont[w0]) /\ w0 # t
    BY <1>3, <1>5, WaitsApart, Zenon DEF LiveR
<1>7. pc'[t] = "unpark" /\ cont'[t] = "ready"
  <2>1. Goto(t, "unpark") /\ Back(t, "ready") BY <1>6, Zenon DEF Signal, Call, Back
  <2> QED BY <2>1, GotoIs, BackIs, Zenon DEF Shape
<1>8. /\ ~WaitsAt(pc'[t], cont'[t]) /\ ~RWaitsAt(pc'[t], cont'[t])
      /\ \A w : ~WalksAt(pc'[t], cont'[t], reg'[t], setTo'[t], w) /\ ~SignalsAt(pc'[t], reg'[t], w)
    BY <1>7, UnparkShows, Zenon
<1>9. ~RunsAt(pc[t]) /\ ~RunsAt(pc'[t]) BY <1>1, <1>7, Zenon DEF RunsAt
<1>10. RunInv' BY <1>2, <1>9, RunsKept, Zenon DEF OnceInv
<1>11. OnceType' BY <1>2, Zenon DEF OnceInv, OnceType
<1>12. ReadsAt(pc'[t], cont'[t], reg'[t], setTo'[t]) BY <1>7, Zenon DEF ReadsAt, UnparksAt, UnparkPc
<1>13. ReadInv' BY <1>2, <1>12, ReadKept, Zenon DEF OnceInv
<1>14. \A u \in Thread : u # t => pc'[u] = pc[u] /\ cont'[u] = cont[u] /\ reg'[u] = reg[u]
    BY Zenon DEF Moves
<1>15. \A u \in Thread : Live(u)' <=> Live(u)
    BY <1>2, <1>3, <1>6, <1>8, <1>14, Zenon DEF Live
<1>16. \A u, w \in Thread : OnWalk(u, w)' <=> OnWalk(u, w)
    BY <1>2, <1>3, <1>8, <1>14, ZenonT(30) DEF OnWalk
<1>17. ListQuiet BY <1>2, <1>15, <1>16, Zenon DEF ListQuiet
<1>18. ListInv' BY <1>17, ListKept, Zenon DEF OnceInv
<1>19. \A u \in Thread : LiveR(u)' <=> LiveR(u) /\ u # w0
    BY <1>2, <1>3, <1>8, <1>14, ZenonT(30) DEF LiveR
<1>20. \A u, w \in Thread : Signals(u, w)' <=> Signals(u, w) /\ u # t
    BY <1>8, <1>14, Zenon DEF Signals
<1>21. ShotInv'
  <2>1. ASSUME NEW w \in Thread
        PROVE  /\ shot' = w => LiveR(w)' /\ \A u \in Thread : ~Signals(u, w)'
               /\ \A v \in Thread : Signals(v, w)' =>
                     LiveR(w)' /\ \A u \in Thread : Signals(u, w)' => u = v
    <3>1. /\ shot = w => LiveR(w) /\ \A u \in Thread : ~Signals(u, w)
          /\ \A v \in Thread : Signals(v, w) =>
                LiveR(w) /\ \A u \in Thread : Signals(u, w) => u = v
        BY Zenon DEF OnceInv, ShotInv
    <3>2. shot' = w => w # w0 BY <1>2, <1>5, Zenon
    <3>3. \A v \in Thread : Signals(v, w)' => w # w0 BY <1>5, <1>20, Zenon
    <3> QED BY <1>2, <1>19, <1>20, <3>1, <3>2, <3>3, ZenonT(30)
  <2> QED BY <1>2, <2>1, Zenon DEF OnceInv, ShotInv
<1> QED BY <1>10, <1>11, <1>13, <1>18, <1>21, ZenonT(30) DEF OnceInv

\* A receiver leaves its token in the empty packet.
LEMMA BlockKeeps ==
    ASSUME NEW t \in Thread, NEW from, NEW to, Moves(t, from, to), Shape, OnceInv, RecvBlock(t),
           shot = "EMPTY"
    PROVE  OnceInv'
<1>1. /\ pc[t] = "recv_block" /\ signaled' = signaled \ {t} /\ shot' = t
      /\ once' = once /\ next' = next /\ setTo' = setTo BY Zenon DEF RecvBlock, At, KeepS
<1>2. pc'[t] = "recv_check" BY GotoIs, Zenon DEF RecvBlock, Shape
<1>3. ~RunsAt(pc[t]) /\ ~RunsAt(pc'[t]) /\ pc[t] \in PlainPc BY <1>1, <1>2, Zenon DEF RunsAt, PlainPc
<1>4. /\ ~WaitsAt(pc'[t], cont'[t]) /\ RWaitsAt(pc'[t], cont'[t])
      /\ \A w : ~WalksAt(pc'[t], cont'[t], reg'[t], setTo'[t], w) /\ ~SignalsAt(pc'[t], reg'[t], w)
    BY <1>2, RecvShows, Zenon
<1>5. RunInv' BY <1>1, <1>3, RunsKept, Zenon DEF OnceInv
<1>6. OnceType' BY <1>1, Zenon DEF OnceInv, OnceType
<1>7. ReadsAt(pc'[t], cont'[t], reg'[t], setTo'[t]) BY <1>2, Zenon DEF ReadsAt, UnparksAt, UnparkPc
<1>8. ReadInv' BY <1>1, <1>7, ReadKept, Zenon DEF OnceInv
<1>9. \A u \in Thread : u # t => (u \in signaled' <=> u \in signaled) BY <1>1, Zenon
<1>10. \A u \in Thread : Live(u)' <=> Live(u)
    BY <1>1, <1>3, <1>4, <1>9, PlainShows, OthersShow, ZenonT(30) DEF Live
<1>11. \A u, w \in Thread : OnWalk(u, w)' <=> OnWalk(u, w)
    BY <1>1, <1>3, <1>4, <1>9, PlainShows, OthersShow, ZenonT(30) DEF OnWalk
<1>12. ListQuiet BY <1>1, <1>10, <1>11, Zenon DEF ListQuiet
<1>13. ListInv' BY <1>12, ListKept, Zenon DEF OnceInv
<1>14. LiveR(t)' /\ ~LiveR(t) BY <1>1, <1>3, <1>4, PlainShows, ZenonT(30) DEF LiveR
<1>15. \A u \in Thread : u # t => (LiveR(u)' <=> LiveR(u)) BY <1>1, <1>9, OthersShow, Zenon
<1>16. \A u, w \in Thread : Signals(u, w)' <=> Signals(u, w)
    BY <1>1, <1>3, <1>4, <1>9, PlainShows, OthersShow, ZenonT(30) DEF Signals
<1>17. ShotInv'
  <2>1. \A u, w \in Thread : Signals(u, w) => w # t BY <1>14, Zenon DEF OnceInv, ShotInv
  <2> QED BY <1>1, <1>14, <1>15, <1>16, <2>1, ZenonT(30) DEF OnceInv, ShotInv
<1> QED BY <1>5, <1>6, <1>8, <1>13, <1>17, Zenon DEF OnceInv
-----------------------------------------------------------------------------
\* What a sender does with what it found in the packet.
LEMMA SendSwapKeeps ==
    ASSUME NEW t \in Thread, NEW from, NEW to, Moves(t, from, to), Shape, OnceInv, SendSwap(t)
    PROVE  OnceInv'
<1> DEFINE l == CASE shot = "EMPTY" -> "ready" [] shot = "DISCONNECTED" -> "send_back"
                  [] shot = "DATA" -> "panic" [] OTHER -> "signal"
<1>1. pc[t] = "send_swap" /\ shot' = "DATA" /\ UNCHANGED ovars BY Zenon DEF SendSwap, At
<1>2. Goto(t, l) /\ Load(t, shot) BY Zenon DEF SendSwap
<1>3. CASE shot \in Thread
  <2>1. shot # "EMPTY" /\ shot # "DATA" /\ shot # "DISCONNECTED"
      BY <1>3, ThreadAssumption, Zenon
  <2>2. l = "signal" BY <2>1, SMT
  <2>3. pc'[t] = "signal" /\ reg'[t] = shot BY <1>2, <2>2, GotoIs, LoadIs, Zenon DEF Shape
  <2> QED BY <1>1, <1>3, <2>3, TakesToken, Zenon
<1>4. CASE shot \notin Thread
  <2>1. shot \in {"EMPTY", "DATA", "DISCONNECTED"} BY <1>4, Zenon DEF OnceInv, ShotInv
  <2>2. l \in TalkPc BY <2>1, SMT DEF TalkPc
  <2>3. TalkEffect(t) BY <1>1, <1>2, <2>2, ZenonT(30) DEF TalkEffect, TalkPc, ovars
  <2> QED BY <2>3, OnceTalk, Zenon
<1> QED BY <1>3, <1>4, Zenon

\* What the drop of the sending end does with it.
LEMMA DropChanKeeps ==
    ASSUME NEW t \in Thread, NEW from, NEW to, Moves(t, from, to), Shape, OnceInv, DropChan(t)
    PROVE  OnceInv'
<1>1. pc[t] = "ready" /\ shot' = "DISCONNECTED" /\ UNCHANGED ovars BY Zenon DEF DropChan, Ready, At
<1>2. Goto(t, IF shot \in Thread THEN "signal" ELSE "ready") /\ Load(t, shot) BY Zenon DEF DropChan
<1>3. CASE shot \in Thread
  <2>1. pc'[t] = "signal" /\ reg'[t] = shot BY <1>2, <1>3, GotoIs, LoadIs, ZenonT(30) DEF Shape
  <2> QED BY <1>1, <1>3, <2>1, TakesToken, Zenon
<1>4. CASE shot \notin Thread
  <2>1. TalkEffect(t) BY <1>1, <1>2, <1>4, Zenon DEF TalkEffect, TalkPc, ovars
  <2> QED BY <2>1, OnceTalk, Zenon
<1> QED BY <1>3, <1>4, Zenon

\* What a receiver reads of the packet leads to a plain place.
LEMMA TryRecvTalks ==
    ASSUME NEW t \in Thread, TryRecv(t)
    PROVE  TalkEffect(t)
<1> DEFINE l == CASE shot = "EMPTY" -> "ready" [] shot = "DATA" -> "recv_cas"
                  [] shot = "DISCONNECTED" -> "recv_take" [] OTHER -> "panic"
<1>1. l \in TalkPc BY SMT DEF TalkPc
<1>2. Goto(t, l) /\ pc[t] = "try_recv" /\ UNCHANGED <<ovars, svars>> BY Zenon DEF TryRecv, At
<1> QED BY <1>1, <1>2, Zenon DEF TalkEffect, TalkPc, ovars, svars

\* Every step of a Once or a channel.
LEMMA OnceKeeps ==
    ASSUME NEW t \in Thread, NEW from, NEW to, Moves(t, from, to), Shape, OnceInv, OnceStep(t)
    PROVE  OnceInv'
<1>1. CASE \E force \in BOOLEAN : CallOnce(t, force)
  <2>1. TalkEffect(t) BY <1>1, Zenon DEF CallOnce, Ready, svars, At, TalkEffect, TalkPc
  <2> QED BY <2>1, OnceTalk, Zenon
<1>2. CASE OnceLoad(t)
  <2>1. pc[t] = "once_load" /\ Act(t, once) /\ UNCHANGED <<ovars, svars>>
      BY <1>2, Zenon DEF OnceLoad, At
  <2> QED BY <2>1, OnceActs, Zenon
<1>3. CASE OnceCas(t) BY <1>3, OnceCasKeeps, Zenon
<1>4. CASE OnceInit(t) BY <1>4, OnceInitKeeps, ZenonT(30)
<1>5. CASE OnceDrop(t) BY <1>5, OnceDropKeeps, Zenon
<1>6. CASE OnceSignal(t) BY <1>6, OnceSignalKeeps, Zenon
<1>7. CASE OnceNext(t) BY <1>7, OnceNextKeeps, Zenon
<1>8. CASE OnceWait(t) BY <1>8, OnceWaitKeeps, Zenon
<1>9. CASE OnceCheck(t) BY <1>9, OnceCheckKeeps, Zenon
<1>10. CASE Send(t)
  <2>1. TalkEffect(t) BY <1>10, Zenon DEF Send, Ready, ovars, At, TalkEffect, TalkPc
  <2> QED BY <2>1, OnceTalk, Zenon
<1>11. CASE SendSwap(t) BY <1>11, SendSwapKeeps, Zenon
<1>12. CASE SendBack(t)
  <2>1. TalkEffect(t) BY <1>12, ZenonT(30) DEF SendBack, At, ovars, TalkEffect, TalkPc
  <2> QED BY <2>1, OnceTalk, Zenon
<1>13. CASE DropChan(t) BY <1>13, DropChanKeeps, Zenon
<1>14. CASE Signal(t) BY <1>14, SignalKeeps, Zenon
<1>15. CASE Recv(t)
  <2>1. TalkEffect(t) BY <1>15, Zenon DEF Recv, Ready, ovars, svars, At, TalkEffect, TalkPc
  <2> QED BY <2>1, OnceTalk, Zenon
<1>16. CASE RecvBlock(t)
  <2>1. CASE shot = "EMPTY" BY <1>16, <2>1, BlockKeeps, ZenonT(30)
  <2>2. CASE shot # "EMPTY"
    <3>1. TalkEffect(t) BY <1>16, <2>2, Zenon DEF RecvBlock, At, KeepS, TalkEffect, TalkPc
    <3> QED BY <3>1, OnceTalk, Zenon
  <2> QED BY <2>1, <2>2, Zenon
<1>17. CASE RecvCheck(t) BY <1>17, RecvCheckKeeps, Zenon
<1>18. CASE TryRecv(t) BY <1>18, TryRecvTalks, OnceTalk, Zenon
<1>19. CASE RecvCas(t)
  <2>1. TalkEffect(t) BY <1>19, Zenon DEF RecvCas, At, ovars, TalkEffect, TalkPc
  <2> QED BY <2>1, OnceTalk, Zenon
<1>20. CASE RecvTake(t)
  <2>1. TalkEffect(t) BY <1>20, Zenon DEF RecvTake, At, Done, ovars, TalkEffect, TalkPc
  <2> QED BY <2>1, OnceTalk, Zenon
<1>21. CASE DropPort(t)
  <2>1. TalkEffect(t) BY <1>21, Zenon DEF DropPort, Ready, ovars, At, TalkEffect, TalkPc
  <2> QED BY <2>1, OnceTalk, Zenon
<1>22. CASE StartTryRecv(t)
  <2>1. TalkEffect(t) BY <1>22, Zenon DEF StartTryRecv, Ready, ovars, svars, At, TalkEffect,
        TalkPc
  <2> QED BY <2>1, OnceTalk, Zenon
<1> QED BY <1>1, <1>2, <1>3, <1>4, <1>5, <1>6, <1>7, <1>8, <1>9, <1>10, <1>11, <1>12, <1>13,
        <1>14, <1>15, <1>16, <1>17, <1>18, <1>19, <1>20, <1>21, <1>22, ZenonT(30) DEF OnceStep

\* Every step of the library keeps the Once, its list and the channel.
LEMMA OnceStepKeeps ==
    ASSUME NEW t \in Thread, Shape, Flow, OnceInv, SyncStep(t)
    PROVE  OnceInv'
<1>1. ReadInv BY Zenon DEF OnceInv
<1>2. CASE ThreadStep(t) /\ UNCHANGED <<lvars, rvars, ovars, svars>> BY <1>2, OncePark, Zenon
<1>3. CASE LocksStep(t) /\ UNCHANGED <<rvars, ovars, svars>>
  <2>1. Moves(t, MutexPc \union Idle, MutexPc \union Over) BY <1>3, LocksMoves, Zenon
  <2>2. pc[t] \in MutexPc \union RwPc \union Over /\ pc'[t] \in MutexPc \union RwPc \union Over
      BY <2>1, Zenon DEF Moves, Idle, Over
  <2> QED BY <1>3, <2>1, <2>2, OnceAway, Zenon
<1>4. CASE RwStep(t) /\ UNCHANGED <<lvars, ovars, svars>>
  <2>1. Moves(t, RwPc \union Idle, RwPc \union Over) BY <1>4, RwMoves, Zenon
  <2>2. pc[t] \in MutexPc \union RwPc \union Over /\ pc'[t] \in MutexPc \union RwPc \union Over
      BY <2>1, Zenon DEF Moves, Idle, Over
  <2> QED BY <1>4, <2>1, <2>2, OnceAway, ZenonT(30)
<1>5. CASE OnceStep(t) /\ UNCHANGED <<lvars, rvars>>
  <2>1. Moves(t, OncePc \union Idle, OncePc \union ParkPc \union Over) BY <1>1, <1>5, OnceMoves, Zenon
  <2> QED BY <1>5, <2>1, OnceKeeps, Zenon
<1> QED BY <1>2, <1>3, <1>4, <1>5, Zenon DEF SyncStep

-----------------------------------------------------------------------------
\* At the start every thread is ready and nothing is locked or waited for.
LEMMA SyncStarts ==
    ASSUME SyncInit
    PROVE  SyncInv
<1>1. /\ pc = [t \in Thread |-> "ready"] /\ cont = [t \in Thread |-> "ready"]
      /\ reg = [t \in Thread |-> None] /\ val = Zero
    BY Zenon DEF SyncInit, ThreadInit
<1>2. /\ once = Is("INCOMPLETE") /\ next = [t \in Thread |-> None] /\ signaled = {}
      /\ setTo = [t \in Thread |-> None] /\ shot = "EMPTY"
    BY Zenon DEF SyncInit, OnceStart
<1>3. Shape BY <1>1, <1>2, Zenon DEF Shape, Zero
<1>4. \A t \in Thread : pc[t] = "ready" /\ cont[t] = "ready" BY <1>1, Zenon
<1>5. Flow
  <2>1. "ready" \in Over BY Zenon DEF Over
  <2>2. "ready" \notin MutexPc /\ "ready" \notin ParkPc BY <2>1, PlacesApart, Zenon
  <2> QED BY <1>4, <2>2, FlowAway, Zenon DEF Flow
<1>6. MutexInv
  <2>1. "ready" \notin HoldPc BY FreeIsFree, Zenon DEF FreePc, Over
  <2>2. \A t \in Thread : ~Holding(t) BY <1>4, <2>1, HoldingIs, Zenon
  <2> QED BY <2>2, Zenon DEF MutexInv, MutexExclusive
<1>7. "ready" \in TalkPc BY Zenon DEF TalkPc
<1>8. \A c, r, x : "ready" \in PlainPc /\ ~RunsAt("ready") /\ ReadsAt("ready", c, r, x)
    BY <1>7, TalkIsPlain, Zenon
<1>9. ReadInv BY <1>4, <1>8, Zenon DEF ReadInv
<1>10. DOMAIN once = {"st", "head"} /\ once.st = "INCOMPLETE" /\ once.head = None
    BY <1>2, IsIs, Zenon
<1>11. OnceType BY <1>2, <1>10, Zenon DEF OnceType, OnceStates
<1>12. \A t \in Thread : ~Runs(t) BY <1>4, <1>8, Zenon DEF Runs
<1>13. RunInv BY <1>10, <1>12, Zenon DEF RunInv
<1>14. \A u, w \in Thread : ~Live(u) /\ ~LiveR(u) /\ ~OnWalk(u, w) /\ ~Signals(u, w)
    BY <1>4, <1>8, PlainShows, Zenon DEF Live, LiveR, OnWalk, Signals
<1>15. ListInv BY <1>10, <1>14, ThreadAssumption, Zenon DEF ListInv, OnNext
<1>16. \A w \in Thread : shot # w BY <1>2, ThreadAssumption, Zenon
<1>17. ShotInv BY <1>2, <1>14, <1>16, Zenon DEF ShotInv
<1> QED BY <1>3, <1>5, <1>6, <1>9, <1>11, <1>13, <1>15, <1>17, ZenonT(30) DEF SyncInv, OnceInv

\* No step of the library breaks it.
LEMMA SyncKeeps ==
    ASSUME SyncInv, [SyncNext]_syncvars
    PROVE  SyncInv'
<1>1. CASE SyncNext
  <2>1. PICK t \in Thread : SyncStep(t) BY <1>1, Zenon DEF SyncNext
  <2>3. Shape' /\ Flow' BY <2>1, FlowStep, Zenon DEF SyncInv, OnceInv
  <2>4. MutexInv' BY <2>1, MutexStep, Zenon DEF SyncInv, OnceInv
  <2>5. OnceInv' BY <2>1, OnceStepKeeps, Zenon DEF SyncInv
  <2> QED BY <2>3, <2>4, <2>5, Zenon DEF SyncInv, OnceInv
<1>2. CASE UNCHANGED syncvars
  <2>1. /\ pc' = pc /\ cont' = cont /\ reg' = reg /\ val' = val
        /\ once' = once /\ next' = next /\ signaled' = signaled /\ setTo' = setTo /\ shot' = shot
      BY <1>2, Zenon DEF syncvars, uvars, ovars, svars, futexes
  <2>2. Shape' /\ Flow' BY <2>1, Zenon DEF SyncInv, Shape, Flow, MutexFlow, ParkFlow
  <2>3. MutexInv' BY <2>1, Zenon DEF SyncInv, MutexInv, MutexExclusive, Holding, Mutex
  <2>4. OnceType' /\ ReadInv' BY <2>1, Zenon DEF SyncInv, OnceInv, OnceType, ReadInv, ReadsAt, UnparksAt
  <2>5. RunInv' BY <2>1, Zenon DEF SyncInv, OnceInv, RunInv, Runs, RunsAt
  <2>6. Quiet BY <2>1, Zenon DEF Quiet, ListQuiet, ShotQuiet, Live, LiveR, OnWalk, Signals
  <2>7. ListInv' /\ ShotInv' BY <2>6, QuietKeeps, Zenon DEF SyncInv, OnceInv
  <2> QED BY <2>2, <2>3, <2>4, <2>5, <2>7, ZenonT(30) DEF SyncInv, OnceInv
<1> QED BY <1>1, <1>2, Zenon

\* It is an invariant of any program that uses these locks.
LEMMA SyncInvariant == SyncSpec => []SyncInv
<1>1. SyncInit => SyncInv BY SyncStarts, Zenon
<1>2. SyncInv /\ [SyncNext]_syncvars => SyncInv' BY SyncKeeps, Zenon
<1> QED BY <1>1, <1>2, PTL DEF SyncSpec

\* However many threads lock, unlock, wait on the condition variable and park in
\* whatever order, and whatever spurious or timed wake-ups the futex has for
\* them, at most one of them is between the lock and the unlock of a mutex
\* (Mutex::lock_contended, unlock, Condvar::wait_optional_timeout).
THEOREM MutexHasOneHolder == SyncSpec => []MutexExclusive
<1>1. SyncInv => MutexExclusive BY Zenon DEF SyncInv, MutexInv
<1> QED BY <1>1, SyncInvariant, PTL

\* However many threads call one Once, with initialisers that complete or poison
\* it, one of them at a time runs its initialiser, and the drop that walks over
\* the waiters signals each of them while it still waits in the frame that holds
\* its node (Once::call_inner, wait, WaiterQueue::drop).
THEOREM OnceRunsInOne == SyncSpec => []OnceSafe
<1>1. SyncInv => OnceSafe
  <2> SUFFICES ASSUME SyncInv PROVE OnceSafe BY Zenon
  <2> DEFINE running == {t \in Thread : pc[t] \in {"once_init", "once_drop"}}
  <2>1. \A t \in Thread : t \in running <=> Runs(t) BY Zenon DEF Runs, RunsAt
  <2>2. ASSUME once.st = "RUNNING" PROVE \E t \in Thread : running = {t}
    <3>1. PICK t \in Thread : Runs(t) BY <2>2, Zenon DEF SyncInv, OnceInv, RunInv
    <3>2. running = {t} BY <2>1, <3>1, Zenon DEF SyncInv, OnceInv, RunInv
    <3> QED BY <3>2, Zenon
  <2>3. ASSUME once.st # "RUNNING" PROVE running = {}
      BY <2>1, <2>3, Zenon DEF SyncInv, OnceInv, RunInv
  <2>4. ASSUME NEW t \in Thread, pc[t] = "once_signal"
        PROVE  Waiting(reg[t]) /\ reg[t] \notin signaled
    <3>1. reg[t] \in Thread BY <2>4, Zenon DEF SyncInv, OnceInv, ReadInv, ReadsAt
    <3>2. OnWalk(t, reg[t]) BY <2>4, Zenon DEF OnWalk, WalksAt
    <3>3. Live(reg[t]) BY <3>1, <3>2, Zenon DEF SyncInv, OnceInv, ListInv
    <3> QED BY <3>3, Zenon DEF Live, Waiting, WaitsAt, WaitPc
  <2> QED BY <2>2, <2>3, <2>4, Zenon DEF OnceSafe
<1> QED BY <1>1, SyncInvariant, PTL
=============================================================================
