---------------------------- MODULE FutexProofs ----------------------------
(* For any number of tasks, keys, waits and timers: a sleeping task can be   *)
(* woken, is woken by one party only, and learns the truth about why         *)
(* (sched/wait/futex.rs, sched/wait.rs, cpu/time/timer.rs).                  *)
EXTENDS Futex, SequenceTheorems, TLAPS

Labels == {"user", "wCheck", "wPark", "asleep", "woken", "wDrop", "kLock", "kLock2", "kPop", "qPop"}
Args == [k : Key \cup {None}, v : Value \cup {None}, n : Num, to : Key \cup {None}]

FutexTypes ==
    /\ entry \in SUBSET Key /\ lock \in [Key -> Task \cup {None}] /\ wq \in [Key -> Seq(Timer)]
    /\ armed \in SUBSET Timer /\ ticking \in SUBSET Timer /\ fired \in SUBSET Timer
    /\ firing \in [Timer -> {"no", "taken", "marked"}]
    /\ waits \in [Task -> Nat] /\ pc \in [Task -> Labels] /\ call \in [Task -> Args]
    /\ ret \in [Task -> {"none", "ok", "timeout", "invalid"}]

\* A wait that has been let in has a timer left to make, and one that has slept
\* has made one.
Room(t) ==
    /\ waits[t] <= Budget[t]
    /\ pc[t] \in {"asleep", "woken"} \/ ret[t] \in {"ok", "timeout"} => waits[t] >= 1
    /\ pc[t] \in {"wCheck", "wPark"} => waits[t] < Budget[t]

\* What a call has looked up, and which guards it keeps.
Guards(t) ==
    /\ pc[t] \in {"wCheck", "wPark", "wDrop", "kLock", "kLock2", "kPop", "qPop"} => K(t) \in Key
    /\ pc[t] \in {"wCheck", "wPark", "kLock2", "kPop", "qPop"} => lock[K(t)] = t
    /\ pc[t] \in {"wCheck", "wPark", "kLock"} => call[t].to = None
    /\ pc[t] \in {"kLock2", "qPop"} => call[t].to \in Key
    /\ call[t].to # None => call[t].to # K(t)
    /\ pc[t] \in {"kPop", "qPop"} /\ call[t].to # None => lock[call[t].to] = t

\* A key that is guarded or has a queue is in the map.
Mapped == \A k \in Key : lock[k] # None \/ wq[k] # <<>> => k \in entry

\* The callback of a timer is there until it is taken.
TakenOnce == \A m \in armed : firing[m] = "no"

\* The answer is held only from the wait's end to the drop of the entry.
Answering == \A t \in Task : ret[t] # "none" => pc[t] = "wDrop"

FutexInv ==
    /\ FutexTypes /\ (\A t \in Task : Room(t) /\ Guards(t)) /\ Mapped
    /\ TakenOnce /\ OnlySleepersUnblocked /\ SleeperReachable /\ Answering /\ ReturnHonest

-----------------------------------------------------------------------------
\* A timer is a task and a number within its budget.
LEMMA TimerShape ==
    ASSUME NEW m \in Timer
    PROVE  m[1] \in Task /\ m[2] \in 1..Budget[m[1]] /\ m = <<m[1], m[2]>>
BY DEF Timer

\* The timers that Timer::activate makes.
LEMMA TimersMade ==
    ASSUME NEW t \in Task, waits[t] \in Nat
    PROVE  /\ waits[t] >= 1 /\ waits[t] <= Budget[t] => TimerOf(t) \in Timer
           /\ waits[t] < Budget[t] => NewTimer(t) \in Timer
BY FutexAssumption DEF Timer, TimerOf, NewTimer

\* Pushing to a wait queue adds one timer.
LEMMA ElemsAppend ==
    ASSUME NEW s \in Seq(Timer), NEW m \in Timer
    PROVE  /\ Append(s, m) \in Seq(Timer) /\ Append(s, m) # <<>>
           /\ Elems(Append(s, m)) = Elems(s) \cup {m}
<1>1. /\ Append(s, m) \in Seq(Timer) /\ Len(Append(s, m)) = Len(s) + 1
      /\ \A i \in 1..Len(s) : Append(s, m)[i] = s[i]
      /\ Append(s, m)[Len(s) + 1] = m
  BY AppendProperties, LenProperties
<1>2. DOMAIN s = 1..Len(s) /\ DOMAIN Append(s, m) = 1..(Len(s) + 1) /\ Len(s) \in Nat
  BY <1>1
<1>3. \A i \in 1..(Len(s) + 1) : i \in 1..Len(s) \/ i = Len(s) + 1
  BY <1>2
<1>4. Len(s) + 1 \in 1..(Len(s) + 1) /\ \A i \in 1..Len(s) : i \in 1..(Len(s) + 1)
  BY <1>2
<1>5. Append(s, m) # <<>>
  BY AppendProperties, ZenonT(30)
<1> HIDE DEF Elems
<1>6. \A x : x \in Elems(Append(s, m)) <=> x \in Elems(s) \cup {m}
  BY <1>1, <1>2, <1>3, <1>4, Zenon DEF Elems
<1> QED BY <1>1, <1>5, <1>6, Zenon

\* Popping from a wait queue takes the first timer and leaves the others.
LEMMA ElemsTail ==
    ASSUME NEW s \in Seq(Timer), s # <<>>
    PROVE  /\ Tail(s) \in Seq(Timer) /\ Head(s) \in Timer
           /\ Elems(s) = {Head(s)} \cup Elems(Tail(s))
<1>1. /\ Len(s) \in Nat /\ Len(s) >= 1 /\ Tail(s) \in Seq(Timer) /\ Head(s) \in Timer
      /\ Head(s) = s[1] /\ Len(Tail(s)) = Len(s) - 1
      /\ \A i \in 1..(Len(s) - 1) : Tail(s)[i] = s[i + 1]
  BY HeadTailProperties, LenProperties, EmptySeq
<1>2. DOMAIN s = 1..Len(s) /\ DOMAIN Tail(s) = 1..(Len(s) - 1)
  BY <1>1
<1>3. \A i \in 1..Len(s) : i = 1 \/ (i - 1 \in 1..(Len(s) - 1) /\ i = (i - 1) + 1)
  BY <1>1
<1>4. 1 \in 1..Len(s) /\ \A i \in 1..(Len(s) - 1) : i + 1 \in 1..Len(s)
  BY <1>1
<1>5. \A x \in Elems(s) : x \in {Head(s)} \cup Elems(Tail(s))
  <2> TAKE x \in Elems(s)
  <2>1. PICK i \in 1..Len(s) : x = s[i]
    BY <1>2, Zenon DEF Elems
  <2>2. CASE i = 1
    BY <1>1, <2>1, <2>2, Zenon
  <2>3. CASE i # 1
    <3>1. i - 1 \in DOMAIN Tail(s) /\ Tail(s)[i - 1] = x
      BY <1>1, <1>2, <1>3, <2>1, <2>3, Zenon
    <3> QED BY <3>1, Zenon DEF Elems
  <2> QED BY <2>2, <2>3, Zenon
<1>6. \A x \in {Head(s)} \cup Elems(Tail(s)) : x \in Elems(s)
  BY <1>1, <1>2, <1>4 DEF Elems
<1> QED BY <1>1, <1>5, <1>6, Zenon

\* A queue with a timer in it is not empty.
LEMMA ElemsSome == Elems(<<>>) = {}
BY DEF Elems

-----------------------------------------------------------------------------
\* What a task has looked up and guards is not disturbed by another task that
\* takes free guards and drops its own.
LEMMA GuardsKept ==
    ASSUME FutexTypes, NEW u \in Task, Guards(u), pc'[u] = pc[u], call'[u] = call[u],
           \A k \in Key : lock[k] = u => lock'[k] = u
    PROVE  Guards(u)'
<1>1. call[u].to \in Key \cup {None} /\ K(u)' = K(u)
  BY Zenon DEF FutexTypes, Args, K
<1> QED BY <1>1, Zenon DEF Guards, K

\* No timer is lost between the wait queues.
Queued(m) == \E k \in Key : m \in Elems(wq[k])

\* A task that is neither woken nor falls asleep leaves the sleepers alone.
LEMMA AwakeKeeps ==
    ASSUME FutexInv, NEW t \in Task, NEW l \in Labels \ {"asleep"}, pc[t] # "asleep",
           pc' = [pc EXCEPT ![t] = l], UNCHANGED <<armed, ticking, firing, waits>>, Mapped',
           \A m \in Timer : Queued(m) => Queued(m)'
    PROVE  TakenOnce' /\ OnlySleepersUnblocked' /\ SleeperReachable'
<1> USE DEF FutexInv
<1>1. \A u \in Task : pc'[u] = "asleep" <=> pc[u] = "asleep"
  BY Zenon DEF FutexTypes
<1>2. TakenOnce'
  BY Zenon DEF TakenOnce
<1>3. OnlySleepersUnblocked'
  BY <1>1, TimerShape, Zenon DEF OnlySleepersUnblocked, TimerOf, FutexTypes
<1>4. SleeperReachable'
  <2> SUFFICES ASSUME NEW u \in Task, pc[u] = "asleep", TimerOf(u) \in armed
               PROVE  TimerOf(u) \in ticking \/ \E k \in entry' : TimerOf(u) \in Elems(wq[k])'
    BY <1>1, Zenon DEF SleeperReachable, TimerOf
  <2>1. CASE TimerOf(u) \in ticking
    BY <2>1, Zenon
  <2>2. CASE Queued(TimerOf(u))
    <3>1. TimerOf(u) \in Timer
      BY Zenon DEF FutexTypes
    <3>2. PICK k \in Key : TimerOf(u) \in Elems(wq'[k])
      BY <2>2, <3>1, Zenon DEF Queued
    <3>3. k \in entry'
      BY <3>2, ElemsSome, Zenon DEF Mapped
    <3> QED BY <3>2, <3>3, Zenon
  <2> QED BY <2>1, <2>2, Zenon DEF SleeperReachable, Queued, FutexTypes
<1> QED BY <1>2, <1>3, <1>4, Zenon

\* The answers of the waits that are over stay true.
LEMMA AnswersKept ==
    ASSUME FutexInv, NEW t \in Task, NEW l \in Labels, pc[t] # "wDrop",
           pc' = [pc EXCEPT ![t] = l], UNCHANGED <<ret, fired, firing, waits>>
    PROVE  Answering' /\ ReturnHonest'
<1> USE DEF FutexInv
<1>1. Answering'
  BY Zenon DEF Answering, FutexTypes
<1>2. ReturnHonest'
  BY Zenon DEF ReturnHonest, TimerOf
<1> QED BY <1>1, <1>2, Zenon

\* A step that enters a call, or the next stage of one, and takes at most one
\* free guard.
TakesGuard(t) ==
    \/ UNCHANGED <<lock, entry>>
    \/ \E k \in Key : GetFutex(t, k)

\* Such a step keeps the invariant if it leaves its own task in order.
LEMMA EnterKeeps ==
    ASSUME FutexInv, NEW t \in Task, NEW l \in Labels \ {"asleep", "woken", "wDrop"},
           pc[t] \notin {"asleep", "woken", "wDrop"}, pc' = [pc EXCEPT ![t] = l],
           NEW c \in Args, call' = [call EXCEPT ![t] = c], TakesGuard(t),
           UNCHANGED <<wq, armed, ticking, fired, firing, waits, ret>>, Guards(t)', Room(t)'
    PROVE  FutexInv'
<1> USE DEF FutexInv
<1>1. /\ lock' \in [Key -> Task \cup {None}] /\ entry' \in SUBSET Key
      /\ \A u \in Task \ {t}, k \in Key : lock[k] = u => lock'[k] = u
      /\ \A k \in Key : lock'[k] # None => lock[k] # None \/ k \in entry'
      /\ entry \subseteq entry'
  <2>1. CASE UNCHANGED <<lock, entry>>
    BY <2>1, Zenon DEF FutexTypes
  <2>2. ASSUME NEW k \in Key, GetFutex(t, k)
        PROVE  /\ lock' \in [Key -> Task \cup {None}] /\ entry' \in SUBSET Key
               /\ \A u \in Task \ {t}, x \in Key : lock[x] = u => lock'[x] = u
               /\ \A x \in Key : lock'[x] # None => lock[x] # None \/ x \in entry'
               /\ entry \subseteq entry'
    <3>1. /\ lock[k] = None /\ lock' = [lock EXCEPT ![k] = t] /\ entry' = entry \cup {k}
          /\ \A x \in Key : lock'[x] = IF x = k THEN t ELSE lock[x]
      BY <2>2, Zenon DEF GetFutex, FutexTypes
    <3> QED BY <3>1, FutexAssumption DEF FutexTypes
  <2> QED BY <2>1, <2>2, Zenon DEF TakesGuard
<1>2. FutexTypes'
  BY <1>1, Zenon DEF FutexTypes
<1>3. Mapped'
  BY <1>1, Zenon DEF Mapped
<1>4. ASSUME NEW u \in Task PROVE Room(u)' /\ Guards(u)'
  <2>1. CASE u = t
    BY <2>1, Zenon
  <2>2. CASE u # t
    <3>1. pc'[u] = pc[u] /\ call'[u] = call[u]
      BY <2>2, Zenon DEF FutexTypes
    <3> QED BY <1>1, <2>2, <3>1, GuardsKept, Zenon DEF Room
  <2> QED BY <2>1, <2>2, Zenon
<1>5. TakenOnce' /\ OnlySleepersUnblocked' /\ SleeperReachable'
  BY <1>3, AwakeKeeps, Zenon DEF Queued
<1>6. Answering' /\ ReturnHonest'
  BY AnswersKept, Zenon
<1> QED BY <1>2, <1>3, <1>4, <1>5, <1>6, Zenon

\* The calls that user code makes, up to the first guard.
LEMMA UserOK ==
    ASSUME FutexInv, NEW t \in Task, NEW k, NEW v, NEW n, NEW move,
           \/ k \in Key /\ v \in Value /\ FutexWait(t, k, v)
           \/ k \in Key /\ v \in Value /\ StoreAndWake(t, k, v)
           \/ k \in Key /\ n \in Num /\ FutexWake(t, k, n)
           \/ move \in Moves /\ n \in Num /\ FutexReque(t, move, n)
    PROVE  FutexInv'
<1> USE DEF FutexInv
<1>0. None \notin Key /\ (move \in Moves => move[1] \in Key /\ move[2] \in Key /\ move[1] # move[2])
  BY FutexAssumption, Zenon
<1>1. pc[t] = "user" /\ ret[t] = "none" /\ waits[t] <= Budget[t]
  BY Zenon DEF FutexWait, StoreAndWake, FutexWake, FutexReque, Answering, Room
<1>2. CASE k \in Key /\ v \in Value /\ FutexWait(t, k, v)
  <2> DEFINE c == [NoCall EXCEPT !.k = k, !.v = v]
  <2>1. c \in Args /\ c.k = k /\ c.to = None
    BY <1>2, Zenon DEF c, NoCall, Args, Num
  <2> HIDE DEF c
  <2>2. /\ pc' = [pc EXCEPT ![t] = "wCheck"] /\ call' = [call EXCEPT ![t] = c]
        /\ GetFutex(t, k) /\ waits[t] < Budget[t]
        /\ UNCHANGED <<wq, armed, ticking, fired, firing, waits, ret>>
    BY <1>2, Zenon DEF FutexWait, Go, c
  <2>3. pc'[t] = "wCheck" /\ K(t)' = k /\ call'[t].to = None /\ lock'[k] = t
    BY <1>2, <2>1, <2>2, Zenon DEF FutexTypes, K, GetFutex
  <2>4. Guards(t)' /\ Room(t)'
    BY <1>0, <1>1, <1>2, <2>2, <2>3, ZenonT(30) DEF Guards, Room
  <2> QED BY <1>1, <1>2, <2>1, <2>2, <2>4, EnterKeeps, Zenon DEF TakesGuard, Labels
<1>3. CASE k \in Key /\ v \in Value /\ StoreAndWake(t, k, v)
  <2> DEFINE c == [NoCall EXCEPT !.k = k]
  <2>1. c \in Args /\ c.k = k /\ c.to = None
    BY <1>3, Zenon DEF c, NoCall, Args, Num
  <2> HIDE DEF c
  <2>2. /\ pc' = [pc EXCEPT ![t] = "kLock"] /\ call' = [call EXCEPT ![t] = c]
        /\ UNCHANGED <<lock, entry>>
        /\ UNCHANGED <<wq, armed, ticking, fired, firing, waits, ret>>
    BY <1>3, Zenon DEF StoreAndWake, Go, c
  <2>3. pc'[t] = "kLock" /\ K(t)' = k /\ call'[t].to = None
    BY <1>3, <2>1, <2>2, Zenon DEF FutexTypes, K
  <2>4. Guards(t)' /\ Room(t)'
    BY <1>0, <1>1, <1>3, <2>2, <2>3, Zenon DEF Guards, Room
  <2> QED BY <1>1, <1>3, <2>1, <2>2, <2>4, EnterKeeps, ZenonT(30) DEF TakesGuard, Labels
<1>4. CASE k \in Key /\ n \in Num /\ FutexWake(t, k, n)
  <2> DEFINE c == [NoCall EXCEPT !.k = k, !.n = n]
  <2>1. c \in Args /\ c.k = k /\ c.to = None
    BY <1>4, Zenon DEF c, NoCall, Args, Num
  <2> HIDE DEF c
  <2>2. /\ pc' = [pc EXCEPT ![t] = "kPop"] /\ call' = [call EXCEPT ![t] = c]
        /\ GetFutex(t, k)
        /\ UNCHANGED <<wq, armed, ticking, fired, firing, waits, ret>>
    BY <1>4, Zenon DEF FutexWake, Go, c
  <2>3. pc'[t] = "kPop" /\ K(t)' = k /\ call'[t].to = None /\ lock'[k] = t
    BY <1>4, <2>1, <2>2, Zenon DEF FutexTypes, K, GetFutex
  <2>4. Guards(t)' /\ Room(t)'
    BY <1>0, <1>1, <1>4, <2>2, <2>3, Zenon DEF Guards, Room
  <2> QED BY <1>1, <1>4, <2>1, <2>2, <2>4, EnterKeeps, Zenon DEF TakesGuard, Labels
<1>5. CASE move \in Moves /\ n \in Num /\ FutexReque(t, move, n)
  <2> DEFINE c == [NoCall EXCEPT !.k = move[1], !.to = move[2], !.n = n]
  <2>1. c \in Args /\ c.k = move[1] /\ c.to = move[2]
    BY <1>0, <1>5, Zenon DEF c, NoCall, Args, Num
  <2> HIDE DEF c
  <2>2. /\ pc' = [pc EXCEPT ![t] = "kLock2"] /\ call' = [call EXCEPT ![t] = c]
        /\ GetFutex(t, move[1])
        /\ UNCHANGED <<wq, armed, ticking, fired, firing, waits, ret>>
    BY <1>5, Zenon DEF FutexReque, Go, c
  <2>3. pc'[t] = "kLock2" /\ K(t)' = move[1] /\ call'[t].to = move[2] /\ lock'[move[1]] = t
    BY <1>0, <1>5, <2>1, <2>2, Zenon DEF FutexTypes, K, GetFutex
  <2>4. Guards(t)' /\ Room(t)'
    BY <1>0, <1>1, <1>5, <2>2, <2>3, Zenon DEF Guards, Room
  <2> QED BY <1>0, <1>1, <1>5, <2>1, <2>2, <2>4, EnterKeeps, ZenonT(30) DEF TakesGuard, Labels
<1> QED BY <1>2, <1>3, <1>4, <1>5, Zenon

\* The stages of a call that take the next guard.
LEMMA LockOK ==
    ASSUME FutexInv, NEW t \in Task, WakeLock(t) \/ RequeLock(t)
    PROVE  FutexInv'
<1> USE DEF FutexInv
<1>0. None \notin Key /\ call[t] \in Args /\ call = [call EXCEPT ![t] = call[t]]
  BY FutexAssumption, Zenon DEF FutexTypes
<1>1. PICK k \in Key : /\ GetFutex(t, k) /\ (WakeLock(t) => k = K(t)) /\ (RequeLock(t) => k = call[t].to)
                       /\ pc[t] \in {"kLock", "kLock2"}
  BY Zenon DEF WakeLock, RequeLock, Guards
<1>2. /\ pc' = [pc EXCEPT ![t] = "kPop"] /\ call' = call
      /\ UNCHANGED <<wq, armed, ticking, fired, firing, waits, ret>>
      /\ (pc[t] = "kLock" => k = K(t)) /\ (pc[t] = "kLock2" => k = call[t].to)
  BY <1>1, Zenon DEF WakeLock, RequeLock, Go
<1>3. pc'[t] = "kPop" /\ K(t)' = K(t) /\ \A x \in Key : lock'[x] = IF x = k THEN t ELSE lock[x]
  BY <1>1, <1>2, Zenon DEF FutexTypes, K, GetFutex
<1>4. Guards(t)' /\ Room(t)'
  BY <1>0, <1>1, <1>2, <1>3, ZenonT(30) DEF Guards, Room
<1> QED BY <1>0, <1>1, <1>2, <1>4, EnterKeeps, Zenon DEF TakesGuard, Labels

\* Futex::wait compares under its guard.
LEMMA CheckOK ==
    ASSUME FutexInv, NEW t \in Task, WaitCheck(t)
    PROVE  FutexInv'
<1> USE DEF FutexInv
<1>0. call[t] \in Args /\ call = [call EXCEPT ![t] = call[t]]
  BY Zenon DEF FutexTypes
<1>1. /\ pc[t] = "wCheck" /\ K(t) \in Key /\ lock[K(t)] = t /\ call[t].to = None
      /\ waits[t] < Budget[t] /\ ret[t] = "none" /\ waits[t] <= Budget[t]
  BY Zenon DEF WaitCheck, Guards, Room, Answering
<1>2. UNCHANGED <<entry, wq, armed, ticking, fired, firing, waits, call>> /\ K(t)' = K(t)
  BY Zenon DEF WaitCheck, K
<1>3. CASE val[K(t)] = call[t].v
  <2>1. pc' = [pc EXCEPT ![t] = "wPark"] /\ UNCHANGED <<lock, ret>>
    BY <1>3, Zenon DEF WaitCheck, Go
  <2>2. Guards(t)' /\ Room(t)'
    BY <1>1, <1>2, <2>1, Zenon DEF FutexTypes, Guards, Room
  <2> QED BY <1>0, <1>1, <1>2, <2>1, <2>2, EnterKeeps, Zenon DEF TakesGuard, Labels
<1>4. CASE val[K(t)] # call[t].v
  <2>1. /\ pc' = [pc EXCEPT ![t] = "wDrop"] /\ lock' = [lock EXCEPT ![K(t)] = None]
        /\ ret' = [ret EXCEPT ![t] = "invalid"]
    BY <1>4, Zenon DEF WaitCheck, Go
  <2>2. /\ \A u \in Task : /\ pc'[u] = IF u = t THEN "wDrop" ELSE pc[u]
                           /\ ret'[u] = IF u = t THEN "invalid" ELSE ret[u]
        /\ \A k \in Key : lock'[k] = IF k = K(t) THEN None ELSE lock[k]
    BY <2>1, Zenon DEF FutexTypes
  <2>3. FutexTypes'
    BY <1>1, <1>2, <2>1, Zenon DEF FutexTypes, Labels
  <2>4. Mapped'
    BY <1>2, <2>2, Zenon DEF Mapped
  <2>5. ASSUME NEW u \in Task PROVE Room(u)' /\ Guards(u)'
    <3>1. CASE u = t
      BY <1>1, <1>2, <2>2, <3>1, Zenon DEF Room, Guards
    <3>2. CASE u # t
      BY <1>1, <1>2, <2>2, <3>2, GuardsKept, Zenon DEF Room
    <3> QED BY <3>1, <3>2, Zenon
  <2>6. TakenOnce' /\ OnlySleepersUnblocked' /\ SleeperReachable'
    BY <1>1, <1>2, <2>1, <2>4, AwakeKeeps, ZenonT(30) DEF Queued, Labels
  <2>7. Answering' /\ ReturnHonest'
    BY <1>2, <2>2, ZenonT(30) DEF Answering, ReturnHonest, TimerOf
  <2> QED BY <2>3, <2>4, <2>5, <2>6, <2>7, Zenon
<1> QED BY <1>3, <1>4, Zenon

\* A call that ends gives back the guards it has, and says nothing of its timer.
LEMMA ReturnKeeps ==
    ASSUME FutexInv, NEW t \in Task, pc[t] # "asleep", Return(t),
           UNCHANGED <<armed, ticking, firing, waits>>,
           entry' \in SUBSET Key, lock' \in [Key -> Task \cup {None}], wq' \in [Key -> Seq(Timer)],
           \A u \in Task \ {t}, k \in Key : lock[k] = u => lock'[k] = u,
           Mapped', \A m \in Timer : Queued(m) => Queued(m)'
    PROVE  FutexInv'
<1> USE DEF FutexInv
<1>1. /\ pc' = [pc EXCEPT ![t] = "user"] /\ call' = [call EXCEPT ![t] = NoCall]
      /\ ret' = [ret EXCEPT ![t] = "none"] /\ fired' = {m \in fired : m[1] # t}
  BY Zenon DEF Return, Go
<1>2. NoCall \in Args /\ NoCall.to = None
  BY Zenon DEF NoCall, Args, Num
<1>3. \A u \in Task : /\ pc'[u] = IF u = t THEN "user" ELSE pc[u]
                      /\ ret'[u] = IF u = t THEN "none" ELSE ret[u]
                      /\ call'[u] = IF u = t THEN NoCall ELSE call[u]
  BY <1>1, ZenonT(30) DEF FutexTypes
<1>4. FutexTypes'
  BY <1>1, <1>2, Zenon DEF FutexTypes, Labels
<1>5. ASSUME NEW u \in Task PROVE Room(u)' /\ Guards(u)'
  <2>1. CASE u = t
    BY <1>2, <1>3, <2>1, Zenon DEF Room, Guards
  <2>2. CASE u # t
    BY <1>3, <2>2, GuardsKept, Zenon DEF Room
  <2> QED BY <2>1, <2>2, Zenon
<1>6. TakenOnce' /\ OnlySleepersUnblocked' /\ SleeperReachable'
  BY <1>1, AwakeKeeps, Zenon DEF Labels
<1>7. Answering'
  BY <1>3, Zenon DEF Answering
<1>8. ReturnHonest'
  <2> SUFFICES ASSUME NEW u \in Task, u # t
               PROVE  TimerOf(u)' \in fired' <=> TimerOf(u) \in fired
    BY <1>3, ZenonT(30) DEF ReturnHonest, TimerOf
  <2> QED BY <1>1, Zenon DEF TimerOf
<1> QED BY <1>4, <1>5, <1>6, <1>7, <1>8, Zenon

\* The ends of the calls: WaitObject::wait of a sleep, try_drop_futex, notify and
\* requeue.
LEMMA EndOK ==
    ASSUME FutexInv, NEW t \in Task,
           (WaitReturn(t) /\ K(t) = None) \/ TryDropFutex(t) \/ (WakeEnd(t) /\ call[t].to = None) \/ Requeue(t)
    PROVE  FutexInv'
<1> USE DEF FutexInv
<1>0. None \notin Key /\ None \notin Task
  BY FutexAssumption, Zenon
<1>1. CASE WaitReturn(t) /\ K(t) = None
  <2>1. /\ pc[t] = "woken" /\ Return(t)
        /\ UNCHANGED <<entry, lock, wq, armed, ticking, firing, waits>>
    BY <1>1, Zenon DEF WaitReturn
  <2>2. Mapped'
    BY <2>1, Zenon DEF Mapped
  <2> QED BY <2>1, <2>2, ReturnKeeps, Zenon DEF Queued, FutexTypes
<1>2. CASE TryDropFutex(t)
  <2>1. /\ pc[t] = "wDrop" /\ K(t) \in Key /\ lock[K(t)] = None /\ Return(t)
        /\ UNCHANGED <<lock, armed, ticking, firing, waits>>
    BY <1>2, Zenon DEF TryDropFutex, Guards
  <2>2. wq' = wq
    BY <1>2, <2>1, Zenon DEF TryDropFutex, Droppable, FutexTypes
  <2>3. entry' \in SUBSET Key /\ \A k \in entry : k \in entry' \/ (k = K(t) /\ wq[k] = <<>>)
    BY <1>2, Zenon DEF TryDropFutex, Droppable, FutexTypes
  <2>4. Mapped'
    BY <2>1, <2>2, <2>3, Zenon DEF Mapped
  <2> QED BY <2>1, <2>2, <2>3, <2>4, ReturnKeeps, Zenon DEF Queued, FutexTypes
<1>3. CASE WakeEnd(t) /\ call[t].to = None
  <2>1. /\ pc[t] = "kPop" /\ K(t) \in Key /\ lock[K(t)] = t /\ Return(t)
        /\ lock' = [lock EXCEPT ![K(t)] = None]
        /\ UNCHANGED <<entry, wq, armed, ticking, firing, waits>>
    BY <1>3, Zenon DEF WakeEnd, Guards
  <2>2. lock' \in [Key -> Task \cup {None}] /\ \A k \in Key : lock'[k] = IF k = K(t) THEN None ELSE lock[k]
    BY <2>1, Zenon DEF FutexTypes
  <2>3. Mapped'
    BY <2>1, <2>2, Zenon DEF Mapped
  <2> QED BY <2>1, <2>2, <2>3, ReturnKeeps, Zenon DEF Queued, FutexTypes
<1>4. CASE Requeue(t)
  <2>0. PICK k, l : k = K(t) /\ l = call[t].to
    BY Zenon
  <2>1. /\ pc[t] = "qPop" /\ k \in Key /\ l \in Key /\ k # l /\ lock[k] = t /\ lock[l] = t /\ Return(t)
        /\ lock' = [lock EXCEPT ![k] = None, ![l] = None]
        /\ wq' = IF wq[k] = <<>> THEN wq
                 ELSE [wq EXCEPT ![k] = Tail(@), ![l] = Append(@, Head(wq[k]))]
        /\ UNCHANGED <<entry, armed, ticking, firing, waits>>
    BY <1>0, <1>4, <2>0, Zenon DEF Requeue, Guards
  <2>2. /\ lock' \in [Key -> Task \cup {None}]
        /\ \A x \in Key : lock'[x] = IF x = k \/ x = l THEN None ELSE lock[x]
    BY <2>1, Zenon DEF FutexTypes
  <2>3. k \in entry /\ l \in entry
    BY <1>0, <2>1, Zenon DEF Mapped
  <2>4. CASE wq[k] = <<>>
    <3>1. wq' = wq /\ Mapped'
      BY <2>1, <2>2, <2>4, Zenon DEF Mapped
    <3> QED BY <2>1, <2>2, <3>1, ReturnKeeps, ZenonT(30) DEF Queued, FutexTypes
  <2>5. CASE wq[k] # <<>>
    <3>1. PICK m : m = Head(wq[k])
      BY Zenon
    <3>2. wq[k] \in Seq(Timer) /\ wq[l] \in Seq(Timer)
      BY <2>1, Zenon DEF FutexTypes
    <3>3. Tail(wq[k]) \in Seq(Timer) /\ m \in Timer /\ Elems(wq[k]) = {m} \cup Elems(Tail(wq[k]))
      BY <2>5, <3>1, <3>2, ElemsTail, Zenon
    <3>4. Append(wq[l], m) \in Seq(Timer) /\ Elems(Append(wq[l], m)) = Elems(wq[l]) \cup {m}
      BY <3>2, <3>3, ElemsAppend, Zenon
    <3>5. /\ wq' \in [Key -> Seq(Timer)] /\ wq'[k] = Tail(wq[k]) /\ wq'[l] = Append(wq[l], m)
          /\ \A x \in Key \ {k, l} : wq'[x] = wq[x]
      BY <2>1, <2>5, <3>1, <3>3, <3>4, Zenon DEF FutexTypes
    <3>6. Mapped'
      BY <2>1, <2>2, <2>3, <3>5, Zenon DEF Mapped
    <3>7. ASSUME NEW x \in Timer, Queued(x) PROVE Queued(x)'
      <4>1. PICK y \in Key : x \in Elems(wq[y])
        BY <3>7, Zenon DEF Queued
      <4>2. x \in Elems(wq'[k]) \/ x \in Elems(wq'[l]) \/ x \in Elems(wq'[y])
        BY <3>3, <3>4, <3>5, <4>1, Zenon
      <4> QED BY <2>1, <4>2, Zenon DEF Queued
    <3> QED BY <2>1, <2>2, <3>5, <3>6, <3>7, ReturnKeeps, ZenonT(30) DEF FutexTypes
  <2> QED BY <2>4, <2>5, Zenon
<1> QED BY <1>1, <1>2, <1>3, <1>4, Zenon

\* The wait is over: its answer is looked up in the timer.
LEMMA AnswerOK ==
    ASSUME FutexInv, NEW t \in Task, WaitReturn(t), K(t) # None
    PROVE  FutexInv'
<1> USE DEF FutexInv
<1>0. waits[t] >= 1 /\ TimerOf(t) \in Timer /\ pc[t] = "woken" /\ K(t) \in Key
  BY TimersMade, Zenon DEF WaitReturn, Room, FutexTypes, Args, K
<1>1. PICK r \in {"ok", "timeout"} : r = IF TimerOf(t) \in fired THEN "timeout" ELSE "ok"
  BY Zenon
<1>2. /\ pc' = [pc EXCEPT ![t] = "wDrop"] /\ ret' = [ret EXCEPT ![t] = r]
      /\ UNCHANGED <<entry, lock, wq, armed, ticking, fired, firing, waits, call>>
  BY <1>1, Zenon DEF WaitReturn, Go
<1>3. \A u \in Task : /\ pc'[u] = IF u = t THEN "wDrop" ELSE pc[u]
                      /\ ret'[u] = IF u = t THEN r ELSE ret[u]
  BY <1>2, Zenon DEF FutexTypes
<1>4. FutexTypes'
  BY <1>2, Zenon DEF FutexTypes, Labels
<1>5. Mapped'
  BY <1>2, Zenon DEF Mapped
<1>6. ASSUME NEW u \in Task PROVE Room(u)' /\ Guards(u)'
  <2>1. CASE u = t
    BY <1>0, <1>2, <1>3, <2>1 DEF Room, Guards, K
  <2>2. CASE u # t
    BY <1>2, <1>3, <2>2, GuardsKept, ZenonT(30) DEF Room
  <2> QED BY <2>1, <2>2, Zenon
<1>7. TakenOnce' /\ OnlySleepersUnblocked' /\ SleeperReachable'
  BY <1>0, <1>2, <1>5, AwakeKeeps, Zenon DEF Labels, Queued
<1>8. Answering'
  BY <1>3, Zenon DEF Answering
<1>9. ReturnHonest'
  <2>1. firing[TimerOf(t)] = "no"
    BY <1>0 DEF OnlySleepersUnblocked, TimerOf
  <2> QED BY <1>1, <1>2, <1>3, <2>1 DEF ReturnHonest, TimerOf
<1> QED BY <1>4, <1>5, <1>6, <1>7, <1>8, <1>9, ZenonT(30)

\* notify has woken enough and goes on to requeue.
LEMMA OnwardOK ==
    ASSUME FutexInv, NEW t \in Task, WakeEnd(t), call[t].to # None
    PROVE  FutexInv'
<1> USE DEF FutexInv
<1>0. call[t] \in Args /\ call = [call EXCEPT ![t] = call[t]] /\ call[t].to \in Key
  BY Zenon DEF FutexTypes, Args
<1>1. /\ pc[t] = "kPop" /\ pc' = [pc EXCEPT ![t] = "qPop"]
      /\ UNCHANGED <<entry, lock, wq, armed, ticking, fired, firing, waits, call, ret>>
  BY Zenon DEF WakeEnd, Go
<1>2. Guards(t)' /\ Room(t)'
  BY <1>0, <1>1, Zenon DEF FutexTypes, Guards, Room, K
<1> QED BY <1>0, <1>1, <1>2, EnterKeeps, Zenon DEF TakesGuard, Labels

\* block_current: the timer is new, so it is nobody else's.
LEMMA ParkKeeps ==
    ASSUME FutexInv, NEW t \in Task, pc[t] \in {"user", "wPark"}, waits[t] < Budget[t],
           \E timed \in BOOLEAN : Activate(t, timed), Go(t, "asleep"),
           NEW c \in Args, call' = [call EXCEPT ![t] = c], c.to = None,
           UNCHANGED <<entry, fired, firing, ret>>,
           lock' \in [Key -> Task \cup {None}], wq' \in [Key -> Seq(Timer)],
           \A u \in Task \ {t}, k \in Key : lock[k] = u => lock'[k] = u,
           Mapped', \A x \in Timer : Queued(x) => Queued(x)',
           NEW m, m = NewTimer(t), m \in ticking' \/ Queued(m)'
    PROVE  FutexInv'
<1> USE DEF FutexInv
<1>1. m = NewTimer(t)
  BY Zenon
<1>2. m \in Timer /\ m[1] = t /\ m # TimerOf(t) /\ waits[t] \in Nat /\ waits[t] + 1 <= Budget[t]
  <2>1. waits[t] \in Nat /\ Budget[t] \in Nat
    BY FutexAssumption, ZenonT(30) DEF FutexTypes
  <2>2. m \in Timer
    BY <1>1, <2>1, TimersMade, Zenon
  <2>3. m = <<t, waits[t] + 1>> /\ TimerOf(t) = <<t, waits[t]>>
    BY <1>1, Zenon DEF NewTimer, TimerOf
  <2> QED BY <2>1, <2>2, <2>3
<1>3. /\ armed' = armed \cup {m} /\ (ticking' = ticking \/ ticking' = ticking \cup {m})
      /\ waits' = [waits EXCEPT ![t] = @ + 1] /\ pc' = [pc EXCEPT ![t] = "asleep"]
  BY <1>1, Zenon DEF Activate, Go
<1>4. \A u \in Task : /\ pc'[u] = IF u = t THEN "asleep" ELSE pc[u]
                      /\ waits'[u] = IF u = t THEN waits[t] + 1 ELSE waits[u]
                      /\ call'[u] = IF u = t THEN c ELSE call[u]
                      /\ TimerOf(u)' = IF u = t THEN m ELSE TimerOf(u)
  BY <1>1, <1>3, ZenonT(30) DEF FutexTypes, TimerOf, NewTimer
<1>5. FutexTypes'
  BY <1>2, <1>3 DEF FutexTypes, Labels
<1>6. ASSUME NEW u \in Task PROVE Room(u)' /\ Guards(u)'
  <2>1. CASE u = t
    BY <1>2, <1>4, <2>1 DEF Room, Guards
  <2>2. CASE u # t
    BY <1>4, <2>2, GuardsKept, Zenon DEF Room
  <2> QED BY <2>1, <2>2, Zenon
<1>7. \A x \in Timer : x \in armed \/ firing[x] # "no" => x[1] \in Task \ {t} /\ x = TimerOf(x[1]) /\ pc[x[1]] = "asleep"
  BY TimerShape, Zenon DEF OnlySleepersUnblocked, FutexTypes
<1>8. TakenOnce'
  BY <1>2, <1>3, <1>7, ZenonT(30) DEF TakenOnce
<1>9. OnlySleepersUnblocked'
  <2> SUFFICES ASSUME NEW x \in Timer, x \in armed' \/ firing[x] # "no"
               PROVE  x = TimerOf(x[1])' /\ pc'[x[1]] = "asleep"
    BY <1>5, Zenon DEF OnlySleepersUnblocked, FutexTypes, TimerOf
  <2>1. CASE x = m
    BY <1>2, <1>4, <2>1, Zenon
  <2>2. CASE x # m
    BY <1>3, <1>4, <1>7, <2>2, ZenonT(30)
  <2> QED BY <2>1, <2>2, ZenonT(30)
<1>10. SleeperReachable'
  <2> SUFFICES ASSUME NEW u \in Task, pc'[u] = "asleep", TimerOf(u)' \in armed'
               PROVE  TimerOf(u)' \in ticking' \/ Queued(TimerOf(u))'
    BY ElemsSome, Zenon DEF SleeperReachable, Queued, Mapped
  <2>1. CASE u = t
    BY <1>1, <1>3, <1>4, <2>1, ZenonT(30) DEF Queued
  <2>2. CASE u # t
    <3>1. TimerOf(u)' = TimerOf(u) /\ TimerOf(u) \in armed /\ TimerOf(u) \in Timer /\ pc[u] = "asleep"
      BY <1>2, <1>3, <1>4, <2>2 DEF FutexTypes, TimerOf
    <3>2. TimerOf(u) \in ticking \/ Queued(TimerOf(u))
      BY <3>1, Zenon DEF SleeperReachable, Queued, FutexTypes
    <3>3. PICK y \in Timer : y = TimerOf(u)
      BY <3>1, Zenon
    <3>4. y \in ticking' \/ Queued(y)'
      BY <1>3, <3>2, <3>3, Zenon
    <3> QED BY <3>1, <3>3, <3>4 DEF Queued
  <2> QED BY <2>1, <2>2, Zenon
<1>11. Answering'
  BY <1>4, Zenon DEF Answering
<1>12. ReturnHonest'
  BY <1>4, ZenonT(30) DEF Answering, ReturnHonest
<1> QED BY <1>5, <1>6, <1>8, <1>9, <1>10, <1>11, <1>12, Zenon

\* futex_wait and task_sleep fall asleep.
LEMMA ParkOK ==
    ASSUME FutexInv, NEW t \in Task, NEW timed \in BOOLEAN, WaitPark(t, timed) \/ (TaskSleep(t) /\ timed)
    PROVE  FutexInv'
<1> USE DEF FutexInv
<1>1. CASE WaitPark(t, timed)
  <2>0. PICK k, m : k = K(t) /\ m = NewTimer(t)
    BY Zenon
  <2>1. /\ pc[t] = "wPark" /\ waits[t] < Budget[t] /\ k \in Key /\ lock[k] = t /\ call[t].to = None
        /\ Activate(t, timed) /\ Go(t, "asleep") /\ UNCHANGED <<entry, fired, firing, call, ret>>
        /\ wq' = [wq EXCEPT ![k] = Append(@, m)] /\ lock' = [lock EXCEPT ![k] = None]
    BY <1>1, <2>0, Zenon DEF WaitPark, Guards, Room
  <2>2. call[t] \in Args /\ call' = [call EXCEPT ![t] = call[t]]
    BY <2>1, Zenon DEF FutexTypes
  <2>3. m \in Timer /\ wq[k] \in Seq(Timer) /\ k \in entry
    BY <2>0, <2>1, TimersMade, FutexAssumption, ZenonT(30) DEF FutexTypes, Mapped
  <2>4. Append(wq[k], m) \in Seq(Timer) /\ Elems(Append(wq[k], m)) = Elems(wq[k]) \cup {m}
    BY <2>3, ElemsAppend, Zenon
  <2>5. /\ wq' \in [Key -> Seq(Timer)] /\ lock' \in [Key -> Task \cup {None}]
        /\ \A x \in Key : /\ wq'[x] = IF x = k THEN Append(wq[k], m) ELSE wq[x]
                          /\ lock'[x] = IF x = k THEN None ELSE lock[x]
    BY <2>1, <2>4, Zenon DEF FutexTypes
  <2>6. Mapped'
    BY <2>1, <2>3, <2>5, Zenon DEF Mapped
  <2>7. \A x \in Timer : Queued(x) => Queued(x)'
    BY <2>4, <2>5, Zenon DEF Queued
  <2>8. Queued(m)'
    BY <2>1, <2>4, <2>5, Zenon DEF Queued
  <2>9. \A u \in Task \ {t}, x \in Key : lock[x] = u => lock'[x] = u
    BY <2>1, <2>5, Zenon
  <2>10. \E x \in BOOLEAN : Activate(t, x)
    BY <2>1, Zenon
  <2>11. PICK c \in Args : c = call[t]
    BY <2>2, Zenon
  <2>12. call' = [call EXCEPT ![t] = c] /\ c.to = None /\ pc[t] \in {"user", "wPark"}
    BY <2>1, <2>2, <2>11, Zenon
  <2>13. FutexInv /\ UNCHANGED <<entry, fired, firing, ret>>
    BY <2>1, Zenon
  <2> HIDE DEF FutexInv
  <2> QED BY <2>0, <2>1, <2>5, <2>6, <2>7, <2>8, <2>9, <2>10, <2>12, <2>13, ParkKeeps, Zenon
<1>2. CASE TaskSleep(t) /\ timed
  <2>1. /\ pc[t] = "user" /\ waits[t] < Budget[t] /\ Activate(t, timed) /\ Go(t, "asleep")
        /\ UNCHANGED <<entry, lock, wq, fired, firing, ret>> /\ call' = [call EXCEPT ![t] = NoCall]
    BY <1>2, Zenon DEF TaskSleep
  <2>2. NoCall \in Args /\ NoCall.to = None
    BY Zenon DEF NoCall, Args, Num
  <2>3. Mapped'
    BY <2>1, Zenon DEF Mapped
  <2>4. NewTimer(t) \in ticking'
    BY <1>2, <2>1, Zenon DEF Activate
  <2> QED BY <2>1, <2>2, <2>3, <2>4, ParkKeeps, Zenon DEF Queued, FutexTypes
<1> QED BY <1>1, <1>2, Zenon

-----------------------------------------------------------------------------
\* A wait that is over has nothing more to do with its timer.
LEMMA AnswerSettled ==
    ASSUME FutexInv, NEW u \in Task, ret[u] \in {"ok", "timeout"}
    PROVE  TimerOf(u) \in Timer /\ TimerOf(u) \notin armed /\ firing[TimerOf(u)] = "no" /\ pc[u] # "asleep"
<1>1. waits[u] >= 1 /\ waits[u] <= Budget[u] /\ waits[u] \in Nat /\ pc[u] = "wDrop"
  BY Zenon DEF FutexInv, Room, Answering, FutexTypes
<1>2. TimerOf(u) \in Timer
  BY <1>1, TimersMade, Zenon
<1> QED BY <1>1, <1>2 DEF FutexInv, OnlySleepersUnblocked, TimerOf

\* timer::tick takes the callback of a due timer, if it is still there.
LEMMA FireTakeOK ==
    ASSUME FutexInv, NEW m \in Timer, FireTake(m)
    PROVE  FutexInv'
<1> USE DEF FutexInv
<1>1. /\ ticking' = ticking \ {m} /\ armed' = armed \ {m}
      /\ firing' = [firing EXCEPT ![m] = IF m \in armed THEN "taken" ELSE @]
      /\ UNCHANGED <<entry, lock, wq, fired, waits, pc, call, ret>>
  BY Zenon DEF FireTake, TakeCallback
<1>2. \A x \in Timer : firing'[x] = IF x = m /\ m \in armed THEN "taken" ELSE firing[x]
  BY <1>1, Zenon DEF FutexTypes
<1>3. FutexTypes'
  BY <1>1, Zenon DEF FutexTypes
<1>4. ASSUME NEW u \in Task PROVE Room(u)' /\ Guards(u)'
  BY <1>1, GuardsKept, Zenon DEF Room
<1>5. Mapped' /\ Answering'
  BY <1>1, Zenon DEF Mapped, Answering
<1>6. TakenOnce'
  BY <1>1, <1>2, Zenon DEF TakenOnce, FutexTypes
<1>7. OnlySleepersUnblocked'
  BY <1>1, <1>2, ZenonT(30) DEF OnlySleepersUnblocked, TimerOf, FutexTypes
<1>8. SleeperReachable'
  BY <1>1, Zenon DEF SleeperReachable, TimerOf
<1>9. ReturnHonest'
  BY <1>1, <1>2, AnswerSettled, ZenonT(30) DEF ReturnHonest, TimerOf
<1> QED BY <1>3, <1>4, <1>5, <1>6, <1>7, <1>8, <1>9, ZenonT(30)

\* Timer::fire marks the timer before it gives the task back.
LEMMA FireMarkOK ==
    ASSUME FutexInv, NEW m \in Timer, FireMark(m)
    PROVE  FutexInv'
<1> USE DEF FutexInv
<1>1. /\ fired' = fired \cup {m} /\ firing' = [firing EXCEPT ![m] = "marked"] /\ firing[m] = "taken"
      /\ UNCHANGED <<entry, lock, wq, armed, ticking, waits, pc, call, ret>>
  BY Zenon DEF FireMark
<1>2. \A x \in Timer : firing'[x] = IF x = m THEN "marked" ELSE firing[x]
  BY <1>1, Zenon DEF FutexTypes
<1>3. FutexTypes'
  BY <1>1, Zenon DEF FutexTypes
<1>4. ASSUME NEW u \in Task PROVE Room(u)' /\ Guards(u)'
  BY <1>1, GuardsKept, Zenon DEF Room
<1>5. Mapped' /\ Answering'
  BY <1>1, Zenon DEF Mapped, Answering
<1>6. TakenOnce'
  BY <1>1, <1>2, Zenon DEF TakenOnce, FutexTypes
<1>7. OnlySleepersUnblocked'
  BY <1>1, <1>2, Zenon DEF OnlySleepersUnblocked, TimerOf, FutexTypes
<1>8. SleeperReachable'
  BY <1>1, Zenon DEF SleeperReachable, TimerOf
<1>9. ReturnHonest'
  BY <1>1, <1>2, AnswerSettled, ZenonT(30) DEF ReturnHonest, TimerOf
<1> QED BY <1>3, <1>4, <1>5, <1>6, <1>7, <1>8, <1>9, Zenon

\* Whoever has taken the callback of the timer m gives the sleeper back to the
\* scheduler: nobody else has it.
LEMMA UnblockKeeps ==
    ASSUME FutexInv, NEW m \in Timer, m \in armed \/ firing[m] # "no", pc' = [pc EXCEPT ![m[1]] = "woken"],
           armed' = armed \ {m}, firing' = [firing EXCEPT ![m] = "no"],
           UNCHANGED <<entry, lock, ticking, fired, waits, call, ret>>,
           wq' \in [Key -> Seq(Timer)], Mapped',
           \A x \in Timer \ {m} : Queued(x) => Queued(x)'
    PROVE  FutexInv'
<1> USE DEF FutexInv
<1>0. PICK t \in Task : t = m[1] /\ m = TimerOf(t) /\ pc[t] = "asleep" /\ ret[t] = "none"
  BY TimerShape, Zenon DEF OnlySleepersUnblocked, Answering
<1>1. /\ \A u \in Task : pc'[u] = IF u = t THEN "woken" ELSE pc[u]
      /\ \A x \in Timer : firing'[x] = IF x = m THEN "no" ELSE firing[x]
  BY <1>0, Zenon DEF FutexTypes
<1>2. FutexTypes'
  BY <1>0, Zenon DEF FutexTypes, Labels
<1>3. ASSUME NEW u \in Task PROVE Room(u)' /\ Guards(u)'
  <2>1. CASE u = t
    BY <1>0, <1>1, <2>1 DEF Room, Guards, K
  <2>2. CASE u # t
    BY <1>1, <2>2, GuardsKept, Zenon DEF Room
  <2> QED BY <2>1, <2>2, Zenon
<1>4. Answering'
  BY <1>0, <1>1, ZenonT(30) DEF Answering
<1>5. TakenOnce'
  BY <1>1, Zenon DEF TakenOnce, FutexTypes
<1>6. OnlySleepersUnblocked'
  <2> SUFFICES ASSUME NEW x \in Timer, x # m, x \in armed \/ firing[x] # "no"
               PROVE  x = TimerOf(x[1])' /\ pc'[x[1]] = "asleep"
    BY <1>1, <1>2, Zenon DEF OnlySleepersUnblocked, FutexTypes
  <2>1. x[1] \in Task /\ x = TimerOf(x[1]) /\ pc[x[1]] = "asleep"
    BY TimerShape, Zenon DEF OnlySleepersUnblocked
  <2> QED BY <1>0, <1>1, <2>1, ZenonT(30) DEF TimerOf
<1>7. SleeperReachable'
  <2> SUFFICES ASSUME NEW u \in Task, u # t, pc[u] = "asleep", TimerOf(u) \in armed
               PROVE  TimerOf(u) \in ticking \/ \E k \in entry' : TimerOf(u) \in Elems(wq'[k])
    BY <1>1 DEF SleeperReachable, TimerOf
  <2>1. PICK x \in Timer : x = TimerOf(u) /\ x # m
    BY <1>0 DEF FutexTypes, TimerOf
  <2>2. x \in ticking \/ Queued(x)'
    BY <2>1, Zenon DEF SleeperReachable, Queued, FutexTypes
  <2> QED BY <2>1, <2>2, ElemsSome, Zenon DEF Mapped, Queued
<1>8. ReturnHonest'
  BY <1>0, <1>1, AnswerSettled DEF ReturnHonest, TimerOf
<1> QED BY <1>2, <1>3, <1>4, <1>5, <1>6, <1>7, <1>8, Zenon

\* The end of Timer::fire.
LEMMA FireUnblockOK ==
    ASSUME FutexInv, NEW m \in Timer, FireUnblock(m)
    PROVE  FutexInv'
<1> USE DEF FutexInv
<1>1. /\ firing[m] = "marked" /\ firing' = [firing EXCEPT ![m] = "no"] /\ pc' = [pc EXCEPT ![m[1]] = "woken"]
      /\ UNCHANGED <<entry, lock, wq, armed, ticking, fired, waits, call, ret>>
  BY Zenon DEF FireUnblock, Go
<1>2. armed' = armed \ {m}
  BY <1>1, Zenon DEF TakenOnce
<1>3. Mapped'
  BY <1>1, Zenon DEF Mapped
<1> QED BY <1>1, <1>2, <1>3, UnblockKeeps, Zenon DEF Queued, FutexTypes

\* WaitObject::notify pops one timer and takes its callback, if it is still there.
LEMMA PopOK ==
    ASSUME FutexInv, NEW t \in Task, WakePop(t)
    PROVE  FutexInv'
<1> USE DEF FutexInv
<1>0. PICK k, m : k = K(t) /\ m = Head(wq[K(t)])
  BY Zenon
<1>1. /\ pc[t] = "kPop" /\ k \in Key /\ lock[k] = t /\ wq[k] \in Seq(Timer) /\ wq[k] # <<>>
      /\ wq' = [wq EXCEPT ![k] = Tail(@)] /\ armed' = armed \ {m}
      /\ UNCHANGED <<entry, lock, ticking, fired, firing, waits, call, ret>>
      /\ pc' = IF m \in armed THEN [pc EXCEPT ![m[1]] = "woken"] ELSE pc
  BY <1>0, Zenon DEF WakePop, TakeCallback, WakeDone, Guards, FutexTypes
<1>2. m \in Timer /\ Tail(wq[k]) \in Seq(Timer) /\ Elems(wq[k]) = {m} \cup Elems(Tail(wq[k]))
  BY <1>0, <1>1, ElemsTail, Zenon
<1>3. /\ wq' \in [Key -> Seq(Timer)]
      /\ \A x \in Key : wq'[x] = IF x = k THEN Tail(wq[k]) ELSE wq[x]
  BY <1>1, <1>2, Zenon DEF FutexTypes
<1>4. Mapped'
  BY <1>1, <1>3, FutexAssumption, Zenon DEF Mapped
<1>5. \A x \in Timer \ {m} : Queued(x) => Queued(x)'
  BY <1>1, <1>2, <1>3, Zenon DEF Queued
<1>6. CASE m \in armed
  <2>1. firing' = [firing EXCEPT ![m] = "no"]
    BY <1>1, <1>2, <1>6, Zenon DEF TakenOnce, FutexTypes
  <2> QED BY <1>1, <1>2, <1>3, <1>4, <1>5, <1>6, <2>1, UnblockKeeps, ZenonT(30)
<1>7. CASE m \notin armed
  <2>1. armed' = armed /\ pc' = pc
    BY <1>1, <1>7, ZenonT(30)
  <2>2. FutexTypes'
    BY <1>1, <1>3, <2>1, Zenon DEF FutexTypes
  <2>3. ASSUME NEW u \in Task PROVE Room(u)' /\ Guards(u)'
    BY <1>1, <2>1, GuardsKept, Zenon DEF Room
  <2>4. Answering' /\ ReturnHonest' /\ TakenOnce' /\ OnlySleepersUnblocked'
    BY <1>1, <2>1 DEF Answering, ReturnHonest, TakenOnce, OnlySleepersUnblocked, TimerOf
  <2>5. SleeperReachable'
    <3> SUFFICES ASSUME NEW u \in Task, pc[u] = "asleep", TimerOf(u) \in armed
                 PROVE  TimerOf(u) \in ticking \/ \E x \in entry : TimerOf(u) \in Elems(wq'[x])
      BY <1>1, <2>1, Zenon DEF SleeperReachable, TimerOf
    <3> QED BY <1>1, <1>2, <1>3, <1>7, Zenon DEF SleeperReachable, FutexTypes
  <2> QED BY <1>4, <2>2, <2>3, <2>4, <2>5, ZenonT(30)
<1> QED BY <1>6, <1>7, Zenon

-----------------------------------------------------------------------------
\* No call has been made yet.
LEMMA FutexInitOK == Init => FutexInv
<1> SUFFICES ASSUME Init PROVE FutexInv
  BY Zenon
<1> USE DEF Init
<1>1. NoCall \in Args /\ NoCall.to = None
  BY Zenon DEF NoCall, Args, Num
<1>2. FutexTypes
  BY <1>1 DEF FutexTypes, Labels
<1>3. ASSUME NEW t \in Task PROVE Room(t) /\ Guards(t)
  <2>1. Budget[t] \in Nat
    BY FutexAssumption, Zenon
  <2> QED BY <1>1, <2>1 DEF Room, Guards
<1>4. Mapped /\ TakenOnce /\ OnlySleepersUnblocked /\ SleeperReachable /\ Answering /\ ReturnHonest
  BY Zenon DEF Mapped, TakenOnce, OnlySleepersUnblocked, SleeperReachable, Answering, ReturnHonest
<1> QED BY <1>2, <1>3, <1>4, Zenon DEF FutexInv

\* Every step of the tasks and of the timers.
LEMMA FutexStepOK == FutexInv /\ [Next]_vars => FutexInv'
<1> SUFFICES ASSUME FutexInv, [Next]_vars PROVE FutexInv'
  BY Zenon
<1>1. CASE UNCHANGED vars
  BY <1>1, ZenonT(30) DEF vars, FutexInv, FutexTypes, Room, Guards, Mapped, TakenOnce, OnlySleepersUnblocked,
              SleeperReachable, Answering, ReturnHonest, TimerOf, K
<1>2. ASSUME NEW t \in Task, Kernel(t) PROVE FutexInv'
  <2>1. CASE WaitReturn(t)
    BY <2>1, EndOK, AnswerOK, Zenon
  <2>2. CASE WakeEnd(t)
    BY <2>2, EndOK, OnwardOK, Zenon
  <2>3. CASE TryDropFutex(t) \/ Requeue(t)
    BY <2>3, EndOK, Zenon
  <2>4. CASE WaitCheck(t) \/ WakeLock(t) \/ RequeLock(t) \/ WakePop(t)
    BY <2>4, CheckOK, LockOK, PopOK, Zenon
  <2>5. ASSUME NEW timed \in BOOLEAN, WaitPark(t, timed) PROVE FutexInv'
    BY <2>5, ParkOK, Zenon
  <2> QED BY <1>2, <2>1, <2>2, <2>3, <2>4, <2>5, Zenon DEF Kernel
<1>3. ASSUME NEW t \in Task, UserCall(t) PROVE FutexInv'
  <2>1. CASE TaskSleep(t)
    BY <2>1, ParkOK, Zenon
  <2>2. ASSUME NEW k \in Word, NEW v \in Value, FutexWait(t, k, v) \/ StoreAndWake(t, k, v) PROVE FutexInv'
    BY <2>2, UserOK, FutexAssumption, Zenon
  <2>3. ASSUME NEW k \in Key, NEW n \in Num, FutexWake(t, k, n) PROVE FutexInv'
    BY <2>3, UserOK, Zenon
  <2>4. ASSUME NEW move \in Moves, NEW n \in Num, FutexReque(t, move, n) PROVE FutexInv'
    BY <2>4, UserOK, Zenon
  <2> QED BY <1>3, <2>1, <2>2, <2>3, <2>4, ZenonT(30) DEF UserCall
<1>4. ASSUME NEW m \in Timer, Fire(m) PROVE FutexInv'
  BY <1>4, FireTakeOK, FireMarkOK, FireUnblockOK, ZenonT(30) DEF Fire
<1> QED BY <1>1, <1>2, <1>3, <1>4, Zenon DEF Next

\* No interleaving of waits, wake-ups, requeues, time-outs and drops of entries
\* leaves a sleeper that nobody can reach, or unblocks a task twice.
THEOREM SleepersAlwaysSound == Spec => []SleepersSound
<1>1. FutexInv => SleepersSound
  BY ZenonT(30) DEF FutexInv, SleepersSound
<1> QED BY <1>1, FutexInitOK, FutexStepOK, PTL DEF Spec

\* ETIME is returned by the waits whose timer fired, and by no other.
THEOREM AnswersAlwaysHonest == Spec => []ReturnHonest
<1>1. FutexInv => ReturnHonest
  BY Zenon DEF FutexInv
<1> QED BY <1>1, FutexInitOK, FutexStepOK, PTL DEF Spec
=============================================================================
