---------------------------- MODULE OwnerProofs ----------------------------
(* A task that was created and not freed has exactly one owner, whatever the *)
(* number of CPUs, tasks and tokens (sched/task/sm.rs, sched/imp.rs).        *)
EXTENDS SchedProofs

\* The places a task can be in: what owns it, and which CPU or token.
Kinds == {"current", "run", "mig", "drop", "exit", "slot", "timer"}
Spots == CPU \cup Token \cup {None}

Holds(k, x, t) ==
    \/ k = "current" /\ x \in CPU /\ current[x] = t
    \/ k = "run" /\ x \in CPU /\ t \in Elems(runq[x])
    \/ k = "mig" /\ x \in CPU /\ t \in Elems(migq[x])
    \/ k = "drop" /\ x \in CPU /\ t \in Elems(dropper[x])
    \/ k = "exit" /\ x \in CPU /\ pc[x] = "exit" /\ exec[x] = t
    \/ k = "slot" /\ x \in Token /\ slot[x] = t
    \/ k = "timer" /\ x = None /\ t \in parked

\* What the place says of the task.
LifeAt(k) == IF k \in {"drop", "exit"} THEN "exited" ELSE "live"
RunAt(k, r) == (k = "current" => r # "not") /\ (k \in {"run", "mig"} => r = "not")

\* The task t is in one place at most, in one at least while it is not freed, and
\* its life and its running state are those of the place.
Placed(t) ==
    /\ \A k, l \in Kinds, x, y \in Spots : Holds(k, x, t) /\ Holds(l, y, t) => k = l /\ x = y
    /\ \A k \in Kinds, x \in Spots : Holds(k, x, t) => life[t] = LifeAt(k) /\ RunAt(k, rstate[t])
    /\ life[t] \in {"live", "exited"} => \E k \in Kinds, x \in Spots : Holds(k, x, t)

\* No queue holds a task twice.
NoDup(q) == \A i, j \in DOMAIN q : q[i] = q[j] => i = j
QueuesOK == \A c \in CPU : NoDup(runq[c]) /\ NoDup(migq[c]) /\ NoDup(dropper[c])

\* A CPU that is not switching is on the stack of its current task.
StackOK == \A c \in CPU : pc[c] \in {"task", "suspend", "dropsig"} => exec[c] = current[c]

\* The slot of a token is empty until its one signal has been taken and acted on.
Pending(c, k) == pc[c] = "suspend" /\ hold[c] = k
TokensOK ==
    \A k \in Token :
      /\ \A t \in User : sig[t] = k =>
            /\ tok[k] # "none" /\ slot[k] = None
            /\ \A u \in User : sig[u] = k => t = u
            /\ \A c \in CPU : ~Pending(c, k)
      /\ \A c \in CPU : Pending(c, k) =>
            /\ tok[k] # "none" /\ slot[k] = None
            /\ \A d \in CPU : Pending(d, k) => c = d
      /\ tok[k] = "none" => slot[k] = None

OwnInv == SchedInv /\ (\A t \in Task : Placed(t)) /\ QueuesOK /\ StackOK /\ TokensOK

-----------------------------------------------------------------------------
\* Pushing a task that is not there, and popping one, keeps a queue free of
\* duplicates.
LEMMA NoDupAppend ==
    ASSUME NEW S, NEW q \in Seq(S), NEW x \in S, NoDup(q), x \notin Elems(q)
    PROVE  NoDup(Append(q, x))
  <1>1. /\ Append(q, x) \in Seq(S) /\ Len(Append(q, x)) = Len(q) + 1 /\ Len(q) \in Nat
        /\ Append(q, x)[Len(q) + 1] = x
        /\ \A i \in 1..Len(q) : Append(q, x)[i] = q[i]
    OBVIOUS
  <1>2. DOMAIN Append(q, x) = 1..(Len(q) + 1) /\ DOMAIN q = 1..Len(q)
    BY <1>1
  <1>3. \A i \in 1..Len(q) : q[i] # x
    BY ElemsIndex, Zenon
  <1>4. \A i \in 1..(Len(q) + 1) : i \in 1..Len(q) \/ i = Len(q) + 1
    BY <1>1
  <1> QED BY <1>1, <1>2, <1>3, <1>4, ZenonT(30) DEF NoDup

\* Popping a queue's head leaves it without duplicates and without that task.
LEMMA NoDupPop ==
    ASSUME NEW S, NEW q \in Seq(S), q # <<>>, NoDup(q)
    PROVE  NoDup(Tail(q)) /\ Head(q) \notin Elems(Tail(q))
  <1>1. /\ Tail(q) \in Seq(S) /\ Len(Tail(q)) = Len(q) - 1 /\ Len(q) \in Nat /\ Len(q) >= 1
        /\ Head(q) = q[1] /\ \A i \in 1..(Len(q) - 1) : Tail(q)[i] = q[i + 1]
    OBVIOUS
  <1>2. DOMAIN Tail(q) = 1..(Len(q) - 1) /\ DOMAIN q = 1..Len(q)
    BY <1>1
  <1>3. 1 \in 1..Len(q) /\ \A i \in 1..(Len(q) - 1) : i + 1 \in 1..Len(q) /\ i + 1 # 1
    BY <1>1
  <1>4. NoDup(Tail(q))
    BY <1>1, <1>2, <1>3 DEF NoDup
  <1>5. \A i \in 1..(Len(q) - 1) : Tail(q)[i] # Head(q)
    BY <1>1, <1>2, <1>3, ZenonT(30) DEF NoDup
  <1>6. ASSUME Head(q) \in Elems(Tail(q)) PROVE FALSE
    <2>1. PICK r \in Seq(S) : r = Tail(q)
      BY <1>1, Zenon
    <2>2. PICK i \in 1..Len(r) : r[i] = Head(q)
      BY <2>1, <1>6, ElemsIndex, Zenon
    <2> QED BY <1>1, <1>5, <2>1, <2>2, Zenon
  <1> QED BY <1>4, <1>6, ZenonT(30)

-----------------------------------------------------------------------------
\* A task in one place is in no other.
LEMMA Alone ==
    ASSUME NEW t \in Task, Placed(t), NEW k \in Kinds, NEW x \in Spots, Holds(k, x, t)
    PROVE  /\ \A c \in CPU : current[c] = t => k = "current" /\ x = c
           /\ \A c \in CPU : t \in Elems(runq[c]) => k = "run" /\ x = c
           /\ \A c \in CPU : t \in Elems(migq[c]) => k = "mig" /\ x = c
           /\ \A c \in CPU : t \in Elems(dropper[c]) => k = "drop" /\ x = c
           /\ \A c \in CPU : pc[c] = "exit" /\ exec[c] = t => k = "exit" /\ x = c
           /\ \A j \in Token : slot[j] = t => k = "slot" /\ x = j
           /\ t \in parked => k = "timer" /\ x = None
           /\ life[t] = LifeAt(k) /\ RunAt(k, rstate[t])
  <1>1. \A l \in Kinds, y \in Spots : Holds(l, y, t) => k = l /\ x = y
    BY Zenon DEF Placed
  <1>2. \A c \in CPU : /\ current[c] = t => Holds("current", c, t)
                       /\ t \in Elems(runq[c]) => Holds("run", c, t)
                       /\ t \in Elems(migq[c]) => Holds("mig", c, t)
                       /\ t \in Elems(dropper[c]) => Holds("drop", c, t)
                       /\ pc[c] = "exit" /\ exec[c] = t => Holds("exit", c, t)
    BY ZenonT(30) DEF Holds
  <1>3. \A j \in Token : slot[j] = t => Holds("slot", j, t)
    BY Zenon DEF Holds
  <1>4. t \in parked => Holds("timer", None, t)
    BY Zenon DEF Holds
  <1>5. CPU \subseteq Spots /\ Token \subseteq Spots /\ None \in Spots
    BY Zenon DEF Spots
  <1> QED BY <1>1, <1>2, <1>3, <1>4, <1>5, ZenonT(30) DEF Placed, Kinds

\* A task that was not created yet, or was freed, is nowhere.
LEMMA Nowhere ==
    ASSUME NEW t \in Task, Placed(t), life[t] \notin {"live", "exited"}
    PROVE  /\ \A c \in CPU : /\ current[c] # t /\ t \notin Elems(runq[c]) /\ t \notin Elems(migq[c])
                             /\ t \notin Elems(dropper[c]) /\ ~(pc[c] = "exit" /\ exec[c] = t)
           /\ \A j \in Token : slot[j] # t
           /\ t \notin parked
  <1>1. \A k \in Kinds, x \in Spots : ~Holds(k, x, t)
    BY Zenon DEF Placed, LifeAt
  <1>2. CPU \subseteq Spots /\ Token \subseteq Spots /\ None \in Spots
    BY Zenon DEF Spots
  <1> QED BY <1>1, <1>2, ZenonT(30) DEF Holds, Kinds

\* What a step does to a task: nothing, or it moves it.
Stays(t) ==
    /\ \A k \in Kinds, x \in Spots : Holds(k, x, t)' <=> Holds(k, x, t)
    /\ life'[t] = life[t] /\ rstate'[t] = rstate[t]
Moves(t, k, x) ==
    /\ \A l \in Kinds, y \in Spots : Holds(l, y, t)' <=> l = k /\ y = x
    /\ life'[t] = LifeAt(k) /\ RunAt(k, rstate'[t])

\* Either way the task is in its place afterwards.
LEMMA StaysPlaced == ASSUME NEW t \in Task, Placed(t), Stays(t) PROVE Placed(t)'
  BY DEF Placed, Stays

\* A task that moved to one place is placed there.
LEMMA MovesPlaced ==
    ASSUME NEW t \in Task, NEW k \in Kinds, NEW x \in Spots, Moves(t, k, x)
    PROVE  Placed(t)'
  BY Zenon DEF Placed, Moves

-----------------------------------------------------------------------------
\* A step lets the task new into the place z of kind k, and the task old out of
\* the places of that kind; None stands for nobody.
Turns(k, z, new, old) ==
    \A t \in Task, x \in Spots :
        Holds(k, x, t)' <=> IF t = new THEN x = z ELSE Holds(k, x, t) /\ t # old
Kept(k) == Turns(k, None, None, None)

\* A step that leaves a variable alone keeps the places that it holds.
LEMMA Unmoved ==
    /\ UNCHANGED current => Kept("current")
    /\ UNCHANGED runq => Kept("run")
    /\ UNCHANGED migq => Kept("mig")
    /\ UNCHANGED dropper => Kept("drop")
    /\ UNCHANGED <<pc, exec>> => Kept("exit")
    /\ UNCHANGED slot => Kept("slot")
    /\ UNCHANGED parked => Kept("timer")
  <1>1. None \notin Task
    BY ConstAssumption, Zenon
  <1>2. UNCHANGED current => Kept("current")
    BY <1>1, ZenonT(30) DEF Kept, Turns, Holds
  <1>3. UNCHANGED runq => Kept("run")
    BY <1>1, ZenonT(30) DEF Kept, Turns, Holds
  <1>4. UNCHANGED migq => Kept("mig")
    BY <1>1, ZenonT(30) DEF Kept, Turns, Holds
  <1>5. UNCHANGED dropper => Kept("drop")
    BY <1>1, ZenonT(30) DEF Kept, Turns, Holds
  <1>6. UNCHANGED <<pc, exec>> => Kept("exit")
    BY <1>1, ZenonT(30) DEF Kept, Turns, Holds
  <1>7. UNCHANGED slot => Kept("slot")
    BY <1>1, ZenonT(30) DEF Kept, Turns, Holds
  <1>8. UNCHANGED parked => Kept("timer")
    BY <1>1, ZenonT(30) DEF Kept, Turns, Holds
  <1> QED BY <1>2, <1>3, <1>4, <1>5, <1>6, <1>7, <1>8, Zenon

\* A CPU that is not in Ready::exit and does not enter it keeps the exiting tasks.
LEMMA ExitKept ==
    ASSUME TypeOK, NEW c \in CPU, NEW p, p # "exit", pc[c] # "exit",
           pc' = [pc EXCEPT ![c] = p], UNCHANGED exec
    PROVE  Kept("exit")
  BY ConstAssumption DEF TypeOK, Kept, Turns, Holds

\* The current task u leaves its CPU for another place, the head n of the run
\* queue takes its place (schedule_impl).
LEMMA DescheduleMoves ==
    ASSUME OwnInv, NEW c \in CPU, NEW p \in PcSet, Deschedule(c, p), current[c] \in User,
           NEW u, u = current[c], NEW n, n = Head(runq[c])
    PROVE  /\ u \in Task /\ n \in Task /\ n # u /\ Holds("current", c, u) /\ Holds("run", c, n)
           /\ Turns("current", c, n, u) /\ Turns("run", None, None, n)
           /\ \A t \in Task : rstate'[t] = IF t = n THEN "running" ELSE IF t = u THEN "not" ELSE rstate[t]
           /\ \A x \in CPU : NoDup(runq'[x])
  <1>0. TypeOK /\ HomeInv /\ QueuesOK /\ None \notin Task /\ CPU \subseteq Spots /\ u \in Task
    BY ConstAssumption, Zenon DEF OwnInv, SchedInv, HomeInv, Spots, Task
  <1>1. runq[c] # <<>>
    BY <1>0, DescheduleOK, Zenon
  <1>2. /\ n \in Task /\ Tail(runq[c]) \in Seq(Task) /\ runq[c] \in Seq(Task)
        /\ Elems(runq[c]) = Elems(Tail(runq[c])) \cup {n}
    BY <1>0, <1>1, ElemsPop, ZenonT(30) DEF TypeOK
  <1>3. NoDup(Tail(runq[c])) /\ n \notin Elems(Tail(runq[c]))
    BY <1>0, <1>1, <1>2, NoDupPop, Zenon DEF QueuesOK
  <1>4. /\ current' = [current EXCEPT ![c] = n]
        /\ rstate' = [rstate EXCEPT ![u] = "not", ![n] = "running"]
        /\ runq' = [runq EXCEPT ![c] = Tail(runq[c])]
    BY <1>1, Zenon DEF Deschedule, SwitchTo
  <1>5. Holds("current", c, u) /\ Holds("run", c, n) /\ Placed(u) /\ Placed(n)
    BY <1>0, <1>2, ZenonT(30) DEF Holds, OwnInv
  <1>6. /\ \A x \in CPU : n \in Elems(runq[x]) => x = c
        /\ \A x \in CPU : current[x] # n
        /\ \A x \in CPU : current[x] = u => x = c
    <2>1. "run" \in Kinds /\ "current" \in Kinds
      BY Zenon DEF Kinds
    <2> QED BY <1>0, <1>2, <1>5, <2>1, Alone
  <1>7. Turns("current", c, n, u)
    BY <1>0, <1>4, <1>6 DEF Turns, Holds, TypeOK
  <1>8. Turns("run", None, None, n)
    <2>1. \A x \in CPU : runq'[x] = IF x = c THEN Tail(runq[c]) ELSE runq[x]
      BY <1>0, <1>4, Zenon DEF TypeOK
    <2>2. \A x \in CPU : \A t \in Task : t \in Elems(runq'[x]) <=> t \in Elems(runq[x]) /\ t # n
      BY <1>2, <1>3, <1>6, <2>1, ZenonT(30)
    <2> QED BY <1>0, <2>2, ZenonT(30) DEF Turns, Holds
  <1>9. \A t \in Task : rstate'[t] = IF t = n THEN "running" ELSE IF t = u THEN "not" ELSE rstate[t]
    BY <1>0, <1>2, <1>4, Zenon DEF TypeOK
  <1>10. \A x \in CPU : NoDup(runq'[x])
    BY <1>0, <1>3, <1>4, Zenon DEF QueuesOK, TypeOK
  <1> QED BY <1>0, <1>2, <1>5, <1>6, <1>7, <1>8, <1>9, <1>10, Zenon

\* The current task goes to the tail of the run queue, the head takes its place.
LEMMA RescheduleMoves ==
    ASSUME OwnInv, NEW c \in CPU, Reschedule(c),
           NEW u, u = current[c], NEW n, n = Head(runq[c])
    PROVE  /\ u \in Task /\ n \in Task /\ n # u /\ Holds("current", c, u) /\ Holds("run", c, n)
           /\ Turns("current", c, n, u) /\ Turns("run", c, u, n)
           /\ \A t \in Task : rstate'[t] = IF t = n THEN "running" ELSE IF t = u THEN "not" ELSE rstate[t]
           /\ \A x \in CPU : NoDup(runq'[x])
  <1>0. TypeOK /\ QueuesOK /\ None \notin Task /\ CPU \subseteq Spots /\ u \in Task
    BY ConstAssumption, ZenonT(30) DEF OwnInv, SchedInv, Spots, TypeOK
  <1>2. /\ n \in Task /\ Tail(runq[c]) \in Seq(Task) /\ runq[c] \in Seq(Task) /\ runq[c] # <<>>
        /\ Elems(runq[c]) = Elems(Tail(runq[c])) \cup {n}
    BY <1>0, ElemsPop, ZenonT(30) DEF TypeOK, Reschedule
  <1>3. NoDup(Tail(runq[c])) /\ n \notin Elems(Tail(runq[c]))
    BY <1>0, <1>2, NoDupPop, ZenonT(30) DEF QueuesOK
  <1>4. /\ current' = [current EXCEPT ![c] = n]
        /\ rstate' = [rstate EXCEPT ![u] = "not", ![n] = "running"]
        /\ runq' = [runq EXCEPT ![c] = Append(Tail(runq[c]), u)]
    BY ZenonT(30) DEF Reschedule, SwitchTo
  <1>5. Holds("current", c, u) /\ Holds("run", c, n) /\ Placed(u) /\ Placed(n)
    BY <1>0, <1>2, ZenonT(30) DEF Holds, OwnInv
  <1>6. /\ \A x \in CPU : n \in Elems(runq[x]) => x = c
        /\ \A x \in CPU : current[x] # n
        /\ \A x \in CPU : current[x] = u => x = c
        /\ \A x \in CPU : u \notin Elems(runq[x])
    <2>1. "run" \in Kinds /\ "current" \in Kinds
      BY Zenon DEF Kinds
    <2> QED BY <1>0, <1>2, <1>5, <2>1, Alone
  <1>a. Elems(Append(Tail(runq[c]), u)) = Elems(Tail(runq[c])) \cup {u}
    <2>1. PICK r \in Seq(Task) : r = Tail(runq[c])
      BY <1>2, Zenon
    <2>2. Elems(Append(r, u)) = Elems(r) \cup {u}
      BY <1>0, ElemsAppend
    <2> QED BY <2>1, <2>2, Zenon
  <1>b. /\ \A x \in CPU : current'[x] = IF x = c THEN n ELSE current[x]
        /\ \A x \in CPU : runq'[x] = IF x = c THEN Append(Tail(runq[c]), u) ELSE runq[x]
    BY <1>0, <1>4, Zenon DEF TypeOK
  <1>7. Turns("current", c, n, u)
    BY <1>0, <1>b, <1>6 DEF Turns, Holds
  <1>8. Turns("run", c, u, n)
    <2>1. \A x \in CPU : \A t : t \in Elems(runq'[x]) <=> IF t = u THEN x = c ELSE t \in Elems(runq[x]) /\ t # n
      BY <1>2, <1>3, <1>b, <1>6, <1>a, ZenonT(30)
    <2> QED BY <1>0, <2>1, ZenonT(30) DEF Turns, Holds
  <1>9. \A t \in Task : rstate'[t] = IF t = n THEN "running" ELSE IF t = u THEN "not" ELSE rstate[t]
    BY <1>0, <1>2, <1>4, Zenon DEF TypeOK
  <1>10. \A x \in CPU : NoDup(runq'[x])
    <2>1. NoDup(Append(Tail(runq[c]), u))
      BY <1>0, <1>2, <1>3, <1>6, NoDupAppend, Zenon
    <2> QED BY <1>0, <2>1, <1>4, Zenon DEF QueuesOK, TypeOK
  <1> QED BY <1>0, <1>2, <1>5, <1>6, <1>7, <1>8, <1>9, <1>10, Zenon

\* The ways a woken task t comes back: into the run queue of c, in the place of
\* its current task u, or into the migration queue of another CPU.
Joins(c, t) ==
    /\ Kept("current") /\ Turns("run", c, t, None)
    /\ \A y \in Task : rstate'[y] = IF y = t THEN "not" ELSE rstate[y]
Preempts(c, t, u) ==
    /\ Turns("current", c, t, u) /\ Turns("run", c, u, None)
    /\ \A y \in Task : rstate'[y] = IF y = t THEN "running" ELSE IF y = u THEN "not" ELSE rstate[y]
Migrates(t) ==
    /\ Kept("current") /\ Kept("run") /\ \E d \in CPU : Turns("mig", d, t, None)
    /\ \A y \in Task : rstate'[y] = IF y = t THEN "not" ELSE rstate[y]
Woken(c, t, u) ==
    \/ Joins(c, t) /\ Turns("mig", None, None, t)
    \/ Preempts(c, t, u) /\ Turns("mig", None, None, t)
    \/ Migrates(t)

\* enqueue puts a task that neither runs nor is queued to run in one of two places.
LEMMA EnqueueMoves ==
    ASSUME OwnInv, NEW c \in CPU, NEW t \in Task, NEW b \in BOOLEAN, Enqueue(c, t, b),
           NEW u, u = current[c], \A x \in CPU : current[x] # t /\ t \notin Elems(runq[x])
    PROVE  /\ \A x \in CPU : NoDup(runq'[x])
           /\ Joins(c, t) \/ Preempts(c, t, u)
  <1>0. TypeOK /\ QueuesOK /\ None \notin Task /\ CPU \subseteq Spots /\ u \in Task /\ runq[c] \in Seq(Task)
    BY ConstAssumption, ZenonT(30) DEF OwnInv, SchedInv, Spots, TypeOK
  <1>1. Holds("current", c, u) /\ Placed(u)
    BY <1>0, ZenonT(30) DEF Holds, OwnInv
  <1>2. /\ \A x \in CPU : current[x] = u => x = c
        /\ \A x \in CPU : u \notin Elems(runq[x])
    <2>1. "current" \in Kinds
      BY Zenon DEF Kinds
    <2> QED BY <1>0, <1>1, <2>1, Alone, ZenonT(30)
  <1>3. CASE /\ SwitchTo(c, t, "not")
             /\ runq' = [runq EXCEPT ![c] = Append(runq[c], u)]
    <2>1. /\ \A x \in CPU : current'[x] = IF x = c THEN t ELSE current[x]
          /\ \A x \in CPU : runq'[x] = IF x = c THEN Append(runq[c], u) ELSE runq[x]
          /\ rstate' = [rstate EXCEPT ![u] = "not", ![t] = "running"]
      BY <1>0, <1>3, Zenon DEF TypeOK, SwitchTo
    <2>2. Elems(Append(runq[c], u)) = Elems(runq[c]) \cup {u} /\ NoDup(Append(runq[c], u))
      BY <1>0, <1>2, ElemsAppend, NoDupAppend DEF QueuesOK
    <2>3. Turns("current", c, t, u)
      BY <1>0, <2>1, <1>2, ZenonT(30) DEF Turns, Holds
    <2>4. Turns("run", c, u, None)
      <3>1. \A x \in CPU : \A y : y \in Elems(runq'[x]) <=> IF y = u THEN x = c ELSE y \in Elems(runq[x])
        BY <1>2, <2>1, <2>2, Zenon
      <3> QED BY <1>0, <3>1, ZenonT(30) DEF Turns, Holds
    <2>5. \A y \in Task : rstate'[y] = IF y = t THEN "running" ELSE IF y = u THEN "not" ELSE rstate[y]
      BY <1>0, <2>1, Zenon DEF TypeOK
    <2>6. \A x \in CPU : NoDup(runq'[x])
      BY <1>0, <2>1, <2>2, Zenon DEF QueuesOK
    <2> QED BY <2>3, <2>4, <2>5, <2>6, Zenon DEF Preempts
  <1>4. CASE /\ runq' = [runq EXCEPT ![c] = Append(runq[c], t)]
             /\ rstate' = [rstate EXCEPT ![t] = "not"]
             /\ UNCHANGED current
    <2>1. \A x \in CPU : runq'[x] = IF x = c THEN Append(runq[c], t) ELSE runq[x]
      BY <1>0, <1>4, ZenonT(30) DEF TypeOK
    <2>2. Elems(Append(runq[c], t)) = Elems(runq[c]) \cup {t} /\ NoDup(Append(runq[c], t))
      BY <1>0, ElemsAppend, NoDupAppend DEF QueuesOK
    <2>3. Kept("current")
      BY <1>4, Unmoved, Zenon
    <2>4. Turns("run", c, t, None)
      <3>1. \A x \in CPU : \A y : y \in Elems(runq'[x]) <=> IF y = t THEN x = c ELSE y \in Elems(runq[x])
        BY <2>1, <2>2, ZenonT(30)
      <3> QED BY <1>0, <3>1, ZenonT(30) DEF Turns, Holds
    <2>5. \A y \in Task : rstate'[y] = IF y = t THEN "not" ELSE rstate[y]
      BY <1>0, <1>4, ZenonT(30) DEF TypeOK
    <2>6. \A x \in CPU : NoDup(runq'[x])
      BY <1>0, <2>1, <2>2, ZenonT(30) DEF QueuesOK
    <2> QED BY <2>3, <2>4, <2>5, <2>6, ZenonT(30) DEF Joins
  <1> QED BY <1>3, <1>4, ZenonT(30) DEF Enqueue, Preempt

\* unblock: the same, or the migration queue of another CPU.
LEMMA UnblockMoves ==
    ASSUME OwnInv, NEW c \in CPU, NEW t \in User, NEW b \in BOOLEAN, Unblock(c, t, b),
           NEW u, u = current[c],
           \A x \in CPU : current[x] # t /\ t \notin Elems(runq[x]) /\ t \notin Elems(migq[x])
    PROVE  /\ \A x \in CPU : NoDup(runq'[x]) /\ NoDup(migq'[x])
           /\ Woken(c, t, u)
  <1>0. TypeOK /\ QueuesOK /\ None \notin Task /\ CPU \subseteq Spots /\ t \in Task
    BY ConstAssumption, ZenonT(30) DEF OwnInv, SchedInv, Spots, Task
  <1>1. PICK d \in CPU :
          IF d = c
          THEN Enqueue(c, t, b) /\ UNCHANGED <<migq, send>>
          ELSE /\ migq' = [migq EXCEPT ![d] = Append(migq[d], t)]
               /\ rstate' = [rstate EXCEPT ![t] = "not"]
               /\ UNCHANGED <<current, runq, erun, pc>>
    BY ConstAssumption, ZenonT(30) DEF Unblock
  <1>2. CASE d = c
    <2>1. Enqueue(c, t, b) /\ UNCHANGED migq
      BY <1>1, <1>2, ZenonT(30)
    <2>2. (\A x \in CPU : NoDup(runq'[x])) /\ (Joins(c, t) \/ Preempts(c, t, u))
      BY <1>0, <2>1, EnqueueMoves, ZenonT(30)
    <2>3. Turns("mig", None, None, t)
      BY <1>0, <2>1, ZenonT(30) DEF Turns, Holds
    <2> QED BY <1>0, <2>1, <2>2, <2>3, ZenonT(30) DEF Woken, QueuesOK
  <1>3. CASE d # c
    <2>0. /\ migq' = [migq EXCEPT ![d] = Append(migq[d], t)]
          /\ rstate' = [rstate EXCEPT ![t] = "not"]
          /\ UNCHANGED <<current, runq>>
      BY <1>1, <1>3, Zenon
    <2>1. \A x \in CPU : migq'[x] = IF x = d THEN Append(migq[d], t) ELSE migq[x]
      BY <1>0, <2>0, Zenon DEF TypeOK
    <2>2. Elems(Append(migq[d], t)) = Elems(migq[d]) \cup {t} /\ NoDup(Append(migq[d], t))
      <3>1. migq[d] \in Seq(Task)
        BY <1>0, Zenon DEF TypeOK
      <3> QED BY <1>0, <3>1, ElemsAppend, NoDupAppend DEF QueuesOK
    <2>3. Turns("mig", d, t, None)
      <3>1. \A x \in CPU : \A y : y \in Elems(migq'[x]) <=> IF y = t THEN x = d ELSE y \in Elems(migq[x])
        BY <2>1, <2>2, ZenonT(30)
      <3> QED BY <1>0, <3>1, ZenonT(30) DEF Turns, Holds
    <2>4. Kept("current") /\ Kept("run")
      BY <2>0, Unmoved, ZenonT(30)
    <2>5. \A y \in Task : rstate'[y] = IF y = t THEN "not" ELSE rstate[y]
      BY <1>0, <2>0, ZenonT(30) DEF TypeOK
    <2>6. \A x \in CPU : NoDup(runq'[x]) /\ NoDup(migq'[x])
      BY <1>0, <2>0, <2>1, <2>2, ZenonT(30) DEF QueuesOK
    <2> QED BY <2>3, <2>4, <2>5, <2>6, Zenon DEF Woken, Migrates
  <1> QED BY <1>2, <1>3, ZenonT(30)

\* A task that came back from elsewhere is in its new place only, and the task
\* it preempted is in the run queue.
LEMMA WokenPlaced ==
    ASSUME OwnInv, NEW c \in CPU, NEW t \in Task, NEW u, u = current[c], u # t, Woken(c, t, u),
           \A k \in {"drop", "exit", "slot", "timer"} : Turns(k, None, None, t),
           \A x \in CPU : current[x] # t /\ t \notin Elems(runq[x]),
           life'[t] = "live", \A y \in Task \ {t} : life'[y] = life[y]
    PROVE  \A y \in Task : Placed(y)'
  <1>0. /\ None \notin Task /\ CPU \subseteq Spots /\ u \in Task /\ Holds("current", c, u) /\ Placed(u)
        /\ \A y \in Task : Placed(y)
    BY ConstAssumption, ZenonT(30) DEF OwnInv, SchedInv, Spots, TypeOK, Holds
  <1>1. Turns("drop", None, None, t) /\ Turns("exit", None, None, t)
        /\ Turns("slot", None, None, t) /\ Turns("timer", None, None, t)
    BY Zenon
  <1>2. \A x \in Spots : ~Holds("current", x, t) /\ ~Holds("run", x, t)
    BY Zenon DEF Holds
  <1>3. /\ life[u] = "live"
        /\ \A k \in Kinds, x \in Spots : Holds(k, x, u) => k = "current" /\ x = c
    <2>1. "current" \in Kinds /\ c \in Spots
      BY <1>0, Zenon DEF Kinds
    <2>2. LifeAt("current") = "live"
      BY ZenonT(30) DEF LifeAt
    <2> QED BY <1>0, <2>1, <2>2, ZenonT(30) DEF Placed
  <1>4. CASE Joins(c, t) /\ Turns("mig", None, None, t)
    <2>1. Moves(t, "run", c)
      BY <1>0, <1>1, <1>2, <1>4, ZenonT(30) DEF Moves, Turns, Kept, Joins, Kinds, LifeAt, RunAt
    <2>2. ASSUME NEW y \in Task \ {t} PROVE Stays(y)
      BY <1>0, <1>1, <1>4 DEF Stays, Turns, Kept, Joins, Kinds
    <2>3. "run" \in Kinds
      BY Zenon DEF Kinds
    <2> QED BY <1>0, <2>1, <2>2, <2>3, MovesPlaced, StaysPlaced, ZenonT(30)
  <1>5. CASE Preempts(c, t, u) /\ Turns("mig", None, None, t)
    <2>1. Moves(t, "current", c)
      BY <1>0, <1>1, <1>2, <1>5 DEF Moves, Turns, Preempts, Kinds, LifeAt, RunAt
    <2>4. Moves(u, "run", c)
      BY <1>0, <1>1, <1>3, <1>5 DEF Moves, Turns, Preempts, Kinds, LifeAt, RunAt
    <2>2. ASSUME NEW y \in Task \ {t, u} PROVE Stays(y)
      BY <1>0, <1>1, <1>5 DEF Stays, Turns, Preempts, Kinds
    <2>3. "run" \in Kinds /\ "current" \in Kinds
      BY Zenon DEF Kinds
    <2> QED BY <1>0, <2>1, <2>2, <2>3, <2>4, MovesPlaced, StaysPlaced, Zenon
  <1>6. CASE Migrates(t)
    <2>0. PICK d \in CPU : Turns("mig", d, t, None)
      BY <1>6, Zenon DEF Migrates
    <2>1. Moves(t, "mig", d)
      BY <1>0, <1>1, <1>2, <1>6, <2>0 DEF Moves, Turns, Kept, Migrates, Kinds, LifeAt, RunAt
    <2>2. ASSUME NEW y \in Task \ {t} PROVE Stays(y)
      BY <1>0, <1>1, <1>6, <2>0 DEF Stays, Turns, Kept, Migrates, Kinds
    <2>3. "mig" \in Kinds
      BY Zenon DEF Kinds
    <2> QED BY <1>0, <2>1, <2>2, <2>3, MovesPlaced, StaysPlaced, Zenon
  <1> QED BY <1>4, <1>5, <1>6, ZenonT(30) DEF Woken

-----------------------------------------------------------------------------
\* The invariant without its scheduler part, which NextOK preserves.
OwnRest == (\A t \in Task : Placed(t)) /\ QueuesOK /\ StackOK /\ TokensOK

\* The facts about the constants and the state that every step uses.
LEMMA Basics ==
    ASSUME OwnInv
    PROVE  /\ TypeOK /\ HomeInv /\ WorkOK /\ SchedInv /\ QueuesOK /\ StackOK /\ TokensOK
           /\ \A t \in Task : Placed(t)
           /\ None \notin Task /\ Kill \notin Token /\ User \subseteq Task /\ CPU \subseteq Spots
           /\ Token \subseteq Spots /\ None \in Spots /\ None \notin Token /\ None \notin CPU
           /\ Kill # None
  BY ConstAssumption, Zenon DEF OwnInv, SchedInv, HomeInv, Spots, Task

\* A step that touches no place, no life and no running state.
LEMMA AllStay ==
    ASSUME OwnInv, \A k \in Kinds : Kept(k), UNCHANGED <<life, rstate>>
    PROVE  \A t \in Task : Placed(t)'
  <1>1. ASSUME NEW t \in Task PROVE Stays(t)
    BY <1>1, Basics, Zenon DEF Stays, Kept, Turns
  <1> QED BY <1>1, StaysPlaced, Basics, Zenon

\* The current task u goes to the place z of kind k, the head n runs.
LEMMA LeavesPlaced ==
    ASSUME OwnInv, NEW c \in CPU, NEW u \in Task, NEW n \in Task, n # u,
           Holds("current", c, u), Holds("run", c, n),
           Turns("current", c, n, u), Turns("run", None, None, n), Kept("mig"), Kept("drop"),
           NEW k \in {"exit", "slot", "timer"}, NEW z \in Spots, Turns(k, z, u, None),
           \A l \in {"exit", "slot", "timer"} \ {k} : Kept(l),
           \A t \in Task : rstate'[t] = IF t = n THEN "running" ELSE IF t = u THEN "not" ELSE rstate[t],
           life'[u] = LifeAt(k), \A t \in Task \ {u} : life'[t] = life[t]
    PROVE  \A t \in Task : Placed(t)'
  <1>0. None \notin Task /\ CPU \subseteq Spots /\ (\A t \in Task : Placed(t))
    BY Basics, ZenonT(30)
  <1>1. "current" \in Kinds /\ "run" \in Kinds /\ k \in Kinds
        /\ LifeAt("current") = "live" /\ LifeAt("run") = "live"
    BY Zenon DEF Kinds, LifeAt
  <1>2. \A l \in Kinds, x \in Spots : Holds(l, x, u) => l = "current" /\ x = c
    BY <1>0, <1>1, ZenonT(30) DEF Placed
  <1>3. /\ \A l \in Kinds, x \in Spots : Holds(l, x, n) => l = "run" /\ x = c
        /\ life[n] = "live"
    BY <1>0, <1>1, ZenonT(30) DEF Placed
  <1>4. \A l \in Kinds : l \in {"current", "run", "mig", "drop", k} \/ l \in {"exit", "slot", "timer"} \ {k}
    BY Zenon DEF Kinds
  <1>5. Moves(n, "current", c)
    <2>1. ASSUME NEW l \in Kinds, NEW x \in Spots PROVE Holds(l, x, n)' <=> l = "current" /\ x = c
      BY <1>0, <1>3, <1>4, ZenonT(30) DEF Turns, Kept, Kinds
    <2> QED BY <1>1, <1>3, <2>1, ZenonT(30) DEF Moves, RunAt
  <1>6. Moves(u, k, z)
    <2>1. ASSUME NEW l \in Kinds, NEW x \in Spots PROVE Holds(l, x, u)' <=> l = k /\ x = z
      BY <1>0, <1>2, <1>4, ZenonT(30) DEF Turns, Kept, Kinds
    <2> QED BY <1>1, <2>1, Zenon DEF Moves, RunAt
  <1>7. ASSUME NEW t \in Task \ {u, n} PROVE Stays(t)
    <2>1. ASSUME NEW l \in Kinds, NEW x \in Spots PROVE Holds(l, x, t)' <=> Holds(l, x, t)
      BY <1>0, <1>4 DEF Turns, Kept, Kinds
    <2> QED BY <2>1, ZenonT(30) DEF Stays
  <1> QED BY <1>0, <1>1, <1>5, <1>6, <1>7, MovesPlaced, StaysPlaced, ZenonT(30)

\* A reschedule moves the current task to the queue and the head to the CPU.
LEMMA ReschedulePlaced ==
    ASSUME OwnInv, NEW c \in CPU, Reschedule(c), UNCHANGED <<life, dropper, exec, slot, parked>>,
           pc[c] = "task"
    PROVE  (\A t \in Task : Placed(t)') /\ (\A x \in CPU : NoDup(runq'[x]))
  <1>0. TypeOK /\ None \notin Task /\ CPU \subseteq Spots /\ (\A t \in Task : Placed(t))
    BY Basics, Zenon
  <1>a. PICK u : u = current[c]
    BY Zenon
  <1>b. PICK n : n = Head(runq[c])
    BY Zenon
  <1>1. /\ u \in Task /\ n \in Task /\ n # u /\ Holds("current", c, u) /\ Holds("run", c, n)
        /\ Turns("current", c, n, u) /\ Turns("run", c, u, n)
        /\ \A t \in Task : rstate'[t] = IF t = n THEN "running" ELSE IF t = u THEN "not" ELSE rstate[t]
        /\ \A x \in CPU : NoDup(runq'[x])
    BY <1>a, <1>b, RescheduleMoves
  <1>2. Kept("mig") /\ Kept("drop") /\ Kept("slot") /\ Kept("timer") /\ Kept("exit")
    <2>1. UNCHANGED migq /\ pc' = [pc EXCEPT ![c] = "switch"]
      BY Zenon DEF Reschedule
    <2> QED BY <1>0, <2>1, Unmoved, ExitKept, Zenon
  <1>3. "current" \in Kinds /\ "run" \in Kinds
        /\ LifeAt("current") = "live" /\ LifeAt("run") = "live"
    BY Zenon DEF Kinds, LifeAt
  <1>4. /\ \A l \in Kinds, x \in Spots : Holds(l, x, u) => l = "current" /\ x = c
        /\ life[u] = "live"
    BY <1>0, <1>1, <1>3, ZenonT(30) DEF Placed
  <1>5. /\ \A l \in Kinds, x \in Spots : Holds(l, x, n) => l = "run" /\ x = c
        /\ life[n] = "live"
    BY <1>0, <1>1, <1>3, ZenonT(30) DEF Placed
  <1>6. Moves(n, "current", c)
    BY <1>0, <1>1, <1>2, <1>3, <1>5, ZenonT(30) DEF Turns, Kept, Kinds, Moves, RunAt
  <1>7. Moves(u, "run", c)
    BY <1>0, <1>1, <1>2, <1>3, <1>4, ZenonT(30) DEF Turns, Kept, Kinds, Moves, RunAt
  <1>8. ASSUME NEW t \in Task \ {u, n} PROVE Stays(t)
    BY <1>0, <1>1, <1>2 DEF Turns, Kept, Kinds, Stays
  <1> QED BY <1>0, <1>1, <1>3, <1>6, <1>7, <1>8, MovesPlaced, StaysPlaced, Zenon

\* A step that changes no owner and only what the CPU c executes.
LEMMA QuietPlaced ==
    ASSUME OwnInv, NEW c \in CPU, UNCHANGED <<current, runq, migq, dropper, slot, parked, life, rstate>>,
           Kept("exit")
    PROVE  (\A t \in Task : Placed(t)') /\ QueuesOK'
  <1>1. \A k \in Kinds : Kept(k)
    BY Unmoved, Zenon DEF Kinds
  <1>2. \A t \in Task : Placed(t)'
    BY <1>1, AllStay, Zenon
  <1>3. QueuesOK'
    BY Basics, Zenon DEF QueuesOK
  <1> QED BY <1>2, <1>3, Zenon

\* A step that withdraws signals, drops tokens and empties slots, and begins no
\* suspension.
LEMMA TokensKept ==
    ASSUME OwnInv, \A t \in User : sig'[t] = sig[t] \/ sig'[t] \notin Token,
           \A k \in Token : /\ tok[k] # "none" => tok'[k] # "none"
                            /\ slot'[k] = slot[k] \/ slot'[k] = None,
           \A c \in CPU : pc'[c] = "suspend" => pc[c] = "suspend" /\ hold'[c] = hold[c]
    PROVE  TokensOK'
  <1>1. \A c \in CPU, k \in Token : Pending(c, k)' => Pending(c, k)
    BY Zenon DEF Pending
  <1>2. TokensOK
    BY Basics, Zenon
  <1> QED BY <1>1, <1>2 DEF TokensOK

\* A CPU that switches, or does not, keeps the others on their stacks.
LEMMA StackKept ==
    ASSUME OwnInv, NEW c \in CPU, UNCHANGED exec,
           \/ UNCHANGED <<pc, current>>
           \/ /\ \A d \in CPU \ {c} : current'[d] = current[d] /\ pc'[d] = pc[d]
              /\ pc'[c] \in {"switch", "exit"}
    PROVE  StackOK'
  <1>1. StackOK
    BY Basics, Zenon
  <1>2. CASE UNCHANGED <<pc, current>>
    BY <1>1, <1>2, Zenon DEF StackOK
  <1>3. CASE /\ \A d \in CPU \ {c} : current'[d] = current[d] /\ pc'[d] = pc[d]
             /\ pc'[c] \in {"switch", "exit"}
    <2>1. \A d \in CPU : d = c \/ d \in CPU \ {c}
      BY Zenon
    <2> QED BY <1>1, <1>3, <2>1, Zenon DEF StackOK
  <1> QED BY <1>2, <1>3, Zenon

-----------------------------------------------------------------------------
\* Steps that leave every task where it is.
LEMMA SendIpiOwn == ASSUME OwnInv, NEW c \in CPU, SendIpi(c) PROVE OwnRest'
  <1>1. UNCHANGED <<current, runq, migq, dropper, slot, parked, life, rstate, pc, exec, sig, tok, hold>>
    BY Zenon DEF SendIpi, queues, owners, tokens
  <1>2. (\A t \in Task : Placed(t)') /\ QueuesOK'
    BY <1>1, Unmoved, QuietPlaced, ZenonT(30)
  <1>3. StackOK'
    BY <1>1, StackKept, ZenonT(30)
  <1>4. TokensOK'
    BY <1>1, TokensKept, ZenonT(30)
  <1> QED BY <1>2, <1>3, <1>4, ZenonT(30) DEF OwnRest

\* switch_ctx moves the CPU to the stack of its current task and moves no task.
LEMMA SwitchKframeOwn == ASSUME OwnInv, NEW c \in CPU, SwitchKframe(c) PROVE OwnRest'
  <1>0. TypeOK /\ StackOK /\ None \notin Task
    BY Basics, ZenonT(30)
  <1>1. /\ UNCHANGED <<current, runq, migq, dropper, slot, parked, life, rstate, sig, tok, hold>>
        /\ pc[c] = "switch" /\ pc' = [pc EXCEPT ![c] = "task"] /\ exec' = [exec EXCEPT ![c] = current[c]]
    BY ZenonT(30) DEF SwitchKframe, queues, owners, tokens
  <1>5. \A x \in CPU : /\ pc'[x] = IF x = c THEN "task" ELSE pc[x]
                       /\ exec'[x] = IF x = c THEN current[c] ELSE exec[x]
    BY <1>0, <1>1, ZenonT(30) DEF TypeOK
  <1>6. Kept("exit")
    BY <1>0, <1>1, <1>5 DEF Kept, Turns, Holds
  <1>2. (\A t \in Task : Placed(t)') /\ QueuesOK'
    BY <1>1, <1>6, QuietPlaced, Zenon
  <1>3. StackOK'
    BY <1>0, <1>1, <1>5, ZenonT(30) DEF StackOK
  <1>4. TokensOK'
    BY <1>1, <1>5, TokensKept
  <1> QED BY <1>2, <1>3, <1>4, Zenon DEF OwnRest

\* The task_migrate handler starts its loop and moves no task yet.
LEMMA MigrateHandlerOwn == ASSUME OwnInv, NEW c \in CPU, MigrateHandler(c) PROVE OwnRest'
  <1>1. UNCHANGED <<current, runq, migq, dropper, slot, parked, life, rstate, pc, exec, sig, tok, hold>>
    BY Zenon DEF MigrateHandler, queues, owners, tokens
  <1>2. (\A t \in Task : Placed(t)') /\ QueuesOK'
    BY <1>1, Unmoved, QuietPlaced, Zenon
  <1>3. StackOK'
    BY <1>1, StackKept, Zenon
  <1>4. TokensOK'
    BY <1>1, TokensKept, Zenon
  <1> QED BY <1>2, <1>3, <1>4, Zenon DEF OwnRest

\* The signal of a task is taken by its tick: the token it carried has no other.
LEMMA TickSuspendOwn == ASSUME OwnInv, NEW c \in CPU, TickSuspend(c) PROVE OwnRest'
  <1>0. TypeOK /\ StackOK /\ TokensOK /\ None \notin Token /\ User \subseteq Task
    BY Basics, ZenonT(30)
  <1>a. PICK t : t = current[c]
    BY Zenon
  <1>b. PICK m : m = sig[t]
    BY Zenon
  <1>1. /\ UNCHANGED <<current, runq, migq, dropper, slot, parked, life, rstate, tok, exec>>
        /\ pc[c] = "task" /\ t \in User /\ m \in Token /\ pc' = [pc EXCEPT ![c] = "suspend"]
        /\ hold' = [hold EXCEPT ![c] = m] /\ sig' = [sig EXCEPT ![t] = None]
    BY <1>a, <1>b, ZenonT(30) DEF TickSuspend, Free, queues, owners
  <1>2. (\A y \in Task : Placed(y)') /\ QueuesOK'
    BY <1>0, <1>1, ExitKept, QuietPlaced, ZenonT(30)
  <1>5. /\ \A x \in CPU : /\ pc'[x] = IF x = c THEN "suspend" ELSE pc[x]
                          /\ hold'[x] = IF x = c THEN m ELSE hold[x]
        /\ \A y \in User : sig'[y] = IF y = t THEN None ELSE sig[y]
    BY <1>0, <1>1, ZenonT(30) DEF TypeOK
  <1>3. StackOK'
    BY <1>0, <1>1, <1>5, ZenonT(30) DEF StackOK
  <1>4. TokensOK'
    <2>1. \A x \in CPU, k \in Token : Pending(x, k)' <=> IF x = c THEN k = m ELSE Pending(x, k)
      BY <1>1, <1>5, ZenonT(30) DEF Pending
    <2>2. /\ tok[m] # "none" /\ slot[m] = None
          /\ \A y \in User : sig[y] = m => t = y
          /\ \A x \in CPU : ~Pending(x, m)
      BY <1>0, <1>1, <1>b, ZenonT(30) DEF TokensOK
    <2>3. ASSUME NEW k \in Token
          PROVE  /\ \A y \in User : sig'[y] = k =>
                      /\ tok'[k] # "none" /\ slot'[k] = None
                      /\ \A z \in User : sig'[z] = k => y = z
                      /\ \A x \in CPU : ~Pending(x, k)'
                 /\ \A x \in CPU : Pending(x, k)' =>
                      /\ tok'[k] # "none" /\ slot'[k] = None
                      /\ \A d \in CPU : Pending(d, k)' => x = d
                 /\ tok'[k] = "none" => slot'[k] = None
      <3>1. CASE k = m
        BY <1>0, <1>1, <1>5, <2>1, <2>2, <3>1
      <3>2. CASE k # m
        BY <1>0, <1>1, <1>5, <2>1, <3>2 DEF TokensOK
      <3> QED BY <3>1, <3>2, Zenon
    <2> QED BY <2>3, ZenonT(30) DEF TokensOK
  <1> QED BY <1>2, <1>3, <1>4, Zenon DEF OwnRest

\* task_ctl's kill replaces a pending suspension and moves no task.
LEMMA CtlKillOwn == ASSUME OwnInv, NEW c \in CPU, NEW t \in User, CtlKill(c, t) PROVE OwnRest'
  <1>0. TypeOK /\ Kill \notin Token
    BY Basics, Zenon
  <1>1. /\ UNCHANGED <<current, runq, migq, dropper, slot, parked, life, rstate, pc, exec, tok, hold>>
        /\ sig' = [sig EXCEPT ![t] = Kill]
    BY Zenon DEF CtlKill, queues, owners, cpus
  <1>2. (\A y \in Task : Placed(y)') /\ QueuesOK'
    BY <1>1, Unmoved, QuietPlaced, Zenon
  <1>3. StackOK'
    BY <1>1, StackKept, Zenon
  <1>5. \A y \in User : sig'[y] = sig[y] \/ sig'[y] \notin Token
    BY <1>0, <1>1, ZenonT(30) DEF TypeOK
  <1>4. TokensOK'
    BY <1>1, <1>5, TokensKept, ZenonT(30)
  <1> QED BY <1>2, <1>3, <1>4, Zenon DEF OwnRest

\* A new token is the signal of one task, and its slot is empty.
LEMMA CtlSuspendOwn ==
    ASSUME OwnInv, NEW c \in CPU, NEW t \in User, NEW m \in Token, CtlSuspend(c, t, m)
    PROVE  OwnRest'
  <1>0. TypeOK /\ TokensOK
    BY Basics, ZenonT(30)
  <1>1. /\ UNCHANGED <<current, runq, migq, dropper, slot, parked, life, rstate, pc, exec, hold>>
        /\ sig' = [sig EXCEPT ![t] = m] /\ tok[m] = "none" /\ tok' = [tok EXCEPT ![m] = "held"]
    BY Zenon DEF CtlSuspend, queues, owners, cpus
  <1>2. (\A y \in Task : Placed(y)') /\ QueuesOK'
    BY <1>1, Unmoved, QuietPlaced, ZenonT(30)
  <1>3. StackOK'
    BY <1>1, StackKept, ZenonT(30)
  <1>4. TokensOK'
    <2>1. /\ \A y \in User : sig'[y] = IF y = t THEN m ELSE sig[y]
          /\ \A k \in Token : tok'[k] = IF k = m THEN "held" ELSE tok[k]
          /\ \A x \in CPU, k \in Token : Pending(x, k)' <=> Pending(x, k)
      BY <1>0, <1>1, ZenonT(30) DEF TypeOK, Pending
    <2>2. /\ \A y \in User : sig[y] # m
          /\ \A x \in CPU : ~Pending(x, m)
          /\ slot[m] = None
      BY <1>0, <1>1, ZenonT(30) DEF TokensOK
    <2>3. ASSUME NEW k \in Token
          PROVE  /\ \A y \in User : sig'[y] = k =>
                      /\ tok'[k] # "none" /\ slot'[k] = None
                      /\ \A z \in User : sig'[z] = k => y = z
                      /\ \A x \in CPU : ~Pending(x, k)'
                 /\ \A x \in CPU : Pending(x, k)' =>
                      /\ tok'[k] # "none" /\ slot'[k] = None
                      /\ \A d \in CPU : Pending(d, k)' => x = d
                 /\ tok'[k] = "none" => slot'[k] = None
      <3>1. CASE k = m
        BY <1>0, <1>1, <2>1, <2>2, <3>1
      <3>2. CASE k # m
        BY <1>0, <1>1, <2>1, <3>2 DEF TokensOK
      <3> QED BY <3>1, <3>2, ZenonT(30)
    <2> QED BY <2>3, ZenonT(30) DEF TokensOK
  <1> QED BY <1>2, <1>3, <1>4, ZenonT(30) DEF OwnRest

\* Dropping the replaced signal empties the CPU's hand and moves no task.
LEMMA DropSignalOwn == ASSUME OwnInv, NEW c \in CPU, DropSignal(c) PROVE OwnRest'
  <1>0. TypeOK /\ StackOK /\ None \notin Token
    BY Basics, ZenonT(30)
  <1>1. /\ UNCHANGED <<current, runq, migq, dropper, slot, parked, life, rstate, tok, exec>>
        /\ pc[c] = "dropsig" /\ pc' = [pc EXCEPT ![c] = "task"] /\ hold' = [hold EXCEPT ![c] = None]
        /\ sig' = sig \/ \E t : sig' = [sig EXCEPT ![t] = None]
    BY Zenon DEF DropSignal, queues, owners
  <1>2. (\A y \in Task : Placed(y)') /\ QueuesOK'
    BY <1>0, <1>1, ExitKept, QuietPlaced, ZenonT(30)
  <1>5. /\ \A x \in CPU : /\ pc'[x] = IF x = c THEN "task" ELSE pc[x]
                          /\ hold'[x] = IF x = c THEN None ELSE hold[x]
        /\ \A y \in User : sig'[y] = sig[y] \/ sig'[y] \notin Token
    BY <1>0, <1>1, ZenonT(30) DEF TypeOK
  <1>3. StackOK'
    BY <1>0, <1>1, <1>5, ZenonT(30) DEF StackOK
  <1>4. TokensOK'
    BY <1>1, <1>5, TokensKept
  <1> QED BY <1>2, <1>3, <1>4, Zenon DEF OwnRest

\* A task that asks to be rescheduled still runs.
LEMMA YieldOwn == ASSUME OwnInv, NEW c \in CPU, Yield(c) PROVE OwnRest'
  <1>0. TypeOK /\ QueuesOK /\ (\A y \in Task : Placed(y)) /\ CPU \subseteq Spots
    BY Basics, Zenon
  <1>a. PICK u : u = current[c]
    BY Zenon
  <1>1. /\ UNCHANGED <<current, runq, migq, dropper, slot, parked, life, pc, exec, tok, hold, sig>>
        /\ u \in Task /\ rstate' = [rstate EXCEPT ![u] = "resched"]
    BY <1>a, <1>0, Zenon DEF Yield, owners, cpus, tokens, TypeOK
  <1>b. \A k \in Kinds, x \in Spots, t \in Task : Holds(k, x, t)' <=> Holds(k, x, t)
    BY <1>1 DEF Holds
  <1>2. ASSUME NEW t \in Task PROVE Placed(t)'
    <2>1. CASE t = u
      <3>1. Holds("current", c, u) /\ "current" \in Kinds
        BY <1>a, Zenon DEF Holds, Kinds
      <3>2. \A k \in Kinds, x \in Spots : Holds(k, x, u) => k = "current"
        BY <1>0, <1>1, <3>1, Zenon DEF Placed
      <3>3. rstate'[u] = "resched" /\ life' = life /\ RunAt("current", "resched")
        BY <1>0, <1>1, ZenonT(30) DEF TypeOK, RunAt
      <3> QED BY <1>0, <1>b, <2>1, <3>2, <3>3 DEF Placed
    <2>2. CASE t # u
      <3>1. Stays(t)
        BY <1>0, <1>1, <1>b, <2>2, ZenonT(30) DEF Stays, TypeOK
      <3> QED BY <1>0, <3>1, StaysPlaced, ZenonT(30)
    <2> QED BY <2>1, <2>2, Zenon
  <1>3. StackOK'
    BY <1>1, StackKept, ZenonT(30)
  <1>4. TokensOK'
    BY <1>1, TokensKept, ZenonT(30)
  <1>5. QueuesOK'
    BY <1>0, <1>1, ZenonT(30) DEF QueuesOK
  <1> QED BY <1>2, <1>3, <1>4, <1>5, Zenon DEF OwnRest

\* The exited task goes from the closure of Ready::exit to the dropper.
LEMMA PushDropperOwn == ASSUME OwnInv, NEW c \in CPU, PushDropper(c) PROVE OwnRest'
  <1>0. /\ TypeOK /\ QueuesOK /\ (\A y \in Task : Placed(y)) /\ CPU \subseteq Spots /\ None \notin Task
    BY Basics, ZenonT(30)
  <1>a. PICK u : u = exec[c]
    BY Zenon
  <1>1. /\ UNCHANGED <<current, runq, migq, slot, parked, life, rstate, exec, tok, hold, sig>>
        /\ u \in Task /\ pc[c] = "exit" /\ pc' = [pc EXCEPT ![c] = "switch"]
        /\ dropper' = [dropper EXCEPT ![c] = Append(dropper[c], u)] /\ dropper[c] \in Seq(Task)
    BY <1>a, <1>0, ZenonT(30) DEF PushDropper, DropLater, queues, tokens, TypeOK
  <1>2. Holds("exit", c, u) /\ "exit" \in Kinds /\ "drop" \in Kinds /\ LifeAt("exit") = "exited"
    BY <1>a, <1>1, ZenonT(30) DEF Holds, Kinds, LifeAt
  <1>3. /\ \A k \in Kinds, x \in Spots : Holds(k, x, u) => k = "exit" /\ x = c
        /\ life[u] = "exited" /\ \A x \in CPU : u \notin Elems(dropper[x])
    <2>1. life[u] = "exited" /\ \A x \in CPU : u \notin Elems(dropper[x])
      BY <1>0, <1>1, <1>2, Alone, ZenonT(30)
    <2> QED BY <1>0, <1>1, <1>2, <2>1, ZenonT(30) DEF Placed
  <1>4. Elems(Append(dropper[c], u)) = Elems(dropper[c]) \cup {u} /\ NoDup(Append(dropper[c], u))
    BY <1>0, <1>1, <1>3, ElemsAppend, NoDupAppend DEF QueuesOK
  <1>5. \A x \in CPU : /\ dropper'[x] = IF x = c THEN Append(dropper[c], u) ELSE dropper[x]
                       /\ pc'[x] = IF x = c THEN "switch" ELSE pc[x]
    BY <1>0, <1>1, ZenonT(30) DEF TypeOK
  <1>6. Turns("drop", c, u, None)
    <2>1. \A x \in CPU : \A y : y \in Elems(dropper'[x]) <=> IF y = u THEN x = c ELSE y \in Elems(dropper[x])
      BY <1>3, <1>4, <1>5, ZenonT(30)
    <2> QED BY <1>0, <2>1, ZenonT(30) DEF Turns, Holds
  <1>7. Turns("exit", None, None, u)
    <2>1. \A x \in CPU : x # c => ~(pc[x] = "exit" /\ exec[x] = u)
      BY <1>0, <1>1, <1>2, Alone
    <2> QED BY <1>0, <1>1, <1>5, <1>a, <2>1 DEF Turns, Holds
  <1>8. Kept("current") /\ Kept("run") /\ Kept("mig") /\ Kept("slot") /\ Kept("timer")
    BY <1>1, Unmoved, Zenon
  <1>9. Moves(u, "drop", c)
    BY <1>0, <1>1, <1>3, <1>6, <1>7, <1>8, ZenonT(30) DEF Moves, Turns, Kept, Kinds, LifeAt, RunAt
  <1>10. ASSUME NEW t \in Task \ {u} PROVE Stays(t)
    BY <1>0, <1>1, <1>6, <1>7, <1>8, ZenonT(30) DEF Stays, Turns, Kept, Kinds
  <1>11. \A t \in Task : Placed(t)'
    BY <1>0, <1>2, <1>9, <1>10, MovesPlaced, StaysPlaced, ZenonT(30)
  <1>12. StackOK'
    BY <1>1, <1>5, StackKept, ZenonT(30)
  <1>13. TokensOK'
    BY <1>1, <1>5, TokensKept
  <1>14. QueuesOK'
    BY <1>0, <1>1, <1>4, <1>5, Zenon DEF QueuesOK
  <1> QED BY <1>11, <1>12, <1>13, <1>14, ZenonT(30) DEF OwnRest

\* The idle loop frees the head of its dropper, which is then nowhere.
LEMMA IdleLoopOwn == ASSUME OwnInv, NEW c \in CPU, IdleLoop(c) PROVE OwnRest'
  <1>0. /\ TypeOK /\ QueuesOK /\ (\A y \in Task : Placed(y)) /\ CPU \subseteq Spots /\ None \notin Task
    BY Basics, Zenon
  <1>a. PICK u : u = current[c]
    BY Zenon
  <1>b. PICK h : h = Head(dropper[c])
    BY Zenon
  <1>1. /\ UNCHANGED <<current, runq, migq, slot, parked, pc, exec, tok, hold, sig>>
        /\ u \in Task /\ rstate' = [rstate EXCEPT ![u] = "resched"] /\ dropper[c] \in Seq(Task)
    BY <1>a, <1>0, Zenon DEF IdleLoop, cpus, tokens, TypeOK
  <1>2. Holds("current", c, u) /\ "current" \in Kinds /\ "drop" \in Kinds
        /\ LifeAt("current") = "live" /\ LifeAt("drop") = "exited"
    BY <1>a, <1>1, Zenon DEF Holds, Kinds, LifeAt
  <1>3. (\A k \in Kinds, x \in Spots : Holds(k, x, u) => k = "current" /\ x = c) /\ life[u] = "live"
    BY <1>0, <1>1, <1>2, Zenon DEF Placed
  <1>4. \A t \in Task : rstate'[t] = IF t = u THEN "resched" ELSE rstate[t]
    BY <1>0, <1>1, ZenonT(30) DEF TypeOK
  <1>5. Kept("current") /\ Kept("run") /\ Kept("mig") /\ Kept("exit") /\ Kept("slot") /\ Kept("timer")
    BY <1>1, Unmoved, ZenonT(30)
  <1>6. StackOK' /\ TokensOK'
    BY <1>1, StackKept, TokensKept, ZenonT(30)
  <1>7. CASE dropper[c] = <<>>
    <2>1. dropper' = dropper /\ life' = life
      BY <1>0, <1>7, ZenonT(30) DEF IdleLoop, TypeOK
    <2>2. Kept("drop")
      BY <2>1, Unmoved, ZenonT(30)
    <2>3. Moves(u, "current", c)
      BY <1>0, <1>1, <1>2, <1>3, <1>4, <1>5, <2>1, <2>2 DEF Moves, Turns, Kept, Kinds, RunAt
    <2>4. ASSUME NEW t \in Task \ {u} PROVE Stays(t)
      BY <1>0, <1>4, <1>5, <2>1, <2>2, ZenonT(30) DEF Stays, Turns, Kept, Kinds
    <2>5. \A t \in Task : Placed(t)'
      BY <1>0, <1>1, <1>2, <2>3, <2>4, MovesPlaced, StaysPlaced, Zenon
    <2>6. QueuesOK'
      BY <1>0, <1>1, <2>1, Zenon DEF QueuesOK
    <2> QED BY <1>6, <2>5, <2>6, ZenonT(30) DEF OwnRest
  <1>8. CASE dropper[c] # <<>>
    <2>1. dropper' = [dropper EXCEPT ![c] = Tail(dropper[c])] /\ life' = [life EXCEPT ![h] = "freed"]
      BY <1>8, <1>b, ZenonT(30) DEF IdleLoop
    <2>2. /\ h \in Task /\ Elems(dropper[c]) = Elems(Tail(dropper[c])) \cup {h}
          /\ NoDup(Tail(dropper[c])) /\ h \notin Elems(Tail(dropper[c]))
      BY <1>0, <1>1, <1>8, <1>b, ElemsPop, NoDupPop, ZenonT(30) DEF QueuesOK
    <2>3. Holds("drop", c, h)
      BY <2>2, ZenonT(30) DEF Holds
    <2>4. (\A k \in Kinds, x \in Spots : Holds(k, x, h) => k = "drop" /\ x = c) /\ life[h] = "exited"
      BY <1>0, <1>2, <2>2, <2>3, ZenonT(30) DEF Placed
    <2>5. h # u
      BY <1>3, <2>4, ZenonT(30)
    <2>6. \A x \in CPU : dropper'[x] = IF x = c THEN Tail(dropper[c]) ELSE dropper[x]
      BY <1>0, <2>1, ZenonT(30) DEF TypeOK
    <2>7. Turns("drop", None, None, h)
      <3>1. \A x \in CPU : h \in Elems(dropper[x]) => x = c
        BY <1>0, <1>2, <2>2, <2>3, Alone
      <3>2. \A x \in CPU : \A y : y \in Elems(dropper'[x]) <=> y \in Elems(dropper[x]) /\ y # h
        BY <2>2, <2>6, <3>1, Zenon
      <3> QED BY <1>0, <3>2, ZenonT(30) DEF Turns, Holds
    <2>8. \A t \in Task : life'[t] = IF t = h THEN "freed" ELSE life[t]
      BY <1>0, <2>1, Zenon DEF TypeOK
    <2>9. Placed(h)'
      <3>1. ASSUME NEW k \in Kinds, NEW x \in Spots PROVE ~Holds(k, x, h)'
        BY <1>0, <1>5, <2>2, <2>4, <2>7, ZenonT(30) DEF Turns, Kept, Kinds
      <3> QED BY <2>2, <2>8, <3>1, ZenonT(30) DEF Placed
    <2>10. Moves(u, "current", c)
      BY <1>0, <1>1, <1>2, <1>3, <1>4, <1>5, <2>5, <2>7, <2>8 DEF Moves, Turns, Kept, Kinds, RunAt
    <2>11. ASSUME NEW t \in Task \ {u, h} PROVE Stays(t)
      BY <1>0, <1>4, <1>5, <2>7, <2>8 DEF Stays, Turns, Kept, Kinds
    <2>12. \A t \in Task : Placed(t)'
      BY <1>0, <1>1, <1>2, <2>9, <2>10, <2>11, MovesPlaced, StaysPlaced, Zenon
    <2>13. QueuesOK'
      BY <1>0, <1>1, <2>2, <2>6, Zenon DEF QueuesOK
    <2> QED BY <1>6, <2>12, <2>13, Zenon DEF OwnRest
  <1> QED BY <1>7, <1>8, Zenon

\* block_current: the task goes to its timer.
LEMMA BlockCurrentOwn == ASSUME OwnInv, NEW c \in CPU, BlockCurrent(c) PROVE OwnRest'
  <1>0. /\ TypeOK /\ HomeInv /\ QueuesOK /\ CPU \subseteq Spots /\ None \in Spots /\ None \notin Task
        /\ \A y \in Task : Placed(y)
    BY Basics, ZenonT(30)
  <1>a. PICK u : u = current[c]
    BY Zenon
  <1>b. PICK n : n = Head(runq[c])
    BY Zenon
  <1>1. /\ Deschedule(c, "switch") /\ "switch" \in PcSet /\ current[c] \in User
        /\ UNCHANGED <<migq, life, dropper, sig, tok, slot, exec, hold>> /\ pc[c] = "task"
    BY ZenonT(30) DEF BlockCurrent, Free, PcSet, tokens
  <1>2. /\ pc' = [pc EXCEPT ![c] = "switch"] /\ runq[c] # <<>>
        /\ current' = [current EXCEPT ![c] = Head(runq[c])]
    BY <1>0, <1>1, DescheduleOK, ZenonT(30)
  <1>3. parked' = parked \cup {u}
    BY <1>2, <1>a, ZenonT(30) DEF BlockCurrent
  <1>4. /\ u \in Task /\ n \in Task /\ n # u /\ Holds("current", c, u) /\ Holds("run", c, n)
        /\ Turns("current", c, n, u) /\ Turns("run", None, None, n)
        /\ \A t \in Task : rstate'[t] = IF t = n THEN "running" ELSE IF t = u THEN "not" ELSE rstate[t]
        /\ \A x \in CPU : NoDup(runq'[x])
    BY <1>1, <1>a, <1>b, DescheduleMoves
  <1>5. life[u] = "live" /\ "current" \in Kinds
    <2>1. "current" \in Kinds /\ LifeAt("current") = "live"
      BY Zenon DEF Kinds, LifeAt
    <2> QED BY <1>0, <1>4, <2>1, Zenon DEF Placed
  <1>6. Kept("mig") /\ Kept("drop") /\ Kept("slot") /\ Kept("exit")
    BY <1>0, <1>1, <1>2, Unmoved, ExitKept, Zenon
  <1>7. Turns("timer", None, u, None)
    BY <1>0, <1>3, ZenonT(30) DEF Turns, Holds
  <1>8. \A t \in Task : Placed(t)'
    <2>1. "timer" \in {"exit", "slot", "timer"} /\ LifeAt("timer") = "live"
          /\ \A l \in {"exit", "slot", "timer"} \ {"timer"} : Kept(l)
      BY <1>6, Zenon DEF LifeAt
    <2> QED BY <1>0, <1>1, <1>4, <1>5, <1>6, <1>7, <2>1, LeavesPlaced
  <1>9. \A d \in CPU : /\ pc'[d] = IF d = c THEN "switch" ELSE pc[d]
                       /\ d # c => current'[d] = current[d]
    BY <1>0, <1>2, Zenon DEF TypeOK
  <1>10. StackOK' /\ TokensOK'
    <2>1. StackOK'
      BY <1>1, <1>9, StackKept, Zenon
    <2> QED BY <1>1, <1>9, <2>1, TokensKept, Zenon
  <1>11. QueuesOK'
    BY <1>0, <1>1, <1>4, Zenon DEF QueuesOK
  <1> QED BY <1>8, <1>10, <1>11, ZenonT(30) DEF OwnRest

\* exit_current and kill: the task goes to the closure of Ready::exit.
LEMMA ExitOwn ==
    ASSUME OwnInv, NEW c \in CPU, pc[c] = "task", current[c] \in User, Deschedule(c, "exit"),
           life' = [life EXCEPT ![current[c]] = IF runq[c] = <<>> THEN @ ELSE "exited"],
           \A t \in User : sig'[t] = sig[t] \/ sig'[t] \notin Token,
           UNCHANGED <<migq, parked, dropper, tok, slot, exec, hold>>
    PROVE  OwnRest'
  <1>0. /\ TypeOK /\ HomeInv /\ QueuesOK /\ CPU \subseteq Spots /\ None \in Spots /\ None \notin Task
        /\ StackOK /\ \A y \in Task : Placed(y)
    BY Basics, ZenonT(30)
  <1>a. PICK u : u = current[c]
    BY Zenon
  <1>b. PICK n : n = Head(runq[c])
    BY Zenon
  <1>1. "exit" \in PcSet /\ exec[c] = u
    BY <1>0, <1>a, ZenonT(30) DEF PcSet, StackOK
  <1>2. /\ pc' = [pc EXCEPT ![c] = "exit"] /\ runq[c] # <<>>
        /\ current' = [current EXCEPT ![c] = Head(runq[c])]
    BY <1>0, <1>1, DescheduleOK, ZenonT(30)
  <1>3. life' = [life EXCEPT ![u] = "exited"]
    BY <1>2, <1>a, ZenonT(30)
  <1>4. /\ u \in Task /\ n \in Task /\ n # u /\ Holds("current", c, u) /\ Holds("run", c, n)
        /\ Turns("current", c, n, u) /\ Turns("run", None, None, n)
        /\ \A t \in Task : rstate'[t] = IF t = n THEN "running" ELSE IF t = u THEN "not" ELSE rstate[t]
        /\ \A x \in CPU : NoDup(runq'[x])
    BY <1>1, <1>a, <1>b, DescheduleMoves
  <1>6. Kept("mig") /\ Kept("drop") /\ Kept("slot") /\ Kept("timer")
    BY Unmoved, Zenon
  <1>9. \A d \in CPU : /\ pc'[d] = IF d = c THEN "exit" ELSE pc[d]
                       /\ d # c => current'[d] = current[d]
    BY <1>0, <1>2, Zenon DEF TypeOK
  <1>7. Turns("exit", c, u, None)
    <2>1. "current" \in Kinds
      BY Zenon DEF Kinds
    <2>2. \A x \in CPU : ~(pc[x] = "exit" /\ exec[x] = u)
      BY <1>0, <1>4, <2>1, Alone
    <2> QED BY <1>0, <1>1, <1>9, <2>2, ZenonT(30) DEF Turns, Holds
  <1>8. \A t \in Task : Placed(t)'
    <2>1. "exit" \in {"exit", "slot", "timer"} /\ LifeAt("exit") = "exited"
          /\ \A l \in {"exit", "slot", "timer"} \ {"exit"} : Kept(l)
      BY <1>6, Zenon DEF LifeAt
    <2>2. \A t \in Task : life'[t] = IF t = u THEN "exited" ELSE life[t]
      BY <1>0, <1>3, <1>4, ZenonT(30) DEF TypeOK
    <2> QED BY <1>0, <1>4, <1>6, <1>7, <2>1, <2>2, LeavesPlaced
  <1>10. StackOK'
    BY <1>9, StackKept, Zenon
  <1>12. TokensOK'
    BY <1>9, TokensKept, Zenon
  <1>11. QueuesOK'
    BY <1>0, <1>1, <1>4, Zenon DEF QueuesOK
  <1> QED BY <1>8, <1>10, <1>11, <1>12, ZenonT(30) DEF OwnRest

\* exit_current gives the task to the dropper and nobody else.
LEMMA ExitCurrentOwn ==
    ASSUME OwnInv, NEW c \in CPU, NEW killAll \in BOOLEAN, ExitCurrent(c, killAll) PROVE OwnRest'
  BY ExitOwn, ZenonT(30) DEF ExitCurrent, Free, tokens

\* A tick that finds a pending kill makes the current task exit the same way.
LEMMA TickKillOwn == ASSUME OwnInv, NEW c \in CPU, TickKill(c) PROVE OwnRest'
  <1>1. /\ pc[c] = "task" /\ current[c] \in User /\ Deschedule(c, "exit")
        /\ life' = [life EXCEPT ![current[c]] = IF runq[c] = <<>> THEN @ ELSE "exited"]
        /\ UNCHANGED <<migq, parked, dropper, tok, slot, exec, hold>>
    BY ZenonT(30) DEF TickKill, Free
  <1>2. \A t \in User : sig'[t] = sig[t] \/ sig'[t] \notin Token
    BY Basics, ZenonT(30) DEF TickKill, TypeOK
  <1> QED BY <1>1, <1>2, ExitOwn, ZenonT(30)

\* The second half of a suspension: the task goes to the slot of the one token
\* that its signal carried.
LEMMA FillSlotOwn == ASSUME OwnInv, NEW c \in CPU, FillSlot(c) PROVE OwnRest'
  <1>0. /\ TypeOK /\ HomeInv /\ WorkOK /\ QueuesOK /\ CPU \subseteq Spots /\ Token \subseteq Spots
        /\ None \notin Task /\ None \notin Token /\ TokensOK /\ \A y \in Task : Placed(y)
    BY Basics, ZenonT(30)
  <1>a. PICK u : u = current[c]
    BY Zenon
  <1>b. PICK n : n = Head(runq[c])
    BY Zenon
  <1>c. PICK m : m = hold[c]
    BY Zenon
  <1>1. /\ Deschedule(c, "switch") /\ "switch" \in PcSet /\ current[c] \in User /\ m \in Token
        /\ UNCHANGED <<migq, life, dropper, parked, sig, tok, exec>> /\ pc[c] = "suspend"
        /\ hold' = [hold EXCEPT ![c] = None]
    BY <1>0, <1>c, ZenonT(30) DEF FillSlot, PcSet, owners, WorkOK
  <1>2. /\ pc' = [pc EXCEPT ![c] = "switch"] /\ runq[c] # <<>>
        /\ current' = [current EXCEPT ![c] = Head(runq[c])]
    BY <1>0, <1>1, DescheduleOK, ZenonT(30)
  <1>3. slot' = [slot EXCEPT ![m] = u]
    BY <1>2, <1>a, <1>c, ZenonT(30) DEF FillSlot
  <1>4. /\ u \in Task /\ n \in Task /\ n # u /\ Holds("current", c, u) /\ Holds("run", c, n)
        /\ Turns("current", c, n, u) /\ Turns("run", None, None, n)
        /\ \A t \in Task : rstate'[t] = IF t = n THEN "running" ELSE IF t = u THEN "not" ELSE rstate[t]
        /\ \A x \in CPU : NoDup(runq'[x])
    BY <1>1, <1>a, <1>b, DescheduleMoves
  <1>5. /\ "current" \in Kinds /\ life[u] = "live"
        /\ \A k \in Token : slot[k] # u
    <2>1. "current" \in Kinds /\ LifeAt("current") = "live"
      BY Zenon DEF Kinds, LifeAt
    <2> QED BY <1>0, <1>4, <2>1, Alone
  <1>6. Kept("mig") /\ Kept("drop") /\ Kept("timer") /\ Kept("exit")
    BY <1>0, <1>1, <1>2, Unmoved, ExitKept, ZenonT(30)
  <1>7. /\ \A k \in Token : slot'[k] = IF k = m THEN u ELSE slot[k]
        /\ \A d \in CPU : /\ pc'[d] = IF d = c THEN "switch" ELSE pc[d]
                          /\ hold'[d] = IF d = c THEN None ELSE hold[d]
                          /\ d # c => current'[d] = current[d]
    BY <1>0, <1>1, <1>2, <1>3, ZenonT(30) DEF TypeOK
  <1>d. Pending(c, m)
    BY <1>1, <1>c, ZenonT(30) DEF Pending
  <1>e. /\ tok[m] # "none" /\ slot[m] = None
        /\ \A d \in CPU : Pending(d, m) => c = d
        /\ \A t \in User : sig[t] # m
    BY <1>0, <1>1, <1>d, ZenonT(30) DEF TokensOK
  <1>f. Turns("slot", m, u, None)
    BY <1>0, <1>1, <1>5, <1>7, <1>e, ZenonT(30) DEF Turns, Holds
  <1>8. \A t \in Task : Placed(t)'
    <2>1. "slot" \in {"exit", "slot", "timer"} /\ LifeAt("slot") = "live" /\ m \in Spots
          /\ \A l \in {"exit", "slot", "timer"} \ {"slot"} : Kept(l)
      BY <1>0, <1>1, <1>6, Zenon DEF LifeAt
    <2> QED BY <1>0, <1>1, <1>4, <1>5, <1>6, <1>f, <2>1, LeavesPlaced
  <1>9. StackOK'
    BY <1>1, <1>7, StackKept, ZenonT(30)
  <1>10. TokensOK'
    <2>1. \A x \in CPU, k \in Token : Pending(x, k)' <=> x # c /\ Pending(x, k)
      BY <1>7, ZenonT(30) DEF Pending
    <2>3. ASSUME NEW k \in Token
          PROVE  /\ \A y \in User : sig'[y] = k =>
                      /\ tok'[k] # "none" /\ slot'[k] = None
                      /\ \A z \in User : sig'[z] = k => y = z
                      /\ \A x \in CPU : ~Pending(x, k)'
                 /\ \A x \in CPU : Pending(x, k)' =>
                      /\ tok'[k] # "none" /\ slot'[k] = None
                      /\ \A d \in CPU : Pending(d, k)' => x = d
                 /\ tok'[k] = "none" => slot'[k] = None
      <3>1. CASE k = m
        BY <1>0, <1>1, <1>7, <1>e, <2>1, <3>1, ZenonT(30)
      <3>2. CASE k # m
        BY <1>0, <1>1, <1>7, <2>1, <3>2 DEF TokensOK
      <3> QED BY <3>1, <3>2, Zenon
    <2> QED BY <2>3, Zenon DEF TokensOK
  <1>11. QueuesOK'
    BY <1>0, <1>1, <1>4, Zenon DEF QueuesOK
  <1> QED BY <1>8, <1>9, <1>10, <1>11, Zenon DEF OwnRest

\* A reschedule, in a tick or after a suspension.
LEMMA RescheduleOwn ==
    ASSUME OwnInv, NEW c \in CPU, Reschedule(c), pc[c] = "task",
           UNCHANGED <<life, dropper, exec, slot, parked, sig, tok, hold>>
    PROVE  OwnRest'
  <1>0. TypeOK /\ HomeInv /\ QueuesOK
    BY Basics, Zenon
  <1>1. (\A t \in Task : Placed(t)') /\ (\A x \in CPU : NoDup(runq'[x]))
    BY ReschedulePlaced, Zenon
  <1>2. /\ UNCHANGED migq /\ pc' = [pc EXCEPT ![c] = "switch"]
        /\ \A d \in CPU \ {c} : current'[d] = current[d]
    BY <1>0, RescheduleOK, Zenon
  <1>3. \A d \in CPU : pc'[d] = IF d = c THEN "switch" ELSE pc[d]
    BY <1>0, <1>2, Zenon DEF TypeOK
  <1>4. StackOK'
    BY <1>2, <1>3, StackKept, ZenonT(30)
  <1>5. TokensOK'
    BY <1>3, TokensKept, ZenonT(30)
  <1>6. QueuesOK'
    BY <1>0, <1>1, <1>2, ZenonT(30) DEF QueuesOK
  <1> QED BY <1>1, <1>4, <1>5, <1>6, Zenon DEF OwnRest

\* A tick that reschedules keeps one owner per task.
LEMMA TickOwn == ASSUME OwnInv, NEW c \in CPU, Tick(c) PROVE OwnRest'
  BY RescheduleOwn, ZenonT(30) DEF Tick, Free, owners, tokens

\* So does the rest of a tick that resumed after a suspension.
LEMMA TickTailOwn == ASSUME OwnInv, NEW c \in CPU, TickTail(c) PROVE OwnRest'
  <1>1. CASE Reschedule(c)
    BY <1>1, RescheduleOwn, ZenonT(30) DEF TickTail, owners, tokens
  <1>2. CASE UNCHANGED <<queues, pc>>
    <2>1. UNCHANGED <<current, runq, migq, dropper, slot, parked, life, rstate, pc, exec, sig, tok, hold>>
      BY <1>2, ZenonT(30) DEF TickTail, queues, owners, tokens
    <2>2. (\A t \in Task : Placed(t)') /\ QueuesOK'
      BY <2>1, Unmoved, QuietPlaced, Zenon
    <2>3. StackOK'
      BY <2>1, StackKept, Zenon
    <2>4. TokensOK'
      BY <2>1, TokensKept, Zenon
    <2> QED BY <2>2, <2>3, <2>4, Zenon DEF OwnRest
  <1> QED BY <1>1, <1>2, ZenonT(30) DEF TickTail

-----------------------------------------------------------------------------
\* A place that the task t is not in keeps it out.
LEMMA KeptOut ==
    ASSUME NEW k, NEW t \in Task, Kept(k), \A x \in Spots : ~Holds(k, x, t)
    PROVE  Turns(k, None, None, t)
  BY ConstAssumption, ZenonT(30) DEF Kept, Turns

\* unblock, of a task that was taken out of a timer or a slot or that is new.
LEMMA UnblockOwn ==
    ASSUME OwnInv, NEW c \in CPU, NEW t \in User, NEW b \in BOOLEAN, Unblock(c, t, b),
           b => pc[c] # "exit",
           \A x \in CPU : /\ current[x] # t /\ t \notin Elems(runq[x]) /\ t \notin Elems(migq[x])
                          /\ t \notin Elems(dropper[x]) /\ ~(pc[x] = "exit" /\ exec[x] = t),
           Turns("slot", None, None, t), Turns("timer", None, None, t),
           life'[t] = "live", \A y \in Task \ {t} : life'[y] = life[y],
           UNCHANGED <<dropper, exec>>
    PROVE  /\ \A y \in Task : Placed(y)'
           /\ QueuesOK' /\ StackOK'
           /\ \A x \in CPU : pc'[x] = "suspend" => pc[x] = "suspend"
  <1>0. TypeOK /\ HomeInv /\ QueuesOK /\ t \in Task
    BY Basics, ZenonT(30)
  <1>a. PICK u : u = current[c]
    BY Zenon
  <1>1. (\A x \in CPU : NoDup(runq'[x]) /\ NoDup(migq'[x])) /\ Woken(c, t, u)
    BY <1>a, UnblockMoves, ZenonT(30)
  <1>2. \/ UNCHANGED <<pc, current>>
        \/ b /\ pc' = [pc EXCEPT ![c] = "switch"] /\ \A d \in CPU \ {c} : current'[d] = current[d]
    BY <1>0, UnblockOK, ZenonT(30)
  <1>3. Kept("exit") /\ Kept("drop")
    <2>1. Kept("drop")
      BY Unmoved, ZenonT(30)
    <2>2. CASE UNCHANGED <<pc, current>>
      BY <2>1, <2>2, Unmoved, ZenonT(30)
    <2>3. CASE b /\ pc' = [pc EXCEPT ![c] = "switch"]
      BY <1>0, <2>1, <2>3, ExitKept, ZenonT(30)
    <2> QED BY <1>2, <2>2, <2>3, Zenon
  <1>4. Turns("exit", None, None, t) /\ Turns("drop", None, None, t)
    <2>1. \A x \in Spots : ~Holds("exit", x, t) /\ ~Holds("drop", x, t)
      BY Zenon DEF Holds
    <2> QED BY <1>0, <1>3, <2>1, KeptOut, ZenonT(30)
  <1>5. \A k \in {"drop", "exit", "slot", "timer"} : Turns(k, None, None, t)
    BY <1>4, ZenonT(30)
  <1>6. \A y \in Task : Placed(y)'
    BY <1>0, <1>1, <1>5, <1>a, WokenPlaced, ZenonT(30)
  <1>7. QueuesOK'
    BY <1>0, <1>1, ZenonT(30) DEF QueuesOK
  <1>8. /\ UNCHANGED <<pc, current>> \/ pc'[c] = "switch"
        /\ UNCHANGED <<pc, current>> \/ \A d \in CPU \ {c} : pc'[d] = pc[d] /\ current'[d] = current[d]
    BY <1>0, <1>2, ZenonT(30) DEF TypeOK
  <1>9. StackOK'
    BY <1>8, StackKept, Zenon
  <1>10. \A x \in CPU : pc'[x] = "suspend" => pc[x] = "suspend"
    BY <1>8, ZenonT(30)
  <1> QED BY <1>6, <1>7, <1>9, <1>10, ZenonT(30)

\* task_exec: a new task is nowhere before it is unblocked.
LEMMA TaskExecOwn == ASSUME OwnInv, NEW c \in CPU, NEW t \in User, TaskExec(c, t) PROVE OwnRest'
  <1>0. TypeOK /\ t \in Task /\ Placed(t)
    BY Basics, ZenonT(30)
  <1>1. /\ pc[c] = "task" /\ life[t] = "new" /\ life' = [life EXCEPT ![t] = "live"]
        /\ Unblock(c, t, TRUE) /\ UNCHANGED <<parked, dropper, sig, tok, slot, exec, hold>>
    BY ZenonT(30) DEF TaskExec, Free, tokens
  <1>2. /\ \A x \in CPU : /\ current[x] # t /\ t \notin Elems(runq[x]) /\ t \notin Elems(migq[x])
                          /\ t \notin Elems(dropper[x]) /\ ~(pc[x] = "exit" /\ exec[x] = t)
        /\ \A j \in Token : slot[j] # t
        /\ t \notin parked
    BY <1>0, <1>1, Nowhere, ZenonT(30)
  <1>3. Turns("slot", None, None, t) /\ Turns("timer", None, None, t)
    <2>1. \A x \in Spots : ~Holds("slot", x, t) /\ ~Holds("timer", x, t)
      BY <1>2, ZenonT(30) DEF Holds
    <2> QED BY <1>0, <1>1, <2>1, Unmoved, KeptOut, ZenonT(30)
  <1>4. life'[t] = "live" /\ \A y \in Task \ {t} : life'[y] = life[y]
    BY <1>0, <1>1, ZenonT(30) DEF TypeOK
  <1>5. /\ \A y \in Task : Placed(y)'
        /\ QueuesOK' /\ StackOK'
        /\ \A x \in CPU : pc'[x] = "suspend" => pc[x] = "suspend"
    BY <1>1, <1>2, <1>3, <1>4, UnblockOwn, ZenonT(30)
  <1>6. TokensOK'
    BY <1>1, <1>5, TokensKept, ZenonT(30)
  <1> QED BY <1>5, <1>6, ZenonT(30) DEF OwnRest

\* A timer's task is unblocked by whoever takes the callback.
LEMMA WakeOwn ==
    ASSUME OwnInv, NEW c \in CPU, NEW t \in User, NEW b \in BOOLEAN, Wake(c, t, b)
    PROVE  OwnRest'
  <1>0. TypeOK /\ t \in Task /\ Placed(t) /\ None \notin Task /\ None \in Spots
    BY Basics, ZenonT(30)
  <1>1. /\ b => pc[c] # "exit"
        /\ t \in parked /\ parked' = parked \ {t}
        /\ Unblock(c, t, b) /\ UNCHANGED <<life, dropper, sig, tok, slot, exec, hold>>
    BY ZenonT(30) DEF Wake, Free, Unpark, tokens
  <1>2. /\ \A x \in CPU : /\ current[x] # t /\ t \notin Elems(runq[x]) /\ t \notin Elems(migq[x])
                          /\ t \notin Elems(dropper[x]) /\ ~(pc[x] = "exit" /\ exec[x] = t)
        /\ \A j \in Token : slot[j] # t
        /\ life[t] = "live"
    <2>1. Holds("timer", None, t) /\ "timer" \in Kinds /\ LifeAt("timer") = "live"
      BY <1>1, Zenon DEF Holds, Kinds, LifeAt
    <2> QED BY <1>0, <2>1, Alone
  <1>3. Turns("slot", None, None, t) /\ Turns("timer", None, None, t)
    <2>1. \A x \in Spots : ~Holds("slot", x, t)
      BY <1>2, Zenon DEF Holds
    <2>2. Turns("timer", None, None, t)
      BY <1>0, <1>1, ZenonT(30) DEF Turns, Holds
    <2> QED BY <1>0, <1>1, <2>1, <2>2, Unmoved, KeptOut, Zenon
  <1>5. /\ \A y \in Task : Placed(y)'
        /\ QueuesOK' /\ StackOK'
        /\ \A x \in CPU : pc'[x] = "suspend" => pc[x] = "suspend"
    BY <1>1, <1>2, <1>3, UnblockOwn, ZenonT(30)
  <1>6. TokensOK'
    BY <1>1, <1>5, TokensKept, ZenonT(30)
  <1> QED BY <1>5, <1>6, ZenonT(30) DEF OwnRest

\* The drop of a token unblocks the task of its slot.
LEMMA DropTokenOwn == ASSUME OwnInv, NEW c \in CPU, NEW m \in Token, DropToken(c, m) PROVE OwnRest'
  <1>0. TypeOK /\ None \notin Task /\ Token \subseteq Spots /\ StackOK /\ \A y \in Task : Placed(y)
    BY Basics, ZenonT(30)
  <1>1. /\ pc[c] = "task" /\ tok[m] = "held" /\ tok' = [tok EXCEPT ![m] = "dropped"]
        /\ UNCHANGED <<life, parked, dropper, sig, exec>>
    BY ZenonT(30) DEF DropToken, Free, owners
  <1>2. \A k \in Token : tok[k] # "none" => tok'[k] # "none"
    BY <1>0, <1>1, ZenonT(30) DEF TypeOK
  <1>3. CASE slot[m] # None
    <2>a. PICK t : t = slot[m]
      BY ZenonT(30)
    <2>0. t \in User /\ t \in Task
      BY <1>0, <1>3, <2>a, ZenonT(30) DEF TypeOK, Task
    <2>1. Unblock(c, t, TRUE) /\ slot' = [slot EXCEPT ![m] = None] /\ UNCHANGED hold
      BY <1>3, <2>a, ZenonT(30) DEF DropToken
    <2>2. /\ \A x \in CPU : /\ current[x] # t /\ t \notin Elems(runq[x]) /\ t \notin Elems(migq[x])
                            /\ t \notin Elems(dropper[x]) /\ ~(pc[x] = "exit" /\ exec[x] = t)
          /\ \A j \in Token : slot[j] = t => j = m
          /\ t \notin parked /\ life[t] = "live"
      <3>1. Holds("slot", m, t) /\ "slot" \in Kinds /\ LifeAt("slot") = "live"
        BY <2>a, Zenon DEF Holds, Kinds, LifeAt
      <3> QED BY <1>0, <2>0, <3>1, Alone
    <2>3. \A k \in Token : slot'[k] = IF k = m THEN None ELSE slot[k]
      BY <1>0, <2>1, Zenon DEF TypeOK
    <2>4. Turns("slot", None, None, t) /\ Turns("timer", None, None, t)
      <3>1. \A x \in Spots : ~Holds("timer", x, t)
        BY <2>2, Zenon DEF Holds
      <3>2. Turns("slot", None, None, t)
        BY <1>0, <2>0, <2>2, <2>3, <2>a, ZenonT(30) DEF Turns, Holds
      <3> QED BY <1>1, <2>0, <3>1, <3>2, Unmoved, KeptOut, Zenon
    <2>5. /\ \A y \in Task : Placed(y)'
          /\ QueuesOK' /\ StackOK'
          /\ \A x \in CPU : pc'[x] = "suspend" => pc[x] = "suspend"
      BY <1>1, <2>0, <2>1, <2>2, <2>4, UnblockOwn, Zenon
    <2>6. TokensOK'
      BY <1>1, <1>2, <2>1, <2>3, <2>5, TokensKept, ZenonT(30)
    <2> QED BY <2>5, <2>6, Zenon DEF OwnRest
  <1>4. CASE slot[m] = None
    <2>1. /\ pc' = [pc EXCEPT ![c] = "dropsig"] /\ hold' = [hold EXCEPT ![c] = m]
          /\ UNCHANGED <<current, runq, migq, rstate, slot>>
      BY <1>4, ZenonT(30) DEF DropToken, queues
    <2>2. (\A y \in Task : Placed(y)') /\ QueuesOK'
      BY <1>0, <1>1, <2>1, ExitKept, QuietPlaced, ZenonT(30)
    <2>3. \A x \in CPU : /\ pc'[x] = IF x = c THEN "dropsig" ELSE pc[x]
                         /\ hold'[x] = IF x = c THEN m ELSE hold[x]
      BY <1>0, <2>1, ZenonT(30) DEF TypeOK
    <2>4. StackOK'
      BY <1>0, <1>1, <2>1, <2>3, ZenonT(30) DEF StackOK
    <2>5. TokensOK'
      BY <1>1, <1>2, <2>1, <2>3, TokensKept
    <2> QED BY <2>2, <2>4, <2>5, Zenon DEF OwnRest
  <1> QED BY <1>3, <1>4, ZenonT(30)

\* task_new: the new task is put in the slot of a new token.
LEMMA TaskNewOwn ==
    ASSUME OwnInv, NEW c \in CPU, NEW t \in User, NEW m \in Token, TaskNew(c, t, m)
    PROVE  OwnRest'
  <1>0. /\ TypeOK /\ None \notin Task /\ Token \subseteq Spots /\ t \in Task /\ QueuesOK /\ TokensOK
        /\ \A y \in Task : Placed(y)
    BY Basics, Zenon
  <1>1. /\ life[t] = "new" /\ life' = [life EXCEPT ![t] = "live"] /\ slot' = [slot EXCEPT ![m] = t]
        /\ tok[m] = "none" /\ tok' = [tok EXCEPT ![m] = "held"]
        /\ UNCHANGED <<current, runq, migq, rstate, parked, dropper, sig, pc, exec, hold>>
    BY Zenon DEF TaskNew, cpus
  <1>2. /\ \A x \in CPU : /\ current[x] # t /\ t \notin Elems(runq[x]) /\ t \notin Elems(migq[x])
                          /\ t \notin Elems(dropper[x]) /\ ~(pc[x] = "exit" /\ exec[x] = t)
        /\ \A j \in Token : slot[j] # t
        /\ t \notin parked
    BY <1>0, <1>1, Nowhere, Zenon
  <1>3. /\ \A y \in User : sig[y] # m
        /\ \A x \in CPU : ~Pending(x, m)
        /\ slot[m] = None
    BY <1>0, <1>1, Zenon DEF TokensOK
  <1>4. /\ \A k \in Token : /\ slot'[k] = IF k = m THEN t ELSE slot[k]
                            /\ tok'[k] = IF k = m THEN "held" ELSE tok[k]
        /\ \A y \in Task : life'[y] = IF y = t THEN "live" ELSE life[y]
    BY <1>0, <1>1, ZenonT(30) DEF TypeOK
  <1>5. Turns("slot", m, t, None)
    BY <1>0, <1>2, <1>3, <1>4, ZenonT(30) DEF Turns, Holds
  <1>6. Kept("current") /\ Kept("run") /\ Kept("mig") /\ Kept("drop") /\ Kept("exit") /\ Kept("timer")
    BY <1>1, Unmoved, Zenon
  <1>7. Moves(t, "slot", m)
    <2>1. \A k \in Kinds, x \in Spots : ~Holds(k, x, t)
      BY <1>2, ZenonT(30) DEF Holds
    <2> QED BY <1>0, <1>4, <1>5, <1>6, <2>1 DEF Moves, Turns, Kept, Kinds, LifeAt, RunAt
  <1>8. ASSUME NEW y \in Task \ {t} PROVE Stays(y)
    BY <1>0, <1>1, <1>4, <1>5, <1>6 DEF Stays, Turns, Kept, Kinds
  <1>9. \A y \in Task : Placed(y)'
    <2>1. "slot" \in Kinds
      BY Zenon DEF Kinds
    <2> QED BY <1>0, <1>7, <1>8, <2>1, MovesPlaced, StaysPlaced, Zenon
  <1>10. StackOK' /\ QueuesOK'
    BY <1>0, <1>1, StackKept, Zenon DEF QueuesOK
  <1>11. TokensOK'
    <2>1. \A x \in CPU, k \in Token : Pending(x, k)' <=> Pending(x, k)
      BY <1>1, Zenon DEF Pending
    <2>3. ASSUME NEW k \in Token
          PROVE  /\ \A y \in User : sig'[y] = k =>
                      /\ tok'[k] # "none" /\ slot'[k] = None
                      /\ \A z \in User : sig'[z] = k => y = z
                      /\ \A x \in CPU : ~Pending(x, k)'
                 /\ \A x \in CPU : Pending(x, k)' =>
                      /\ tok'[k] # "none" /\ slot'[k] = None
                      /\ \A d \in CPU : Pending(d, k)' => x = d
                 /\ tok'[k] = "none" => slot'[k] = None
      <3>1. CASE k = m
        BY <1>0, <1>1, <1>3, <1>4, <2>1, <3>1
      <3>2. CASE k # m
        BY <1>0, <1>1, <1>4, <2>1, <3>2 DEF TokensOK
      <3> QED BY <3>1, <3>2, Zenon
    <2> QED BY <2>3, Zenon DEF TokensOK
  <1> QED BY <1>9, <1>10, <1>11, Zenon DEF OwnRest

\* task_migrate_handler: the head of the migration queue is enqueued here.
LEMMA MigrateStepOwn == ASSUME OwnInv, NEW c \in CPU, MigrateStep(c) PROVE OwnRest'
  <1>0. /\ TypeOK /\ HomeInv /\ None \notin Task /\ CPU \subseteq Spots /\ QueuesOK
        /\ \A y \in Task : Placed(y)
    BY Basics, ZenonT(30)
  <1>1. pc[c] = "task" /\ UNCHANGED <<life, parked, dropper, sig, tok, slot, exec, hold>>
    BY ZenonT(30) DEF MigrateStep, owners, tokens
  <1>2. CASE migq[c] = <<>>
    <2>1. UNCHANGED <<current, runq, migq, rstate, pc>>
      BY <1>2, ZenonT(30) DEF MigrateStep, queues
    <2>2. (\A t \in Task : Placed(t)') /\ QueuesOK'
      BY <1>1, <2>1, Unmoved, QuietPlaced, ZenonT(30)
    <2>3. StackOK'
      BY <1>1, <2>1, StackKept, ZenonT(30)
    <2>4. TokensOK'
      BY <1>1, <2>1, TokensKept, ZenonT(30)
    <2> QED BY <2>2, <2>3, <2>4, Zenon DEF OwnRest
  <1>3. CASE migq[c] # <<>>
    <2>a. PICK t : t = Head(migq[c])
      BY Zenon
    <2>b. PICK u : u = current[c]
      BY Zenon
    <2>1. migq' = [migq EXCEPT ![c] = Tail(migq[c])] /\ Enqueue(c, t, TRUE)
      BY <1>3, <2>a, ZenonT(30) DEF MigrateStep, Steal
    <2>2. /\ t \in Task /\ Elems(migq[c]) = Elems(Tail(migq[c])) \cup {t}
          /\ NoDup(Tail(migq[c])) /\ t \notin Elems(Tail(migq[c]))
      <3>1. migq[c] \in Seq(Task)
        BY <1>0, ZenonT(30) DEF TypeOK
      <3> QED BY <1>0, <1>3, <2>a, <3>1, ElemsPop, NoDupPop, ZenonT(30) DEF QueuesOK
    <2>3. /\ \A x \in CPU : /\ current[x] # t /\ t \notin Elems(runq[x])
                            /\ t \notin Elems(dropper[x]) /\ ~(pc[x] = "exit" /\ exec[x] = t)
                            /\ t \in Elems(migq[x]) => x = c
          /\ \A j \in Token : slot[j] # t
          /\ t \notin parked /\ life[t] = "live"
      <3>1. Holds("mig", c, t) /\ "mig" \in Kinds /\ LifeAt("mig") = "live"
        BY <2>2, Zenon DEF Holds, Kinds, LifeAt
      <3> QED BY <1>0, <2>2, <3>1, Alone, ZenonT(30)
    <2>4. (\A x \in CPU : NoDup(runq'[x])) /\ (Joins(c, t) \/ Preempts(c, t, u))
      BY <2>1, <2>2, <2>3, <2>b, EnqueueMoves, ZenonT(30)
    <2>5. \/ UNCHANGED <<pc, current>>
          \/ pc' = [pc EXCEPT ![c] = "switch"] /\ \A d \in CPU \ {c} : current'[d] = current[d]
      BY <1>0, <2>1, <2>2, EnqueueOK, ZenonT(30)
    <2>6. Turns("mig", None, None, t)
      <3>1. \A x \in CPU : migq'[x] = IF x = c THEN Tail(migq[c]) ELSE migq[x]
        BY <1>0, <2>1, Zenon DEF TypeOK
      <3>2. \A x \in CPU : \A y : y \in Elems(migq'[x]) <=> y \in Elems(migq[x]) /\ y # t
        BY <2>2, <2>3, <3>1, Zenon
      <3> QED BY <1>0, <3>2, ZenonT(30) DEF Turns, Holds
    <2>7. \A k \in {"drop", "exit", "slot", "timer"} : Turns(k, None, None, t)
      <3>1. Kept("drop") /\ Kept("slot") /\ Kept("timer")
        BY <1>1, Unmoved, ZenonT(30)
      <3>2. Kept("exit")
        BY <1>0, <1>1, <2>5, Unmoved, ExitKept, ZenonT(30)
      <3>3. \A x \in Spots : ~Holds("exit", x, t) /\ ~Holds("drop", x, t) /\ ~Holds("slot", x, t) /\ ~Holds("timer", x, t)
        BY <2>3, ZenonT(30) DEF Holds
      <3>4. /\ Turns("drop", None, None, t) /\ Turns("exit", None, None, t)
            /\ Turns("slot", None, None, t) /\ Turns("timer", None, None, t)
        BY <2>2, <3>1, <3>2, <3>3, KeptOut, ZenonT(30)
      <3> QED BY <3>4, ZenonT(30)
    <2>8. \A y \in Task : Placed(y)'
      <3>1. Woken(c, t, u)
        BY <2>4, <2>6, ZenonT(30) DEF Woken
      <3> QED BY <1>1, <2>2, <2>3, <2>7, <2>b, <3>1, WokenPlaced, ZenonT(30)
    <2>9. QueuesOK'
      <3>1. \A x \in CPU : migq'[x] = IF x = c THEN Tail(migq[c]) ELSE migq[x]
        BY <1>0, <2>1, Zenon DEF TypeOK
      <3> QED BY <1>0, <1>1, <2>2, <2>4, <3>1, ZenonT(30) DEF QueuesOK
    <2>10. /\ UNCHANGED <<pc, current>> \/ pc'[c] = "switch"
           /\ UNCHANGED <<pc, current>> \/ \A d \in CPU \ {c} : pc'[d] = pc[d] /\ current'[d] = current[d]
      BY <1>0, <2>5, ZenonT(30) DEF TypeOK
    <2>11. StackOK'
      BY <1>1, <2>10, StackKept, Zenon
    <2>12. \A x \in CPU : pc'[x] = "suspend" => pc[x] = "suspend"
      BY <2>10, ZenonT(30)
    <2>13. TokensOK'
      BY <1>1, <2>12, TokensKept, ZenonT(30)
    <2> QED BY <2>8, <2>9, <2>11, <2>13, ZenonT(30) DEF OwnRest
  <1> QED BY <1>2, <1>3, Zenon

\* After boot every idle task runs on its CPU and no user task exists.
LEMMA InitOwn == Init => OwnInv
  <1> SUFFICES ASSUME Init PROVE OwnInv
    BY Zenon
  <1>0. SchedInv /\ TypeOK
    BY InitOK, ZenonT(30) DEF SchedInv
  <1>1. \A c \in CPU : Elems(runq[c]) = {} /\ Elems(migq[c]) = {} /\ Elems(dropper[c]) = {}
    BY DEF Init, Elems
  <1>2. /\ None \notin Task /\ CPU \subseteq Spots /\ Idle \subseteq Task
        /\ \A c, d \in CPU : IdleOf[c] = IdleOf[d] => c = d
        /\ \A c \in CPU : IdleOf[c] \in Idle
    BY ConstAssumption, ZenonT(30) DEF Spots, Task, Idle
  <1>3. ASSUME NEW k, NEW x, NEW t, Holds(k, x, t)
        PROVE  (k = "current" /\ x \in CPU /\ IdleOf[x] = t) \/ t = None
    <2>1. /\ current = IdleOf /\ parked = {} /\ (\A c \in CPU : pc[c] = "task")
          /\ \A j \in Token : slot[j] = None
      BY ZenonT(30) DEF Init
    <2> QED BY <1>1, <1>3, <2>1, ZenonT(30) DEF Holds
  <1>4. ASSUME NEW t \in Task PROVE Placed(t)
    <2>1. \A k, x : Holds(k, x, t) => k = "current" /\ x \in CPU /\ IdleOf[x] = t
      BY <1>2, <1>3, ZenonT(30)
    <2>2. \A k, x : Holds(k, x, t) => life[t] = LifeAt(k) /\ RunAt(k, rstate[t])
      BY <1>2, <2>1 DEF Init, LifeAt, RunAt
    <2>3. life[t] \in {"live", "exited"} => \E k \in Kinds, x \in Spots : Holds(k, x, t)
      <3>1. life[t] \in {"live", "exited"} => t \in Idle
        BY Zenon DEF Init
      <3>2. t \in Idle => \E c \in CPU : current[c] = t
        BY Zenon DEF Init, Idle
      <3> QED BY <1>2, <3>1, <3>2, Zenon DEF Holds, Kinds
    <2>4. \A k, l, x, y : Holds(k, x, t) /\ Holds(l, y, t) => k = l /\ x = y
      BY <1>2, <2>1
    <2> QED BY <2>2, <2>3, <2>4, ZenonT(30) DEF Placed
  <1>5. QueuesOK
    BY DEF QueuesOK, NoDup, Init
  <1>6. StackOK
    BY Zenon DEF StackOK, Init
  <1>7. TokensOK
    <2>1. \A c, k : ~Pending(c, k) \/ c \notin CPU
      BY Zenon DEF Init, Pending
    <2> QED BY <2>1, ConstAssumption, Zenon DEF Init, TokensOK
  <1> QED BY <1>0, <1>4, <1>5, <1>6, <1>7, ZenonT(30) DEF OwnInv

\* The invariant is inductive.
LEMMA NextOwn == OwnInv /\ [Next]_vars => OwnInv'
  <1> SUFFICES ASSUME OwnInv, [Next]_vars PROVE OwnInv'
    BY Zenon
  <1>1. SchedInv'
    BY NextOK, Basics, Zenon
  <1>2. CASE UNCHANGED vars
    <2>1. UNCHANGED <<current, runq, migq, dropper, slot, parked, life, rstate, pc, exec, sig, tok, hold>>
      BY <1>2, ZenonT(30) DEF vars, queues, owners, tokens, cpus
    <2>2. \A k \in Kinds : Kept(k)
      BY <2>1, Unmoved, ZenonT(30) DEF Kinds
    <2>3. \A t \in Task : Placed(t)'
      BY <2>1, <2>2, AllStay, ZenonT(30)
    <2>4. QueuesOK' /\ StackOK'
      BY <2>1, Basics, ZenonT(30) DEF QueuesOK, StackOK
    <2>5. TokensOK'
      BY <2>1, TokensKept, ZenonT(30)
    <2> QED BY <1>1, <2>3, <2>4, <2>5, ZenonT(30) DEF OwnInv
  <1>3. CASE Next
    <2>1. OwnRest'
      BY <1>3, SendIpiOwn, SwitchKframeOwn, PushDropperOwn, IdleLoopOwn, BlockCurrentOwn, YieldOwn,
         TickOwn, TickKillOwn, TickSuspendOwn, FillSlotOwn, TickTailOwn, MigrateHandlerOwn,
         MigrateStepOwn, DropSignalOwn, ExitCurrentOwn, TaskExecOwn, CtlKillOwn, WakeOwn,
         DropTokenOwn, TaskNewOwn, CtlSuspendOwn, ZenonT(30) DEF Next
    <2> QED BY <1>1, <2>1, ZenonT(30) DEF OwnInv, OwnRest
  <1> QED BY <1>2, <1>3, Zenon

-----------------------------------------------------------------------------
\* How an owner, as Owners lists them, names the place k, x of the task t.
Names(o, k, x, t) ==
    \/ k = "current" /\ o = <<"current", x>>
    \/ k = "run" /\ \E i \in DOMAIN runq[x] : runq[x][i] = t /\ o = <<"run", x, i>>
    \/ k = "mig" /\ \E i \in DOMAIN migq[x] : migq[x][i] = t /\ o = <<"mig", x, i>>
    \/ k = "drop" /\ \E i \in DOMAIN dropper[x] : dropper[x][i] = t /\ o = <<"drop", x, i>>
    \/ k = "exit" /\ o = <<"exit", x>>
    \/ k = "slot" /\ o = <<"slot", x>>
    \/ k = "timer" /\ o = <<"timer">>

\* The owners of a task are the names of the places that hold it.
LEMMA OwnerNames ==
    ASSUME NEW t \in Task, NEW o
    PROVE  o \in Owners(t) <=> \E k \in Kinds, x \in Spots : Holds(k, x, t) /\ Names(o, k, x, t)
  <1> DEFINE A == {<<"current", c>> : c \in {c \in CPU : current[c] = t}}
             R == UNION {{<<"run", c, i>> : i \in {i \in DOMAIN runq[c] : runq[c][i] = t}} : c \in CPU}
             M == UNION {{<<"mig", c, i>> : i \in {i \in DOMAIN migq[c] : migq[c][i] = t}} : c \in CPU}
             D == UNION {{<<"drop", c, i>> : i \in {i \in DOMAIN dropper[c] : dropper[c][i] = t}} : c \in CPU}
             E == {<<"exit", c>> : c \in {c \in CPU : pc[c] = "exit" /\ exec[c] = t}}
             S == {<<"slot", k>> : k \in {k \in Token : slot[k] = t}}
             T == IF t \in parked THEN {<<"timer">>} ELSE {}
  <1>1. Owners(t) = A \cup R \cup M \cup D \cup E \cup S \cup T
    BY ZenonT(30) DEF Owners
  <1>2. o \in A <=> \E x \in Spots : Holds("current", x, t) /\ Names(o, "current", x, t)
    BY ZenonT(30) DEF Holds, Names, Spots
  <1>3. o \in R <=> \E x \in Spots : Holds("run", x, t) /\ Names(o, "run", x, t)
    <2>1. o \in R <=> \E x \in CPU : \E i \in DOMAIN runq[x] : runq[x][i] = t /\ o = <<"run", x, i>>
      OBVIOUS
    <2>2. \A x : Names(o, "run", x, t) <=> \E i \in DOMAIN runq[x] : runq[x][i] = t /\ o = <<"run", x, i>>
      BY Zenon DEF Names
    <2>3. \A x : Holds("run", x, t) <=> x \in CPU /\ \E i \in DOMAIN runq[x] : runq[x][i] = t
      BY Zenon DEF Holds, Elems
    <2> QED BY <2>1, <2>2, <2>3, ZenonT(30) DEF Spots
  <1>4. o \in M <=> \E x \in Spots : Holds("mig", x, t) /\ Names(o, "mig", x, t)
    <2>1. o \in M <=> \E x \in CPU : \E i \in DOMAIN migq[x] : migq[x][i] = t /\ o = <<"mig", x, i>>
      OBVIOUS
    <2>2. \A x : Names(o, "mig", x, t) <=> \E i \in DOMAIN migq[x] : migq[x][i] = t /\ o = <<"mig", x, i>>
      BY Zenon DEF Names
    <2>3. \A x : Holds("mig", x, t) <=> x \in CPU /\ \E i \in DOMAIN migq[x] : migq[x][i] = t
      BY Zenon DEF Holds, Elems
    <2> QED BY <2>1, <2>2, <2>3, Zenon DEF Spots
  <1>5. o \in D <=> \E x \in Spots : Holds("drop", x, t) /\ Names(o, "drop", x, t)
    <2>1. o \in D <=> \E x \in CPU : \E i \in DOMAIN dropper[x] : dropper[x][i] = t /\ o = <<"drop", x, i>>
      OBVIOUS
    <2>2. \A x : Names(o, "drop", x, t) <=> \E i \in DOMAIN dropper[x] : dropper[x][i] = t /\ o = <<"drop", x, i>>
      BY Zenon DEF Names
    <2>3. \A x : Holds("drop", x, t) <=> x \in CPU /\ \E i \in DOMAIN dropper[x] : dropper[x][i] = t
      BY Zenon DEF Holds, Elems
    <2> QED BY <2>1, <2>2, <2>3, Zenon DEF Spots
  <1>6. o \in E <=> \E x \in Spots : Holds("exit", x, t) /\ Names(o, "exit", x, t)
    BY Zenon DEF Holds, Names, Spots
  <1>7. o \in S <=> \E x \in Spots : Holds("slot", x, t) /\ Names(o, "slot", x, t)
    BY Zenon DEF Holds, Names, Spots
  <1>8. o \in T <=> \E x \in Spots : Holds("timer", x, t) /\ Names(o, "timer", x, t)
    BY Zenon DEF Holds, Names, Spots
  <1> HIDE DEF A, R, M, D, E, S, T
  <1> QED BY <1>1, <1>2, <1>3, <1>4, <1>5, <1>6, <1>7, <1>8, ZenonT(30) DEF Kinds

\* A place that holds a task has a name, and only one.
LEMMA NamesUnique ==
    ASSUME OwnInv, NEW t \in Task, NEW k \in Kinds, NEW x \in Spots, Holds(k, x, t)
    PROVE  /\ \E o : Names(o, k, x, t) /\ (k # "slot" => o[1] # "slot")
           /\ \A o, p : Names(o, k, x, t) /\ Names(p, k, x, t) => o = p
  <1>1. \E o : Names(o, k, x, t) /\ (k # "slot" => o[1] # "slot")
    <2>1. CASE k \in {"current", "exit", "slot"}
      <3>1. Names(<<k, x>>, k, x, t) /\ <<k, x>>[1] = k
        BY <2>1, Zenon DEF Names
      <3> QED BY <3>1, Zenon
    <2>2. CASE k = "timer"
      <3>1. Names(<<"timer">>, k, x, t) /\ <<"timer">>[1] = "timer"
        BY <2>2, ZenonT(30) DEF Names
      <3> QED BY <3>1, ZenonT(30)
    <2>3. CASE k = "run"
      <3>1. PICK i \in DOMAIN runq[x] : runq[x][i] = t
        BY <2>3, ZenonT(30) DEF Holds, Elems
      <3>2. Names(<<"run", x, i>>, k, x, t) /\ <<"run", x, i>>[1] = "run"
        BY <2>3, <3>1, ZenonT(30) DEF Names
      <3> QED BY <3>2, ZenonT(30)
    <2>4. CASE k = "mig"
      <3>1. PICK i \in DOMAIN migq[x] : migq[x][i] = t
        BY <2>4, ZenonT(30) DEF Holds, Elems
      <3>2. Names(<<"mig", x, i>>, k, x, t) /\ <<"mig", x, i>>[1] = "mig"
        BY <2>4, <3>1, ZenonT(30) DEF Names
      <3> QED BY <3>2, ZenonT(30)
    <2>5. CASE k = "drop"
      <3>1. PICK i \in DOMAIN dropper[x] : dropper[x][i] = t
        BY <2>5, ZenonT(30) DEF Holds, Elems
      <3>2. Names(<<"drop", x, i>>, k, x, t) /\ <<"drop", x, i>>[1] = "drop"
        BY <2>5, <3>1, ZenonT(30) DEF Names
      <3> QED BY <3>2, ZenonT(30)
    <2> QED BY <2>1, <2>2, <2>3, <2>4, <2>5, Zenon DEF Kinds
  <1>2. ASSUME NEW o, NEW p, Names(o, k, x, t), Names(p, k, x, t)
        PROVE  o = p
    <2>1. CASE k = "run"
      <3>1. PICK i \in DOMAIN runq[x] : runq[x][i] = t /\ o = <<"run", x, i>>
        BY <1>2, <2>1, ZenonT(30) DEF Names
      <3>2. PICK j \in DOMAIN runq[x] : runq[x][j] = t /\ p = <<"run", x, j>>
        BY <1>2, <2>1, ZenonT(30) DEF Names
      <3>3. NoDup(runq[x])
        BY <2>1, Basics, ZenonT(30) DEF Holds, QueuesOK
      <3> QED BY <3>1, <3>2, <3>3, ZenonT(30) DEF NoDup
    <2>2. CASE k = "mig"
      <3>1. PICK i \in DOMAIN migq[x] : migq[x][i] = t /\ o = <<"mig", x, i>>
        BY <1>2, <2>2, ZenonT(30) DEF Names
      <3>2. PICK j \in DOMAIN migq[x] : migq[x][j] = t /\ p = <<"mig", x, j>>
        BY <1>2, <2>2, ZenonT(30) DEF Names
      <3>3. NoDup(migq[x])
        BY <2>2, Basics, ZenonT(30) DEF Holds, QueuesOK
      <3> QED BY <3>1, <3>2, <3>3, ZenonT(30) DEF NoDup
    <2>3. CASE k = "drop"
      <3>1. PICK i \in DOMAIN dropper[x] : dropper[x][i] = t /\ o = <<"drop", x, i>>
        BY <1>2, <2>3, ZenonT(30) DEF Names
      <3>2. PICK j \in DOMAIN dropper[x] : dropper[x][j] = t /\ p = <<"drop", x, j>>
        BY <1>2, <2>3, ZenonT(30) DEF Names
      <3>3. NoDup(dropper[x])
        BY <2>3, Basics, ZenonT(30) DEF Holds, QueuesOK
      <3> QED BY <3>1, <3>2, <3>3, ZenonT(30) DEF NoDup
    <2>4. CASE k \notin {"run", "mig", "drop"}
      BY <1>2, <2>4 DEF Names
    <2> QED BY <2>1, <2>2, <2>3, <2>4, ZenonT(30)
  <1> QED BY <1>1, <1>2, Zenon

\* A task has no two owners.
LEMMA OwnerUnique ==
    ASSUME OwnInv, NEW t \in Task, NEW o \in Owners(t), NEW p \in Owners(t)
    PROVE  o = p
  <1>1. PICK k \in Kinds, x \in Spots : Holds(k, x, t) /\ Names(o, k, x, t)
    BY OwnerNames, ZenonT(30)
  <1>2. PICK l \in Kinds, y \in Spots : Holds(l, y, t) /\ Names(p, l, y, t)
    BY OwnerNames, ZenonT(30)
  <1>3. k = l /\ x = y
    BY <1>1, <1>2, Basics, ZenonT(30) DEF Placed
  <1> QED BY <1>1, <1>2, <1>3, NamesUnique, ZenonT(30)

\* No interleaving of wake-ups, migrations, preemptions, suspensions and exits
\* leaves a task with two owners (the by-value moves of sched/task/sm.rs), for
\* any number of CPUs, tasks and tokens and any placement policy.
THEOREM NeverTwoOwners == Spec => []SingleOwner
  <1>1. OwnInv => SingleOwner
    BY OwnerUnique, Zenon DEF SingleOwner
  <1> QED BY InitOwn, NextOwn, <1>1, PTL DEF Spec

\* Every task that was created and not freed has an owner.
TaskHeld == \A t \in Task : life[t] \in {"live", "exited"} => Owners(t) # {}

\* No move of the scheduler loses a task: whatever was created and not freed has
\* an owner, though the owner may be the slot of a dropped token (sched/task/sm.rs).
THEOREM NeverLost == Spec => []TaskHeld
  <1>1. OwnInv => TaskHeld
    <2> SUFFICES ASSUME OwnInv, NEW t \in Task, life[t] \in {"live", "exited"} PROVE Owners(t) # {}
      BY ZenonT(30) DEF TaskHeld
    <2>1. PICK k \in Kinds, x \in Spots : Holds(k, x, t)
      BY Basics, ZenonT(30) DEF Placed
    <2>2. PICK o : Names(o, k, x, t)
      BY <2>1, NamesUnique, ZenonT(30)
    <2> QED BY <2>1, <2>2, OwnerNames, ZenonT(30)
  <1> QED BY InitOwn, NextOwn, <1>1, PTL DEF Spec

\* The current task of a CPU runs, and a task in a queue does not.
LEMMA RunningAsPlaced == ASSUME OwnInv PROVE RunningStateOK
  <1>1. ASSUME NEW c \in CPU PROVE rstate[current[c]] # "not"
    <2>1. PICK t \in Task : t = current[c]
      BY Basics, ZenonT(30) DEF TypeOK
    <2>2. Holds("current", c, t) /\ "current" \in Kinds /\ c \in Spots /\ Placed(t)
      BY <2>1, Basics, ZenonT(30) DEF Holds, Kinds
    <2>3. RunAt("current", rstate[t])
      BY <2>2, ZenonT(30) DEF Placed
    <2> QED BY <2>1, <2>3, ZenonT(30) DEF RunAt
  <1>2. ASSUME NEW c \in CPU, NEW t \in Elems(runq[c]) \cup Elems(migq[c]) PROVE rstate[t] = "not"
    <2>1. runq[c] \in Seq(Task) /\ migq[c] \in Seq(Task)
      BY Basics, ZenonT(30) DEF TypeOK
    <2>2. t \in Task
      BY <2>1 DEF Elems
    <2>3. (Holds("run", c, t) \/ Holds("mig", c, t)) /\ "run" \in Kinds /\ "mig" \in Kinds
          /\ c \in Spots /\ Placed(t)
      BY <2>2, Basics, ZenonT(30) DEF Holds, Kinds
    <2>4. RunAt("run", rstate[t]) \/ RunAt("mig", rstate[t])
      BY <2>3, ZenonT(30) DEF Placed
    <2> QED BY <2>4, ZenonT(30) DEF RunAt
  <1> QED BY <1>1, <1>2, ZenonT(30) DEF RunningStateOK

\* The asserts on running_state in update, schedule, save_regs and
\* switch_finishing never fail, with or without suspend tokens.
THEOREM RunningStateHolds == Spec => []RunningStateOK
  <1>1. OwnInv => RunningStateOK
    BY RunningAsPlaced, ZenonT(30)
  <1> QED BY InitOwn, NextOwn, <1>1, PTL DEF Spec

\* Where nobody suspends, every task has an owner from which it runs again, and
\* the asserts on running_state in sched/imp.rs hold.  (With suspend tokens the
\* first half fails: a token dropped in mid-suspension keeps its task.)
THEOREM AlwaysInPlace ==
    ASSUME Token = {}
    PROVE  Spec => []TasksInPlace
  <1>1. OwnInv => TasksInPlace
    <2> SUFFICES ASSUME OwnInv PROVE TaskOwned /\ RunningStateOK
      BY Zenon DEF TasksInPlace
    <2>1. ASSUME NEW t \in Task, life[t] \in {"live", "exited"}
          PROVE  \E o \in Owners(t) : o[1] = "slot" => tok[o[2]] = "held"
      <3>1. PICK k \in Kinds, x \in Spots : Holds(k, x, t)
        BY <2>1, Basics, ZenonT(30) DEF Placed
      <3>2. k # "slot"
        BY <3>1, ZenonT(30) DEF Holds
      <3>3. PICK o : Names(o, k, x, t) /\ o[1] # "slot"
        BY <3>1, <3>2, NamesUnique, ZenonT(30)
      <3> QED BY <3>1, <3>3, OwnerNames, ZenonT(30)
    <2>2. RunningStateOK
      BY RunningAsPlaced, ZenonT(30)
    <2> QED BY <2>1, <2>2, ZenonT(30) DEF TaskOwned
  <1> QED BY InitOwn, NextOwn, <1>1, PTL DEF Spec

\* A task that exited stays so until it is freed.
LEMMA ExitedStays ==
    ASSUME TypeOK, Next, NEW t \in Task, life[t] \in {"exited", "freed"}
    PROVE  life'[t] \in {"exited", "freed"}
  <1>0. life \in [Task -> {"new", "live", "exited", "freed"}] /\ current \in [CPU -> Task]
    BY ZenonT(30) DEF TypeOK
  <1>1. PICK c \in CPU :
           \/ SendIpi(c) \/ SwitchKframe(c) \/ PushDropper(c) \/ IdleLoop(c)
           \/ BlockCurrent(c) \/ Yield(c) \/ Tick(c) \/ TickKill(c)
           \/ TickSuspend(c) \/ FillSlot(c) \/ TickTail(c)
           \/ MigrateHandler(c) \/ MigrateStep(c) \/ DropSignal(c)
           \/ (\E killAll \in BOOLEAN : ExitCurrent(c, killAll))
           \/ (\E u \in User : TaskExec(c, u) \/ CtlKill(c, u))
           \/ (\E u \in User, preempt \in BOOLEAN : Wake(c, u, preempt))
           \/ (\E k \in Token : DropToken(c, k))
           \/ (\E u \in User, k \in Token : TaskNew(c, u, k) \/ CtlSuspend(c, u, k))
    BY ZenonT(30) DEF Next
  <1>2. CASE SendIpi(c) \/ SwitchKframe(c) \/ PushDropper(c) \/ Yield(c) \/ BlockCurrent(c)
    BY <1>2, ZenonT(30) DEF SendIpi, SwitchKframe, PushDropper, Yield, BlockCurrent, owners
  <1>3. CASE Tick(c) \/ TickSuspend(c) \/ FillSlot(c) \/ TickTail(c) \/ MigrateHandler(c) \/ DropSignal(c)
    BY <1>3, ZenonT(30) DEF Tick, TickSuspend, FillSlot, TickTail, MigrateHandler, DropSignal, owners
  <1>4. CASE MigrateStep(c)
    <2>1. UNCHANGED owners
      BY <1>4, ZenonT(30) DEF MigrateStep
    <2> QED BY <2>1, ZenonT(30) DEF owners
  <1>5. CASE IdleLoop(c)
    BY <1>0, <1>5, ZenonT(30) DEF IdleLoop
  <1>6. CASE TickKill(c)
    BY <1>0, <1>6, ZenonT(30) DEF TickKill
  <1>7. CASE \E killAll \in BOOLEAN : ExitCurrent(c, killAll)
    BY <1>0, <1>7, ZenonT(30) DEF ExitCurrent
  <1>8. CASE \E u \in User : TaskExec(c, u) \/ CtlKill(c, u)
    BY <1>0, <1>8, ZenonT(30) DEF TaskExec, CtlKill, owners
  <1>9. CASE \E u \in User, preempt \in BOOLEAN : Wake(c, u, preempt)
    BY <1>9, ZenonT(30) DEF Wake
  <1>10. CASE \E k \in Token : DropToken(c, k)
    BY <1>10, ZenonT(30) DEF DropToken, owners
  <1>11. CASE \E u \in User, k \in Token : TaskNew(c, u, k) \/ CtlSuspend(c, u, k)
    BY <1>0, <1>11, ZenonT(30) DEF TaskNew, CtlSuspend, owners
  <1> QED BY <1>1, <1>2, <1>3, <1>4, <1>5, <1>6, <1>7, <1>8, <1>9, <1>10, <1>11, ZenonT(30)

\* An exited task never runs again: whatever took it last was the closure of
\* Ready::exit, and only the dropper follows.
THEOREM ExitStaysFinal == Spec => ExitIsFinal
  <1>1. OwnInv /\ OwnInv' /\ [Next]_vars =>
           [\A t \in Task : life[t] \in {"exited", "freed"} =>
               life'[t] \in {"exited", "freed"} /\ \A c \in CPU : current'[c] # t]_vars
    <2> SUFFICES ASSUME OwnInv, OwnInv', Next, NEW t \in Task, life[t] \in {"exited", "freed"}
                 PROVE  life'[t] \in {"exited", "freed"} /\ \A c \in CPU : current'[c] # t
      BY Zenon
    <2>1. life'[t] \in {"exited", "freed"}
      BY Basics, ExitedStays, ZenonT(30)
    <2>2. ASSUME NEW c \in CPU, current'[c] = t PROVE FALSE
      <3>1. Holds("current", c, t)' /\ Placed(t)' /\ "current" \in Kinds /\ c \in Spots
        BY <2>2, ZenonT(30) DEF Holds, OwnInv, Kinds, Spots
      <3>2. life'[t] = LifeAt("current")
        BY <3>1, ZenonT(30) DEF Placed
      <3> QED BY <2>1, <3>2, ZenonT(30) DEF LifeAt
    <2> QED BY <2>1, <2>2, ZenonT(30)
  <1> QED BY InitOwn, NextOwn, <1>1, PTL DEF Spec, ExitIsFinal

-----------------------------------------------------------------------------
\* No task may run on two CPUs.
Pinned == \A t \in User : \A c, d \in Affinity[t] : c = d

\* Where no task migrates, a CPU has left the stack of a task before another one
\* could be on it (switch_ctx after schedule_impl).
THEOREM PinnedStacks ==
    ASSUME Pinned
    PROVE  Spec => []OneCpuPerStack
  <1>1. SchedInv /\ AffinityKept => OneCpuPerStack
    <2> SUFFICES ASSUME SchedInv, AffinityKept, NEW c \in CPU, NEW d \in CPU, exec[c] = exec[d]
                 PROVE  c = d
      BY ZenonT(30) DEF OneCpuPerStack
    <2>1. PICK t \in Task : exec[c] = t /\ exec[d] = t
      BY ZenonT(30) DEF SchedInv, TypeOK
    <2>2. OnCpu(c, t) /\ OnCpu(d, t)
      BY <2>1, ZenonT(30) DEF OnCpu
    <2>3. CASE t \in User
      BY <2>2, <2>3, ZenonT(30) DEF AffinityKept, Pinned
    <2>4. CASE t \notin User
      <3>1. t = IdleOf[c] /\ t = IdleOf[d]
        BY <2>2, <2>4, ZenonT(30) DEF AffinityKept
      <3> QED BY <3>1, ConstAssumption, ZenonT(30)
    <2> QED BY <2>3, <2>4, ZenonT(30)
  <1> QED BY InitOK, NextOK, AffinityInit, AffinityNext, <1>1, PTL DEF Spec

\* Only the idle loop frees a context, and only switch_ctx changes stacks.
LEMMA FreedBy ==
    ASSUME TypeOK, Next
    PROVE  \/ \E c \in CPU : IdleLoop(c) \/ SwitchKframe(c)
           \/ UNCHANGED exec /\ \A t \in Task : life'[t] = "freed" => life[t] = "freed"
  <1>0. life \in [Task -> {"new", "live", "exited", "freed"}] /\ current \in [CPU -> Task]
    BY ZenonT(30) DEF TypeOK
  <1>1. PICK c \in CPU :
           \/ SendIpi(c) \/ SwitchKframe(c) \/ PushDropper(c) \/ IdleLoop(c)
           \/ BlockCurrent(c) \/ Yield(c) \/ Tick(c) \/ TickKill(c)
           \/ TickSuspend(c) \/ FillSlot(c) \/ TickTail(c)
           \/ MigrateHandler(c) \/ MigrateStep(c) \/ DropSignal(c)
           \/ (\E killAll \in BOOLEAN : ExitCurrent(c, killAll))
           \/ (\E u \in User : TaskExec(c, u) \/ CtlKill(c, u))
           \/ (\E u \in User, preempt \in BOOLEAN : Wake(c, u, preempt))
           \/ (\E k \in Token : DropToken(c, k))
           \/ (\E u \in User, k \in Token : TaskNew(c, u, k) \/ CtlSuspend(c, u, k))
    BY ZenonT(30) DEF Next
  <1>2. CASE SendIpi(c) \/ PushDropper(c) \/ Yield(c) \/ BlockCurrent(c)
    BY <1>2, ZenonT(30) DEF SendIpi, PushDropper, Yield, BlockCurrent, owners, cpus
  <1>3. CASE Tick(c) \/ TickSuspend(c) \/ FillSlot(c) \/ TickTail(c) \/ MigrateHandler(c) \/ DropSignal(c)
    BY <1>3, ZenonT(30) DEF Tick, TickSuspend, FillSlot, TickTail, MigrateHandler, DropSignal, owners
  <1>4. CASE MigrateStep(c)
    <2>1. UNCHANGED <<owners, exec>>
      BY <1>4, ZenonT(30) DEF MigrateStep
    <2> QED BY <2>1, ZenonT(30) DEF owners
  <1>6. CASE TickKill(c)
    BY <1>0, <1>6, ZenonT(30) DEF TickKill
  <1>7. CASE \E killAll \in BOOLEAN : ExitCurrent(c, killAll)
    BY <1>0, <1>7, ZenonT(30) DEF ExitCurrent
  <1>8. CASE \E u \in User : TaskExec(c, u) \/ CtlKill(c, u)
    BY <1>0, <1>8, ZenonT(30) DEF TaskExec, CtlKill, owners, cpus
  <1>9. CASE \E u \in User, preempt \in BOOLEAN : Wake(c, u, preempt)
    BY <1>9, ZenonT(30) DEF Wake
  <1>10. CASE \E k \in Token : DropToken(c, k)
    BY <1>10, ZenonT(30) DEF DropToken, owners
  <1>11. CASE \E u \in User, k \in Token : TaskNew(c, u, k) \/ CtlSuspend(c, u, k)
    BY <1>0, <1>11, ZenonT(30) DEF TaskNew, CtlSuspend, owners, cpus
  <1> QED BY <1>1, <1>2, <1>3, <1>4, <1>6, <1>7, <1>8, <1>9, <1>10, <1>11, ZenonT(30)

\* Where no task migrates, the context dropper frees no stack that a CPU is on:
\* it works on the CPU that the task exited on, which is on its idle task.
THEOREM PinnedNeverFreed ==
    ASSUME Pinned
    PROVE  Spec => []NoFreedStack
  <1>1. Init => NoFreedStack
    <2> SUFFICES ASSUME Init, NEW c \in CPU PROVE life[exec[c]] # "freed"
      BY ZenonT(30) DEF NoFreedStack
    <2> QED BY InitOK, ZenonT(30) DEF Init, SchedInv, TypeOK
  <1>2. OwnInv /\ AffinityKept /\ NoFreedStack /\ [Next]_vars => NoFreedStack'
    <2> SUFFICES ASSUME OwnInv, AffinityKept, NoFreedStack, [Next]_vars, NEW d \in CPU
                 PROVE  life'[exec'[d]] # "freed"
      BY ZenonT(30) DEF NoFreedStack
    <2>0. TypeOK /\ StackOK /\ (\A t \in Task : Placed(t)) /\ CPU \subseteq Spots
      BY Basics, ZenonT(30)
    <2>a. "current" \in Kinds /\ "drop" \in Kinds /\ LifeAt("current") = "live" /\ LifeAt("drop") = "exited"
      BY ZenonT(30) DEF Kinds, LifeAt
    <2>b. \A c \in CPU : current[c] \in Task /\ life[current[c]] = "live"
      <3> TAKE c \in CPU
      <3>1. PICK t \in Task : t = current[c]
        BY <2>0, ZenonT(30) DEF TypeOK
      <3>2. Holds("current", c, t)
        BY <3>1, ZenonT(30) DEF Holds
      <3> QED BY <2>0, <2>a, <3>1, <3>2, ZenonT(30) DEF Placed
    <2>1. CASE UNCHANGED vars
      BY <2>1, ZenonT(30) DEF vars, owners, cpus, NoFreedStack
    <2>2. CASE UNCHANGED exec /\ \A t \in Task : life'[t] = "freed" => life[t] = "freed"
      BY <2>0, <2>2, ZenonT(30) DEF NoFreedStack, TypeOK
    <2>3. CASE \E c \in CPU : SwitchKframe(c)
      <3>1. PICK c \in CPU : SwitchKframe(c)
        BY <2>3, ZenonT(30)
      <3>2. life' = life /\ exec'[d] = IF d = c THEN current[c] ELSE exec[d]
        BY <2>0, <3>1, ZenonT(30) DEF SwitchKframe, owners, TypeOK
      <3> QED BY <2>b, <3>2, ZenonT(30) DEF NoFreedStack
    <2>4. CASE \E c \in CPU : IdleLoop(c)
      <3>1. PICK c \in CPU : IdleLoop(c)
        BY <2>4, Zenon
      <3>2. exec' = exec /\ exec[d] \in Task /\ life[exec[d]] # "freed" /\ dropper[c] \in Seq(Task)
        BY <2>0, <3>1, ZenonT(30) DEF IdleLoop, cpus, NoFreedStack, TypeOK
      <3>3. CASE dropper[c] = <<>>
        BY <3>1, <3>2, <3>3, ZenonT(30) DEF IdleLoop
      <3>4. CASE dropper[c] # <<>>
        <4>1. PICK h : h = Head(dropper[c])
          BY ZenonT(30)
        <4>2. h \in Task /\ h \in Elems(dropper[c])
          BY <3>2, <3>4, <4>1, ElemsPop
        <4>3. life' = [life EXCEPT ![h] = "freed"]
          BY <3>1, <3>4, <4>1, Zenon DEF IdleLoop
        <4>4. exec[d] # h
          <5> SUFFICES ASSUME exec[d] = h PROVE FALSE
            BY Zenon
          <5>1. OnCpu(c, h) /\ OnCpu(d, h)
            BY <4>2, Zenon DEF OnCpu
          <5>2. c = d
            <6>1. CASE h \in User
              BY <4>2, <5>1, <6>1, ZenonT(30) DEF AffinityKept, Pinned
            <6>2. CASE h \notin User
              <7>1. h = IdleOf[c] /\ h = IdleOf[d]
                BY <4>2, <5>1, <6>2, ZenonT(30) DEF AffinityKept
              <7> QED BY <7>1, ConstAssumption, ZenonT(30)
            <6> QED BY <6>1, <6>2, Zenon
          <5>3. exec[c] = current[c]
            BY <2>0, <3>1, ZenonT(30) DEF IdleLoop, Free, StackOK
          <5>4. Holds("drop", c, h)
            BY <4>2, ZenonT(30) DEF Holds
          <5>5. life[h] = "exited"
            BY <2>0, <2>a, <4>2, <5>4, ZenonT(30) DEF Placed
          <5> QED BY <2>b, <5>2, <5>3, <5>5, Zenon
        <4> QED BY <2>0, <3>2, <4>2, <4>3, <4>4, ZenonT(30) DEF TypeOK
      <3> QED BY <3>3, <3>4, ZenonT(30)
    <2> QED BY <2>0, <2>1, <2>2, <2>3, <2>4, FreedBy, ZenonT(30)
  <1>3. OwnInv => SchedInv
    BY Zenon DEF OwnInv
  <1> QED BY InitOwn, NextOwn, AffinityInit, AffinityNext, <1>1, <1>2, <1>3, PTL DEF Spec
=============================================================================
