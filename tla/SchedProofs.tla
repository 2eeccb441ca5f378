---------------------------- MODULE SchedProofs ----------------------------
(* The idle task of a CPU never leaves it, and the expected run time of a CPU *)
(* is one slice per task queued or running there: for any number of CPUs,     *)
(* tasks and tokens.  Each fact needs the other: only because the idle task   *)
(* is in the run queue of a CPU that runs a user task does schedule_impl      *)
(* always find a task to pop after the slice was subtracted.                  *)
EXTENDS Sched, TLAPS

PcSet == {"task", "exit", "switch", "suspend", "dropsig"}

\* The types of what the scheduling helpers assign.
QueueType ==
    /\ current \in [CPU -> Task] /\ runq \in [CPU -> Seq(Task)]
    /\ erun \in [CPU -> Int] /\ rstate \in [Task -> {"not", "running", "resched"}]
    /\ lastCpu \in [Task -> CPU \cup {None}] /\ pc \in [CPU -> PcSet]

\* What the code of a CPU relies on in the middle of a suspension and of the
\* drop of a token.
WorkOK ==
    /\ \A c \in CPU : pc[c] = "suspend" => current[c] \in User /\ hold[c] \in Token
    /\ \A c \in CPU : pc[c] = "dropsig" => hold[c] \in Token /\ tok[hold[c]] # "none"
    /\ \A k \in Token : tok[k] # "none" => tgt[k] \in User

\* The inductive invariant.
SchedInv == TypeOK /\ IdleAtHome /\ RuntimeAccounted /\ WorkOK

\* The part of the invariant that the scheduling helpers preserve.
HomeInv == IdleAtHome /\ RuntimeAccounted

-----------------------------------------------------------------------------
\* A user task never runs on a CPU with an empty run queue.
LEMMA IdleQueued ==
    ASSUME TypeOK, IdleAtHome, NEW c \in CPU, current[c] \in User
    PROVE  runq[c] # <<>> /\ IdleOf[c] \in Elems(runq[c])
  BY ConstAssumption DEF TypeOK, IdleAtHome, Elems, Idle, Task

\* The elements of a queue, by position.
LEMMA ElemsIndex ==
    ASSUME NEW S, NEW q \in Seq(S), NEW y
    PROVE  y \in Elems(q) <=> \E i \in 1..Len(q) : q[i] = y
  BY DEF Elems

\* What a queue holds after a push and after a pop.
LEMMA ElemsAppend ==
    ASSUME NEW S, NEW q \in Seq(S), NEW x \in S
    PROVE  Elems(Append(q, x)) = Elems(q) \cup {x}
  <1>1. ASSUME NEW y \in Elems(Append(q, x)) PROVE y \in Elems(q) \cup {x}
    <2>1. PICK i \in 1..Len(Append(q, x)) : Append(q, x)[i] = y
      BY ElemsIndex, Append(q, x) \in Seq(S), Zenon
    <2>2. CASE i = Len(q) + 1
      BY <2>1, <2>2
    <2>3. CASE i # Len(q) + 1
      <3>1. i \in 1..Len(q) /\ q[i] = y
        BY <2>1, <2>3
      <3> QED BY <3>1, ElemsIndex, Zenon
    <2> QED BY <2>2, <2>3, Zenon
  <1>2. ASSUME NEW y \in Elems(q) PROVE y \in Elems(Append(q, x))
    <2>1. PICK i \in 1..Len(q) : q[i] = y
      BY ElemsIndex, Append(q, x) \in Seq(S), Zenon
    <2>2. i \in 1..Len(Append(q, x)) /\ Append(q, x)[i] = y
      BY <2>1
    <2> QED BY <2>2, ElemsIndex, Append(q, x) \in Seq(S), Zenon
  <1>3. x \in Elems(Append(q, x))
    <2>1. Len(q) + 1 \in 1..Len(Append(q, x)) /\ Append(q, x)[Len(q) + 1] = x
      OBVIOUS
    <2> QED BY <2>1, ElemsIndex, Append(q, x) \in Seq(S), Zenon
  <1> QED BY <1>1, <1>2, <1>3, Zenon

\* What a queue holds before a pop, which takes the head.
LEMMA ElemsPop ==
    ASSUME NEW S, NEW q \in Seq(S), q # <<>>
    PROVE  /\ Head(q) \in S /\ Tail(q) \in Seq(S)
           /\ Elems(q) = Elems(Tail(q)) \cup {Head(q)}
           /\ Len(Tail(q)) = Len(q) - 1
  <1>1. Head(q) \in S /\ Tail(q) \in Seq(S) /\ Len(Tail(q)) = Len(q) - 1
    OBVIOUS
  <1>2. ASSUME NEW y \in Elems(q) PROVE y \in Elems(Tail(q)) \cup {Head(q)}
    <2>1. PICK i \in 1..Len(q) : q[i] = y
      BY ElemsIndex, <1>1, Zenon
    <2>2. CASE i = 1
      BY <2>1, <2>2
    <2>3. CASE i # 1
      <3>1. i - 1 \in 1..Len(Tail(q)) /\ Tail(q)[i - 1] = y
        BY <2>1, <2>3
      <3> QED BY <3>1, ElemsIndex, <1>1, Zenon
    <2> QED BY <2>2, <2>3, Zenon
  <1>3. ASSUME NEW y \in Elems(Tail(q)) PROVE y \in Elems(q)
    <2>1. PICK i \in 1..Len(Tail(q)) : Tail(q)[i] = y
      BY ElemsIndex, <1>1, Zenon
    <2>2. i + 1 \in 1..Len(q) /\ q[i + 1] = y
      BY <2>1
    <2> QED BY <2>2, ElemsIndex, <1>1, Zenon
  <1>4. Head(q) \in Elems(q)
    <2>1. 1 \in 1..Len(q) /\ q[1] = Head(q)
      OBVIOUS
    <2> QED BY <2>1, ElemsIndex, <1>1, Zenon
  <1> QED BY <1>1, <1>2, <1>3, <1>4, Zenon

\* A user task gives up its CPU.
LEMMA DescheduleOK ==
    ASSUME TypeOK, HomeInv, NEW c \in CPU, current[c] \in User,
           NEW p \in PcSet, Deschedule(c, p)
    PROVE  QueueType' /\ HomeInv' /\ pc' = [pc EXCEPT ![c] = p] /\ runq[c] # <<>>
           /\ current' = [current EXCEPT ![c] = Head(runq[c])]
  <1>1. runq[c] # <<>> /\ IdleOf[c] \in Elems(runq[c])
    BY IdleQueued, Zenon DEF HomeInv
  <1> DEFINE n == Head(runq[c])
  <1>2. /\ n \in Task /\ Tail(runq[c]) \in Seq(Task)
        /\ Elems(runq[c]) = Elems(Tail(runq[c])) \cup {n}
        /\ Len(Tail(runq[c])) = Len(runq[c]) - 1
    BY <1>1, ElemsPop, Zenon DEF TypeOK
  <1>3. /\ current' = [current EXCEPT ![c] = n]
        /\ rstate' = [rstate EXCEPT ![current[c]] = "not", ![n] = "running"]
        /\ lastCpu' = [lastCpu EXCEPT ![n] = c]
        /\ runq' = [runq EXCEPT ![c] = Tail(runq[c])]
        /\ erun' = [erun EXCEPT ![c] = erun[c] - 1]
        /\ pc' = [pc EXCEPT ![c] = p]
    BY <1>1, Zenon DEF Deschedule, TakeSlice, SwitchTo
  <1>4. QueueType'
    <2>1. rstate' \in [Task -> {"not", "running", "resched"}]
      BY <1>2, <1>3, Zenon DEF TypeOK
    <2>2. current' \in [CPU -> Task] /\ lastCpu' \in [Task -> CPU \cup {None}]
      BY <1>2, <1>3, Zenon DEF TypeOK
    <2>3. runq' \in [CPU -> Seq(Task)] /\ erun' \in [CPU -> Int]
      BY <1>2, <1>3 DEF TypeOK
    <2>4. pc' \in [CPU -> PcSet]
      BY <1>3, Zenon DEF TypeOK, PcSet
    <2> QED BY <2>1, <2>2, <2>3, <2>4, Zenon DEF QueueType
  <1>5. IdleAtHome'
    BY <1>1, <1>2, <1>3, Zenon DEF HomeInv, IdleAtHome, TypeOK
  <1>6. RuntimeAccounted'
    BY <1>2, <1>3 DEF HomeInv, RuntimeAccounted, TypeOK
  <1> QED BY <1>1, <1>3, <1>4, <1>5, <1>6, Zenon DEF HomeInv

\* A task enters a run queue, or preempts.
LEMMA EnqueueOK ==
    ASSUME TypeOK, HomeInv, NEW c \in CPU, NEW t \in Task, NEW b \in BOOLEAN,
           Enqueue(c, t, b)
    PROVE  /\ QueueType' /\ HomeInv'
           /\ \/ UNCHANGED <<pc, current>>
              \/ b /\ pc' = [pc EXCEPT ![c] = "switch"] /\ \A d \in CPU \ {c} : current'[d] = current[d]
  <1>0. erun' = [erun EXCEPT ![c] = erun[c] + 1] /\ current[c] \in Task /\ runq[c] \in Seq(Task)
    BY Zenon DEF Enqueue, TypeOK
  <1>1. CASE /\ b
             /\ SwitchTo(c, t, "not")
             /\ runq' = [runq EXCEPT ![c] = Append(runq[c], current[c])]
             /\ pc' = [pc EXCEPT ![c] = "switch"]
    <2>1. /\ Elems(Append(runq[c], current[c])) = Elems(runq[c]) \cup {current[c]}
          /\ Append(runq[c], current[c]) \in Seq(Task)
          /\ Len(Append(runq[c], current[c])) = Len(runq[c]) + 1
      BY <1>0, ElemsAppend
    <2>2. QueueType'
      <3>1. rstate' \in [Task -> {"not", "running", "resched"}]
        BY <1>0, <1>1, Zenon DEF TypeOK, SwitchTo
      <3>2. current' \in [CPU -> Task] /\ lastCpu' \in [Task -> CPU \cup {None}]
        BY <1>1, Zenon DEF TypeOK, SwitchTo
      <3>3. runq' \in [CPU -> Seq(Task)] /\ erun' \in [CPU -> Int]
        BY <1>0, <1>1, <2>1, SMTT(20) DEF TypeOK
      <3>4. pc' \in [CPU -> PcSet]
        BY <1>1, Zenon DEF TypeOK, PcSet
      <3> QED BY <3>1, <3>2, <3>3, <3>4, Zenon DEF QueueType
    <2>3. IdleAtHome'
      BY <1>0, <1>1, <2>1, Zenon DEF HomeInv, IdleAtHome, TypeOK, SwitchTo
    <2>4. RuntimeAccounted'
      BY <1>0, <1>1, <2>1, Zenon DEF HomeInv, RuntimeAccounted, TypeOK
    <2> QED BY <1>1, <2>2, <2>3, <2>4, Zenon DEF HomeInv, SwitchTo, TypeOK
  <1>2. CASE /\ runq' = [runq EXCEPT ![c] = Append(runq[c], t)]
             /\ rstate' = [rstate EXCEPT ![t] = "not"]
             /\ lastCpu' = [lastCpu EXCEPT ![t] = c]
             /\ UNCHANGED <<current, pc>>
    <2>1. /\ Elems(Append(runq[c], t)) = Elems(runq[c]) \cup {t}
          /\ Append(runq[c], t) \in Seq(Task)
          /\ Len(Append(runq[c], t)) = Len(runq[c]) + 1
      BY <1>0, ElemsAppend
    <2>2. QueueType'
      BY <1>0, <1>2, <2>1, SMTT(20) DEF TypeOK, QueueType, PcSet
    <2>3. IdleAtHome'
      BY <1>0, <1>2, <2>1, Zenon DEF HomeInv, IdleAtHome, TypeOK
    <2>4. RuntimeAccounted'
      BY <1>0, <1>2, <2>1, Zenon DEF HomeInv, RuntimeAccounted, TypeOK
    <2> QED BY <1>2, <2>2, <2>3, <2>4, Zenon DEF HomeInv
  <1> QED BY <1>1, <1>2, Zenon DEF Enqueue, Preempt

\* A woken task is queued here or pushed to another CPU.
LEMMA UnblockOK ==
    ASSUME TypeOK, HomeInv, NEW c \in CPU, NEW t \in User, NEW b \in BOOLEAN,
           Unblock(c, t, b)
    PROVE  /\ QueueType' /\ HomeInv'
           /\ migq' \in [CPU -> Seq(Task)] /\ send' \in [CPU -> CPU \cup {None}]
           /\ \/ UNCHANGED <<pc, current>>
              \/ b /\ pc' = [pc EXCEPT ![c] = "switch"] /\ \A d \in CPU \ {c} : current'[d] = current[d]
  <1>0. t \in Task
    BY Zenon DEF Task
  <1>1. PICK d \in CPU :
          IF d = c
          THEN Enqueue(c, t, b) /\ UNCHANGED <<migq, send>>
          ELSE /\ migq' = [migq EXCEPT ![d] = Append(migq[d], t)]
               /\ send' = [send EXCEPT ![c] = d]
               /\ rstate' = [rstate EXCEPT ![t] = "not"]
               /\ lastCpu' = [lastCpu EXCEPT ![t] = d]
               /\ UNCHANGED <<current, runq, erun, pc>>
    BY ConstAssumption, Zenon DEF Unblock
  <1>2. CASE d = c
    <2>1. Enqueue(c, t, b) /\ UNCHANGED <<migq, send>>
      BY <1>1, <1>2, Zenon
    <2>2. migq' \in [CPU -> Seq(Task)] /\ send' \in [CPU -> CPU \cup {None}]
      BY <2>1, Zenon DEF TypeOK
    <2> QED BY <1>0, <2>1, <2>2, EnqueueOK, Zenon
  <1>3. CASE d # c
    <2>0. /\ migq' = [migq EXCEPT ![d] = Append(migq[d], t)]
          /\ send' = [send EXCEPT ![c] = d]
          /\ rstate' = [rstate EXCEPT ![t] = "not"]
          /\ lastCpu' = [lastCpu EXCEPT ![t] = d]
          /\ UNCHANGED <<current, runq, erun, pc>>
      BY <1>1, <1>3, Zenon
    <2>1. migq' \in [CPU -> Seq(Task)]
      <3>1. Append(migq[d], t) \in Seq(Task)
        BY <1>0 DEF TypeOK
      <3> QED BY <2>0, <3>1, Zenon DEF TypeOK
    <2>2. send' \in [CPU -> CPU \cup {None}]
      BY <2>0, Zenon DEF TypeOK
    <2>3. QueueType'
      BY <1>0, <2>0, Zenon DEF TypeOK, QueueType, PcSet
    <2>4. HomeInv'
      BY <2>0, Zenon DEF HomeInv, IdleAtHome, RuntimeAccounted, Elems
    <2> QED BY <2>0, <2>1, <2>2, <2>3, <2>4, Zenon
  <1> QED BY <1>2, <1>3, Zenon

\* The current task goes to the tail of its run queue.
LEMMA RescheduleOK ==
    ASSUME TypeOK, HomeInv, NEW c \in CPU, Reschedule(c)
    PROVE  /\ QueueType' /\ HomeInv' /\ UNCHANGED migq
           /\ pc' = [pc EXCEPT ![c] = "switch"]
           /\ \A d \in CPU \ {c} : current'[d] = current[d]
  <1> DEFINE n == Head(runq[c])
             q == Tail(runq[c])
  <1>1. /\ runq[c] # <<>> /\ UNCHANGED <<migq, erun>>
        /\ current' = [current EXCEPT ![c] = n]
        /\ rstate' = [rstate EXCEPT ![current[c]] = "not", ![n] = "running"]
        /\ lastCpu' = [lastCpu EXCEPT ![n] = c]
        /\ runq' = [runq EXCEPT ![c] = Append(q, current[c])]
        /\ pc' = [pc EXCEPT ![c] = "switch"]
    BY Zenon DEF Reschedule, SwitchTo
  <1>2. /\ n \in Task /\ q \in Seq(Task) /\ current[c] \in Task
        /\ Elems(runq[c]) = Elems(q) \cup {n} /\ Len(q) = Len(runq[c]) - 1
    BY <1>1, ElemsPop, Zenon DEF TypeOK
  <1>3. /\ Append(q, current[c]) \in Seq(Task)
        /\ Elems(Append(q, current[c])) = Elems(q) \cup {current[c]}
        /\ Len(Append(q, current[c])) = Len(runq[c])
    <2> HIDE DEF n, q
    <2>1. runq[c] \in Seq(Task)
      BY Zenon DEF TypeOK
    <2>2. Append(q, current[c]) \in Seq(Task) /\ Len(Append(q, current[c])) = Len(q) + 1
      BY <1>2
    <2> QED BY <1>2, <2>1, <2>2, ElemsAppend
  <1> HIDE DEF n, q
  <1>4. QueueType'
    <2>1. rstate' \in [Task -> {"not", "running", "resched"}]
      BY <1>1, <1>2, Zenon DEF TypeOK
    <2>2. current' \in [CPU -> Task] /\ lastCpu' \in [Task -> CPU \cup {None}]
      BY <1>1, <1>2, Zenon DEF TypeOK
    <2>3. runq' \in [CPU -> Seq(Task)] /\ erun' \in [CPU -> Int]
      BY <1>1, <1>3, Zenon DEF TypeOK
    <2>4. pc' \in [CPU -> PcSet]
      BY <1>1, Zenon DEF TypeOK, PcSet
    <2> QED BY <2>1, <2>2, <2>3, <2>4, Zenon DEF QueueType
  <1>5. IdleAtHome'
    BY <1>1, <1>2, <1>3, Zenon DEF HomeInv, IdleAtHome, TypeOK
  <1>6. RuntimeAccounted'
    BY <1>1, <1>3, Zenon DEF HomeInv, RuntimeAccounted, TypeOK
  <1> QED BY <1>1, <1>4, <1>5, <1>6, Zenon DEF HomeInv, TypeOK

-----------------------------------------------------------------------------
\* A step of c that leaves the tokens alone and switches, or not, keeps the rest.
LEMMA WorkKept ==
    ASSUME TypeOK, WorkOK, NEW c \in CPU, UNCHANGED <<hold, tgt, tok>>,
           \/ UNCHANGED <<pc, current>>
           \/ pc' = [pc EXCEPT ![c] = "switch"] /\ \A d \in CPU \ {c} : current'[d] = current[d]
    PROVE  WorkOK'
  <1>1. CASE UNCHANGED <<pc, current>>
    BY <1>1, Zenon DEF WorkOK
  <1>2. CASE pc' = [pc EXCEPT ![c] = "switch"] /\ \A d \in CPU \ {c} : current'[d] = current[d]
    <2>1. pc'[c] = "switch" /\ \A d \in CPU \ {c} : pc'[d] = pc[d]
      BY <1>2, Zenon DEF TypeOK
    <2> QED BY <1>2, <2>1, Zenon DEF WorkOK
  <1> QED BY <1>1, <1>2, Zenon

\* The state after boot: every CPU runs its idle task, counted as one slice.
LEMMA InitOK == Init => SchedInv
  <1> SUFFICES ASSUME Init PROVE SchedInv
    BY Zenon
  <1>1. TypeOK
    <2>1. lastCpu \in [Task -> CPU \cup {None}]
      BY ConstAssumption, Zenon DEF Init, Task, Idle
    <2>2. current \in [CPU -> Task] /\ exec \in [CPU -> Task]
      BY ConstAssumption, Zenon DEF Init, Task
    <2>3. loopLeft \in [Task -> 0..MaxTrial]
      BY ConstAssumption DEF Init
    <2> QED BY <2>1, <2>2, <2>3 DEF Init, TypeOK
  <1>2. IdleAtHome /\ RuntimeAccounted
    BY DEF Init, IdleAtHome, RuntimeAccounted
  <1>3. WorkOK
    BY Zenon DEF Init, WorkOK
  <1> QED BY <1>1, <1>2, <1>3, Zenon DEF SchedInv

\* Sending the IPI of task_migrate touches no queue.
LEMMA SendIpiOK ==
    ASSUME SchedInv, NEW c \in CPU, SendIpi(c)
    PROVE  SchedInv'
  <1>0. TypeOK /\ HomeInv /\ WorkOK
    BY Zenon DEF SchedInv, HomeInv
  <1>1. TypeOK'
    BY <1>0, Zenon DEF SendIpi, TypeOK, queues, owners, tokens, cpus
  <1>2. HomeInv'
    BY <1>0, Zenon DEF SendIpi, HomeInv, IdleAtHome, RuntimeAccounted, Elems, queues, owners, tokens, cpus
  <1>3. WorkOK'
    BY <1>0, Zenon DEF SendIpi, WorkOK, TypeOK, Free, queues, owners, tokens, cpus
  <1> QED BY <1>1, <1>2, <1>3, Zenon DEF SchedInv, HomeInv

\* Switching stacks only moves the CPU to the stack of its current task.
LEMMA SwitchKframeOK ==
    ASSUME SchedInv, NEW c \in CPU, SwitchKframe(c)
    PROVE  SchedInv'
  <1>0. TypeOK /\ HomeInv /\ WorkOK
    BY Zenon DEF SchedInv, HomeInv
  <1>1. TypeOK'
    BY <1>0, Zenon DEF SwitchKframe, TypeOK, queues, owners, tokens, cpus
  <1>2. HomeInv'
    BY <1>0, Zenon DEF SwitchKframe, HomeInv, IdleAtHome, RuntimeAccounted, Elems, queues, owners, tokens, cpus
  <1>3. WorkOK'
    BY <1>0, Zenon DEF SwitchKframe, WorkOK, TypeOK, Free, queues, owners, tokens, cpus
  <1> QED BY <1>1, <1>2, <1>3, Zenon DEF SchedInv, HomeInv

\* The end of Ready::exit hands the context to the dropper.
LEMMA PushDropperOK ==
    ASSUME SchedInv, NEW c \in CPU, PushDropper(c)
    PROVE  SchedInv'
  <1>0. TypeOK /\ HomeInv /\ WorkOK
    BY Zenon DEF SchedInv, HomeInv
  <1>1. TypeOK'
    BY <1>0, SMTT(20) DEF PushDropper, DropLater, TypeOK, queues, owners, tokens, cpus
  <1>2. HomeInv'
    BY <1>0, Zenon DEF PushDropper, DropLater, HomeInv, IdleAtHome, RuntimeAccounted, Elems, queues, owners, tokens, cpus
  <1>3. WorkOK'
    BY <1>0, Zenon DEF PushDropper, DropLater, WorkOK, TypeOK, Free, queues, owners, tokens, cpus
  <1> QED BY <1>1, <1>2, <1>3, Zenon DEF SchedInv, HomeInv

\* An iteration of the idle loop drops a context and asks for a reschedule.
LEMMA IdleLoopOK ==
    ASSUME SchedInv, NEW c \in CPU, IdleLoop(c)
    PROVE  SchedInv'
  <1>0. TypeOK /\ HomeInv /\ WorkOK
    BY Zenon DEF SchedInv, HomeInv
  <1>1. TypeOK'
    BY <1>0, SMTT(20) DEF IdleLoop, TypeOK, queues, owners, tokens, cpus
  <1>2. HomeInv'
    BY <1>0, Zenon DEF IdleLoop, HomeInv, IdleAtHome, RuntimeAccounted, Elems, queues, owners, tokens, cpus
  <1>3. WorkOK'
    BY <1>0, Zenon DEF IdleLoop, WorkOK, TypeOK, Free, queues, owners, tokens, cpus
  <1> QED BY <1>1, <1>2, <1>3, Zenon DEF SchedInv, HomeInv

\* task_sleep(0) only marks the current task.
LEMMA YieldOK ==
    ASSUME SchedInv, NEW c \in CPU, Yield(c)
    PROVE  SchedInv'
  <1>0. TypeOK /\ HomeInv /\ WorkOK
    BY Zenon DEF SchedInv, HomeInv
  <1>1. TypeOK'
    BY <1>0, Zenon DEF Yield, TypeOK, queues, owners, tokens, cpus
  <1>2. HomeInv'
    BY <1>0, Zenon DEF Yield, HomeInv, IdleAtHome, RuntimeAccounted, Elems, queues, owners, tokens, cpus
  <1>3. WorkOK'
    BY <1>0, Zenon DEF Yield, WorkOK, TypeOK, Free, queues, owners, tokens, cpus
  <1> QED BY <1>1, <1>2, <1>3, Zenon DEF SchedInv, HomeInv

\* Taking a suspend signal starts a suspension of the current user task.
LEMMA TickSuspendOK ==
    ASSUME SchedInv, NEW c \in CPU, TickSuspend(c)
    PROVE  SchedInv'
  <1>0. TypeOK /\ HomeInv /\ WorkOK
    BY Zenon DEF SchedInv, HomeInv
  <1>1. TypeOK'
    BY <1>0, Zenon DEF TickSuspend, TypeOK, queues, owners, tokens, cpus
  <1>2. HomeInv'
    BY <1>0, Zenon DEF TickSuspend, HomeInv, IdleAtHome, RuntimeAccounted, Elems, queues, owners, tokens, cpus
  <1>3. WorkOK'
    BY <1>0, ZenonT(30) DEF TickSuspend, WorkOK, TypeOK, Free, queues, owners, tokens, cpus
  <1> QED BY <1>1, <1>2, <1>3, Zenon DEF SchedInv, HomeInv

\* Taking the migrate IPI starts a loop of at most MAX_TRIAL turns.
LEMMA MigrateHandlerOK ==
    ASSUME SchedInv, NEW c \in CPU, MigrateHandler(c)
    PROVE  SchedInv'
  <1>0. TypeOK /\ HomeInv /\ WorkOK
    BY Zenon DEF SchedInv, HomeInv
  <1>1. TypeOK'
    BY <1>0, ConstAssumption, SMTT(20) DEF MigrateHandler, Trials, TypeOK, queues, owners, tokens, cpus
  <1>2. HomeInv'
    BY <1>0, Zenon DEF MigrateHandler, Trials, HomeInv, IdleAtHome, RuntimeAccounted, Elems, queues, owners, tokens, cpus
  <1>3. WorkOK'
    BY <1>0, Zenon DEF MigrateHandler, Trials, WorkOK, TypeOK, Free, queues, owners, tokens, cpus
  <1> QED BY <1>1, <1>2, <1>3, Zenon DEF SchedInv, HomeInv

\* TASK_CTL_KILL only sets the signal.
LEMMA CtlKillOK ==
    ASSUME SchedInv, NEW c \in CPU, NEW t \in User, CtlKill(c, t)
    PROVE  SchedInv'
  <1>0. TypeOK /\ HomeInv /\ WorkOK
    BY Zenon DEF SchedInv, HomeInv
  <1>1. TypeOK'
    BY <1>0, Zenon DEF CtlKill, TypeOK, queues, owners, tokens, cpus
  <1>2. HomeInv'
    BY <1>0, Zenon DEF CtlKill, HomeInv, IdleAtHome, RuntimeAccounted, Elems, queues, owners, tokens, cpus
  <1>3. WorkOK'
    BY <1>0, Zenon DEF CtlKill, WorkOK, TypeOK, Free, queues, owners, tokens, cpus
  <1> QED BY <1>1, <1>2, <1>3, Zenon DEF SchedInv, HomeInv

\* TASK_CTL_SUSPEND makes a token with a target and sets the signal.
LEMMA CtlSuspendOK ==
    ASSUME SchedInv, NEW c \in CPU, NEW t \in User, NEW k \in Token, CtlSuspend(c, t, k)
    PROVE  SchedInv'
  <1>0. TypeOK /\ HomeInv /\ WorkOK
    BY Zenon DEF SchedInv, HomeInv
  <1>1. TypeOK'
    BY <1>0, Zenon DEF CtlSuspend, TypeOK, queues, owners, tokens, cpus
  <1>2. HomeInv'
    BY <1>0, Zenon DEF CtlSuspend, HomeInv, IdleAtHome, RuntimeAccounted, Elems, queues, owners, tokens, cpus
  <1>3. WorkOK'
    BY <1>0, Zenon DEF CtlSuspend, WorkOK, TypeOK, Free, queues, owners, tokens, cpus
  <1> QED BY <1>1, <1>2, <1>3, Zenon DEF SchedInv, HomeInv

\* task_new creates a task in the slot of a token; no queue gets it.
LEMMA TaskNewOK ==
    ASSUME SchedInv, NEW c \in CPU, NEW t \in User, NEW k \in Token, TaskNew(c, t, k)
    PROVE  SchedInv'
  <1>0. TypeOK /\ HomeInv /\ WorkOK
    BY Zenon DEF SchedInv, HomeInv
  <1>1. TypeOK'
    BY <1>0, Zenon DEF TaskNew, TypeOK, queues, owners, tokens, cpus
  <1>2. HomeInv'
    BY <1>0, Zenon DEF TaskNew, HomeInv, IdleAtHome, RuntimeAccounted, Elems, queues, owners, tokens, cpus
  <1>3. WorkOK'
    BY <1>0, Zenon DEF TaskNew, WorkOK, TypeOK, Free, queues, owners, tokens, cpus
  <1> QED BY <1>1, <1>2, <1>3, Zenon DEF SchedInv, HomeInv

\* The second half of SuspendToken::drop withdraws the signal.
LEMMA DropSignalOK ==
    ASSUME SchedInv, NEW c \in CPU, DropSignal(c)
    PROVE  SchedInv'
  <1>0. TypeOK /\ HomeInv /\ WorkOK
    BY Zenon DEF SchedInv, HomeInv
  <1>1. TypeOK'
    BY <1>0, Zenon DEF DropSignal, TypeOK, queues, owners, tokens, cpus
  <1>2. HomeInv'
    BY <1>0, Zenon DEF DropSignal, HomeInv, IdleAtHome, RuntimeAccounted, Elems, queues, owners, tokens, cpus
  <1>3. WorkOK'
    BY <1>0, Zenon DEF DropSignal, WorkOK, TypeOK, Free, queues, owners, tokens, cpus
  <1> QED BY <1>1, <1>2, <1>3, Zenon DEF SchedInv, HomeInv

\* block_current: a user task leaves its CPU to a task of the run queue.
LEMMA BlockCurrentOK ==
    ASSUME SchedInv, NEW c \in CPU, BlockCurrent(c)
    PROVE  SchedInv'
  <1>0. TypeOK /\ HomeInv /\ WorkOK
    BY Zenon DEF SchedInv, HomeInv
  <1>a. current[c] \in User /\ Deschedule(c, "switch") /\ "switch" \in PcSet
    BY <1>0, Zenon DEF BlockCurrent, WorkOK, PcSet
  <1>b. QueueType' /\ HomeInv' /\ pc' = [pc EXCEPT ![c] = "switch"] /\ runq[c] # <<>>
        /\ current' = [current EXCEPT ![c] = Head(runq[c])]
    BY <1>0, <1>a, DescheduleOK, Zenon
  <1>1. TypeOK'
    BY <1>0, <1>a, <1>b, Zenon DEF BlockCurrent, TypeOK, QueueType, PcSet, WorkOK, Task, queues, owners, tokens, cpus
  <1>2. HomeInv'
    BY <1>b, Zenon
  <1>3. WorkOK'
    BY <1>0, <1>b, Zenon DEF BlockCurrent, WorkOK, TypeOK, queues, owners, tokens, cpus
  <1> QED BY <1>1, <1>2, <1>3, Zenon DEF SchedInv, HomeInv

\* exit_current: likewise, for good.
LEMMA ExitCurrentOK ==
    ASSUME SchedInv, NEW c \in CPU, NEW b \in BOOLEAN, ExitCurrent(c, b)
    PROVE  SchedInv'
  <1>0. TypeOK /\ HomeInv /\ WorkOK
    BY Zenon DEF SchedInv, HomeInv
  <1>a. current[c] \in User /\ Deschedule(c, "exit") /\ "exit" \in PcSet
    BY <1>0, Zenon DEF ExitCurrent, WorkOK, PcSet
  <1>b. QueueType' /\ HomeInv' /\ pc' = [pc EXCEPT ![c] = "exit"] /\ runq[c] # <<>>
        /\ current' = [current EXCEPT ![c] = Head(runq[c])]
    BY <1>0, <1>a, DescheduleOK, Zenon
  <1>1. TypeOK'
    BY <1>0, <1>a, <1>b, Zenon DEF ExitCurrent, TypeOK, QueueType, PcSet, WorkOK, Task, queues, owners, tokens, cpus
  <1>2. HomeInv'
    BY <1>b, Zenon
  <1>3. WorkOK'
    BY <1>0, <1>b, Zenon DEF ExitCurrent, WorkOK, TypeOK, queues, owners, tokens, cpus
  <1> QED BY <1>1, <1>2, <1>3, Zenon DEF SchedInv, HomeInv

\* A tick that kills: likewise.
LEMMA TickKillOK ==
    ASSUME SchedInv, NEW c \in CPU, TickKill(c)
    PROVE  SchedInv'
  <1>0. TypeOK /\ HomeInv /\ WorkOK
    BY Zenon DEF SchedInv, HomeInv
  <1>a. current[c] \in User /\ Deschedule(c, "exit") /\ "exit" \in PcSet
    BY <1>0, Zenon DEF TickKill, WorkOK, PcSet
  <1>b. QueueType' /\ HomeInv' /\ pc' = [pc EXCEPT ![c] = "exit"] /\ runq[c] # <<>>
        /\ current' = [current EXCEPT ![c] = Head(runq[c])]
    BY <1>0, <1>a, DescheduleOK, Zenon
  <1>1. TypeOK'
    BY <1>0, <1>a, <1>b, Zenon DEF TickKill, TypeOK, QueueType, PcSet, WorkOK, Task, queues, owners, tokens, cpus
  <1>2. HomeInv'
    BY <1>b, Zenon
  <1>3. WorkOK'
    BY <1>0, <1>b, Zenon DEF TickKill, WorkOK, TypeOK, queues, owners, tokens, cpus
  <1> QED BY <1>1, <1>2, <1>3, Zenon DEF SchedInv, HomeInv

\* The suspension of the current task: likewise, into a slot.
LEMMA FillSlotOK ==
    ASSUME SchedInv, NEW c \in CPU, FillSlot(c)
    PROVE  SchedInv'
  <1>0. TypeOK /\ HomeInv /\ WorkOK
    BY Zenon DEF SchedInv, HomeInv
  <1>a. current[c] \in User /\ Deschedule(c, "switch") /\ "switch" \in PcSet
    BY <1>0, Zenon DEF FillSlot, WorkOK, PcSet
  <1>b. QueueType' /\ HomeInv' /\ pc' = [pc EXCEPT ![c] = "switch"] /\ runq[c] # <<>>
        /\ current' = [current EXCEPT ![c] = Head(runq[c])]
    BY <1>0, <1>a, DescheduleOK, Zenon
  <1>1. TypeOK'
    <2>1. /\ hold[c] \in Token /\ current[c] \in Task
          /\ slot' = [slot EXCEPT ![hold[c]] = current[c]]
          /\ tickSelf' = [tickSelf EXCEPT ![current[c]] = c]
      BY <1>0, <1>a, <1>b, Zenon DEF FillSlot, WorkOK, Task
    <2>2. slot' \in [Token -> User \cup {None}] /\ tickSelf' \in [Task -> CPU \cup {None}]
      BY <1>0, <1>a, <2>1, Zenon DEF TypeOK
    <2> QED BY <1>0, <1>b, <2>2, Zenon DEF FillSlot, TypeOK, QueueType, PcSet, owners
  <1>2. HomeInv'
    BY <1>b, Zenon
  <1>3. WorkOK'
    BY <1>0, <1>b, Zenon DEF FillSlot, WorkOK, TypeOK, queues, owners, tokens, cpus
  <1> QED BY <1>1, <1>2, <1>3, Zenon DEF SchedInv, HomeInv

\* task_exec queues the new task here or on another CPU.
LEMMA TaskExecOK ==
    ASSUME SchedInv, NEW c \in CPU, NEW t \in User, TaskExec(c, t)
    PROVE  SchedInv'
  <1>0. TypeOK /\ HomeInv /\ WorkOK
    BY Zenon DEF SchedInv, HomeInv
  <1>a. Unblock(c, t, TRUE)
    BY Zenon DEF TaskExec
  <1>b. /\ QueueType' /\ HomeInv'
        /\ migq' \in [CPU -> Seq(Task)] /\ send' \in [CPU -> CPU \cup {None}]
        /\ \/ UNCHANGED <<pc, current>>
           \/ pc' = [pc EXCEPT ![c] = "switch"] /\ \A d \in CPU \ {c} : current'[d] = current[d]
    BY <1>0, <1>a, UnblockOK, Zenon
  <1>1. TypeOK'
    BY <1>0, <1>b, Zenon DEF TaskExec, TypeOK, QueueType, PcSet, queues, owners, tokens, cpus
  <1>2. HomeInv'
    BY <1>b, Zenon
  <1>3. WorkOK'
    BY <1>0, <1>b, WorkKept, Zenon DEF TaskExec, tokens
  <1> QED BY <1>1, <1>2, <1>3, Zenon DEF SchedInv, HomeInv

\* Timer::fire and cancel unblock a parked task.
LEMMA WakeOK ==
    ASSUME SchedInv, NEW c \in CPU, NEW t \in User, NEW b \in BOOLEAN, Wake(c, t, b)
    PROVE  SchedInv'
  <1>0. TypeOK /\ HomeInv /\ WorkOK
    BY Zenon DEF SchedInv, HomeInv
  <1>a. Unblock(c, t, b)
    BY Zenon DEF Wake
  <1>b. /\ QueueType' /\ HomeInv'
        /\ migq' \in [CPU -> Seq(Task)] /\ send' \in [CPU -> CPU \cup {None}]
        /\ \/ UNCHANGED <<pc, current>>
           \/ pc' = [pc EXCEPT ![c] = "switch"] /\ \A d \in CPU \ {c} : current'[d] = current[d]
    BY <1>0, <1>a, UnblockOK, ZenonT(30)
  <1>1. TypeOK'
    <2>1. parked' \in SUBSET Task /\ UNCHANGED <<life, dropper, main, tokens, exec, hold, ipi,
                                                  loopLeft, tickSelf>>
      BY <1>0, Zenon DEF Wake, Unpark, TypeOK
    <2> QED BY <1>0, <1>b, <2>1, Zenon DEF TypeOK, QueueType, PcSet, tokens
  <1>2. HomeInv'
    BY <1>b, Zenon
  <1>3. WorkOK'
    BY <1>0, <1>b, WorkKept, Zenon DEF Wake, tokens
  <1> QED BY <1>1, <1>2, <1>3, Zenon DEF SchedInv, HomeInv

\* A tick puts the current task at the tail of its own run queue.
LEMMA TickOK ==
    ASSUME SchedInv, NEW c \in CPU, Tick(c) \/ TickTail(c)
    PROVE  SchedInv'
  <1>0. TypeOK /\ HomeInv /\ WorkOK
    BY Zenon DEF SchedInv, HomeInv
  <1>a. CASE Reschedule(c)
    <2>1. /\ QueueType' /\ HomeInv' /\ UNCHANGED migq
          /\ pc' = [pc EXCEPT ![c] = "switch"]
          /\ \A d \in CPU \ {c} : current'[d] = current[d]
      BY <1>0, <1>a, RescheduleOK, Zenon
    <2>2. TypeOK'
      <3>1. UNCHANGED <<owners, tokens, exec, hold, ipi, send, loopLeft>>
        BY Zenon DEF Tick, TickTail
      <3>2. tickSelf' = tickSelf \/ tickSelf' = [tickSelf EXCEPT ![current[c]] = None]
        BY Zenon DEF Tick, TickTail
      <3>3. tickSelf' \in [Task -> CPU \cup {None}]
        BY <1>0, <3>2, Zenon DEF TypeOK
      <3> QED BY <1>0, <2>1, <3>1, <3>3, Zenon DEF TypeOK, QueueType, PcSet, owners, tokens
    <2>3. WorkOK'
      <3>1. UNCHANGED <<hold, tgt, tok>>
        BY Zenon DEF Tick, TickTail, tokens
      <3> QED BY <1>0, <2>1, <3>1, WorkKept, Zenon
    <2> QED BY <2>1, <2>2, <2>3, Zenon DEF SchedInv, HomeInv
  <1>b. CASE TickTail(c) /\ UNCHANGED <<queues, pc>>
    <2>1. TypeOK'
      BY <1>0, <1>b, Zenon DEF TickTail, TypeOK, queues, owners, tokens
    <2>2. UNCHANGED <<queues, pc, owners, tokens, hold>>
      BY <1>b, Zenon DEF TickTail
    <2>3. HomeInv'
      BY <1>0, <2>2, Zenon DEF HomeInv, IdleAtHome, RuntimeAccounted, Elems, queues
    <2>4. WorkOK'
      BY <1>0, <2>2, WorkKept, Zenon DEF queues, tokens
    <2> QED BY <2>1, <2>3, <2>4, Zenon DEF SchedInv, HomeInv
  <1> QED BY <1>a, <1>b, Zenon DEF Tick, TickTail

\* A turn of task_migrate_handler moves a task, and its slice, to this CPU.
LEMMA MigrateStepOK ==
    ASSUME SchedInv, NEW c \in CPU, MigrateStep(c)
    PROVE  SchedInv'
  <1>0. TypeOK /\ HomeInv /\ WorkOK
    BY Zenon DEF SchedInv, HomeInv
  <1>a. CASE migq[c] = <<>>
    <2>0. /\ UNCHANGED <<queues, pc, owners, tokens, exec, hold, ipi, send, tickSelf>>
          /\ loopLeft' \in [Task -> 0..MaxTrial]
      <3>1. /\ loopLeft' = [loopLeft EXCEPT ![current[c]] = 0]
            /\ UNCHANGED <<queues, pc, owners, tokens, exec, hold, ipi, send, tickSelf>>
        BY <1>a, Zenon DEF MigrateStep, Steal
      <3>2. 0 \in 0..MaxTrial
        BY ConstAssumption, SMTT(20)
      <3> QED BY <1>0, <3>1, <3>2, Zenon DEF TypeOK
    <2>1. TypeOK'
      BY <1>0, <2>0, Zenon DEF TypeOK, queues, owners, tokens
    <2>2. HomeInv' /\ WorkOK'
      BY <1>0, <2>0, Zenon DEF HomeInv, IdleAtHome, RuntimeAccounted, Elems, WorkOK,
                        queues, owners, tokens
    <2> QED BY <2>1, <2>2, Zenon DEF SchedInv, HomeInv
  <1>b. CASE migq[c] # <<>>
    <2>0. /\ Head(migq[c]) \in Task /\ Tail(migq[c]) \in Seq(Task)
          /\ Enqueue(c, Head(migq[c]), TRUE)
          /\ loopLeft[current[c]] - 1 \in 0..MaxTrial
      <3>1. loopLeft[current[c]] > 0 /\ loopLeft[current[c]] \in 0..MaxTrial
        BY <1>0, Zenon DEF MigrateStep, LoopGoesOn, TypeOK
      <3>2. migq[c] \in Seq(Task)
        BY <1>0, Zenon DEF TypeOK
      <3>3. Enqueue(c, Head(migq[c]), TRUE)
        BY <1>b, Zenon DEF MigrateStep, Steal
      <3>4. loopLeft[current[c]] - 1 \in 0..MaxTrial
        <4>1. MaxTrial \in Nat
          BY ConstAssumption, Zenon
        <4> QED BY <3>1, <4>1
      <3> QED BY <1>b, <3>2, <3>3, <3>4, ElemsPop, Zenon
    <2>a. /\ loopLeft' = [loopLeft EXCEPT ![current[c]] = loopLeft[current[c]] - 1]
          /\ migq' = [migq EXCEPT ![c] = Tail(migq[c])]
          /\ UNCHANGED <<owners, tokens, exec, hold, ipi, send, tickSelf>>
      BY <1>b, Zenon DEF MigrateStep, Steal
    <2>1. /\ QueueType' /\ HomeInv'
          /\ \/ UNCHANGED <<pc, current>>
             \/ pc' = [pc EXCEPT ![c] = "switch"] /\ \A d \in CPU \ {c} : current'[d] = current[d]
      BY <1>0, <2>0, EnqueueOK, Zenon
    <2>2. TypeOK'
      BY <1>0, <2>0, <2>a, <2>1, Zenon DEF TypeOK, QueueType, PcSet, owners, tokens
    <2>3. WorkOK'
      BY <1>0, <2>a, <2>1, WorkKept, Zenon DEF tokens
    <2> QED BY <2>1, <2>2, <2>3, Zenon DEF SchedInv, HomeInv
  <1> QED BY <1>a, <1>b, Zenon

\* SuspendToken::drop unblocks the task of the slot, or goes on to the signal.
LEMMA DropTokenOK ==
    ASSUME SchedInv, NEW c \in CPU, NEW k \in Token, DropToken(c, k)
    PROVE  SchedInv'
  <1>0. TypeOK /\ HomeInv /\ WorkOK
    BY Zenon DEF SchedInv, HomeInv
  <1>a. CASE slot[k] # None
    <2>0. slot[k] \in User /\ Unblock(c, slot[k], TRUE) /\ slot' = [slot EXCEPT ![k] = None]
          /\ UNCHANGED hold
      BY <1>0, <1>a, Zenon DEF DropToken, TypeOK
    <2>1. /\ QueueType' /\ HomeInv'
          /\ migq' \in [CPU -> Seq(Task)] /\ send' \in [CPU -> CPU \cup {None}]
          /\ \/ UNCHANGED <<pc, current>>
             \/ pc' = [pc EXCEPT ![c] = "switch"] /\ \A d \in CPU \ {c} : current'[d] = current[d]
      BY <1>0, <2>0, UnblockOK, Zenon
    <2>2. TypeOK'
      BY <1>0, <2>0, <2>1, Zenon DEF DropToken, TypeOK, QueueType, PcSet, owners
    <2>3. WorkOK'
      <3>1. tok' = [tok EXCEPT ![k] = "dropped"] /\ UNCHANGED <<tgt, hold>> /\ tok[k] = "held"
        BY <2>0, Zenon DEF DropToken
      <3>2. \A d \in CPU : \/ pc'[d] = "switch"
                           \/ pc'[d] = pc[d] /\ current'[d] = current[d]
        <4>1. CASE UNCHANGED <<pc, current>>
          BY <4>1, Zenon
        <4>2. CASE pc' = [pc EXCEPT ![c] = "switch"] /\ \A d \in CPU \ {c} : current'[d] = current[d]
          <5>1. pc'[c] = "switch"
            BY <1>0, <4>2, Zenon DEF TypeOK
          <5>2. \A d \in CPU \ {c} : pc'[d] = pc[d]
            BY <1>0, <4>2, Zenon DEF TypeOK
          <5> QED BY <4>2, <5>1, <5>2, Zenon
        <4> QED BY <2>1, <4>1, <4>2, Zenon
      <3>3. \A j \in Token : tok'[j] # "none" => tok[j] # "none"
        BY <1>0, <3>1, Zenon DEF TypeOK
      <3>4. \A j \in Token : tok[j] # "none" => tok'[j] # "none"
        BY <1>0, <3>1, Zenon DEF TypeOK
      <3> QED BY <1>0, <3>1, <3>2, <3>3, <3>4, Zenon DEF WorkOK
    <2> QED BY <2>1, <2>2, <2>3, Zenon DEF SchedInv, HomeInv
  <1>b. CASE slot[k] = None
    <2>0. /\ tok' = [tok EXCEPT ![k] = "dropped"] /\ tok[k] = "held"
          /\ pc' = [pc EXCEPT ![c] = "dropsig"] /\ hold' = [hold EXCEPT ![c] = k]
          /\ pc[c] = "task"
          /\ UNCHANGED <<queues, slot, send, owners, sig, tgt, exec, ipi, loopLeft, tickSelf>>
      BY <1>b, Zenon DEF DropToken, Free
    <2>1. TypeOK'
      BY <1>0, <2>0, Zenon DEF TypeOK, queues, owners
    <2>2. HomeInv'
      BY <1>0, <2>0, Zenon DEF HomeInv, IdleAtHome, RuntimeAccounted, Elems, queues, owners
    <2>3. WorkOK'
      BY <1>0, <2>0, ZenonT(30) DEF WorkOK, TypeOK, queues
    <2> QED BY <2>1, <2>2, <2>3, Zenon DEF SchedInv, HomeInv
  <1> QED BY <1>a, <1>b, Zenon

\* The invariant is inductive.
LEMMA NextOK == SchedInv /\ [Next]_vars => SchedInv'
  <1> SUFFICES ASSUME SchedInv, [Next]_vars PROVE SchedInv'
    BY Zenon
  <1>1. CASE UNCHANGED vars
    <2>1. TypeOK'
      BY <1>1, Zenon DEF SchedInv, TypeOK, vars, queues, owners, tokens, cpus
    <2>2. IdleAtHome' /\ RuntimeAccounted'
      BY <1>1, Zenon DEF SchedInv, IdleAtHome, RuntimeAccounted, Elems, vars, queues
    <2>3. WorkOK'
      BY <1>1, Zenon DEF SchedInv, WorkOK, vars, queues, tokens, cpus
    <2> QED BY <2>1, <2>2, <2>3, Zenon DEF SchedInv
  <1>2. CASE Next
    BY <1>2, SendIpiOK, SwitchKframeOK, PushDropperOK, IdleLoopOK, BlockCurrentOK, YieldOK,
       TickOK, TickKillOK, TickSuspendOK, FillSlotOK, MigrateHandlerOK, MigrateStepOK,
       DropSignalOK, ExitCurrentOK, TaskExecOK, CtlKillOK, WakeOK, DropTokenOK, TaskNewOK,
       CtlSuspendOK, Zenon DEF Next
  <1> QED BY <1>1, <1>2, Zenon

\* The types of the scheduler's state.
THEOREM TypeCorrect == Spec => []TypeOK
  <1>1. SchedInv => TypeOK
    BY Zenon DEF SchedInv
  <1> QED BY InitOK, NextOK, <1>1, PTL DEF Spec

\* No CPU ever loses its idle task.
THEOREM IdleStaysHome == Spec => []IdleAtHome
  <1>1. SchedInv => IdleAtHome
    BY Zenon DEF SchedInv
  <1> QED BY InitOK, NextOK, <1>1, PTL DEF Spec

\* The expected run time of select_cpu never drifts from the queues.
THEOREM RuntimeNeverDrifts == Spec => []RuntimeAccounted
  <1>1. SchedInv => RuntimeAccounted
    BY Zenon DEF SchedInv
  <1> QED BY InitOK, NextOK, <1>1, PTL DEF Spec

\* exit_current and kill never reach unreachable!("Dead task").
THEOREM DeadTaskNeverReached == Spec => []DeadTaskUnreachable
  <1>1. SchedInv => DeadTaskUnreachable
    BY IdleQueued, Zenon DEF SchedInv, DeadTaskUnreachable
  <1> QED BY InitOK, NextOK, <1>1, PTL DEF Spec

\* An action other than a tick leaves the kill signal of a live task alone: the
\* suspend request is refused (task_ctl), and the drop of a token withdraws only
\* its own signal (SuspendToken::drop).
LEMMA KillKept ==
    ASSUME SchedInv, NEW c \in CPU, NEW t \in User, sig[t] = Kill, life[t] = "live",
           \/ DropSignal(c) \/ TickSuspend(c) \/ TickKill(c)
           \/ \E u \in User : CtlKill(c, u)
           \/ \E u \in User, k \in Token : CtlSuspend(c, u, k)
    PROVE  sig'[t] = Kill \/ life'[t] = "exited"
  <1>0. /\ sig \in [User -> Token \cup {None, Kill}] /\ life \in [Task -> {"new", "live", "exited", "freed"}]
        /\ Kill \notin Token /\ Kill # None /\ t \in Task /\ current \in [CPU -> Task]
    BY ConstAssumption, Zenon DEF SchedInv, TypeOK, Task
  <1>1. CASE DropSignal(c)
    <2>1. hold[c] \in Token
      BY <1>1, Zenon DEF DropSignal, SchedInv, WorkOK
    <2> QED BY <1>0, <1>1, <2>1, Zenon DEF DropSignal
  <1>2. CASE TickSuspend(c)
    BY <1>0, <1>2, Zenon DEF TickSuspend
  <1>3. CASE TickKill(c)
    <2>1. CASE t = current[c]
      <3>1. runq[c] # <<>>
        BY <1>3, <2>1, IdleQueued, Zenon DEF SchedInv
      <3> QED BY <1>0, <1>3, <2>1, <3>1, Zenon DEF TickKill
    <2>2. CASE t # current[c]
      BY <1>0, <1>3, <2>2, Zenon DEF TickKill
    <2> QED BY <2>1, <2>2, Zenon
  <1>4. CASE \E u \in User : CtlKill(c, u)
    BY <1>0, <1>4, Zenon DEF CtlKill
  <1>5. CASE \E u \in User, k \in Token : CtlSuspend(c, u, k)
    BY <1>0, <1>5, Zenon DEF CtlSuspend, MaySuspend
  <1> QED BY <1>1, <1>2, <1>3, <1>4, <1>5, Zenon

\* A pending kill is consumed by the exit of its task and by nothing else
\* (check_signal, task_ctl and SuspendToken::drop).
THEOREM KillNeverLost == Spec => KillIsFinal
  <1>1. SchedInv /\ [Next]_vars =>
           [\A t \in User : sig[t] = Kill /\ life[t] = "live" =>
               sig'[t] = Kill \/ life'[t] = "exited"]_vars
    <2> SUFFICES ASSUME SchedInv, NEW c \in CPU, NEW t \in User, Next, sig[t] = Kill, life[t] = "live"
                 PROVE  sig'[t] = Kill \/ life'[t] = "exited"
      BY Zenon DEF Next
    <2>1. PICK d \in CPU :
             \/ SendIpi(d) \/ SwitchKframe(d) \/ PushDropper(d) \/ IdleLoop(d)
             \/ BlockCurrent(d) \/ Yield(d) \/ Tick(d) \/ FillSlot(d) \/ TickTail(d)
             \/ MigrateHandler(d) \/ MigrateStep(d)
             \/ (\E killAll \in BOOLEAN : ExitCurrent(d, killAll))
             \/ (\E u \in User : TaskExec(d, u))
             \/ (\E u \in User, preempt \in BOOLEAN : Wake(d, u, preempt))
             \/ (\E k \in Token : DropToken(d, k))
             \/ (\E u \in User, k \in Token : TaskNew(d, u, k))
             \/ DropSignal(d) \/ TickSuspend(d) \/ TickKill(d)
             \/ (\E u \in User : CtlKill(d, u))
             \/ (\E u \in User, k \in Token : CtlSuspend(d, u, k))
      BY Zenon DEF Next
    <2>2. CASE \/ DropSignal(d) \/ TickSuspend(d) \/ TickKill(d)
               \/ (\E u \in User : CtlKill(d, u))
               \/ (\E u \in User, k \in Token : CtlSuspend(d, u, k))
      BY <2>2, KillKept, Zenon
    <2>3. CASE \/ SendIpi(d) \/ SwitchKframe(d) \/ PushDropper(d) \/ IdleLoop(d)
               \/ BlockCurrent(d) \/ Yield(d) \/ Tick(d) \/ FillSlot(d) \/ TickTail(d)
               \/ MigrateHandler(d) \/ MigrateStep(d)
               \/ (\E killAll \in BOOLEAN : ExitCurrent(d, killAll))
               \/ (\E u \in User : TaskExec(d, u))
               \/ (\E u \in User, preempt \in BOOLEAN : Wake(d, u, preempt))
               \/ (\E k \in Token : DropToken(d, k))
               \/ (\E u \in User, k \in Token : TaskNew(d, u, k))
      <3>1. CASE SendIpi(d) \/ SwitchKframe(d) \/ PushDropper(d) \/ IdleLoop(d) \/ Yield(d)
        BY <3>1, Zenon DEF SendIpi, SwitchKframe, PushDropper, IdleLoop, Yield, tokens
      <3>2. CASE BlockCurrent(d) \/ Tick(d) \/ FillSlot(d) \/ TickTail(d)
        BY <3>2, Zenon DEF BlockCurrent, Tick, FillSlot, TickTail, tokens
      <3>3. CASE MigrateHandler(d)
        BY <3>3, Zenon DEF MigrateHandler, tokens
      <3>9. CASE MigrateStep(d)
        <4>1. UNCHANGED tokens
          BY <3>9, Zenon DEF MigrateStep
        <4> QED BY <4>1, Zenon DEF tokens
      <3>8. CASE \E killAll \in BOOLEAN : ExitCurrent(d, killAll)
        BY <3>8, Zenon DEF ExitCurrent, tokens
      <3>4. CASE \E u \in User : TaskExec(d, u)
        BY <3>4, Zenon DEF TaskExec, tokens
      <3>5. CASE \E u \in User, preempt \in BOOLEAN : Wake(d, u, preempt)
        BY <3>5, Zenon DEF Wake, tokens
      <3>6. CASE \E k \in Token : DropToken(d, k)
        BY <3>6, Zenon DEF DropToken
      <3>7. CASE \E u \in User, k \in Token : TaskNew(d, u, k)
        BY <3>7, Zenon DEF TaskNew
      <3> QED BY <2>3, <3>1, <3>2, <3>3, <3>4, <3>5, <3>6, <3>7, <3>8, <3>9, Zenon
    <2> QED BY <2>1, <2>2, <2>3, Zenon
  <1> QED BY InitOK, NextOK, <1>1, PTL DEF Spec, KillIsFinal


-----------------------------------------------------------------------------
\* The CPU x has to do with the task t: it runs it, is on its stack, or has it in
\* one of its queues.
OnCpu(x, t) ==
    \/ current[x] = t \/ exec[x] = t
    \/ t \in Elems(runq[x]) \/ t \in Elems(migq[x]) \/ t \in Elems(dropper[x])

\* A CPU has to do only with its own idle task and with the tasks whose affinity
\* allows it: neither a migration nor the resumption of a suspended task brings
\* a task to another one.
AffinityKept ==
    \A x \in CPU, t \in Task : OnCpu(x, t) => IF t \in User THEN x \in Affinity[t] ELSE t = IdleOf[x]

\* A step brings a task only to a CPU that its affinity names.
Brings(x, t) == OnCpu(x, t)' => OnCpu(x, t) \/ (t \in User /\ x \in Affinity[t])

\* What the scheduling helpers leave on the CPUs.
LEMMA DescheduleBrings ==
    ASSUME TypeOK, NEW c \in CPU, NEW p, Deschedule(c, p), UNCHANGED <<migq, dropper, exec>>
    PROVE  \A x \in CPU, t \in Task : Brings(x, t)
  <1>1. CASE runq[c] = <<>>
    BY <1>1, Zenon DEF Deschedule, Brings, OnCpu
  <1>2. CASE runq[c] # <<>>
    <2>0. runq[c] \in Seq(Task) /\ runq \in [CPU -> Seq(Task)] /\ current \in [CPU -> Task]
      BY Zenon DEF TypeOK
    <2>1. /\ \A x \in CPU : current'[x] = IF x = c THEN Head(runq[c]) ELSE current[x]
          /\ \A x \in CPU : runq'[x] = IF x = c THEN Tail(runq[c]) ELSE runq[x]
      BY <1>2, <2>0, Zenon DEF Deschedule, SwitchTo
    <2>2. Elems(runq[c]) = Elems(Tail(runq[c])) \cup {Head(runq[c])}
      BY <1>2, <2>0, ElemsPop, Zenon
    <2> QED BY <2>1, <2>2, Zenon DEF Brings, OnCpu
  <1> QED BY <1>1, <1>2, Zenon

\* Rescheduling (Scheduler::schedule) brings no task to a CPU outside its mask.
LEMMA RescheduleBrings ==
    ASSUME TypeOK, NEW c \in CPU, Reschedule(c), UNCHANGED <<migq, dropper, exec>>
    PROVE  \A x \in CPU, t \in Task : Brings(x, t)
  <1>1. PICK q \in Seq(Task), n \in Task : q = Tail(runq[c]) /\ n = Head(runq[c])
    BY ElemsPop, Zenon DEF Reschedule, TypeOK
  <1>2. /\ \A x \in CPU : current'[x] = IF x = c THEN n ELSE current[x]
        /\ \A x \in CPU : runq'[x] = IF x = c THEN Append(q, current[c]) ELSE runq[x]
    BY <1>1, Zenon DEF Reschedule, SwitchTo, TypeOK
  <1>3. Elems(runq[c]) = Elems(q) \cup {n}
    BY <1>1, ElemsPop, Zenon DEF Reschedule, TypeOK
  <1>4. current[c] \in Task
    BY Zenon DEF TypeOK
  <1>5. Elems(Append(q, current[c])) = Elems(q) \cup {current[c]}
    BY <1>4, ElemsAppend
  <1> QED BY <1>2, <1>3, <1>5, ZenonT(30) DEF Brings, OnCpu

\* Enqueueing brings a task only to a CPU of its mask (enqueue and preemption).
LEMMA EnqueueBrings ==
    ASSUME TypeOK, NEW c \in CPU, NEW u \in Task, NEW b \in BOOLEAN, Enqueue(c, u, b),
           UNCHANGED <<dropper, exec>>,
           \A x \in CPU : Elems(migq'[x]) \subseteq Elems(migq[x]),
           OnCpu(c, u) \/ (u \in User /\ c \in Affinity[u])
    PROVE  \A x \in CPU, t \in Task : Brings(x, t)
  <1>0. runq[c] \in Seq(Task) /\ current[c] \in Task
    BY Zenon DEF TypeOK
  <1>1. CASE SwitchTo(c, u, "not") /\ runq' = [runq EXCEPT ![c] = Append(runq[c], current[c])]
    <2>1. /\ \A x \in CPU : current'[x] = IF x = c THEN u ELSE current[x]
          /\ \A x \in CPU : runq'[x] = IF x = c THEN Append(runq[c], current[c]) ELSE runq[x]
      BY <1>1, Zenon DEF SwitchTo, TypeOK
    <2>2. Elems(Append(runq[c], current[c])) = Elems(runq[c]) \cup {current[c]}
      BY <1>0, ElemsAppend, SMTT(20)
    <2> QED BY <2>1, <2>2, ZenonT(30) DEF Brings, OnCpu
  <1>2. CASE UNCHANGED current /\ runq' = [runq EXCEPT ![c] = Append(runq[c], u)]
    <2>1. \A x \in CPU : runq'[x] = IF x = c THEN Append(runq[c], u) ELSE runq[x]
      BY <1>2, Zenon DEF TypeOK
    <2>2. Elems(Append(runq[c], u)) = Elems(runq[c]) \cup {u}
      BY <1>0, ElemsAppend
    <2> QED BY <1>2, <2>1, <2>2, Zenon DEF Brings, OnCpu
  <1> QED BY <1>1, <1>2, Zenon DEF Enqueue, Preempt

\* Unblocking brings a task only to the CPU select_cpu chose from its mask.
LEMMA UnblockBrings ==
    ASSUME TypeOK, NEW c \in CPU, NEW u \in User, NEW b \in BOOLEAN, Unblock(c, u, b),
           UNCHANGED <<dropper, exec>>
    PROVE  \A x \in CPU, t \in Task : Brings(x, t)
  <1>0. u \in Task
    BY Zenon DEF Task
  <1>1. PICK d \in Affinity[u] :
          IF d = c
          THEN Enqueue(c, u, b) /\ UNCHANGED <<migq, send>>
          ELSE /\ migq' = [migq EXCEPT ![d] = Append(migq[d], u)]
               /\ UNCHANGED <<current, runq>>
    BY Zenon DEF Unblock
  <1>2. CASE d = c
    BY <1>0, <1>1, <1>2, EnqueueBrings, Zenon
  <1>3. CASE d # c
    <2>1. d \in CPU
      BY ConstAssumption, Zenon
    <2>2. \A x \in CPU : migq'[x] = IF x = d THEN Append(migq[d], u) ELSE migq[x]
      BY <1>1, <1>3, Zenon DEF TypeOK
    <2>3. migq[d] \in Seq(Task)
      BY <2>1, Zenon DEF TypeOK
    <2>4. Elems(Append(migq[d], u)) = Elems(migq[d]) \cup {u}
      BY <1>0, <2>3, ElemsAppend, SMTT(20)
    <2> QED BY <1>1, <1>3, <2>2, <2>4, Zenon DEF Brings, OnCpu
  <1> QED BY <1>2, <1>3, Zenon

\* No step brings a task to a CPU that its affinity does not name.
LEMMA StepBrings ==
    ASSUME SchedInv, NEW c \in CPU, NEW x \in CPU, NEW t \in Task,
           \/ SendIpi(c) \/ SwitchKframe(c) \/ PushDropper(c) \/ IdleLoop(c)
           \/ BlockCurrent(c) \/ Yield(c) \/ Tick(c) \/ TickKill(c)
           \/ TickSuspend(c) \/ FillSlot(c) \/ TickTail(c)
           \/ MigrateHandler(c) \/ MigrateStep(c) \/ DropSignal(c)
           \/ (\E killAll \in BOOLEAN : ExitCurrent(c, killAll))
           \/ (\E u \in User : TaskExec(c, u) \/ CtlKill(c, u))
           \/ (\E u \in User, preempt \in BOOLEAN : Wake(c, u, preempt))
           \/ (\E k \in Token : DropToken(c, k))
           \/ (\E u \in User, k \in Token : TaskNew(c, u, k) \/ CtlSuspend(c, u, k))
    PROVE  Brings(x, t)
  <1>0. TypeOK
    BY Zenon DEF SchedInv
  <1>1. CASE UNCHANGED <<current, exec, runq, migq, dropper>>
    BY <1>1, Zenon DEF Brings, OnCpu
  <1>2. CASE SendIpi(c) \/ Yield(c) \/ TickSuspend(c) \/ MigrateHandler(c) \/ DropSignal(c)
    BY <1>1, <1>2, Zenon DEF SendIpi, Yield, TickSuspend, MigrateHandler, DropSignal, queues, owners, cpus
  <1>3. CASE SwitchKframe(c)
    <2>1. exec'[x] = IF x = c THEN current[c] ELSE exec[x]
      BY <1>0, <1>3, Zenon DEF SwitchKframe, TypeOK
    <2> QED BY <1>3, <2>1, Zenon DEF SwitchKframe, queues, owners, Brings, OnCpu
  <1>4. CASE PushDropper(c)
    <2>1. dropper'[x] = IF x = c THEN Append(dropper[c], exec[c]) ELSE dropper[x]
      BY <1>0, <1>4, Zenon DEF PushDropper, DropLater, TypeOK
    <2>2. dropper[c] \in Seq(Task) /\ exec[c] \in Task
      BY <1>0, Zenon DEF TypeOK
    <2>3. Elems(Append(dropper[c], exec[c])) = Elems(dropper[c]) \cup {exec[c]}
      BY <2>2, ElemsAppend, SMTT(20)
    <2> QED BY <1>4, <2>1, <2>3, Zenon DEF PushDropper, queues, Brings, OnCpu
  <1>5. CASE IdleLoop(c)
    <2>1. dropper'[x] = dropper[x] \/ (x = c /\ dropper[c] # <<>> /\ dropper'[x] = Tail(dropper[c]))
      BY <1>0, <1>5, Zenon DEF IdleLoop, TypeOK
    <2>2. dropper[c] # <<>> => Elems(dropper[c]) = Elems(Tail(dropper[c])) \cup {Head(dropper[c])}
      BY <1>0, ElemsPop, Zenon DEF TypeOK
    <2> QED BY <1>5, <2>1, <2>2, Zenon DEF IdleLoop, cpus, Brings, OnCpu
  <1>6. CASE BlockCurrent(c) \/ TickKill(c) \/ FillSlot(c) \/ \E killAll \in BOOLEAN : ExitCurrent(c, killAll)
    <2>1. UNCHANGED <<migq, dropper, exec>> /\ \E p : Deschedule(c, p)
      BY <1>6, Zenon DEF BlockCurrent, TickKill, FillSlot, ExitCurrent, owners
    <2> QED BY <1>0, <2>1, DescheduleBrings, Zenon
  <1>7. CASE Tick(c)
    BY <1>0, <1>7, RescheduleBrings, Zenon DEF Tick, Reschedule, owners
  <1>8. CASE TickTail(c)
    BY <1>0, <1>1, <1>8, RescheduleBrings, Zenon DEF TickTail, Reschedule, owners, queues
  <1>9. CASE MigrateStep(c)
    <2>1. CASE migq[c] = <<>>
      BY <1>1, <1>9, <2>1, Zenon DEF MigrateStep, queues, owners
    <2>2. CASE migq[c] # <<>>
      <3>1. migq[c] \in Seq(Task)
        BY <1>0, Zenon DEF TypeOK
      <3>2. PICK u \in Task : u = Head(migq[c])
        BY <2>2, <3>1, ElemsPop, Zenon
      <3>3. Elems(migq[c]) = Elems(Tail(migq[c])) \cup {u}
        BY <2>2, <3>1, <3>2, ElemsPop, Zenon
      <3>4. migq' = [migq EXCEPT ![c] = Tail(migq[c])] /\ Enqueue(c, u, TRUE) /\ UNCHANGED <<dropper, exec>>
        BY <1>9, <2>2, <3>2, Zenon DEF MigrateStep, Steal, owners
      <3>5. \A y \in CPU : Elems(migq'[y]) \subseteq Elems(migq[y])
        <4>1. \A y \in CPU : migq'[y] = IF y = c THEN Tail(migq[c]) ELSE migq[y]
          BY <1>0, <3>4, Zenon DEF TypeOK
        <4> QED BY <3>3, <4>1, Zenon
      <3>6. OnCpu(c, u)
        BY <3>3, Zenon DEF OnCpu
      <3> QED BY <1>0, <3>4, <3>5, <3>6, EnqueueBrings, Zenon
    <2> QED BY <2>1, <2>2, Zenon
  <1>10. CASE \E u \in User : TaskExec(c, u)
    BY <1>0, <1>10, UnblockBrings, Zenon DEF TaskExec
  <1>11. CASE \E u \in User, preempt \in BOOLEAN : Wake(c, u, preempt)
    BY <1>0, <1>11, UnblockBrings, Zenon DEF Wake
  <1>12. CASE \E k \in Token : DropToken(c, k)
    <2>1. PICK k \in Token : DropToken(c, k)
      BY <1>12, Zenon
    <2>2. CASE slot[k] # None
      <3>1. slot[k] \in User /\ Unblock(c, slot[k], TRUE) /\ UNCHANGED <<dropper, exec>>
        BY <1>0, <2>1, <2>2, Zenon DEF DropToken, owners, TypeOK
      <3> QED BY <1>0, <3>1, UnblockBrings, Zenon
    <2>3. CASE slot[k] = None
      BY <1>1, <2>1, <2>3, Zenon DEF DropToken, queues, owners
    <2> QED BY <2>2, <2>3, Zenon
  <1>13. CASE \E u \in User : CtlKill(c, u)
    BY <1>1, <1>13, Zenon DEF CtlKill, queues, owners, cpus
  <1>14. CASE \E u \in User, k \in Token : TaskNew(c, u, k) \/ CtlSuspend(c, u, k)
    BY <1>1, <1>14, Zenon DEF TaskNew, CtlSuspend, queues, owners, cpus
  <1> QED BY <1>2, <1>3, <1>4, <1>5, <1>6, <1>7, <1>8, <1>9, <1>10, <1>11, <1>12, <1>13, <1>14, Zenon

\* Together with the invariant of the scheduler, the affinity is an invariant.
LEMMA AffinityInit == Init => AffinityKept
  <1> SUFFICES ASSUME Init, NEW x \in CPU, NEW t \in Task, OnCpu(x, t)
               PROVE  IF t \in User THEN x \in Affinity[t] ELSE t = IdleOf[x]
    BY Zenon DEF AffinityKept
  <1>1. current = IdleOf /\ exec = IdleOf /\ Elems(runq[x]) = {} /\ Elems(migq[x]) = {} /\ Elems(dropper[x]) = {}
    BY DEF Init, Elems
  <1>2. t = IdleOf[x]
    BY <1>1, Zenon DEF OnCpu
  <1> QED BY <1>2, ConstAssumption, Zenon DEF Idle

\* Every step keeps every task on the CPUs of its affinity mask.
LEMMA AffinityNext == SchedInv /\ AffinityKept /\ [Next]_vars => AffinityKept'
  <1> SUFFICES ASSUME SchedInv, AffinityKept, [Next]_vars, NEW x \in CPU, NEW t \in Task, OnCpu(x, t)'
               PROVE  IF t \in User THEN x \in Affinity[t] ELSE t = IdleOf[x]
    BY Zenon DEF AffinityKept
  <1>1. CASE UNCHANGED vars
    <2>1. OnCpu(x, t)
      BY <1>1, Zenon DEF vars, queues, owners, cpus, OnCpu
    <2> QED BY <2>1, Zenon DEF AffinityKept
  <1>2. CASE Next
    <2>1. Brings(x, t)
      BY <1>2, StepBrings, Zenon DEF Next
    <2> QED BY <2>1, Zenon DEF Brings, AffinityKept
  <1> QED BY <1>1, <1>2, Zenon

\* A task is only ever run, queued or left to a dropper on a CPU of its affinity
\* mask (select_cpu and task_migrate), and an idle task on its own CPU.
THEOREM AffinityRespected == Spec => []AffinityKept
  BY InitOK, NextOK, AffinityInit, AffinityNext, PTL DEF Spec
=============================================================================
