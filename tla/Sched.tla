------------------------------- MODULE Sched -------------------------------
(* The scheduler of the H2O kernel: one Scheduler per CPU (sched/imp.rs) and *)
(* the type-state of a task (sched/task/sm.rs).  A task is moved by value    *)
(* from owner to owner: the current slot or the run queue of a CPU, the      *)
(* migration queue of another CPU, the timer that parks it, the slot of a    *)
(* suspend token, and finally the context dropper of the CPU it exited on.   *)
(* A CPU is atomic with respect to itself while interrupts are off; what two *)
(* CPUs share (migration queues, IPIs, signals, slots, parked tasks) is      *)
(* changed in separate steps.  Run times and time slices are abstracted to   *)
(* the two decisions taken from them: whether a woken task preempts, and     *)
(* whether a slice has expired.                                              *)
EXTENDS Integers, Sequences, FiniteSets

CONSTANTS CPU,       \* the CPUs (numbers, as in the affinity masks)
          User,      \* user tasks
          IdleOf,    \* [CPU -> idle task]
          Handled,   \* user tasks whose Tid handle others hold, for task_ctl
          Token,     \* suspend tokens
          Space,     \* task spaces
          SpaceOf,   \* [User -> Space]
          Affinity,  \* [User -> SUBSET CPU]
          MaxTrial,  \* MAX_TRIAL of task_migrate_handler
          None, Kill,
          SelectCpu(_, _, _, _)

Idle == {IdleOf[c] : c \in CPU}
Task == User \cup Idle

ASSUME ConstAssumption ==
    /\ IdleOf \in [CPU -> Idle] /\ User \cap Idle = {}
    /\ \A c, d \in CPU : IdleOf[c] = IdleOf[d] => c = d
    /\ None \notin Task \cup CPU \cup Token \cup {Kill} /\ Kill \notin Token
    /\ Handled \subseteq User /\ SpaceOf \in [User -> Space]
    /\ Affinity \in [User -> SUBSET CPU]
    /\ MaxTrial \in Nat \ {0}

VARIABLES
    current,   \* [CPU -> Task]             Scheduler.current
    runq,      \* [CPU -> Seq(Task)]        Scheduler.run_queue
    migq,      \* [CPU -> Seq(Task)]        SCHED_INFO[cpu].migration_queue
    erun,      \* [CPU -> Int]              SCHED_INFO[cpu].expected_runtime, in slices
    rstate,    \* [Task -> ...]             Ready.running_state
    lastCpu,   \* [Task -> CPU or None]     Context.cpu
    life,      \* [Task -> ...]             has a Tid, exited, stack freed
    parked,    \* SUBSET Task               Blocked inside a Timer callback
    dropper,   \* [CPU -> Seq(Task)]        CTX_DROPPER
    main,      \* [Space -> Task or None]   Space.main
    sig,       \* [User -> ...]             TaskInfo.signal
    tok,       \* [Token -> ...]            a SuspendToken: not made, held, dropped
    tgt,       \* [Token -> User or None]   SuspendToken.tid
    slot,      \* [Token -> User or None]   SuspendToken.slot
    pc,        \* [CPU -> ...]              what the CPU executes
    exec,      \* [CPU -> Task]             whose kernel stack the CPU is on
    hold,      \* [CPU -> Token or None]    the token check_signal or drop works on
    ipi,       \* [CPU -> BOOLEAN]          IpiTaskMigrate pending in the local APIC
    send,      \* [CPU -> CPU or None]      IPI that unblock has still to send
    loopLeft,  \* [Task -> Nat]             trials left of the task_migrate_handler
               \*                           that was interrupted on the task's stack
    tickSelf   \* [Task -> CPU or None]     the Scheduler whose tick goes on when the
               \*                           suspended task is resumed

queues == <<current, runq, migq, erun, rstate, lastCpu>>
owners == <<life, parked, dropper, main>>
tokens == <<sig, tok, tgt, slot>>
cpus   == <<pc, exec, hold, ipi, send, loopLeft, tickSelf>>
vars   == <<queues, owners, tokens, cpus>>

Elems(q) == {q[i] : i \in DOMAIN q}

TypeOK ==
    /\ current \in [CPU -> Task]
    /\ runq \in [CPU -> Seq(Task)]
    /\ migq \in [CPU -> Seq(Task)]
    /\ erun \in [CPU -> Int]
    /\ rstate \in [Task -> {"not", "running", "resched"}]
    /\ lastCpu \in [Task -> CPU \cup {None}]
    /\ life \in [Task -> {"new", "live", "exited", "freed"}]
    /\ parked \in SUBSET Task
    /\ dropper \in [CPU -> Seq(Task)]
    /\ main \in [Space -> User \cup {None}]
    /\ sig \in [User -> Token \cup {None, Kill}]
    /\ tok \in [Token -> {"none", "held", "dropped"}]
    /\ tgt \in [Token -> User \cup {None}]
    /\ slot \in [Token -> User \cup {None}]
    /\ pc \in [CPU -> {"task", "exit", "switch", "suspend", "dropsig"}]
    /\ exec \in [CPU -> Task]
    /\ hold \in [CPU -> Token \cup {None}]
    /\ ipi \in [CPU -> BOOLEAN]
    /\ send \in [CPU -> CPU \cup {None}]
    /\ loopLeft \in [Task -> 0..MaxTrial]
    /\ tickSelf \in [Task -> CPU \cup {None}]

\* Every CPU has switched to its idle task, which is what its first tick does;
\* no user task exists.
Init ==
    /\ current = IdleOf /\ exec = IdleOf
    /\ runq = [c \in CPU |-> <<>>] /\ migq = [c \in CPU |-> <<>>]
    /\ erun = [c \in CPU |-> 1]
    /\ rstate = [t \in Task |-> IF t \in Idle THEN "running" ELSE "not"]
    /\ lastCpu = [t \in Task |-> IF t \in Idle THEN CHOOSE c \in CPU : IdleOf[c] = t ELSE None]
    /\ life = [t \in Task |-> IF t \in Idle THEN "live" ELSE "new"]
    /\ parked = {} /\ dropper = [c \in CPU |-> <<>>]
    /\ main = [s \in Space |-> None]
    /\ sig = [t \in User |-> None]
    /\ tok = [k \in Token |-> "none"] /\ tgt = [k \in Token |-> None]
    /\ slot = [k \in Token |-> None]
    /\ pc = [c \in CPU |-> "task"] /\ hold = [c \in CPU |-> None]
    /\ ipi = [c \in CPU |-> FALSE] /\ send = [c \in CPU |-> None]
    /\ loopLeft = [t \in Task |-> 0] /\ tickSelf = [t \in Task |-> None]

-----------------------------------------------------------------------------
\* The CPU executes its current task, or takes an interrupt on its stack:
\* neither a switch, nor an IPI to send, nor an unfinished handler is in the way.
Free(c) ==
    /\ pc[c] = "task" /\ send[c] = None
    /\ loopLeft[current[c]] = 0 /\ tickSelf[current[c]] = None

HasToStop(t) == t \in User /\ main[SpaceOf[t]] = None

Signalled(t) == t \in User /\ (HasToStop(t) \/ sig[t] # None)

\* schedule_impl with a popped next task: the current slot is replaced, next is
\* running and bound to this CPU; prev is left to the caller's closure, in the
\* running state given, and its stack is left by SwitchKframe.
SwitchTo_NotMarked(c, next, prevState) ==
    /\ current' = [current EXCEPT ![c] = next]
    /\ rstate' = [rstate EXCEPT ![current[c]] = prevState]
    /\ lastCpu' = [lastCpu EXCEPT ![next] = c]

SwitchTo(c, next, prevState) ==
    /\ current' = [current EXCEPT ![c] = next]
    /\ rstate' = [rstate EXCEPT ![current[c]] = prevState, ![next] = "running"]
    /\ lastCpu' = [lastCpu EXCEPT ![next] = c]

\* block_current, exit_current, kill and the suspension take the slice of the
\* current task from the expected run time of the CPU.
TakeSlice_Forgotten(c) == UNCHANGED erun

TakeSlice(c) == erun' = [erun EXCEPT ![c] = @ - 1]

\* They then call schedule_impl(.., None, closure): Err(ENOENT), without running
\* the closure, when the run queue is empty.
Deschedule(c, nextPc) ==
    /\ TakeSlice(c)
    /\ IF runq[c] = <<>>
       THEN /\ pc' = [pc EXCEPT ![c] = "task"]
            /\ UNCHANGED <<current, runq, rstate, lastCpu>>
       ELSE /\ SwitchTo(c, Head(runq[c]), "not")
            /\ runq' = [runq EXCEPT ![c] = Tail(@)]
            /\ pc' = [pc EXCEPT ![c] = nextPc]

\* enqueue, the preempting branch: the current task goes to the run queue.
Preempt_Dropping(c, t) ==
    /\ SwitchTo(c, t, "not")
    /\ pc' = [pc EXCEPT ![c] = "switch"]
    /\ UNCHANGED runq

Preempt(c, t) ==
    /\ SwitchTo(c, t, "not")
    /\ runq' = [runq EXCEPT ![c] = Append(@, current[c])]
    /\ pc' = [pc EXCEPT ![c] = "switch"]

\* enqueue: the task joins the run queue, or preempts the current one when the
\* caller allows it and should_preempt says so.
Enqueue(c, t, preempt) ==
    /\ erun' = [erun EXCEPT ![c] = @ + 1]
    /\ \E yes \in BOOLEAN :
         /\ yes => preempt
         /\ IF yes
            THEN Preempt(c, t)
            ELSE /\ runq' = [runq EXCEPT ![c] = Append(@, t)]
                 /\ rstate' = [rstate EXCEPT ![t] = "not"]
                 /\ lastCpu' = [lastCpu EXCEPT ![t] = c]
                 /\ UNCHANGED <<current, pc>>

\* unblock: queue the task here, or push it to the migration queue of the CPU
\* that select_cpu names; the IPI follows in a step of its own.
Unblock(c, t, preempt) ==
    \E d \in Affinity[t] :
      /\ d = SelectCpu(Affinity[t], c, lastCpu[t], erun)
      /\ IF d = c
         THEN Enqueue(c, t, preempt) /\ UNCHANGED <<migq, send>>
         ELSE /\ migq' = [migq EXCEPT ![d] = Append(@, t)]
              /\ send' = [send EXCEPT ![c] = d]
              /\ rstate' = [rstate EXCEPT ![t] = "not"]
              /\ lastCpu' = [lastCpu EXCEPT ![t] = d]
              /\ UNCHANGED <<current, runq, erun, pc>>

\* task_migrate sends the IPI after the push; a pending one absorbs it.
SendIpi(c) ==
    /\ send[c] # None
    /\ ipi' = [ipi EXCEPT ![send[c]] = TRUE]
    /\ send' = [send EXCEPT ![c] = None]
    /\ UNCHANGED <<queues, owners, tokens, pc, exec, hold, loopLeft, tickSelf>>

\* switch_ctx: the CPU stores the frame of the stack it leaves and is on the
\* stack of its current task.
SwitchKframe(c) ==
    /\ pc[c] = "switch" /\ send[c] = None
    /\ pc' = [pc EXCEPT ![c] = "task"]
    /\ exec' = [exec EXCEPT ![c] = current[c]]
    /\ UNCHANGED <<queues, owners, tokens, hold, ipi, send, loopLeft, tickSelf>>

-----------------------------------------------------------------------------
\* task_exec (and boot::setup, from the idle task): a Tid is allocated, becomes
\* the main task of a space that has none, and the task is unblocked.
TaskExec(c, t) ==
    /\ Free(c) /\ life[t] = "new"
    /\ life' = [life EXCEPT ![t] = "live"]
    /\ main' = [main EXCEPT ![SpaceOf[t]] = IF @ = None THEN t ELSE @]
    /\ Unblock(c, t, TRUE)
    /\ UNCHANGED <<parked, dropper, tokens, exec, hold, ipi, loopLeft, tickSelf>>

\* task_new: the same, but the task starts blocked in the slot of a token.
TaskNew(c, t, k) ==
    /\ Free(c) /\ current[c] \in User /\ life[t] = "new" /\ tok[k] = "none"
    /\ life' = [life EXCEPT ![t] = "live"]
    /\ main' = [main EXCEPT ![SpaceOf[t]] = IF @ = None THEN t ELSE @]
    /\ lastCpu' = [lastCpu EXCEPT ![t] = c]
    /\ tok' = [tok EXCEPT ![k] = "held"] /\ tgt' = [tgt EXCEPT ![k] = t]
    /\ slot' = [slot EXCEPT ![k] = t]
    /\ UNCHANGED <<current, runq, migq, erun, rstate, parked, dropper, sig, cpus>>

\* block_current: the blocked task is owned by a timer, and reachable through
\* the wait queue and the timer queue before its context is saved.
BlockCurrent(c) ==
    /\ Free(c) /\ current[c] \in User
    /\ Deschedule(c, "switch")
    /\ parked' = IF runq[c] = <<>> THEN parked ELSE parked \cup {current[c]}
    /\ UNCHANGED <<migq, life, dropper, main, tokens, exec, hold, ipi, send, loopLeft, tickSelf>>

\* The callback is taken from the timer, by whoever comes first.
Unpark_Shared(t) == t \in parked /\ UNCHANGED parked

Unpark(t) == t \in parked /\ parked' = parked \ {t}

\* Timer::fire (preempt) and Timer::cancel: the callback is taken from the timer
\* and the task unblocked; also from the exit event of a dying task.
Wake(c, t, preempt) ==
    /\ \/ Free(c)
       \/ pc[c] = "exit" /\ send[c] = None /\ ~preempt
    /\ Unpark(t)
    /\ Unblock(c, t, preempt)
    /\ UNCHANGED <<life, dropper, main, tokens, exec, hold, ipi, loopLeft, tickSelf>>

\* task_sleep(0) marks the current task; the following tick reschedules it.
Yield(c) ==
    /\ Free(c) /\ current[c] \in User
    /\ rstate' = [rstate EXCEPT ![current[c]] = "resched"]
    /\ UNCHANGED <<current, runq, migq, erun, lastCpu, owners, tokens, cpus>>

\* exit_current: with kill_all the main task stops its space.
ExitCurrent(c, killAll) ==
    LET t == current[c] IN
    /\ Free(c) /\ t \in User
    /\ main' = IF killAll /\ main[SpaceOf[t]] = t
               THEN [main EXCEPT ![SpaceOf[t]] = None] ELSE main
    /\ Deschedule(c, "exit")
    /\ life' = [life EXCEPT ![t] = IF runq[c] = <<>> THEN @ ELSE "exited"]
    /\ UNCHANGED <<migq, parked, dropper, tokens, exec, hold, ipi, send, loopLeft, tickSelf>>

\* CTX_DROPPER is local to the CPU.
DropLater_AnyCpu(c) ==
    \E d \in CPU : dropper' = [dropper EXCEPT ![d] = Append(@, exec[c])]

DropLater_Forgotten(c) == UNCHANGED dropper

DropLater(c) == dropper' = [dropper EXCEPT ![c] = Append(@, exec[c])]

\* The end of Ready::exit: the exit event has been notified and the context is
\* left to the dropper of this CPU, whose stack it still is.
PushDropper(c) ==
    /\ pc[c] = "exit" /\ send[c] = None
    /\ DropLater(c)
    /\ pc' = [pc EXCEPT ![c] = "switch"]
    /\ UNCHANGED <<queues, life, parked, main, tokens, exec, hold, ipi, send, loopLeft, tickSelf>>

\* An iteration of the idle loop: drop one exited context, ask for a reschedule.
IdleLoop(c) ==
    /\ Free(c) /\ current[c] = IdleOf[c]
    /\ dropper' = [dropper EXCEPT ![c] = IF @ = <<>> THEN @ ELSE Tail(@)]
    /\ life' = IF dropper[c] = <<>> THEN life
               ELSE [life EXCEPT ![Head(dropper[c])] = "freed"]
    /\ rstate' = [rstate EXCEPT ![IdleOf[c]] = "resched"]
    /\ UNCHANGED <<current, runq, migq, erun, lastCpu, parked, main, tokens, cpus>>

-----------------------------------------------------------------------------
\* update and schedule: the slice of the running task has expired, or the task
\* asked for it, and another one is ready; the current task goes to the tail.
Reschedule_Dropping(c) ==
    /\ runq[c] # <<>>
    /\ SwitchTo(c, Head(runq[c]), "not")
    /\ runq' = [runq EXCEPT ![c] = Tail(@)]
    /\ pc' = [pc EXCEPT ![c] = "switch"]
    /\ UNCHANGED <<migq, erun>>

Reschedule(c) ==
    /\ runq[c] # <<>>
    /\ SwitchTo(c, Head(runq[c]), "not")
    /\ runq' = [runq EXCEPT ![c] = Append(Tail(@), current[c])]
    /\ pc' = [pc EXCEPT ![c] = "switch"]
    /\ UNCHANGED <<migq, erun>>

\* A tick with no signal to act on.
Tick(c) ==
    /\ Free(c) /\ ~Signalled(current[c])
    /\ Reschedule(c)
    /\ UNCHANGED <<owners, tokens, exec, hold, ipi, send, loopLeft, tickSelf>>

\* The two reasons for which check_signal kills.
Condemned_StopOnly(t) == HasToStop(t)

Condemned(t) == HasToStop(t) \/ sig[t] = Kill

\* A tick of a task that has to stop or was killed: it exits.
TickKill(c) ==
    LET t == current[c] IN
    /\ Free(c) /\ t \in User /\ Condemned(t)
    /\ sig' = IF HasToStop(t) THEN sig ELSE [sig EXCEPT ![t] = None]
    /\ Deschedule(c, "exit")
    /\ life' = [life EXCEPT ![t] = IF runq[c] = <<>> THEN @ ELSE "exited"]
    /\ UNCHANGED <<migq, parked, dropper, main, tok, tgt, slot, exec, hold, ipi, send,
                   loopLeft, tickSelf>>

\* A tick of a task that is to be suspended, first half: the signal is taken.
TickSuspend(c) ==
    LET t == current[c] IN
    /\ Free(c) /\ t \in User /\ ~HasToStop(t) /\ sig[t] \in Token
    /\ hold' = [hold EXCEPT ![c] = sig[t]]
    /\ sig' = [sig EXCEPT ![t] = None]
    /\ pc' = [pc EXCEPT ![c] = "suspend"]
    /\ UNCHANGED <<queues, owners, tok, tgt, slot, exec, ipi, send, loopLeft, tickSelf>>

\* Second half: the blocked task is put in the slot that the signal carried.
FillSlot(c) ==
    /\ pc[c] = "suspend"
    /\ Deschedule(c, "switch")
    /\ IF runq[c] = <<>> THEN UNCHANGED <<slot, tickSelf>>
       ELSE /\ slot' = [slot EXCEPT ![hold[c]] = current[c]]
            /\ tickSelf' = [tickSelf EXCEPT ![current[c]] = c]
    /\ hold' = [hold EXCEPT ![c] = None]
    /\ UNCHANGED <<migq, owners, sig, tok, tgt, exec, ipi, send, loopLeft>>

\* The rest of the tick in which the task was suspended, once it runs again.
\* It goes on with the Scheduler it was called on.
TickTail(c) ==
    /\ pc[c] = "task" /\ send[c] = None /\ tickSelf[current[c]] = c
    /\ tickSelf' = [tickSelf EXCEPT ![current[c]] = None]
    /\ \/ Reschedule(c)
       \/ UNCHANGED <<queues, pc>>
    /\ UNCHANGED <<owners, tokens, exec, hold, ipi, send, loopLeft>>

-----------------------------------------------------------------------------
\* The task-migrate IPI: EOI, then up to MAX_TRIAL tasks are taken from the
\* migration queue.  A task that preempts leaves the rest of the loop on the
\* stack of the preempted one.
Trials_One == 1

Trials == MaxTrial

MigrateHandler(c) ==
    /\ Free(c) /\ ipi[c]
    /\ ipi' = [ipi EXCEPT ![c] = FALSE]
    /\ loopLeft' = [loopLeft EXCEPT ![current[c]] = Trials]
    /\ UNCHANGED <<queues, owners, tokens, pc, exec, hold, send, tickSelf>>

LoopGoesOn_OneMore(c) == loopLeft[current[c]] >= 0

LoopGoesOn(c) == loopLeft[current[c]] > 0

Steal_Copy(c) == UNCHANGED migq

Steal(c) == migq' = [migq EXCEPT ![c] = Tail(@)]

MigrateStep(c) ==
    /\ pc[c] = "task" /\ send[c] = None /\ LoopGoesOn(c)
    /\ IF migq[c] = <<>>
       THEN /\ loopLeft' = [loopLeft EXCEPT ![current[c]] = 0]
            /\ UNCHANGED <<queues, pc>>
       ELSE /\ loopLeft' = [loopLeft EXCEPT ![current[c]] = @ - 1]
            /\ Steal(c)
            /\ Enqueue(c, Head(migq[c]), TRUE)
    /\ UNCHANGED <<owners, tokens, exec, hold, ipi, send, tickSelf>>

-----------------------------------------------------------------------------
\* A killed task cannot be suspended (EPERM).
MaySuspend_Always(t) == TRUE

MaySuspend(t) == sig[t] # Kill

\* TASK_CTL_KILL and TASK_CTL_SUSPEND.
CtlKill(c, t) ==
    /\ Free(c) /\ current[c] \in User /\ t \in Handled /\ life[t] = "live"
    /\ sig' = [sig EXCEPT ![t] = Kill]
    /\ UNCHANGED <<queues, owners, tok, tgt, slot, cpus>>

CtlSuspend(c, t, k) ==
    /\ Free(c) /\ current[c] \in User /\ t \in Handled /\ life[t] = "live"
    /\ tok[k] = "none" /\ MaySuspend(t)
    /\ sig' = [sig EXCEPT ![t] = k]
    /\ tok' = [tok EXCEPT ![k] = "held"] /\ tgt' = [tgt EXCEPT ![k] = t]
    /\ UNCHANGED <<queues, owners, slot, cpus>>

\* SuspendToken::drop: take the slot and unblock its task; with an empty slot,
\* withdraw the signal in a second critical section.
DropToken(c, k) ==
    /\ Free(c) /\ current[c] \in User /\ tok[k] = "held"
    /\ tok' = [tok EXCEPT ![k] = "dropped"]
    /\ IF slot[k] # None
       THEN /\ Unblock(c, slot[k], TRUE)
            /\ slot' = [slot EXCEPT ![k] = None]
            /\ UNCHANGED hold
       ELSE /\ pc' = [pc EXCEPT ![c] = "dropsig"]
            /\ hold' = [hold EXCEPT ![c] = k]
            /\ UNCHANGED <<queues, slot, send>>
    /\ UNCHANGED <<owners, sig, tgt, exec, ipi, loopLeft, tickSelf>>

DropSignal(c) ==
    LET t == tgt[hold[c]] IN
    /\ pc[c] = "dropsig"
    /\ sig' = IF sig[t] = hold[c] THEN [sig EXCEPT ![t] = None] ELSE sig
    /\ hold' = [hold EXCEPT ![c] = None]
    /\ pc' = [pc EXCEPT ![c] = "task"]
    /\ UNCHANGED <<queues, owners, tok, tgt, slot, exec, ipi, send, loopLeft, tickSelf>>

-----------------------------------------------------------------------------
Next ==
    \E c \in CPU :
      \/ SendIpi(c) \/ SwitchKframe(c) \/ PushDropper(c) \/ IdleLoop(c)
      \/ BlockCurrent(c) \/ Yield(c) \/ Tick(c) \/ TickKill(c)
      \/ TickSuspend(c) \/ FillSlot(c) \/ TickTail(c)
      \/ MigrateHandler(c) \/ MigrateStep(c) \/ DropSignal(c)
      \/ \E killAll \in BOOLEAN : ExitCurrent(c, killAll)
      \/ \E t \in User : TaskExec(c, t) \/ CtlKill(c, t)
      \/ \E t \in User, preempt \in BOOLEAN : Wake(c, t, preempt)
      \/ \E k \in Token : DropToken(c, k)
      \/ \E t \in User, k \in Token : TaskNew(c, t, k) \/ CtlSuspend(c, t, k)

Spec == Init /\ [][Next]_vars

\* What a CPU does on its own once it is in the kernel.
KernelStep(c) ==
    \/ SendIpi(c) \/ SwitchKframe(c) \/ PushDropper(c) \/ MigrateStep(c)
    \/ FillSlot(c) \/ TickTail(c) \/ DropSignal(c)

\* The kernel code of a CPU runs on, and the idle loop goes round.  The IPI and
\* the interrupt of the periodic local APIC timer stay pending while interrupts
\* are off and are taken as soon as they are on again; a slice does not last for
\* ever, and a task that runs again and again meets a tick, the idle task an
\* iteration of its loop (hence strong fairness).
Fairness ==
    \A c \in CPU :
      /\ WF_vars(KernelStep(c)) /\ SF_vars(MigrateHandler(c))
      /\ SF_vars(Tick(c)) /\ SF_vars(TickKill(c) \/ TickSuspend(c))
      /\ SF_vars(IdleLoop(c))

FairSpec == Spec /\ Fairness

-----------------------------------------------------------------------------
\* The values that own the task t by move: slots, queue positions, the timer, a
\* suspend token that is still held, the closure of Ready::exit, the dropper.
Owners(t) ==
    {<<"current", c>> : c \in {c \in CPU : current[c] = t}}
    \cup (UNION {{<<"run", c, i>> : i \in {i \in DOMAIN runq[c] : runq[c][i] = t}} : c \in CPU})
    \cup (UNION {{<<"mig", c, i>> : i \in {i \in DOMAIN migq[c] : migq[c][i] = t}} : c \in CPU})
    \cup (UNION {{<<"drop", c, i>> : i \in {i \in DOMAIN dropper[c] : dropper[c][i] = t}} : c \in CPU})
    \cup {<<"exit", c>> : c \in {c \in CPU : pc[c] = "exit" /\ exec[c] = t}}
    \cup {<<"slot", k>> : k \in {k \in Token : slot[k] = t}}
    \cup (IF t \in parked THEN {<<"timer">>} ELSE {})

\* A task never has two owners: no interleaving of wake-ups, migrations,
\* preemptions, suspensions and exits leaves it in two queues, or running on a
\* CPU while it is queued or parked (the by-value moves of sched/task/sm.rs).
SingleOwner == \A t \in Task : \A o, p \in Owners(t) : o = p

\* A task that was created and not freed always has an owner, and the owner is
\* not the slot of a suspend token that has been dropped: it can run again.
TaskOwned ==
    \A t \in Task : life[t] \in {"live", "exited"} =>
        \E o \in Owners(t) : o[1] = "slot" => tok[o[2]] = "held"

\* The idle task of a CPU is always its current task or in its run queue: it is
\* never parked, migrated, suspended or killed.
IdleAtHome == \A c \in CPU : current[c] = IdleOf[c] \/ IdleOf[c] \in Elems(runq[c])

\* schedule_impl finds a task whenever a user task gives up its CPU, so neither
\* exit_current nor kill reaches unreachable!("Dead task"), block_current never
\* fails with ENOENT after it took the slice from the expected run time, and a
\* suspend signal that was taken is never dropped.
DeadTaskUnreachable == \A c \in CPU : current[c] \in User => runq[c] # <<>>

\* The expected run time that select_cpu balances by is, on every CPU and after
\* any history of block, exit, kill, suspend, preemption and migration, exactly
\* one slice for each task queued or running there.
RuntimeAccounted == \A c \in CPU : erun[c] = Len(runq[c]) + 1

\* The asserts on running_state in update, schedule, save_regs and
\* switch_finishing: the current task is running or asks to be rescheduled, and
\* a task in any queue does not run.
RunningStateOK ==
    \A c \in CPU :
      /\ rstate[current[c]] # "not"
      /\ \A t \in Elems(runq[c]) \cup Elems(migq[c]) : rstate[t] = "not"

\* Both of the above: a task that lives has an owner from which it can run again,
\* and runs where its owner says so (the moves and asserts of sched/imp.rs).
TasksInPlace == TaskOwned /\ RunningStateOK

\* No CPU executes on a kernel stack that the context dropper has freed.
NoFreedStack == \A c \in CPU : life[exec[c]] # "freed"

\* Two CPUs never execute on one kernel stack: a task is switched to only after
\* the CPU that descheduled it has left its stack.
OneCpuPerStack == \A c, d \in CPU : exec[c] = exec[d] => c = d

\* A tick that goes on after a suspension does so on the CPU of its Scheduler.
OwnScheduler ==
    \A c \in CPU : pc[c] = "task" => tickSelf[current[c]] \in {None, c}

\* A pending kill is never lost: only the exit of its task consumes it, and no
\* suspend request or dropped token overwrites it.
KillIsFinal ==
    [][\A t \in User : sig[t] = Kill /\ life[t] = "live" =>
          sig'[t] = Kill \/ life'[t] = "exited"]_vars

\* A task that exited never runs, blocks or is queued again.
ExitIsFinal ==
    [][\A t \in Task : life[t] \in {"exited", "freed"} =>
          life'[t] \in {"exited", "freed"} /\ \A c \in CPU : current'[c] # t]_vars

Ready(t) == \E c \in CPU : t \in Elems(runq[c]) \cup Elems(migq[c])
Running(t) == \E c \in CPU : current[c] = t

\* Every task that was queued on a CPU or migrated to one is run there: IPIs that
\* merge, and handlers suspended in mid-loop by a preemption, strand nobody.
ReadyRuns(t) == Ready(t) ~> Running(t)

\* A task that was killed, or whose main task stopped the space, exits unless it
\* gives up the CPU by blocking (or the space gets a new main task).
DoomedDies(t) ==
    (Ready(t) \/ Running(t)) /\ (HasToStop(t) \/ sig[t] = Kill)
        ~> life[t] # "live" \/ t \in parked \/ ~(HasToStop(t) \/ sig[t] = Kill)

\* Every exited context is freed.
ExitedFreed(t) == life[t] = "exited" ~> life[t] = "freed"
=============================================================================
