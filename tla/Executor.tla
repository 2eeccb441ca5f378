------------------------------ MODULE Executor ------------------------------
(***************************************************************************)
(* The task executor of h2o_async (exe.rs): a global injector, a local     *)
(* queue per poller registered for stealing, and block_on, which runs the  *)
(* main future on one thread and stops and joins the worker threads.       *)
(*                                                                         *)
(* The queues (module Deque) are sets here; a batch is any part of the     *)
(* injector.  Tasks are those of the async_task crate: woken while it      *)
(* runs, a task is scheduled again when its poll returns.                  *)
(***************************************************************************)
EXTENDS Integers, FiniteSets

CONSTANTS
    ExTask,       \* tasks
    Worker,     \* worker threads, a poller each
    Main,       \* the thread of block_on, and its poller
    Clearer     \* pollers of Executor::clear

Pollers == Worker \cup {Main} \cup Clearer

VARIABLES
    tstate,     \* "none", "idle", "queued", "running", "woken", "done"
    global,     \* Inner::global
    local,      \* the queue of each poller
    stealers,   \* the pollers whose queues can be stolen from
    poll,       \* where each poller is
    hand,       \* the tasks it is about to run or runs
    stops,      \* stop messages sent and not received
    blockOn     \* block_on: "running", "joining", "returned"

exvars == <<tstate, global, local, stealers, poll, hand, stops, blockOn>>

ExInit ==
    /\ tstate = [t \in ExTask |-> "none"] /\ global = {}
    /\ local = [p \in Pollers |-> {}] /\ stealers = {}
    /\ poll = [p \in Pollers |-> "new"] /\ hand = [p \in Pollers |-> {}]
    /\ stops = 0 /\ blockOn = "running"

PollGo(p, s) == poll' = [poll EXCEPT ![p] = s]

(* Executor::spawn and a waker: the schedule closure pushes the runnable.  *)
ExSpawn(t) ==
    /\ tstate[t] = "none" /\ tstate' = [tstate EXCEPT ![t] = "queued"] /\ global' = global \cup {t}
    /\ UNCHANGED <<local, stealers, poll, hand, stops, blockOn>>

ExWake(t) ==
    /\ \/ /\ tstate[t] = "idle" /\ tstate' = [tstate EXCEPT ![t] = "queued"]
          /\ global' = global \cup {t}
       \/ tstate[t] = "running" /\ tstate' = [tstate EXCEPT ![t] = "woken"] /\ UNCHANGED global
    /\ UNCHANGED <<local, stealers, poll, hand, stops, blockOn>>

(* poller, poller_cleared: register the queue.                             *)
Register(p) ==
    /\ poll[p] = "new" /\ PollGo(p, "tick") /\ stealers' = stealers \cup {p}
    /\ UNCHANGED <<tstate, global, local, hand, stops, blockOn>>

Takes(p, t) ==
    /\ hand' = [hand EXCEPT ![p] = {t}] /\ PollGo(p, "run")
    /\ tstate' = [tstate EXCEPT ![t] = "running"]
    /\ UNCHANGED <<stealers, stops, blockOn>>

(* tick: the local queue first.                                            *)
PopLocal(p) ==
    /\ poll[p] = "tick"
    /\ IF local[p] = {} THEN PollGo(p, "steal") /\ UNCHANGED <<tstate, local, hand, stealers, stops, blockOn>>
       ELSE \E t \in local[p] : Takes(p, t) /\ local' = [local EXCEPT ![p] = @ \ {t}]
    /\ UNCHANGED global

(* A bug: the batch is taken but only its first task is kept.              *)
StealBatch_One(p) ==
    /\ poll[p] = "steal"
    /\ \E batch \in SUBSET global : \E t \in batch :
          Takes(p, t) /\ global' = global \ batch /\ UNCHANGED local

(* steal_batch_and_pop: one task to run, the rest of the batch queued.     *)
StealBatch(p) ==
    /\ poll[p] = "steal"
    /\ \E batch \in SUBSET global : \E t \in batch :
          /\ Takes(p, t) /\ global' = global \ batch
          /\ local' = [local EXCEPT ![p] = @ \cup (batch \ {t})]

(* Empty, or a lost race: look at the other queues, having the stealers    *)
(* locked for reading.                                                     *)
StealNone(p) ==
    /\ poll[p] = "steal" /\ PollGo(p, IF global = {} THEN "others" ELSE "retry")
    /\ UNCHANGED <<tstate, global, local, stealers, hand, stops, blockOn>>

StealOthers(p) ==
    /\ poll[p] \in {"others", "retry"}
    /\ \E q \in stealers : \E t \in local[q] :
          Takes(p, t) /\ local' = [local EXCEPT ![q] = @ \ {t}]
    /\ UNCHANGED global

(* Nothing there: start over after a race, and else the tick was idle.     *)
OthersNone(p) ==
    /\ poll[p] \in {"others", "retry"}
    /\ \/ PollGo(p, "steal")
       \/ poll[p] = "others" /\ (\A q \in stealers : local[q] = {}) /\ PollGo(p, "idle")
    /\ UNCHANGED <<tstate, global, local, stealers, hand, stops, blockOn>>

(* Runnable::run returned: the task is over, waits, or was woken.          *)
RunDone(p) ==
    /\ poll[p] = "run" /\ PollGo(p, "tick") /\ hand' = [hand EXCEPT ![p] = {}]
    /\ \E t \in hand[p] :
          \/ tstate' = [tstate EXCEPT ![t] = "done"] /\ UNCHANGED global
          \/ tstate[t] = "running" /\ tstate' = [tstate EXCEPT ![t] = "idle"] /\ UNCHANGED global
          \/ tstate[t] = "woken" /\ tstate' = [tstate EXCEPT ![t] = "queued"] /\ global' = global \cup {t}
    /\ UNCHANGED <<local, stealers, stops, blockOn>>

(* yield_now of an idle poller; poller_cleared ends instead.               *)
IdleEnd(p) ==
    /\ poll[p] = "idle"
    /\ IF p \in Clearer THEN PollGo(p, "stopped") /\ stealers' = stealers \ {p}
       ELSE PollGo(p, "tick") /\ UNCHANGED stealers
    /\ UNCHANGED <<tstate, global, local, hand, stops, blockOn>>

(* The other side of `or' is ready at one of the poller's await points     *)
(* (the 256th tick yields too): the poller is dropped, its queue stays.    *)
AwaitPoint(p) == poll[p] \in {"new", "tick", "others", "retry", "idle"}

(* A bug: a poller that is dropped takes its queue out of the map.         *)
WorkerStop_Unregister(w) ==
    /\ AwaitPoint(w) /\ stops > 0 /\ stops' = stops - 1 /\ PollGo(w, "stopped")
    /\ stealers' = stealers \ {w}
    /\ UNCHANGED <<tstate, global, local, hand, blockOn>>

WorkerStop(w) ==
    /\ AwaitPoint(w) /\ stops > 0 /\ stops' = stops - 1 /\ PollGo(w, "stopped")
    /\ UNCHANGED <<tstate, global, local, stealers, hand, blockOn>>

(* block_on: the main future is ready, a stop message for each worker is   *)
(* sent, and the workers are joined.                                       *)
MainReady ==
    /\ blockOn = "running" /\ AwaitPoint(Main) /\ PollGo(Main, "stopped")
    /\ blockOn' = "joining" /\ stops' = Cardinality(Worker)
    /\ UNCHANGED <<tstate, global, local, stealers, hand>>

Joined ==
    /\ blockOn = "joining" /\ \A w \in Worker : poll[w] = "stopped"
    /\ blockOn' = "returned"
    /\ UNCHANGED <<tstate, global, local, stealers, poll, hand, stops>>

ExNext ==
    \/ MainReady \/ Joined
    \/ \E t \in ExTask : ExSpawn(t) \/ ExWake(t)
    \/ \E w \in Worker : WorkerStop(w)
    \/ \E p \in Pollers : Register(p) \/ PopLocal(p) \/ StealBatch(p) \/ StealNone(p) \/ StealOthers(p)
                          \/ OthersNone(p) \/ RunDone(p) \/ IdleEnd(p)

ExSpec == ExInit /\ [][ExNext]_exvars

-----------------------------------------------------------------------------
Queues(t) == (IF t \in global THEN {<<"global">>} ELSE {}) \cup {<<"local", p>> : p \in {q \in Pollers : t \in local[q]}}
Runners(t) == {p \in Pollers : t \in hand[p]}

(* A scheduled task is in exactly one queue and a running one in one       *)
(* poller's hands, whoever steals from whom; and a queue with a task in it *)
(* can still be stolen from, though the poller it belonged to has been     *)
(* dropped, stopped with its thread or has finished clearing.              *)
RunnablesKept ==
    /\ \A t \in ExTask :
          /\ Cardinality(Queues(t)) = IF tstate[t] = "queued" THEN 1 ELSE 0
          /\ Cardinality(Runners(t)) = IF tstate[t] \in {"running", "woken"} THEN 1 ELSE 0
    /\ \A p \in Pollers : local[p] # {} => p \in stealers
=============================================================================
