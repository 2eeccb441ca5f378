------------------------------ MODULE UserOnce ------------------------------
(* Once (sync/once.rs) and the one-shot channel (sync/channel/oneshot.rs,    *)
(* blocking.rs) of h2o_std: a word that holds a state or the address of who  *)
(* waits, and thread::park for the waiting.  A waiter is named by its thread:*)
(* the Waiter node is on the thread's stack, the token belongs to the port.  *)
(* At the end, all that threads synchronise with, put together: a thread may *)
(* be in any of the locks, and sleeps in one futex at a time.                *)
EXTENDS UserLocks, UserRwLock

VARIABLES
    once,      \* [st, head]            Once.state_and_queue
    next,      \* [Thread -> Thread]    Waiter.next
    signaled,  \* SUBSET Thread         Waiter.signaled, Inner.woken
    setTo,     \* [Thread -> ...]       set_state_on_drop_to
    shot,      \* Packet.state: "EMPTY", "DATA", "DISCONNECTED" or a thread
    data,      \* Packet.data: a datum or None
    outcome    \* where the datum went: "sent", "received", "returned", "destroyed"

ovars == <<once, next, signaled, setTo>>
svars == <<shot, data, outcome>>
KeepO == UNCHANGED <<cont, todo, svars>>
KeepS == UNCHANGED <<todo, once, next, setTo>>

Is(st) == [st |-> st, head |-> None]

-----------------------------------------------------------------------------
\* call_once and call_once_force: what the loaded state asks for.
OnceLabel(s) ==
    CASE s.st = "COMPLETE" -> "ready"
      [] s.st = "RUNNING"  -> "once_wait"
      [] OTHER             -> "once_cas"

\* The call panics on a poisoned Once unless it ignores poisoning.
Poisoned(t, s) == s.st = "POISONED" /\ setTo[t] # "force"

Act(t, s) ==
    /\ Load(t, s)
    /\ IF Poisoned(t, s) THEN Done(t) /\ todo' = [todo EXCEPT ![t] = <<>>]
       ELSE Goto(t, OnceLabel(s)) /\ UNCHANGED todo

CallOnce(t, force) ==
    /\ Ready(t, IF force THEN "call_once_force" ELSE "call_once")
    /\ setTo' = [setTo EXCEPT ![t] = IF force THEN "force" ELSE None]
    /\ Goto(t, IF once = Is("COMPLETE") THEN "ready" ELSE "once_load")
    /\ UNCHANGED <<futexes, cont, reg, once, next, signaled, svars>>

OnceLoad(t) ==
    /\ At(t, "once_load") /\ Act(t, once)
    /\ UNCHANGED <<futexes, cont, ovars, svars>>

(* A bug: the exchange is taken to have succeeded.                           *)
OnceCas_Anyway(t) ==
    /\ At(t, "once_cas") /\ once' = Is("RUNNING") /\ Goto(t, "once_init")
    /\ UNCHANGED <<futexes, cont, reg, todo, next, signaled, setTo, svars>>

OnceCas(t) ==
    /\ At(t, "once_cas") /\ UNCHANGED <<futexes, cont, next, signaled, setTo, svars>>
    /\ IF once = reg[t] THEN once' = Is("RUNNING") /\ Goto(t, "once_init") /\ UNCHANGED <<reg, todo>>
       ELSE Act(t, once) /\ UNCHANGED once

\* init runs, and may poison.
OnceInit(t) ==
    /\ At(t, "once_init") /\ Goto(t, "once_drop")
    /\ \E st \in {"COMPLETE", "POISONED"} : setTo' = [setTo EXCEPT ![t] = st]
    /\ KeepO /\ UNCHANGED <<futexes, reg, once, next, signaled>>

\* WaiterQueue::drop: the new state, then every waiter in turn.
OnceDrop(t) ==
    /\ At(t, "once_drop") /\ once' = Is(setTo[t]) /\ Load(t, once.head)
    /\ Goto(t, IF once.head = None THEN "ready" ELSE "once_signal")
    /\ KeepO /\ UNCHANGED <<futexes, next, signaled, setTo>>

\* The next waiter is kept in the drop's own frame (setTo) while unpark runs.
OnceSignal(t) ==
    /\ At(t, "once_signal") /\ signaled' = signaled \union {reg[t]}
    /\ setTo' = [setTo EXCEPT ![t] = next[reg[t]]]
    /\ Call(t, "unpark", "once_next")
    /\ UNCHANGED <<futexes, reg, todo, once, next, svars>>

OnceNext(t) ==
    /\ At(t, "once_next") /\ Load(t, setTo[t])
    /\ Goto(t, IF setTo[t] = None THEN "ready" ELSE "once_signal")
    /\ KeepO /\ UNCHANGED <<futexes, ovars>>

\* wait: a node at the head of the list, and parked until it is signaled.
OnceWait(t) ==
    /\ At(t, "once_wait") /\ KeepO /\ UNCHANGED <<futexes, setTo>>
    /\ IF once = reg[t]
       THEN /\ once' = [once EXCEPT !.head = t] /\ next' = [next EXCEPT ![t] = once.head]
            /\ signaled' = signaled \ {t} /\ Goto(t, "once_check") /\ UNCHANGED reg
       ELSE /\ Load(t, once) /\ UNCHANGED <<once, next, signaled>>
            /\ Goto(t, IF once.st = "RUNNING" THEN "once_wait" ELSE "once_load")

OnceCheck(t) ==
    /\ At(t, "once_check") /\ UNCHANGED <<futexes, reg, todo, ovars, svars>>
    /\ IF t \in signaled THEN Goto(t, "once_load") /\ UNCHANGED cont
       ELSE Call(t, "park", "once_check")

-----------------------------------------------------------------------------
\* Packet::send: the datum is in its slot before the state says so.
Send(t) ==
    /\ Ready(t, "send") /\ data' = "datum" /\ Goto(t, "send_swap")
    /\ UNCHANGED <<futexes, cont, reg, ovars, shot, outcome>>

SendSwap(t) ==
    /\ At(t, "send_swap") /\ shot' = "DATA" /\ Load(t, shot)
    /\ Goto(t, CASE shot = "EMPTY" -> "ready" [] shot = "DISCONNECTED" -> "send_back"
                 [] shot = "DATA" -> "panic" [] OTHER -> "signal")
    /\ outcome' = IF shot = "DISCONNECTED" THEN outcome ELSE "sent"
    /\ UNCHANGED <<futexes, cont, todo, ovars, data>>

SendBack(t) ==
    /\ At(t, "send_back") /\ shot' = "DISCONNECTED" /\ data' = None
    /\ outcome' = "returned" /\ Goto(t, IF data = None THEN "panic" ELSE "ready")
    /\ UNCHANGED <<futexes, cont, reg, todo, ovars>>

\* drop_chan.
DropChan(t) ==
    /\ Ready(t, "drop_chan") /\ shot' = "DISCONNECTED" /\ Load(t, shot)
    /\ Goto(t, IF shot \in Thread THEN "signal" ELSE "ready")
    /\ UNCHANGED <<futexes, cont, ovars, data, outcome>>

\* SignalToken::signal, to the thread in reg.
Signal(t) ==
    /\ At(t, "signal") /\ signaled' = signaled \union {reg[t]}
    /\ IF reg[t] \in signaled THEN Done(t) /\ UNCHANGED cont ELSE Call(t, "unpark", "ready")
    /\ KeepS /\ UNCHANGED <<futexes, reg, svars>>

\* Packet::recv: blocks only if nothing came since it looked.
Recv(t) ==
    /\ Ready(t, "recv") /\ Goto(t, IF shot = "EMPTY" THEN "recv_block" ELSE "try_recv")
    /\ UNCHANGED <<futexes, cont, reg, ovars, svars>>

RecvBlock(t) ==
    /\ At(t, "recv_block") /\ signaled' = signaled \ {t}
    /\ IF shot = "EMPTY" THEN shot' = t /\ Goto(t, "recv_check")
       ELSE Goto(t, "try_recv") /\ UNCHANGED shot
    /\ KeepS /\ UNCHANGED <<futexes, cont, reg, data, outcome>>

RecvCheck(t) ==
    /\ At(t, "recv_check") /\ KeepS /\ UNCHANGED <<futexes, reg, signaled, svars>>
    /\ IF t \notin signaled THEN Call(t, "park", "recv_check")
       ELSE Goto(t, IF shot = "EMPTY" THEN "panic" ELSE "try_recv") /\ UNCHANGED cont

\* try_recv: what the load saw; the exchange and the slot come after it.
TryRecv(t) ==
    /\ At(t, "try_recv") /\ UNCHANGED <<futexes, cont, reg, todo, ovars, svars>>
    /\ Goto(t, CASE shot = "EMPTY" -> "ready" [] shot = "DATA" -> "recv_cas"
                 [] shot = "DISCONNECTED" -> "recv_take" [] OTHER -> "panic")

RecvCas(t) ==
    /\ At(t, "recv_cas") /\ shot' = IF shot = "DATA" THEN "EMPTY" ELSE shot
    /\ Goto(t, IF data = None THEN "panic" ELSE "recv_take")
    /\ UNCHANGED <<futexes, cont, reg, todo, ovars, data, outcome>>

RecvTake(t) ==
    /\ At(t, "recv_take") /\ data' = None /\ Done(t)
    /\ outcome' = IF data = None THEN outcome ELSE "received"
    /\ UNCHANGED <<futexes, cont, reg, todo, ovars, shot>>

\* drop_port: a datum nobody took is destroyed.
DropPort(t) ==
    /\ Ready(t, "drop_port") /\ shot' = "DISCONNECTED"
    /\ IF shot = "DATA"
       THEN data' = None /\ outcome' = "destroyed" /\ Goto(t, IF data = None THEN "panic" ELSE "ready")
       ELSE /\ UNCHANGED <<data, outcome>>
            /\ Goto(t, IF shot \in {"EMPTY", "DISCONNECTED"} THEN "ready" ELSE "panic")
    /\ UNCHANGED <<futexes, cont, reg, ovars>>

StartTryRecv(t) ==
    Ready(t, "try_recv") /\ Goto(t, "try_recv") /\ UNCHANGED <<futexes, cont, reg, ovars, svars>>

-----------------------------------------------------------------------------
OnceStart ==
    /\ once = Is("INCOMPLETE") /\ next = [t \in Thread |-> None] /\ signaled = {}
    /\ setTo = [t \in Thread |-> None]
    /\ shot = "EMPTY" /\ data = None /\ outcome = None

OnceStep(t) ==
    \/ \E force \in BOOLEAN : CallOnce(t, force)
    \/ OnceLoad(t) \/ OnceCas(t) \/ OnceInit(t) \/ OnceDrop(t) \/ OnceSignal(t) \/ OnceNext(t)
    \/ OnceWait(t) \/ OnceCheck(t)
    \/ Send(t) \/ SendSwap(t) \/ SendBack(t) \/ DropChan(t) \/ Signal(t)
    \/ Recv(t) \/ RecvBlock(t) \/ RecvCheck(t) \/ TryRecv(t) \/ RecvCas(t) \/ RecvTake(t)
    \/ DropPort(t) \/ StartTryRecv(t)

-----------------------------------------------------------------------------
Waiting(t) ==
    \/ pc[t] = "once_check"
    \/ cont[t] = "once_check" /\ pc[t] \in {"park", "parker_wait", "parker_woken"}

\* While the state is RUNNING one thread runs its initialiser, and otherwise none
\* does; the drop that walks the list of waiters only ever reaches a node whose
\* thread still waits in the frame that holds it (Once::call_inner, wait,
\* WaiterQueue::drop).
OnceSafe ==
    LET running == {t \in Thread : pc[t] \in {"once_init", "once_drop"}}
    IN  /\ IF once.st = "RUNNING" THEN \E t \in Thread : running = {t} ELSE running = {}
        /\ \A t \in Thread : pc[t] = "once_signal" =>
               Waiting(reg[t]) /\ reg[t] \notin signaled

\* No assertion of the one-shot channel fails (its packet is also disconnected
\* when both ends are gone), and a datum the sender was told is sent is in its
\* slot until it is received or destroyed (Packet::send, try_recv, drop_port).
OneshotSafe ==
    /\ \A t \in Thread : pc[t] # "panic"
    /\ outcome = "sent" => data # None
    /\ outcome \in {"received", "returned", "destroyed"} => data = None
    /\ (outcome # None /\ \A t \in Thread : Finished(t)) => shot = "DISCONNECTED"

-----------------------------------------------------------------------------
\* The threads of a program, each in any of the locks.
syncvars == <<uvars, lvars, rvars, ovars, svars>>

\* The words as the constructors leave them.
Zero == [w \in Word |-> IF w = "rw" THEN Unlocked0 ELSE 0]

SyncInit == ThreadInit(Zero) /\ LocksInit /\ RwInit /\ OnceStart

SyncStep(t) ==
    \/ ThreadStep(t) /\ UNCHANGED <<lvars, rvars, ovars, svars>>
    \/ LocksStep(t) /\ UNCHANGED <<rvars, ovars, svars>>
    \/ RwStep(t) /\ UNCHANGED <<lvars, ovars, svars>>
    \/ OnceStep(t) /\ UNCHANGED <<lvars, rvars>>

SyncNext == \E t \in Thread : SyncStep(t)

SyncSpec == SyncInit /\ [][SyncNext]_syncvars
=============================================================================
