------------------------------- MODULE Threads ------------------------------
(***************************************************************************)
(* User threads: spawn, join and scoped threads (h2o_std core/src          *)
(* thread.rs, thread/scope.rs, thread/imp.rs), and, in the second half,    *)
(* the thread-local values of one thread.  The main thread runs one        *)
(* `scope': its body spawns scoped threads, drops or joins their handles,  *)
(* and the scope then waits for the count of running threads to be zero.   *)
(*                                                                         *)
(* A thread's Packet (its result and the scope it counts for) is shared by *)
(* the join handle and the thread's closure through an Arsc (module Arsc); *)
(* the last of them to go gives the scope's count back.  Parking is by a   *)
(* token, as module UserThread shows of Parker.                            *)
(***************************************************************************)
EXTENDS Integers, FiniteSets, Sequences, SequencesExt

CONSTANT Kid        \* the threads the scope spawns

VARIABLES
    kid,        \* how far each thread has come
    packet,     \* handles to each thread's Packet
    result,     \* has its closure left a result?
    handle,     \* its join handle: "none", "held", "gone"
    num,        \* num_running_threads; -1 is usize::MAX
    main,       \* where the scope's thread is: pc, and the thread it spawns
    mainToken       \* the main thread's parking token

thvars == <<kid, packet, result, handle, num, main, mainToken>>

ThInit ==
    /\ kid = [k \in Kid |-> "none"] /\ packet = [k \in Kid |-> 0] /\ result = [k \in Kid |-> FALSE]
    /\ handle = [k \in Kid |-> "none"] /\ num = 0 /\ mainToken = FALSE
    /\ main = [pc |-> "body"]

MainGo(pc) == main' = [main EXCEPT !.pc = pc]
KidGo(k, s) == kid' = [kid EXCEPT ![k] = s]

(* ScopeData::decrement_num_running_threads by the main thread itself.     *)
DecrementHere == num' = num - 1 /\ mainToken' = (mainToken \/ num = 1)

(* Dropping the main thread's handle to a packet; Packet::drop if last.    *)
DropPacket(k) ==
    /\ packet' = [packet EXCEPT ![k] = @ - 1]
    /\ IF packet[k] = 1 THEN DecrementHere ELSE UNCHANGED <<num, mainToken>>

-----------------------------------------------------------------------------
(* Builder::spawn_inner: the packet and its clone for the closure.         *)
SpawnInner(k) ==
    /\ main.pc = "body" /\ kid[k] = "none"
    /\ packet' = [packet EXCEPT ![k] = 2] /\ KidGo(k, "prepared")
    /\ main' = [pc |-> "native", k |-> k]
    /\ UNCHANGED <<result, handle, num, mainToken>>

(* imp::Thread::new: stack, mapping and task are made; the thread may run  *)
(* from here on.                                                           *)
NativeNew ==
    /\ main.pc = "native" /\ KidGo(main.k, "ready") /\ MainGo("increment")
    /\ UNCHANGED <<packet, result, handle, num, mainToken>>

(* It fails: the closure and the packet are dropped, and with the packet   *)
(* goes a count that was never taken.                                      *)
NativeFailed ==
    /\ main.pc = "native" /\ KidGo(main.k, "failed")
    /\ packet' = [packet EXCEPT ![main.k] = 0] /\ DecrementHere
    /\ main' = [pc |-> "body"]
    /\ UNCHANGED <<result, handle>>

(* increment_num_running_threads, after the thread was started; it panics  *)
(* above isize::MAX.                                                       *)
Increment ==
    /\ main.pc = "increment"
    /\ IF num = -1 THEN main' = [pc |-> "panicked"] /\ UNCHANGED <<num, handle>>
       ELSE /\ num' = num + 1 /\ main' = [pc |-> "body"]
            /\ handle' = [handle EXCEPT ![main.k] = "held"]
    /\ UNCHANGED <<kid, packet, result, mainToken>>

DropHandle(k) ==
    /\ main.pc = "body" /\ handle[k] = "held"
    /\ handle' = [handle EXCEPT ![k] = "gone"] /\ DropPacket(k)
    /\ UNCHANGED <<kid, result, main>>

(* JoinInner::join: the kernel's task_join, then get_mut and take, both    *)
(* unwrapped.                                                              *)
JoinPanics(k) == packet[k] # 1 \/ ~result[k]
Join(k) ==
    /\ main.pc = "body" /\ handle[k] = "held" /\ kid[k] = "exited"
    /\ handle' = [handle EXCEPT ![k] = "gone"]
    /\ IF JoinPanics(k) THEN main' = [pc |-> "panicked"] /\ UNCHANGED <<packet, result, num, mainToken>>
       ELSE DropPacket(k) /\ result' = [result EXCEPT ![k] = FALSE] /\ UNCHANGED main
    /\ UNCHANGED kid

(* scope: the handles do not outlive the body; then wait for the count.    *)
EndBody ==
    /\ main.pc = "body" /\ \A k \in Kid : handle[k] # "held"
    /\ MainGo("wait") /\ UNCHANGED <<kid, packet, result, handle, num, mainToken>>

WaitLoad ==
    /\ main.pc = "wait" /\ MainGo(IF num = 0 THEN "returned" ELSE "parked")
    /\ UNCHANGED <<kid, packet, result, handle, num, mainToken>>

ParkMain ==
    /\ main.pc = "parked" /\ mainToken /\ mainToken' = FALSE /\ MainGo("wait")
    /\ UNCHANGED <<kid, packet, result, handle, num>>

(* A bug: the thread gives its count back whoever else has the packet.     *)
KidDropPacket_Anyway(k) ==
    /\ kid[k] = "stored" /\ packet' = [packet EXCEPT ![k] = @ - 1] /\ KidGo(k, "last")
    /\ UNCHANGED <<result, handle, num, main, mainToken>>

-----------------------------------------------------------------------------
(* thread_func: the closure stores the result and its packet is dropped.   *)
KidRun(k) == /\ kid[k] = "ready" /\ KidGo(k, "running")
             /\ UNCHANGED <<packet, result, handle, num, main, mainToken>>
KidStore(k) == /\ kid[k] = "running" /\ KidGo(k, "stored") /\ result' = [result EXCEPT ![k] = TRUE]
               /\ UNCHANGED <<packet, handle, num, main, mainToken>>
KidDropPacket(k) ==
    /\ kid[k] = "stored" /\ packet' = [packet EXCEPT ![k] = @ - 1]
    /\ KidGo(k, IF packet[k] = 1 THEN "last" ELSE "leaving")
    /\ UNCHANGED <<result, handle, num, main, mainToken>>

(* decrement_num_running_threads: the count, then the wake-up.             *)
WasLast_ButOne(n) == n = 2
WasLast(n) == n = 1
KidDecrement(k) ==
    /\ kid[k] = "last" /\ num' = num - 1
    /\ KidGo(k, IF WasLast(num) THEN "waking" ELSE "leaving")
    /\ UNCHANGED <<packet, result, handle, main, mainToken>>
KidUnpark(k) == /\ kid[k] = "waking" /\ mainToken' = TRUE /\ KidGo(k, "leaving")
                /\ UNCHANGED <<packet, result, handle, num, main>>

(* __libc_deallocate_tcb and exit.                                         *)
KidExit(k) == /\ kid[k] = "leaving" /\ KidGo(k, "exited")
              /\ UNCHANGED <<packet, result, handle, num, main, mainToken>>

ThNext ==
    \/ NativeNew \/ NativeFailed \/ Increment \/ EndBody \/ WaitLoad \/ ParkMain
    \/ \E k \in Kid : SpawnInner(k) \/ DropHandle(k) \/ Join(k) \/ KidRun(k) \/ KidStore(k)
                      \/ KidDropPacket(k) \/ KidDecrement(k) \/ KidUnpark(k) \/ KidExit(k)

ThSpec == ThInit /\ [][ThNext]_thvars

-----------------------------------------------------------------------------
Borrowing == {k \in Kid : kid[k] \in {"prepared", "ready", "running"}}
Counting == {k \in Kid : kid[k] \in {"ready", "running", "stored", "last", "waking"}}

(* When `scope' returns, every closure it started has finished, though a   *)
(* thread is counted only after it was started; a scope that sleeps will   *)
(* be woken: some thread still has its count or its wake-up to give; and   *)
(* `join' finds the packet its own and the result in it.  All but the last *)
(* only while no spawn failed: a failed one takes back a count that was    *)
(* never given.                                                            *)
ScopeSound ==
    /\ (\A k \in Kid : kid[k] # "failed") =>
          /\ main.pc = "returned" => Borrowing = {}
          /\ main.pc = "parked" /\ ~mainToken => Counting # {}
    /\ \A k \in Kid : handle[k] = "held" /\ kid[k] = "exited" => ~JoinPanics(k)

-----------------------------------------------------------------------------
(***************************************************************************)
(* Thread-local values with destructors (h2o_std core/src thread/local.rs, *)
(* the fast::Key form of thread_local!) and the destructor list of the     *)
(* thread control block (ldso ffi.rs).  One thread; the code it runs, the  *)
(* initialisers and the destructors may each use any key, so the calls     *)
(* nest: `frames' is the stack of initialisers and destructors running.    *)
(* The const form of the macro is not modelled: its destructor does not    *)
(* change STATE, so that a later access still yields the dropped value.    *)
(***************************************************************************)
CONSTANTS
    LKey,       \* keys
    Plain,      \* the keys whose type needs no drop
    MaxDepth,   \* bound: nested initialisers and destructors
    MaxVals     \* bound: values made

ASSUME LocalAssumption == Plain \subseteq LKey

VARIABLES
    inner,      \* Key::inner: the value of each key, 0 for None
    dtor_state, \* Key::dtor_state
    dtors,      \* Tcb::dtors
    taken,      \* the destructors __libc_deallocate_tcb took, in its order
    frames,     \* [is |-> "init" or "drop", key |-> .., val |-> ..]
    drops,      \* how often each value was dropped
    vals,       \* the values made so far: the key of each
    phase,      \* "run", "exit", "done"
    late        \* keys registered after the list was taken

lovars == <<inner, dtor_state, dtors, taken, frames, drops, vals, phase, late>>

LoInit ==
    /\ inner = [k \in LKey |-> 0] /\ dtor_state = [k \in LKey |-> "Unregistered"]
    /\ dtors = <<>> /\ taken = <<>> /\ frames = <<>> /\ drops = [v \in 1 .. MaxVals |-> 0]
    /\ vals = <<>> /\ phase = "run" /\ late = {}

(* Key::get of an uninitialised key: try_register_dtor, then the           *)
(* initialiser runs; a key that is or was being destroyed yields None.     *)
TryInitialize(k) ==
    /\ phase # "done" /\ inner[k] = 0 /\ Len(frames) < MaxDepth
    /\ (phase = "exit" => frames # <<>>)
    /\ dtor_state[k] # "RunningOrHasRun"
    /\ IF k \in Plain \/ dtor_state[k] = "Registered" THEN UNCHANGED <<dtor_state, dtors, late>>
       ELSE /\ dtor_state' = [dtor_state EXCEPT ![k] = "Registered"]
            /\ dtors' = Append(dtors, k)
            /\ late' = IF phase = "exit" THEN late \cup {k} ELSE late
    /\ frames' = Append(frames, [is |-> "init", key |-> k, val |-> 0])
    /\ UNCHANGED <<inner, taken, drops, vals, phase>>

(* LazyKeyInner::initialize: store the value; one that a nested call had   *)
(* stored meanwhile is replaced and dropped.                               *)
Replaced(k) == IF inner[k] # 0 /\ k \notin Plain THEN {inner[k]} ELSE {}
Initialize ==
    /\ frames # <<>> /\ Last(frames).is = "init" /\ Len(vals) < MaxVals
    /\ LET k == Last(frames).key
       IN  /\ inner' = [inner EXCEPT ![k] = Len(vals) + 1]
           /\ vals' = Append(vals, k)
           /\ drops' = [v \in DOMAIN drops |-> IF v \in Replaced(k) THEN drops[v] + 1 ELSE drops[v]]
    /\ frames' = Front(frames)
    /\ UNCHANGED <<dtor_state, dtors, taken, phase, late>>

(* __libc_deallocate_tcb: take the list, and run it from its end.          *)
Deallocate ==
    /\ phase = "run" /\ frames = <<>> /\ phase' = "exit"
    /\ taken' = Reverse(dtors) /\ dtors' = <<>>
    /\ UNCHANGED <<inner, dtor_state, frames, drops, vals, late>>

(* A bug: the key is not marked before the drop.                           *)
DestroyValue_Unmarked ==
    /\ phase = "exit" /\ frames = <<>> /\ taken # <<>>
    /\ LET k == Head(taken)
       IN  /\ inner' = [inner EXCEPT ![k] = 0]
           /\ frames' = <<[is |-> "drop", key |-> k, val |-> inner[k]]>>
    /\ taken' = Tail(taken)
    /\ UNCHANGED <<dtor_state, dtors, drops, vals, phase, late>>

(* destroy_value: the value is taken and the key marked before the drop.   *)
DestroyValue ==
    /\ phase = "exit" /\ frames = <<>> /\ taken # <<>>
    /\ LET k == Head(taken)
       IN  /\ inner' = [inner EXCEPT ![k] = 0]
           /\ dtor_state' = [dtor_state EXCEPT ![k] = "RunningOrHasRun"]
           /\ frames' = <<[is |-> "drop", key |-> k, val |-> inner[k]]>>
    /\ taken' = Tail(taken)
    /\ UNCHANGED <<dtors, drops, vals, phase, late>>

Dropped ==
    /\ frames # <<>> /\ Last(frames).is = "drop"
    /\ drops' = [v \in DOMAIN drops |-> IF v = Last(frames).val THEN drops[v] + 1 ELSE drops[v]]
    /\ frames' = Front(frames)
    /\ UNCHANGED <<inner, dtor_state, dtors, taken, vals, phase, late>>

(* The rest of __libc_deallocate_tcb: the block's memory goes.             *)
FreeTcb ==
    /\ phase = "exit" /\ frames = <<>> /\ taken = <<>> /\ phase' = "done"
    /\ UNCHANGED <<inner, dtor_state, dtors, taken, frames, drops, vals, late>>

LoNext == \/ \E k \in LKey : TryInitialize(k)
          \/ Initialize \/ Deallocate \/ DestroyValue \/ Dropped \/ FreeTcb

LoSpec == LoInit /\ [][LoNext]_lovars

-----------------------------------------------------------------------------
Reachable == {inner[k] : k \in LKey} \ {0}

(* However initialisers and destructors use each other's keys: what a key  *)
(* hands out has not been dropped and is not being dropped; no value is    *)
(* dropped twice; and when the thread is gone, a value that was not        *)
(* dropped is one of a type without destructor, or of a key first used     *)
(* while the destructors were already running.                             *)
LocalsDropped ==
    /\ \A v \in Reachable : drops[v] = 0 /\ \A j \in DOMAIN frames : frames[j].val # v
    /\ \A v \in DOMAIN vals : drops[v] <= 1
    /\ phase = "done" => \A v \in DOMAIN vals : drops[v] = 0 => vals[v] \in Plain \cup late
=============================================================================
