------------------------------- MODULE MCUser -------------------------------
(***************************************************************************)
(* The user-space libraries, one part at a time: the locks, queues and     *)
(* channels of threads (over the futex's abstract specification), scoped   *)
(* threads, thread locals; the locks and channels of tasks, the reactor,   *)
(* the executor; streams, paths, and the two file systems.  The locks and  *)
(* channels are exercised by programs of three threads or tasks.           *)
(***************************************************************************)
EXTENDS UserOnce, Deque, Threads,
        AsyncLocks, AsyncDisp, Executor, Stream, Path, MemFs, LocalFs

CONSTANTS t1, t2, t3

VARIABLE part

Prog(x, y, z) == [t \in {t1, t2, t3} |-> CASE t = t1 -> x [] t = t2 -> y [] OTHER -> z]
Nothing == Prog(<<>>, <<>>, <<>>)

\* Each program gives every waiting the wake-up it waits for.
Locking ==
    { Prog(<<"lock">>, <<"lock", "try_lock">>, <<"lock">>),
      Prog(<<"ppark">>, <<"punpark">>, <<"punpark", "lock">>),
      Prog(<<"ppark_timeout">>, <<"punpark">>, <<"punpark">>),
      Prog(<<"park_timeout">>, <<t1>>, <<>>),
      Prog(<<"park">>, <<t1>>, <<t1>>),
      Prog(<<"read">>, <<"write">>, <<"read">>),
      Prog(<<"write">>, <<"write", "try_read">>, <<"try_write">>),
      Prog(<<"call_once">>, <<"call_once_force">>, <<"call_once_force">>),
      Prog(<<"send", "drop_chan">>, <<"recv", "drop_port">>, <<>>),
      Prog(<<"send", "drop_chan">>, <<"try_recv", "recv", "drop_port">>, <<>>),
      Prog(<<"drop_chan">>, <<"recv", "drop_port">>, <<>>) }

\* t1 owns the deque the others steal from.
Stealing ==
    { Prog(<<"push", "push", "push", "pop">>, <<"steal_batch_and_pop">>, <<"steal">>),
      Prog(<<"push", "push", "pop", "push", "pop">>, <<"steal_batch", "pop">>, <<>>),
      Prog(<<"push", "steal_batch", "steal_batch_and_pop">>, <<"steal">>, <<"steal">>) }
\* The owner of B takes from the injector.
Injecting ==
    { Prog(<<"ipush", "ipush", "ipush">>, <<"isteal_batch", "pop">>, <<"isteal">>),
      Prog(<<"ipush", "ipush">>, <<"isteal_batch_and_pop">>, <<"ipush", "isteal">>) }
Owns == [t \in Thread |-> IF t = t1 THEN "A" ELSE "B"]
Items == 1..4
MCPrograms == Locking \union Stealing \union Injecting \union {Nothing}

Awaiting ==
    { Prog(<<"listen_timeout">>, <<"notify">>, <<"listen_timeout", "notify_additional">>),
      Prog(<<"lock">>, <<"lock", "or_cancel">>, <<"lock">>),
      Prog(<<"try_lock">>, <<"lock", "or_cancel", "lock">>, <<>>),
      Prog(<<"read">>, <<"write", "or_cancel">>, <<"read">>),
      Prog(<<"upgradable_read">>, <<"try_read", "try_write">>, <<"read">>),
      Prog(<<"write">>, <<"write", "or_cancel">>, <<>>),
      Prog(<<"send", "send", "drop_sender">>, <<"recv", "or_cancel", "drop_receiver">>, <<"recv", "drop_receiver">>),
      Prog(<<"send", "drop_sender">>, <<"next", "next", "drop_receiver">>, <<"recv", "or_cancel", "drop_receiver">>),
      Prog(<<"clone_sender", "send", "drop_sender">>, <<"recv", "clone_receiver", "drop_receiver">>,
           <<"send", "or_cancel", "close">>) }
AllJobs == Awaiting \union {Nothing}

Words == Thread \union {"mutex", "cv", "rw", "writer_notify"}

threadvars == <<syncvars, dvars, ivars>>
taskvars == <<tvars, avars, cvars, dispvars>>
scopevars == <<thvars, lovars, exvars>>
filevars == <<stvars, pathvars, fsvars, lfsvars>>

MCInit ==
    /\ part \in {"thread", "scope", "local", "task", "reactor", "executor", "stream", "path", "memfs", "localfs"}
    /\ PathInit /\ (part # "path" => p = <<>> /\ q = <<>>)
    /\ SyncInit /\ DequeInit(Items) /\ InjectorInit
    /\ IF part = "thread" THEN todo # Nothing ELSE todo = Nothing
    /\ todo \notin Stealing => flavor["A"] = "Fifo"
    /\ todo \notin Stealing \union Injecting => flavor["B"] = "Fifo"
    /\ ThInit /\ LoInit /\ ExInit
    /\ TaskInit /\ ALocksInit /\ ChannelInit(1, 2)
    /\ IF part = "task" THEN jobs # Nothing ELSE jobs = Nothing
    /\ DispInit /\ (part = "reactor" <=> kind # "none")
    /\ StInit /\ LfsInit
    /\ FsInit /\ (part # "memfs" => \A e \in Conn : conn[e] = Opened(FRoot, TRUE))

ThreadPart == \E t \in Thread :
    \/ SyncStep(t) /\ UNCHANGED <<dvars, ivars>>
    \/ DequeStep(t) /\ UNCHANGED <<lvars, rvars, ovars, svars, ivars>>
    \/ InjectorStep(t) /\ UNCHANGED <<lvars, rvars, ovars, svars>>

TaskPart == \E t \in Task :
    \/ TaskStep(t) /\ UNCHANGED <<avars, cvars>>
    \/ ALocksStep(t) /\ UNCHANGED cvars
    \/ ChannelStep(t) /\ UNCHANGED avars

MCNext ==
    /\ UNCHANGED part
    /\ \/ part = "thread" /\ ThreadPart /\ UNCHANGED <<taskvars, scopevars, filevars>>
       \/ part = "task" /\ TaskPart /\ UNCHANGED <<dispvars, threadvars, scopevars, filevars>>
       \/ part = "reactor" /\ DispNext /\ UNCHANGED <<tvars, avars, cvars, threadvars, scopevars, filevars>>
       \/ part = "scope" /\ ThNext /\ UNCHANGED <<lovars, exvars, threadvars, taskvars, filevars>>
       \/ part = "local" /\ LoNext /\ UNCHANGED <<thvars, exvars, threadvars, taskvars, filevars>>
       \/ part = "executor" /\ ExNext /\ UNCHANGED <<thvars, lovars, threadvars, taskvars, filevars>>
       \/ part = "stream" /\ StNext /\ UNCHANGED <<pathvars, fsvars, lfsvars, threadvars, taskvars, scopevars>>
       \/ part = "path" /\ PathNext /\ UNCHANGED <<stvars, fsvars, lfsvars, threadvars, taskvars, scopevars>>
       \/ part = "memfs" /\ FsNext /\ UNCHANGED <<stvars, pathvars, lfsvars, threadvars, taskvars, scopevars>>
       \/ part = "localfs" /\ LfsNext /\ UNCHANGED <<stvars, pathvars, fsvars, threadvars, taskvars, scopevars>>

MCSpec == MCInit /\ [][MCNext]_<<part, threadvars, taskvars, scopevars, filevars>>

-----------------------------------------------------------------------------
\* The locks of threads are checked by the properties of their own modules, in
\* every part: MutexExclusive (UserLocks), RwExclusive (UserRwLock) and OnceSafe
\* (UserOnce).

\* Threads: a thread that sleeps has a wake-up coming, in every lock, parker, once
\* and channel of h2o_std; a scope outlives its threads, and a thread its locals:
\* see NoneStranded (UserThread), ScopeSound and LocalsDropped (Threads).
ThreadsServed ==
    /\ part = "thread" => NoneStranded
    /\ part = "scope" => ScopeSound
    /\ part = "local" => LocalsDropped

\* What is pushed into a deque or an injector is taken out once, memory is freed
\* once, and what a thread sends through a oneshot channel is received once: see
\* NoTaskLost and BlocksFreedOnce (Deque), OneshotSafe (UserOnce).
QueuesExact == part = "thread" => NoTaskLost /\ BlocksFreedOnce /\ OneshotSafe

\* Tasks: a task that waits is in the list that will wake it, and the locks of
\* tasks exclude; a future that was sent is polled again; a runnable is in one
\* queue that somebody serves: see NoTaskStranded (AsyncEvent), AsyncExclusive
\* (AsyncLocks), FuturesServed (AsyncDisp), RunnablesKept (Executor).
TasksServed ==
    /\ part = "task" => NoTaskStranded /\ AsyncExclusive
    /\ part = "reactor" => FuturesServed
    /\ part = "executor" => RunnablesKept

\* Bytes, files and mounts are found where they were put; paths are parsed alike
\* from both ends, and the operations on them agree: see StreamIsFile (Stream),
\* FilesKept (MemFs), MountsFound (LocalFs), PathsParsed and PathLaws (Path).
FilesExact ==
    /\ part = "stream" => StreamIsFile
    /\ part = "memfs" => FilesKept
    /\ part = "localfs" => MountsFound
    /\ part = "path" => PathsParsed /\ PathLaws
=============================================================================
