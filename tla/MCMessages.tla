----------------------------- MODULE MCMessages -----------------------------
(***************************************************************************)
(* How programs talk: events and dispatchers (module Event), handles and   *)
(* channels (Ipc), calls over a channel (Rpc) and the format of a packet   *)
(* (Serde).  A behaviour exercises one part and leaves the others in an    *)
(* initial state.                                                          *)
(***************************************************************************)
EXTENDS Event, Ipc, Rpc, Serde, TLC

CONSTANTS t1, t2, t3, s1, s2, c1, c2, evt

VARIABLE part

\* t1 waits, pushes or pops, t2 pushes and pops, t3 signals and cancels.
Roles == (t1 :> {"wait", "push", "pop"}) @@ (t2 :> {"push", "pop"}) @@ (t3 :> {"notify", "cancel"})
SetAndClear == {<<{}, {"R"}>>, <<{"R"}, {}>>, <<{}, {"W"}>>}
TwoOneTwo == (t1 :> 2) @@ (t2 :> 1) @@ (t3 :> 2)
Wait(e, level, all, poll) == [ev |-> e, want |-> {"R"}, level |-> level, all |-> all, poll |-> poll]
FourWaits == {Wait("obj", TRUE, FALSE, FALSE), Wait("obj", FALSE, TRUE, FALSE),
              Wait("obj", TRUE, TRUE, TRUE), Wait("disp", TRUE, FALSE, FALSE)}
ReadOnly == {{"R"}}

\* The two ends of c1 are in different spaces; s1 also has an event that may be
\* cloned and sent.
TwoSpaces == (s1 :> <<[obj |-> <<c1, 1>>, feat |-> ChannelFeatures],
                      [obj |-> evt, feat |-> {"SEND", "SYNC", "WAIT"}]>>)
             @@ (s2 :> <<[obj |-> <<c1, 2>>, feat |-> ChannelFeatures]>>)
Homes == (t1 :> s1) @@ (t2 :> s1) @@ (t3 :> s2)
IpcRoles == (t1 :> {"new", "send", "clone", "feat"}) @@ (t2 :> {"send", "drop"})
            @@ (t3 :> {"recv", "drop"})
TwoOneOne == (t1 :> 2) @@ (t2 :> 1) @@ (t3 :> 1)
WaitOnly == {{"WAIT"}}

MCInit ==
    /\ part \in {"event", "ipc", "rpc", "wire"}
    /\ Init /\ IpcInit /\ SeInit
    \* Two calls, or one call, an event and its receiver.
    /\ IF part = "rpc" THEN RpcInit({EvTask}, MaxEvents) \/ RpcInit({2}, 0)
       ELSE RpcInit(CallId, 0) /\ ~blocking
    /\ method = 1 /\ (part # "wire" => ty.is = "handle" /\ val = 1)

MCNext ==
    /\ UNCHANGED part
    /\ \/ part = "event" /\ Next /\ UNCHANGED <<ipcvars, rpcvars, sevars>>
       \/ part = "ipc" /\ IpcNext /\ UNCHANGED <<vars, rpcvars, sevars>>
       \/ part = "rpc" /\ RpcNext /\ UNCHANGED <<vars, ipcvars, sevars>>
       \/ part = "wire" /\ SeNext /\ UNCHANGED <<vars, ipcvars, rpcvars>>

MCSpec == MCInit /\ [][MCNext]_<<part, vars, ipcvars, rpcvars, sevars>>
=============================================================================
