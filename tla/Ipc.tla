-------------------------------- MODULE Ipc --------------------------------
(* Kernel objects, their handles and the channels that carry them between     *)
(* spaces (sched/task/hdl.rs, sched/task/hdl/node.rs, sched/ipc/channel.rs,   *)
(* sched/ipc/channel/syscall.rs).  A handle is the key of a Ref in the handle *)
(* map of a space; a Ref owns one strong count of its object.  A channel end  *)
(* owns its side (the queue that its peer sends to) and may itself be sent.   *)
(* Tasks run on CPUs of their own; the handle map locks one bucket at a time, *)
(* so that every removal and insertion is a step.  Handles are modelled by    *)
(* their keys: the mask of HandleMap::decode is a bijection of the space.     *)
EXTENDS Integers, Sequences, FiniteSets

CONSTANTS Space, IpcTask,
          Home,       \* [IpcTask -> Space]
          IpcCalls,   \* [IpcTask -> SUBSET STRING]: the system calls a task makes
          IpcBudget,  \* bound: [IpcTask -> Nat], the number of them
          Chan,       \* the channels that may come to exist
          Plain,      \* objects that are not channels
          InitChan,   \* the channels that exist at the start
          InitList,   \* [Space -> Seq(Ref)]: the handles that exist at the start
          Feats,      \* the arguments of obj_feat
          MaxArgs,    \* bound: handles in one packet
          MaxQueue,   \* MAX_QUEUE_SIZE
          NoRef

Feature == {"SEND", "SYNC", "READ", "WRITE", "WAIT"}
End == Chan \X {1, 2}
Object == End \cup Plain
Peer(e) == <<e[1], 3 - e[2]>>
Ref == [obj : Object, feat : SUBSET Feature]
Packet == [id : Nat, objs : Seq(Ref)]
ChannelFeatures == {"SEND", "READ", "WRITE", "WAIT"}

\* At the start a channel end has one handle, with the features that chan_new
\* gives or fewer.
InitialHandles ==
    /\ Home \in [IpcTask -> Space] /\ InitChan \subseteq Chan /\ Plain \cap End = {}
    /\ Feats \subseteq SUBSET Feature /\ MaxArgs \in Nat
    /\ InitList \in [Space -> Seq(Ref)]
    /\ \A s \in Space : \A k \in DOMAIN InitList[s] : InitList[s][k].obj \in End =>
         /\ InitList[s][k].obj[1] \in InitChan
         /\ InitList[s][k].feat \subseteq ChannelFeatures
    /\ \A r, s \in Space : \A j \in DOMAIN InitList[r], k \in DOMAIN InitList[s] :
         InitList[r][j].obj = InitList[s][k].obj /\ InitList[s][k].obj \in End => r = s /\ j = k
ASSUME IpcAssumption == InitialHandles

VARIABLES
    list,     \* [Space -> partial function from keys to Ref]  HandleMap.list
    nextId,   \* [Space -> Nat]         HandleMap.next_id
    arc,      \* [Object -> Nat]        strong count of the object
    side,     \* [End -> Nat]           strong count of the ChannelSide
    msgs,     \* [End -> Seq(Packet)]   ChannelSide.msgs
    sig,      \* [End -> BOOLEAN]       SIG_READ in the event of the side
    head,     \* [End -> Packet or None]  Channel.head
    made,     \* SUBSET Chan            channels created so far
    ipc,       \* [Task -> ...]
    ipcLoc,      \* [Task -> ...]          locals of the system call
    drops,    \* [Task -> Seq(...)]     counts to release before the call returns
    ipcCalls,    \* [Task -> Nat]          system calls made
    sent,     \* [End -> Nat]           history: packets pushed to the side
    got       \* [End -> Seq(Nat)]      history: packets a receive took for good

ipcvars == <<list, nextId, arc, side, msgs, sig, head, made, ipc, ipcLoc, drops, ipcCalls, sent, got>>
tabVars == <<list, nextId>>
chanVars == <<side, msgs, sig, head, sent, got>>

NoLoc == [end |-> NoRef, todo |-> <<>>, refs |-> <<>>, next |-> "return"]

IpcInit ==
    /\ list = InitList
    /\ nextId = [s \in Space |-> Len(InitList[s]) + 1]
    /\ arc = [o \in Object |-> IF o \in Plain \cup (InitChan \X {1, 2}) THEN 1 ELSE 0]
    /\ side = [e \in End |-> IF e[1] \in InitChan THEN 1 ELSE 0]
    /\ msgs = [e \in End |-> <<>>] /\ sig = [e \in End |-> FALSE]
    /\ head = [e \in End |-> NoRef] /\ made = InitChan
    /\ ipc = [t \in IpcTask |-> "user"] /\ ipcLoc = [t \in IpcTask |-> NoLoc]
    /\ drops = [t \in IpcTask |-> <<>>] /\ ipcCalls = [t \in IpcTask |-> 0]
    /\ sent = [e \in End |-> 0] /\ got = [e \in End |-> <<>>]

\* A count to release: of an object or of a side.
OfObject(o) == [of |-> "object", what |-> o]
OfSide(e) == [of |-> "side", what |-> e]
ToDrop(refs) == [i \in DOMAIN refs |-> OfObject(refs[i].obj)]

IpcGo(t, label) == ipc' = [ipc EXCEPT ![t] = label]
IpcEnter(t, name) ==
    /\ ipc[t] = "user" /\ name \in IpcCalls[t] /\ ipcCalls[t] < IpcBudget[t]
    /\ ipcCalls' = [ipcCalls EXCEPT ![t] = @ + 1]
\* The call comes to its end: it releases the counts it still has.
Return(t, ds) ==
    /\ IpcGo(t, IF ds = <<>> THEN "user" ELSE "drop") /\ ipcLoc' = [ipcLoc EXCEPT ![t] = NoLoc]
    /\ drops' = [drops EXCEPT ![t] = ds]

-----------------------------------------------------------------------------
\* HandleMap.  A key of the map, or one that is not there any more.
Keys(s) == 1..(nextId[s] - 1)
HandleMapGet(s, k) == IF k \in DOMAIN list[s] THEN list[s][k] ELSE NoRef

InsertRef(s, ref) ==
    /\ list' = [list EXCEPT ![s] = [k \in DOMAIN @ \cup {nextId[s]} |->
                                     IF k = nextId[s] THEN ref ELSE @[k]]]
    /\ nextId' = [nextId EXCEPT ![s] = @ + 1]

RemoveRef(s, k) == list' = [list EXCEPT ![s] = [x \in DOMAIN @ \ {k} |-> @[x]]]

IsChannel(ref) == ref # NoRef /\ ref.obj \in End

\* The condition that HandleMap::split gives to try_remove: no end of the channel
\* that carries the packet, and nothing but channels without Feature::SEND.
Sendable(ref, src) ==
    /\ ref # NoRef
    /\ IF IsChannel(ref) THEN ref.obj[1] # src[1] ELSE "SEND" \in ref.feat

-----------------------------------------------------------------------------
\* chan_new: both ends, and one insertion each; Arc::try_new may fail, which
\* drops what has not been inserted.
ChanNew(t) ==
    /\ IpcEnter(t, "new")
    /\ \E c \in Chan \ made :
         /\ made' = made \cup {c}
         /\ side' = [side EXCEPT ![<<c, 1>>] = 1, ![<<c, 2>>] = 1]
         /\ arc' = [arc EXCEPT ![<<c, 1>>] = 1, ![<<c, 2>>] = 1]
         /\ ipcLoc' = [ipcLoc EXCEPT ![t] = [NoLoc EXCEPT !.next = "new",
                      !.refs = [i \in 1..2 |-> [obj |-> <<c, i>>, feat |-> ChannelFeatures]]]]
    /\ IpcGo(t, "insert")
    /\ UNCHANGED <<tabVars, msgs, sig, head, drops, sent, got>>

ChanNewFails(t) ==
    /\ ipc[t] = "insert" /\ ipcLoc[t].next = "new" /\ ipcLoc[t].refs # <<>>
    /\ Return(t, ToDrop(ipcLoc[t].refs))
    /\ UNCHANGED <<tabVars, arc, chanVars, made, ipcCalls>>

\* HandleMap::insert_ref, for everything that the call has to put into the map:
\* the ends of a new channel, a clone, an object with new features, the objects
\* of a packet (HandleMap::receive) or of a send that failed (HandleMap::merge).
\* After the objects of a packet, receive_handles clears SIG_READ.
InsertStep(t) ==
    /\ ipc[t] = "insert" /\ ipcLoc[t].refs # <<>>
    /\ InsertRef(Home[t], Head(ipcLoc[t].refs))
    /\ ipcLoc' = [ipcLoc EXCEPT ![t].refs = Tail(@)]
    /\ UNCHANGED <<arc, chanVars, made, ipc, drops, ipcCalls>>

Inserted(t) ==
    /\ ipc[t] = "insert" /\ ipcLoc[t].refs = <<>>
    /\ sig' = IF ipcLoc[t].next = "clear" THEN [sig EXCEPT ![ipcLoc[t].end] = FALSE] ELSE sig
    /\ Return(t, IF ipcLoc[t].next = "release" THEN <<OfObject(ipcLoc[t].end)>> ELSE <<>>)
    /\ UNCHANGED <<tabVars, arc, side, msgs, head, sent, got, made, ipcCalls>>

\* HandleMap::clone_ref.
ObjClone(t, k) ==
    LET ref == HandleMapGet(Home[t], k) IN
    /\ IpcEnter(t, "clone")
    /\ ref # NoRef /\ {"SEND", "SYNC"} \subseteq ref.feat
    /\ arc' = [arc EXCEPT ![ref.obj] = @ + 1]
    /\ ipcLoc' = [ipcLoc EXCEPT ![t].refs = <<ref>>]
    /\ IpcGo(t, "insert")
    /\ UNCHANGED <<tabVars, chanVars, made, drops>>

\* obj_feat: Ref::set_features on the object while it is out of the map, which
\* it comes back to, under another key, whether the features could be set or not.
ObjFeat(t, k, feat) ==
    LET ref == HandleMapGet(Home[t], k) IN
    /\ IpcEnter(t, "feat") /\ ref # NoRef
    /\ RemoveRef(Home[t], k)
    /\ ipcLoc' = [ipcLoc EXCEPT ![t].refs = <<IF feat \subseteq ref.feat
                                        THEN [ref EXCEPT !.feat = feat] ELSE ref>>]
    /\ IpcGo(t, "insert")
    /\ UNCHANGED <<nextId, arc, chanVars, made, drops>>

ObjDrop(t, k) ==
    LET ref == HandleMapGet(Home[t], k) IN
    /\ IpcEnter(t, "drop") /\ ref # NoRef
    /\ RemoveRef(Home[t], k)
    /\ Return(t, ToDrop(<<ref>>))
    /\ UNCHANGED <<nextId, arc, chanVars, made>>

-----------------------------------------------------------------------------
\* chan_send_impl up to HandleMap::send: the call keeps a count of the channel.
ChanSend(t, k, args) ==
    LET ref == HandleMapGet(Home[t], k) IN
    /\ IpcEnter(t, "send")
    /\ IsChannel(ref) /\ "WRITE" \in ref.feat
    /\ \A i \in DOMAIN args : args[i] # k
    /\ arc' = [arc EXCEPT ![ref.obj] = @ + 1]
    /\ ipcLoc' = [ipcLoc EXCEPT ![t] = [NoLoc EXCEPT !.end = ref.obj, !.todo = args]]
    /\ IpcGo(t, "split")
    /\ UNCHANGED <<tabVars, chanVars, made, drops>>

(* A bug: the handle stays in the map of the sender.                         *)
Split_Keep(t) ==
    LET k == Head(ipcLoc[t].todo)  ref == HandleMapGet(Home[t], k) IN
    /\ ipc[t] = "split" /\ ipcLoc[t].todo # <<>> /\ Sendable(ref, ipcLoc[t].end)
    /\ ipcLoc' = [ipcLoc EXCEPT ![t].todo = Tail(@), ![t].refs = Append(@, ref)]
    /\ UNCHANGED <<ipc, list, nextId, arc, chanVars, made, drops, ipcCalls>>

\* HandleMap::split, one handle at a time.
Split(t) ==
    LET k == Head(ipcLoc[t].todo)  ref == HandleMapGet(Home[t], k) IN
    /\ ipc[t] = "split" /\ ipcLoc[t].todo # <<>>
    /\ IF Sendable(ref, ipcLoc[t].end)
       THEN /\ RemoveRef(Home[t], k)
            /\ ipcLoc' = [ipcLoc EXCEPT ![t].todo = Tail(@), ![t].refs = Append(@, ref)]
            /\ UNCHANGED ipc
       ELSE /\ IpcGo(t, "insert") /\ ipcLoc' = [ipcLoc EXCEPT ![t].next = "release"]
            /\ UNCHANGED list
    /\ UNCHANGED <<nextId, arc, chanVars, made, drops, ipcCalls>>

(* A bug: a send that fails with EPIPE forgets its packet.                   *)
Upgrade_Forget(t) ==
    LET p == Peer(ipcLoc[t].end) IN
    /\ ipc[t] = "split" /\ ipcLoc[t].todo = <<>>
    /\ IF side[p] = 0
       THEN Return(t, <<OfObject(ipcLoc[t].end)>>) /\ UNCHANGED side
       ELSE /\ side' = [side EXCEPT ![p] = @ + 1]
            /\ IpcGo(t, "len") /\ UNCHANGED <<ipcLoc, drops>>
    /\ UNCHANGED <<tabVars, arc, msgs, sig, head, made, sent, got, ipcCalls>>

\* Channel::send: the peer's side is held while the packet is pushed.
Upgrade(t) ==
    LET p == Peer(ipcLoc[t].end) IN
    /\ ipc[t] = "split" /\ ipcLoc[t].todo = <<>>
    /\ IF side[p] = 0
       THEN Return(t, ToDrop(ipcLoc[t].refs) \o <<OfObject(ipcLoc[t].end)>>) /\ UNCHANGED side
       ELSE /\ side' = [side EXCEPT ![p] = @ + 1]
            /\ IpcGo(t, "len") /\ UNCHANGED <<ipcLoc, drops>>
    /\ UNCHANGED <<tabVars, arc, msgs, sig, head, made, sent, got, ipcCalls>>

\* The length is looked at before the push: ENOSPC drops the packet.
CheckLen(t) ==
    LET p == Peer(ipcLoc[t].end) IN
    /\ ipc[t] = "len"
    /\ IF Len(msgs[p]) >= MaxQueue
       THEN Return(t, <<OfSide(p)>> \o ToDrop(ipcLoc[t].refs) \o <<OfObject(ipcLoc[t].end)>>)
       ELSE IpcGo(t, "push") /\ UNCHANGED <<ipcLoc, drops>>
    /\ UNCHANGED <<tabVars, arc, chanVars, made, ipcCalls>>

Push(t) ==
    LET p == Peer(ipcLoc[t].end)  id == sent[p] + 1 IN
    /\ ipc[t] = "push"
    /\ msgs' = [msgs EXCEPT ![p] = Append(@, [id |-> id, objs |-> ipcLoc[t].refs])]
    /\ sent' = [sent EXCEPT ![p] = id]
    /\ ipcLoc' = [ipcLoc EXCEPT ![t].refs = <<>>]
    /\ IpcGo(t, "notify")
    /\ UNCHANGED <<tabVars, arc, side, sig, head, got, made, drops, ipcCalls>>

Notify(t) ==
    LET p == Peer(ipcLoc[t].end) IN
    /\ ipc[t] = "notify"
    /\ sig' = [sig EXCEPT ![p] = TRUE]
    /\ Return(t, <<OfSide(p), OfObject(ipcLoc[t].end)>>)
    /\ UNCHANGED <<tabVars, arc, side, msgs, head, sent, got, made, ipcCalls>>

-----------------------------------------------------------------------------
(* A bug: a packet that does not fit is not put back.                        *)
ChanRecv_Discard(t, k, cap) ==
    LET ref == HandleMapGet(Home[t], k)
        e == ref.obj
        packet == IF head[e] # NoRef THEN head[e] ELSE Head(msgs[e])
    IN
    /\ IpcEnter(t, "recv") /\ IsChannel(ref) /\ "READ" \in ref.feat
    /\ head[e] # NoRef \/ msgs[e] # <<>>
    /\ msgs' = IF head[e] = NoRef THEN [msgs EXCEPT ![e] = Tail(@)] ELSE msgs
    /\ Len(packet.objs) > cap
    /\ IpcGo(t, "user")
    /\ UNCHANGED <<tabVars, arc, side, sig, head, sent, got, made, drops, ipcLoc>>

\* chan_recv: the guard keeps the handle in the map until Channel::receive is
\* over, under the lock of the head.  A packet that does not fit stays the head
\* (the count of handles stands for the size of the buffer too).
ChanRecv(t, k, cap) ==
    LET ref == HandleMapGet(Home[t], k)
        e == ref.obj
        packet == IF head[e] # NoRef THEN head[e] ELSE Head(msgs[e])
    IN
    /\ IpcEnter(t, "recv") /\ IsChannel(ref) /\ "READ" \in ref.feat
    /\ head[e] # NoRef \/ msgs[e] # <<>>     \* otherwise ENOENT or EPIPE
    /\ msgs' = IF head[e] = NoRef THEN [msgs EXCEPT ![e] = Tail(@)] ELSE msgs
    /\ IF Len(packet.objs) > cap
       THEN /\ head' = [head EXCEPT ![e] = packet]
            /\ IpcGo(t, "user") /\ UNCHANGED <<ipcLoc, got>>
       ELSE /\ head' = [head EXCEPT ![e] = NoRef]
            /\ got' = [got EXCEPT ![e] = Append(@, packet.id)]
            /\ ipcLoc' = [ipcLoc EXCEPT ![t] = [NoLoc EXCEPT !.refs = packet.objs, !.end = e, !.next = "clear"]]
            /\ IpcGo(t, "insert")
    /\ UNCHANGED <<tabVars, arc, side, sig, sent, made, drops>>

-----------------------------------------------------------------------------
HeadOf(e) == IF head[e] = NoRef THEN <<>> ELSE <<head[e]>>
ObjsOf(packets) == [i \in 1..Len(packets) |-> packets[i].objs]
Concat(seqs) ==
    LET f[n \in 0..Len(seqs)] == IF n = 0 THEN <<>> ELSE f[n - 1] \o seqs[n] IN f[Len(seqs)]

Release(t, ds) ==
    /\ drops' = [drops EXCEPT ![t] = ds]
    /\ IpcGo(t, IF ds = <<>> THEN "user" ELSE "drop")

\* The last count of a channel end: Channel::drop cancels the peer's event (the
\* waiters are not part of this module), then its fields go: me, peer and head.
DropObject(t) ==
    LET o == Head(drops[t]).what  rest == Tail(drops[t]) IN
    /\ ipc[t] = "drop" /\ Head(drops[t]).of = "object"
    /\ arc' = [arc EXCEPT ![o] = @ - 1]
    /\ IF arc[o] = 1 /\ o \in End
       THEN /\ head' = [head EXCEPT ![o] = NoRef]
            /\ Release(t, <<OfSide(o)>> \o ToDrop(Concat(ObjsOf(HeadOf(o)))) \o rest)
       ELSE Release(t, rest) /\ UNCHANGED head
    /\ UNCHANGED <<tabVars, side, msgs, sig, made, ipcLoc, ipcCalls, sent, got>>

\* The last count of a side frees the packets that nobody received.
DropSide(t) ==
    LET e == Head(drops[t]).what  rest == Tail(drops[t]) IN
    /\ ipc[t] = "drop" /\ Head(drops[t]).of = "side"
    /\ side' = [side EXCEPT ![e] = @ - 1]
    /\ IF side[e] = 1
       THEN /\ msgs' = [msgs EXCEPT ![e] = <<>>]
            /\ Release(t, ToDrop(Concat(ObjsOf(msgs[e]))) \o rest)
       ELSE Release(t, rest) /\ UNCHANGED msgs
    /\ UNCHANGED <<tabVars, arc, sig, head, made, ipcLoc, ipcCalls, sent, got>>

-----------------------------------------------------------------------------
ArgLists(s) == UNION {[1..n -> Keys(s)] : n \in 0..MaxArgs}

IpcCall(t) ==
    \/ ChanNew(t)
    \/ \E k \in Keys(Home[t]) :
         \/ ObjClone(t, k) \/ ObjDrop(t, k)
         \/ \E feat \in Feats : ObjFeat(t, k, feat)
         \/ \E args \in ArgLists(Home[t]) : ChanSend(t, k, args)
         \/ \E cap \in 0..MaxArgs : ChanRecv(t, k, cap)

Step(t) ==
    \/ ChanNewFails(t) \/ InsertStep(t) \/ Inserted(t)
    \/ Split(t) \/ Upgrade(t) \/ CheckLen(t) \/ Push(t) \/ Notify(t)
    \/ DropObject(t) \/ DropSide(t)

IpcNext == \E t \in IpcTask : IpcCall(t) \/ Step(t)
IpcSpec == IpcInit /\ [][IpcNext]_ipcvars

Objs(refs) == {refs[i].obj : i \in DOMAIN refs}
Queue(e) == HeadOf(e) \o msgs[e]

\* All Refs, by the place they are in.
InQueue(e) ==
    LET q == Queue(e) IN
    UNION {{<<<<e, i, j>>, q[i].objs[j]>> : j \in DOMAIN q[i].objs} : i \in DOMAIN q}
RefAt ==
    (UNION {{<<<<s, k>>, list[s][k]>> : k \in DOMAIN list[s]} : s \in Space})
    \cup (UNION {{<<<<t, i>>, ipcLoc[t].refs[i]>> : i \in DOMAIN ipcLoc[t].refs} : t \in IpcTask})
    \cup (UNION {InQueue(e) : e \in End})

\* A channel end has one owner: one Ref at most, in a handle map, in a system call
\* or in a packet, however sends, receives, failures and drops interleave
\* (obj_clone refuses it, split takes it out of the map before it is pushed).
OneOwner ==
    LET ends == {r \in RefAt : r[2].obj \in End} IN \A r, o \in ends : r[2].obj = o[2].obj => r = o

\* What is received on an end, the packet that a receive with too small a buffer
\* put back, and the queue are, in this order, the packets that were pushed:
\* nothing is lost, repeated or overtaken while the end exists, with several
\* tasks receiving (Channel::receive under the lock of the head); and the queue
\* passes MAX_QUEUE_SIZE by no more than the senders that looked at its length
\* together (Channel::send looks before it pushes).
StreamInOrder ==
    \A e \in End : arc[e] > 0 =>
        /\ got[e] \o [i \in DOMAIN Queue(e) |-> Queue(e)[i].id] = [i \in 1..sent[e] |-> i]
        /\ Len(msgs[e]) < MaxQueue + Cardinality(IpcTask)

\* An object that is alive can be reached: from a handle map, from a system call
\* that still has to release or to insert it, or it is in the queue of an end that
\* can be reached; or else it is carried, at some remove, by an end that carries
\* itself.  No failure of chan_new, chan_send or chan_recv strands an object.
InCalls == UNION {Objs(ipcLoc[t].refs) \cup {drops[t][i].what : i \in DOMAIN drops[t]} : t \in IpcTask}
           \cup {ipcLoc[t].end : t \in {x \in IpcTask : ipcLoc[x].end # NoRef}}
           \cup {Peer(ipcLoc[t].end) : t \in {x \in IpcTask : ipc[x] \in {"len", "push", "notify"}}}
Roots == UNION {{list[s][k].obj : k \in DOMAIN list[s]} : s \in Space} \cup InCalls
ReachFrom(objs, carried) ==
    LET r[n \in 0..Cardinality(End)] ==
          IF n = 0 THEN objs
          ELSE LET before == r[n - 1] IN before \cup UNION {carried[e] : e \in before \cap End}
    IN r[Cardinality(End)]
NothingStranded ==
    LET carried == [e \in End |-> {r[2].obj : r \in InQueue(e)}]
        onCycle == {e \in End : carried[e] # {} /\ e \in ReachFrom(carried[e], carried)}
        reached == ReachFrom(Roots \cup onCycle, carried)
    IN \A o \in Object : arc[o] > 0 => o \in reached
=============================================================================
