-------------------------------- MODULE Rpc ---------------------------------
(* h2o_rpc: the clients and the server of a channel.  Calls share one        *)
(* channel: whoever receives a reply hands it to the call it belongs to      *)
(* (client.rs: wakers; sync/client.rs: callers).  An async call is polled by *)
(* its task; every poll starts a Receive of its own, which asks the reactor  *)
(* (AsyncDisp) to wake the task when the channel is empty.                   *)
EXTENDS Integers, Sequences, FiniteSets

CONSTANTS CallId,     \* ids of the calls; Packet.id
          Sync,       \* the clients checked: FALSE for the async, TRUE for the sync one
          MaxEvents,  \* bound: events the server sends
          NoPacket

EvTask == 0               \* packets without an id, and the task that receives them
Actor == CallId \union {EvTask}

ASSUME RpcAssumption ==
    /\ EvTask \notin CallId /\ -1 \notin CallId /\ NoPacket \notin Actor
    /\ Sync \subseteq BOOLEAN

VARIABLES
    blocking,  \* the client is sync/client.rs
    rpc,       \* [Actor -> STRING]   where a call or the event receiver is
    hand,      \* [Actor -> id or NoPacket]  the packet it has just received
    entry,     \* [CallId -> STRING]   WakerEntry; "none" if not in the map
    evEntry,   \* EventEntry
    events,    \* number of events queued
    kept,      \* SUBSET CallId       callers of the sync client
    lock,      \* who holds its mutex, or NoPacket
    reg,       \* SUBSET Actor        tasks the reactor wakes when there is a packet
    stirred,   \* SUBSET Actor        wakers called
    requests, replies,   \* the channel's two queues
    serving,   \* SUBSET CallId       requests the server has taken
    open,      \* the server's end exists
    answer     \* [CallId -> id, -1 (an error) or NoPacket]   what a call returned

client == <<blocking, rpc, hand, entry, evEntry, events, kept, lock, reg, stirred, answer>>
rpcvars == <<client, requests, replies, serving, open>>
At(c, l) == rpc[c] = l
Goto(c, l) == rpc' = [rpc EXCEPT ![c] = l]
Entry(c, e) == entry' = [entry EXCEPT ![c] = e]
SameChan == UNCHANGED <<requests, replies, serving, open>>

-----------------------------------------------------------------------------
\* ClientImpl::call: register, then send; a closed channel is drained first.
Register(c) ==
    /\ At(c, "idle") /\ c # EvTask /\ ~blocking /\ Entry(c, "init") /\ Goto(c, "send")
    /\ UNCHANGED <<blocking, hand, evEntry, events, kept, lock, reg, stirred, answer>> /\ SameChan

SendRequest(c) ==
    /\ At(c, "send") /\ UNCHANGED <<blocking, hand, entry, evEntry, events, kept, lock, reg, stirred, answer>>
    /\ IF open THEN requests' = Append(requests, c) /\ Goto(c, IF blocking THEN "s_recv" ELSE "poll")
       ELSE UNCHANGED requests /\ Goto(c, IF blocking THEN "s_error" ELSE "drain")
    /\ UNCHANGED <<replies, serving, open>>

\* receive_for_caller and receive_for_event: the waker first.
PollCall(c) ==
    /\ At(c, "poll") /\ UNCHANGED <<blocking, hand, events, kept, lock, reg, stirred, answer>> /\ SameChan
    /\ IF c = EvTask THEN evEntry' = "waiting" /\ Goto(c, "recv") /\ UNCHANGED entry
       ELSE /\ UNCHANGED evEntry
            /\ CASE entry[c] = "packet" -> Goto(c, "recv") /\ UNCHANGED entry
                 [] entry[c] \in {"init", "waiting"} -> Entry(c, "waiting") /\ Goto(c, "recv")
                 [] OTHER -> Goto(c, "panic") /\ UNCHANGED entry

\* Inner::receive: a packet, the end of the channel, or a wait in the reactor;
\* the Receive of a poll that has to wait is dropped with the poll.
ReceivePacket(c) ==
    /\ At(c, "recv") \/ At(c, "drain")
    /\ UNCHANGED <<blocking, entry, evEntry, events, kept, lock, stirred, answer, requests, serving, open>>
    /\ CASE replies # <<>> -> /\ hand' = [hand EXCEPT ![c] = Head(replies)]
                              /\ replies' = Tail(replies) /\ UNCHANGED reg
                              /\ Goto(c, IF At(c, "drain") THEN "deliver_drain" ELSE "deliver")
         [] replies = <<>> /\ ~open -> /\ Goto(c, IF At(c, "drain") THEN "s_error" ELSE "stopped")
                                     /\ UNCHANGED <<hand, replies, reg>>
         [] OTHER -> Goto(c, "pending") /\ reg' = reg \union {c} /\ UNCHANGED <<hand, replies>>

(* A bug: a reply that comes before the first poll removes the entry.        *)
Deliver_Early(c) ==
    /\ At(c, "deliver") \/ At(c, "deliver_drain")
    /\ LET k == hand[c]
       IN  /\ k # EvTask /\ UNCHANGED <<events, evEntry>>
           /\ entry' = [entry EXCEPT ![k] = IF @ = "waiting" THEN "packet" ELSE "none"]
           /\ stirred' = IF entry[k] = "waiting" THEN stirred \union {k} ELSE stirred
    /\ hand' = [hand EXCEPT ![c] = NoPacket] /\ Goto(c, IF At(c, "deliver") THEN "take" ELSE "poll")
    /\ UNCHANGED <<blocking, kept, lock, reg, answer>> /\ SameChan

\* WakerEntry::receive and Event::receive: to the call the packet belongs to.  A
\* call that is gone left its entry to be removed by its reply.
Deliver(c) ==
    /\ At(c, "deliver") \/ At(c, "deliver_drain")
    /\ LET k == hand[c]
       IN  IF k = EvTask
           THEN /\ events' = events + 1 /\ UNCHANGED entry
                /\ evEntry' = IF evEntry = "waiting" THEN "willwait" ELSE evEntry
                /\ stirred' = IF evEntry = "waiting" THEN stirred \union {EvTask} ELSE stirred
           ELSE /\ UNCHANGED <<events, evEntry>>
                /\ entry' = [entry EXCEPT ![k] = CASE @ = "fini"    -> "none"
                                                   [] @ = "waiting" -> "packet"
                                                   [] OTHER -> @]
                /\ stirred' = IF entry[k] = "waiting" THEN stirred \union {k} ELSE stirred
    /\ hand' = [hand EXCEPT ![c] = NoPacket] /\ Goto(c, IF At(c, "deliver") THEN "take" ELSE "poll")
    /\ UNCHANGED <<blocking, kept, lock, reg, answer>> /\ SameChan

\* Its own packet, if it was that or somebody else has brought it.
TakePacket(c) ==
    /\ At(c, "take") \/ At(c, "stopped")
    /\ UNCHANGED <<blocking, hand, evEntry, kept, lock, reg, stirred>> /\ SameChan
    /\ IF c = EvTask
       THEN /\ UNCHANGED <<entry, answer>>
            /\ IF events > 0 THEN events' = events - 1 /\ Goto(c, "poll")
               ELSE UNCHANGED events /\ Goto(c, IF At(c, "stopped") THEN "done" ELSE "pending")
       ELSE /\ UNCHANGED events
            /\ CASE entry[c] = "packet" -> /\ Entry(c, "none") /\ Goto(c, "done")
                                           /\ answer' = [answer EXCEPT ![c] = c]
                 [] entry[c] = "none"   -> Goto(c, "panic") /\ UNCHANGED <<entry, answer>>
                 [] entry[c] \notin {"packet", "none"} /\ At(c, "stopped")
                                        -> /\ Entry(c, "fini") /\ Goto(c, "done")
                                           /\ answer' = [answer EXCEPT ![c] = -1]
                 [] OTHER               -> Goto(c, "pending") /\ UNCHANGED <<entry, answer>>

\* Drop for Call, while it waits: deregister.
DropCall(c) ==
    /\ At(c, "pending") /\ c # EvTask
    /\ CASE entry[c] = "none"   -> Goto(c, "panic") /\ UNCHANGED <<entry, answer>>
         [] entry[c] = "packet" -> Entry(c, "none") /\ Goto(c, "done") /\ UNCHANGED answer
         [] OTHER               -> Entry(c, "fini") /\ Goto(c, "done") /\ UNCHANGED answer
    /\ UNCHANGED <<blocking, hand, evEntry, events, kept, lock, reg, stirred>> /\ SameChan

\* event_receiver: one at a time; it is polled for ever.
EventReceiver ==
    /\ At(EvTask, "idle") /\ ~blocking /\ evEntry = "init" /\ evEntry' = "willwait" /\ Goto(EvTask, "poll")
    /\ UNCHANGED <<blocking, hand, entry, events, kept, lock, reg, stirred, answer>> /\ SameChan

DropEvents ==
    /\ At(EvTask, "pending") /\ ~blocking /\ evEntry' = "init" /\ Goto(EvTask, "idle")
    /\ UNCHANGED <<blocking, hand, entry, events, kept, lock, reg, stirred, answer>> /\ SameChan

\* The reactor, then the executor.
Stir ==
    /\ reg # {} /\ (replies # <<>> \/ ~open) /\ stirred' = stirred \union reg /\ reg' = {}
    /\ UNCHANGED <<blocking, rpc, hand, entry, evEntry, events, kept, lock, answer>> /\ SameChan

Repoll(c) ==
    /\ At(c, "pending") /\ c \in stirred /\ stirred' = stirred \ {c} /\ Goto(c, "poll")
    /\ UNCHANGED <<blocking, hand, entry, evEntry, events, kept, lock, reg, answer>> /\ SameChan

-----------------------------------------------------------------------------
\* sync/client.rs, call_inner.  The replies of others go into the map, under the
\* mutex, which is also held while the channel is waited on.
SyncCall(c) ==
    /\ At(c, "idle") /\ c # EvTask /\ blocking /\ Goto(c, "send")
    /\ UNCHANGED <<blocking, hand, entry, evEntry, events, kept, lock, reg, stirred, answer>> /\ SameChan

SyncReceive(c) ==
    /\ At(c, "s_recv")
    /\ UNCHANGED <<blocking, entry, evEntry, kept, lock, reg, stirred, requests, serving, open>>
    /\ IF replies = <<>> THEN /\ Goto(c, IF open THEN "s_look" ELSE "s_error")
                              /\ UNCHANGED <<hand, replies, events, answer>>
       ELSE /\ replies' = Tail(replies)
            /\ CASE Head(replies) = c  -> /\ answer' = [answer EXCEPT ![c] = c] /\ Goto(c, "done")
                                          /\ UNCHANGED <<hand, events>>
                 [] Head(replies) = EvTask -> events' = events + 1 /\ UNCHANGED <<rpc, hand, answer>>
                 [] OTHER -> /\ hand' = [hand EXCEPT ![c] = Head(replies)] /\ Goto(c, "s_keep")
                             /\ UNCHANGED <<events, answer>>

SyncKeep(c) ==
    /\ At(c, "s_keep") /\ lock = NoPacket /\ kept' = kept \union {hand[c]}
    /\ hand' = [hand EXCEPT ![c] = NoPacket] /\ Goto(c, "s_recv")
    /\ UNCHANGED <<blocking, entry, evEntry, events, lock, reg, stirred, answer>> /\ SameChan

SyncLook(c) ==
    /\ At(c, "s_look") /\ lock = NoPacket
    /\ IF c \in kept THEN /\ kept' = kept \ {c} /\ answer' = [answer EXCEPT ![c] = c] /\ Goto(c, "done")
                          /\ UNCHANGED lock
       ELSE lock' = c /\ Goto(c, "s_wait") /\ UNCHANGED <<kept, answer>>
    /\ UNCHANGED <<blocking, hand, entry, evEntry, events, reg, stirred>> /\ SameChan

\* try_wait: the channel is readable or closed, or the time is up (call_timeout).
SyncWait(c) ==
    /\ At(c, "s_wait") /\ lock' = NoPacket
    /\ \/ (replies # <<>> \/ ~open) /\ Goto(c, "s_recv")
       \/ Goto(c, "s_error")
    /\ UNCHANGED <<blocking, hand, entry, evEntry, events, kept, reg, stirred, answer>> /\ SameChan

SyncError(c) ==
    /\ At(c, "s_error") /\ answer' = [answer EXCEPT ![c] = -1] /\ Goto(c, "done")
    /\ UNCHANGED <<blocking, hand, entry, evEntry, events, kept, lock, reg, stirred>> /\ SameChan

-----------------------------------------------------------------------------
\* server.rs: the PacketStream, the Responders it gives out, the event sender.
ServeNext ==
    /\ open /\ requests # <<>> /\ requests' = Tail(requests)
    /\ serving' = serving \union {Head(requests)} /\ UNCHANGED <<client, replies, open>>

Respond(k) ==
    /\ open /\ k \in serving /\ serving' = serving \ {k} /\ replies' = Append(replies, k)
    /\ UNCHANGED <<client, requests, open>>

SendEvent ==
    /\ open /\ events + Len(SelectSeq(replies, LAMBDA x : x = EvTask)) < MaxEvents
    /\ replies' = Append(replies, EvTask) /\ UNCHANGED <<client, requests, serving, open>>

CloseServer == open /\ open' = FALSE /\ UNCHANGED <<client, requests, replies, serving>>

\* made: the calls (and event receivers) that are over; seen: the events so far.
RpcInit(made, seen) ==
    /\ blocking \in Sync /\ rpc = [c \in Actor |-> IF c \in made THEN "done" ELSE "idle"] /\ hand = [c \in Actor |-> NoPacket]
    /\ entry = [c \in CallId |-> "none"] /\ evEntry = "init" /\ events = seen /\ kept = {} /\ lock = NoPacket
    /\ reg = {} /\ stirred = {} /\ requests = <<>> /\ replies = <<>> /\ serving = {} /\ open = TRUE
    /\ answer = [c \in CallId |-> NoPacket]

RpcNext ==
    \/ \E c \in Actor : \/ PollCall(c) \/ ReceivePacket(c) \/ Deliver(c) \/ TakePacket(c) \/ Repoll(c)
    \/ \E c \in CallId : \/ Register(c) \/ SendRequest(c) \/ DropCall(c) \/ Respond(c)
                        \/ SyncCall(c) \/ SyncReceive(c) \/ SyncKeep(c) \/ SyncLook(c)
                        \/ SyncWait(c) \/ SyncError(c)
    \/ EventReceiver \/ DropEvents \/ Stir \/ ServeNext \/ SendEvent \/ CloseServer

RpcSpec == RpcInit({}, 0) /\ [][RpcNext]_rpcvars

-----------------------------------------------------------------------------
\* Replies find their calls: no call polls or leaves an entry somebody else has
\* removed ("Polling unregistered id", "Deregistering discarded WakerEntry"), and
\* a reply is in one place only, never kept for a call that has it (WakerEntry
\* of client.rs and callers of sync/client.rs, whichever call or event receiver
\* gets the packet, dropped and timed-out calls included).
RepliesMatched == \A c \in CallId :
    /\ rpc[c] # "panic"
    /\ entry[c] = "packet" \/ c \in kept =>
          c \notin serving /\ (\A a \in Actor : hand[a] # c) /\ answer[c] # c
=============================================================================
