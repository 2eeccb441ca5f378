----------------------------- MODULE RpcProofs ------------------------------
(* For every number of calls on a channel, every schedule, dropped calls and *)
(* a server that closes at any time: a reply is in one place only, and no    *)
(* call finds its entry removed by somebody else (client.rs, sync/client.rs).*)
(* The two go together: an entry is removed by the one reply of its call, or *)
(* by the call itself.                                                       *)
EXTENDS Rpc, SequenceTheorems, TLAPS

In(s, c) == \E i \in 1..Len(s) : s[i] = c
Distinct(s) == \A i, j \in 1..Len(s) : s[i] = s[j] /\ s[i] \in CallId => i = j
Held(c) == \E a \in Actor : hand[a] = c
Home(c) == entry[c] = "packet" \/ c \in kept \/ answer[c] = c

\* The places a call goes through in the async client, and in the sync one.
Polled == {"poll", "recv", "deliver", "take", "stopped", "pending", "drain", "deliver_drain"}
Looping == {"s_recv", "s_keep", "s_look", "s_wait", "s_error"}

RpcTypes ==
    /\ blocking \in BOOLEAN
    /\ rpc \in [Actor -> Polled \cup Looping \cup {"idle", "send", "done", "panic"}]
    /\ hand \in [Actor -> Actor \cup {NoPacket}]
    /\ entry \in [CallId -> {"none", "init", "waiting", "packet", "fini"}]
    /\ answer \in [CallId -> CallId \cup {-1, NoPacket}]
    /\ kept \in SUBSET CallId /\ serving \in SUBSET CallId
    /\ requests \in Seq(CallId) /\ replies \in Seq(Actor)

\* Whoever is about to deliver has a packet in hand, and no two have the same.
HandsOK ==
    /\ \A a \in Actor : rpc[a] \in {"deliver", "deliver_drain"} => hand[a] \in Actor
    /\ \A a \in CallId : rpc[a] = "s_keep" => hand[a] \in CallId
    /\ \A a, b \in Actor : hand[a] = hand[b] /\ hand[a] \in CallId => a = b

\* The request of a call, then its reply, is in one place at most, and nowhere
\* before the call has sent it.
ApartOf(c) ==
    /\ In(requests, c) => c \notin serving /\ ~In(replies, c) /\ ~Held(c) /\ ~Home(c)
    /\ c \in serving => ~In(replies, c) /\ ~Held(c) /\ ~Home(c)
    /\ In(replies, c) => ~Held(c) /\ ~Home(c)
    /\ Held(c) => ~Home(c)
    /\ entry[c] = "packet" => c \notin kept /\ answer[c] # c
    /\ c \in kept => answer[c] # c
    /\ rpc[c] \in {"idle", "send"} =>
          ~In(requests, c) /\ c \notin serving /\ ~In(replies, c) /\ ~Held(c) /\ ~Home(c)
Apart == \A c \in CallId : ApartOf(c)

\* A call of the async client that is under way has an entry, which it has not
\* given up; one of the sync client goes through the places of that client.
EntriesOK ==
    \A c \in CallId :
        /\ rpc[c] # "panic"
        /\ ~blocking /\ rpc[c] \in Polled \cup {"send"} => entry[c] \in {"init", "waiting", "packet"}
        /\ blocking => rpc[c] \notin Polled

\* The inductive invariant.
RpcInv == RpcTypes /\ HandsOK /\ Distinct(requests) /\ Distinct(replies) /\ Apart /\ EntriesOK
-----------------------------------------------------------------------------
\* What appending to a queue of the channel does to its contents.
LEMMA InAppend ==
    ASSUME NEW S, NEW s \in Seq(S), NEW x \in S
    PROVE  /\ Append(s, x) \in Seq(S)
           /\ \A d : In(Append(s, x), d) <=> In(s, d) \/ d = x
           /\ Distinct(s) /\ (x \in CallId => ~In(s, x)) => Distinct(Append(s, x))
<1> DEFINE n == Len(s)
           a == Append(s, x)
<1>1. a \in Seq(S) /\ n \in Nat /\ Len(a) = n + 1
  BY AppendProperties, LenProperties, Zenon
<1>2. a[n + 1] = x /\ \A i \in 1..n : a[i] = s[i]
  BY AppendProperties, LenProperties
<1>3. 1..(n + 1) = 1..n \cup {n + 1}
  BY <1>1
<1> HIDE DEF n, a
<1>4. ASSUME NEW d PROVE In(a, d) <=> In(s, d) \/ d = x
  BY <1>1, <1>2, <1>3 DEF In, n
<1>5. Distinct(s) /\ (x \in CallId => ~In(s, x)) => Distinct(a)
  BY <1>1, <1>2, <1>3 DEF Distinct, In, n
<1> QED BY <1>1, <1>4, <1>5, Zenon DEF a

\* What receiving from one does.
LEMMA InTail ==
    ASSUME NEW S, NEW s \in Seq(S), s # <<>>
    PROVE  /\ Tail(s) \in Seq(S) /\ Head(s) \in S /\ In(s, Head(s))
           /\ \A d : In(Tail(s), d) => In(s, d)
           /\ Distinct(s) => Distinct(Tail(s))
           /\ Distinct(s) /\ Head(s) \in CallId => ~In(Tail(s), Head(s))
<1> DEFINE n == Len(s)
           r == Tail(s)
<1>1. n \in Nat /\ n > 0 /\ Head(s) = s[1] /\ Head(s) \in S
  BY HeadTailProperties, LenProperties, EmptySeq
<1>2. r \in Seq(S) /\ Len(r) = n - 1 /\ \A i \in 1..(n - 1) : r[i] = s[i + 1]
  BY HeadTailProperties, LenProperties, Zenon
<1> HIDE DEF n, r
<1>3. \A i \in 1..(n - 1) : i + 1 \in 1..n /\ i + 1 # 1
  BY <1>1
<1>4. 1 \in 1..n /\ In(s, Head(s))
  BY <1>1 DEF In, n
<1>5. ASSUME NEW d, In(r, d) PROVE In(s, d)
  BY <1>2, <1>3, <1>5, Zenon DEF In, n
<1>6. ASSUME Distinct(s) PROVE Distinct(r)
  BY <1>1, <1>2, <1>3, <1>6 DEF Distinct, n
<1>7. ASSUME Distinct(s), Head(s) \in CallId PROVE ~In(r, Head(s))
  BY <1>1, <1>2, <1>3, <1>4, <1>7, Zenon DEF Distinct, In, n
<1> QED BY <1>1, <1>2, <1>4, <1>5, <1>6, <1>7, Zenon DEF r

\* The invariant says what RepliesMatched asks for.
LEMMA RpcInvMatched == RpcInv => RepliesMatched
BY Zenon DEF RpcInv, RepliesMatched, Apart, ApartOf, EntriesOK, Home, Held

\* A client made over a fresh channel: nothing is registered and nothing is sent
\* (Client::new), whichever calls are over already.
LEMMA RpcInitOK ==
    ASSUME NEW made, NEW seen, RpcInit(made, seen)
    PROVE  RpcInv
<1>1. /\ requests = <<>> /\ replies = <<>> /\ kept = {} /\ serving = {} /\ blocking \in BOOLEAN
      /\ rpc = [c \in Actor |-> IF c \in made THEN "done" ELSE "idle"] /\ hand = [c \in Actor |-> NoPacket]
      /\ entry = [c \in CallId |-> "none"] /\ answer = [c \in CallId |-> NoPacket]
  BY RpcAssumption, Zenon DEF RpcInit
<1>2. \A d : ~In(<<>>, d)
  BY DEF In
<1>3. Distinct(<<>>)
  BY DEF Distinct
<1>4. RpcTypes
  BY <1>1 DEF RpcTypes
<1>5. HandsOK /\ EntriesOK
  BY <1>1, RpcAssumption, Zenon DEF HandsOK, EntriesOK, Actor, Polled
<1>6. Apart
  BY <1>1, <1>2, RpcAssumption, Zenon DEF Apart, ApartOf, Held, Home, Actor
<1> QED BY <1>1, <1>3, <1>4, <1>5, <1>6, Zenon DEF RpcInv
-----------------------------------------------------------------------------
\* No place has c that did not have it before, and c is not back before its send.
NoNewPlace(c) ==
    /\ In(requests, c)' => In(requests, c)
    /\ c \in serving' => c \in serving
    /\ In(replies, c)' => In(replies, c)
    /\ Held(c)' => Held(c)
    /\ entry'[c] = "packet" => entry[c] = "packet"
    /\ c \in kept' => c \in kept
    /\ answer'[c] = c => answer[c] = c
    /\ rpc'[c] \in {"idle", "send"} => rpc[c] \in {"idle", "send"}

\* A call whose packet is in no place it was not in before is as well off.
LEMMA NoNewPlaceKeeps ==
    ASSUME NEW c \in CallId, ApartOf(c), NoNewPlace(c)
    PROVE  ApartOf(c)'
<1>1. Home(c)' => Home(c)
  BY Zenon DEF Home, NoNewPlace
<1> QED BY <1>1, Zenon DEF ApartOf, NoNewPlace

\* A step that leaves the channel and the hands alone, and gives no call a packet.
Quiet ==
    /\ UNCHANGED <<hand, requests, replies, serving>>
    /\ \A c \in CallId :
          /\ entry'[c] = "packet" => entry[c] = "packet"
          /\ c \in kept' => c \in kept
          /\ answer'[c] = c => answer[c] = c
          /\ rpc'[c] \in {"idle", "send"} => rpc[c] \in {"idle", "send"}
    /\ \A a \in Actor : rpc'[a] \in {"deliver", "deliver_drain", "s_keep"} => rpc'[a] = rpc[a]

\* A step that moves no packet only has to keep the types and the entries.
LEMMA QuietKeeps ==
    ASSUME RpcInv, Quiet, RpcTypes', EntriesOK'
    PROVE  RpcInv'
<1>1. HandsOK'
  BY RpcAssumption, Zenon DEF RpcInv, HandsOK, Quiet, Actor
<1>2. ASSUME NEW c \in CallId PROVE ApartOf(c)'
  <2>1. In(requests, c)' = In(requests, c) /\ In(replies, c)' = In(replies, c) /\ Held(c)' = Held(c)
    BY Zenon DEF Quiet, In, Held
  <2>2. NoNewPlace(c)
    BY <2>1, Zenon DEF Quiet, NoNewPlace
  <2> QED BY <2>2, NoNewPlaceKeeps, Zenon DEF RpcInv, Apart
<1>3. Distinct(requests)' /\ Distinct(replies)'
  BY DEF RpcInv, Quiet, Distinct
<1> QED BY <1>1, <1>2, <1>3, Zenon DEF RpcInv, Apart

\* receive_for_caller and receive_for_event find the entry of a call that polls.
LEMMA PollOK ==
    ASSUME RpcInv, NEW c \in Actor, PollCall(c)
    PROVE  RpcInv'
<1> USE DEF RpcInv
<1>1. UNCHANGED <<blocking, hand, kept, answer, requests, replies, serving>> /\ rpc[c] = "poll"
  BY Zenon DEF PollCall, SameChan, At
<1>2. c \in CallId => entry[c] \in {"init", "waiting", "packet"}
  BY <1>1, Zenon DEF EntriesOK, RpcTypes, Polled
<1>3. rpc' = [rpc EXCEPT ![c] = "recv"]
  BY <1>2, Zenon DEF PollCall, Goto, Actor
<1>4. entry' = entry \/ (c \in CallId /\ entry' = [entry EXCEPT ![c] = "waiting"] /\ entry[c] # "packet")
  BY <1>2, Zenon DEF PollCall, Entry, Actor
<1>5. RpcTypes'
  BY <1>1, <1>3, <1>4, Zenon DEF RpcTypes, Polled
<1>6. EntriesOK'
  BY <1>1, <1>3, <1>4, ZenonT(30) DEF RpcTypes, EntriesOK, Polled, Actor
<1>7. Quiet
  BY <1>1, <1>3, <1>4, Zenon DEF Quiet, RpcTypes, Actor
<1> QED BY <1>5, <1>6, <1>7, QuietKeeps, Zenon

\* A call that was woken is polled again.
LEMMA RepollOK ==
    ASSUME RpcInv, NEW c \in Actor, Repoll(c)
    PROVE  RpcInv'
<1> USE DEF RpcInv
<1>1. /\ UNCHANGED <<blocking, hand, entry, kept, answer, requests, replies, serving>>
      /\ rpc[c] = "pending" /\ rpc' = [rpc EXCEPT ![c] = "poll"]
  BY Zenon DEF Repoll, SameChan, At, Goto
<1>2. RpcTypes'
  BY <1>1, Zenon DEF RpcTypes, Polled
<1>3. EntriesOK'
  BY <1>1, Zenon DEF RpcTypes, EntriesOK, Polled, Actor
<1>4. Quiet
  BY <1>1, Zenon DEF Quiet, RpcTypes, Actor
<1> QED BY <1>2, <1>3, <1>4, QuietKeeps, Zenon

\* Call::new, and the first statement of the sync call.
LEMMA RegisterOK ==
    ASSUME RpcInv, NEW c \in CallId, Register(c) \/ SyncCall(c)
    PROVE  RpcInv'
<1> USE DEF RpcInv
<1>1. /\ UNCHANGED <<blocking, hand, kept, answer, requests, replies, serving>>
      /\ rpc[c] = "idle" /\ rpc' = [rpc EXCEPT ![c] = "send"]
  BY Zenon DEF Register, SyncCall, SameChan, At, Goto
<1>2. \/ ~blocking /\ entry' = [entry EXCEPT ![c] = "init"]
      \/ blocking /\ entry' = entry
  BY Zenon DEF Register, SyncCall, Entry
<1>3. RpcTypes'
  BY <1>1, <1>2, Zenon DEF RpcTypes, Actor
<1>4. EntriesOK'
  BY <1>1, <1>2, Zenon DEF RpcTypes, EntriesOK, Polled, Actor
<1>5. Quiet
  BY <1>1, <1>2, Zenon DEF Quiet, RpcTypes, Actor
<1> QED BY <1>3, <1>4, <1>5, QuietKeeps, Zenon

\* Drop for Call finds the entry of the call too.
LEMMA DropOK ==
    ASSUME RpcInv, NEW c \in CallId, DropCall(c)
    PROVE  RpcInv'
<1> USE DEF RpcInv
<1>1. UNCHANGED <<blocking, hand, kept, requests, replies, serving>> /\ rpc[c] = "pending"
  BY Zenon DEF DropCall, SameChan, At
<1>2. entry[c] \in {"init", "waiting", "packet"}
  BY <1>1, Zenon DEF EntriesOK, RpcTypes, Polled
<1>3. /\ rpc' = [rpc EXCEPT ![c] = "done"] /\ answer' = answer
      /\ \E e \in {"none", "fini"} : entry' = [entry EXCEPT ![c] = e]
  BY <1>2, Zenon DEF DropCall, Goto, Entry
<1>4. RpcTypes'
  BY <1>1, <1>3, Zenon DEF RpcTypes, Actor
<1>5. EntriesOK'
  BY <1>1, <1>3, Zenon DEF RpcTypes, EntriesOK, Polled, Actor
<1>6. Quiet
  BY <1>1, <1>3, Zenon DEF Quiet, RpcTypes, Actor
<1> QED BY <1>4, <1>5, <1>6, QuietKeeps, Zenon

\* The event receiver's own steps, the reactor and the end of the server.
LEMMA AsideOK ==
    ASSUME RpcInv, EventReceiver \/ DropEvents \/ Stir \/ CloseServer
    PROVE  RpcInv'
<1> USE DEF RpcInv
<1>1. /\ UNCHANGED <<blocking, hand, entry, kept, answer, requests, replies, serving>>
      /\ rpc' = rpc \/ rpc' = [rpc EXCEPT ![EvTask] = "poll"] \/ rpc' = [rpc EXCEPT ![EvTask] = "idle"]
  BY Zenon DEF EventReceiver, DropEvents, Stir, CloseServer, SameChan, Goto, client
<1>2. EvTask \in Actor /\ EvTask \notin CallId
  BY RpcAssumption, Zenon DEF Actor
<1>3. RpcTypes'
  BY <1>1, <1>2, Zenon DEF RpcTypes, Polled
<1>4. EntriesOK'
  BY <1>1, <1>2, ZenonT(30) DEF RpcTypes, EntriesOK, Polled, Actor
<1>5. Quiet
  BY <1>1, <1>2, ZenonT(30) DEF Quiet, RpcTypes, Actor
<1> QED BY <1>3, <1>4, <1>5, QuietKeeps, Zenon

\* The sync client waits on the channel, or gives up with an error.
LEMMA SyncQuietOK ==
    ASSUME RpcInv, NEW c \in CallId, SyncWait(c) \/ SyncError(c)
    PROVE  RpcInv'
<1> USE DEF RpcInv
<1>1. /\ UNCHANGED <<blocking, hand, entry, kept, requests, replies, serving>>
      /\ rpc[c] \in {"s_wait", "s_error"}
      /\ \E l \in {"s_recv", "s_error", "done"} : rpc' = [rpc EXCEPT ![c] = l]
      /\ answer' = answer \/ answer' = [answer EXCEPT ![c] = -1]
  BY Zenon DEF SyncWait, SyncError, SameChan, At, Goto
<1>2. RpcTypes'
  BY <1>1, ZenonT(30) DEF RpcTypes, Looping, Actor
<1>3. EntriesOK'
  BY <1>1, ZenonT(30) DEF RpcTypes, EntriesOK, Polled, Actor
<1>4. Quiet
  BY <1>1, RpcAssumption DEF Quiet, RpcTypes, Actor
<1> QED BY <1>2, <1>3, <1>4, QuietKeeps, Zenon
-----------------------------------------------------------------------------
\* The steps that move a packet: it leaves one place for the next.

\* The request of the call goes into the channel.
LEMMA SendOK ==
    ASSUME RpcInv, NEW c \in CallId, SendRequest(c)
    PROVE  RpcInv'
<1> USE DEF RpcInv
<1>1. /\ UNCHANGED <<blocking, hand, entry, kept, answer, replies, serving>> /\ rpc[c] = "send"
      /\ \E l \in {"poll", "drain", "s_recv", "s_error"} :
            rpc' = [rpc EXCEPT ![c] = l] /\ (blocking => l \notin {"poll", "drain"})
      /\ requests' = requests \/ requests' = Append(requests, c)
  BY Zenon DEF SendRequest, At, Goto
<1>2. /\ requests' \in Seq(CallId)
      /\ \A d \in CallId : In(requests, d)' => In(requests, d) \/ d = c
      /\ Distinct(requests)'
  <2>1. CASE requests' = requests
    BY <2>1, Zenon DEF RpcTypes, In, Distinct
  <2>2. CASE requests' = Append(requests, c)
    <3>1. ~In(requests, c)
      BY <1>1, Zenon DEF Apart, ApartOf
    <3> QED BY <2>2, <3>1, InAppend, Zenon DEF RpcTypes
  <2> QED BY <1>1, <2>1, <2>2, Zenon
<1>3. RpcTypes'
  BY <1>1, <1>2 DEF RpcTypes, Polled, Looping, Actor
<1>4. EntriesOK'
  BY <1>1, ZenonT(30) DEF RpcTypes, EntriesOK, Polled, Actor
<1>5. HandsOK'
  BY <1>1, ZenonT(30) DEF RpcTypes, HandsOK, Actor
<1>6. ASSUME NEW d \in CallId PROVE ApartOf(d)'
  <2>1. In(replies, d)' = In(replies, d) /\ Held(d)' = Held(d) /\ Home(d)' = Home(d)
    BY <1>1, Zenon DEF In, Held, Home
  <2>2. CASE d # c
    <3>1. NoNewPlace(d)
      BY <1>1, <1>2, <2>1, <2>2, Zenon DEF NoNewPlace, RpcTypes, Actor
    <3> QED BY <3>1, NoNewPlaceKeeps, Zenon DEF Apart
  <2>3. CASE d = c
    <3>1. c \notin serving' /\ ~In(replies, c)' /\ ~Held(c)' /\ ~Home(c)'
      BY <1>1, <2>1, <2>3, Zenon DEF Apart, ApartOf
    <3>2. rpc'[c] \notin {"idle", "send"}
      BY <1>1, Zenon DEF RpcTypes, Actor
    <3> QED BY <3>1, <3>2, <2>3, Zenon DEF ApartOf, Home
  <2> QED BY <2>2, <2>3, Zenon
<1>7. Distinct(replies)'
  BY <1>1, Zenon DEF Distinct
<1> QED BY <1>2, <1>3, <1>4, <1>5, <1>6, <1>7, Zenon DEF Apart

\* PacketStream takes a request.
LEMMA ServeOK ==
    ASSUME RpcInv, ServeNext
    PROVE  RpcInv'
<1> USE DEF RpcInv
<1>0. PICK k : k = Head(requests)
  BY Zenon
<1>1. /\ UNCHANGED <<blocking, rpc, hand, entry, kept, answer, replies>>
      /\ requests # <<>> /\ requests' = Tail(requests) /\ serving' = serving \cup {k}
  BY <1>0, Zenon DEF ServeNext, client
<1>2. /\ requests' \in Seq(CallId) /\ k \in CallId /\ In(requests, k)
      /\ \A d \in CallId : In(requests, d)' => In(requests, d)
      /\ Distinct(requests)' /\ ~In(requests, k)'
  BY <1>0, <1>1, InTail, Zenon DEF RpcTypes
<1>3. RpcTypes' /\ EntriesOK' /\ HandsOK' /\ Distinct(replies)'
  BY <1>1, <1>2 DEF RpcTypes, EntriesOK, HandsOK, Distinct
<1>4. ASSUME NEW d \in CallId PROVE ApartOf(d)'
  <2>1. In(replies, d)' = In(replies, d) /\ Held(d)' = Held(d) /\ Home(d)' = Home(d)
    BY <1>1, Zenon DEF In, Held, Home
  <2>2. CASE d # k
    <3>1. NoNewPlace(d)
      BY <1>1, <1>2, <2>1, <2>2, Zenon DEF NoNewPlace
    <3> QED BY <3>1, NoNewPlaceKeeps, Zenon DEF Apart
  <2>3. CASE d = k
    BY <1>1, <1>2, <2>1, <2>3, Zenon DEF Apart, ApartOf, Home
  <2> QED BY <2>2, <2>3, Zenon
<1> QED BY <1>2, <1>3, <1>4, Zenon DEF Apart

\* A Responder, or the event sender, sends a packet.
LEMMA RespondOK ==
    ASSUME RpcInv, NEW k \in Actor, (SendEvent /\ k = EvTask) \/ (k \in CallId /\ Respond(k))
    PROVE  RpcInv'
<1> USE DEF RpcInv
<1>1. /\ UNCHANGED <<blocking, rpc, hand, entry, kept, answer, requests>>
      /\ replies' = Append(replies, k) /\ serving' = serving \ {k} /\ (k \in CallId => k \in serving)
  BY RpcAssumption, ZenonT(30) DEF SendEvent, Respond, client, RpcTypes
<1>2. k \in CallId => ~In(replies, k)
  BY <1>1, Zenon DEF Apart, ApartOf
<1>3. /\ replies' \in Seq(Actor)
      /\ \A d \in CallId : In(replies, d)' => In(replies, d) \/ d = k
      /\ Distinct(replies)'
  BY <1>1, <1>2, InAppend, Zenon DEF RpcTypes
<1>4. RpcTypes' /\ EntriesOK' /\ HandsOK' /\ Distinct(requests)'
  BY <1>1, <1>3 DEF RpcTypes, EntriesOK, HandsOK, Distinct
<1>5. ASSUME NEW d \in CallId PROVE ApartOf(d)'
  <2>1. In(requests, d)' = In(requests, d) /\ Held(d)' = Held(d) /\ Home(d)' = Home(d)
    BY <1>1, Zenon DEF In, Held, Home
  <2>2. CASE d # k
    <3>1. NoNewPlace(d)
      BY <1>1, <1>3, <2>1, <2>2, Zenon DEF NoNewPlace
    <3> QED BY <3>1, NoNewPlaceKeeps, Zenon DEF Apart
  <2>3. CASE d = k
    BY <1>1, <1>3, <2>1, <2>3, Zenon DEF Apart, ApartOf, Home
  <2> QED BY <2>2, <2>3, Zenon
<1> QED BY <1>3, <1>4, <1>5, Zenon DEF Apart

\* Inner::receive: the packet at the head of the channel is in hand.
LEMMA ReceiveOK ==
    ASSUME RpcInv, NEW c \in Actor, ReceivePacket(c)
    PROVE  RpcInv'
<1> USE DEF RpcInv
<1>1. /\ UNCHANGED <<blocking, entry, kept, answer, requests, serving>>
      /\ rpc[c] \in {"recv", "drain"}
  BY Zenon DEF ReceivePacket, At
<1>2. CASE replies = <<>>
  <2>1. /\ UNCHANGED <<hand, replies>>
        /\ \E l \in {"pending", "stopped", "s_error"} : rpc' = [rpc EXCEPT ![c] = l]
    BY <1>2, Zenon DEF ReceivePacket, Goto
  <2>2. RpcTypes'
    BY <1>1, <2>1, ZenonT(30) DEF RpcTypes, Polled, Looping
  <2>3. EntriesOK'
    BY <1>1, <2>1, ZenonT(30) DEF RpcTypes, EntriesOK, Polled, Actor
  <2>4. Quiet
    BY <1>1, <2>1, Zenon DEF Quiet, RpcTypes, Actor
  <2> QED BY <2>2, <2>3, <2>4, QuietKeeps, Zenon
<1>3. CASE replies # <<>>
  <2>0. PICK k : k = Head(replies)
    BY Zenon
  <2>1. /\ hand' = [hand EXCEPT ![c] = k] /\ replies' = Tail(replies)
        /\ \E l \in {"deliver", "deliver_drain"} : rpc' = [rpc EXCEPT ![c] = l]
    BY <1>3, <2>0, Zenon DEF ReceivePacket, Goto
  <2>2. /\ replies' \in Seq(Actor) /\ k \in Actor /\ In(replies, k)
        /\ \A d \in CallId : In(replies, d)' => In(replies, d)
        /\ Distinct(replies)' /\ (k \in CallId => ~In(replies, k)')
    BY <1>3, <2>0, <2>1, InTail, Zenon DEF RpcTypes
  <2>3. RpcTypes'
    BY <1>1, <2>1, <2>2, Zenon DEF RpcTypes, Polled
  <2>4. EntriesOK'
    BY <1>1, <2>1, ZenonT(30) DEF RpcTypes, EntriesOK, Polled, Actor
  <2>5. \A a \in Actor : hand'[a] = IF a = c THEN k ELSE hand[a]
    BY <2>1, Zenon DEF RpcTypes
  <2>6. k \in CallId => \A a \in Actor : hand[a] # k
    BY <2>2, Zenon DEF Apart, ApartOf, Held
  <2>7. HandsOK'
    <3>1. \A a \in Actor : rpc'[a] \in {"deliver", "deliver_drain"} => hand'[a] \in Actor
      BY <1>1, <2>1, <2>2, <2>5 DEF RpcTypes, HandsOK
    <3>2. \A a \in CallId : rpc'[a] = "s_keep" => hand'[a] \in CallId
      BY <1>1, <2>1, <2>5, ZenonT(30) DEF RpcTypes, HandsOK, Actor
    <3>3. \A a, b \in Actor : hand'[a] = hand'[b] /\ hand'[a] \in CallId => a = b
      BY <2>5, <2>6, ZenonT(30) DEF HandsOK
    <3> QED BY <3>1, <3>2, <3>3, Zenon DEF HandsOK
  <2>8. ASSUME NEW d \in CallId PROVE ApartOf(d)'
    <3>1. In(requests, d)' = In(requests, d) /\ Home(d)' = Home(d)
      BY <1>1, Zenon DEF In, Home
    <3>2. rpc'[d] \in {"idle", "send"} => rpc[d] = rpc'[d]
      BY <2>1, Zenon DEF RpcTypes, Actor
    <3>3. CASE d # k
      <4>1. Held(d)' => Held(d)
        BY <2>5, <3>3, Zenon DEF Held
      <4>2. NoNewPlace(d)
        BY <1>1, <2>2, <3>1, <3>2, <4>1, Zenon DEF NoNewPlace
      <4> QED BY <4>2, NoNewPlaceKeeps, Zenon DEF Apart
    <3>4. CASE d = k
      BY <1>1, <2>2, <3>1, <3>2, <3>4, Zenon DEF Apart, ApartOf, Home
    <3> QED BY <3>3, <3>4, Zenon
  <2>9. Distinct(requests)'
    BY <1>1, Zenon DEF Distinct
  <2> QED BY <2>2, <2>3, <2>4, <2>7, <2>8, <2>9, Zenon DEF Apart
<1> QED BY <1>2, <1>3, Zenon

\* WakerEntry::receive: to the entry of the call, if that waits for it.
LEMMA DeliverOK ==
    ASSUME RpcInv, NEW c \in Actor, Deliver(c)
    PROVE  RpcInv'
<1> USE DEF RpcInv
<1>0. PICK k : k = hand[c]
  BY Zenon
<1>1. /\ UNCHANGED <<blocking, kept, answer, requests, replies, serving>>
      /\ rpc[c] \in {"deliver", "deliver_drain"} /\ hand' = [hand EXCEPT ![c] = NoPacket]
      /\ \E l \in {"take", "poll"} : rpc' = [rpc EXCEPT ![c] = l]
  BY Zenon DEF Deliver, At, Goto, SameChan
<1>2. k \in Actor
  BY <1>0, <1>1, Zenon DEF HandsOK
<1>3. entry' \in [CallId -> {"none", "init", "waiting", "packet", "fini"}]
      /\ \A d \in CallId :
            /\ d # k => entry'[d] = entry[d]
            /\ entry'[d] # entry[d] => (entry[d] = "fini" /\ entry'[d] = "none")
                                       \/ (entry[d] = "waiting" /\ entry'[d] = "packet")
  BY <1>0, <1>2, ZenonT(30) DEF Deliver, RpcTypes, Actor
<1>4. RpcTypes'
  BY <1>1, <1>3, ZenonT(30) DEF RpcTypes, Polled
<1>5. EntriesOK'
  BY <1>1, <1>3, ZenonT(30) DEF RpcTypes, EntriesOK, Polled, Actor
<1>6. \A a \in Actor : hand'[a] = IF a = c THEN NoPacket ELSE hand[a]
  BY <1>1, Zenon DEF RpcTypes
<1>7. HandsOK'
  BY <1>1, <1>6, RpcAssumption, ZenonT(30) DEF RpcTypes, HandsOK, Actor
<1>8. ASSUME NEW d \in CallId PROVE ApartOf(d)'
  <2>1. In(requests, d)' = In(requests, d) /\ In(replies, d)' = In(replies, d)
    BY <1>1, Zenon DEF In
  <2>2. Held(d)' => Held(d) /\ d # k
    BY <1>0, <1>2, <1>6, RpcAssumption, ZenonT(30) DEF Held, Actor, HandsOK
  <2>3. rpc'[d] \in {"idle", "send"} => rpc[d] = rpc'[d]
    BY <1>1, Zenon DEF RpcTypes, Actor
  <2>4. CASE d # k
    <3>1. NoNewPlace(d)
      BY <1>1, <1>3, <2>1, <2>2, <2>3, <2>4, Zenon DEF NoNewPlace
    <3> QED BY <3>1, NoNewPlaceKeeps, Zenon DEF Apart
  <2>5. CASE d = k
    <3>1. Held(d)
      BY <1>0, <2>5, Zenon DEF Held
    <3>2. ~In(requests, d) /\ d \notin serving /\ ~In(replies, d) /\ ~Home(d) /\ rpc[d] \notin {"idle", "send"}
      BY <3>1, Zenon DEF Apart, ApartOf
    <3> QED BY <1>1, <2>1, <2>2, <2>3, <2>5, <3>2, Zenon DEF ApartOf, Home
  <2> QED BY <2>4, <2>5, Zenon
<1>9. Distinct(requests)' /\ Distinct(replies)'
  BY <1>1, ZenonT(30) DEF Distinct
<1> QED BY <1>4, <1>5, <1>7, <1>8, <1>9, Zenon DEF Apart

\* A call takes its packet from its entry, gives up, or waits.
LEMMA TakeOK ==
    ASSUME RpcInv, NEW c \in Actor, TakePacket(c)
    PROVE  RpcInv'
<1> USE DEF RpcInv
<1>1. /\ UNCHANGED <<blocking, hand, kept, requests, replies, serving>>
      /\ rpc[c] \in {"take", "stopped"}
  BY Zenon DEF TakePacket, At, SameChan
<1>2. CASE c \in CallId /\ entry[c] = "packet"
  <2>1. /\ entry' = [entry EXCEPT ![c] = "none"] /\ answer' = [answer EXCEPT ![c] = c]
        /\ rpc' = [rpc EXCEPT ![c] = "done"]
    BY <1>2, RpcAssumption, Zenon DEF TakePacket, Goto, Entry
  <2>2. RpcTypes'
    BY <1>1, <1>2, <2>1, Zenon DEF RpcTypes
  <2>3. EntriesOK'
    BY <1>1, <2>1, Zenon DEF RpcTypes, EntriesOK, Polled, Actor
  <2>4. HandsOK'
    BY <1>1, <2>1, Zenon DEF RpcTypes, HandsOK, Actor
  <2>5. ASSUME NEW d \in CallId PROVE ApartOf(d)'
    <3>1. In(requests, d)' = In(requests, d) /\ In(replies, d)' = In(replies, d) /\ Held(d)' = Held(d)
      BY <1>1, Zenon DEF In, Held
    <3>2. CASE d # c
      <4>1. NoNewPlace(d)
        BY <1>1, <2>1, <3>1, <3>2, Zenon DEF NoNewPlace, RpcTypes, Actor
      <4> QED BY <4>1, NoNewPlaceKeeps, Zenon DEF Apart
    <3>3. CASE d = c
      <4>1. Home(d) /\ d \notin kept
        BY <1>2, <3>3, Zenon DEF Home, Apart, ApartOf
      <4>2. ~In(requests, d) /\ d \notin serving /\ ~In(replies, d) /\ ~Held(d)
        BY <4>1, Zenon DEF Apart, ApartOf
      <4>3. entry'[d] = "none" /\ rpc'[d] = "done"
        BY <2>1, <3>3, Zenon DEF RpcTypes, Actor
      <4> QED BY <1>1, <3>1, <4>1, <4>2, <4>3, Zenon DEF ApartOf
    <3> QED BY <3>2, <3>3, Zenon
  <2>6. Distinct(requests)' /\ Distinct(replies)'
    BY <1>1, ZenonT(30) DEF Distinct
  <2> QED BY <2>2, <2>3, <2>4, <2>5, <2>6, Zenon DEF Apart
<1>3. CASE c \in CallId /\ entry[c] # "packet"
  <2>1. entry[c] \in {"init", "waiting"}
    BY <1>1, <1>3, Zenon DEF EntriesOK, RpcTypes, Polled
  <2>2. \/ UNCHANGED <<entry, answer>> /\ rpc' = [rpc EXCEPT ![c] = "pending"]
        \/ /\ entry' = [entry EXCEPT ![c] = "fini"] /\ answer' = [answer EXCEPT ![c] = -1]
           /\ rpc' = [rpc EXCEPT ![c] = "done"]
    BY <1>3, <2>1, RpcAssumption, Zenon DEF TakePacket, Goto, Entry
  <2>3. RpcTypes'
    BY <1>1, <2>2, Zenon DEF RpcTypes, Polled
  <2>4. EntriesOK'
    BY <1>1, <2>2, ZenonT(30) DEF RpcTypes, EntriesOK, Polled, Actor
  <2>5. Quiet
    BY <1>1, <2>2, RpcAssumption DEF Quiet, RpcTypes, Actor
  <2> QED BY <2>3, <2>4, <2>5, QuietKeeps, Zenon
<1>4. CASE c = EvTask
  <2>1. /\ UNCHANGED <<entry, answer>>
        /\ \E l \in {"poll", "done", "pending"} : rpc' = [rpc EXCEPT ![c] = l]
    BY <1>4, Zenon DEF TakePacket, Goto
  <2>2. RpcTypes'
    BY <1>1, <2>1, ZenonT(30) DEF RpcTypes, Polled
  <2>3. EntriesOK'
    BY <1>1, <1>4, <2>1, RpcAssumption, ZenonT(30) DEF RpcTypes, EntriesOK, Polled, Actor
  <2>4. Quiet
    BY <1>1, <2>1, Zenon DEF Quiet, RpcTypes, Actor
  <2> QED BY <2>2, <2>3, <2>4, QuietKeeps, Zenon
<1> QED BY <1>2, <1>3, <1>4, Zenon DEF Actor

\* call_inner of the sync client receives: its own reply, an event, or the reply
\* of another call.
LEMMA SyncReceiveOK ==
    ASSUME RpcInv, NEW c \in CallId, SyncReceive(c)
    PROVE  RpcInv'
<1> USE DEF RpcInv
<1>1. UNCHANGED <<blocking, entry, kept, requests, serving>> /\ rpc[c] = "s_recv"
  BY Zenon DEF SyncReceive, At
<1>2. CASE replies = <<>>
  <2>1. /\ UNCHANGED <<hand, replies, answer>>
        /\ \E l \in {"s_look", "s_error"} : rpc' = [rpc EXCEPT ![c] = l]
    BY <1>2, Zenon DEF SyncReceive, Goto
  <2>2. RpcTypes'
    BY <1>1, <2>1, ZenonT(30) DEF RpcTypes, Looping, Actor
  <2>3. EntriesOK'
    BY <1>1, <2>1, ZenonT(30) DEF RpcTypes, EntriesOK, Polled, Actor
  <2>4. Quiet
    BY <1>1, <2>1, Zenon DEF Quiet, RpcTypes, Actor
  <2> QED BY <2>2, <2>3, <2>4, QuietKeeps, Zenon
<1>3. CASE replies # <<>>
  <2>0. PICK k : k = Head(replies)
    BY Zenon
  <2>1. replies' = Tail(replies)
    BY <1>3, Zenon DEF SyncReceive
  <2>2. /\ replies' \in Seq(Actor) /\ k \in Actor /\ In(replies, k)
        /\ \A d \in CallId : In(replies, d)' => In(replies, d)
        /\ Distinct(replies)' /\ (k \in CallId => ~In(replies, k)')
    BY <1>3, <2>0, <2>1, InTail, Zenon DEF RpcTypes
  <2>3. \/ /\ k = c /\ answer' = [answer EXCEPT ![c] = c] /\ rpc' = [rpc EXCEPT ![c] = "done"]
           /\ hand' = hand
        \/ k = EvTask /\ UNCHANGED <<rpc, hand, answer>>
        \/ /\ k \in CallId \ {c} /\ hand' = [hand EXCEPT ![c] = k] /\ rpc' = [rpc EXCEPT ![c] = "s_keep"]
           /\ answer' = answer
    BY <1>3, <2>0, <2>2, RpcAssumption, Zenon DEF SyncReceive, Goto, Actor
  <2>4. RpcTypes'
    <3>1. rpc' \in [Actor -> Polled \cup Looping \cup {"idle", "send", "done", "panic"}]
      BY <2>3, Zenon DEF RpcTypes, Looping
    <3>2. hand' \in [Actor -> Actor \cup {NoPacket}]
      BY <2>2, <2>3, Zenon DEF RpcTypes
    <3>3. answer' \in [CallId -> CallId \cup {-1, NoPacket}]
      BY <2>3, ZenonT(30) DEF RpcTypes
    <3> QED BY <1>1, <2>2, <3>1, <3>2, <3>3, Zenon DEF RpcTypes
  <2>5. EntriesOK'
    <3>1. rpc' = rpc \/ \E l \in {"done", "s_keep"} : rpc' = [rpc EXCEPT ![c] = l]
      BY <2>3, Zenon
    <3> QED BY <1>1, <3>1, Zenon DEF RpcTypes, EntriesOK, Polled, Actor
  <2>6. k \in CallId => /\ \A a \in Actor : hand[a] # k
                        /\ ~In(requests, k) /\ k \notin serving /\ ~Home(k) /\ rpc[k] \notin {"idle", "send"}
    BY <2>2, Zenon DEF Apart, ApartOf, Held
  <2>7. HandsOK'
    <3>1. CASE hand' = hand
      BY <2>3, <3>1, ZenonT(30) DEF RpcTypes, HandsOK, Actor
    <3>2. CASE k \in CallId /\ hand' = [hand EXCEPT ![c] = k] /\ rpc' = [rpc EXCEPT ![c] = "s_keep"]
      <4>1. \A a \in Actor : hand'[a] = IF a = c THEN k ELSE hand[a]
        BY <3>2, Zenon DEF RpcTypes
      <4>2. /\ \A a \in Actor : rpc'[a] \in {"deliver", "deliver_drain"} => hand'[a] \in Actor
            /\ \A a \in CallId : rpc'[a] = "s_keep" => hand'[a] \in CallId
        BY <3>2, <4>1, Zenon DEF RpcTypes, HandsOK, Actor
      <4>3. \A a, b \in Actor : hand'[a] = hand'[b] /\ hand'[a] \in CallId => a = b
        BY <2>6, <3>2, <4>1 DEF HandsOK
      <4> QED BY <4>2, <4>3, Zenon DEF HandsOK
    <3> QED BY <2>3, <3>1, <3>2, Zenon
  <2>8. ASSUME NEW d \in CallId PROVE ApartOf(d)'
    <3>1. In(requests, d)' = In(requests, d)
      BY <1>1, Zenon DEF In
    <3>2. rpc'[d] \in {"idle", "send"} => rpc[d] = rpc'[d]
      BY <2>3, Zenon DEF RpcTypes, Actor
    <3>3. CASE d # k
      <4>1. \A a \in Actor : hand'[a] = d => hand[a] = d
        BY <2>3, <3>3, Zenon DEF RpcTypes, Actor
      <4>2. (Held(d)' => Held(d)) /\ (answer'[d] = d => answer[d] = d)
        BY <2>3, <3>3, <4>1, Zenon DEF Held, RpcTypes
      <4>3. NoNewPlace(d)
        BY <1>1, <2>2, <3>1, <3>2, <4>2, Zenon DEF NoNewPlace
      <4> QED BY <4>3, NoNewPlaceKeeps, Zenon DEF Apart
    <3>4. CASE d = k /\ k = c
      <4>1. ~Held(d)' /\ ~In(replies, d)' /\ entry'[d] # "packet" /\ d \notin kept' /\ rpc'[d] = "done"
        BY <1>1, <2>2, <2>3, <2>6, <3>4, RpcAssumption, Zenon DEF Held, Home, RpcTypes, Actor
      <4> QED BY <1>1, <2>6, <3>1, <3>4, <4>1, Zenon DEF ApartOf
    <3>5. CASE d = k /\ k # c
      <4>1. answer' = answer /\ ~Home(d)'
        BY <1>1, <2>3, <2>6, <3>5, RpcAssumption, Zenon DEF Home
      <4>2. ~In(replies, d)' /\ rpc'[d] \notin {"idle", "send"}
        BY <2>2, <2>6, <3>2, <3>5, Zenon
      <4> QED BY <1>1, <2>6, <3>1, <3>5, <4>1, <4>2, Zenon DEF ApartOf, Home
    <3> QED BY <3>3, <3>4, <3>5, Zenon
  <2>9. Distinct(requests)'
    BY <1>1, Zenon DEF Distinct
  <2> QED BY <2>2, <2>4, <2>5, <2>7, <2>8, <2>9, Zenon DEF Apart
<1> QED BY <1>2, <1>3, Zenon

\* Into the map of the sync client, and out of it.
LEMMA SyncKeepOK ==
    ASSUME RpcInv, NEW c \in CallId, SyncKeep(c)
    PROVE  RpcInv'
<1> USE DEF RpcInv
<1>0. PICK k : k = hand[c]
  BY Zenon
<1>1. /\ UNCHANGED <<blocking, entry, answer, requests, replies, serving>> /\ rpc[c] = "s_keep"
      /\ kept' = kept \cup {k} /\ hand' = [hand EXCEPT ![c] = NoPacket]
      /\ rpc' = [rpc EXCEPT ![c] = "s_recv"]
  BY <1>0, Zenon DEF SyncKeep, At, Goto, SameChan
<1>2. k \in CallId /\ c \in Actor
  BY <1>0, <1>1, Zenon DEF HandsOK, Actor
<1>3. RpcTypes'
  BY <1>1, <1>2, Zenon DEF RpcTypes, Looping
<1>4. EntriesOK'
  BY <1>1, Zenon DEF RpcTypes, EntriesOK, Polled, Actor
<1>5. \A a \in Actor : hand'[a] = IF a = c THEN NoPacket ELSE hand[a]
  BY <1>1, Zenon DEF RpcTypes
<1>6. HandsOK'
  BY <1>1, <1>5, RpcAssumption, Zenon DEF RpcTypes, HandsOK, Actor
<1>7. ASSUME NEW d \in CallId PROVE ApartOf(d)'
  <2>1. In(requests, d)' = In(requests, d) /\ In(replies, d)' = In(replies, d)
    BY <1>1, Zenon DEF In
  <2>2. Held(d)' => Held(d) /\ d # k
    BY <1>0, <1>2, <1>5, RpcAssumption, ZenonT(30) DEF Held, Actor, HandsOK
  <2>3. rpc'[d] \in {"idle", "send"} => rpc[d] = rpc'[d]
    BY <1>1, Zenon DEF RpcTypes, Actor
  <2>4. CASE d # k
    <3>1. NoNewPlace(d)
      BY <1>1, <2>1, <2>2, <2>3, <2>4, Zenon DEF NoNewPlace
    <3> QED BY <3>1, NoNewPlaceKeeps, Zenon DEF Apart
  <2>5. CASE d = k
    <3>1. Held(d)
      BY <1>0, <1>2, <2>5, Zenon DEF Held
    <3>2. ~In(requests, d) /\ d \notin serving /\ ~In(replies, d) /\ ~Home(d) /\ rpc[d] \notin {"idle", "send"}
      BY <3>1, Zenon DEF Apart, ApartOf
    <3> QED BY <1>1, <2>1, <2>2, <2>3, <2>5, <3>2, Zenon DEF ApartOf, Home
  <2> QED BY <2>4, <2>5, Zenon
<1>8. Distinct(requests)' /\ Distinct(replies)'
  BY <1>1, ZenonT(30) DEF Distinct
<1> QED BY <1>3, <1>4, <1>6, <1>7, <1>8, Zenon DEF Apart

\* call_inner looks for its reply among the kept ones, and waits if it is not there.
LEMMA SyncLookOK ==
    ASSUME RpcInv, NEW c \in CallId, SyncLook(c)
    PROVE  RpcInv'
<1> USE DEF RpcInv
<1>1. UNCHANGED <<blocking, hand, entry, requests, replies, serving>> /\ rpc[c] = "s_look"
  BY Zenon DEF SyncLook, At, SameChan
<1>2. CASE c \notin kept
  <2>1. UNCHANGED <<kept, answer>> /\ rpc' = [rpc EXCEPT ![c] = "s_wait"]
    BY <1>2, Zenon DEF SyncLook, Goto
  <2>2. RpcTypes'
    BY <1>1, <2>1, Zenon DEF RpcTypes, Looping, Actor
  <2>3. EntriesOK'
    BY <1>1, <2>1, Zenon DEF RpcTypes, EntriesOK, Polled, Actor
  <2>4. Quiet
    BY <1>1, <2>1, Zenon DEF Quiet, RpcTypes, Actor
  <2> QED BY <2>2, <2>3, <2>4, QuietKeeps, Zenon
<1>3. CASE c \in kept
  <2>1. /\ kept' = kept \ {c} /\ answer' = [answer EXCEPT ![c] = c]
        /\ rpc' = [rpc EXCEPT ![c] = "done"]
    BY <1>3, Zenon DEF SyncLook, Goto
  <2>2. RpcTypes'
    BY <1>1, <2>1, Zenon DEF RpcTypes, Actor
  <2>3. EntriesOK'
    BY <1>1, <2>1, Zenon DEF RpcTypes, EntriesOK, Polled, Actor
  <2>4. HandsOK'
    BY <1>1, <2>1, Zenon DEF RpcTypes, HandsOK, Actor
  <2>5. ASSUME NEW d \in CallId PROVE ApartOf(d)'
    <3>1. In(requests, d)' = In(requests, d) /\ In(replies, d)' = In(replies, d) /\ Held(d)' = Held(d)
      BY <1>1, Zenon DEF In, Held
    <3>2. CASE d # c
      <4>1. NoNewPlace(d)
        BY <1>1, <2>1, <3>1, <3>2, Zenon DEF NoNewPlace, RpcTypes, Actor
      <4> QED BY <4>1, NoNewPlaceKeeps, Zenon DEF Apart
    <3>3. CASE d = c
      <4>1. Home(d) /\ entry[d] # "packet"
        BY <1>3, <3>3, Zenon DEF Home, Apart, ApartOf
      <4>2. ~In(requests, d) /\ d \notin serving /\ ~In(replies, d) /\ ~Held(d)
        BY <4>1, Zenon DEF Apart, ApartOf
      <4>3. d \notin kept' /\ rpc'[d] = "done"
        BY <2>1, <3>3, Zenon DEF RpcTypes, Actor
      <4> QED BY <1>1, <3>1, <4>1, <4>2, <4>3, Zenon DEF ApartOf
    <3> QED BY <3>2, <3>3, Zenon
  <2>6. Distinct(requests)' /\ Distinct(replies)'
    BY <1>1, ZenonT(30) DEF Distinct
  <2> QED BY <2>2, <2>3, <2>4, <2>5, <2>6, Zenon DEF Apart
<1> QED BY <1>2, <1>3, Zenon

\* Every step of the clients, the event receiver and the server.
LEMMA RpcStepOK == RpcInv /\ [RpcNext]_rpcvars => RpcInv'
<1> SUFFICES ASSUME RpcInv, [RpcNext]_rpcvars PROVE RpcInv'
  BY Zenon
<1>1. CASE UNCHANGED rpcvars
  BY <1>1 DEF rpcvars, client, RpcInv, RpcTypes, HandsOK, Distinct, Apart, ApartOf, EntriesOK, In, Held, Home
<1>2. ASSUME NEW c \in Actor, PollCall(c) \/ ReceivePacket(c) \/ Deliver(c) \/ TakePacket(c) \/ Repoll(c)
      PROVE  RpcInv'
  BY <1>2, PollOK, ReceiveOK, DeliverOK, TakeOK, RepollOK, Zenon
<1>3. ASSUME NEW c \in CallId,
             \/ Register(c) \/ SendRequest(c) \/ DropCall(c) \/ Respond(c) \/ SyncCall(c) \/ SyncReceive(c)
             \/ SyncKeep(c) \/ SyncLook(c) \/ SyncWait(c) \/ SyncError(c)
      PROVE  RpcInv'
  <2>1. c \in Actor
    BY Zenon DEF Actor
  <2> QED BY <1>3, <2>1, RegisterOK, SendOK, DropOK, RespondOK, SyncReceiveOK, SyncKeepOK, SyncLookOK, SyncQuietOK, Zenon
<1>4. CASE EventReceiver \/ DropEvents \/ Stir \/ ServeNext \/ SendEvent \/ CloseServer
  <2>1. EvTask \in Actor
    BY Zenon DEF Actor
  <2>2. ASSUME NEW k \in Actor, k = EvTask, SendEvent PROVE RpcInv'
    <3>1. (SendEvent /\ k = EvTask) \/ (k \in CallId /\ Respond(k))
      BY <2>2, Zenon
    <3> QED BY <3>1, RespondOK, Zenon
  <2> QED BY <1>4, <2>1, <2>2, AsideOK, ServeOK, Zenon
<1> QED BY <1>1, <1>2, <1>3, <1>4, Zenon DEF RpcNext

\* For any number of calls, polled, dropped, timed out or cut off by the end of
\* the server in any order, over either client: no call finds its entry gone, and
\* a reply is handed over once.
THEOREM RepliesAlwaysMatched == RpcSpec => []RepliesMatched
<1>1. RpcInit({}, 0) => RpcInv
  BY RpcInitOK, Zenon
<1> QED BY <1>1, RpcStepOK, RpcInvMatched, PTL DEF RpcSpec
=============================================================================
