----------------------------- MODULE IpcProofs -----------------------------
(* A channel end has one owner, for every number of spaces, tasks and         *)
(* channels, every schedule and every length of a packet: where the Refs of   *)
(* channel ends are, the steps of the handle map that keep it (hdl.rs), and   *)
(* those of chan_send, chan_recv and chan_new (channel.rs,                    *)
(* channel/syscall.rs).                                                       *)
EXTENDS Ipc, SequenceTheorems, TLAPS

-----------------------------------------------------------------------------
\* The places of a Ref: a handle map, the locals of a system call, the packet that
\* was put back, the queue of a side.
Place == ({"list"} \X Space \X Nat \X {0}) \cup ({"call"} \X IpcTask \X Nat \X {0})
         \cup ({"head"} \X End \X {0} \X Nat) \cup ({"queue"} \X End \X Nat \X Nat)

\* The Ref r is at the place p.
Sits(p, r) ==
    \/ p[1] = "list" /\ p[3] \in DOMAIN list[p[2]] /\ r = list[p[2]][p[3]]
    \/ p[1] = "call" /\ p[3] \in DOMAIN ipcLoc[p[2]].refs /\ r = ipcLoc[p[2]].refs[p[3]]
    \/ /\ p[1] = "head" /\ head[p[2]] # NoRef
       /\ p[4] \in DOMAIN head[p[2]].objs /\ r = head[p[2]].objs[p[4]]
    \/ /\ p[1] = "queue" /\ p[3] \in DOMAIN msgs[p[2]]
       /\ p[4] \in DOMAIN msgs[p[2]][p[3]].objs /\ r = msgs[p[2]][p[3]].objs[p[4]]

\* A channel end is at one place, was made, and cannot be cloned.
Owned ==
    /\ \A p \in Place, q \in Place : \A r, x :
         Sits(p, r) /\ Sits(q, x) /\ r.obj = x.obj /\ r.obj \in End => p = q
    /\ \A p \in Place : \A r : Sits(p, r) /\ r.obj \in End => r.obj[1] \in made /\ "SYNC" \notin r.feat

Tables == UNION {[D -> Ref] : D \in SUBSET Nat}
IpcLocal == [end : Object \cup {NoRef}, todo : Seq(Nat), refs : Seq(Ref),
             next : {"return", "new", "clear", "release"}]

\* The types of the variables that hold Refs; a key that was not given out is free.
IpcTypes ==
    /\ nextId \in [Space -> Nat]
    /\ list \in [Space -> Tables]
    /\ \A s \in Space : \A k \in DOMAIN list[s] : k < nextId[s]
    /\ ipcLoc \in [IpcTask -> IpcLocal]
    /\ msgs \in [End -> Seq(Packet)] /\ sent \in [End -> Nat]
    /\ head \in [End -> Packet \cup {NoRef}]

IpcInv == IpcTypes /\ Owned

\* The components of a place.
LEMMA PlaceIs ==
    ASSUME NEW p \in Place
    PROVE  /\ p = <<p[1], p[2], p[3], p[4]>>
           /\ p[1] \in {"list", "call", "head", "queue"} /\ p[3] \in Nat /\ p[4] \in Nat
           /\ p[1] = "list" => p[2] \in Space /\ p[4] = 0
           /\ p[1] = "call" => p[2] \in IpcTask /\ p[4] = 0
           /\ p[1] = "head" => p[2] \in End /\ p[3] = 0
           /\ p[1] = "queue" => p[2] \in End
BY DEF Place

\* Two places with the same components.
LEMMA PlaceSame ==
    ASSUME NEW p \in Place, NEW q \in Place, p[1] = q[1], p[2] = q[2], p[3] = q[3], p[4] = q[4]
    PROVE  p = q
BY PlaceIs, Zenon

\* Places, made from their components.
LEMMA PlaceMade ==
    /\ \A s \in Space, k \in Nat : <<"list", s, k, 0>> \in Place
    /\ \A t \in IpcTask, k \in Nat : <<"call", t, k, 0>> \in Place
    /\ \A e \in End, j \in Nat : <<"head", e, 0, j>> \in Place
    /\ \A e \in End, i \in Nat, j \in Nat : <<"queue", e, i, j>> \in Place
BY ZenonT(30) DEF Place

\* A place has one Ref.
LEMMA SitsOne ==
    ASSUME NEW p \in Place, NEW r, NEW x, Sits(p, r), Sits(p, x)
    PROVE  r = x
BY PlaceIs DEF Sits

\* A handle map is a table with natural keys.
LEMMA TableIs ==
    ASSUME NEW f \in Tables
    PROVE  DOMAIN f \subseteq Nat /\ f = [k \in DOMAIN f |-> f[k]] /\ \A k \in DOMAIN f : f[k] \in Ref
BY Zenon DEF Tables

\* And what is one.
LEMMA TableMade ==
    ASSUME NEW D \in SUBSET Nat, NEW f \in [D -> Ref]
    PROVE  f \in Tables
BY Zenon DEF Tables

\* A step that moves Refs, each from F of where it is then, copies no end and
\* gives no end a feature: ends keep one owner.
LEMMA MovedOwned ==
    ASSUME Owned, made \subseteq made', NEW F, \A p \in Place : F[p] \in Place,
           \A p \in Place : \A r : Sits(p, r)' =>
               \E x : Sits(F[p], x) /\ x.obj = r.obj /\ (r.obj \in End => r.feat \subseteq x.feat),
           \A p \in Place, q \in Place : \A r, x :
               Sits(p, r)' /\ Sits(q, x)' /\ r.obj = x.obj /\ r.obj \in End /\ F[p] = F[q] => p = q
    PROVE  Owned'
<1>1. ASSUME NEW p \in Place, NEW q \in Place, NEW r, NEW x,
             Sits(p, r)', Sits(q, x)', r.obj = x.obj, r.obj \in End
      PROVE  p = q
  <2>1. PICK r0 : Sits(F[p], r0) /\ r0.obj = r.obj
    BY <1>1, ZenonT(30)
  <2>2. PICK x0 : Sits(F[q], x0) /\ x0.obj = x.obj
    BY <1>1
  <2>3. F[p] = F[q]
    BY <1>1, <2>1, <2>2 DEF Owned
  <2> QED BY <1>1, <2>3, Zenon
<1>2. ASSUME NEW p \in Place, NEW r, Sits(p, r)', r.obj \in End
      PROVE  r.obj[1] \in made' /\ "SYNC" \notin r.feat
  <2>1. PICK x : Sits(F[p], x) /\ x.obj = r.obj /\ r.feat \subseteq x.feat
    BY <1>2, Zenon
  <2>2. x.obj[1] \in made /\ "SYNC" \notin x.feat
    BY <1>2, <2>1, Zenon DEF Owned
  <2> QED BY <2>1, <2>2, Zenon
<1> QED BY <1>1, <1>2, Zenon DEF Owned

\* A step that moves no Ref, and may release some.
LEMMA LeftOwned ==
    ASSUME Owned, made' = made, \A p \in Place : \A r : Sits(p, r)' => Sits(p, r)
    PROVE  Owned'
<1>1. ASSUME NEW p \in Place, NEW q \in Place, NEW r, NEW x,
             Sits(p, r)', Sits(q, x)', r.obj = x.obj, r.obj \in End
      PROVE  p = q
  BY <1>1, Zenon DEF Owned
<1>2. ASSUME NEW p \in Place, NEW r, Sits(p, r)', r.obj \in End
      PROVE  r.obj[1] \in made' /\ "SYNC" \notin r.feat
  BY <1>2, Zenon DEF Owned
<1> QED BY <1>1, <1>2, Zenon DEF Owned

\* try_remove takes one handle out of a map.
LEMMA RemoveIs ==
    ASSUME IpcTypes, NEW s \in Space, NEW k, RemoveRef(s, k)
    PROVE  /\ list' \in [Space -> Tables]
           /\ \A u \in Space : \A j \in DOMAIN list'[u] :
                j \in DOMAIN list[u] /\ list'[u][j] = list[u][j] /\ ~(u = s /\ j = k)
<1>1. PICK f \in Tables : f = list[s]
  BY Zenon DEF IpcTypes
<1>2. PICK g : g = [x \in DOMAIN f \ {k} |-> f[x]]
  BY Zenon
<1>3. list' = [list EXCEPT ![s] = g]
  BY <1>1, <1>2, ZenonT(30) DEF RemoveRef
<1>4. g \in Tables
  <2>1. DOMAIN f \ {k} \in SUBSET Nat /\ g \in [DOMAIN f \ {k} -> Ref]
    BY <1>2, TableIs, ZenonT(30)
  <2> QED BY <2>1, TableMade, ZenonT(30)
<1>5. list' \in [Space -> Tables]
  BY <1>3, <1>4, ZenonT(30) DEF IpcTypes
<1>6. \A u \in Space : list'[u] = IF u = s THEN g ELSE list[u]
  BY <1>3, ZenonT(30) DEF IpcTypes
<1>7. \A j \in DOMAIN g : j \in DOMAIN f /\ g[j] = f[j] /\ j # k
  BY <1>2, Zenon
<1> QED BY <1>1, <1>5, <1>6, <1>7, ZenonT(30)

\* A local of a system call that holds nothing.
LEMMA NoLocIs == NoLoc \in IpcLocal /\ NoLoc.refs = <<>>
<1>1. <<>> \in Seq(Nat) /\ <<>> \in Seq(Ref)
  OBVIOUS
<1> QED BY <1>1, ZenonT(30) DEF NoLoc, IpcLocal

\* A step that takes a handle out of a map, or empties locals, queues or heads.
LEMMA ReleaseInv ==
    ASSUME IpcInv, UNCHANGED <<made, nextId, sent>>, NEW s \in Space, NEW k,
           list' = list \/ RemoveRef(s, k),
           ipcLoc' \in [IpcTask -> IpcLocal],
           \A t \in IpcTask : ipcLoc'[t].refs \in {ipcLoc[t].refs, <<>>},
           msgs' \in [End -> Seq(Packet)], \A e \in End : msgs'[e] \in {msgs[e], <<>>},
           head' \in [End -> Packet \cup {NoRef}], \A e \in End : head'[e] \in {head[e], NoRef}
    PROVE  IpcInv'
<1>1. /\ list' \in [Space -> Tables]
      /\ \A u \in Space : \A j \in DOMAIN list'[u] : j \in DOMAIN list[u] /\ list'[u][j] = list[u][j]
  <2>1. CASE list' = list
    BY <2>1, Zenon DEF IpcInv, IpcTypes
  <2>2. CASE RemoveRef(s, k)
    BY <2>2, RemoveIs, ZenonT(30) DEF IpcInv
  <2> QED BY <2>1, <2>2, Zenon
<1>2. IpcTypes'
  BY <1>1, Zenon DEF IpcInv, IpcTypes
<1>3. ASSUME NEW p \in Place, NEW r, Sits(p, r)' PROVE Sits(p, r)
  <2>1. /\ p[1] \in {"list", "call", "head", "queue"}
        /\ p[1] = "list" => p[2] \in Space
        /\ p[1] = "call" => p[2] \in IpcTask
        /\ p[1] = "head" => p[2] \in End
        /\ p[1] = "queue" => p[2] \in End
    BY PlaceIs, Zenon
  <2>2. CASE p[1] = "list"
    BY <1>1, <1>3, <2>1, <2>2, Zenon DEF Sits
  <2>3. CASE p[1] = "call"
    BY <1>3, <2>1, <2>3 DEF Sits
  <2>4. CASE p[1] = "head"
    BY <1>3, <2>1, <2>4, Zenon DEF Sits
  <2>5. CASE p[1] = "queue"
    BY <1>3, <2>1, <2>5 DEF Sits
  <2> QED BY <2>1, <2>2, <2>3, <2>4, <2>5, Zenon
<1>4. Owned'
  BY <1>3, LeftOwned, Zenon DEF IpcInv
<1> QED BY <1>2, <1>4, ZenonT(30) DEF IpcInv

\* A call comes to its end: its locals are empty.
LEMMA ReturnIs ==
    ASSUME IpcInv, NEW t \in IpcTask, NEW ds, Return(t, ds)
    PROVE  /\ ipcLoc' \in [IpcTask -> IpcLocal]
           /\ \A u \in IpcTask : ipcLoc'[u].refs \in {ipcLoc[u].refs, <<>>}
<1>1. ipcLoc' = [ipcLoc EXCEPT ![t] = NoLoc]
  BY Zenon DEF Return
<1> QED BY <1>1, NoLocIs, Zenon DEF IpcInv, IpcTypes

\* The types of what a step leaves alone.
LEMMA SameIs ==
    ASSUME IpcInv
    PROVE  /\ ipcLoc \in [IpcTask -> IpcLocal] /\ msgs \in [End -> Seq(Packet)]
           /\ head \in [End -> Packet \cup {NoRef}] /\ sent \in [End -> Nat]
           /\ nextId \in [Space -> Nat] /\ list \in [Space -> Tables]
           /\ \A t \in IpcTask : Home[t] \in Space
BY IpcAssumption, Zenon DEF IpcInv, IpcTypes, InitialHandles

\* Steps of a system call that only release: chan_new out of memory, the end of an
\* insertion, a send without a peer or without room, and the notification after
\* a push.
LEMMA ReturnsIpc ==
    ASSUME IpcInv, NEW t \in IpcTask,
           ChanNewFails(t) \/ Inserted(t) \/ Upgrade(t) \/ CheckLen(t) \/ Notify(t)
    PROVE  IpcInv'
<1>1. UNCHANGED <<made, nextId, sent, list, msgs, head>>
  BY Zenon DEF ChanNewFails, Inserted, Upgrade, CheckLen, Notify, tabVars, chanVars
<1>2. ipcLoc' = ipcLoc \/ \E ds : Return(t, ds)
  BY Zenon DEF ChanNewFails, Inserted, Upgrade, CheckLen, Notify
<1>3. /\ ipcLoc' \in [IpcTask -> IpcLocal]
      /\ \A u \in IpcTask : ipcLoc'[u].refs \in {ipcLoc[u].refs, <<>>}
  BY <1>2, ReturnIs, SameIs, ZenonT(30)
<1>4. Home[t] \in Space /\ msgs' \in [End -> Seq(Packet)] /\ head' \in [End -> Packet \cup {NoRef}]
  BY <1>1, SameIs, ZenonT(30)
<1> QED BY <1>1, <1>3, <1>4, ReleaseInv, ZenonT(30)

\* obj_drop.
LEMMA ObjDropIpc ==
    ASSUME IpcInv, NEW t \in IpcTask, NEW k, ObjDrop(t, k)
    PROVE  IpcInv'
<1>1. UNCHANGED <<made, nextId, sent, msgs, head>> /\ RemoveRef(Home[t], k) /\ (\E ds : Return(t, ds))
  BY Zenon DEF ObjDrop, chanVars
<1>2. /\ ipcLoc' \in [IpcTask -> IpcLocal]
      /\ \A u \in IpcTask : ipcLoc'[u].refs \in {ipcLoc[u].refs, <<>>}
  BY <1>1, ReturnIs, Zenon
<1>3. Home[t] \in Space /\ msgs' \in [End -> Seq(Packet)] /\ head' \in [End -> Packet \cup {NoRef}]
  BY <1>1, SameIs, Zenon
<1> QED BY <1>1, <1>2, <1>3, ReleaseInv, ZenonT(30)

\* The locals of a send.
LEMMA ChanSendIpc ==
    ASSUME IpcInv, NEW t \in IpcTask, NEW k, NEW args \in ArgLists(Home[t]), ChanSend(t, k, args)
    PROVE  IpcInv'
<1>1. UNCHANGED <<made, nextId, sent, list, msgs, head>>
  BY Zenon DEF ChanSend, tabVars, chanVars
<1>2. Home[t] \in Space /\ msgs' \in [End -> Seq(Packet)] /\ head' \in [End -> Packet \cup {NoRef}]
  BY <1>1, SameIs, Zenon
<1>3. PICK e \in End : ipcLoc' = [ipcLoc EXCEPT ![t] = [NoLoc EXCEPT !.end = e, !.todo = args]]
  BY Zenon DEF ChanSend, IsChannel
<1>4. args \in Seq(Nat)
  <2>1. PICK n \in 0..MaxArgs : args \in [1..n -> Keys(Home[t])]
    BY Zenon DEF ArgLists
  <2>2. n \in Nat /\ Keys(Home[t]) \subseteq Nat
    BY <1>2, IpcAssumption, SameIs DEF Keys, InitialHandles
  <2>3. args \in [1..n -> Nat]
    BY <2>1, <2>2, Zenon
  <2> QED BY <2>2, <2>3
<1>5. [NoLoc EXCEPT !.end = e, !.todo = args] \in IpcLocal /\ [NoLoc EXCEPT !.end = e, !.todo = args].refs = <<>>
  BY <1>4, NoLocIs, Zenon DEF IpcLocal, Object
<1>6. /\ ipcLoc' \in [IpcTask -> IpcLocal]
      /\ \A u \in IpcTask : ipcLoc'[u].refs \in {ipcLoc[u].refs, <<>>}
  BY <1>3, <1>5, SameIs, Zenon
<1> QED BY <1>1, <1>2, <1>6, ReleaseInv, Zenon

\* The last count of an end or of a side.
LEMMA DropIpc ==
    ASSUME IpcInv, NEW t \in IpcTask, DropObject(t) \/ DropSide(t)
    PROVE  IpcInv'
<1>1. UNCHANGED <<made, nextId, sent, list, ipcLoc>> /\ Home[t] \in Space
  BY SameIs, Zenon DEF DropObject, DropSide, tabVars
<1>2. /\ head' = head \/ \E o : head' = [head EXCEPT ![o] = NoRef]
      /\ msgs' = msgs \/ \E e : msgs' = [msgs EXCEPT ![e] = <<>>]
  BY Zenon DEF DropObject, DropSide
<1>3. head' \in [End -> Packet \cup {NoRef}] /\ \A e \in End : head'[e] \in {head[e], NoRef}
  BY <1>2, SameIs, Zenon
<1>4. <<>> \in Seq(Packet)
  OBVIOUS
<1>5. msgs' \in [End -> Seq(Packet)] /\ \A e \in End : msgs'[e] \in {msgs[e], <<>>}
  BY <1>2, <1>4, SameIs, ZenonT(30)
<1>6. ipcLoc' \in [IpcTask -> IpcLocal]
  BY <1>1, SameIs, Zenon
<1> QED BY <1>1, <1>3, <1>5, <1>6, ReleaseInv, Zenon

\* What is left of a sequence of Refs or packets behind its head.
LEMMA TailIs ==
    ASSUME NEW S, NEW q \in Seq(S), q # <<>>
    PROVE  \E tl \in Seq(S) : /\ tl = Tail(q) /\ DOMAIN tl = 1..Len(tl) /\ Len(tl) \in Nat
                             /\ \A i \in 1..Len(tl) : i + 1 \in DOMAIN q /\ tl[i] = q[i + 1]
<1>1. PICK tl \in Seq(S) : tl = Tail(q)
  BY HeadTailProperties, Zenon
<1>2. Len(tl) = Len(q) - 1 /\ Len(q) \in Nat /\ DOMAIN q = 1..Len(q) /\ DOMAIN tl = 1..Len(tl) /\ Len(tl) \in Nat
  BY <1>1, HeadTailProperties
<1>3. \A i \in 1..Len(tl) : tl[i] = q[i + 1]
  BY <1>1, HeadTailProperties, Zenon
<1> QED BY <1>1, <1>2, <1>3

\* insert_ref: the Ref goes from the locals of the call to a free key of the map.
LEMMA InsertStepIpc ==
    ASSUME IpcInv, NEW t \in IpcTask, InsertStep(t)
    PROVE  IpcInv'
<1>1. PICK s \in Space : s = Home[t]
  BY SameIs, Zenon
<1>2. PICK loc0 \in IpcLocal : loc0 = ipcLoc[t]
  BY SameIs, Zenon
<1>3. PICK refs \in Seq(Ref) : refs = loc0.refs /\ refs # <<>>
  BY <1>2, Zenon DEF IpcLocal, InsertStep
<1>4. PICK tl \in Seq(Ref) : /\ tl = Tail(refs) /\ DOMAIN tl = 1..Len(tl) /\ Len(tl) \in Nat
                            /\ \A i \in 1..Len(tl) : i + 1 \in DOMAIN refs /\ tl[i] = refs[i + 1]
  BY <1>3, TailIs
<1>5. PICK n \in Nat : n = nextId[s]
  BY SameIs, Zenon
<1>6. PICK f \in Tables : f = list[s]
  BY SameIs, Zenon
<1>7. n \notin DOMAIN f /\ DOMAIN f \subseteq Nat
  <2>1. \A k \in DOMAIN f : k < n /\ k \in Nat
    BY <1>5, <1>6, TableIs, Zenon DEF IpcInv, IpcTypes
  <2> QED BY <2>1
<1>8. PICK g : g = [k \in DOMAIN f \cup {n} |-> IF k = n THEN refs[1] ELSE f[k]]
  BY Zenon
<1>9. list' = [list EXCEPT ![s] = g] /\ nextId' = [nextId EXCEPT ![s] = n + 1]
  BY <1>1, <1>2, <1>3, <1>5, <1>6, <1>8 DEF InsertStep, InsertRef
<1>10. g \in Tables
  <2>1. DOMAIN f \cup {n} \in SUBSET Nat
    BY <1>7, Zenon
  <2>2. refs[1] \in Ref
    BY <1>3
  <2>3. g \in [DOMAIN f \cup {n} -> Ref]
    BY <1>8, <2>2, TableIs, ZenonT(30)
  <2> QED BY <2>1, <2>3, TableMade, Zenon
<1>11. ipcLoc' = [ipcLoc EXCEPT ![t] = [loc0 EXCEPT !.refs = tl]]
  BY <1>2, <1>3, <1>4, ZenonT(30) DEF InsertStep
<1>12. [loc0 EXCEPT !.refs = tl] \in IpcLocal /\ [loc0 EXCEPT !.refs = tl].refs = tl
  BY <1>4, Zenon DEF IpcLocal
<1>13. UNCHANGED <<made, msgs, head, sent>>
  BY Zenon DEF InsertStep, chanVars
<1>14. \A u \in Space : list'[u] = IF u = s THEN g ELSE list[u]
  BY <1>9, SameIs, ZenonT(30)
<1>15. \A u \in IpcTask : ipcLoc'[u].refs = IF u = t THEN tl ELSE ipcLoc[u].refs
  BY <1>11, <1>12, SameIs, ZenonT(30)
<1>16. IpcTypes'
  <2>1. list' \in [Space -> Tables] /\ nextId' \in [Space -> Nat] /\ ipcLoc' \in [IpcTask -> IpcLocal]
    BY <1>5, <1>9, <1>10, <1>11, <1>12, SameIs
  <2>2. \A u \in Space : \A k \in DOMAIN list'[u] : k < nextId'[u]
    <3> SUFFICES ASSUME NEW u \in Space, NEW k \in DOMAIN list'[u] PROVE k < nextId'[u]
      BY Zenon
    <3>1. CASE u = s
      <4>1. k \in DOMAIN f \cup {n} /\ nextId'[u] = n + 1
        BY <1>8, <1>9, <1>14, <3>1, SameIs, Zenon
      <4>2. k \in DOMAIN f => k < n /\ k \in Nat
        BY <1>5, <1>6, <1>7, Zenon DEF IpcInv, IpcTypes
      <4> QED BY <4>1, <4>2
    <3>2. CASE u # s
      BY <1>9, <1>14, <3>2, SameIs, Zenon DEF IpcInv, IpcTypes
    <3> QED BY <3>1, <3>2, Zenon
  <2> QED BY <1>13, <2>1, <2>2, SameIs, ZenonT(30) DEF IpcTypes
<1> DEFINE new == <<"list", s, n, 0>>
           F == [p \in Place |-> IF p = new THEN <<"call", t, 1, 0>>
                                 ELSE IF p[1] = "call" /\ p[2] = t THEN <<"call", t, p[3] + 1, 0>> ELSE p]
<1>17. ASSUME NEW p \in Place
       PROVE  /\ F[p] \in Place
              /\ p = new => F[p] = <<"call", t, 1, 0>>
              /\ p[1] = "call" /\ p[2] = t => F[p] = <<"call", t, p[3] + 1, 0>>
              /\ p # new /\ ~(p[1] = "call" /\ p[2] = t) => F[p] = p
  BY PlaceIs, PlaceMade, SMTT(20)
<1> HIDE DEF F
<1>18. ASSUME NEW p \in Place, NEW r, Sits(p, r)' PROVE Sits(F[p], r)
  <2>1. CASE p[1] = "list"
    <3>1. p[2] \in Space /\ p[3] \in DOMAIN list'[p[2]] /\ r = list'[p[2]][p[3]]
      BY <1>18, <2>1, PlaceIs, Zenon DEF Sits
    <3>2. CASE p = new
      <4>1. r = refs[1] /\ 1 \in DOMAIN refs
        <5>1. p[2] = s /\ p[3] = n
          BY <3>2, Zenon
        <5>2. r = g[n] /\ g[n] = refs[1]
          BY <1>8, <1>14, <3>1, <5>1, Zenon
        <5> QED BY <1>3, <5>2
      <4>2. F[p] = <<"call", t, 1, 0>>
        BY <1>17, <3>2, Zenon
      <4>3. 1 \in DOMAIN ipcLoc[t].refs /\ r = ipcLoc[t].refs[1]
        BY <1>2, <1>3, <4>1, ZenonT(30)
      <4>4. Sits(<<"call", t, 1, 0>>, r)
        BY <4>3, ZenonT(30) DEF Sits
      <4> QED BY <4>2, <4>4, Zenon
    <3>3. CASE p # new
      <4>1. ~(p[2] = s /\ p[3] = n)
        BY <2>1, <3>3, PlaceIs, ZenonT(30)
      <4>2. p[3] \in DOMAIN list[p[2]] /\ r = list[p[2]][p[3]]
        <5>1. CASE p[2] = s
          <6>1. p[3] \in DOMAIN g /\ r = g[p[3]] /\ p[3] # n
            BY <1>14, <3>1, <4>1, <5>1, ZenonT(30)
          <6>2. p[3] \in DOMAIN f /\ r = f[p[3]]
            BY <1>8, <6>1, ZenonT(30)
          <6> QED BY <1>6, <5>1, <6>2, ZenonT(30)
        <5>2. CASE p[2] # s
          BY <1>14, <3>1, <5>2, ZenonT(30)
        <5> QED BY <5>1, <5>2, Zenon
      <4> QED BY <1>17, <2>1, <3>3, <4>2, ZenonT(30) DEF Sits
    <3> QED BY <3>2, <3>3, Zenon
  <2>2. CASE p[1] = "call"
    <3>1. p[2] \in IpcTask /\ p[3] \in DOMAIN ipcLoc'[p[2]].refs /\ r = ipcLoc'[p[2]].refs[p[3]]
      BY <1>18, <2>2, PlaceIs, ZenonT(30) DEF Sits
    <3>2. CASE p[2] = t
      <4>1. p[3] \in 1..Len(tl) /\ r = tl[p[3]]
        BY <1>4, <1>15, <3>1, <3>2, ZenonT(30)
      <4>2. p[3] + 1 \in DOMAIN refs /\ r = refs[p[3] + 1]
        BY <1>4, <4>1, Zenon
      <4>3. F[p] = <<"call", t, p[3] + 1, 0>>
        BY <1>17, <2>2, <3>2, ZenonT(30)
      <4>4. PICK m : m = p[3] + 1
        BY Zenon
      <4>5. m \in DOMAIN ipcLoc[t].refs /\ r = ipcLoc[t].refs[m]
        BY <1>2, <1>3, <4>2, <4>4, ZenonT(30)
      <4>6. Sits(<<"call", t, m, 0>>, r)
        BY <4>5, ZenonT(30) DEF Sits
      <4> QED BY <4>3, <4>4, <4>6, ZenonT(30)
    <3>3. CASE p[2] # t
      <4>1. p # new
        BY <2>2, SMTT(20)
      <4> QED BY <1>15, <1>17, <2>2, <3>1, <3>3, <4>1, ZenonT(30) DEF Sits
    <3> QED BY <3>2, <3>3, ZenonT(30)
  <2>3. CASE p[1] = "head" \/ p[1] = "queue"
    <3>1. p # new
      BY <2>3
    <3> QED BY <1>13, <1>17, <1>18, <2>3, <3>1, ZenonT(30) DEF Sits
  <2> QED BY <2>1, <2>2, <2>3, PlaceIs, Zenon
<1>19. ASSUME NEW p \in Place, NEW q \in Place, NEW r, NEW x, Sits(p, r)', Sits(q, x)', F[p] = F[q]
       PROVE  p = q
  <2>1. \A o \in {p, q} : o[1] = "call" /\ o[2] = t => o[3] >= 1 /\ o[3] \in Nat
    <3> SUFFICES ASSUME NEW o \in {p, q}, o[1] = "call", o[2] = t PROVE o[3] >= 1 /\ o[3] \in Nat
      BY Zenon
    <3>1. o[3] \in DOMAIN ipcLoc'[t].refs
      BY <1>19, Zenon DEF Sits
    <3>2. o[3] \in DOMAIN tl
      BY <1>15, <3>1, Zenon
    <3> QED BY <1>4, <3>2
  <2>2. p = <<p[1], p[2], p[3], p[4]>> /\ q = <<q[1], q[2], q[3], q[4]>>
    BY PlaceIs, Zenon
  <2>3. (p[1] = "call" => p[4] = 0) /\ (q[1] = "call" => q[4] = 0)
    BY PlaceIs, Zenon
  <2>4. CASE p = new
    BY <1>17, <1>19, <2>1, <2>2, <2>4
  <2>5. CASE q = new
    BY <1>17, <1>19, <2>1, <2>2, <2>5
  <2>6. CASE p # new /\ q # new
    <3>1. F[p] = IF p[1] = "call" /\ p[2] = t THEN <<"call", t, p[3] + 1, 0>> ELSE p
      BY <1>17, <2>6, Zenon
    <3>2. F[q] = IF q[1] = "call" /\ q[2] = t THEN <<"call", t, q[3] + 1, 0>> ELSE q
      BY <1>17, <2>6, Zenon
    <3>3. CASE (p[1] = "call" /\ p[2] = t) /\ (q[1] = "call" /\ q[2] = t)
      <4>1. <<"call", t, p[3] + 1, 0>> = <<"call", t, q[3] + 1, 0>>
        BY <1>19, <3>1, <3>2, <3>3, Zenon
      <4>2. p[3] + 1 = q[3] + 1
        BY <4>1, ZenonT(30)
      <4>3. p[3] = q[3]
        BY <2>1, <3>3, <4>2
      <4> QED BY <2>3, <3>3, <4>3, PlaceSame, Zenon
    <3>4. CASE ~(p[1] = "call" /\ p[2] = t) \/ ~(q[1] = "call" /\ q[2] = t)
      <4>1. CASE p[1] = "call" /\ p[2] = t
        <5>1. q = <<"call", t, p[3] + 1, 0>>
          BY <1>19, <3>1, <3>2, <3>4, <4>1, ZenonT(30)
        <5>2. q[1] = "call" /\ q[2] = t
          BY <5>1, Zenon
        <5> QED BY <3>4, <4>1, <5>2, ZenonT(30)
      <4>2. CASE q[1] = "call" /\ q[2] = t
        <5>1. p = <<"call", t, q[3] + 1, 0>>
          BY <1>19, <3>1, <3>2, <3>4, <4>2, ZenonT(30)
        <5>2. p[1] = "call" /\ p[2] = t
          BY <5>1, Zenon
        <5> QED BY <3>4, <4>2, <5>2, ZenonT(30)
      <4>3. CASE ~(p[1] = "call" /\ p[2] = t) /\ ~(q[1] = "call" /\ q[2] = t)
        BY <1>19, <3>1, <3>2, <4>3, ZenonT(30)
      <4> QED BY <4>1, <4>2, <4>3, ZenonT(30)
    <3> QED BY <3>3, <3>4, Zenon
  <2> QED BY <2>4, <2>5, <2>6, ZenonT(30)
<1>20. Owned'
  <2>1. \A p \in Place : F[p] \in Place
    BY <1>17, Zenon
  <2> QED BY <1>13, <1>18, <1>19, <2>1, MovedOwned, ZenonT(30) DEF IpcInv
<1> QED BY <1>16, <1>20, ZenonT(30) DEF IpcInv

\* One Ref moves, or an object that is no end is copied.
LEMMA OneMoved ==
    ASSUME Owned, made' = made, NEW new \in Place, NEW old \in Place,
           \A p \in Place : p # new => \A r : Sits(p, r)' => Sits(p, r),
           \A r : Sits(new, r)' => \E x : Sits(old, x) /\ x.obj = r.obj /\ (r.obj \in End => r.feat \subseteq x.feat),
           \A r : r.obj \in End => ~Sits(old, r)'
    PROVE  Owned'
<1>1. ASSUME NEW p \in Place, NEW r, Sits(p, r)', r.obj \in End
      PROVE  \E o \in Place : \E x : /\ Sits(o, x) /\ x.obj = r.obj /\ r.feat \subseteq x.feat
                                     /\ o = IF p = new THEN old ELSE p
  BY <1>1, Zenon
<1>2. ASSUME NEW p \in Place, NEW q \in Place, NEW r, NEW x,
             Sits(p, r)', Sits(q, x)', r.obj = x.obj, r.obj \in End
      PROVE  p = q
  <2>1. PICK o1 \in Place : (\E r1 : Sits(o1, r1) /\ r1.obj = r.obj) /\ o1 = IF p = new THEN old ELSE p
    BY <1>1, <1>2, ZenonT(30)
  <2>2. PICK o2 \in Place : (\E x1 : Sits(o2, x1) /\ x1.obj = x.obj) /\ o2 = IF q = new THEN old ELSE q
    BY <1>1, <1>2, ZenonT(30)
  <2>3. o1 = o2
    BY <1>2, <2>1, <2>2, ZenonT(30) DEF Owned
  <2> QED BY <1>2, <2>1, <2>2, <2>3, ZenonT(30)
<1>3. ASSUME NEW p \in Place, NEW r, Sits(p, r)', r.obj \in End
      PROVE  r.obj[1] \in made' /\ "SYNC" \notin r.feat
  <2>1. PICK o1 \in Place : \E r1 : Sits(o1, r1) /\ r1.obj = r.obj /\ r.feat \subseteq r1.feat
    BY <1>1, <1>3
  <2> QED BY <1>3, <2>1, ZenonT(30) DEF Owned
<1> QED BY <1>2, <1>3, Zenon DEF Owned

\* The Refs of a packet move together, from the places O to the places N.
LEMMA BlockMoved ==
    ASSUME Owned, made' = made, NEW N \in [Nat -> Place], NEW O \in [Nat -> Place],
           \A i, j \in Nat : O[i] = O[j] => i = j,
           \A p \in Place : (\A j \in Nat : p # N[j]) => \A r : Sits(p, r)' => Sits(p, r),
           \A j \in Nat : \A r : Sits(N[j], r)' => Sits(O[j], r),
           \A j \in Nat : \A r : ~Sits(O[j], r)'
    PROVE  Owned'
<1>1. ASSUME NEW p \in Place, NEW r, Sits(p, r)'
      PROVE  \E o \in Place : /\ Sits(o, r)
                              /\ (\E j \in Nat : p = N[j] /\ o = O[j]) \/ o = p
  <2>1. CASE \E j \in Nat : p = N[j]
    BY <1>1, <2>1
  <2>2. CASE \A j \in Nat : p # N[j]
    BY <1>1, <2>2, Zenon
  <2> QED BY <2>1, <2>2, Zenon
<1>2. ASSUME NEW p \in Place, NEW q \in Place, NEW r, NEW x,
             Sits(p, r)', Sits(q, x)', r.obj = x.obj, r.obj \in End
      PROVE  p = q
  <2>1. PICK o1 \in Place : Sits(o1, r) /\ ((\E j \in Nat : p = N[j] /\ o1 = O[j]) \/ o1 = p)
    BY <1>1, <1>2, ZenonT(30)
  <2>2. PICK o2 \in Place : Sits(o2, x) /\ ((\E j \in Nat : q = N[j] /\ o2 = O[j]) \/ o2 = q)
    BY <1>1, <1>2, ZenonT(30)
  <2>3. o1 = o2
    BY <1>2, <2>1, <2>2, Zenon DEF Owned
  <2> QED BY <1>2, <2>1, <2>2, <2>3
<1>3. ASSUME NEW p \in Place, NEW r, Sits(p, r)', r.obj \in End
      PROVE  r.obj[1] \in made' /\ "SYNC" \notin r.feat
  <2>1. PICK o \in Place : Sits(o, r)
    BY <1>1, <1>3, Zenon
  <2> QED BY <1>3, <2>1, Zenon DEF Owned
<1> QED BY <1>2, <1>3, Zenon DEF Owned

\* The Refs of the first packet of a queue move to the places N, and the other
\* packets move up.
LEMMA PopMoved ==
    ASSUME Owned, made' = made, NEW e \in End, NEW N \in [Nat -> Place],
           \A p \in Place : (\A j \in Nat : p # N[j]) /\ ~(p[1] = "queue" /\ p[2] = e) =>
               \A r : Sits(p, r)' => Sits(p, r),
           \A i, j \in Nat : \A r : Sits(<<"queue", e, i, j>>, r)' => i >= 1 /\ Sits(<<"queue", e, i + 1, j>>, r),
           \A j \in Nat : \A r : Sits(N[j], r)' => Sits(<<"queue", e, 1, j>>, r)
    PROVE  Owned'
<1> DEFINE Rel(p, o) ==
        \/ \E j \in Nat : p = N[j] /\ o = <<"queue", e, 1, j>>
        \/ \E i, j \in Nat : i >= 1 /\ p = <<"queue", e, i, j>> /\ o = <<"queue", e, i + 1, j>>
        \/ ~(p[1] = "queue" /\ p[2] = e) /\ o = p
<1>1. ASSUME NEW p \in Place, NEW r, Sits(p, r)'
      PROVE  \E o \in Place : Sits(o, r) /\ Rel(p, o)
  <2>1. CASE \E j \in Nat : p = N[j]
    <3>1. PICK j \in Nat : p = N[j]
      BY <2>1, Zenon
    <3>2. <<"queue", e, 1, j>> \in Place
      BY PlaceMade, Zenon
    <3> QED BY <1>1, <3>1, <3>2, Zenon
  <2>2. CASE p[1] = "queue" /\ p[2] = e
    <3>1. PICK i \in Nat, j \in Nat : p = <<"queue", e, i, j>>
      BY <2>2, PlaceIs, ZenonT(30)
    <3>2. i >= 1 /\ Sits(<<"queue", e, i + 1, j>>, r)
      BY <1>1, <3>1, Zenon
    <3>3. <<"queue", e, i + 1, j>> \in Place
      BY PlaceMade
    <3> QED BY <3>1, <3>2, <3>3, ZenonT(30)
  <2>3. CASE (\A j \in Nat : p # N[j]) /\ ~(p[1] = "queue" /\ p[2] = e)
    BY <1>1, <2>3, Zenon
  <2> QED BY <2>1, <2>2, <2>3, Zenon
<1>2. ASSUME NEW p \in Place, NEW q \in Place, NEW o \in Place, Rel(p, o), Rel(q, o)
      PROVE  p = q
  <2>1. ASSUME NEW j \in Nat, p = N[j], o = <<"queue", e, 1, j>> PROVE p = q
    BY <1>2, <2>1
  <2>2. ASSUME NEW i \in Nat, NEW j \in Nat, i >= 1, p = <<"queue", e, i, j>>, o = <<"queue", e, i + 1, j>>
        PROVE  p = q
    BY <1>2, <2>2
  <2>3. ASSUME ~(p[1] = "queue" /\ p[2] = e), o = p PROVE p = q
    BY <1>2, <2>3
  <2> QED BY <1>2, <2>1, <2>2, <2>3, Zenon
<1> HIDE DEF Rel
<1>3. ASSUME NEW p \in Place, NEW q \in Place, NEW r, NEW x,
             Sits(p, r)', Sits(q, x)', r.obj = x.obj, r.obj \in End
      PROVE  p = q
  <2>1. PICK o1 \in Place : Sits(o1, r) /\ Rel(p, o1)
    BY <1>1, <1>3, ZenonT(30)
  <2>2. PICK o2 \in Place : Sits(o2, x) /\ Rel(q, o2)
    BY <1>1, <1>3, ZenonT(30)
  <2>3. o1 = o2
    BY <1>3, <2>1, <2>2, ZenonT(30) DEF Owned
  <2> QED BY <1>2, <2>1, <2>2, <2>3, Zenon
<1>4. ASSUME NEW p \in Place, NEW r, Sits(p, r)', r.obj \in End
      PROVE  r.obj[1] \in made' /\ "SYNC" \notin r.feat
  <2>1. PICK o \in Place : Sits(o, r)
    BY <1>1, <1>4, ZenonT(30)
  <2> QED BY <1>4, <2>1, ZenonT(30) DEF Owned
<1> QED BY <1>3, <1>4, Zenon DEF Owned

\* A call takes the Ref of a handle: a clone of an object that is no end, or the
\* Ref itself with no more features than it had.
LEMMA TakeOne ==
    ASSUME IpcInv, NEW t \in IpcTask, NEW s \in Space, NEW k \in DOMAIN list[s], NEW x \in Ref,
           ipcLoc' = [ipcLoc EXCEPT ![t].refs = <<x>>],
           x.obj = list[s][k].obj, x.feat \subseteq list[s][k].feat,
           (list' = list /\ x.obj \notin End) \/ RemoveRef(s, k),
           UNCHANGED <<made, nextId, msgs, head, sent>>
    PROVE  IpcInv'
<1>1. PICK loc0 \in IpcLocal : loc0 = ipcLoc[t]
  BY SameIs, Zenon
<1>2. PICK one \in Seq(Ref) : one = <<x>> /\ DOMAIN one = {1} /\ one[1] = x
  <2>1. <<x>> \in Seq(Ref) /\ DOMAIN <<x>> = 1..1 /\ <<x>>[1] = x
    OBVIOUS
  <2>2. 1..1 = {1}
    OBVIOUS
  <2> QED BY <2>1, <2>2, Zenon
<1>3. [loc0 EXCEPT !.refs = one] \in IpcLocal /\ [loc0 EXCEPT !.refs = one].refs = one
  BY Zenon DEF IpcLocal
<1>4. ipcLoc' = [ipcLoc EXCEPT ![t] = [loc0 EXCEPT !.refs = one]]
  BY <1>1, <1>2, ZenonT(30)
<1>5. ipcLoc' \in [IpcTask -> IpcLocal] /\ \A u \in IpcTask : ipcLoc'[u].refs = IF u = t THEN one ELSE ipcLoc[u].refs
  BY <1>3, <1>4, SameIs, ZenonT(30)
<1>6. /\ list' \in [Space -> Tables]
      /\ \A u \in Space : \A j \in DOMAIN list'[u] : j \in DOMAIN list[u] /\ list'[u][j] = list[u][j]
      /\ x.obj \in End => \A j \in DOMAIN list'[s] : j # k
  <2>1. CASE list' = list /\ x.obj \notin End
    BY <2>1, SameIs, ZenonT(30)
  <2>2. CASE RemoveRef(s, k)
    BY <2>2, RemoveIs DEF IpcInv
  <2> QED BY <2>1, <2>2, ZenonT(30)
<1>7. IpcTypes'
  BY <1>5, <1>6, SameIs, Zenon DEF IpcInv, IpcTypes
<1>8. k \in Nat
  BY SameIs, TableIs, Zenon
<1>9. PICK new \in Place : new = <<"call", t, 1, 0>>
  BY PlaceMade, Zenon
<1>10. PICK old \in Place : old = <<"list", s, k, 0>>
  BY <1>8, PlaceMade, Zenon
<1>11. ASSUME NEW p \in Place, p # new, NEW r, Sits(p, r)' PROVE Sits(p, r)
  <2>1. CASE p[1] = "list"
    <3>1. p[2] \in Space
      BY <2>1, PlaceIs, Zenon
    <3> QED BY <1>6, <1>11, <2>1, <3>1, Zenon DEF Sits
  <2>2. CASE p[1] = "call"
    <3>1. p[2] \in IpcTask /\ p[3] \in DOMAIN ipcLoc'[p[2]].refs /\ r = ipcLoc'[p[2]].refs[p[3]]
      BY <1>11, <2>2, PlaceIs, ZenonT(30) DEF Sits
    <3>2. p[2] # t
      <4>1. ASSUME p[2] = t PROVE FALSE
        <5>1. p[3] = 1
          BY <1>2, <1>5, <3>1, <4>1, ZenonT(30)
        <5>2. new[1] = "call" /\ new[2] = t /\ new[3] = 1 /\ new[4] = 0 /\ p[4] = 0
          BY <1>9, <2>2, PlaceIs, ZenonT(30)
        <5> QED BY <1>11, <2>2, <4>1, <5>1, <5>2, PlaceSame, ZenonT(30)
      <4> QED BY <4>1, Zenon
    <3> QED BY <1>5, <2>2, <3>1, <3>2, Zenon DEF Sits
  <2>3. CASE p[1] = "head" \/ p[1] = "queue"
    BY <1>11, <2>3, ZenonT(30) DEF Sits
  <2> QED BY <2>1, <2>2, <2>3, PlaceIs, Zenon
<1>12. Sits(old, list[s][k])
  BY <1>10, Zenon DEF Sits
<1>13. ASSUME NEW r, Sits(new, r)' PROVE r = x
  <2>1. 1 \in DOMAIN ipcLoc'[t].refs /\ r = ipcLoc'[t].refs[1]
    BY <1>9, <1>13, ZenonT(30) DEF Sits
  <2> QED BY <1>2, <1>5, <2>1, ZenonT(30)
<1>14. ASSUME NEW r, r.obj \in End, Sits(old, r)' PROVE FALSE
  <2>1. k \in DOMAIN list'[s] /\ r = list'[s][k]
    BY <1>10, <1>14, ZenonT(30) DEF Sits
  <2> QED BY <1>6, <1>14, <2>1, ZenonT(30)
<1>15. Owned'
  BY <1>11, <1>12, <1>13, <1>14, OneMoved, ZenonT(30) DEF IpcInv
<1> QED BY <1>7, <1>15, ZenonT(30) DEF IpcInv

\* A key that the map has.
LEMMA GetIs ==
    ASSUME IpcInv, NEW s \in Space, NEW k, HandleMapGet(s, k) # NoRef
    PROVE  k \in DOMAIN list[s] /\ HandleMapGet(s, k) = list[s][k] /\ list[s][k] \in Ref
<1>1. k \in DOMAIN list[s] /\ HandleMapGet(s, k) = list[s][k]
  BY Zenon DEF HandleMapGet
<1>2. list[s] \in Tables
  BY SameIs, Zenon
<1> QED BY <1>1, <1>2, TableIs, Zenon

\* obj_clone: the features of an end do not allow it.
LEMMA ObjCloneIpc ==
    ASSUME IpcInv, NEW t \in IpcTask, NEW k, ObjClone(t, k)
    PROVE  IpcInv'
<1>1. PICK s \in Space : s = Home[t]
  BY SameIs, Zenon
<1>2. PICK x \in Ref : x = HandleMapGet(s, k) /\ k \in DOMAIN list[s] /\ x = list[s][k]
  BY <1>1, GetIs, Zenon DEF ObjClone
<1>3. /\ ipcLoc' = [ipcLoc EXCEPT ![t].refs = <<x>>] /\ "SYNC" \in x.feat
      /\ UNCHANGED <<list, made, nextId, msgs, head, sent>>
  BY <1>1, <1>2, ZenonT(30) DEF ObjClone, tabVars, chanVars
<1>4. x.obj \notin End
  <2>1. k \in Nat
    BY <1>2, SameIs, TableIs, ZenonT(30)
  <2>2. <<"list", s, k, 0>> \in Place /\ Sits(<<"list", s, k, 0>>, x)
    BY <1>2, <2>1, PlaceMade, ZenonT(30) DEF Sits
  <2> QED BY <1>3, <2>2, Zenon DEF IpcInv, Owned
<1> QED BY <1>2, <1>3, <1>4, TakeOne, ZenonT(30)

\* obj_feat: the Ref comes out of the map, with no more features than before.
LEMMA ObjFeatIpc ==
    ASSUME IpcInv, NEW t \in IpcTask, NEW k, NEW feat \in Feats, ObjFeat(t, k, feat)
    PROVE  IpcInv'
<1>1. PICK s \in Space : s = Home[t]
  BY SameIs, Zenon
<1>2. PICK r \in Ref : r = HandleMapGet(s, k) /\ k \in DOMAIN list[s] /\ r = list[s][k]
  BY <1>1, GetIs, ZenonT(30) DEF ObjFeat
<1>3. PICK x \in Ref : x = (IF feat \subseteq r.feat THEN [r EXCEPT !.feat = feat] ELSE r)
                       /\ x.obj = r.obj /\ x.feat \subseteq r.feat
  <2>1. CASE feat \subseteq r.feat
    <3>1. [r EXCEPT !.feat = feat] \in Ref /\ [r EXCEPT !.feat = feat].obj = r.obj
          /\ [r EXCEPT !.feat = feat].feat = feat
      BY <1>2, IpcAssumption, Zenon DEF Ref, InitialHandles
    <3> QED BY <2>1, <3>1, ZenonT(30)
  <2>2. CASE ~(feat \subseteq r.feat)
    BY <1>2, <2>2, Zenon
  <2> QED BY <2>1, <2>2, ZenonT(30)
<1>4. /\ ipcLoc' = [ipcLoc EXCEPT ![t].refs = <<x>>] /\ RemoveRef(s, k)
      /\ UNCHANGED <<made, nextId, msgs, head, sent>>
  BY <1>1, <1>2, <1>3, ZenonT(30) DEF ObjFeat, chanVars
<1> QED BY <1>2, <1>3, <1>4, TakeOne, ZenonT(30)

\* HandleMap::split: the handle leaves the map and its Ref joins the packet.
LEMMA SplitIpc ==
    ASSUME IpcInv, NEW t \in IpcTask, Split(t)
    PROVE  IpcInv'
<1>1. PICK s \in Space : s = Home[t]
  BY SameIs, Zenon
<1>2. PICK loc0 \in IpcLocal : loc0 = ipcLoc[t]
  BY SameIs, Zenon
<1>3. PICK refs \in Seq(Ref), todo \in Seq(Nat) : refs = loc0.refs /\ todo = loc0.todo /\ todo # <<>>
  BY <1>2, Zenon DEF IpcLocal, Split
<1>4. PICK k : k = Head(todo)
  BY Zenon
<1>5. UNCHANGED <<made, nextId, msgs, head, sent>>
  BY Zenon DEF Split, chanVars
<1>6. CASE ~Sendable(HandleMapGet(s, k), loc0.end)
  <2>1. ipcLoc' = [ipcLoc EXCEPT ![t] = [loc0 EXCEPT !.next = "release"]] /\ list' = list
    BY <1>1, <1>2, <1>3, <1>4, <1>6, ZenonT(30) DEF Split
  <2>2. [loc0 EXCEPT !.next = "release"] \in IpcLocal /\ [loc0 EXCEPT !.next = "release"].refs = loc0.refs
    BY Zenon DEF IpcLocal
  <2>3. /\ ipcLoc' \in [IpcTask -> IpcLocal]
        /\ \A u \in IpcTask : ipcLoc'[u].refs \in {ipcLoc[u].refs, <<>>}
    BY <1>2, <2>1, <2>2, SameIs, ZenonT(30)
  <2>4. msgs' \in [End -> Seq(Packet)] /\ head' \in [End -> Packet \cup {NoRef}]
    BY <1>5, SameIs, ZenonT(30)
  <2> QED BY <1>5, <2>1, <2>3, <2>4, ReleaseInv, ZenonT(30)
<1>7. CASE Sendable(HandleMapGet(s, k), loc0.end)
  <2>1. PICK x \in Ref : x = HandleMapGet(s, k) /\ k \in DOMAIN list[s] /\ x = list[s][k]
    BY <1>7, GetIs, ZenonT(30) DEF Sendable
  <2>2. PICK more \in Seq(Ref) : more = Append(refs, x)
    BY <1>3, <2>1, AppendProperties, ZenonT(30)
  <2>3. PICK n \in Nat : n = Len(refs) /\ DOMAIN refs = 1..n
    OBVIOUS
  <2>4. DOMAIN more = 1..(n + 1) /\ more[n + 1] = x /\ \A i \in 1..n : more[i] = refs[i]
    BY <2>2, <2>3
  <2>5. PICK tl \in Seq(Nat) : tl = Tail(todo)
    BY <1>3, HeadTailProperties, ZenonT(30)
  <2>6. RemoveRef(s, k) /\ ipcLoc' = [ipcLoc EXCEPT ![t] = [loc0 EXCEPT !.todo = tl, !.refs = more]]
    <3>1. RemoveRef(s, k) /\ ipcLoc' = [ipcLoc EXCEPT ![t].todo = Tail(@), ![t].refs = Append(@, x)]
      BY <1>1, <1>2, <1>3, <1>4, <1>7, <2>1, ZenonT(30) DEF Split
    <3> QED BY <1>2, <1>3, <2>2, <2>5, <3>1, SameIs, ZenonT(30) DEF IpcLocal
  <2>7. [loc0 EXCEPT !.todo = tl, !.refs = more] \in IpcLocal /\ [loc0 EXCEPT !.todo = tl, !.refs = more].refs = more
    BY Zenon DEF IpcLocal
  <2>8. ipcLoc' \in [IpcTask -> IpcLocal] /\ \A u \in IpcTask : ipcLoc'[u].refs = IF u = t THEN more ELSE ipcLoc[u].refs
    BY <2>6, <2>7, SameIs, ZenonT(30)
  <2>9. /\ list' \in [Space -> Tables]
        /\ \A u \in Space : \A j \in DOMAIN list'[u] :
             j \in DOMAIN list[u] /\ list'[u][j] = list[u][j] /\ ~(u = s /\ j = k)
    BY <2>6, RemoveIs DEF IpcInv
  <2>10. IpcTypes'
    BY <1>5, <2>8, <2>9, SameIs, Zenon DEF IpcInv, IpcTypes
  <2>11. k \in Nat
    BY <2>1, SameIs, TableIs, Zenon
  <2>12. PICK new \in Place : new = <<"call", t, n + 1, 0>>
    <3>1. n + 1 \in Nat
      BY <2>3
    <3> QED BY <3>1, PlaceMade, Zenon
  <2>13. PICK old \in Place : old = <<"list", s, k, 0>>
    BY <2>11, PlaceMade, Zenon
  <2>14. ASSUME NEW p \in Place, p # new, NEW r, Sits(p, r)' PROVE Sits(p, r)
    <3>1. CASE p[1] = "list"
      <4>1. p[2] \in Space
        BY <3>1, PlaceIs, Zenon
      <4> QED BY <2>9, <2>14, <3>1, <4>1, ZenonT(30) DEF Sits
    <3>2. CASE p[1] = "call"
      <4>1. p[2] \in IpcTask /\ p[3] \in DOMAIN ipcLoc'[p[2]].refs /\ r = ipcLoc'[p[2]].refs[p[3]]
        BY <2>14, <3>2, PlaceIs, Zenon DEF Sits
      <4>2. CASE p[2] = t
        <5>1. p[3] \in 1..(n + 1) /\ r = more[p[3]]
          BY <2>4, <2>8, <4>1, <4>2, ZenonT(30)
        <5>2. p[3] # n + 1
          <6>1. new[1] = "call" /\ new[2] = t /\ new[3] = n + 1 /\ new[4] = 0 /\ p[4] = 0
            BY <2>12, <3>2, PlaceIs, ZenonT(30)
          <6> QED BY <2>14, <3>2, <4>2, <6>1, PlaceSame, ZenonT(30)
        <5>3. p[3] \in 1..n /\ r = refs[p[3]]
          <6>1. p[3] \in 1..n
            BY <2>3, <5>1, <5>2, SMTT(20)
          <6> QED BY <2>4, <5>1, <6>1, ZenonT(30)
        <5> QED BY <1>2, <1>3, <2>3, <3>2, <4>2, <5>3, ZenonT(30) DEF Sits
      <4>3. CASE p[2] # t
        BY <2>8, <3>2, <4>1, <4>3, ZenonT(30) DEF Sits
      <4> QED BY <4>2, <4>3, Zenon
    <3>3. CASE p[1] = "head" \/ p[1] = "queue"
      BY <1>5, <2>14, <3>3, ZenonT(30) DEF Sits
    <3> QED BY <3>1, <3>2, <3>3, PlaceIs, Zenon
  <2>15. Sits(old, x)
    BY <2>1, <2>13, ZenonT(30) DEF Sits
  <2>16. ASSUME NEW r, Sits(new, r)' PROVE r = x
    <3>1. n + 1 \in DOMAIN ipcLoc'[t].refs /\ r = ipcLoc'[t].refs[n + 1]
      BY <2>12, <2>16, ZenonT(30) DEF Sits
    <3> QED BY <2>4, <2>8, <3>1, ZenonT(30)
  <2>17. ASSUME NEW r, Sits(old, r)' PROVE FALSE
    <3>1. k \in DOMAIN list'[s]
      BY <2>13, <2>17, ZenonT(30) DEF Sits
    <3> QED BY <2>9, <3>1, ZenonT(30)
  <2>18. Owned'
    BY <1>5, <2>14, <2>15, <2>16, <2>17, OneMoved, ZenonT(30) DEF IpcInv
  <2> QED BY <2>10, <2>18, ZenonT(30) DEF IpcInv
<1> QED BY <1>6, <1>7, ZenonT(30)

-----------------------------------------------------------------------------
\* Channel::send: the Refs go from the locals of the call to a new packet at the
\* end of the queue.
LEMMA PushIpc ==
    ASSUME IpcInv, NEW t \in IpcTask, Push(t)
    PROVE  IpcInv'
<1>1. PICK e : e = Peer(ipcLoc[t].end)
  BY Zenon
<1>2. PICK loc0 \in IpcLocal : loc0 = ipcLoc[t]
  BY SameIs, Zenon
<1>3. PICK refs \in Seq(Ref) : refs = loc0.refs
  BY <1>2, Zenon DEF IpcLocal
<1>4. PICK none \in Seq(Ref) : none = <<>> /\ DOMAIN none = {}
  <2>1. <<>> \in Seq(Ref) /\ DOMAIN <<>> = {}
    OBVIOUS
  <2> QED BY <2>1, Zenon
<1>5. [loc0 EXCEPT !.refs = none] \in IpcLocal /\ [loc0 EXCEPT !.refs = none].refs = none
  BY <1>2, <1>4, ZenonT(30) DEF IpcLocal
<1>6. ipcLoc' = [ipcLoc EXCEPT ![t] = [loc0 EXCEPT !.refs = none]]
  BY <1>2, <1>4, ZenonT(30) DEF Push
<1>7. ipcLoc' \in [IpcTask -> IpcLocal] /\ \A u \in IpcTask : ipcLoc'[u].refs = IF u = t THEN none ELSE ipcLoc[u].refs
  BY <1>5, <1>6, SameIs, ZenonT(30)
<1>8. UNCHANGED <<list, nextId, head, made>>
  BY Zenon DEF Push, tabVars
<1>9. PICK pk : pk = [id |-> sent[e] + 1, objs |-> refs]
  BY Zenon
<1>10. /\ msgs' = [msgs EXCEPT ![e] = Append(msgs[e], pk)]
       /\ sent' = [sent EXCEPT ![e] = sent[e] + 1]
  BY <1>1, <1>2, <1>3, <1>9, ZenonT(30) DEF Push
<1>11. CASE e \notin End
  <2>1. msgs' = msgs /\ sent' = sent
    BY <1>10, <1>11, SameIs, ZenonT(30)
  <2>2. msgs' \in [End -> Seq(Packet)] /\ head' \in [End -> Packet \cup {NoRef}] /\ Home[t] \in Space
    BY <1>8, <2>1, SameIs, ZenonT(30)
  <2>3. \A u \in IpcTask : ipcLoc'[u].refs \in {ipcLoc[u].refs, <<>>}
    BY <1>4, <1>7, ZenonT(30)
  <2> QED BY <1>7, <1>8, <2>1, <2>2, <2>3, ReleaseInv, ZenonT(30)
<1>12. CASE e \in End
  <2>1. sent[e] + 1 \in Nat /\ pk \in Packet /\ pk.objs = refs
    <3>1. sent[e] + 1 \in Nat
      BY <1>12, SameIs
    <3> QED BY <1>3, <1>9, <3>1, ZenonT(30) DEF Packet
  <2>2. PICK q \in Seq(Packet) : q = msgs[e]
    BY <1>12, SameIs, Zenon
  <2>3. PICK n \in Nat : n = Len(q) /\ DOMAIN q = 1..n
    BY <2>2
  <2>4. PICK w \in Seq(Packet) : w = Append(q, pk)
    BY <2>1, <2>2, AppendProperties, Zenon
  <2>5. DOMAIN w = 1..(n + 1) /\ w[n + 1] = pk /\ \A i \in 1..n : w[i] = q[i]
    BY <2>2, <2>3, <2>4, <2>1, AppendProperties
  <2>6. msgs' \in [End -> Seq(Packet)] /\ \A u \in End : msgs'[u] = IF u = e THEN w ELSE msgs[u]
    BY <1>10, <2>2, <2>4, SameIs, Zenon
  <2>7. sent' \in [End -> Nat]
    BY <1>10, <2>1, SameIs, Zenon
  <2>8. IpcTypes'
    BY <1>7, <1>8, <2>6, <2>7, ZenonT(30) DEF IpcInv, IpcTypes
  <2>9. \A j \in Nat : <<"queue", e, n + 1, j>> \in Place /\ <<"call", t, j, 0>> \in Place
    <3>1. n + 1 \in Nat
      BY <2>3
    <3> QED BY <1>12, <3>1, PlaceMade, ZenonT(30)
  <2>10. PICK N \in [Nat -> Place] : N = [j \in Nat |-> <<"queue", e, n + 1, j>>]
    BY <2>9, Zenon
  <2>11. PICK O \in [Nat -> Place] : O = [j \in Nat |-> <<"call", t, j, 0>>]
    BY <2>9, Zenon
  <2>12. ASSUME NEW i \in Nat, NEW j \in Nat, O[i] = O[j] PROVE i = j
    BY <2>11, <2>12, ZenonT(30)
  <2>13. ASSUME NEW p \in Place, \A j \in Nat : p # N[j], NEW r, Sits(p, r)' PROVE Sits(p, r)
    <3>1. CASE p[1] = "list" \/ p[1] = "head"
      BY <1>8, <2>13, <3>1, ZenonT(30) DEF Sits
    <3>2. CASE p[1] = "call"
      <4>1. p[2] \in IpcTask /\ p[3] \in DOMAIN ipcLoc'[p[2]].refs /\ r = ipcLoc'[p[2]].refs[p[3]]
        BY <2>13, <3>2, PlaceIs, ZenonT(30) DEF Sits
      <4>2. p[2] # t
        BY <1>4, <1>7, <4>1, ZenonT(30)
      <4> QED BY <1>7, <3>2, <4>1, <4>2, ZenonT(30) DEF Sits
    <3>3. CASE p[1] = "queue"
      <4>1. /\ p[2] \in End /\ p[3] \in Nat /\ p[4] \in Nat
            /\ p[3] \in DOMAIN msgs'[p[2]] /\ p[4] \in DOMAIN msgs'[p[2]][p[3]].objs
            /\ r = msgs'[p[2]][p[3]].objs[p[4]]
        BY <2>13, <3>3, PlaceIs, ZenonT(30) DEF Sits
      <4>2. CASE p[2] # e
        BY <2>6, <3>3, <4>1, <4>2, ZenonT(30) DEF Sits
      <4>3. CASE p[2] = e
        <5>1. p[3] \in 1..(n + 1) /\ p[4] \in DOMAIN w[p[3]].objs /\ r = w[p[3]].objs[p[4]]
          BY <2>5, <2>6, <4>1, <4>3, ZenonT(30)
        <5>2. p[3] # n + 1
          <6>1. ASSUME p[3] = n + 1 PROVE FALSE
            <7>1. p = <<"queue", e, n + 1, p[4]>>
              BY <3>3, <4>3, <6>1, PlaceIs, ZenonT(30)
            <7>2. N[p[4]] = <<"queue", e, n + 1, p[4]>>
              BY <2>10, <4>1, ZenonT(30)
            <7> QED BY <2>13, <4>1, <7>1, <7>2, ZenonT(30)
          <6> QED BY <6>1, ZenonT(30)
        <5>3. p[3] \in 1..n
          BY <2>3, <5>1, <5>2, SMTT(20)
        <5> QED BY <2>2, <2>3, <2>5, <3>3, <4>3, <5>1, <5>3, ZenonT(30) DEF Sits
      <4> QED BY <4>2, <4>3, ZenonT(30)
    <3> QED BY <3>1, <3>2, <3>3, PlaceIs, ZenonT(30)
  <2>14. ASSUME NEW j \in Nat, NEW r, Sits(N[j], r)' PROVE Sits(O[j], r)
    <3>1. N[j] = <<"queue", e, n + 1, j>> /\ O[j] = <<"call", t, j, 0>>
      BY <2>10, <2>11, Zenon
    <3>2. j \in DOMAIN msgs'[e][n + 1].objs /\ r = msgs'[e][n + 1].objs[j]
      BY <2>14, <3>1 DEF Sits
    <3>3. j \in DOMAIN refs /\ r = refs[j]
      BY <1>12, <2>1, <2>5, <2>6, <3>2, Zenon
    <3> QED BY <1>2, <1>3, <3>1, <3>3 DEF Sits
  <2>15. ASSUME NEW j \in Nat, NEW r, Sits(O[j], r)' PROVE FALSE
    <3>1. O[j] = <<"call", t, j, 0>>
      BY <2>11, Zenon
    <3>2. j \in DOMAIN ipcLoc'[t].refs
      BY <2>15, <3>1, SMTT(40) DEF Sits
    <3> QED BY <1>4, <1>7, <3>2, Zenon
  <2>16. Owned'
    BY <1>8, <2>10, <2>11, <2>12, <2>13, <2>14, <2>15, BlockMoved, Zenon DEF IpcInv
  <2> QED BY <2>8, <2>16, ZenonT(30) DEF IpcInv
<1> QED BY <1>11, <1>12, Zenon

\* The locals of the call of t become objs.
CallHas(t, objs) ==
    /\ ipcLoc' \in [IpcTask -> IpcLocal]
    /\ \A u \in IpcTask : ipcLoc'[u].refs = IF u = t THEN objs ELSE ipcLoc[u].refs
\* Away from the places N the calls have what they had; at N there is objs.
OtherCalls(N) ==
    \A p \in Place : (p[1] = "call" /\ \A j \in Nat : p # N[j]) => \A r : Sits(p, r)' => Sits(p, r)
BlockAt(N, objs) ==
    \A j \in Nat : \A r : Sits(N[j], r)' => j \in DOMAIN objs /\ r = objs[j]

\* The locals of a call that has received a packet.
LEMMA CallTakes ==
    ASSUME IpcInv, NEW t \in IpcTask, NEW objs \in Seq(Ref), NEW e \in End,
           ipcLoc' = [ipcLoc EXCEPT ![t] = [NoLoc EXCEPT !.refs = objs, !.end = e, !.next = "clear"]]
    PROVE  CallHas(t, objs)
<1>1. PICK l : l = [NoLoc EXCEPT !.refs = objs, !.end = e, !.next = "clear"]
  BY Zenon
<1>2. l \in IpcLocal /\ l.refs = objs
  BY <1>1, NoLocIs, ZenonT(30) DEF IpcLocal, Object
<1> QED BY <1>1, <1>2, SameIs, ZenonT(30) DEF CallHas

\* And their places.
LEMMA CallPlaces ==
    ASSUME NEW t \in IpcTask, NEW objs, CallHas(t, objs),
           NEW N \in [Nat -> Place], N = [j \in Nat |-> <<"call", t, j, 0>>]
    PROVE  OtherCalls(N) /\ BlockAt(N, objs)
<1>1. ASSUME NEW p \in Place, p[1] = "call", \A j \in Nat : p # N[j], NEW r, Sits(p, r)' PROVE Sits(p, r)
  <2>1. /\ p[2] \in IpcTask /\ p[3] \in Nat /\ p = <<"call", p[2], p[3], 0>>
        /\ p[3] \in DOMAIN ipcLoc'[p[2]].refs /\ r = ipcLoc'[p[2]].refs[p[3]]
    BY <1>1, PlaceIs, ZenonT(30) DEF Sits
  <2>2. N[p[3]] = <<"call", t, p[3], 0>>
    BY <2>1, Zenon
  <2>3. p[2] # t
    BY <1>1, <2>1, <2>2, ZenonT(30)
  <2>4. ipcLoc'[p[2]].refs = ipcLoc[p[2]].refs
    BY <2>1, <2>3, ZenonT(30) DEF CallHas
  <2> QED BY <1>1, <2>1, <2>4, ZenonT(30) DEF Sits
<1>2. ASSUME NEW j \in Nat, NEW r, Sits(N[j], r)' PROVE j \in DOMAIN objs /\ r = objs[j]
  <2>1. N[j] = <<"call", t, j, 0>>
    BY Zenon
  <2>2. j \in DOMAIN ipcLoc'[t].refs /\ r = ipcLoc'[t].refs[j]
    BY <1>2, <2>1, ZenonT(30) DEF Sits
  <2> QED BY <2>2, ZenonT(30) DEF CallHas
<1> QED BY <1>1, <1>2, ZenonT(30) DEF OtherCalls, BlockAt

\* A receive that finds a packet that was put back.
LEMMA RecvHead ==
    ASSUME IpcInv, NEW t \in IpcTask, NEW e \in End, head[e] # NoRef,
           head' = [head EXCEPT ![e] = NoRef], NEW objs \in Seq(Ref), objs = head[e].objs,
           CallHas(t, objs), UNCHANGED <<list, nextId, msgs, sent, made>>
    PROVE  IpcInv'
<1>1. \A j \in Nat : <<"call", t, j, 0>> \in Place /\ <<"head", e, 0, j>> \in Place
  BY PlaceMade, Zenon
<1>2. PICK N \in [Nat -> Place] : N = [j \in Nat |-> <<"call", t, j, 0>>]
  BY <1>1, Zenon
<1>3. ipcLoc' \in [IpcTask -> IpcLocal]
  BY Zenon DEF CallHas
<1>4. OtherCalls(N) /\ BlockAt(N, objs)
  BY <1>2, CallPlaces, ZenonT(30)
<1>5. head' \in [End -> Packet \cup {NoRef}] /\ \A u \in End : head'[u] = IF u = e THEN NoRef ELSE head[u]
  BY SameIs, Zenon
<1>6. IpcTypes'
  BY <1>3, <1>5, Zenon DEF IpcInv, IpcTypes
<1>8. PICK O \in [Nat -> Place] : O = [j \in Nat |-> <<"head", e, 0, j>>]
  BY <1>1, Zenon
<1>9. ASSUME NEW i \in Nat, NEW j \in Nat, O[i] = O[j] PROVE i = j
  BY <1>8, <1>9, ZenonT(30)
<1>10. ASSUME NEW p \in Place, \A j \in Nat : p # N[j], NEW r, Sits(p, r)' PROVE Sits(p, r)
  <2>1. CASE p[1] = "list" \/ p[1] = "queue"
    BY <1>10, <2>1, ZenonT(30) DEF Sits
  <2>2. CASE p[1] = "call"
    BY <1>4, <1>10, <2>2, ZenonT(30) DEF OtherCalls
  <2>3. CASE p[1] = "head"
    <3>1. p[2] \in End /\ head'[p[2]] # NoRef
      BY <1>10, <2>3, PlaceIs, ZenonT(30) DEF Sits
    <3>2. head'[p[2]] = head[p[2]]
      BY <1>5, <3>1, ZenonT(30)
    <3> QED BY <1>10, <2>3, <3>2, ZenonT(30) DEF Sits
  <2> QED BY <2>1, <2>2, <2>3, PlaceIs, ZenonT(30)
<1>11. ASSUME NEW j \in Nat, NEW r, Sits(N[j], r)' PROVE Sits(O[j], r)
  <2>1. O[j] = <<"head", e, 0, j>>
    BY <1>8, Zenon
  <2>2. j \in DOMAIN objs /\ r = objs[j]
    BY <1>4, <1>11, ZenonT(30) DEF BlockAt
  <2> QED BY <2>1, <2>2 DEF Sits
<1>12. ASSUME NEW j \in Nat, NEW r, Sits(O[j], r)' PROVE FALSE
  <2>1. O[j] = <<"head", e, 0, j>>
    BY <1>8, Zenon
  <2>2. head'[e] # NoRef
    BY <1>12, <2>1 DEF Sits
  <2> QED BY <1>5, <2>2, ZenonT(30)
<1>13. Owned'
  BY <1>9, <1>10, <1>11, <1>12, BlockMoved, ZenonT(30) DEF IpcInv
<1> QED BY <1>6, <1>13, ZenonT(30) DEF IpcInv

\* What is left of a queue behind its first packet.
LEMMA PacketTail ==
    ASSUME NEW q \in Seq(Packet), q # <<>>
    PROVE  \E tl \in Seq(Packet) :
             /\ tl = Tail(q) /\ DOMAIN tl = 1..Len(tl) /\ Len(tl) \in Nat
             /\ \A i \in 1..Len(tl) : i + 1 \in DOMAIN q /\ tl[i] = q[i + 1]
BY TailIs, Zenon

\* The packet that a receive takes from a queue: the others move up.
LEMMA QueueUp ==
    ASSUME IpcInv, NEW e \in End, msgs[e] # <<>>, msgs' = [msgs EXCEPT ![e] = Tail(@)]
    PROVE  /\ msgs' \in [End -> Seq(Packet)]
           /\ Head(msgs[e]) \in Packet /\ 1 \in DOMAIN msgs[e] /\ msgs[e][1] = Head(msgs[e])
           /\ \A p \in Place : p[1] = "queue" /\ p[2] # e => \A r : Sits(p, r)' => Sits(p, r)
           /\ \A i, j \in Nat : \A r : Sits(<<"queue", e, i, j>>, r)' => i >= 1 /\ Sits(<<"queue", e, i + 1, j>>, r)
<1>1. PICK q \in Seq(Packet) : q = msgs[e] /\ q # <<>>
  BY SameIs, Zenon
<1>2. PICK tl \in Seq(Packet) :
        /\ tl = Tail(q) /\ DOMAIN tl = 1..Len(tl) /\ Len(tl) \in Nat
        /\ \A i \in 1..Len(tl) : i + 1 \in DOMAIN q /\ tl[i] = q[i + 1]
  BY <1>1, PacketTail, ZenonT(30)
<1>3. msgs' \in [End -> Seq(Packet)] /\ \A u \in End : msgs'[u] = IF u = e THEN tl ELSE msgs[u]
  BY <1>1, <1>2, SameIs, ZenonT(30)
<1>4. Head(q) \in Packet /\ 1 \in DOMAIN q /\ q[1] = Head(q)
  BY <1>1, HeadTailProperties, SMTT(20)
<1>5. ASSUME NEW p \in Place, p[1] = "queue", p[2] # e, NEW r, Sits(p, r)' PROVE Sits(p, r)
  <2>1. p[2] \in End
    BY <1>5, PlaceIs, Zenon
  <2>2. msgs'[p[2]] = msgs[p[2]]
    BY <1>3, <1>5, <2>1, Zenon
  <2> QED BY <1>5, <2>2, Zenon DEF Sits
<1>6. ASSUME NEW i \in Nat, NEW j \in Nat, NEW r, Sits(<<"queue", e, i, j>>, r)'
      PROVE  i >= 1 /\ Sits(<<"queue", e, i + 1, j>>, r)
  <2>1. i \in DOMAIN msgs'[e] /\ j \in DOMAIN msgs'[e][i].objs /\ r = msgs'[e][i].objs[j]
    BY <1>6, Zenon DEF Sits
  <2>2. i \in 1..Len(tl) /\ j \in DOMAIN tl[i].objs /\ r = tl[i].objs[j]
    BY <1>2, <1>3, <2>1, Zenon
  <2>3. i + 1 \in DOMAIN q /\ tl[i] = q[i + 1] /\ i >= 1
    BY <1>2, <2>2, SMTT(40)
  <2> QED BY <1>1, <2>2, <2>3, Zenon DEF Sits
<1> QED BY <1>1, <1>3, <1>4, <1>5, <1>6, ZenonT(30)

\* A receive that takes the first packet of the queue into its locals.
LEMMA RecvQueue ==
    ASSUME IpcInv, NEW t \in IpcTask, NEW e \in End, msgs[e] # <<>>,
           msgs' = [msgs EXCEPT ![e] = Tail(@)], CallHas(t, Head(msgs[e]).objs),
           UNCHANGED <<list, nextId, head, sent, made>>
    PROVE  IpcInv'
<1>1. /\ msgs' \in [End -> Seq(Packet)]
      /\ Head(msgs[e]) \in Packet /\ 1 \in DOMAIN msgs[e] /\ msgs[e][1] = Head(msgs[e])
  BY QueueUp, Zenon
<1>2. \A p \in Place : p[1] = "queue" /\ p[2] # e => \A r : Sits(p, r)' => Sits(p, r)
  BY QueueUp, Zenon
<1>3. \A i, j \in Nat : \A r : Sits(<<"queue", e, i, j>>, r)' => i >= 1 /\ Sits(<<"queue", e, i + 1, j>>, r)
  BY QueueUp, Zenon
<1>4. PICK objs : objs = Head(msgs[e]).objs
  BY Zenon
<1>5. \A j \in Nat : <<"call", t, j, 0>> \in Place
  BY PlaceMade, Zenon
<1>6. PICK N \in [Nat -> Place] : N = [j \in Nat |-> <<"call", t, j, 0>>]
  BY <1>5, Zenon
<1>7. OtherCalls(N) /\ BlockAt(N, objs)
  BY <1>4, <1>6, CallPlaces, ZenonT(30)
<1>8. ipcLoc' \in [IpcTask -> IpcLocal]
  BY Zenon DEF CallHas
<1>9. IpcTypes'
  BY <1>1, <1>8, ZenonT(30) DEF IpcInv, IpcTypes
<1>10. ASSUME NEW p \in Place, \A j \in Nat : p # N[j], ~(p[1] = "queue" /\ p[2] = e), NEW r, Sits(p, r)'
       PROVE  Sits(p, r)
  <2>1. CASE p[1] = "list" \/ p[1] = "head"
    BY <1>10, <2>1, ZenonT(30) DEF Sits
  <2>2. CASE p[1] = "call"
    BY <1>7, <1>10, <2>2, ZenonT(30) DEF OtherCalls
  <2>3. CASE p[1] = "queue"
    BY <1>2, <1>10, <2>3, ZenonT(30)
  <2> QED BY <2>1, <2>2, <2>3, PlaceIs, ZenonT(30)
<1>11. ASSUME NEW j \in Nat, NEW r, Sits(N[j], r)' PROVE Sits(<<"queue", e, 1, j>>, r)
  <2>1. j \in DOMAIN objs /\ r = objs[j]
    BY <1>7, <1>11, Zenon DEF BlockAt
  <2> QED BY <1>1, <1>4, <2>1, ZenonT(30) DEF Sits
<1>12. Owned'
  BY <1>3, <1>10, <1>11, PopMoved, ZenonT(30) DEF IpcInv
<1> QED BY <1>9, <1>12, Zenon DEF IpcInv

\* A receive whose buffer is too small for the first packet of the queue: the
\* packet becomes the head.
LEMMA PutBack ==
    ASSUME IpcInv, NEW e \in End, msgs[e] # <<>>,
           msgs' = [msgs EXCEPT ![e] = Tail(@)], head' = [head EXCEPT ![e] = Head(msgs[e])],
           UNCHANGED <<list, nextId, ipcLoc, sent, made>>
    PROVE  IpcInv'
<1>1. /\ msgs' \in [End -> Seq(Packet)]
      /\ Head(msgs[e]) \in Packet /\ 1 \in DOMAIN msgs[e] /\ msgs[e][1] = Head(msgs[e])
  BY QueueUp, Zenon
<1>2. \A p \in Place : p[1] = "queue" /\ p[2] # e => \A r : Sits(p, r)' => Sits(p, r)
  BY QueueUp, Zenon
<1>3. \A i, j \in Nat : \A r : Sits(<<"queue", e, i, j>>, r)' => i >= 1 /\ Sits(<<"queue", e, i + 1, j>>, r)
  BY QueueUp, Zenon
<1>4. PICK pk \in Packet : pk = Head(msgs[e])
  BY <1>1, Zenon
<1>5. \A j \in Nat : <<"head", e, 0, j>> \in Place
  BY PlaceMade, Zenon
<1>6. PICK N \in [Nat -> Place] : N = [j \in Nat |-> <<"head", e, 0, j>>]
  BY <1>5, Zenon
<1>7. head' \in [End -> Packet \cup {NoRef}] /\ \A u \in End : head'[u] = IF u = e THEN pk ELSE head[u]
  BY <1>4, SameIs, ZenonT(30)
<1>8. IpcTypes'
  BY <1>1, <1>7, ZenonT(30) DEF IpcInv, IpcTypes
<1>10. ASSUME NEW p \in Place, \A j \in Nat : p # N[j], ~(p[1] = "queue" /\ p[2] = e), NEW r, Sits(p, r)'
       PROVE  Sits(p, r)
  <2>1. CASE p[1] = "list" \/ p[1] = "call"
    BY <1>10, <2>1, ZenonT(30) DEF Sits
  <2>2. CASE p[1] = "head"
    <3>1. p[2] \in End /\ p[4] \in Nat /\ p = <<"head", p[2], 0, p[4]>>
      BY <2>2, PlaceIs, ZenonT(30)
    <3>2. N[p[4]] = <<"head", e, 0, p[4]>>
      BY <1>6, <3>1, ZenonT(30)
    <3>3. p[2] # e
      BY <1>10, <3>1, <3>2, ZenonT(30)
    <3>4. head'[p[2]] = head[p[2]]
      BY <1>7, <3>1, <3>3, ZenonT(30)
    <3> QED BY <1>10, <2>2, <3>4, ZenonT(30) DEF Sits
  <2>3. CASE p[1] = "queue"
    BY <1>2, <1>10, <2>3, ZenonT(30)
  <2> QED BY <2>1, <2>2, <2>3, PlaceIs, ZenonT(30)
<1>11. ASSUME NEW j \in Nat, NEW r, Sits(N[j], r)' PROVE Sits(<<"queue", e, 1, j>>, r)
  <2>1. N[j] = <<"head", e, 0, j>>
    BY <1>6, Zenon
  <2>2. j \in DOMAIN head'[e].objs /\ r = head'[e].objs[j]
    BY <1>11, <2>1 DEF Sits
  <2>3. j \in DOMAIN pk.objs /\ r = pk.objs[j]
    BY <1>7, <2>2, Zenon
  <2> QED BY <1>1, <1>4, <2>3, ZenonT(30) DEF Sits
<1>12. Owned'
  BY <1>3, <1>10, <1>11, PopMoved, Zenon DEF IpcInv
<1> QED BY <1>8, <1>12, ZenonT(30) DEF IpcInv

\* chan_recv.
LEMMA ChanRecvIpc ==
    ASSUME IpcInv, NEW t \in IpcTask, NEW k, NEW cap, ChanRecv(t, k, cap)
    PROVE  IpcInv'
<1>1. PICK e \in End : e = HandleMapGet(Home[t], k).obj
  BY Zenon DEF ChanRecv, IsChannel
<1>2. UNCHANGED <<list, nextId, sent, made>>
  BY Zenon DEF ChanRecv, tabVars
<1>3. Home[t] \in Space
  BY SameIs, Zenon
<1>4. CASE head[e] # NoRef
  <2>1. head[e] \in Packet
    BY <1>1, <1>4, SameIs, Zenon
  <2>2. PICK objs \in Seq(Ref) : objs = head[e].objs
    BY <2>1, Zenon DEF Packet
  <2>3. msgs' = msgs
    BY <1>1, <1>4, Zenon DEF ChanRecv
  <2>4. CASE Len(objs) > cap
    <3>1. head' = [head EXCEPT ![e] = head[e]] /\ ipcLoc' = ipcLoc
      BY <1>1, <1>4, <2>2, <2>4, ZenonT(30) DEF ChanRecv
    <3>2. head' = head
      BY <3>1, SameIs, ZenonT(30)
    <3>3. ipcLoc' \in [IpcTask -> IpcLocal] /\ msgs' \in [End -> Seq(Packet)] /\ head' \in [End -> Packet \cup {NoRef}]
      BY <2>3, <3>1, <3>2, SameIs, ZenonT(30)
    <3> QED BY <1>2, <1>3, <2>3, <3>1, <3>2, <3>3, ReleaseInv, Zenon
  <2>5. CASE ~(Len(objs) > cap)
    <3>1. /\ head' = [head EXCEPT ![e] = NoRef]
          /\ ipcLoc' = [ipcLoc EXCEPT ![t] = [NoLoc EXCEPT !.refs = objs, !.end = e, !.next = "clear"]]
      BY <1>1, <1>4, <2>2, <2>5, ZenonT(30) DEF ChanRecv
    <3>2. CallHas(t, objs)
      BY <1>1, <2>2, <3>1, CallTakes, ZenonT(30)
    <3> QED BY <1>1, <1>2, <1>4, <2>2, <2>3, <3>1, <3>2, RecvHead, ZenonT(30)
  <2> QED BY <2>4, <2>5, Zenon
<1>5. CASE head[e] = NoRef
  <2>1. msgs[e] # <<>> /\ msgs' = [msgs EXCEPT ![e] = Tail(@)]
    BY <1>1, <1>5, ZenonT(30) DEF ChanRecv
  <2>2. Head(msgs[e]) \in Packet
    BY <1>1, <2>1, QueueUp, ZenonT(30)
  <2>3. PICK objs \in Seq(Ref) : objs = Head(msgs[e]).objs
    BY <2>2, Zenon DEF Packet
  <2>4. CASE Len(objs) > cap
    <3>1. head' = [head EXCEPT ![e] = Head(msgs[e])] /\ ipcLoc' = ipcLoc
      BY <1>1, <1>5, <2>3, <2>4, ZenonT(30) DEF ChanRecv
    <3> QED BY <1>1, <1>2, <2>1, <3>1, PutBack, ZenonT(30)
  <2>5. CASE ~(Len(objs) > cap)
    <3>1. /\ head' = [head EXCEPT ![e] = NoRef]
          /\ ipcLoc' = [ipcLoc EXCEPT ![t] = [NoLoc EXCEPT !.refs = objs, !.end = e, !.next = "clear"]]
      BY <1>1, <1>5, <2>3, <2>5, ZenonT(30) DEF ChanRecv
    <3>2. head' = head
      BY <1>5, <3>1, SameIs, ZenonT(30)
    <3>3. CallHas(t, objs)
      BY <1>1, <2>3, <3>1, CallTakes, ZenonT(30)
    <3> QED BY <1>1, <1>2, <2>1, <2>3, <3>2, <3>3, RecvQueue, ZenonT(30)
  <2> QED BY <2>4, <2>5, Zenon
<1> QED BY <1>4, <1>5, Zenon

\* chan_new: the two ends are new, and each is in the locals of the call.
LEMMA ChanNewIpc ==
    ASSUME IpcInv, NEW t \in IpcTask, ChanNew(t)
    PROVE  IpcInv'
<1>1. PICK c \in Chan \ made :
        /\ made' = made \cup {c}
        /\ ipcLoc' = [ipcLoc EXCEPT ![t] = [NoLoc EXCEPT !.next = "new",
                      !.refs = [i \in 1..2 |-> [obj |-> <<c, i>>, feat |-> ChannelFeatures]]]]
  BY Zenon DEF ChanNew
<1>2. PICK objs \in Seq(Ref) : objs = [i \in 1..2 |-> [obj |-> <<c, i>>, feat |-> ChannelFeatures]]
  <2>1. \A i \in 1..2 : <<c, i>> \in Object
    BY DEF Object, End
  <2>2. \A i \in 1..2 : [obj |-> <<c, i>>, feat |-> ChannelFeatures] \in Ref
    BY <2>1, Zenon DEF Ref, ChannelFeatures, Feature
  <2>3. [i \in 1..2 |-> [obj |-> <<c, i>>, feat |-> ChannelFeatures]] \in [1..2 -> Ref]
    BY <2>2, ZenonT(30)
  <2>4. [1..2 -> Ref] \subseteq Seq(Ref)
    <3>1. ASSUME NEW f \in [1..2 -> Ref] PROVE f \in Seq(Ref)
      <4>1. 2 \in Nat
        BY ZenonT(30)
      <4> QED BY <4>1, SeqDef, ZenonT(30)
    <3> QED BY <3>1, ZenonT(30)
  <2> QED BY <2>3, <2>4, ZenonT(30)
<1>3. UNCHANGED <<list, nextId, msgs, head, sent>>
  BY Zenon DEF ChanNew, tabVars
<1>4. PICK l : l = [NoLoc EXCEPT !.next = "new", !.refs = objs]
  BY Zenon
<1>5. l \in IpcLocal /\ l.refs = objs
  BY <1>2, <1>4, NoLocIs, ZenonT(30) DEF IpcLocal
<1>6. CallHas(t, objs)
  BY <1>1, <1>2, <1>4, <1>5, SameIs, ZenonT(30) DEF CallHas
<1>7. IpcTypes'
  BY <1>3, <1>6, ZenonT(30) DEF IpcInv, IpcTypes, CallHas
<1>8. \A j \in Nat : <<"call", t, j, 0>> \in Place
  BY PlaceMade, ZenonT(30)
<1>9. PICK N \in [Nat -> Place] : N = [j \in Nat |-> <<"call", t, j, 0>>]
  BY <1>8, ZenonT(30)
<1>10. OtherCalls(N) /\ BlockAt(N, objs)
  BY <1>6, <1>9, CallPlaces, ZenonT(30)
<1>11. ASSUME NEW p \in Place, NEW r, Sits(p, r)'
       PROVE  \/ Sits(p, r)
              \/ \E i \in Nat : p = N[i] /\ r.obj = <<c, i>> /\ r.feat = ChannelFeatures
  <2>1. CASE \E j \in Nat : p = N[j]
    <3>1. PICK j \in Nat : p = N[j]
      BY <2>1, ZenonT(30)
    <3>2. j \in DOMAIN objs /\ r = objs[j]
      BY <1>10, <1>11, <3>1, ZenonT(30) DEF BlockAt
    <3>3. r = [obj |-> <<c, j>>, feat |-> ChannelFeatures]
      BY <1>2, <3>2, ZenonT(30)
    <3> QED BY <3>1, <3>3, ZenonT(30)
  <2>2. CASE (\A j \in Nat : p # N[j]) /\ p[1] = "call"
    BY <1>10, <1>11, <2>2, ZenonT(30) DEF OtherCalls
  <2>3. CASE p[1] # "call"
    BY <1>3, <1>11, <2>3, ZenonT(30) DEF Sits
  <2> QED BY <2>1, <2>2, <2>3, ZenonT(30)
<1>12. ASSUME NEW p \in Place, NEW r, Sits(p, r), r.obj \in End PROVE r.obj[1] # c
  BY <1>1, <1>12, ZenonT(30) DEF IpcInv, Owned
<1>13. ASSUME NEW p \in Place, NEW q \in Place, NEW r, NEW x,
              Sits(p, r)', Sits(q, x)', r.obj = x.obj, r.obj \in End
       PROVE  p = q
  <2>1. CASE Sits(p, r) /\ Sits(q, x)
    BY <1>13, <2>1, Zenon DEF IpcInv, Owned
  <2>2. ASSUME NEW i \in Nat, p = N[i], r.obj = <<c, i>> PROVE p = q
    <3>1. r.obj[1] = c
      BY <2>2
    <3>2. ~Sits(q, x)
      BY <1>12, <1>13, <3>1, ZenonT(30)
    <3>3. PICK j \in Nat : q = N[j] /\ x.obj = <<c, j>>
      BY <1>11, <1>13, <3>2
    <3>4. i = j
      <4>1. r.obj[2] = i /\ x.obj[2] = j
        BY <2>2, <3>3
      <4> QED BY <1>13, <4>1, Zenon
    <3> QED BY <2>2, <3>3, <3>4, Zenon
  <2>3. ASSUME NEW i \in Nat, q = N[i], x.obj = <<c, i>> PROVE p = q
    <3>1. x.obj[1] = c
      BY <2>3, SMTT(20)
    <3>2. ~Sits(p, r)
      BY <1>12, <1>13, <3>1, Zenon
    <3>3. PICK j \in Nat : p = N[j] /\ r.obj = <<c, j>>
      BY <1>11, <1>13, <3>2
    <3>4. i = j
      <4>1. x.obj[2] = i /\ r.obj[2] = j
        BY <2>3, <3>3, SMTT(20)
      <4> QED BY <1>13, <4>1, Zenon
    <3> QED BY <2>3, <3>3, <3>4, Zenon
  <2> QED BY <1>11, <1>13, <2>1, <2>2, <2>3, SMTT(40)
<1>14. ASSUME NEW p \in Place, NEW r, Sits(p, r)', r.obj \in End
       PROVE  r.obj[1] \in made' /\ "SYNC" \notin r.feat
  <2>1. CASE Sits(p, r)
    <3>1. r.obj[1] \in made /\ "SYNC" \notin r.feat
      BY <1>14, <2>1, Zenon DEF IpcInv, Owned
    <3> QED BY <1>1, <3>1, Zenon
  <2>2. ASSUME NEW i \in Nat, r.obj = <<c, i>>, r.feat = ChannelFeatures
        PROVE  r.obj[1] \in made' /\ "SYNC" \notin r.feat
    BY <1>1, <2>2, SMTT(20) DEF ChannelFeatures
  <2> QED BY <1>11, <1>14, <2>1, <2>2, ZenonT(30)
<1>15. Owned'
  BY <1>13, <1>14, Zenon DEF Owned
<1> QED BY <1>7, <1>15, ZenonT(30) DEF IpcInv

\* At the start the Refs are in the handle maps.
LEMMA InitIpc == IpcInit => IpcInv
<1> SUFFICES ASSUME IpcInit PROVE IpcInv
  BY Zenon
<1>1. /\ list = InitList /\ nextId = [s \in Space |-> Len(InitList[s]) + 1]
      /\ msgs = [e \in End |-> <<>>] /\ head = [e \in End |-> NoRef] /\ made = InitChan
      /\ ipcLoc = [t \in IpcTask |-> NoLoc] /\ sent = [e \in End |-> 0]
  BY Zenon DEF IpcInit
<1>2. ASSUME NEW s \in Space
      PROVE  /\ list[s] \in Tables /\ nextId[s] \in Nat
             /\ \A k \in DOMAIN list[s] : k < nextId[s]
  <2>1. PICK q \in Seq(Ref) : q = InitList[s]
    BY IpcAssumption, Zenon DEF InitialHandles
  <2>2. PICK n \in Nat : n = Len(q) /\ DOMAIN q = 1..n
    BY <2>1
  <2>3. q \in [1..n -> Ref] /\ 1..n \in SUBSET Nat
    BY <2>1, <2>2
  <2>4. q \in Tables
    BY <2>3, TableMade, Zenon
  <2>5. list[s] = q /\ nextId[s] = n + 1
    BY <1>1, <2>1, <2>2, Zenon
  <2> QED BY <2>2, <2>4, <2>5, SMTT(20)
<1>3. list \in [Space -> Tables] /\ nextId \in [Space -> Nat]
  BY <1>1, <1>2, IpcAssumption, Zenon DEF InitialHandles
<1>4. msgs \in [End -> Seq(Packet)]
  <2>1. <<>> \in Seq(Packet)
    BY SMTT(20)
  <2> QED BY <1>1, <2>1, Zenon
<1>5. IpcTypes
  BY <1>1, <1>2, <1>3, <1>4, NoLocIs, Zenon DEF IpcTypes
<1>6. ASSUME NEW p \in Place, NEW r, Sits(p, r)
      PROVE  p[1] = "list" /\ p[2] \in Space /\ p[3] \in DOMAIN InitList[p[2]] /\ r = InitList[p[2]][p[3]]
  <2>1. CASE p[1] = "list"
    BY <1>1, <1>6, <2>1, PlaceIs, ZenonT(30) DEF Sits
  <2>2. CASE p[1] = "call"
    <3>1. p[2] \in IpcTask /\ p[3] \in DOMAIN ipcLoc[p[2]].refs
      BY <1>6, <2>2, PlaceIs, ZenonT(30) DEF Sits
    <3>2. ipcLoc[p[2]].refs = <<>>
      BY <1>1, <3>1, NoLocIs, ZenonT(30)
    <3> QED BY <3>1, <3>2, SMTT(20)
  <2>3. CASE p[1] = "head"
    BY <1>1, <1>6, <2>3, PlaceIs, ZenonT(30) DEF Sits
  <2>4. CASE p[1] = "queue"
    <3>1. p[2] \in End /\ p[3] \in DOMAIN msgs[p[2]]
      BY <1>6, <2>4, PlaceIs, ZenonT(30) DEF Sits
    <3>2. msgs[p[2]] = <<>>
      BY <1>1, <3>1, ZenonT(30)
    <3> QED BY <3>1, <3>2, SMTT(20)
  <2> QED BY <2>1, <2>2, <2>3, <2>4, PlaceIs, Zenon
<1>7. ASSUME NEW p \in Place, NEW q \in Place, NEW r, NEW x,
             Sits(p, r), Sits(q, x), r.obj = x.obj, r.obj \in End
      PROVE  p = q
  <2>1. p[2] = q[2] /\ p[3] = q[3]
    BY <1>6, <1>7, IpcAssumption, SMTT(40) DEF InitialHandles
  <2>2. p[1] = "list" /\ q[1] = "list" /\ p[4] = 0 /\ q[4] = 0
    BY <1>6, <1>7, PlaceIs, Zenon
  <2> QED BY <2>1, <2>2, PlaceSame, ZenonT(30)
<1>8. ASSUME NEW p \in Place, NEW r, Sits(p, r), r.obj \in End
      PROVE  r.obj[1] \in made /\ "SYNC" \notin r.feat
  <2>1. r.obj[1] \in InitChan /\ r.feat \subseteq ChannelFeatures
    BY <1>6, <1>8, IpcAssumption, SMTT(20) DEF InitialHandles
  <2> QED BY <1>1, <2>1, Zenon DEF ChannelFeatures
<1>9. Owned
  BY <1>7, <1>8, Zenon DEF Owned
<1> QED BY <1>5, <1>9, Zenon DEF IpcInv

\* Every step of every system call keeps the invariant.
LEMMA NextIpc == IpcInv /\ [IpcNext]_ipcvars => IpcInv'
<1> SUFFICES ASSUME IpcInv, [IpcNext]_ipcvars PROVE IpcInv'
  BY Zenon
<1>1. CASE UNCHANGED ipcvars
  <2>1. UNCHANGED <<nextId, list, ipcLoc, msgs, sent, head, made>>
    BY <1>1, Zenon DEF ipcvars
  <2>2. \A p \in Place : \A r : Sits(p, r)' => Sits(p, r)
    BY <2>1, ZenonT(30) DEF Sits
  <2>3. Owned'
    BY <2>1, <2>2, LeftOwned, Zenon DEF IpcInv
  <2>4. IpcTypes'
    BY <2>1, Zenon DEF IpcInv, IpcTypes
  <2> QED BY <2>3, <2>4, ZenonT(30) DEF IpcInv
<1>2. ASSUME NEW t \in IpcTask, IpcCall(t) PROVE IpcInv'
  <2>1. CASE ChanNew(t)
    BY <2>1, ChanNewIpc, ZenonT(30)
  <2>2. ASSUME NEW k \in Keys(Home[t]), ObjClone(t, k) PROVE IpcInv'
    BY <2>2, ObjCloneIpc, ZenonT(30)
  <2>3. ASSUME NEW k \in Keys(Home[t]), ObjDrop(t, k) PROVE IpcInv'
    BY <2>3, ObjDropIpc, ZenonT(30)
  <2>4. ASSUME NEW k \in Keys(Home[t]), NEW feat \in Feats, ObjFeat(t, k, feat) PROVE IpcInv'
    BY <2>4, ObjFeatIpc, Zenon
  <2>5. ASSUME NEW k \in Keys(Home[t]), NEW args \in ArgLists(Home[t]), ChanSend(t, k, args) PROVE IpcInv'
    BY <2>5, ChanSendIpc, ZenonT(30)
  <2>6. ASSUME NEW k \in Keys(Home[t]), NEW cap \in 0..MaxArgs, ChanRecv(t, k, cap) PROVE IpcInv'
    BY <2>6, ChanRecvIpc, ZenonT(30)
  <2> QED BY <1>2, <2>1, <2>2, <2>3, <2>4, <2>5, <2>6, ZenonT(30) DEF IpcCall
<1>3. ASSUME NEW t \in IpcTask, Step(t) PROVE IpcInv'
  <2>1. CASE ChanNewFails(t) \/ Inserted(t) \/ Upgrade(t) \/ CheckLen(t) \/ Notify(t)
    BY <2>1, ReturnsIpc, ZenonT(30)
  <2>2. CASE InsertStep(t)
    BY <2>2, InsertStepIpc, Zenon
  <2>3. CASE Split(t)
    BY <2>3, SplitIpc, Zenon
  <2>4. CASE Push(t)
    BY <2>4, PushIpc, Zenon
  <2>5. CASE DropObject(t) \/ DropSide(t)
    BY <2>5, DropIpc, ZenonT(30)
  <2> QED BY <1>3, <2>1, <2>2, <2>3, <2>4, <2>5, ZenonT(30) DEF Step
<1> QED BY <1>1, <1>2, <1>3, Zenon DEF IpcNext

\* The position that OneOwner gives to a place: a packet that was put back comes
\* before the queue.
Position(p) ==
    IF p[1] \in {"list", "call"} THEN <<p[2], p[3]>>
    ELSE IF p[1] = "head" THEN <<p[2], 1, p[4]>>
    ELSE <<p[2], IF head[p[2]] = NoRef THEN p[3] ELSE p[3] + 1, p[4]>>

\* A Ref of RefAt is at a place.
LEMMA RefAtIs ==
    ASSUME IpcInv, NEW x \in RefAt
    PROVE  \E p \in Place : Sits(p, x[2]) /\ x = <<Position(p), x[2]>>
<1>1. ASSUME NEW s \in Space, NEW k \in DOMAIN list[s], x = <<<<s, k>>, list[s][k]>>
      PROVE  \E p \in Place : Sits(p, x[2]) /\ x = <<Position(p), x[2]>>
  <2>1. k \in Nat
    BY <1>1, SameIs, TableIs, Zenon
  <2>2. PICK p \in Place : p = <<"list", s, k, 0>>
    BY <2>1, PlaceMade, Zenon
  <2> QED BY <1>1, <2>2, Zenon DEF Sits, Position
<1>2. ASSUME NEW t \in IpcTask, NEW i \in DOMAIN ipcLoc[t].refs, x = <<<<t, i>>, ipcLoc[t].refs[i]>>
      PROVE  \E p \in Place : Sits(p, x[2]) /\ x = <<Position(p), x[2]>>
  <2>1. ipcLoc[t].refs \in Seq(Ref)
    BY SameIs, Zenon DEF IpcLocal
  <2>2. i \in Nat
    BY <1>2, <2>1
  <2>3. PICK p \in Place : p = <<"call", t, i, 0>>
    BY <2>2, PlaceMade, Zenon
  <2> QED BY <1>2, <2>3, Zenon DEF Sits, Position
<1>3. ASSUME NEW e \in End, NEW i \in DOMAIN Queue(e), NEW j \in DOMAIN Queue(e)[i].objs,
             x = <<<<e, i, j>>, Queue(e)[i].objs[j]>>
      PROVE  \E p \in Place : Sits(p, x[2]) /\ x = <<Position(p), x[2]>>
  <2>1. PICK q \in Seq(Packet) : q = msgs[e]
    BY SameIs, Zenon
  <2>2. PICK n \in Nat : n = Len(q) /\ DOMAIN q = 1..n
    BY <2>1, SMTT(20)
  <2>3. ASSUME NEW pk \in Packet, NEW m \in DOMAIN pk.objs PROVE m \in Nat
    <3>1. pk.objs \in Seq(Ref)
      BY Zenon DEF Packet
    <3> QED BY <2>3, <3>1
  <2>4. CASE head[e] = NoRef
    <3>1. Queue(e) = q
      <4>1. Queue(e) = <<>> \o q
        BY <2>1, <2>4, ZenonT(30) DEF Queue, HeadOf
      <4> QED BY <2>1, <4>1
    <3>2. i \in DOMAIN q /\ j \in DOMAIN q[i].objs /\ x = <<<<e, i, j>>, q[i].objs[j]>>
      BY <1>3, <3>1, ZenonT(30)
    <3>3. i \in Nat /\ q[i] \in Packet
      BY <2>1, <2>2, <3>2
    <3>4. j \in Nat
      BY <2>3, <3>2, <3>3, ZenonT(30)
    <3>5. PICK p \in Place : p = <<"queue", e, i, j>>
      BY <3>3, <3>4, PlaceMade, ZenonT(30)
    <3>6. Position(p) = <<e, i, j>>
      BY <2>4, <3>5, ZenonT(30) DEF Position
    <3>7. Sits(p, q[i].objs[j])
      BY <2>1, <3>2, <3>5, ZenonT(30) DEF Sits
    <3> QED BY <3>2, <3>6, <3>7, Zenon
  <2>5. CASE head[e] # NoRef
    <3>1. PICK h \in Packet : h = head[e]
      BY <2>5, SameIs, ZenonT(30)
    <3>2. PICK w : w = <<h>> \o q
      BY Zenon
    <3>3. DOMAIN w = 1..(n + 1) /\ w[1] = h /\ \A m \in 2..(n + 1) : w[m] = q[m - 1]
      <4>1. <<h>> \in Seq(Packet) /\ Len(<<h>>) = 1 /\ <<h>>[1] = h
        BY <3>1
      <4> QED BY <2>1, <2>2, <3>2, <4>1, ConcatProperties
    <3>4. Queue(e) = w
      BY <2>1, <2>5, <3>1, <3>2, Zenon DEF Queue, HeadOf
    <3>5. i \in 1..(n + 1) /\ j \in DOMAIN w[i].objs /\ x = <<<<e, i, j>>, w[i].objs[j]>>
      BY <1>3, <3>3, <3>4, Zenon
    <3>6. CASE i = 1
      <4>1. j \in Nat
        BY <2>3, <3>1, <3>3, <3>5, <3>6, Zenon
      <4>2. PICK p \in Place : p = <<"head", e, 0, j>>
        BY <4>1, PlaceMade, Zenon
      <4>3. Position(p) = <<e, i, j>>
        BY <3>6, <4>2, Zenon DEF Position
      <4>4. Sits(p, w[i].objs[j])
        BY <2>5, <3>1, <3>3, <3>5, <3>6, <4>2, Zenon DEF Sits
      <4> QED BY <3>5, <4>3, <4>4, Zenon
    <3>7. CASE i # 1
      <4>1. PICK m \in Nat : m = i - 1 /\ m \in DOMAIN q /\ w[i] = q[m] /\ m + 1 = i
        BY <2>2, <3>3, <3>5, <3>7
      <4>2. q[m] \in Packet
        BY <2>1, <4>1
      <4>3. j \in Nat
        BY <2>3, <3>5, <4>1, <4>2, ZenonT(30)
      <4>4. PICK p \in Place : p = <<"queue", e, m, j>>
        BY <4>1, <4>3, PlaceMade, ZenonT(30)
      <4>5. Position(p) = <<e, i, j>>
        BY <2>5, <4>1, <4>4, ZenonT(30) DEF Position
      <4>6. Sits(p, w[i].objs[j])
        BY <2>1, <3>5, <4>1, <4>4, ZenonT(30) DEF Sits
      <4> QED BY <3>5, <4>5, <4>6, ZenonT(30)
    <3> QED BY <3>6, <3>7, ZenonT(30)
  <2> QED BY <2>4, <2>5, Zenon
<1> QED BY <1>1, <1>2, <1>3, SMTT(40) DEF RefAt, InQueue

\* The invariant is what OneOwner says.
LEMMA IpcInvImplies == IpcInv => OneOwner
<1> SUFFICES ASSUME IpcInv, NEW x \in RefAt, NEW y \in RefAt, x[2].obj \in End, x[2].obj = y[2].obj
             PROVE  x = y
  BY Zenon DEF OneOwner
<1>1. PICK p \in Place : Sits(p, x[2]) /\ x = <<Position(p), x[2]>>
  BY RefAtIs, Zenon
<1>2. PICK q \in Place : Sits(q, y[2]) /\ y = <<Position(q), y[2]>>
  BY RefAtIs, Zenon
<1>3. p = q
  BY <1>1, <1>2, Zenon DEF IpcInv, Owned
<1>4. x[2] = y[2]
  BY <1>1, <1>2, <1>3, SitsOne, Zenon
<1> QED BY <1>1, <1>2, <1>3, <1>4, Zenon

\* A channel end has one owner (OneOwner), for any spaces, tasks, calls and
\* channels: at any time there is at most one Ref of it, in a handle map, in the
\* locals of a system call or in a packet, since obj_clone refuses it and
\* HandleMap::split takes it out of the map before Channel::send pushes it.
THEOREM EndsHaveOneOwner == IpcSpec => []OneOwner
<1>1. IpcInv /\ [IpcNext]_ipcvars => IpcInv'
  BY NextIpc, Zenon
<1> QED BY <1>1, InitIpc, IpcInvImplies, PTL DEF IpcSpec
=============================================================================
