---------------------------- MODULE EventProofs ----------------------------
(* For every number of tasks, every capacity and every schedule: the         *)
(* dispatcher never holds more requests than its capacity, answers each of   *)
(* them once and forgets none; whoever waits stays within reach of the event *)
(* it waits for; and obj_wait succeeds only with the signal it waited for or *)
(* overtaken by a cancel.                                                    *)
EXTENDS Event, FiniteSetTheorems, SequenceTheorems, TLAPS

\* The inductive invariant: keys come from nextKey, are never used twice, and the
\* counts add up.
DispInv ==
    /\ nextKey \in Nat
    /\ IsFiniteSet(pending)
    /\ \A x \in pending : x.key \in Nat /\ x.key < nextKey
    /\ \E S : ready \in Seq(S)
    /\ \A i \in DOMAIN ready : ready[i].key \in Nat /\ ready[i].key < nextKey
    /\ \A k \in popped : k \in Nat /\ k < nextKey
    /\ AnsweredOnce
    /\ DispatcherBounded

\* Nothing but the dispatcher's own variables matters to the invariant.
LEMMA DispInvUnchanged ==
    ASSUME DispInv, UNCHANGED <<pending, ready, popped, nextKey>>
    PROVE  DispInv'
<1>1. pending' = pending /\ ready' = ready /\ popped' = popped /\ nextKey' = nextKey
  BY Zenon
<1>2. AnsweredOnce' = AnsweredOnce /\ DispatcherBounded' = DispatcherBounded
  BY <1>1 DEF AnsweredOnce, DispatcherBounded, PendingKeys, ReadyKeys
<1>3. \E S : ready' \in Seq(S)
  BY <1>1, Zenon DEF DispInv
<1> QED BY <1>1, <1>2, <1>3, Zenon DEF DispInv

\* What ToReady appends: as many entries as were drained, with their keys.
LEMMA ToReadyProps ==
    ASSUME NEW hit, IsFiniteSet(hit), NEW s \in InKeyOrder(hit), NEW sig, NEW canceled
    PROVE  LET q == ToReady(s, sig, canceled) IN
           /\ \E T : q \in Seq(T)
           /\ Len(q) = Cardinality(hit)
           /\ \A i \in 1..Len(q) : s[i] \in hit /\ q[i].key = s[i].key
<1> DEFINE n == Cardinality(hit)
           q == ToReady(s, sig, canceled)
           T == {[key |-> x.key, canceled |-> canceled, signal |-> sig] : x \in hit}
<1>1. n \in Nat
  BY FS_CardinalityType, Zenon
<1>2. s \in [1..n -> hit]
  BY Zenon DEF InKeyOrder
<1>3. q = [i \in 1..n |-> [key |-> s[i].key, canceled |-> canceled, signal |-> sig]]
  BY <1>2, Zenon DEF ToReady
<1>4. \A i \in 1..n : q[i] \in T /\ q[i].key = s[i].key
  BY <1>2, <1>3
<1>5. q \in [1..n -> T]
  <2> HIDE DEF T
  <2> QED BY <1>3, <1>4, Zenon
<1>6. q \in Seq(T) /\ Len(q) = n
  <2> HIDE DEF T, q
  <2> QED BY <1>1, <1>5
<1> QED BY <1>2, <1>4, <1>6, Zenon

\* drain_filter moves requests from pending to ready: the sum stays, keys stay
\* distinct.
LEMMA DrainOK ==
    ASSUME DispInv, NEW hit \in SUBSET pending, NEW sig, NEW canceled,
           Drain(hit, sig, canceled), UNCHANGED <<popped, nextKey>>
    PROVE  DispInv'
<1>1. IsFiniteSet(hit) /\ IsFiniteSet(pending \ hit) /\ Capacity \in Nat
  BY FS_Subset, EventAssumption, Zenon DEF DispInv
<1>2. PICK s \in InKeyOrder(hit) : ready' = ready \o ToReady(s, sig, canceled)
  BY Zenon DEF Drain
<1> DEFINE q == ToReady(s, sig, canceled)
           m == Len(ready)
           n == Cardinality(hit)
<1>3. PICK T : q \in Seq(T)
  BY <1>1, ToReadyProps, Zenon
<1>4. Len(q) = n /\ \A i \in 1..n : s[i] \in hit /\ q[i].key = s[i].key
  BY <1>1, ToReadyProps
<1>5. n \in Nat /\ Cardinality(pending) \in Nat /\ Cardinality(pending \ hit) \in Nat
  BY <1>1, FS_CardinalityType, Zenon DEF DispInv
<1>6. Cardinality(pending \ hit) = Cardinality(pending) - n
  <2>1. pending = (pending \ hit) \cup hit /\ (pending \ hit) \cap hit = {}
    BY Zenon
  <2>2. Cardinality((pending \ hit) \cup hit)
          = Cardinality(pending \ hit) + Cardinality(hit) - Cardinality((pending \ hit) \cap hit)
    BY <1>1, FS_Union, Zenon
  <2> QED BY <2>1, <2>2, <1>5, FS_EmptySet
<1>7. PICK S : ready \in Seq(S)
  BY Zenon DEF DispInv
<1>8. ready \in Seq(S \cup T) /\ q \in Seq(S \cup T)
  <2> HIDE DEF q
  <2> QED BY <1>3, <1>7, SeqMonotonic, Zenon
<1>9. /\ ready' \in Seq(S \cup T) /\ Len(ready') = m + n /\ m \in Nat
      /\ \A i \in 1..(m + n) : ready'[i] = IF i <= m THEN ready[i] ELSE q[i - m]
  <2> HIDE DEF q
  <2> QED BY <1>2, <1>4, <1>8, ConcatProperties, LenProperties, ZenonT(30) DEF q
<1>10. DOMAIN ready' = 1..(m + n) /\ DOMAIN ready = 1..m
  BY <1>8, <1>9, LenProperties, Zenon
<1>11. \A i \in 1..(m + n) : i > m => i - m \in 1..n /\ ready'[i].key = s[i - m].key /\ s[i - m] \in hit
  BY <1>4, <1>5, <1>9
<1>12. \A i \in 1..m : ready'[i] = ready[i]
  BY <1>5, <1>9
<1>13. pending' = pending \ hit /\ popped' = popped /\ nextKey' = nextKey
  BY Zenon DEF Drain
<1>14. \A i, j \in 1..n : i < j => s[i].key < s[j].key
  BY <1>5, Zenon DEF InKeyOrder
<1>15. \A i \in DOMAIN ready' : ready'[i].key \in Nat /\ ready'[i].key < nextKey
  <2>1. ASSUME NEW i \in 1..(m + n), i <= m PROVE ready'[i].key \in Nat /\ ready'[i].key < nextKey
    <3>1. i \in 1..m
      BY <2>1, <1>5, <1>9
    <3> QED BY <3>1, <1>10, <1>12, Zenon DEF DispInv
  <2>2. ASSUME NEW i \in 1..(m + n), i > m PROVE ready'[i].key \in Nat /\ ready'[i].key < nextKey
    BY <2>2, <1>11, Zenon DEF DispInv
  <2>3. \A i \in 1..(m + n) : i <= m \/ i > m
    BY <1>5, <1>9
  <2> QED BY <2>1, <2>2, <2>3, <1>10, Zenon
<1>16. AnsweredOnce'
  <2>1. ASSUME NEW i \in 1..(m + n), NEW j \in 1..(m + n), i < j, ready'[i].key = ready'[j].key
        PROVE  FALSE
    <3>1. CASE j <= m
      <4>1. i \in DOMAIN ready /\ j \in DOMAIN ready /\ ready[i].key = ready[j].key
        BY <3>1, <2>1, <1>9, <1>10, <1>12, <1>5
      <4> QED BY <4>1, <2>1, <1>9, <1>5 DEF DispInv, AnsweredOnce
    <3>2. CASE i <= m /\ j > m
      <4>1. ready[i].key \in ReadyKeys /\ ready'[i] = ready[i]
        <5>1. i \in 1..m
          BY <3>2, <1>5, <1>9
        <5> QED BY <5>1, <1>10, <1>12, Zenon DEF ReadyKeys
      <4>2. ready'[j].key \in PendingKeys
        BY <3>2, <1>11, Zenon DEF PendingKeys
      <4> QED BY <4>1, <4>2, <2>1, Zenon DEF DispInv, AnsweredOnce
    <3>3. CASE i > m
      <4>1. j > m /\ i - m < j - m
        BY <3>3, <2>1, <1>9, <1>5
      <4>2. i - m \in 1..n /\ j - m \in 1..n /\ s[i - m].key = s[j - m].key
        BY <3>3, <4>1, <2>1, <1>11, Zenon
      <4>3. s[i - m].key < s[j - m].key
        BY <4>1, <4>2, <1>14, Zenon
      <4>4. s[i - m].key \in Nat
        BY <3>3, <1>11, Zenon DEF DispInv
      <4> QED BY <4>2, <4>3, <4>4
    <3> QED BY <3>1, <3>2, <3>3, <1>9, <1>5
  <2>2. \A i, j \in DOMAIN ready' : ready'[i].key = ready'[j].key => i = j
    <3> SUFFICES ASSUME NEW i \in 1..(m + n), NEW j \in 1..(m + n), ready'[i].key = ready'[j].key
                 PROVE  i = j
      BY <1>10, Zenon
    <3>1. i < j \/ j < i \/ i = j
      BY <1>5, <1>9
    <3> QED BY <3>1, <2>1, Zenon
  <2>3. \A x, y \in pending' : x.key = y.key => x = y
    BY <1>13, Zenon DEF DispInv, AnsweredOnce
  <2>4. ASSUME NEW x \in pending', NEW i \in DOMAIN ready', x.key = ready'[i].key PROVE FALSE
    <3>1. x \in pending /\ x \notin hit /\ i \in 1..(m + n)
      BY <1>13, <1>10, Zenon
    <3>2. CASE i <= m
      <4>1. i \in DOMAIN ready /\ x.key = ready[i].key
        BY <3>1, <3>2, <2>4, <1>9, <1>10, <1>12, <1>5
      <4>2. x.key \in PendingKeys /\ x.key \in ReadyKeys
        BY <3>1, <4>1, Zenon DEF PendingKeys, ReadyKeys
      <4> QED BY <4>2, Zenon DEF DispInv, AnsweredOnce
    <3>3. CASE i > m
      BY <3>1, <3>3, <2>4, <1>11, ZenonT(30) DEF DispInv, AnsweredOnce
    <3> QED BY <3>1, <3>2, <3>3, <1>5, <1>9
  <2>5. ASSUME NEW i \in DOMAIN ready', ready'[i].key \in popped PROVE FALSE
    <3>1. i \in 1..(m + n)
      BY <1>10, Zenon
    <3>2. CASE i <= m
      BY <3>1, <3>2, <2>5, <1>9, <1>10, <1>12, <1>5 DEF DispInv, AnsweredOnce, ReadyKeys
    <3>3. CASE i > m
      BY <3>1, <3>3, <2>5, <1>11 DEF DispInv, AnsweredOnce, PendingKeys
    <3> QED BY <3>1, <3>2, <3>3, <1>5, <1>9
  <2>6. \A x \in pending' : x.key \notin popped
    BY <1>13 DEF DispInv, AnsweredOnce, PendingKeys
  <2> QED BY <2>2, <2>3, <2>4, <2>5, <2>6, <1>13 DEF AnsweredOnce, PendingKeys, ReadyKeys
<1>17. DispatcherBounded'
  <2>1. Cardinality(pending') + Len(ready') = Cardinality(pending) + Len(ready)
    BY <1>5, <1>6, <1>9, <1>13
  <2> QED BY <2>1, Zenon DEF DispInv, DispatcherBounded
<1>18. IsFiniteSet(pending') /\ \A x \in pending' : x.key \in Nat /\ x.key < nextKey
  BY <1>1, <1>13, Zenon DEF DispInv
<1>19. \E R : ready' \in Seq(R)
  BY <1>9, Zenon
<1> QED BY <1>13, <1>15, <1>16, <1>17, <1>18, <1>19, Zenon DEF DispInv

\* A push takes a fresh key and stays below the capacity.
LEMMA PushOK ==
    ASSUME DispInv, NEW t \in Task, NEW want \in Want, NEW level \in BOOLEAN, DispPush(t, want, level)
    PROVE  DispInv'
<1> DEFINE new == [key |-> nextKey, want |-> want, level |-> level]
<1>1. ready' = ready /\ popped' = popped /\ nextKey' = nextKey + 1 /\ nextKey \in Nat
  BY Zenon DEF DispPush, DispInv
<1>2. (\A x \in pending : x.key \in Nat /\ x.key < nextKey') /\ (\A k \in popped' : k \in Nat /\ k < nextKey')
  BY <1>1 DEF DispInv
<1>3. \A i \in DOMAIN ready' : ready'[i].key \in Nat /\ ready'[i].key < nextKey'
  BY <1>1 DEF DispInv
<1>4. \E S : ready' \in Seq(S)
  BY <1>1, Zenon DEF DispInv
<1>5. CASE Full
  <2>1. pending' = pending
    BY <1>5, Zenon DEF DispPush
  <2>2. AnsweredOnce' = AnsweredOnce /\ DispatcherBounded' = DispatcherBounded
    BY <1>1, <2>1 DEF AnsweredOnce, DispatcherBounded, PendingKeys, ReadyKeys
  <2> QED BY <1>1, <1>2, <1>3, <1>4, <2>1, <2>2 DEF DispInv
<1>6. CASE ~Full
  <2>1. pending' = pending \cup {new}
    BY <1>6, Zenon DEF DispPush
  <2>2. new.key = nextKey /\ new \notin pending /\ IsFiniteSet(pending)
    BY <1>1 DEF DispInv
  <2>3. IsFiniteSet(pending') /\ Cardinality(pending') = Cardinality(pending) + 1
    <3> HIDE DEF new
    <3> QED BY <2>1, <2>2, FS_AddElement, Zenon
  <2>4. Cardinality(pending) \in Nat /\ Len(ready) \in Nat /\ Capacity \in Nat
    BY FS_CardinalityType, LenProperties, EventAssumption, Zenon DEF DispInv
  <2>5. DispatcherBounded'
    BY <1>1, <1>6, <2>3, <2>4 DEF DispatcherBounded, Full
  <2>6. \A x \in pending' : x.key \in Nat /\ x.key < nextKey'
    BY <1>1, <1>2, <2>1, <2>2
  <2>7. \A x, y \in pending' : x.key = y.key => x = y
    <3> SUFFICES ASSUME NEW x \in pending', NEW y \in pending', x.key = y.key PROVE x = y
      BY Zenon
    <3>1. \A z \in pending : z.key # nextKey
      BY <1>1 DEF DispInv
    <3>2. CASE x \in pending /\ y \in pending
      BY <3>2, Zenon DEF DispInv, AnsweredOnce
    <3>3. CASE x = new \/ y = new
      <4> HIDE DEF new
      <4> QED BY <3>1, <3>3, <2>1, <2>2, ZenonT(30)
    <3> QED BY <3>2, <3>3, <2>1, Zenon
  <2>8. nextKey \notin ReadyKeys /\ nextKey \notin popped
    BY <1>1 DEF DispInv, ReadyKeys
  <2>9. PendingKeys' = PendingKeys \cup {nextKey} /\ ReadyKeys' = ReadyKeys
    BY <1>1, <2>1, <2>2, Zenon DEF PendingKeys, ReadyKeys
  <2>10. AnsweredOnce'
    BY <1>1, <2>7, <2>8, <2>9, ZenonT(30) DEF DispInv, AnsweredOnce
  <2> QED BY <1>1, <1>2, <1>3, <1>4, <2>3, <2>5, <2>6, <2>10 DEF DispInv
<1> QED BY <1>5, <1>6, Zenon

\* A pop frees one place and retires one key.
LEMMA PopOK ==
    ASSUME DispInv, NEW t \in Task, DispPop(t)
    PROVE  DispInv'
<1>1. CASE ready = <<>>
  BY <1>1, DispInvUnchanged, Zenon DEF DispPop
<1>2. CASE ready # <<>>
  <2>1. /\ ready' = Tail(ready) /\ popped' = popped \cup {Head(ready).key}
        /\ pending' = pending /\ nextKey' = nextKey
    BY <1>2, Zenon DEF DispPop
  <2>2. PICK S : ready \in Seq(S)
    BY Zenon DEF DispInv
  <2> DEFINE m == Len(ready)
  <2>3. /\ m \in Nat /\ m > 0 /\ DOMAIN ready = 1..m /\ Head(ready) = ready[1]
        /\ ready' \in Seq(S) /\ Len(ready') = m - 1 /\ DOMAIN ready' = 1..(m - 1)
    BY <1>2, <2>1, <2>2
  <2>4. \A i \in 1..(m - 1) : ready'[i] = ready[i + 1] /\ i + 1 \in 1..m
    BY <1>2, <2>1, <2>2, <2>3, HeadTailProperties
  <2>5. Cardinality(pending) \in Nat /\ Capacity \in Nat
    BY FS_CardinalityType, EventAssumption, Zenon DEF DispInv
  <2>6. DispatcherBounded'
    BY <2>1, <2>3, <2>5 DEF DispInv, DispatcherBounded
  <2>7. \A i \in DOMAIN ready' : ready'[i].key \in Nat /\ ready'[i].key < nextKey'
    BY <2>1, <2>3, <2>4, Zenon DEF DispInv
  <2>8. Head(ready).key \in ReadyKeys /\ Head(ready).key \in Nat /\ Head(ready).key < nextKey
    BY <2>3 DEF DispInv, ReadyKeys
  <2>9. \A i \in 1..(m - 1) : ready'[i].key \in ReadyKeys /\ ready'[i].key # Head(ready).key
    <3> SUFFICES ASSUME NEW i \in 1..(m - 1)
                 PROVE  ready'[i].key \in ReadyKeys /\ ready'[i].key # Head(ready).key
      BY Zenon
    <3>1. ready'[i] = ready[i + 1] /\ i + 1 \in DOMAIN ready /\ 1 \in DOMAIN ready /\ i + 1 # 1
      BY <2>3, <2>4
    <3> QED BY <3>1, <2>3, Zenon DEF DispInv, AnsweredOnce, ReadyKeys
  <2>10. \A i, j \in DOMAIN ready' : ready'[i].key = ready'[j].key => i = j
    <3> SUFFICES ASSUME NEW i \in 1..(m - 1), NEW j \in 1..(m - 1), ready'[i].key = ready'[j].key
                 PROVE  i = j
      BY <2>3, Zenon
    <3>1. i + 1 \in DOMAIN ready /\ j + 1 \in DOMAIN ready /\ ready[i + 1].key = ready[j + 1].key
      BY <2>3, <2>4, Zenon
    <3>2. i + 1 = j + 1
      BY <3>1, Zenon DEF DispInv, AnsweredOnce
    <3> QED BY <3>2, <2>3
  <2>11. PendingKeys' = PendingKeys
    BY <2>1, Zenon DEF PendingKeys
  <2>12. ReadyKeys' \subseteq ReadyKeys /\ Head(ready).key \notin ReadyKeys'
    BY <2>3, <2>9, Zenon DEF ReadyKeys
  <2>13. AnsweredOnce'
    BY <2>1, <2>8, <2>10, <2>11, <2>12 DEF DispInv, AnsweredOnce
  <2>14. \E R : ready' \in Seq(R)
    BY <2>3, Zenon
  <2>15. \A k \in popped' : k \in Nat /\ k < nextKey'
    BY <2>1, <2>8, Zenon DEF DispInv
  <2> QED BY <2>1, <2>6, <2>7, <2>13, <2>14, <2>15, Zenon DEF DispInv
<1> QED BY <1>1, <1>2, Zenon

\* Every step keeps the invariant: pushes, pops and drains touch it, nothing else.
LEMMA NextOK ==
    ASSUME DispInv, [Next]_vars
    PROVE  DispInv'
<1>1. CASE UNCHANGED vars
  BY <1>1, DispInvUnchanged, Zenon DEF vars
<1>2. ASSUME NEW t \in Task, Kernel(t) PROVE DispInv'
  <2>1. CASE VisitDispatcher(t)
    <3>1. Matching(Top(t).signal, FALSE) \in SUBSET pending
      BY Zenon DEF Matching
    <3>2. UNCHANGED <<popped, nextKey>>
      BY <2>1, Zenon DEF VisitDispatcher
    <3>3. UNCHANGED <<pending, ready>> \/ Drain(Matching(Top(t).signal, FALSE), Top(t).signal, FALSE)
      BY <2>1, Zenon DEF VisitDispatcher
    <3> QED BY <3>1, <3>2, <3>3, DrainOK, DispInvUnchanged, Zenon
  <2>2. CASE CancelDispatcher(t)
    <3>1. Matching(Top(t).signal, FALSE) \in SUBSET pending
      BY Zenon DEF Matching
    <3>2. UNCHANGED <<popped, nextKey>> /\ Drain(Matching(Top(t).signal, FALSE), Top(t).signal, TRUE)
      BY <2>2, Zenon DEF CancelDispatcher
    <3> QED BY <3>1, <3>2, DrainOK, Zenon
  <2>3. CASE PushTry(t)
    <3>1. Matching(loc[t].signal, TRUE) \in SUBSET pending
      BY Zenon DEF Matching
    <3>2. UNCHANGED <<popped, nextKey>>
      BY <2>3, Zenon DEF PushTry
    <3>3. UNCHANGED <<pending, ready>> \/ Drain(Matching(loc[t].signal, TRUE), loc[t].signal, FALSE)
      BY <2>3, Zenon DEF PushTry
    <3> QED BY <3>1, <3>2, <3>3, DrainOK, DispInvUnchanged, Zenon
  <2>4. CASE \/ BlockerInsert(t) \/ BlockerWait(t) \/ BlockerStatus(t) \/ BlockerUnwait(t)
             \/ BlockerReturn(t) \/ NotifyCas(t) \/ NotifyStart(t) \/ CancelTake(t) \/ WalkEnd(t)
             \/ (\E b \in Blocker : VisitBlocker(t, b)) \/ PushLoad(t) \/ PushInsert(t)
    <3>1. UNCHANGED <<pending, ready, popped, nextKey>>
      BY <2>4, Zenon DEF BlockerInsert, BlockerWait, BlockerStatus, BlockerUnwait, BlockerReturn, NotifyCas,
           NotifyStart, CancelTake, WalkEnd, VisitBlocker, PushLoad, PushInsert, dispVars
    <3> QED BY <3>1, DispInvUnchanged, Zenon
  <2> QED BY <1>2, <2>1, <2>2, <2>3, <2>4, Zenon DEF Kernel
<1>3. ASSUME NEW t \in Task, UserCall(t) PROVE DispInv'
  <2>1. CASE \E want \in Want, level \in BOOLEAN : DispPush(t, want, level)
    BY <2>1, PushOK, Zenon
  <2>2. CASE DispPop(t)
    BY <2>2, PopOK, ZenonT(30)
  <2>3. CASE \/ \E args \in Waits : ObjWait(t, args)
             \/ \E n \in Notes : EventNotify(t, n[1], n[2])
             \/ EventCancel(t)
    <3>1. UNCHANGED <<pending, ready, popped, nextKey>>
      BY <2>3, Zenon DEF ObjWait, EventNotify, EventCancel, dispVars
    <3> QED BY <3>1, DispInvUnchanged, Zenon
  <2> QED BY <1>3, <2>1, <2>2, <2>3, Zenon DEF UserCall
<1>4. ASSUME NEW t \in Task, BlockerTimeout(t) PROVE DispInv'
  <2>1. UNCHANGED <<pending, ready, popped, nextKey>>
    BY <1>4, Zenon DEF BlockerTimeout, dispVars
  <2> QED BY <2>1, DispInvUnchanged, Zenon
<1> QED BY <1>1, <1>2, <1>3, <1>4, Zenon DEF Next

\* The empty dispatcher.
LEMMA InitOK == Init => DispInv
<1> SUFFICES ASSUME Init PROVE DispInv
  BY Zenon
<1>1. pending = {} /\ ready = <<>> /\ popped = {} /\ nextKey = 1
  BY Zenon DEF Init
<1>2. IsFiniteSet(pending) /\ Cardinality(pending) = 0 /\ Capacity \in Nat
  BY <1>1, FS_EmptySet, EventAssumption, Zenon
<1>3. ready \in Seq({}) /\ Len(ready) = 0 /\ DOMAIN ready = {}
  BY <1>1
<1>4. AnsweredOnce
  BY <1>1, <1>3, Zenon DEF AnsweredOnce, PendingKeys, ReadyKeys
<1>5. DispatcherBounded
  BY <1>2, <1>3 DEF DispatcherBounded
<1> QED BY <1>1, <1>2, <1>3, <1>4, <1>5, ZenonT(30) DEF DispInv

\* Dispatcher::push, pop, try_on_notify and on_cancel keep pending.len() +
\* ready.len() within the capacity, so the subtraction in push never underflows.
THEOREM CapacityHolds == Spec => []DispatcherBounded
<1>1. DispInv => DispatcherBounded
  BY ZenonT(30) DEF DispInv
<1> QED BY InitOK, NextOK, <1>1, PTL DEF Spec

\* No request of a dispatcher is answered twice.
THEOREM EachAnsweredOnce == Spec => []AnsweredOnce
<1>1. DispInv => AnsweredOnce
  BY Zenon DEF DispInv
<1> QED BY InitOK, NextOK, <1>1, PTL DEF Spec
-----------------------------------------------------------------------------
\* The keys that are somewhere in the dispatcher or were returned.
Known == PendingKeys \cup ReadyKeys \cup popped

\* An enumeration in the order of the keys leaves out none of the requests: it is
\* injective, and as long as the set.
LEMMA KeyOrderCovers ==
    ASSUME DispInv, NEW hit \in SUBSET pending, NEW s \in InKeyOrder(hit), NEW x \in hit
    PROVE  \E i \in 1..Cardinality(hit) : s[i] = x
<1> DEFINE n == Cardinality(hit)
<1>1. IsFiniteSet(hit) /\ n \in Nat /\ (1..n) \in SUBSET Int
  BY FS_Subset, FS_CardinalityType DEF DispInv
<1>2. s \in [1..n -> hit] /\ \A i, j \in 1..n : i < j => s[i].key < s[j].key
  BY Zenon DEF InKeyOrder
<1>3. \A i \in 1..n : s[i].key \in Nat
  BY <1>2, Zenon DEF DispInv
<1>4. ASSUME NEW i \in 1..n, NEW j \in 1..n, s[i] = s[j] PROVE i = j
  <2>1. ~(s[i].key < s[j].key) /\ ~(s[j].key < s[i].key)
    BY <1>3, <1>4
  <2> QED BY <1>1, <1>2, <2>1
<1>5. s \in Injection(1..n, hit)
  BY <1>2, <1>4, Zenon DEF Injection, IsInjective
<1>6. Cardinality(1..n) = n
  BY <1>1, FS_Interval
<1>7. s \in Surjection(1..n, hit)
  BY <1>1, <1>5, <1>6, FS_Injection, Zenon
<1> QED BY <1>7, Zenon DEF Surjection

\* What drain_filter takes out of pending it puts into ready, all of it.
LEMMA DrainKeeps ==
    ASSUME DispInv, NEW hit \in SUBSET pending, NEW sig, NEW canceled,
           Drain(hit, sig, canceled), UNCHANGED popped
    PROVE  Known \subseteq Known'
<1>1. IsFiniteSet(hit)
  BY FS_Subset, Zenon DEF DispInv
<1>2. PICK s \in InKeyOrder(hit) : ready' = ready \o ToReady(s, sig, canceled)
  BY Zenon DEF Drain
<1> DEFINE q == ToReady(s, sig, canceled)
           m == Len(ready)
           n == Cardinality(hit)
<1>3. PICK T : q \in Seq(T)
  BY <1>1, ToReadyProps, Zenon
<1>4. Len(q) = n /\ n \in Nat /\ \A i \in 1..n : q[i].key = s[i].key
  BY <1>1, ToReadyProps, FS_CardinalityType
<1>5. PICK S : ready \in Seq(S)
  BY Zenon DEF DispInv
<1>6. ready \in Seq(S \cup T) /\ q \in Seq(S \cup T)
  <2> HIDE DEF q
  <2> QED BY <1>3, <1>5, SeqMonotonic, Zenon
<1>7. /\ m \in Nat /\ DOMAIN ready = 1..m /\ DOMAIN ready' = 1..(m + n)
      /\ \A i \in 1..m : ready'[i] = ready[i]
      /\ \A i \in 1..n : m + i \in 1..(m + n) /\ ready'[m + i] = q[i]
  <2> HIDE DEF q
  <2>1. /\ ready' \in Seq(S \cup T) /\ Len(ready') = m + n /\ m \in Nat
        /\ \A i \in 1..(m + n) : ready'[i] = IF i <= m THEN ready[i] ELSE q[i - m]
    BY <1>2, <1>4, <1>6, ConcatProperties, LenProperties, ZenonT(30) DEF q
  <2>2. DOMAIN ready' = 1..(m + n) /\ DOMAIN ready = 1..m
    BY <1>6, <2>1, LenProperties, Zenon
  <2>3. \A i \in 1..m : i \in 1..(m + n) /\ i <= m
    BY <1>4, <2>1
  <2>4. \A i \in 1..n : m + i \in 1..(m + n) /\ ~(m + i <= m) /\ (m + i) - m = i
    BY <1>4, <2>1
  <2> QED BY <2>1, <2>2, <2>3, <2>4, Zenon
<1>8. ReadyKeys \subseteq ReadyKeys'
  BY <1>4, <1>7 DEF ReadyKeys
<1>9. ASSUME NEW x \in pending PROVE x.key \in PendingKeys' \cup ReadyKeys'
  <2>1. CASE x \in hit
    <3>1. PICK i \in 1..n : s[i] = x
      BY <2>1, KeyOrderCovers, ZenonT(30)
    <3>2. m + i \in DOMAIN ready' /\ ready'[m + i].key = x.key
      BY <1>4, <1>7, <3>1, Zenon
    <3> QED BY <3>2, Zenon DEF ReadyKeys
  <2>2. CASE x \notin hit
    BY <2>2, Zenon DEF Drain, PendingKeys
  <2> QED BY <2>1, <2>2, Zenon
<1> QED BY <1>8, <1>9, Zenon DEF Known, PendingKeys

\* The other steps of the dispatcher add keys, or move one from ready to popped.
LEMMA CallKeeps ==
    ASSUME DispInv, NEW t \in Task,
           \/ \E want \in Want, level \in BOOLEAN : DispPush(t, want, level)
           \/ DispPop(t)
    PROVE  Known \subseteq Known'
<1>1. CASE \E want \in Want, level \in BOOLEAN : DispPush(t, want, level)
  <2>1. pending \subseteq pending' /\ ready' = ready /\ popped' = popped
    BY <1>1, Zenon DEF DispPush
  <2> QED BY <2>1, Zenon DEF Known, PendingKeys, ReadyKeys
<1>2. CASE DispPop(t)
  <2>1. CASE ready = <<>>
    BY <1>2, <2>1, Zenon DEF DispPop, Known, PendingKeys, ReadyKeys
  <2>2. CASE ready # <<>>
    <3>1. ready' = Tail(ready) /\ popped' = popped \cup {Head(ready).key} /\ pending' = pending
      BY <1>2, <2>2, Zenon DEF DispPop
    <3>2. PICK S : ready \in Seq(S)
      BY Zenon DEF DispInv
    <3> DEFINE m == Len(ready)
    <3>3. /\ m \in Nat /\ m > 0 /\ DOMAIN ready = 1..m /\ Head(ready) = ready[1]
          /\ DOMAIN ready' = 1..(m - 1)
      BY <2>2, <3>1, <3>2
    <3>4. \A i \in 1..(m - 1) : ready'[i] = ready[i + 1]
      BY <2>2, <3>1, <3>2, <3>3, HeadTailProperties, ZenonT(30)
    <3>5. ASSUME NEW i \in DOMAIN ready PROVE ready[i].key \in ReadyKeys' \cup popped'
      <4>1. CASE i = 1
        BY <4>1, <3>1, <3>3, Zenon
      <4>2. CASE i # 1
        <5>1. i - 1 \in 1..(m - 1) /\ (i - 1) + 1 = i
          BY <4>2, <3>3
        <5>2. ready'[i - 1] = ready[i]
          BY <5>1, <3>4, Zenon
        <5> QED BY <5>1, <5>2, <3>3, ZenonT(30) DEF ReadyKeys
      <4> QED BY <4>1, <4>2, Zenon
    <3> QED BY <3>1, <3>5, ZenonT(30) DEF Known, PendingKeys, ReadyKeys
  <2> QED BY <2>1, <2>2, Zenon
<1> QED BY <1>1, <1>2, Zenon

\* No step loses a request.
LEMMA StepKeeps ==
    ASSUME DispInv, [Next]_vars
    PROVE  Known \subseteq Known'
<1>0. ASSUME UNCHANGED <<pending, ready, popped>> PROVE Known \subseteq Known'
  BY <1>0, Zenon DEF Known, PendingKeys, ReadyKeys
<1>1. CASE UNCHANGED vars
  BY <1>0, <1>1, Zenon DEF vars, dispVars
<1>2. ASSUME NEW t \in Task, Kernel(t) PROVE Known \subseteq Known'
  <2>1. CASE VisitDispatcher(t)
    <3>1. Matching(Top(t).signal, FALSE) \in SUBSET pending
      BY Zenon DEF Matching
    <3>2. /\ UNCHANGED popped
          /\ UNCHANGED <<pending, ready>> \/ Drain(Matching(Top(t).signal, FALSE), Top(t).signal, FALSE)
      BY <2>1, Zenon DEF VisitDispatcher
    <3> QED BY <1>0, <3>1, <3>2, DrainKeeps, ZenonT(30)
  <2>2. CASE CancelDispatcher(t)
    <3>1. Matching(Top(t).signal, FALSE) \in SUBSET pending
      BY Zenon DEF Matching
    <3>2. UNCHANGED popped /\ Drain(Matching(Top(t).signal, FALSE), Top(t).signal, TRUE)
      BY <2>2, Zenon DEF CancelDispatcher
    <3> QED BY <3>1, <3>2, DrainKeeps, Zenon
  <2>3. CASE PushTry(t)
    <3>1. Matching(loc[t].signal, TRUE) \in SUBSET pending
      BY Zenon DEF Matching
    <3>2. /\ UNCHANGED popped
          /\ UNCHANGED <<pending, ready>> \/ Drain(Matching(loc[t].signal, TRUE), loc[t].signal, FALSE)
      BY <2>3, Zenon DEF PushTry
    <3> QED BY <1>0, <3>1, <3>2, DrainKeeps, ZenonT(30)
  <2>4. CASE \/ BlockerInsert(t) \/ BlockerWait(t) \/ BlockerStatus(t) \/ BlockerUnwait(t)
             \/ BlockerReturn(t) \/ NotifyCas(t) \/ NotifyStart(t) \/ CancelTake(t) \/ WalkEnd(t)
             \/ (\E b \in Blocker : VisitBlocker(t, b)) \/ PushLoad(t) \/ PushInsert(t)
    <3>1. UNCHANGED <<pending, ready, popped>>
      BY <2>4, Zenon DEF BlockerInsert, BlockerWait, BlockerStatus, BlockerUnwait, BlockerReturn, NotifyCas,
           NotifyStart, CancelTake, WalkEnd, VisitBlocker, PushLoad, PushInsert, dispVars
    <3> QED BY <1>0, <3>1, Zenon
  <2> QED BY <1>2, <2>1, <2>2, <2>3, <2>4, ZenonT(30) DEF Kernel
<1>3. ASSUME NEW t \in Task, UserCall(t) PROVE Known \subseteq Known'
  <2>1. CASE (\E want \in Want, level \in BOOLEAN : DispPush(t, want, level)) \/ DispPop(t)
    BY <2>1, CallKeeps, ZenonT(30)
  <2>2. CASE \/ \E args \in Waits : ObjWait(t, args)
             \/ \E n \in Notes : EventNotify(t, n[1], n[2])
             \/ EventCancel(t)
    <3>1. UNCHANGED <<pending, ready, popped>>
      BY <2>2, ZenonT(30) DEF ObjWait, EventNotify, EventCancel, dispVars
    <3> QED BY <1>0, <3>1, Zenon
  <2> QED BY <1>3, <2>1, <2>2, Zenon DEF UserCall
<1>4. ASSUME NEW t \in Task, BlockerTimeout(t) PROVE Known \subseteq Known'
  <2>1. UNCHANGED <<pending, ready, popped>>
    BY <1>4, Zenon DEF BlockerTimeout, dispVars
  <2> QED BY <1>0, <2>1, Zenon
<1> QED BY <1>1, <1>2, <1>3, <1>4, ZenonT(30) DEF Next

\* A request that push accepted stays with the dispatcher until pop returns it:
\* notifications, cancellations and pops of other requests lose none.
THEOREM NothingForgotten == Spec => NeverForgotten
<1>1. DispInv /\ [Next]_vars =>
         [PendingKeys \cup ReadyKeys \cup popped
            \subseteq PendingKeys' \cup ReadyKeys' \cup popped']_vars
  BY StepKeeps, Zenon DEF Known
<1> QED BY InitOK, NextOK, <1>1, PTL DEF Spec, NeverForgotten


-----------------------------------------------------------------------------
\* The labels of a task inside obj_wait, and all of them.
WaitPc == {"bInsert", "bWait", "asleep", "bStatus", "bUnwait", "bReturn"}
PcSet == WaitPc \cup {"user", "walk", "pLoad", "pTry", "pInsert"}
Status == [has : BOOLEAN, signal : SUBSET Bit]

EvTypes ==
    /\ signal \in [Ev -> SUBSET Bit] /\ waiters \in [Ev -> SUBSET (Blocker \cup {Disp})]
    /\ blk \in [Blocker -> Args \cup {None}] /\ status \in [Blocker -> Status]
    /\ asleep \in SUBSET Blocker
    /\ calls \in [Task -> Nat] /\ pc \in [Task -> PcSet]
    /\ walk \in [Task -> Seq(Frame)] /\ after \in [Task -> {"user", "pInsert"}]
    /\ loc \in [Task -> Status]

\* A task is in a notification exactly while it has a frame of one.
WalkShape == \A t \in Task : pc[t] = "walk" <=> walk[t] # <<>>

\* A task inside obj_wait has a blocker with arguments.
CurOK ==
    \A t \in Task : /\ calls[t] <= Budget[t]
                    /\ pc[t] \in WaitPc => Cur(t) \in Blocker /\ blk[Cur(t)] \in Args

\* A sleeping blocker is the current one of a sleeping task, and has no signal.
SleepOK ==
    \A b \in asleep : \E t \in Task : b = Cur(t) /\ pc[t] = "asleep" /\ status[b].signal = {}

\* What happened to a blocker that is no longer among the waiters.
Ended(b) == blk[b].want \subseteq status[b].signal \/ ~status[b].has \/ CancelHas(b)

\* From its registration on, the blocker of a task is registered or has ended.
Covered ==
    \A t \in Task : pc[t] \in {"bWait", "asleep", "bStatus", "bUnwait"} =>
        Cur(t) \in waiters[blk[Cur(t)].ev] \/ Ended(Cur(t))

WaitInv == CurOK /\ SleepOK /\ Covered /\ OkWasSignalled
EventInv == EvTypes /\ WalkShape /\ WaitInv /\ PendingCovered

\* The dispatcher is not the blocker of a task; a blocker is a task's.
LEMMA BlockerIs ==
    ASSUME NEW b \in Blocker
    PROVE  /\ \E t \in Task : \E n \in 1..Budget[t] : b = <<t, n>>
           /\ b # Disp
<1>1. \E t \in Task : \E n \in 1..Budget[t] : b = <<t, n>>
  BY DEF Blocker
<1> QED BY <1>1, EventAssumption DEF Disp

\* A call number within the budget names a blocker.
LEMMA BlockerMade ==
    ASSUME NEW t \in Task, NEW n \in 1..Budget[t]
    PROVE  <<t, n>> \in Blocker
BY DEF Blocker

\* A cancel walk of the frames s has yet to visit b.
HasIn(s, b) == \E i \in DOMAIN s : s[i].step = "cancel" /\ b \in s[i].todo

\* A frame in front of others.
LEMMA HasCons ==
    ASSUME NEW f \in Frame, NEW r \in Seq(Frame), NEW b
    PROVE  /\ <<f>> \o r \in Seq(Frame) /\ <<f>> \o r # <<>>
           /\ HasIn(<<f>> \o r, b) <=> (f.step = "cancel" /\ b \in f.todo) \/ HasIn(r, b)
<1>0. <<f>> \o r \in Seq(Frame)
  <2>1. <<f>> \in Seq(Frame)
    OBVIOUS
  <2> QED BY <2>1, ConcatProperties, Zenon
<1>1. PICK s \in Seq(Frame) : s = <<f>> \o r
  BY <1>0, Zenon
<1>2. Len(s) = Len(r) + 1 /\ s[1] = f /\ \A i \in 1..Len(r) : s[i + 1] = r[i]
  BY <1>1
<1>3. \A i \in DOMAIN s : i = 1 \/ (i - 1 \in DOMAIN r /\ s[i] = r[i - 1])
  BY <1>2
<1>4. \A i \in DOMAIN r : i + 1 \in DOMAIN s /\ s[i + 1] = r[i]
  BY <1>2
<1>5. ASSUME HasIn(s, b) PROVE (f.step = "cancel" /\ b \in f.todo) \/ HasIn(r, b)
  BY <1>2, <1>3, <1>5, ZenonT(30) DEF HasIn
<1>6. ASSUME (f.step = "cancel" /\ b \in f.todo) \/ HasIn(r, b) PROVE HasIn(s, b)
  <2>1. 1 \in DOMAIN s
    BY <1>2
  <2> QED BY <1>2, <1>4, <1>6, <2>1, ZenonT(30) DEF HasIn
<1> QED BY <1>1, <1>2, <1>5, <1>6

\* A task in a notification has an innermost frame.
LEMMA WalkTop ==
    ASSUME EvTypes, WalkShape, NEW t \in Task, pc[t] = "walk"
    PROVE  \E f \in Frame, r \in Seq(Frame) :
             /\ walk[t] = <<f>> \o r /\ Top(t) = f /\ Tail(walk[t]) = r
             /\ Len(walk[t]) = 1 <=> r = <<>>
<1>1. PICK s \in Seq(Frame) : s = walk[t]
  BY Zenon DEF EvTypes
<1>2. s # <<>>
  BY <1>1, Zenon DEF WalkShape
<1>3. Head(s) \in Frame /\ Tail(s) \in Seq(Frame) /\ s = <<Head(s)>> \o Tail(s)
  BY <1>2
<1>4. Len(s) = 1 <=> Tail(s) = <<>>
  <2>1. Len(Tail(s)) = Len(s) - 1 /\ Len(s) \in Nat
    BY <1>2, HeadTailProperties
  <2>2. Tail(s) = <<>> <=> Len(Tail(s)) = 0
    BY <1>3, EmptySeq, Zenon
  <2> QED BY <2>1, <2>2
<1> QED BY <1>1, <1>3, <1>4, ZenonT(30) DEF Top

\* A cancel that has b keeps it when the frames of no task lose it.
LEMMA HasStays ==
    ASSUME NEW b, \A t \in Task : HasIn(walk[t], b) => HasIn(walk'[t], b)
    PROVE  CancelHas(b) => CancelHas(b)'
BY Zenon DEF CancelHas, HasIn

\* A step of a notification replaces the innermost frame f of t by X: a cancel
\* keeps what X keeps.
LEMMA WalkStep ==
    ASSUME EvTypes, NEW t \in Task, NEW f \in Frame, NEW r \in Seq(Frame), walk[t] = <<f>> \o r,
           NEW X \in Seq(Frame), walk' = [walk EXCEPT ![t] = X], NEW b,
           HasIn(r, b) => HasIn(X, b),
           f.step = "cancel" /\ b \in f.todo => HasIn(X, b)
    PROVE  CancelHas(b) => CancelHas(b)'
<1>1. \A u \in Task : walk'[u] = IF u = t THEN X ELSE walk[u]
  BY Zenon DEF EvTypes
<1>2. HasIn(walk[t], b) => HasIn(X, b)
  BY HasCons
<1> QED BY <1>1, <1>2, HasStays, Zenon

\* The frames of the dispatcher's own notifications, and of a call's.
LEMMA FrameMade ==
    ASSUME NEW e \in Ev, NEW c \in SUBSET Bit, NEW s \in SUBSET Bit
    PROVE  /\ Notification(e, c, s) \in Frame /\ ReadyUp \in Frame /\ NoFrame \in Frame
           /\ [NoFrame EXCEPT !.step = "take", !.signal = s] \in Frame
           /\ NoStatus \in Status
BY Zenon DEF Notification, ReadyUp, NoFrame, Frame, Ev, Bit, NoStatus, Status

\* What a step of a task t outside obj_wait does to the waits of the others: the
\* map loses a blocker only to a cancel, and a cancel keeps it.
LEMMA OthersKept ==
    ASSUME EvTypes, WaitInv, NEW t \in Task, pc[t] \notin WaitPc, pc'[t] \notin WaitPc,
           calls'[t] <= Budget[t],
           \A u \in Task \ {t} : pc'[u] = pc[u] /\ calls'[u] = calls[u] /\ loc'[u] = loc[u],
           UNCHANGED <<blk, status, asleep>>,
           \A e \in Ev, b \in Blocker : b \in waiters[e] => b \in waiters'[e] \/ CancelHas(b)',
           \A b \in Blocker : CancelHas(b) => CancelHas(b)'
    PROVE  WaitInv'
<1>1. \A u \in Task : pc'[u] \in WaitPc => u # t /\ pc'[u] = pc[u] /\ Cur(u)' = Cur(u) /\ loc'[u] = loc[u]
  BY Zenon DEF Cur
<1>2. \A u \in Task : pc[u] \in WaitPc => u # t
  BY Zenon
<1>3. CurOK'
  BY <1>1, Zenon DEF WaitInv, CurOK
<1>4. SleepOK'
  <2> SUFFICES ASSUME NEW b \in asleep' PROVE \E u \in Task : (b = Cur(u) /\ pc[u] = "asleep" /\ status[b].signal = {})'
    BY Zenon DEF SleepOK
  <2>1. PICK u \in Task : b = Cur(u) /\ pc[u] = "asleep" /\ status[b].signal = {}
    BY Zenon DEF WaitInv, SleepOK
  <2>2. u # t
    BY <2>1, Zenon DEF WaitPc
  <2> QED BY <2>1, <2>2, Zenon DEF Cur
<1>5. \A b \in Blocker : Ended(b) => Ended(b)'
  BY Zenon DEF Ended
<1>6. Covered'
  <2> SUFFICES ASSUME NEW u \in Task, pc'[u] \in {"bWait", "asleep", "bStatus", "bUnwait"}
               PROVE  Cur(u)' \in waiters'[blk'[Cur(u)'].ev] \/ Ended(Cur(u))'
    BY Zenon DEF Covered
  <2>1. pc[u] = pc'[u] /\ Cur(u)' = Cur(u) /\ pc[u] \in WaitPc
    BY <1>1, Zenon DEF WaitPc
  <2>2. PICK b \in Blocker : b = Cur(u) /\ blk[b] \in Args
    BY <2>1, Zenon DEF WaitInv, CurOK
  <2>3. b \in waiters[blk[b].ev] \/ Ended(b)
    BY <2>1, <2>2, Zenon DEF WaitInv, Covered
  <2>4. blk[b].ev \in Ev /\ blk' = blk
    BY <2>2, Zenon DEF Args
  <2>5. b \in waiters'[blk[b].ev] \/ Ended(b)'
    BY <1>5, <2>3, <2>4, Zenon DEF Ended
  <2> QED BY <2>1, <2>2, <2>4, <2>5 DEF Ended, CancelHas
<1>7. OkWasSignalled'
  <2> SUFFICES ASSUME NEW u \in Task, pc'[u] = "bReturn", loc'[u].has
               PROVE  \/ blk'[Cur(u)'].want \subseteq status'[Cur(u)'].signal
                      \/ ~status'[Cur(u)'].has \/ CancelHas(Cur(u))'
    BY Zenon DEF OkWasSignalled
  <2>1. pc[u] = "bReturn" /\ Cur(u)' = Cur(u) /\ loc[u].has
    BY <1>1, Zenon DEF WaitPc
  <2>2. PICK b \in Blocker : b = Cur(u)
    BY <2>1, Zenon DEF WaitInv, CurOK, WaitPc
  <2>3. blk[b].want \subseteq status[b].signal \/ ~status[b].has \/ CancelHas(b)
    BY <2>1, <2>2, Zenon DEF WaitInv, OkWasSignalled
  <2> QED BY <2>1, <2>2, <2>3 DEF CancelHas
<1> QED BY <1>3, <1>4, <1>6, <1>7, Zenon DEF WaitInv

-----------------------------------------------------------------------------
\* A push that is under way registers the dispatcher before it returns.
Pusher(t) == pc[t] \in {"pLoad", "pTry", "pInsert"} \/ (pc[t] = "walk" /\ after[t] = "pInsert")

\* The requests stay covered when none is added, the dispatcher stays registered
\* and no push gives up.
LEMMA PendKept ==
    ASSUME PendingCovered, pending' \subseteq pending, cut \subseteq cut',
           Disp \in waiters["obj"] => Disp \in waiters'["obj"],
           \A t \in Task : Pusher(t) => Pusher(t)'
    PROVE  PendingCovered'
<1>1. PendingKeys' \subseteq PendingKeys
  BY Zenon DEF PendingKeys
<1> QED BY <1>1, Zenon DEF PendingCovered, Pusher

\* The dispatcher's own notification and the frames below keep what a cancel has.
LEMMA HasPushed ==
    ASSUME NEW g \in Frame, NEW r \in Seq(Frame), NEW up \in {<<>>, <<ReadyUp>>}, NEW b
    PROVE  /\ up \o <<g>> \o r \in Seq(Frame) /\ up \o <<g>> \o r # <<>>
           /\ HasIn(<<g>> \o r, b) => HasIn(up \o <<g>> \o r, b)
<1>1. PICK s \in Seq(Frame) : s = <<g>> \o r /\ s # <<>>
  BY HasCons, Zenon
<1>2. CASE up = <<>>
  <2>1. up \o <<g>> = <<g>>
    BY <1>2
  <2> QED BY <1>1, <2>1, Zenon
<1>3. CASE up = <<ReadyUp>>
  <2>1. ReadyUp \in Frame
    BY FrameMade, Zenon DEF Ev, Bit
  <2>2. up \o <<g>> \o r = <<ReadyUp>> \o s
    <3>1. up \in Seq(Frame) /\ <<g>> \in Seq(Frame)
      BY <1>3, <2>1
    <3>2. (up \o <<g>>) \o r = up \o (<<g>> \o r)
      BY <3>1, ConcatAssociative
    <3> QED BY <1>1, <1>3, <3>2, ZenonT(30)
  <2> QED BY <1>1, <2>1, <2>2, HasCons, ZenonT(30)
<1> QED BY <1>2, <1>3, Zenon

\* EventInv of a step of a notification by t that replaces its frames by X and
\* leaves the blockers alone.
LEMMA WalkInv ==
    ASSUME EventInv, NEW t \in Task, pc[t] = "walk", NEW f \in Frame, NEW r \in Seq(Frame),
           walk[t] = <<f>> \o r, NEW X \in Seq(Frame), walk' = [walk EXCEPT ![t] = X],
           pc' = [pc EXCEPT ![t] = IF X = <<>> THEN after[t] ELSE "walk"],
           \A b \in Blocker : HasIn(r, b) => HasIn(X, b),
           \A b \in Blocker : f.step = "cancel" /\ b \in f.todo => HasIn(X, b),
           \A e \in Ev, b \in Blocker : b \in waiters[e] => b \in waiters'[e] \/ HasIn(X, b),
           signal' \in [Ev -> SUBSET Bit], waiters' \in [Ev -> SUBSET (Blocker \cup {Disp})],
           UNCHANGED <<blkVars, calls, after, loc>>
    PROVE  /\ EvTypes' /\ WalkShape' /\ WaitInv'
           /\ \A u \in Task : Pusher(u) => Pusher(u)'
<1>1. \A u \in Task : walk'[u] = IF u = t THEN X ELSE walk[u]
  BY Zenon DEF EventInv, EvTypes
<1>2. \A u \in Task : pc'[u] = IF u = t THEN (IF X = <<>> THEN after[t] ELSE "walk") ELSE pc[u]
  BY Zenon DEF EventInv, EvTypes
<1>3. after[t] \in {"user", "pInsert"}
  BY Zenon DEF EventInv, EvTypes
<1>4. EvTypes'
  <2>1. walk' \in [Task -> Seq(Frame)]
    BY Zenon DEF EventInv, EvTypes
  <2>2. pc' \in [Task -> PcSet]
    BY <1>3, Zenon DEF EventInv, EvTypes, PcSet
  <2> QED BY <2>1, <2>2, Zenon DEF EventInv, EvTypes, blkVars
<1>5. WalkShape'
  BY <1>1, <1>2, <1>3 DEF EventInv, WalkShape
<1>6. \A b \in Blocker : CancelHas(b) => CancelHas(b)'
  BY WalkStep, Zenon DEF EventInv
<1>7. \A b \in Blocker : HasIn(X, b) => CancelHas(b)'
  BY <1>1 DEF CancelHas, HasIn
<1>8. calls[t] <= Budget[t]
  BY Zenon DEF EventInv, WaitInv, CurOK
<1>9. WaitInv'
  <2>1. pc[t] \notin WaitPc /\ pc'[t] \notin WaitPc
    BY <1>2, <1>3, Zenon DEF WaitPc
  <2>2. \A u \in Task \ {t} : pc'[u] = pc[u] /\ calls'[u] = calls[u] /\ loc'[u] = loc[u]
    BY <1>2, Zenon
  <2>3. UNCHANGED <<blk, status, asleep>> /\ calls' = calls
    BY Zenon DEF blkVars
  <2>4. \A e \in Ev, b \in Blocker : b \in waiters[e] => b \in waiters'[e] \/ CancelHas(b)'
    BY <1>7, Zenon
  <2> QED BY <1>6, <1>8, <2>1, <2>2, <2>3, <2>4, OthersKept, Zenon DEF EventInv
<1>10. \A u \in Task : Pusher(u) => Pusher(u)'
  BY <1>2, <1>3, ZenonT(30) DEF Pusher
<1> QED BY <1>4, <1>5, <1>9, <1>10, Zenon

\* notify_impl's exchange.
LEMMA NotifyCasEv ==
    ASSUME EventInv, NEW t \in Task, NotifyCas(t)
    PROVE  EventInv'
<1>1. pc[t] = "walk" /\ EvTypes /\ WalkShape /\ Top(t).step = "cas"
  BY Zenon DEF NotifyCas, EventInv
<1>2. PICK f \in Frame, r \in Seq(Frame) :
        /\ walk[t] = <<f>> \o r /\ Top(t) = f /\ Tail(walk[t]) = r
        /\ Len(walk[t]) = 1 <=> r = <<>>
  BY <1>1, WalkTop, ZenonT(30)
<1>3. PICK new \in SUBSET Bit : new = (signal[f.ev] \ f.clear) \cup f.set
  BY <1>1, <1>2, ZenonT(30) DEF EvTypes, Frame
<1>4. PICK g \in Frame : g = [f EXCEPT !.step = "start", !.signal = new]
  BY Zenon DEF Frame
<1>5. PICK X \in Seq(Frame) :
        /\ X = r \/ (X = <<g>> \o r /\ X # <<>>)
        /\ walk' = [walk EXCEPT ![t] = X]
        /\ pc' = [pc EXCEPT ![t] = IF X = <<>> THEN after[t] ELSE "walk"]
  <2>1. CASE new \subseteq signal[f.ev]
    <3>1. PopFrame(t)
      BY <1>2, <1>3, <2>1, ZenonT(30) DEF NotifyCas
    <3> QED BY <1>2, <3>1, ZenonT(30) DEF PopFrame, Go
  <2>2. CASE ~(new \subseteq signal[f.ev])
    <3>1. walk' = [walk EXCEPT ![t] = <<g>> \o r] /\ pc' = pc
      BY <1>2, <1>3, <1>4, <2>2, ZenonT(30) DEF NotifyCas, SetTop
    <3>2. <<g>> \o r \in Seq(Frame) /\ <<g>> \o r # <<>>
      BY HasCons, Zenon
    <3>3. pc' = [pc EXCEPT ![t] = "walk"]
      BY <1>1, <3>1, ZenonT(30) DEF EvTypes
    <3> QED BY <3>1, <3>2, <3>3, ZenonT(30)
  <2> QED BY <2>1, <2>2, ZenonT(30)
<1>6. \A b \in Blocker : HasIn(r, b) => HasIn(X, b)
  BY <1>5, HasCons, ZenonT(30)
<1>7. f.step # "cancel"
  BY <1>1, <1>2, ZenonT(30)
<1>8. signal' \in [Ev -> SUBSET Bit]
  BY <1>1, <1>2, <1>3, ZenonT(30) DEF NotifyCas, EvTypes
<1>9. UNCHANGED <<waiters, dispVars>> /\ UNCHANGED <<blkVars, calls, after, loc>>
  BY Zenon DEF NotifyCas
<1>10. waiters' = waiters /\ waiters' \in [Ev -> SUBSET (Blocker \cup {Disp})]
  BY <1>1, <1>9, ZenonT(30) DEF EvTypes
<1>11. EvTypes' /\ WalkShape' /\ WaitInv' /\ (\A u \in Task : Pusher(u) => Pusher(u)')
  BY <1>1, <1>2, <1>5, <1>6, <1>7, <1>8, <1>9, <1>10, WalkInv, ZenonT(30)
<1>12. PendingCovered'
  BY <1>9, <1>11, PendKept, ZenonT(30) DEF EventInv, dispVars
<1> QED BY <1>11, <1>12, Zenon DEF EventInv

\* The notification starts its walk over the waiters.
LEMMA NotifyStartEv ==
    ASSUME EventInv, NEW t \in Task, NotifyStart(t)
    PROVE  EventInv'
<1>1. pc[t] = "walk" /\ EvTypes /\ WalkShape /\ Top(t).step = "start"
  BY Zenon DEF NotifyStart, EventInv
<1>2. PICK f \in Frame, r \in Seq(Frame) :
        /\ walk[t] = <<f>> \o r /\ Top(t) = f /\ Tail(walk[t]) = r
        /\ Len(walk[t]) = 1 <=> r = <<>>
  BY <1>1, WalkTop, ZenonT(30)
<1>3. PICK g \in Frame : g = [f EXCEPT !.step = "notify", !.todo = waiters[f.ev]]
  BY <1>1, Zenon DEF Frame, EvTypes
<1>4. PICK X \in Seq(Frame) : X = <<g>> \o r /\ X # <<>>
  BY HasCons, Zenon
<1>5. walk' = [walk EXCEPT ![t] = X] /\ pc' = pc
  BY <1>2, <1>3, <1>4, ZenonT(30) DEF NotifyStart, SetTop
<1>6. pc' = [pc EXCEPT ![t] = IF X = <<>> THEN after[t] ELSE "walk"]
  BY <1>1, <1>4, <1>5, ZenonT(30) DEF EvTypes
<1>7. \A b \in Blocker : HasIn(r, b) => HasIn(X, b)
  BY <1>4, HasCons, Zenon
<1>8. f.step # "cancel"
  BY <1>1, <1>2, ZenonT(30)
<1>9. UNCHANGED <<objVars, dispVars>> /\ UNCHANGED <<blkVars, calls, after, loc>>
  BY Zenon DEF NotifyStart
<1>10. /\ signal' = signal /\ signal' \in [Ev -> SUBSET Bit]
       /\ waiters' = waiters /\ waiters' \in [Ev -> SUBSET (Blocker \cup {Disp})]
  BY <1>1, <1>9, ZenonT(30) DEF EvTypes, objVars
<1>11. EvTypes' /\ WalkShape' /\ WaitInv' /\ (\A u \in Task : Pusher(u) => Pusher(u)')
  BY <1>1, <1>2, <1>5, <1>6, <1>7, <1>8, <1>9, <1>10, WalkInv, ZenonT(30)
<1>12. PendingCovered'
  BY <1>9, <1>10, <1>11, PendKept, ZenonT(30) DEF EventInv, dispVars
<1> QED BY <1>11, <1>12, ZenonT(30) DEF EventInv

\* A walk ends: nobody is left to visit.
LEMMA WalkEndEv ==
    ASSUME EventInv, NEW t \in Task, WalkEnd(t)
    PROVE  EventInv'
<1>1. pc[t] = "walk" /\ EvTypes /\ WalkShape /\ Top(t).todo = {}
  BY Zenon DEF WalkEnd, EventInv
<1>2. PICK f \in Frame, r \in Seq(Frame) :
        /\ walk[t] = <<f>> \o r /\ Top(t) = f /\ Tail(walk[t]) = r
        /\ Len(walk[t]) = 1 <=> r = <<>>
  BY <1>1, WalkTop, ZenonT(30)
<1>3. /\ walk' = [walk EXCEPT ![t] = r]
      /\ pc' = [pc EXCEPT ![t] = IF r = <<>> THEN after[t] ELSE "walk"]
  BY <1>2, Zenon DEF WalkEnd, PopFrame, Go
<1>4. f.todo = {}
  BY <1>1, <1>2, Zenon
<1>5. UNCHANGED <<objVars, dispVars>> /\ UNCHANGED <<blkVars, calls, after, loc>>
  BY Zenon DEF WalkEnd
<1>6. /\ signal' = signal /\ signal' \in [Ev -> SUBSET Bit]
      /\ waiters' = waiters /\ waiters' \in [Ev -> SUBSET (Blocker \cup {Disp})]
  BY <1>1, <1>5, ZenonT(30) DEF EvTypes, objVars
<1>7. EvTypes' /\ WalkShape' /\ WaitInv' /\ (\A u \in Task : Pusher(u) => Pusher(u)')
  BY <1>1, <1>2, <1>3, <1>4, <1>5, <1>6, WalkInv, ZenonT(30)
<1>8. PendingCovered'
  BY <1>5, <1>6, <1>7, PendKept, ZenonT(30) DEF EventInv, dispVars
<1> QED BY <1>7, <1>8, ZenonT(30) DEF EventInv

\* A cancel takes the whole map: its frame has every blocker that was in it, and
\* the requests that are pending are cut off.
LEMMA CancelTakeEv ==
    ASSUME EventInv, NEW t \in Task, CancelTake(t)
    PROVE  EventInv'
<1>1. pc[t] = "walk" /\ EvTypes /\ WalkShape /\ Top(t).step = "take"
  BY Zenon DEF CancelTake, EventInv
<1>2. PICK f \in Frame, r \in Seq(Frame) :
        /\ walk[t] = <<f>> \o r /\ Top(t) = f /\ Tail(walk[t]) = r
        /\ Len(walk[t]) = 1 <=> r = <<>>
  BY <1>1, WalkTop, ZenonT(30)
<1>3. PICK g \in Frame : g = [f EXCEPT !.step = "cancel", !.todo = waiters[f.ev]]
  BY <1>1, ZenonT(30) DEF Frame, EvTypes
<1>4. PICK X \in Seq(Frame) : X = <<g>> \o r /\ X # <<>>
  BY HasCons, Zenon
<1>5. /\ walk' = [walk EXCEPT ![t] = X] /\ pc' = pc
      /\ waiters' = [waiters EXCEPT ![f.ev] = {}]
      /\ cut' = IF Disp \in waiters[f.ev] THEN cut \cup PendingKeys ELSE cut
  BY <1>2, <1>3, <1>4, ZenonT(30) DEF CancelTake, SetTop, PendingKeys
<1>6. pc' = [pc EXCEPT ![t] = IF X = <<>> THEN after[t] ELSE "walk"]
  BY <1>1, <1>4, <1>5, ZenonT(30) DEF EvTypes
<1>7. \A b \in Blocker : HasIn(r, b) => HasIn(X, b)
  BY <1>4, HasCons, Zenon
<1>8. f.step # "cancel" /\ f.ev \in Ev /\ g.step = "cancel" /\ g.todo = waiters[f.ev]
  BY <1>1, <1>2, <1>3, ZenonT(30) DEF Frame
<1>9. UNCHANGED <<signal, pending>> /\ UNCHANGED <<blkVars, calls, after, loc>>
  BY Zenon DEF CancelTake
<1>10. signal' \in [Ev -> SUBSET Bit] /\ waiters' \in [Ev -> SUBSET (Blocker \cup {Disp})]
  BY <1>1, <1>5, <1>9, ZenonT(30) DEF EvTypes
<1>11. \A e \in Ev, b \in Blocker : b \in waiters[e] => b \in waiters'[e] \/ HasIn(X, b)
  <2> SUFFICES ASSUME NEW e \in Ev, NEW b \in Blocker, b \in waiters[e]
               PROVE  b \in waiters'[e] \/ HasIn(X, b)
    BY Zenon
  <2>1. CASE e = f.ev
    BY <1>4, <1>8, <2>1, HasCons, ZenonT(30)
  <2>2. CASE e # f.ev
    BY <1>1, <1>5, <2>2, ZenonT(30) DEF EvTypes
  <2> QED BY <2>1, <2>2, Zenon
<1>12. EvTypes' /\ WalkShape' /\ WaitInv' /\ (\A u \in Task : Pusher(u) => Pusher(u)')
  BY <1>1, <1>2, <1>5, <1>6, <1>7, <1>8, <1>9, <1>10, <1>11, WalkInv, ZenonT(30)
<1>13. PendingCovered'
  <2>1. CASE Disp \in waiters[f.ev]
    <3>1. PendingKeys' \subseteq cut'
      BY <1>5, <1>9, <2>1, ZenonT(30) DEF PendingKeys
    <3> QED BY <3>1, Zenon DEF PendingCovered
  <2>2. CASE Disp \notin waiters[f.ev]
    <3>1. "obj" \in Ev /\ (Disp \in waiters["obj"] => Disp \in waiters'["obj"])
      BY <1>1, <1>5, <1>8, <2>2, ZenonT(30) DEF EvTypes, Ev
    <3>2. cut' = cut /\ pending' = pending
      BY <1>5, <1>9, <2>2, ZenonT(30)
    <3> QED BY <1>12, <3>1, <3>2, PendKept, ZenonT(30) DEF EventInv
  <2> QED BY <2>1, <2>2, Zenon
<1> QED BY <1>12, <1>13, Zenon DEF EventInv

\* The dispatcher on a walk: it leaves the waiters only when nothing is pending.
LEMMA VisitDispatcherEv ==
    ASSUME EventInv, NEW t \in Task, VisitDispatcher(t)
    PROVE  EventInv'
<1>1. pc[t] = "walk" /\ EvTypes /\ WalkShape /\ Top(t).step = "notify"
  BY Zenon DEF VisitDispatcher, EventInv
<1>2. PICK f \in Frame, r \in Seq(Frame) :
        /\ walk[t] = <<f>> \o r /\ Top(t) = f /\ Tail(walk[t]) = r
        /\ Len(walk[t]) = 1 <=> r = <<>>
  BY <1>1, WalkTop, Zenon
<1>3. PICK g \in Frame : g = [f EXCEPT !.todo = @ \ {Disp}]
  BY Zenon DEF Frame
<1>4. PICK up \in {<<>>, <<ReadyUp>>} :
        walk' = [walk EXCEPT ![t] = up \o <<g>> \o r]
  <2>1. CASE Disp \notin waiters[f.ev] \/ Len(ready) >= Capacity
    <3>1. walk' = [walk EXCEPT ![t] = <<g>> \o r]
      BY <1>2, <1>3, <2>1, ZenonT(30) DEF VisitDispatcher, SetTop
    <3>2. <<>> \o <<g>> = <<g>>
      OBVIOUS
    <3> QED BY <3>1, <3>2, Zenon
  <2>2. CASE ~(Disp \notin waiters[f.ev] \/ Len(ready) >= Capacity)
    <3>1. walk' = [walk EXCEPT ![t] = (IF Matching(f.signal, FALSE) = {} THEN <<>> ELSE <<ReadyUp>>)
                                        \o <<g>> \o r]
      BY <1>2, <1>3, <2>2, ZenonT(30) DEF VisitDispatcher
    <3> QED BY <3>1, Zenon
  <2> QED BY <2>1, <2>2, Zenon
<1>5. PICK X \in Seq(Frame) : X = up \o <<g>> \o r /\ X # <<>>
  BY HasPushed, Zenon
<1>6. walk' = [walk EXCEPT ![t] = X] /\ pc' = [pc EXCEPT ![t] = IF X = <<>> THEN after[t] ELSE "walk"]
  BY <1>1, <1>4, <1>5, ZenonT(30) DEF EvTypes, VisitDispatcher
<1>7. \A b \in Blocker : HasIn(r, b) => HasIn(X, b)
  BY <1>5, HasCons, HasPushed, ZenonT(30)
<1>8. f.step # "cancel" /\ f.ev \in Ev
  BY <1>1, <1>2, ZenonT(30) DEF Frame
<1>9. UNCHANGED <<signal, cut>> /\ UNCHANGED <<blkVars, calls, after, loc>>
  BY Zenon DEF VisitDispatcher
<1>10. \/ waiters' = waiters /\ pending' \subseteq pending
       \/ waiters' = [waiters EXCEPT ![f.ev] = @ \ {Disp}] /\ pending' = {}
  <2>1. CASE Disp \notin waiters[f.ev] \/ Len(ready) >= Capacity
    BY <1>2, <2>1, Zenon DEF VisitDispatcher
  <2>2. CASE ~(Disp \notin waiters[f.ev] \/ Len(ready) >= Capacity)
    BY <1>2, <2>2, ZenonT(30) DEF VisitDispatcher, Drain, Served
  <2> QED BY <2>1, <2>2, ZenonT(30)
<1>11. signal' \in [Ev -> SUBSET Bit] /\ waiters' \in [Ev -> SUBSET (Blocker \cup {Disp})]
  BY <1>1, <1>9, <1>10, ZenonT(30) DEF EvTypes
<1>12. \A e \in Ev, b \in Blocker : b \in waiters[e] => b \in waiters'[e] \/ HasIn(X, b)
  <2> SUFFICES ASSUME NEW e \in Ev, NEW b \in Blocker, b \in waiters[e] PROVE b \in waiters'[e]
    BY Zenon
  <2>1. b # Disp
    BY BlockerIs, Zenon
  <2> QED BY <1>1, <1>8, <1>10, <2>1, ZenonT(30) DEF EvTypes
<1>13. EvTypes' /\ WalkShape' /\ WaitInv' /\ (\A u \in Task : Pusher(u) => Pusher(u)')
  BY <1>1, <1>2, <1>6, <1>7, <1>8, <1>9, <1>11, <1>12, WalkInv, ZenonT(30)
<1>14. PendingCovered'
  <2>1. CASE waiters' = waiters /\ pending' \subseteq pending
    BY <1>9, <1>13, <2>1, PendKept, ZenonT(30) DEF EventInv
  <2>2. CASE pending' = {}
    BY <2>2, ZenonT(30) DEF PendingCovered
  <2> QED BY <1>10, <2>1, <2>2, ZenonT(30)
<1> QED BY <1>13, <1>14, Zenon DEF EventInv

\* The dispatcher meets a cancel.
LEMMA CancelDispatcherEv ==
    ASSUME EventInv, NEW t \in Task, CancelDispatcher(t)
    PROVE  EventInv'
<1>1. pc[t] = "walk" /\ EvTypes /\ WalkShape
  BY Zenon DEF CancelDispatcher, EventInv
<1>2. PICK f \in Frame, r \in Seq(Frame) :
        /\ walk[t] = <<f>> \o r /\ Top(t) = f /\ Tail(walk[t]) = r
        /\ Len(walk[t]) = 1 <=> r = <<>>
  BY <1>1, WalkTop, ZenonT(30)
<1>3. PICK g \in Frame : g = [f EXCEPT !.todo = @ \ {Disp}]
  BY Zenon DEF Frame
<1>4. PICK up \in {<<>>, <<ReadyUp>>} :
        walk' = [walk EXCEPT ![t] = up \o <<g>> \o r]
  BY <1>2, <1>3, ZenonT(30) DEF CancelDispatcher
<1>5. PICK X \in Seq(Frame) : X = up \o <<g>> \o r /\ X # <<>>
  BY HasPushed, Zenon
<1>6. walk' = [walk EXCEPT ![t] = X] /\ pc' = [pc EXCEPT ![t] = IF X = <<>> THEN after[t] ELSE "walk"]
  BY <1>1, <1>4, <1>5, ZenonT(30) DEF EvTypes, CancelDispatcher
<1>7. \A b \in Blocker : HasIn(r, b) => HasIn(X, b)
  BY <1>5, HasCons, HasPushed, Zenon
<1>8. \A b \in Blocker : f.step = "cancel" /\ b \in f.todo => HasIn(X, b)
  <2> SUFFICES ASSUME NEW b \in Blocker, f.step = "cancel", b \in f.todo PROVE HasIn(X, b)
    BY Zenon
  <2>1. g.step = "cancel" /\ b \in g.todo
    BY <1>3, BlockerIs, ZenonT(30) DEF Frame
  <2> QED BY <1>5, <2>1, HasCons, HasPushed, ZenonT(30)
<1>9. UNCHANGED <<objVars, cut>> /\ UNCHANGED <<blkVars, calls, after, loc>> /\ pending' \subseteq pending
  BY Zenon DEF CancelDispatcher, Drain
<1>10. /\ signal' = signal /\ signal' \in [Ev -> SUBSET Bit]
       /\ waiters' = waiters /\ waiters' \in [Ev -> SUBSET (Blocker \cup {Disp})]
  BY <1>1, <1>9, ZenonT(30) DEF EvTypes, objVars
<1>11. EvTypes' /\ WalkShape' /\ WaitInv' /\ (\A u \in Task : Pusher(u) => Pusher(u)')
  BY <1>1, <1>2, <1>6, <1>7, <1>8, <1>9, <1>10, WalkInv, ZenonT(30)
<1>12. PendingCovered'
  BY <1>9, <1>10, <1>11, PendKept, ZenonT(30) DEF EventInv
<1> QED BY <1>11, <1>12, Zenon DEF EventInv

\* EventInv of a step of t that is in no notification and in no obj_wait, and goes
\* to l with the frames X.
LEMMA OutsideInv ==
    ASSUME EventInv, NEW t \in Task, pc[t] \in {"user", "pLoad", "pTry"},
           NEW X \in Seq(Frame), walk' = [walk EXCEPT ![t] = X],
           NEW l \in {"user", "walk", "pLoad", "pTry", "pInsert"}, pc' = [pc EXCEPT ![t] = l],
           l = "walk" <=> X # <<>>,
           after' \in [Task -> {"user", "pInsert"}], calls' \in [Task -> Nat], calls'[t] <= Budget[t],
           loc' \in [Task -> Status],
           \A u \in Task \ {t} : after'[u] = after[u] /\ calls'[u] = calls[u] /\ loc'[u] = loc[u],
           UNCHANGED <<objVars, blkVars>>
    PROVE  /\ EvTypes' /\ WalkShape' /\ WaitInv'
           /\ \A u \in Task \ {t} : Pusher(u) => Pusher(u)'
<1>1. \A u \in Task : walk'[u] = IF u = t THEN X ELSE walk[u]
  BY Zenon DEF EventInv, EvTypes
<1>2. \A u \in Task : pc'[u] = IF u = t THEN l ELSE pc[u]
  BY Zenon DEF EventInv, EvTypes
<1>3. walk[t] = <<>>
  BY Zenon DEF EventInv, WalkShape
<1>4. EvTypes'
  <2>1. walk' \in [Task -> Seq(Frame)]
    BY Zenon DEF EventInv, EvTypes
  <2>2. pc' \in [Task -> PcSet]
    BY Zenon DEF EventInv, EvTypes, PcSet
  <2> QED BY <2>1, <2>2, ZenonT(30) DEF EventInv, EvTypes, blkVars, objVars
<1>5. WalkShape'
  BY <1>1, <1>2 DEF EventInv, WalkShape
<1>6. \A b \in Blocker : CancelHas(b) => CancelHas(b)'
  <2> SUFFICES ASSUME NEW b \in Blocker PROVE CancelHas(b) => CancelHas(b)'
    BY Zenon
  <2>1. ~HasIn(walk[t], b)
    BY <1>3 DEF HasIn
  <2> QED BY <1>1, <2>1, HasStays, Zenon
<1>7. WaitInv'
  <2>1. pc[t] \notin WaitPc /\ pc'[t] \notin WaitPc
    BY <1>2, Zenon DEF WaitPc
  <2>2. \A u \in Task \ {t} : pc'[u] = pc[u] /\ calls'[u] = calls[u] /\ loc'[u] = loc[u]
    BY <1>2, Zenon
  <2>3. UNCHANGED <<blk, status, asleep>> /\ waiters' = waiters
    BY Zenon DEF blkVars, objVars
  <2> QED BY <1>6, <2>1, <2>2, <2>3, OthersKept, Zenon DEF EventInv
<1>8. \A u \in Task \ {t} : Pusher(u) => Pusher(u)'
  BY <1>2, ZenonT(30) DEF Pusher
<1> QED BY <1>4, <1>5, <1>7, <1>8, ZenonT(30)

\* Entering a system call counts it.
LEMMA EnterCalls ==
    ASSUME EvTypes, NEW t \in Task, NEW name, Enter(t, name)
    PROVE  /\ pc[t] = "user" /\ calls' \in [Task -> Nat] /\ calls'[t] = calls[t] + 1
           /\ calls'[t] <= Budget[t] /\ \A u \in Task \ {t} : calls'[u] = calls[u]
<1>1. Budget[t] \in Nat /\ calls[t] \in Nat
  BY EventAssumption, Zenon DEF EvTypes
<1> QED BY <1>1 DEF Enter, EvTypes

\* One frame is a sequence of frames.
LEMMA OneFrame ==
    ASSUME NEW f \in Frame
    PROVE  <<f>> \in Seq(Frame) /\ <<f>> # <<>> /\ <<>> \in Seq(Frame)
OBVIOUS

\* event_notify and event_cancel start their notification.
LEMMA NotifyOrCancelEv ==
    ASSUME EventInv, NEW t \in Task, EventCancel(t) \/ \E n \in Notes : EventNotify(t, n[1], n[2])
    PROVE  EventInv'
<1>1. EvTypes /\ (Enter(t, "cancel") \/ Enter(t, "notify"))
  BY Zenon DEF EventInv, EventCancel, EventNotify
<1>2. /\ pc[t] = "user" /\ calls' \in [Task -> Nat] /\ calls'[t] = calls[t] + 1
      /\ calls'[t] <= Budget[t] /\ \A u \in Task \ {t} : calls'[u] = calls[u]
  BY <1>1, EnterCalls, Zenon
<1>3. PICK g \in Frame : walk' = [walk EXCEPT ![t] = <<g>>]
  <2>1. CASE EventCancel(t)
    <3>1. signal["obj"] \in SUBSET Bit /\ "obj" \in Ev
      BY <1>1, Zenon DEF EvTypes, Ev
    <3> QED BY <2>1, <3>1, FrameMade, Zenon DEF EventCancel
  <2>2. CASE \E n \in Notes : EventNotify(t, n[1], n[2])
    <3>1. PICK n \in Notes : EventNotify(t, n[1], n[2])
      BY <2>2, Zenon
    <3>2. n[1] \in SUBSET Bit /\ n[2] \in SUBSET Bit /\ "obj" \in Ev
      BY EventAssumption, Zenon DEF Ev
    <3> QED BY <3>1, <3>2, FrameMade, Zenon DEF EventNotify
  <2> QED BY <2>1, <2>2, Zenon
<1>4. <<g>> \in Seq(Frame) /\ <<g>> # <<>>
  BY OneFrame, Zenon
<1>5. /\ after' = [after EXCEPT ![t] = "user"] /\ pc' = [pc EXCEPT ![t] = "walk"]
      /\ UNCHANGED <<objVars, blkVars>> /\ UNCHANGED <<dispVars, loc>>
  BY Zenon DEF EventCancel, EventNotify, Go
<1>6. after' \in [Task -> {"user", "pInsert"}] /\ loc' \in [Task -> Status]
  BY <1>1, <1>5, ZenonT(30) DEF EvTypes
<1>7. \A u \in Task \ {t} : after'[u] = after[u] /\ calls'[u] = calls[u] /\ loc'[u] = loc[u]
  BY <1>1, <1>2, <1>5, ZenonT(30) DEF EvTypes
<1>8. EvTypes' /\ WalkShape' /\ WaitInv' /\ (\A u \in Task \ {t} : Pusher(u) => Pusher(u)')
  BY <1>2, <1>3, <1>4, <1>5, <1>6, <1>7, OutsideInv, ZenonT(30)
<1>9. ~Pusher(t)
  BY <1>2, ZenonT(30) DEF Pusher
<1>10. PendingCovered'
  BY <1>5, <1>8, <1>9, PendKept, ZenonT(30) DEF EventInv, dispVars, objVars
<1> QED BY <1>8, <1>10, Zenon DEF EventInv

\* disp_pop.
LEMMA DispPopEv ==
    ASSUME EventInv, NEW t \in Task, DispPop(t)
    PROVE  EventInv'
<1>1. EvTypes /\ Enter(t, "pop")
  BY Zenon DEF EventInv, DispPop
<1>2. /\ pc[t] = "user" /\ calls' \in [Task -> Nat] /\ calls'[t] = calls[t] + 1
      /\ calls'[t] <= Budget[t] /\ \A u \in Task \ {t} : calls'[u] = calls[u]
  BY <1>1, EnterCalls, ZenonT(30)
<1>3. walk[t] = <<>>
  BY <1>2, ZenonT(30) DEF EventInv, WalkShape
<1>4. PICK X \in Seq(Frame), l \in {"user", "walk"} :
        /\ walk' = [walk EXCEPT ![t] = X] /\ pc' = [pc EXCEPT ![t] = l]
        /\ l = "walk" <=> X # <<>>
  <2>1. CASE ready = <<>>
    <3>1. walk' = walk /\ pc' = [pc EXCEPT ![t] = "user"]
      BY <2>1, ZenonT(30) DEF DispPop, Go
    <3>2. walk' = [walk EXCEPT ![t] = <<>>]
      BY <1>1, <1>3, <3>1, ZenonT(30) DEF EvTypes
    <3>3. <<>> \in Seq(Frame)
      OBVIOUS
    <3> QED BY <3>1, <3>2, <3>3, ZenonT(30)
  <2>2. CASE ready # <<>>
    <3>1. PICK g \in Frame : g = Notification("disp", {}, {"W"})
      BY FrameMade, Zenon DEF Ev, Bit
    <3>2. walk' = [walk EXCEPT ![t] = <<g>>] /\ pc' = [pc EXCEPT ![t] = "walk"]
      BY <2>2, <3>1, ZenonT(30) DEF DispPop, Go
    <3> QED BY <3>2, OneFrame, ZenonT(30)
  <2> QED BY <2>1, <2>2, ZenonT(30)
<1>5. /\ after' = after \/ after' = [after EXCEPT ![t] = "user"]
      /\ UNCHANGED <<objVars, blkVars>> /\ UNCHANGED <<pending, cut, loc>>
  BY Zenon DEF DispPop
<1>6. after' \in [Task -> {"user", "pInsert"}] /\ loc' \in [Task -> Status]
  BY <1>1, <1>5, ZenonT(30) DEF EvTypes
<1>7. \A u \in Task \ {t} : after'[u] = after[u] /\ calls'[u] = calls[u] /\ loc'[u] = loc[u]
  BY <1>1, <1>2, <1>5, ZenonT(30) DEF EvTypes
<1>8. EvTypes' /\ WalkShape' /\ WaitInv' /\ (\A u \in Task \ {t} : Pusher(u) => Pusher(u)')
  BY <1>2, <1>4, <1>5, <1>6, <1>7, OutsideInv, ZenonT(30)
<1>9. ~Pusher(t)
  BY <1>2, Zenon DEF Pusher
<1>10. PendingCovered'
  BY <1>5, <1>8, <1>9, PendKept, ZenonT(30) DEF EventInv, objVars
<1> QED BY <1>8, <1>10, ZenonT(30) DEF EventInv

\* disp_push: what it adds is covered by the push itself.
LEMMA DispPushEv ==
    ASSUME EventInv, NEW t \in Task, NEW want, NEW level, DispPush(t, want, level)
    PROVE  EventInv'
<1>1. EvTypes /\ Enter(t, "push")
  BY Zenon DEF EventInv, DispPush
<1>2. /\ pc[t] = "user" /\ calls' \in [Task -> Nat] /\ calls'[t] = calls[t] + 1
      /\ calls'[t] <= Budget[t] /\ \A u \in Task \ {t} : calls'[u] = calls[u]
  BY <1>1, EnterCalls, ZenonT(30)
<1>3. walk[t] = <<>> /\ <<>> \in Seq(Frame)
  BY <1>2 DEF EventInv, WalkShape
<1>4. /\ UNCHANGED <<objVars, blkVars>> /\ UNCHANGED <<cut, walk, after, loc>>
      /\ \/ pc' = [pc EXCEPT ![t] = "user"] /\ pending' = pending
         \/ pc' = [pc EXCEPT ![t] = "pLoad"]
  BY Zenon DEF DispPush, Go
<1>5. walk' = [walk EXCEPT ![t] = <<>>]
  BY <1>1, <1>3, <1>4, ZenonT(30) DEF EvTypes
<1>6. after' \in [Task -> {"user", "pInsert"}] /\ loc' \in [Task -> Status]
  BY <1>1, <1>4, ZenonT(30) DEF EvTypes
<1>7. \A u \in Task \ {t} : after'[u] = after[u] /\ calls'[u] = calls[u] /\ loc'[u] = loc[u]
  BY <1>2, <1>4, ZenonT(30)
<1>8. EvTypes' /\ WalkShape' /\ WaitInv' /\ (\A u \in Task \ {t} : Pusher(u) => Pusher(u)')
  BY <1>2, <1>3, <1>4, <1>5, <1>6, <1>7, OutsideInv, ZenonT(30)
<1>9. PendingCovered'
  <2>1. CASE pending' = pending
    <3>1. ~Pusher(t)
      BY <1>2, Zenon DEF Pusher
    <3> QED BY <1>4, <1>8, <2>1, <3>1, PendKept, ZenonT(30) DEF EventInv, objVars
  <2>2. CASE pc' = [pc EXCEPT ![t] = "pLoad"]
    <3>1. pc'[t] = "pLoad"
      BY <1>1, <2>2, ZenonT(30) DEF EvTypes
    <3> QED BY <3>1, Zenon DEF PendingCovered
  <2> QED BY <1>4, <2>1, <2>2, ZenonT(30)
<1> QED BY <1>8, <1>9, ZenonT(30) DEF EventInv

\* The push loads the signal and tries its requests: it goes on to register the
\* dispatcher unless nothing is pending any more.
LEMMA PushTryEv ==
    ASSUME EventInv, NEW t \in Task, PushLoad(t) \/ PushTry(t)
    PROVE  EventInv'
<1>1. EvTypes /\ pc[t] \in {"pLoad", "pTry"} /\ calls' = calls /\ calls[t] <= Budget[t]
  BY Zenon DEF EventInv, PushLoad, PushTry, WaitInv, CurOK
<1>2. walk[t] = <<>> /\ <<>> \in Seq(Frame)
  BY <1>1 DEF EventInv, WalkShape
<1>3. walk = [walk EXCEPT ![t] = <<>>]
  BY <1>1, <1>2, ZenonT(30) DEF EvTypes
<1>4. ReadyUp \in Frame
  BY FrameMade, Zenon DEF Ev, Bit
<1>5. <<ReadyUp>> \in Seq(Frame) /\ <<ReadyUp>> # <<>>
  BY <1>4, OneFrame, ZenonT(30)
<1>6. PICK X \in Seq(Frame), l \in {"user", "walk", "pTry", "pInsert"} :
        /\ walk' = [walk EXCEPT ![t] = X] /\ pc' = [pc EXCEPT ![t] = l]
        /\ l = "walk" <=> X # <<>>
        /\ after' \in [Task -> {"user", "pInsert"}] /\ \A u \in Task \ {t} : after'[u] = after[u]
        /\ \/ pending' \subseteq pending /\ (l \in {"pTry", "pInsert"} \/ (l = "walk" /\ after'[t] = "pInsert"))
           \/ pending' = {}
  <2>1. CASE PushLoad(t)
    <3>1. walk' = walk /\ pc' = [pc EXCEPT ![t] = "pTry"] /\ after' = after /\ pending' = pending
      BY <2>1, ZenonT(30) DEF PushLoad, Go, dispVars
    <3> QED BY <1>1, <1>2, <1>3, <3>1, ZenonT(30) DEF EvTypes
  <2>2. CASE PushTry(t) /\ Len(ready) >= Capacity
    <3>1. walk' = walk /\ pc' = [pc EXCEPT ![t] = "pInsert"] /\ after' = after /\ pending' = pending
      BY <2>2, Zenon DEF PushTry, Go
    <3> QED BY <1>1, <1>2, <1>3, <3>1, ZenonT(30) DEF EvTypes
  <2>3. CASE PushTry(t) /\ ~(Len(ready) >= Capacity)
    <3>1. PICK hit : hit = Matching(loc[t].signal, TRUE)
      BY Zenon
    <3>2. PICK next \in {"user", "pInsert"} : next = IF Served(hit) THEN "user" ELSE "pInsert"
      BY Zenon
    <3>3. /\ pending' = pending \ hit
          /\ pc' = [pc EXCEPT ![t] = IF hit = {} THEN next ELSE "walk"]
          /\ walk' = IF hit = {} THEN walk ELSE [walk EXCEPT ![t] = <<ReadyUp>>]
          /\ after' = [after EXCEPT ![t] = next]
      BY <2>3, <3>1, <3>2, ZenonT(30) DEF PushTry, Go, Drain
    <3>4. /\ after' \in [Task -> {"user", "pInsert"}] /\ \A u \in Task \ {t} : after'[u] = after[u]
          /\ after'[t] = next
      BY <1>1, <3>3, ZenonT(30) DEF EvTypes
    <3>5. next = "user" => pending' = {}
      BY <3>2, <3>3, ZenonT(30) DEF Served
    <3>6. CASE hit = {}
      BY <1>2, <1>3, <3>3, <3>4, <3>5, <3>6, ZenonT(30)
    <3>7. CASE hit # {}
      BY <1>5, <3>3, <3>4, <3>5, <3>7, ZenonT(30)
    <3> QED BY <3>6, <3>7, ZenonT(30)
  <2> QED BY <2>1, <2>2, <2>3, ZenonT(30)
<1>7. UNCHANGED <<objVars, blkVars>> /\ cut' = cut
  BY Zenon DEF PushLoad, PushTry, dispVars
<1>8. loc' \in [Task -> Status] /\ \A u \in Task \ {t} : loc'[u] = loc[u]
  <2>1. CASE PushLoad(t)
    <3>1. signal["obj"] \in SUBSET Bit /\ loc[t] \in Status
      BY <1>1, Zenon DEF EvTypes, Ev
    <3>2. [loc[t] EXCEPT !.signal = signal["obj"]] \in Status
      BY <3>1, ZenonT(30) DEF Status
    <3>3. loc' = [loc EXCEPT ![t] = [loc[t] EXCEPT !.signal = signal["obj"]]]
      BY <2>1, ZenonT(30) DEF PushLoad
    <3> QED BY <1>1, <3>2, <3>3, ZenonT(30) DEF EvTypes
  <2>2. CASE PushTry(t)
    <3>1. NoStatus \in Status
      BY FrameMade, ZenonT(30) DEF Ev, Bit
    <3> QED BY <1>1, <2>2, <3>1, ZenonT(30) DEF PushTry, EvTypes
  <2> QED BY <2>1, <2>2, ZenonT(30)
<1>9. calls' \in [Task -> Nat] /\ calls'[t] <= Budget[t]
  BY <1>1, ZenonT(30) DEF EvTypes
<1>10. EvTypes' /\ WalkShape' /\ WaitInv' /\ (\A u \in Task \ {t} : Pusher(u) => Pusher(u)')
  BY <1>1, <1>6, <1>7, <1>8, <1>9, OutsideInv, ZenonT(30)
<1>11. PendingCovered'
  <2>1. CASE pending' \subseteq pending /\ (l \in {"pTry", "pInsert"} \/ (l = "walk" /\ after'[t] = "pInsert"))
    <3>1. Pusher(t)'
      BY <1>1, <1>6, <2>1, ZenonT(30) DEF Pusher, EvTypes
    <3> QED BY <1>7, <1>10, <2>1, <3>1, PendKept, ZenonT(30) DEF EventInv, objVars
  <2>2. CASE pending' = {}
    BY <2>2, Zenon DEF PendingCovered
  <2> QED BY <1>6, <2>1, <2>2, ZenonT(30)
<1> QED BY <1>10, <1>11, ZenonT(30) DEF EventInv

-----------------------------------------------------------------------------
\* What the invariant says of one task.
WaitAt(t) ==
    /\ calls[t] <= Budget[t]
    /\ pc[t] \in WaitPc => Cur(t) \in Blocker /\ blk[Cur(t)] \in Args
    /\ pc[t] \in {"bWait", "asleep", "bStatus", "bUnwait"} =>
         Cur(t) \in waiters[blk[Cur(t)].ev] \/ Ended(Cur(t))
    /\ pc[t] = "bReturn" /\ loc[t].has => Ended(Cur(t))

\* WaitInv, task by task.
LEMMA WaitSplit == WaitInv <=> (\A t \in Task : WaitAt(t)) /\ SleepOK
BY Zenon DEF WaitInv, WaitAt, CurOK, Covered, OkWasSignalled, Ended

\* The same of the state after a step.
LEMMA WaitJoin ==
    ASSUME \A t \in Task : WaitAt(t)', SleepOK'
    PROVE  WaitInv'
<1>1. CurOK'
  BY ZenonT(30) DEF WaitAt, CurOK
<1>2. Covered'
  BY Zenon DEF WaitAt, Covered
<1>3. OkWasSignalled'
  BY Zenon DEF WaitAt, OkWasSignalled, Ended
<1> QED BY <1>1, <1>2, <1>3, ZenonT(30) DEF WaitInv

\* A task whose own blocker nobody touches.
LEMMA OtherAt ==
    ASSUME EvTypes, NEW u \in Task, WaitAt(u),
           pc'[u] = pc[u], calls'[u] = calls[u], loc'[u] = loc[u],
           pc[u] \in WaitPc => /\ blk'[Cur(u)] = blk[Cur(u)] /\ status'[Cur(u)] = status[Cur(u)]
                               /\ \A e \in Ev : Cur(u) \in waiters[e] => Cur(u) \in waiters'[e]
                               /\ CancelHas(Cur(u)) => CancelHas(Cur(u))'
    PROVE  WaitAt(u)'
<1>1. CASE pc[u] \notin WaitPc
  BY <1>1, ZenonT(30) DEF WaitAt, WaitPc
<1>2. CASE pc[u] \in WaitPc
  <2>1. PICK b \in Blocker : b = Cur(u) /\ b = Cur(u)' /\ blk[b] \in Args
    BY <1>2, Zenon DEF WaitAt, Cur
  <2>2. /\ blk'[b] = blk[b] /\ status'[b] = status[b] /\ blk[b].ev \in Ev
        /\ \A e \in Ev : b \in waiters[e] => b \in waiters'[e]
    BY <1>2, <2>1, ZenonT(30) DEF Args
  <2>3. CancelHas(b) => CancelHas(b)'
    BY <1>2, <2>1, ZenonT(30) DEF CancelHas
  <2>4. Ended(b) => Ended(b)'
    BY <2>2, <2>3, ZenonT(30) DEF Ended
  <2>5. Ended(Cur(u)) = Ended(b) /\ Ended(Cur(u))' = Ended(b)'
    BY <2>1, ZenonT(30) DEF Ended, CancelHas
  <2> QED BY <1>2, <2>1, <2>2, <2>4, <2>5, ZenonT(30) DEF WaitAt
<1> QED BY <1>1, <1>2, ZenonT(30)

\* The blockers of two tasks differ.
LEMMA CurApart ==
    ASSUME NEW t \in Task, NEW u \in Task, u # t, NEW n
    PROVE  Cur(u) # <<t, n>>
BY Zenon DEF Cur

\* Registering a waiter: cancels keep what they have, frames stay frames.
LEMMA InsertWalk ==
    ASSUME EvTypes, NEW e \in Ev, NEW w \in Blocker \cup {Disp}, Insert(e, w)
    PROVE  /\ walk' \in [Task -> Seq(Frame)] /\ \A t \in Task : walk'[t] = <<>> <=> walk[t] = <<>>
           /\ waiters' \in [Ev -> SUBSET (Blocker \cup {Disp})] /\ w \in waiters'[e]
           /\ \A d \in Ev : waiters[d] \subseteq waiters'[d]
           /\ \A b : CancelHas(b) => CancelHas(b)'
<1>1. PICK met : walk' = [t \in Task |-> [i \in DOMAIN walk[t] |->
                    IF t \in met /\ OnWalk(walk[t][i], e)
                    THEN [walk[t][i] EXCEPT !.todo = @ \cup {w}] ELSE walk[t][i]]]
  BY Zenon DEF Insert
<1>2. ASSUME NEW t \in Task
      PROVE  /\ walk'[t] \in Seq(Frame)
             /\ walk'[t] = <<>> <=> walk[t] = <<>>
             /\ \A b : HasIn(walk[t], b) => HasIn(walk'[t], b)
  <2>1. PICK s \in Seq(Frame) : s = walk[t]
    BY Zenon DEF EvTypes
  <2>2. PICK n \in Nat : n = Len(s) /\ DOMAIN s = 1..n
    OBVIOUS
  <2>3. \A i \in 1..n : s[i] \in Frame
    BY <2>2
  <2>4. walk'[t] = [i \in 1..n |-> IF t \in met /\ OnWalk(s[i], e)
                                   THEN [s[i] EXCEPT !.todo = @ \cup {w}] ELSE s[i]]
    BY <1>1, <2>1, <2>2, ZenonT(30)
  <2>5. \A i \in 1..n : /\ walk'[t][i] \in Frame
                        /\ s[i].step = "cancel" => walk'[t][i] = s[i]
    <3> SUFFICES ASSUME NEW i \in 1..n
                 PROVE  walk'[t][i] \in Frame /\ (s[i].step = "cancel" => walk'[t][i] = s[i])
      BY Zenon
    <3>1. PICK f \in Frame : f = s[i]
      BY <2>3, Zenon
    <3>2. [f EXCEPT !.todo = @ \cup {w}] \in Frame
      BY Zenon DEF Frame
    <3>3. walk'[t][i] = IF t \in met /\ OnWalk(f, e) THEN [f EXCEPT !.todo = @ \cup {w}] ELSE f
      BY <2>4, <3>1, ZenonT(30)
    <3> QED BY <3>1, <3>2, <3>3, ZenonT(30) DEF OnWalk
  <2>6. walk'[t] \in [1..n -> Frame]
    BY <2>4, <2>5, ZenonT(30)
  <2>7. walk'[t] \in Seq(Frame) /\ Len(walk'[t]) = n /\ DOMAIN walk'[t] = 1..n
    BY <2>6
  <2>8. walk'[t] = <<>> <=> n = 0
    BY <2>7, EmptySeq, ZenonT(30)
  <2>9. s = <<>> <=> n = 0
    BY <2>2, EmptySeq, ZenonT(30)
  <2>10. \A b : HasIn(s, b) => HasIn(walk'[t], b)
    BY <2>2, <2>5, <2>7, ZenonT(30) DEF HasIn
  <2> QED BY <2>1, <2>7, <2>8, <2>9, <2>10, ZenonT(30)
<1>3. walk' \in [Task -> Seq(Frame)]
  <2>1. \A t \in Task : walk'[t] \in Seq(Frame)
    BY <1>2, ZenonT(30)
  <2>2. walk' = [t \in Task |-> walk'[t]]
    BY <1>1, Zenon
  <2> QED BY <2>1, <2>2, ZenonT(30)
<1>4. \A b : CancelHas(b) => CancelHas(b)'
  <2> TAKE b
  <2>1. \A t \in Task : HasIn(walk[t], b) => HasIn(walk'[t], b)
    BY <1>2, Zenon
  <2> QED BY <2>1, HasStays, ZenonT(30)
<1>5. /\ waiters' \in [Ev -> SUBSET (Blocker \cup {Disp})] /\ w \in waiters'[e]
      /\ \A d \in Ev : waiters[d] \subseteq waiters'[d]
  BY ZenonT(30) DEF Insert, EvTypes
<1> QED BY <1>2, <1>3, <1>4, <1>5, ZenonT(30)

\* The push registers the dispatcher.
LEMMA PushInsertEv ==
    ASSUME EventInv, NEW t \in Task, PushInsert(t)
    PROVE  EventInv'
<1>1. EvTypes /\ pc[t] = "pInsert" /\ Insert("obj", Disp) /\ "obj" \in Ev
  BY Zenon DEF EventInv, PushInsert, Ev
<1>2. pc' = [pc EXCEPT ![t] = "user"] /\ UNCHANGED <<signal, blkVars, dispVars, calls, after, loc>>
  BY Zenon DEF PushInsert, Go
<1>3. \A u \in Task : pc'[u] = IF u = t THEN "user" ELSE pc[u]
  BY <1>1, <1>2, ZenonT(30) DEF EvTypes
<1>4. /\ walk' \in [Task -> Seq(Frame)] /\ \A u \in Task : walk'[u] = <<>> <=> walk[u] = <<>>
      /\ waiters' \in [Ev -> SUBSET (Blocker \cup {Disp})] /\ Disp \in waiters'["obj"]
      /\ \A d \in Ev : waiters[d] \subseteq waiters'[d]
      /\ \A b : CancelHas(b) => CancelHas(b)'
  BY <1>1, InsertWalk, ZenonT(30)
<1>5. EvTypes'
  <2>1. pc' \in [Task -> PcSet]
    BY <1>1, <1>2, ZenonT(30) DEF EvTypes, PcSet
  <2> QED BY <1>1, <1>2, <1>4, <2>1, ZenonT(30) DEF EvTypes, blkVars
<1>6. WalkShape'
  BY <1>1, <1>3, <1>4, ZenonT(30) DEF EventInv, WalkShape
<1>7. WaitInv'
  <2>1. /\ pc[t] \notin WaitPc /\ pc'[t] \notin WaitPc
        /\ calls'[t] <= Budget[t]
    BY <1>1, <1>2, <1>3 DEF WaitPc, EventInv, WaitInv, CurOK
  <2>2. \A u \in Task \ {t} : pc'[u] = pc[u] /\ calls'[u] = calls[u] /\ loc'[u] = loc[u]
    BY <1>2, <1>3, ZenonT(30)
  <2>3. UNCHANGED <<blk, status, asleep>>
    BY <1>2, Zenon DEF blkVars
  <2>4. \A e \in Ev, b \in Blocker : b \in waiters[e] => b \in waiters'[e]
    BY <1>4, Zenon
  <2> QED BY <1>4, <2>1, <2>2, <2>3, <2>4, OthersKept, ZenonT(30) DEF EventInv
<1>8. PendingCovered'
  BY <1>4, Zenon DEF PendingCovered
<1> QED BY <1>5, <1>6, <1>7, <1>8, Zenon DEF EventInv

\* obj_wait: a new blocker, with the signal it was made for or none.
LEMMA ObjWaitEv ==
    ASSUME EventInv, NEW t \in Task, NEW args \in Waits, ObjWait(t, args)
    PROVE  EventInv'
<1>1. EvTypes /\ Enter(t, "wait") /\ args \in Args /\ args.ev \in Ev
  BY EventAssumption, Zenon DEF EventInv, ObjWait, Args
<1>2. /\ pc[t] = "user" /\ calls' \in [Task -> Nat] /\ calls'[t] = calls[t] + 1
      /\ calls'[t] <= Budget[t] /\ \A u \in Task \ {t} : calls'[u] = calls[u]
  BY <1>1, EnterCalls, ZenonT(30)
<1>3. PICK b \in Blocker : b = <<t, calls[t] + 1>>
  <2>1. calls[t] + 1 \in 1..Budget[t]
    BY <1>1, <1>2, EventAssumption DEF EvTypes
  <2> QED BY <2>1, BlockerMade, ZenonT(30)
<1>4. PICK sig \in SUBSET Bit : sig = signal[args.ev]
  BY <1>1, Zenon DEF EvTypes
<1>5. PICK l \in {"bWait", "bInsert"} :
        /\ pc' = [pc EXCEPT ![t] = l]
        /\ blk' = [blk EXCEPT ![b] = args]
        /\ \/ l = "bInsert" /\ status' = status
           \/ status' = [status EXCEPT ![b] = [has |-> TRUE, signal |-> sig]] /\ args.want \subseteq sig
  BY <1>3, <1>4, Zenon DEF ObjWait, Go, CanSignal
<1>6. UNCHANGED <<signal, waiters, asleep, walk, after, loc>> /\ UNCHANGED dispVars
  BY Zenon DEF ObjWait, objVars
<1>7. \A u \in Task : pc'[u] = IF u = t THEN l ELSE pc[u]
  BY <1>1, <1>5, Zenon DEF EvTypes
<1>8. \A c \in Blocker \ {b} : blk'[c] = blk[c] /\ status'[c] = status[c]
  BY <1>1, <1>5, Zenon DEF EvTypes
<1>9. EvTypes'
  <2>1. pc' \in [Task -> PcSet]
    BY <1>1, <1>5, Zenon DEF EvTypes, PcSet, WaitPc
  <2>2. blk' \in [Blocker -> Args \cup {None}]
    BY <1>1, <1>5, Zenon DEF EvTypes
  <2>3. status' \in [Blocker -> Status]
    <3>1. [has |-> TRUE, signal |-> sig] \in Status
      BY Zenon DEF Status
    <3> QED BY <1>1, <1>5, <3>1, Zenon DEF EvTypes
  <2> QED BY <1>1, <1>2, <1>6, <2>1, <2>2, <2>3, Zenon DEF EvTypes
<1>10. WalkShape'
  BY <1>2, <1>6, <1>7, ZenonT(30) DEF EventInv, WalkShape
<1>11. (\A u \in Task : WaitAt(u)) /\ SleepOK
  BY WaitSplit, ZenonT(30) DEF EventInv
<1>12. ASSUME NEW u \in Task, u # t PROVE WaitAt(u)'
  <2>1. pc[u] \in WaitPc => Cur(u) \in Blocker /\ Cur(u) # b
    BY <1>3, <1>11, <1>12, CurApart, ZenonT(30) DEF WaitAt
  <2>2. CancelHas(Cur(u)) => CancelHas(Cur(u))'
    BY <1>2, <1>6, <1>12, ZenonT(30) DEF CancelHas, Cur
  <2> QED BY <1>1, <1>2, <1>6, <1>7, <1>8, <1>11, <1>12, <2>1, <2>2, OtherAt, ZenonT(30)
<1>13. WaitAt(t)'
  <2>1. Cur(t)' = b /\ blk'[b] = args
    BY <1>1, <1>2, <1>3, <1>5, ZenonT(30) DEF Cur, EvTypes
  <2>2. pc'[t] = "bInsert" \/ (pc'[t] = "bWait" /\ args.want \subseteq sig /\ status'[b].signal = sig)
    BY <1>1, <1>5, <1>7 DEF EvTypes
  <2>3. pc'[t] = "bWait" => Ended(Cur(t))'
    BY <2>1, <2>2, Zenon DEF Ended
  <2> QED BY <1>1, <1>2, <2>1, <2>2, <2>3, ZenonT(30) DEF WaitAt
<1>14. SleepOK'
  <2> SUFFICES ASSUME NEW c \in asleep' PROVE \E u \in Task : (c = Cur(u) /\ pc[u] = "asleep" /\ status[c].signal = {})'
    BY Zenon DEF SleepOK
  <2>1. PICK u \in Task : c = Cur(u) /\ pc[u] = "asleep" /\ status[c].signal = {}
    BY <1>6, <1>11, Zenon DEF SleepOK
  <2>2. u # t /\ c # b /\ c \in Blocker
    BY <1>1, <1>2, <1>3, <1>6, <2>1, CurApart, Zenon DEF EvTypes
  <2> QED BY <1>2, <1>7, <1>8, <2>1, <2>2, Zenon DEF Cur
<1>15. WaitInv'
  <2>1. \A u \in Task : WaitAt(u)'
    BY <1>12, <1>13, Zenon
  <2> QED BY <1>14, <2>1, WaitJoin, Zenon
<1>16. PendingCovered'
  <2>1. \A u \in Task : Pusher(u) => Pusher(u)'
    BY <1>2, <1>6, <1>7, ZenonT(30) DEF Pusher
  <2> QED BY <1>6, <2>1, PendKept, ZenonT(30) DEF EventInv, dispVars
<1> QED BY <1>9, <1>10, <1>15, <1>16, ZenonT(30) DEF EventInv

\* EventInv of a step of t inside obj_wait: it touches no blocker but its own.
LEMMA SelfInv ==
    ASSUME EventInv, EvTypes', NEW t \in Task, pc[t] \in WaitPc,
           NEW l \in WaitPc \cup {"user"}, pc' = [pc EXCEPT ![t] = l],
           UNCHANGED <<calls, after, dispVars>>,
           \A u \in Task \ {t} : loc'[u] = loc[u],
           \A u \in Task : walk'[u] = <<>> <=> walk[u] = <<>>,
           \A b : CancelHas(b) => CancelHas(b)',
           \A c \in Blocker \ {Cur(t)} : blk'[c] = blk[c] /\ status'[c] = status[c],
           \A e \in Ev : \A c : c \in waiters[e] /\ c # Cur(t) => c \in waiters'[e],
           asleep' \subseteq asleep \cup {Cur(t)},
           Cur(t) \in asleep' => l = "asleep" /\ status'[Cur(t)].signal = {},
           WaitAt(t)'
    PROVE  EventInv'
<1>1. \A u \in Task : pc'[u] = IF u = t THEN l ELSE pc[u]
  BY Zenon DEF EventInv, EvTypes
<1>2. l # "walk" /\ pc[t] # "walk" /\ calls' = calls
  BY Zenon DEF WaitPc
<1>3. WalkShape'
  BY <1>1, <1>2 DEF EventInv, WalkShape
<1>4. (\A u \in Task : WaitAt(u)) /\ SleepOK /\ EvTypes
  BY WaitSplit, Zenon DEF EventInv
<1>5. ASSUME NEW u \in Task, u # t PROVE WaitAt(u)' /\ Cur(u) # Cur(t)
  <2>1. Cur(u) # Cur(t)
    BY <1>5, Zenon DEF Cur
  <2>2. pc[u] \in WaitPc => Cur(u) \in Blocker
    BY <1>4, Zenon DEF WaitAt
  <2>3. CancelHas(Cur(u)) => CancelHas(Cur(u))'
    BY <1>2, Zenon DEF CancelHas, Cur
  <2>4. WaitAt(u)'
    BY <1>1, <1>2, <1>4, <1>5, <2>1, <2>2, <2>3, OtherAt, Zenon
  <2> QED BY <2>1, <2>4, Zenon
<1>6. SleepOK'
  <2> SUFFICES ASSUME NEW c \in asleep' PROVE \E u \in Task : (c = Cur(u) /\ pc[u] = "asleep" /\ status[c].signal = {})'
    BY Zenon DEF SleepOK
  <2>1. CASE c = Cur(t)
    <3>1. l = "asleep" /\ status'[c].signal = {} /\ Cur(t)' = c
      BY <1>2, <2>1, ZenonT(30) DEF Cur
    <3> QED BY <1>1, <3>1, Zenon
  <2>2. CASE c # Cur(t)
    <3>1. PICK u \in Task : c = Cur(u) /\ pc[u] = "asleep" /\ status[c].signal = {}
      BY <1>4, <2>2, ZenonT(30) DEF SleepOK
    <3>2. c \in Blocker /\ u # t /\ status'[c] = status[c]
      BY <1>4, <2>2, <3>1, ZenonT(30) DEF EvTypes
    <3> QED BY <1>1, <1>2, <3>1, <3>2, ZenonT(30) DEF Cur
  <2> QED BY <2>1, <2>2, Zenon
<1>7. WaitInv'
  <2>1. \A u \in Task : WaitAt(u)'
    BY <1>5, ZenonT(30)
  <2> QED BY <1>6, <2>1, WaitJoin, ZenonT(30)
<1>8. PendingCovered'
  <2>1. \A u \in Task : Pusher(u) => Pusher(u)'
    BY <1>1, ZenonT(30) DEF Pusher, WaitPc
  <2>2. Disp \in waiters["obj"] => Disp \in waiters'["obj"]
    <3>1. Cur(t) \in Blocker /\ "obj" \in Ev
      BY <1>4, ZenonT(30) DEF WaitAt, Ev
    <3>2. Cur(t) # Disp
      BY <3>1, BlockerIs, ZenonT(30)
    <3> QED BY <3>1, <3>2, ZenonT(30)
  <2> QED BY <2>1, <2>2, PendKept, ZenonT(30) DEF EventInv, dispVars
<1> QED BY <1>3, <1>7, <1>8, ZenonT(30) DEF EventInv

\* The blocker is registered, and may be visited from now on.
LEMMA BlockerInsertEv ==
    ASSUME EventInv, NEW t \in Task, BlockerInsert(t)
    PROVE  EventInv'
<1>1. EvTypes /\ pc[t] = "bInsert" /\ WaitAt(t) /\ SleepOK
  BY WaitSplit, ZenonT(30) DEF EventInv, BlockerInsert
<1>2. PICK b \in Blocker : b = Cur(t) /\ blk[b] \in Args
  BY <1>1, Zenon DEF WaitAt, WaitPc
<1>3. PICK e \in Ev : e = blk[b].ev
  BY <1>2, ZenonT(30) DEF Args
<1>4. /\ Insert(e, b) /\ pc' = [pc EXCEPT ![t] = "bWait"]
      /\ UNCHANGED <<signal, blkVars>> /\ UNCHANGED <<calls, after, dispVars>> /\ loc' = loc
  BY <1>2, <1>3, ZenonT(30) DEF BlockerInsert, Go
<1>5. /\ walk' \in [Task -> Seq(Frame)] /\ \A u \in Task : walk'[u] = <<>> <=> walk[u] = <<>>
      /\ waiters' \in [Ev -> SUBSET (Blocker \cup {Disp})] /\ b \in waiters'[e]
      /\ \A d \in Ev : waiters[d] \subseteq waiters'[d]
      /\ \A c : CancelHas(c) => CancelHas(c)'
  BY <1>1, <1>4, InsertWalk, ZenonT(30)
<1>6. EvTypes'
  <2>1. pc' \in [Task -> PcSet]
    BY <1>1, <1>4, ZenonT(30) DEF EvTypes, PcSet, WaitPc
  <2> QED BY <1>1, <1>4, <1>5, <2>1, ZenonT(30) DEF EvTypes, blkVars
<1>7. WaitAt(t)'
  <2>1. Cur(t)' = b /\ blk' = blk /\ pc'[t] = "bWait" /\ calls' = calls
    BY <1>1, <1>2, <1>4, ZenonT(30) DEF Cur, blkVars, EvTypes
  <2> QED BY <1>1, <1>2, <1>3, <1>5, <2>1, ZenonT(30) DEF WaitAt
<1>8. Cur(t) \notin asleep'
  <2>1. asleep' = asleep
    BY <1>4, ZenonT(30) DEF blkVars
  <2>2. ASSUME Cur(t) \in asleep PROVE FALSE
    <3>1. PICK u \in Task : Cur(t) = Cur(u) /\ pc[u] = "asleep"
      BY <1>1, <2>2, ZenonT(30) DEF SleepOK
    <3> QED BY <1>1, <3>1, ZenonT(30) DEF Cur
  <2> QED BY <2>1, <2>2, ZenonT(30)
<1>9. UNCHANGED <<blk, status, asleep>> /\ pc[t] \in WaitPc /\ "bWait" \in WaitPc
  BY <1>1, <1>4, ZenonT(30) DEF blkVars, WaitPc
<1> QED BY <1>4, <1>5, <1>6, <1>7, <1>8, <1>9, SelfInv, ZenonT(30)

\* Blocker::wait, the timer, and the status that detach reads.
LEMMA BlockerSleepEv ==
    ASSUME EventInv, NEW t \in Task, BlockerWait(t) \/ BlockerTimeout(t) \/ BlockerStatus(t)
    PROVE  EventInv'
<1>1. EvTypes /\ pc[t] \in {"bWait", "asleep", "bStatus"} /\ WaitAt(t) /\ SleepOK
  BY WaitSplit, ZenonT(30) DEF EventInv, BlockerWait, BlockerTimeout, BlockerStatus
<1>2. PICK b \in Blocker : b = Cur(t) /\ blk[b] \in Args
  BY <1>1, ZenonT(30) DEF WaitAt, WaitPc
<1>3. /\ UNCHANGED <<signal, waiters, blk, status, walk>> /\ UNCHANGED <<calls, after, dispVars>>
      /\ \A u \in Task \ {t} : loc'[u] = loc[u]
  BY <1>1, ZenonT(30) DEF BlockerWait, BlockerTimeout, BlockerStatus, objVars, blkVars, EvTypes
<1>4. Cur(t) \in asleep => pc[t] = "asleep"
  <2>1. ASSUME Cur(t) \in asleep PROVE pc[t] = "asleep"
    <3>1. PICK u \in Task : Cur(t) = Cur(u) /\ pc[u] = "asleep"
      BY <1>1, <2>1, ZenonT(30) DEF SleepOK
    <3> QED BY <3>1, ZenonT(30) DEF Cur
  <2> QED BY <2>1, ZenonT(30)
<1>5. PICK l \in {"bStatus", "asleep", "user", "bUnwait"} :
        /\ pc' = [pc EXCEPT ![t] = l]
        /\ asleep' \subseteq asleep \cup {b}
        /\ b \in asleep' => l = "asleep" /\ status[b].signal = {}
  BY <1>2, <1>4, ZenonT(30) DEF BlockerWait, BlockerTimeout, BlockerStatus, Go, blkVars
<1>6. loc' \in [Task -> Status]
  <2>1. CASE BlockerStatus(t)
    <3>1. status[b].has \in BOOLEAN /\ loc[t] \in Status
      BY <1>1, ZenonT(30) DEF EvTypes, Status
    <3>2. [loc[t] EXCEPT !.has = status[b].has] \in Status
      BY <3>1, ZenonT(30) DEF Status
    <3>3. loc' = [loc EXCEPT ![t] = [loc[t] EXCEPT !.has = status[b].has]]
      BY <1>2, <2>1, ZenonT(30) DEF BlockerStatus
    <3> QED BY <1>1, <3>2, <3>3, ZenonT(30) DEF EvTypes
  <2>2. CASE BlockerWait(t) \/ BlockerTimeout(t)
    BY <1>1, <2>2, ZenonT(30) DEF BlockerWait, BlockerTimeout, EvTypes
  <2> QED BY <2>1, <2>2, ZenonT(30)
<1>7. EvTypes'
  <2>1. pc' \in [Task -> PcSet]
    BY <1>1, <1>5, ZenonT(30) DEF EvTypes, PcSet, WaitPc
  <2>2. asleep' \in SUBSET Blocker
    BY <1>1, <1>5, ZenonT(30) DEF EvTypes
  <2> QED BY <1>1, <1>3, <1>6, <2>1, <2>2, ZenonT(30) DEF EvTypes
<1>8. \A c : CancelHas(c) => CancelHas(c)'
  BY <1>3, ZenonT(30) DEF CancelHas
<1>9. WaitAt(t)'
  <2>1. Cur(t)' = b /\ pc'[t] = l /\ calls' = calls
    BY <1>1, <1>2, <1>3, <1>5, ZenonT(30) DEF Cur, EvTypes
  <2>2. Ended(b) => Ended(b)'
    BY <1>3, <1>8, ZenonT(30) DEF Ended
  <2>3. b \in waiters[blk[b].ev] \/ Ended(b)
    BY <1>1, <1>2, ZenonT(30) DEF WaitAt
  <2>4. Ended(b)' = Ended(Cur(t))'
    BY <2>1, ZenonT(30) DEF Ended, CancelHas
  <2> QED BY <1>1, <1>2, <1>3, <2>1, <2>2, <2>3, <2>4, ZenonT(30) DEF WaitAt
<1>10. pc[t] \in WaitPc /\ l \in WaitPc \cup {"user"}
  BY <1>1, ZenonT(30) DEF WaitPc
<1> QED BY <1>2, <1>3, <1>5, <1>7, <1>8, <1>9, <1>10, SelfInv, ZenonT(30)

\* Blocker::detach: who is not among the waiters any more has ended.
LEMMA BlockerUnwaitEv ==
    ASSUME EventInv, NEW t \in Task, BlockerUnwait(t)
    PROVE  EventInv'
<1>1. EvTypes /\ pc[t] = "bUnwait" /\ WaitAt(t) /\ SleepOK
  BY WaitSplit, Zenon DEF EventInv, BlockerUnwait
<1>2. PICK b \in Blocker : b = Cur(t) /\ blk[b] \in Args
  BY <1>1, ZenonT(30) DEF WaitAt, WaitPc
<1>3. PICK e \in Ev : e = blk[b].ev
  BY <1>2, Zenon DEF Args
<1>4. /\ waiters' = [waiters EXCEPT ![e] = @ \ {b}] /\ pc' = [pc EXCEPT ![t] = "bReturn"]
      /\ UNCHANGED <<signal, blk, status, asleep, walk>> /\ UNCHANGED <<calls, after, dispVars>>
      /\ loc' = [loc EXCEPT ![t].has = b \notin waiters[e] /\ loc[t].has]
  BY <1>2, <1>3, ZenonT(30) DEF BlockerUnwait, Go, blkVars
<1>5. PICK h \in BOOLEAN : h = (b \notin waiters[e] /\ loc[t].has)
  BY Zenon
<1>6. loc' = [loc EXCEPT ![t] = [loc[t] EXCEPT !.has = h]] /\ loc[t] \in Status
  BY <1>1, <1>4, <1>5, ZenonT(30) DEF EvTypes
<1>7. [loc[t] EXCEPT !.has = h] \in Status /\ [loc[t] EXCEPT !.has = h].has = h
  BY <1>6, ZenonT(30) DEF Status
<1>8. EvTypes'
  <2>1. pc' \in [Task -> PcSet]
    BY <1>1, <1>4, ZenonT(30) DEF EvTypes, PcSet, WaitPc
  <2>2. waiters' \in [Ev -> SUBSET (Blocker \cup {Disp})]
    BY <1>1, <1>4, ZenonT(30) DEF EvTypes
  <2>3. loc' \in [Task -> Status]
    BY <1>1, <1>6, <1>7, ZenonT(30) DEF EvTypes
  <2> QED BY <1>1, <1>4, <2>1, <2>2, <2>3, ZenonT(30) DEF EvTypes
<1>9. \A c : CancelHas(c) => CancelHas(c)'
  BY <1>4, ZenonT(30) DEF CancelHas
<1>10. WaitAt(t)'
  <2>1. Cur(t)' = b /\ pc'[t] = "bReturn" /\ calls' = calls
    BY <1>1, <1>2, <1>4, ZenonT(30) DEF Cur, EvTypes
  <2>2. Ended(b) => Ended(b)'
    BY <1>4, <1>9, ZenonT(30) DEF Ended
  <2>3. b \in waiters[e] \/ Ended(b)
    BY <1>1, <1>2, <1>3, ZenonT(30) DEF WaitAt
  <2>4. Ended(b)' = Ended(Cur(t))'
    BY <2>1, ZenonT(30) DEF Ended, CancelHas
  <2>5. loc'[t].has = h
    BY <1>1, <1>6, <1>7, ZenonT(30) DEF EvTypes
  <2>6. loc'[t].has => Ended(Cur(t))'
    BY <1>5, <2>2, <2>3, <2>4, <2>5, ZenonT(30)
  <2> QED BY <1>1, <1>2, <1>4, <2>1, <2>6, ZenonT(30) DEF WaitAt
<1>11. Cur(t) \notin asleep'
  <2>1. ASSUME Cur(t) \in asleep PROVE FALSE
    <3>1. PICK u \in Task : Cur(t) = Cur(u) /\ pc[u] = "asleep"
      BY <1>1, <2>1, ZenonT(30) DEF SleepOK
    <3> QED BY <1>1, <3>1, ZenonT(30) DEF Cur
  <2> QED BY <1>4, <2>1, ZenonT(30)
<1>12. pc[t] \in WaitPc /\ "bReturn" \in WaitPc
  BY <1>1, ZenonT(30) DEF WaitPc
<1>13. \A u \in Task \ {t} : loc'[u] = loc[u]
  BY <1>1, <1>6, ZenonT(30) DEF EvTypes
<1>14. \A d \in Ev : \A c : c \in waiters[d] /\ c # Cur(t) => c \in waiters'[d]
  BY <1>1, <1>2, <1>4, ZenonT(30) DEF EvTypes
<1> QED BY <1>4, <1>8, <1>9, <1>10, <1>11, <1>12, <1>13, <1>14, SelfInv, ZenonT(30)

\* obj_wait returns and the blocker is dropped.
LEMMA BlockerReturnEv ==
    ASSUME EventInv, NEW t \in Task, BlockerReturn(t)
    PROVE  EventInv'
<1>1. EvTypes /\ pc[t] = "bReturn" /\ WaitAt(t) /\ SleepOK
  BY WaitSplit, ZenonT(30) DEF EventInv, BlockerReturn
<1>2. PICK b \in Blocker : b = Cur(t) /\ blk[b] \in Args
  BY <1>1, ZenonT(30) DEF WaitAt, WaitPc
<1>3. /\ pc' = [pc EXCEPT ![t] = "user"] /\ loc' = [loc EXCEPT ![t] = NoStatus]
      /\ blk' = [blk EXCEPT ![b] = None] /\ status' = [status EXCEPT ![b] = NoStatus]
      /\ UNCHANGED <<waiters, asleep, walk>> /\ UNCHANGED <<calls, after, dispVars>>
  BY <1>2, ZenonT(30) DEF BlockerReturn, Go, Forget
<1>4. signal' \in [Ev -> SUBSET Bit]
  <2>1. signal' = signal \/ signal' = [signal EXCEPT ![blk[b].ev] = @ \ blk[b].want]
    BY <1>2, Zenon DEF BlockerReturn
  <2> QED BY <1>1, <2>1, ZenonT(30) DEF EvTypes
<1>5. NoStatus \in Status
  BY FrameMade, Zenon DEF Ev, Bit
<1>6. EvTypes'
  <2>1. pc' \in [Task -> PcSet]
    BY <1>1, <1>3, ZenonT(30) DEF EvTypes, PcSet
  <2>2. blk' \in [Blocker -> Args \cup {None}]
    BY <1>1, <1>3, ZenonT(30) DEF EvTypes
  <2>3. status' \in [Blocker -> Status] /\ loc' \in [Task -> Status]
    BY <1>1, <1>3, <1>5, ZenonT(30) DEF EvTypes
  <2> QED BY <1>1, <1>3, <1>4, <2>1, <2>2, <2>3, Zenon DEF EvTypes
<1>7. \A c : CancelHas(c) => CancelHas(c)'
  BY <1>3, Zenon DEF CancelHas
<1>8. WaitAt(t)'
  <2>1. pc'[t] = "user" /\ calls' = calls
    BY <1>1, <1>3, ZenonT(30) DEF EvTypes
  <2> QED BY <1>1, <2>1, ZenonT(30) DEF WaitAt, WaitPc
<1>9. Cur(t) \notin asleep'
  <2>1. ASSUME Cur(t) \in asleep PROVE FALSE
    <3>1. PICK u \in Task : Cur(t) = Cur(u) /\ pc[u] = "asleep"
      BY <1>1, <2>1, ZenonT(30) DEF SleepOK
    <3> QED BY <1>1, <3>1, ZenonT(30) DEF Cur
  <2> QED BY <1>3, <2>1, ZenonT(30)
<1>10. pc[t] \in WaitPc
  BY <1>1, ZenonT(30) DEF WaitPc
<1>11. \A u \in Task \ {t} : loc'[u] = loc[u]
  BY <1>1, <1>3, ZenonT(30) DEF EvTypes
<1>12. \A c \in Blocker \ {Cur(t)} : blk'[c] = blk[c] /\ status'[c] = status[c]
  BY <1>1, <1>2, <1>3, ZenonT(30) DEF EvTypes
<1> QED BY <1>3, <1>6, <1>7, <1>8, <1>9, <1>10, <1>11, <1>12, SelfInv, ZenonT(30)

\* Blocker::on_notify and on_cancel: the blocker leaves the map with a signal it
\* waited for, or without one because it was cancelled, and its task wakes up.
LEMMA VisitBlockerEv ==
    ASSUME EventInv, NEW t \in Task, NEW b \in Blocker, VisitBlocker(t, b)
    PROVE  EventInv'
<1>1. pc[t] = "walk" /\ EvTypes /\ WalkShape /\ Top(t).step \in {"notify", "cancel"} /\ b \in Top(t).todo
  BY Zenon DEF VisitBlocker, EventInv
<1>2. PICK f \in Frame, r \in Seq(Frame) :
        /\ walk[t] = <<f>> \o r /\ Top(t) = f /\ Tail(walk[t]) = r
        /\ Len(walk[t]) = 1 <=> r = <<>>
  BY <1>1, WalkTop, ZenonT(30)
<1>3. PICK g \in Frame : g = [f EXCEPT !.todo = @ \ {b}]
  BY ZenonT(30) DEF Frame
<1>4. g.step = f.step /\ g.todo = f.todo \ {b} /\ f.ev \in Ev /\ f.signal \in SUBSET Bit
  BY <1>3, ZenonT(30) DEF Frame
<1>5. PICK X \in Seq(Frame) : X = <<g>> \o r /\ X # <<>>
  BY HasCons, ZenonT(30)
<1>6. walk' = [walk EXCEPT ![t] = X]
  BY <1>2, <1>3, <1>5, ZenonT(30) DEF VisitBlocker, SetTop
<1>7. UNCHANGED <<signal, dispVars, calls, after, loc>>
  BY Zenon DEF VisitBlocker
<1>8. \A c \in Blocker \ {b} : CancelHas(c) => CancelHas(c)'
  <2> SUFFICES ASSUME NEW c \in Blocker, c # b PROVE CancelHas(c) => CancelHas(c)'
    BY Zenon
  <2>1. (HasIn(r, c) => HasIn(X, c)) /\ (f.step = "cancel" /\ c \in f.todo => HasIn(X, c))
    BY <1>4, <1>5, HasCons, ZenonT(30)
  <2> QED BY <1>1, <1>2, <1>6, <2>1, WalkStep, ZenonT(30)
<1>9. (\A u \in Task : WaitAt(u)) /\ SleepOK
  BY WaitSplit, ZenonT(30) DEF EventInv
<1>10. \A u \in Task : (pc[u] = "walk" <=> walk'[u] # <<>>)
  BY <1>1, <1>5, <1>6, ZenonT(30) DEF EvTypes, WalkShape
<1>11. walk' \in [Task -> Seq(Frame)]
  BY <1>1, <1>6, ZenonT(30) DEF EvTypes
<1>12. b # Disp
  BY BlockerIs, ZenonT(30)
<1>13. CASE f.step = "cancel" \/ (b \in waiters[f.ev] /\ CanSignal(blk[b], f.signal, FALSE))
  <2>1. /\ \/ (pc[b[1]] = "user" \/ Cur(b[1]) # b) /\ Forget(b, status)
           \/ /\ ~(pc[b[1]] = "user" \/ Cur(b[1]) # b) /\ blk' = blk
              /\ status' = [status EXCEPT ![b] = [has |-> f.step = "notify", signal |-> f.signal]]
        /\ waiters' = [waiters EXCEPT ![f.ev] = @ \ {b}]
        /\ WakeSleeper(b)
    BY <1>2, <1>13, ZenonT(30) DEF VisitBlocker
  <2>2. b \in asleep => \E u \in Task : b = Cur(u) /\ pc[u] = "asleep" /\ u = b[1]
    BY <1>9 DEF SleepOK, Cur
  <2>3. \A u \in Task : pc'[u] = IF b \in asleep /\ u = b[1] THEN "bStatus" ELSE pc[u]
    BY <1>1, <2>1, ZenonT(30) DEF WakeSleeper, EvTypes
  <2>4. [has |-> f.step = "notify", signal |-> f.signal] \in Status /\ NoStatus \in Status
    <3>1. (f.step = "notify") \in BOOLEAN
      BY Zenon
    <3>2. NoStatus \in Status
      BY FrameMade, ZenonT(30) DEF Ev, Bit
    <3> QED BY <1>4, <3>1, <3>2, ZenonT(30) DEF Status
  <2>5. \A c \in Blocker \ {b} : blk'[c] = blk[c] /\ status'[c] = status[c]
    BY <1>1, <2>1, ZenonT(30) DEF Forget, EvTypes
  <2>6. EvTypes'
    <3>1. pc' \in [Task -> PcSet]
      BY <1>1, <2>1, ZenonT(30) DEF EvTypes, PcSet, WaitPc, WakeSleeper
    <3>2. blk' \in [Blocker -> Args \cup {None}]
      BY <1>1, <2>1, ZenonT(30) DEF EvTypes, Forget
    <3>3. status' \in [Blocker -> Status]
      BY <1>1, <2>1, <2>4, ZenonT(30) DEF EvTypes, Forget
    <3>4. waiters' \in [Ev -> SUBSET (Blocker \cup {Disp})] /\ asleep' \in SUBSET Blocker
      BY <1>1, <1>4, <2>1, ZenonT(30) DEF EvTypes, WakeSleeper
    <3> QED BY <1>1, <1>7, <1>11, <3>1, <3>2, <3>3, <3>4, ZenonT(30) DEF EvTypes
  <2>7. WalkShape'
    BY <1>10, <2>2, <2>3, ZenonT(30) DEF WalkShape
  <2>8. ASSUME NEW u \in Task PROVE WaitAt(u)'
    <3>1. CASE Cur(u) = b /\ pc[u] \in WaitPc
      <4>1. u = b[1] /\ pc[u] # "user" /\ Cur(u)' = b
        BY <1>7, <3>1, ZenonT(30) DEF Cur, WaitPc
      <4>2. blk' = blk /\ status' = [status EXCEPT ![b] = [has |-> f.step = "notify", signal |-> f.signal]]
        BY <2>1, <3>1, <4>1, ZenonT(30)
      <4>3. status'[b].signal = f.signal /\ (f.step = "cancel" => ~status'[b].has)
        <5>1. status'[b] = [has |-> f.step = "notify", signal |-> f.signal]
          BY <1>1, <4>2, ZenonT(30) DEF EvTypes
        <5>2. status'[b].has = (f.step = "notify") /\ status'[b].signal = f.signal
          BY <5>1
        <5> QED BY <5>2, ZenonT(30)
      <4>4. Ended(b)'
        BY <1>13, <4>2, <4>3, ZenonT(30) DEF Ended, CanSignal
      <4>5. Ended(Cur(u))' = Ended(b)'
        BY <4>1, ZenonT(30) DEF Ended, CancelHas
      <4>6. calls'[u] <= Budget[u] /\ blk'[b] \in Args
        BY <1>7, <1>9, <3>1, <4>2, ZenonT(30) DEF WaitAt
      <4> QED BY <4>1, <4>4, <4>5, <4>6, ZenonT(30) DEF WaitAt
    <3>2. CASE ~(Cur(u) = b /\ pc[u] \in WaitPc)
      <4>1. pc'[u] = pc[u]
        BY <2>2, <2>3, <3>2, ZenonT(30) DEF WaitPc, Cur
      <4>2. pc[u] \in WaitPc => Cur(u) \in Blocker /\ Cur(u) # b
        BY <1>9, <3>2, ZenonT(30) DEF WaitAt
      <4>3. pc[u] \in WaitPc => (CancelHas(Cur(u)) => CancelHas(Cur(u))')
        <5> SUFFICES ASSUME pc[u] \in WaitPc PROVE CancelHas(Cur(u)) => CancelHas(Cur(u))'
          BY Zenon
        <5>1. PICK c \in Blocker \ {b} : c = Cur(u) /\ c = Cur(u)'
          BY <1>7, <4>2, Zenon DEF Cur
        <5> QED BY <1>8, <5>1 DEF CancelHas
      <4>4. \A e \in Ev : \A c : c \in waiters[e] /\ c # b => c \in waiters'[e]
        BY <1>1, <1>4, <2>1, Zenon DEF EvTypes
      <4> QED BY <1>1, <1>7, <1>9, <2>5, <4>1, <4>2, <4>3, <4>4, OtherAt, ZenonT(30)
    <3> QED BY <3>1, <3>2, ZenonT(30)
  <2>9. SleepOK'
    <3> SUFFICES ASSUME NEW c \in asleep' PROVE \E u \in Task : (c = Cur(u) /\ pc[u] = "asleep" /\ status[c].signal = {})'
      BY Zenon DEF SleepOK
    <3>1. c \in asleep /\ c # b /\ c \in Blocker
      BY <1>1, <2>1, Zenon DEF WakeSleeper, EvTypes
    <3>2. PICK u \in Task : c = Cur(u) /\ pc[u] = "asleep" /\ status[c].signal = {}
      BY <1>9, <3>1, Zenon DEF SleepOK
    <3>3. pc'[u] = "asleep"
      BY <2>2, <2>3, <3>1, <3>2, Zenon
    <3> QED BY <1>7, <2>5, <3>1, <3>2, <3>3, Zenon DEF Cur
  <2>10. WaitInv'
    <3>1. \A u \in Task : WaitAt(u)'
      BY <2>8, ZenonT(30)
    <3> QED BY <2>9, <3>1, WaitJoin, Zenon
  <2>11. PendingCovered'
    <3>1. \A u \in Task : Pusher(u) => Pusher(u)'
      BY <1>7, <2>2, <2>3, ZenonT(30) DEF Pusher
    <3>2. Disp \in waiters["obj"] => Disp \in waiters'["obj"]
      BY <1>1, <1>4, <1>12, <2>1, ZenonT(30) DEF EvTypes, Ev
    <3> QED BY <1>7, <3>1, <3>2, PendKept, ZenonT(30) DEF EventInv, dispVars
  <2> QED BY <2>6, <2>7, <2>10, <2>11, ZenonT(30) DEF EventInv
<1>14. CASE ~(f.step = "cancel" \/ (b \in waiters[f.ev] /\ CanSignal(blk[b], f.signal, FALSE)))
  <2>1. UNCHANGED <<blkVars, waiters, pc>>
    BY <1>2, <1>14, ZenonT(30) DEF VisitBlocker
  <2>2. pc' = [pc EXCEPT ![t] = IF X = <<>> THEN after[t] ELSE "walk"]
    BY <1>1, <1>5, <2>1, ZenonT(30) DEF EvTypes
  <2>3. \A c \in Blocker : HasIn(r, c) => HasIn(X, c)
    BY <1>5, HasCons, ZenonT(30)
  <2>4. signal' = signal /\ signal' \in [Ev -> SUBSET Bit] /\ waiters' = waiters
        /\ waiters' \in [Ev -> SUBSET (Blocker \cup {Disp})]
    BY <1>1, <1>7, <2>1, ZenonT(30) DEF EvTypes
  <2>5. EvTypes' /\ WalkShape' /\ WaitInv' /\ (\A u \in Task : Pusher(u) => Pusher(u)')
    BY <1>1, <1>2, <1>6, <1>7, <1>14, <2>1, <2>2, <2>3, <2>4, WalkInv, ZenonT(30)
  <2>6. PendingCovered'
    BY <1>7, <2>4, <2>5, PendKept, ZenonT(30) DEF EventInv, dispVars
  <2> QED BY <2>5, <2>6, ZenonT(30) DEF EventInv
<1> QED BY <1>13, <1>14, ZenonT(30)

\* Every step keeps the invariant of the waits.
LEMMA NextEv ==
    ASSUME EventInv, [Next]_vars
    PROVE  EventInv'
<1>1. CASE UNCHANGED vars
  <2>1. EvTypes' /\ WalkShape'
    BY <1>1, ZenonT(30) DEF EventInv, EvTypes, WalkShape, vars
  <2>2. CurOK' /\ SleepOK' /\ Covered' /\ OkWasSignalled'
    BY <1>1, ZenonT(30) DEF EventInv, WaitInv, CurOK, SleepOK, Covered, OkWasSignalled, Ended, CancelHas, Cur, vars
  <2>3. PendingCovered'
    BY <1>1, ZenonT(30) DEF EventInv, PendingCovered, PendingKeys, vars
  <2> QED BY <2>1, <2>2, <2>3, ZenonT(30) DEF EventInv, WaitInv
<1>2. ASSUME NEW t \in Task, Kernel(t) PROVE EventInv'
  BY <1>2, BlockerInsertEv, BlockerSleepEv, BlockerUnwaitEv, BlockerReturnEv, NotifyCasEv, NotifyStartEv,
     CancelTakeEv, WalkEndEv, VisitBlockerEv, VisitDispatcherEv, CancelDispatcherEv, PushTryEv,
     PushInsertEv, ZenonT(30) DEF Kernel
<1>3. ASSUME NEW t \in Task, UserCall(t) PROVE EventInv'
  BY <1>3, ObjWaitEv, NotifyOrCancelEv, DispPushEv, DispPopEv, ZenonT(30) DEF UserCall
<1>4. ASSUME NEW t \in Task, BlockerTimeout(t) PROVE EventInv'
  BY <1>4, BlockerSleepEv, ZenonT(30)
<1> QED BY <1>1, <1>2, <1>3, <1>4, Zenon DEF Next

\* Nobody waits, nothing is pending.
LEMMA InitEv == Init => EventInv
<1> SUFFICES ASSUME Init PROVE EventInv
  BY Zenon
<1>1. EvTypes
  <2>1. NoStatus \in Status
    BY FrameMade, ZenonT(30) DEF Ev, Bit
  <2>2. <<>> \in Seq(Frame)
    OBVIOUS
  <2>3. walk \in [Task -> Seq(Frame)] /\ status \in [Blocker -> Status] /\ loc \in [Task -> Status]
    BY <2>1, <2>2, ZenonT(30) DEF Init
  <2>4. pc \in [Task -> PcSet] /\ after \in [Task -> {"user", "pInsert"}] /\ calls \in [Task -> Nat]
    BY Zenon DEF Init, PcSet
  <2> QED BY <2>3, <2>4, ZenonT(30) DEF EvTypes, Init
<1>2. WalkShape
  BY Zenon DEF Init, WalkShape
<1>3. WaitInv
  <2>1. \A t \in Task : calls[t] = 0 /\ Budget[t] \in Nat /\ pc[t] = "user"
    BY EventAssumption, Zenon DEF Init
  <2>2. CurOK /\ Covered /\ OkWasSignalled
    BY <2>1 DEF CurOK, Covered, OkWasSignalled, WaitPc
  <2>3. SleepOK
    BY Zenon DEF Init, SleepOK
  <2> QED BY <2>2, <2>3, ZenonT(30) DEF WaitInv
<1>4. PendingCovered
  BY ZenonT(30) DEF Init, PendingCovered
<1> QED BY <1>1, <1>2, <1>3, <1>4, ZenonT(30) DEF EventInv

\* Whoever waits stays within reach: a dispatcher with requests is registered, is
\* about to be or was cut off by event_cancel, and the blocker of a task that sleeps
\* in obj_wait is in the waiters' map or in the hands of a cancel.
THEOREM AlwaysReachable == Spec => []WaitersReachable
<1>1. EventInv => WaitersReachable
  <2> SUFFICES ASSUME EventInv PROVE WaitersReachable
    BY Zenon
  <2>1. SleeperRegistered
    <3> SUFFICES ASSUME NEW b \in asleep
                 PROVE  b \in waiters[blk[b].ev] \/ CancelHas(b) \/ ~status[b].has
      BY Zenon DEF SleeperRegistered
    <3>1. PICK t \in Task : b = Cur(t) /\ pc[t] = "asleep" /\ status[b].signal = {}
      BY Zenon DEF EventInv, WaitInv, SleepOK
    <3>2. b \in waiters[blk[b].ev] \/ Ended(b)
      BY <3>1, Zenon DEF EventInv, WaitInv, Covered
    <3>3. blk[b].want # {}
      <4>1. blk[b] \in Args
        BY <3>1, ZenonT(30) DEF EventInv, WaitInv, CurOK, WaitPc
      <4> QED BY <4>1, EventAssumption, ZenonT(30) DEF Args
    <3> QED BY <3>1, <3>2, <3>3, ZenonT(30) DEF Ended
  <2> QED BY <2>1, Zenon DEF WaitersReachable, EventInv
<1> QED BY InitEv, NextEv, <1>1, PTL DEF Spec

\* obj_wait does not succeed by accident: when detach answers Ok, the status holds
\* the signals waited for, or a cancel overtook it.
THEOREM OkAlwaysSignalled == Spec => []OkWasSignalled
<1>1. EventInv => OkWasSignalled
  BY Zenon DEF EventInv, WaitInv
<1> QED BY InitEv, NextEv, <1>1, PTL DEF Spec
=============================================================================
