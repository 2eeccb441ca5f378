------------------------------ MODULE RwProofs ------------------------------
(* The reader-writer lock of h2o_std, for any threads and any programs that  *)
(* use it together with the rest of the locks: a writer is alone, the word   *)
(* counts who is inside, and readers wait at a read lock behind a writer.    *)
EXTENDS SyncProofs, FiniteSetTheorems

-----------------------------------------------------------------------------
\* What the word holds, and what a thread that is about to exchange it has read.
RwStates == [n : 0..MASK, rw : BOOLEAN, ww : BOOLEAN]
RwReads(l, r) ==
    /\ l \in {"read_fast", "read_cas"} => r \in RwStates /\ is_read_lockable(r)
    /\ l = "read_flag" => r \in RwStates /\ (r.ww \/ r.n = MASK)
    /\ l = "write_cas" => r \in RwStates /\ r.n = 0
    /\ l \in {"wake_writers", "wake_both", "wake_readers"} => r \in RwStates /\ r.n = 0

RwType ==
    /\ State \in RwStates /\ waited \in [Thread -> BOOLEAN]
    /\ \A t \in Thread : RwReads(pc[t], reg[t])

\* The number of readers never reaches the mark of a writer.
RwInv == RwType /\ RwExclusive /\ Cardinality(Readers) < MASK

\* Places outside the lock, and the ones where nothing that was read counts.
FreeRwPc == {"read_spin", "read_sleep", "write_spin", "write_flag", "write_seq", "write_check",
             "write_sleep", "wake_writer", "wake_writer_first", "wake_writer_futex",
             "wake_writer_first_futex", "wake_all"} \union Over
OutRwPc == FreeRwPc \union {"read_fast", "read_cas", "read_flag", "write_cas",
                            "wake_writers", "wake_both", "wake_readers"}

-----------------------------------------------------------------------------
\* The updates of the word.
LEMMA WithIs ==
    ASSUME NEW s \in RwStates, NEW b \in BOOLEAN, NEW k \in 0..MASK
    PROVE  /\ s.n \in 0..MASK /\ s.rw \in BOOLEAN /\ s.ww \in BOOLEAN
           /\ [s EXCEPT !.rw = b] \in RwStates
           /\ [s EXCEPT !.rw = b].n = s.n /\ [s EXCEPT !.rw = b].ww = s.ww
           /\ [s EXCEPT !.ww = b] \in RwStates
           /\ [s EXCEPT !.ww = b].n = s.n /\ [s EXCEPT !.ww = b].ww = b
           /\ [s EXCEPT !.n = k] \in RwStates /\ [s EXCEPT !.n = k].n = k
           /\ [s EXCEPT !.n = k].rw = s.rw /\ [s EXCEPT !.n = k].ww = s.ww
<1>1. s.n \in 0..MASK /\ s.rw \in BOOLEAN /\ s.ww \in BOOLEAN BY Zenon DEF RwStates
<1>2. [s EXCEPT !.rw = b] \in RwStates BY Zenon DEF RwStates
<1>3. [s EXCEPT !.rw = b].n = s.n /\ [s EXCEPT !.rw = b].ww = s.ww BY Zenon DEF RwStates
<1>4. [s EXCEPT !.ww = b] \in RwStates BY Zenon DEF RwStates
<1>5. [s EXCEPT !.ww = b].n = s.n /\ [s EXCEPT !.ww = b].ww = b BY Zenon DEF RwStates
<1>6. [s EXCEPT !.n = k] \in RwStates BY Zenon DEF RwStates
<1>7. [s EXCEPT !.n = k].n = k BY Zenon DEF RwStates
<1>8. [s EXCEPT !.n = k].rw = s.rw /\ [s EXCEPT !.n = k].ww = s.ww BY Zenon DEF RwStates
<1> QED BY <1>1, <1>2, <1>3, <1>4, <1>5, <1>6, <1>7, <1>8, ZenonT(30)

\* A writer's mark, with the bit of the writers that wait.
LEMMA MarkIs ==
    ASSUME NEW s \in RwStates, NEW b \in BOOLEAN
    PROVE  /\ [s EXCEPT !.n = MASK] \in RwStates /\ [s EXCEPT !.n = MASK].n = MASK
           /\ [s EXCEPT !.n = MASK, !.ww = @ \/ b] \in RwStates
           /\ [s EXCEPT !.n = MASK, !.ww = @ \/ b].n = MASK
<1>1. MASK \in 0..MASK BY MaskAssumption, SMT
<1>2. [s EXCEPT !.n = MASK] \in RwStates /\ [s EXCEPT !.n = MASK].n = MASK
  <2>1. [s EXCEPT !.n = MASK] \in RwStates BY <1>1, Zenon DEF RwStates
  <2>2. [s EXCEPT !.n = MASK].n = MASK BY Zenon DEF RwStates
  <2> QED BY <2>1, <2>2, Zenon
<1>3. [s EXCEPT !.n = MASK, !.ww = @ \/ b] = [[s EXCEPT !.n = MASK] EXCEPT !.ww = s.ww \/ b]
    BY Zenon DEF RwStates
<1>4. (s.ww \/ b) \in BOOLEAN BY Zenon
<1>5. [[s EXCEPT !.n = MASK] EXCEPT !.ww = s.ww \/ b] \in RwStates BY <1>2, <1>4, Zenon DEF RwStates
<1>6. [[s EXCEPT !.n = MASK] EXCEPT !.ww = s.ww \/ b].n = MASK BY <1>2, Zenon DEF RwStates
<1> QED BY <1>2, <1>3, <1>5, <1>6, Zenon

\* The count goes up, goes down, and is taken back to nothing.
LEMMA CountIs ==
    ASSUME NEW s \in RwStates
    PROVE  /\ s.n + 1 \in 0..MASK =>
                 /\ [s EXCEPT !.n = @ + 1] \in RwStates /\ [s EXCEPT !.n = @ + 1].n = s.n + 1
                 /\ [s EXCEPT !.n = @ + 1].rw = s.rw
           /\ s.n - 1 \in 0..MASK =>
                 /\ [s EXCEPT !.n = @ - 1] \in RwStates /\ [s EXCEPT !.n = @ - 1].n = s.n - 1
                 /\ [s EXCEPT !.n = @ - 1].rw = s.rw /\ [s EXCEPT !.n = @ - 1].ww = s.ww
           /\ s.n = MASK =>
                 [s EXCEPT !.n = @ - MASK] \in RwStates /\ [s EXCEPT !.n = @ - MASK].n = 0
<1>1. ASSUME s.n + 1 \in 0..MASK
      PROVE  [s EXCEPT !.n = @ + 1] \in RwStates /\ [s EXCEPT !.n = @ + 1].n = s.n + 1
    BY <1>1, Zenon DEF RwStates
<1>2. [s EXCEPT !.n = @ + 1].rw = s.rw BY Zenon DEF RwStates
<1>3. ASSUME s.n - 1 \in 0..MASK
      PROVE  [s EXCEPT !.n = @ - 1] \in RwStates /\ [s EXCEPT !.n = @ - 1].n = s.n - 1
    BY <1>3, Zenon DEF RwStates
<1>4. [s EXCEPT !.n = @ - 1].rw = s.rw /\ [s EXCEPT !.n = @ - 1].ww = s.ww BY Zenon DEF RwStates
<1>5. ASSUME s.n = MASK
      PROVE  [s EXCEPT !.n = @ - MASK] \in RwStates /\ [s EXCEPT !.n = @ - MASK].n = 0
  <2>1. s.n - MASK = 0 /\ 0 \in 0..MASK BY <1>5, MaskAssumption, SMT
  <2> QED BY <2>1, Zenon DEF RwStates
<1> QED BY <1>1, <1>2, <1>3, <1>4, <1>5, Zenon

\* The states without anybody inside.
LEMMA UnlockedIs ==
    /\ Unlocked0 \in RwStates /\ Unlocked0.n = 0
    /\ [Unlocked0 EXCEPT !.rw = TRUE] \in RwStates /\ [Unlocked0 EXCEPT !.rw = TRUE].n = 0
    /\ [Unlocked0 EXCEPT !.ww = TRUE] \in RwStates /\ [Unlocked0 EXCEPT !.ww = TRUE].n = 0
    /\ [Unlocked0 EXCEPT !.ww = TRUE, !.rw = TRUE] \in RwStates
    /\ [Unlocked0 EXCEPT !.ww = TRUE, !.rw = TRUE].n = 0
<1>1. 0 \in 0..MASK BY MaskAssumption, SMT
<1>2. Unlocked0 \in RwStates BY <1>1, Zenon DEF RwStates, Unlocked0
<1>3. Unlocked0.n = 0 BY Zenon DEF Unlocked0
<1>4. [Unlocked0 EXCEPT !.rw = TRUE] \in RwStates /\ [Unlocked0 EXCEPT !.rw = TRUE].n = 0
    BY <1>1, <1>2, <1>3, WithIs, Zenon
<1>5. [Unlocked0 EXCEPT !.ww = TRUE] \in RwStates /\ [Unlocked0 EXCEPT !.ww = TRUE].n = 0
    BY <1>1, <1>2, <1>3, WithIs, Zenon
<1>6. [Unlocked0 EXCEPT !.ww = TRUE, !.rw = TRUE]
          = [[Unlocked0 EXCEPT !.ww = TRUE] EXCEPT !.rw = TRUE] BY Zenon DEF Unlocked0
<1>7. /\ [Unlocked0 EXCEPT !.ww = TRUE, !.rw = TRUE] \in RwStates
      /\ [Unlocked0 EXCEPT !.ww = TRUE, !.rw = TRUE].n = 0
    BY <1>1, <1>5, <1>6, WithIs, Zenon
<1> QED BY <1>2, <1>3, <1>4, <1>5, <1>7, ZenonT(30)

\* What a thread reads decides where it goes, and is what that place asks for.
LEMMA LabelsRead ==
    ASSUME NEW s \in RwStates
    PROVE  /\ ReadLabel(s) \in OutRwPc /\ RwReads(ReadLabel(s), s)
           /\ WriteLabel(s) \in OutRwPc /\ RwReads(WriteLabel(s), s)
           /\ WakeLabel(s) \in OutRwPc /\ RwReads(WakeLabel(s), s)
<1>1. ReadLabel(s) \in OutRwPc /\ RwReads(ReadLabel(s), s)
    BY MaskAssumption, SMT DEF ReadLabel, RwReads, OutRwPc, FreeRwPc, Over, RwStates,
        is_read_lockable, has_reached_max_readers, MAX_READERS
<1>2. WriteLabel(s) \in OutRwPc /\ RwReads(WriteLabel(s), s)
    BY SMT DEF WriteLabel, RwReads, OutRwPc, FreeRwPc, Over, is_unlocked
<1>3. WakeLabel(s) \in OutRwPc /\ RwReads(WakeLabel(s), s)
  <2>1. CASE \/ s = [Unlocked0 EXCEPT !.ww = TRUE]
             \/ s = [Unlocked0 EXCEPT !.ww = TRUE, !.rw = TRUE]
             \/ s = [Unlocked0 EXCEPT !.rw = TRUE]
    <3>1. s.n = 0 BY <2>1, UnlockedIs, Zenon
    <3>2. WakeLabel(s) \in {"wake_writers", "wake_both", "wake_readers", "ready"}
        BY SMT DEF WakeLabel
    <3> QED BY <3>1, <3>2, SMT DEF RwReads, OutRwPc, FreeRwPc, Over
  <2>2. CASE ~(\/ s = [Unlocked0 EXCEPT !.ww = TRUE]
               \/ s = [Unlocked0 EXCEPT !.ww = TRUE, !.rw = TRUE]
               \/ s = [Unlocked0 EXCEPT !.rw = TRUE])
    <3>1. WakeLabel(s) = "ready" BY <2>2, SMT DEF WakeLabel
    <3> QED BY <3>1, SMT DEF RwReads, OutRwPc, FreeRwPc, Over
  <2> QED BY <2>1, <2>2, Zenon
<1> QED BY <1>1, <1>2, <1>3, Zenon

\* Most places ask for nothing.
LEMMA FreeReads ==
    ASSUME NEW r, NEW l \in FreeRwPc \union {"reading", "writing"}
    PROVE  RwReads(l, r)
    BY SMT DEF RwReads, FreeRwPc, Over

\* Outside is not inside.
LEMMA OutIsOut ==
    ASSUME NEW l \in OutRwPc
    PROVE  l # "reading" /\ l # "writing"
    BY SMT DEF OutRwPc, FreeRwPc, Over

-----------------------------------------------------------------------------
\* What a step does to the word and to who is inside: nothing; it reads the word;
\* it sets a bit, or clears the bits of a free lock; it enters; it leaves.
Stays(t) ==
    /\ pc[t] \in OutRwPc /\ UNCHANGED val
    /\ \/ \E l \in FreeRwPc : Goto(t, l)
       \/ Goto(t, "wake_readers") /\ Load(t, [Unlocked0 EXCEPT !.rw = TRUE])
       \/ /\ Load(t, State)
          /\ \/ Goto(t, ReadLabel(State)) \/ Goto(t, WriteLabel(State)) \/ Goto(t, WakeLabel(State))
             \/ is_read_lockable(State) /\ Goto(t, "read_fast")
Marks(t) ==
    /\ pc[t] \in OutRwPc /\ \E l \in FreeRwPc : Goto(t, l)
    /\ \/ \E x : Put("writer_notify", x)
       \/ (State.ww \/ State.n = MASK) /\ Set([State EXCEPT !.rw = TRUE])
       \/ Set([State EXCEPT !.ww = TRUE])
       \/ State.n = 0 /\ (Set(Unlocked0) \/ Set([State EXCEPT !.ww = FALSE]))
EntersRead(t) ==
    /\ pc[t] \in OutRwPc /\ Goto(t, "reading")
    /\ is_read_lockable(State) /\ Set([State EXCEPT !.n = @ + 1])
EntersWrite(t) ==
    /\ pc[t] \in OutRwPc /\ Goto(t, "writing") /\ State.n = 0
    /\ Set([State EXCEPT !.n = MASK]) \/ Set([State EXCEPT !.n = MASK, !.ww = @ \/ waited[t]])
Leaves(t, s) ==
    Set(s) /\ Load(t, s) /\ (Goto(t, WakeLabel(s)) \/ Goto(t, "ready"))
LeavesRead(t) == pc[t] = "reading" /\ Leaves(t, [State EXCEPT !.n = @ - 1])
LeavesWrite(t) == pc[t] = "writing" /\ Leaves(t, [State EXCEPT !.n = @ - MASK])
RwEffect(t) ==
    /\ \/ Stays(t) \/ Marks(t) \/ EntersRead(t) \/ EntersWrite(t) \/ LeavesRead(t) \/ LeavesWrite(t)
    /\ UNCHANGED waited \/ \E b \in BOOLEAN : waited' = [waited EXCEPT ![t] = b]

\* Each step of the lock does one of these.
LEMMA RwEffects ==
    ASSUME NEW t \in Thread, RwType, RwStep(t)
    PROVE  RwEffect(t)
<1>a. RwReads(pc[t], reg[t]) BY Zenon DEF RwType
<1>1. CASE Read(t)
    BY <1>1, Zenon DEF Read, Ready, futexes, At, RwEffect, Stays, OutRwPc, FreeRwPc, Over
<1>2. CASE ReadFast(t)
    BY <1>2, <1>a, ZenonT(30) DEF ReadFast, At, Keep3, futexes, RwEffect, EntersRead, Stays,
        OutRwPc, FreeRwPc, Over, RwReads
<1>3. CASE ReadSpin(t)
    BY <1>3, Zenon DEF ReadSpin, At, Keep3, futexes, RwEffect, Stays, OutRwPc, FreeRwPc,
        Over
<1>4. CASE ReadCas(t)
    BY <1>4, <1>a, Zenon DEF ReadCas, At, Keep3, Cas, futexes, RwEffect, EntersRead, Stays,
        OutRwPc, FreeRwPc, Over, RwReads
<1>5. CASE ReadFlag(t)
    BY <1>5, <1>a, Zenon DEF ReadFlag, At, Keep3, Cas, futexes, RwEffect, Marks, Stays,
        OutRwPc, FreeRwPc, Over, RwReads
<1>6. CASE ReadSleep(t)
    BY <1>6, Zenon DEF ReadSleep, At, Keep3, FutexWait, F!Wait, futexes, RwEffect, Stays,
        OutRwPc, FreeRwPc, Over
<1>7. CASE TryRead(t)
    BY <1>7, Zenon DEF TryRead, Ready, futexes, Done, At, RwEffect, EntersRead, Stays,
        OutRwPc, FreeRwPc, Over
<1>8. CASE Write(t)
    BY <1>8, UnlockedIs, Zenon DEF Write, Ready, futexes, At, RwEffect, EntersWrite, Stays,
        OutRwPc, FreeRwPc, Over, is_unlocked
<1>9. CASE WriteSpin(t)
    BY <1>9, Zenon DEF WriteSpin, At, Keep3, futexes, RwEffect, Stays, OutRwPc, FreeRwPc,
        Over
<1>10. CASE WriteCas(t)
    BY <1>10, <1>a, Zenon DEF WriteCas, At, Keep3, Cas, futexes, RwEffect, EntersWrite,
        Stays, OutRwPc, FreeRwPc, Over, RwReads
<1>11. CASE WriteFlag(t)
    BY <1>11, Zenon DEF WriteFlag, At, Keep3, Cas, futexes, RwEffect, Marks, Stays, OutRwPc,
        FreeRwPc, Over
<1>12. CASE WriteSeq(t)
    BY <1>12, Zenon DEF WriteSeq, At, futexes, RwEffect, Stays, OutRwPc, FreeRwPc, Over
<1>13. CASE WriteCheck(t)
    BY <1>13, Zenon DEF WriteCheck, At, Keep3, futexes, RwEffect, Stays, OutRwPc, FreeRwPc,
        Over
<1>14. CASE WriteSleep(t)
    BY <1>14, Zenon DEF WriteSleep, At, Keep3, FutexWait, F!Wait, futexes, RwEffect, Stays,
        OutRwPc, FreeRwPc, Over
<1>15. CASE TryWrite(t)
    BY <1>15, Zenon DEF TryWrite, Ready, futexes, Done, At, RwEffect, EntersWrite, Stays,
        OutRwPc, FreeRwPc, Over, is_unlocked
<1>16. CASE ReadUnlock(t)
    BY <1>16, Zenon DEF ReadUnlock, At, Keep3, RwEffect, LeavesRead, Leaves, OutRwPc,
        FreeRwPc, Over
<1>17. CASE WriteUnlock(t)
    BY <1>17, Zenon DEF WriteUnlock, At, Keep3, RwEffect, LeavesWrite, Leaves, OutRwPc,
        FreeRwPc, Over
<1>18. CASE WakeWriters(t)
    BY <1>18, <1>a, Zenon DEF WakeWriters, At, Keep3, Cas, futexes, RwEffect, Marks, Stays,
        OutRwPc, FreeRwPc, Over, RwReads
<1>19. CASE WakeBoth(t)
    BY <1>19, <1>a, Zenon DEF WakeBoth, At, Keep3, futexes, Done, RwEffect, Marks, Stays,
        OutRwPc, FreeRwPc, Over, RwReads
<1>20. CASE WakeReaders(t)
    BY <1>20, <1>a, Zenon DEF WakeReaders, At, Keep3, futexes, Done, RwEffect, Marks, Stays,
        OutRwPc, FreeRwPc, Over, RwReads
<1>21. CASE WakeWriter(t)
    BY <1>21, Zenon DEF WakeWriter, Keep3, At, RwEffect, Marks, OutRwPc, FreeRwPc, Over
<1>22. CASE WakeWriterFutex(t)
    BY <1>22, Zenon DEF WakeWriterFutex, Keep3, FutexWake, At, Done, Woke, F!WakeFirst,
        futexes, RwEffect, Stays, OutRwPc, FreeRwPc, Over
<1>23. CASE WakeAll(t)
    BY <1>23, Zenon DEF WakeAll, At, Keep3, FutexWake, Woke, F!WakeFirst, futexes, RwEffect,
        Stays, OutRwPc, FreeRwPc, Over
<1> QED BY <1>1, <1>2, <1>3, <1>4, <1>5, <1>6, <1>7, <1>8, <1>9, <1>10, <1>11, <1>12, <1>13,
        <1>14, <1>15, <1>16, <1>17, <1>18, <1>19, <1>20, <1>21, <1>22, <1>23,
        Zenon DEF RwStep

-----------------------------------------------------------------------------
\* The word is set, or is left alone.
LEMMA SetIs ==
    ASSUME Shape
    PROVE  /\ \A x : Set(x) => State' = x
           /\ \A x : Put("writer_notify", x) => State' = State
           /\ UNCHANGED val => State' = State
<1>1. "rw" # "writer_notify" BY Zenon
<1>2. \A x : Set(x) => State' = x BY PutIs, WordsApart, Zenon DEF Set, State, Shape
<1>3. \A x : Put("writer_notify", x) => State' = State
    BY <1>1, PutIs, WordsApart, Zenon DEF State, Shape
<1> QED BY <1>2, <1>3, Zenon DEF State

\* What holds of the word, who waits and what threads have read, after a step of t.
LEMMA RwTyped ==
    ASSUME NEW t \in Thread, NEW from, NEW to, Moves(t, from, to), RwType,
           State' \in RwStates, waited' \in [Thread -> BOOLEAN], RwReads(pc'[t], reg'[t])
    PROVE  RwType'
<1>1. ASSUME NEW u \in Thread PROVE RwReads(pc'[u], reg'[u])
  <2>1. CASE u = t BY <2>1, Zenon
  <2>2. CASE u # t
    <3>1. pc'[u] = pc[u] /\ reg'[u] = reg[u] BY <2>2, Zenon DEF Moves
    <3>2. RwReads(pc[u], reg[u]) BY Zenon DEF RwType
    <3> QED BY <3>1, <3>2, Zenon
  <2> QED BY <2>1, <2>2, Zenon
<1> QED BY <1>1, Zenon DEF RwType, RwReads

\* Who is inside after a step of t.
LEMMA InsideMoves ==
    ASSUME NEW t \in Thread, NEW from, NEW to, Moves(t, from, to)
    PROVE  /\ pc[t] \in OutRwPc /\ pc'[t] \in OutRwPc => Readers' = Readers /\ Writers' = Writers
           /\ pc[t] \in OutRwPc /\ pc'[t] = "reading" =>
                 t \notin Readers /\ Readers' = Readers \union {t} /\ Writers' = Writers
           /\ pc[t] \in OutRwPc /\ pc'[t] = "writing" =>
                 Readers' = Readers /\ Writers' = Writers \union {t}
           /\ pc[t] = "reading" /\ pc'[t] \in OutRwPc =>
                 t \in Readers /\ Readers' = Readers \ {t} /\ Writers' = Writers
           /\ pc[t] = "writing" /\ pc'[t] \in OutRwPc =>
                 t \in Writers /\ Readers' = Readers /\ Writers' = Writers \ {t}
<1>1. \A u \in Thread : u # t => pc'[u] = pc[u] BY Zenon DEF Moves
<1>2. /\ pc[t] \in OutRwPc => pc[t] # "reading" /\ pc[t] # "writing"
      /\ pc'[t] \in OutRwPc => pc'[t] # "reading" /\ pc'[t] # "writing" BY OutIsOut, Zenon
<1>3. ASSUME pc[t] \in OutRwPc, pc'[t] \in OutRwPc
      PROVE  Readers' = Readers /\ Writers' = Writers
    BY <1>1, <1>2, <1>3, Zenon DEF Readers, Writers
<1>4. ASSUME pc[t] \in OutRwPc, pc'[t] = "reading"
      PROVE  t \notin Readers /\ Readers' = Readers \union {t} /\ Writers' = Writers
  <2>1. pc'[t] # "writing" BY <1>4, Zenon
  <2>2. t \notin Readers /\ Writers' = Writers
      BY <1>1, <1>2, <1>4, <2>1, ZenonT(30) DEF Readers, Writers
  <2>3. Readers' = Readers \union {t} BY <1>1, <1>2, <1>4, ZenonT(30) DEF Readers
  <2> QED BY <2>2, <2>3, Zenon
<1>5. ASSUME pc[t] \in OutRwPc, pc'[t] = "writing"
      PROVE  Readers' = Readers /\ Writers' = Writers \union {t}
  <2>1. pc'[t] # "reading" BY <1>5, Zenon
  <2> QED BY <1>1, <1>2, <1>5, <2>1, Zenon DEF Readers, Writers
<1>6. ASSUME pc[t] = "reading", pc'[t] \in OutRwPc
      PROVE  t \in Readers /\ Readers' = Readers \ {t} /\ Writers' = Writers
  <2>1. pc[t] # "writing" BY <1>6, Zenon
  <2> QED BY <1>1, <1>2, <1>6, <2>1, Zenon DEF Readers, Writers
<1>7. ASSUME pc[t] = "writing", pc'[t] \in OutRwPc
      PROVE  t \in Writers /\ Readers' = Readers /\ Writers' = Writers \ {t}
  <2>1. pc[t] # "reading" BY <1>7, Zenon
  <2> QED BY <1>1, <1>2, <1>7, <2>1, ZenonT(30) DEF Readers, Writers
<1> QED BY <1>3, <1>4, <1>5, <1>6, <1>7, Zenon

\* What the count says of who is inside.
LEMMA Counting ==
    ASSUME RwInv
    PROVE  /\ IsFiniteSet(Readers) /\ IsFiniteSet(Writers) /\ Cardinality(Readers) \in Nat
           /\ State.n = 0 => Readers = {} /\ Writers = {}
           /\ State.n = MASK => Readers = {}
           /\ is_read_lockable(State) =>
                 Writers = {} /\ State.n = Cardinality(Readers) /\ Cardinality(Readers) + 1 < MASK
           /\ Readers # {} => Writers = {} /\ State.n = Cardinality(Readers) /\ State.n > 0
           /\ \A t \in Writers : State.n = MASK /\ Readers = {} /\ Writers = {t}
<1>1. IsFiniteSet(Readers) /\ IsFiniteSet(Writers)
  <2>1. Readers \in SUBSET Thread /\ Writers \in SUBSET Thread BY Zenon DEF Readers, Writers
  <2> QED BY <2>1, FS_Subset, ThreadAssumption, Zenon
<1>2. Cardinality(Readers) \in Nat BY <1>1, FS_CardinalityType, Zenon
<1>3. Cardinality(Readers) = 0 <=> Readers = {} BY <1>1, FS_EmptySet, Zenon
<1>4. State.n \in 0..MASK BY WithIs, Zenon DEF RwInv, RwType, RwStates
<1>5. /\ State.n = IF Writers # {} THEN MASK ELSE Cardinality(Readers)
      /\ Writers # {} => Readers = {} /\ Cardinality(Writers) = 1
      /\ Cardinality(Readers) < MASK BY Zenon DEF RwInv, RwExclusive
<1>6. State.n = 0 => Readers = {} /\ Writers = {} BY <1>3, <1>5, MaskAssumption, SMT
<1>7. State.n = MASK => Readers = {} BY <1>2, <1>5, MaskAssumption, SMT
<1>8. is_read_lockable(State) =>
          Writers = {} /\ State.n = Cardinality(Readers) /\ Cardinality(Readers) + 1 < MASK
    BY <1>2, <1>5, MaskAssumption, SMT DEF is_read_lockable, MAX_READERS
<1>9. Readers # {} => Writers = {} /\ State.n = Cardinality(Readers) /\ State.n > 0
    BY <1>2, <1>3, <1>5, SMT
<1>10. ASSUME NEW t \in Writers PROVE State.n = MASK /\ Readers = {} /\ Writers = {t}
  <2>1. Writers # {} BY Zenon
  <2>2. PICK x : Writers = {x} BY <1>1, <1>5, <2>1, FS_Singleton, ZenonT(30)
  <2> QED BY <1>5, <2>1, <2>2, Zenon
<1> QED BY <1>1, <1>2, <1>6, <1>7, <1>8, <1>9, <1>10, Zenon

\* A step that leaves the same threads inside, and the count with them.
LEMMA SameInside ==
    ASSUME RwInv, RwType', Readers' = Readers, Writers' = Writers, State'.n = State.n,
           State'.rw /\ Readers # {} => State'.ww
    PROVE  RwInv'
    BY Zenon DEF RwInv, RwExclusive

\* A step of the lock keeps it.
LEMMA RwKept ==
    ASSUME NEW t \in Thread, NEW from, NEW to, Moves(t, from, to), Shape, RwInv, RwEffect(t)
    PROVE  RwInv'
<1>1. State \in RwStates /\ RwType BY Zenon DEF RwInv, RwType
<1>2. waited' \in [Thread -> BOOLEAN] BY Zenon DEF RwInv, RwType, RwEffect
<1>3. \A l : Goto(t, l) => pc'[t] = l BY GotoIs, Zenon DEF Shape
<1>4. \A x : Load(t, x) => reg'[t] = x BY LoadIs, Zenon DEF Shape
<1>5. State.rw /\ Readers # {} => State.ww BY Zenon DEF RwInv, RwExclusive
<1>6. 0 \in 0..MASK /\ TRUE \in BOOLEAN /\ FALSE \in BOOLEAN BY MaskAssumption, SMT
<1>7. FreeRwPc \subseteq OutRwPc /\ "wake_readers" \in OutRwPc /\ "read_fast" \in OutRwPc
    BY Zenon DEF OutRwPc
<1>8. CASE Stays(t)
  <2>1. State' = State BY <1>8, SetIs, Zenon DEF Stays
  <2>2. pc'[t] \in OutRwPc /\ RwReads(pc'[t], reg'[t])
    <3>1. CASE \E l \in FreeRwPc : Goto(t, l) BY <1>3, <1>7, <3>1, FreeReads, Zenon
    <3>2. CASE Goto(t, "wake_readers") /\ Load(t, [Unlocked0 EXCEPT !.rw = TRUE])
      <4>1. pc'[t] = "wake_readers" /\ reg'[t] = [Unlocked0 EXCEPT !.rw = TRUE]
          BY <1>3, <1>4, <3>2, ZenonT(30)
      <4>2. reg'[t] \in RwStates /\ reg'[t].n = 0 BY <4>1, UnlockedIs, Zenon
      <4>3. pc'[t] \in OutRwPc BY <1>7, <4>1, Zenon
      <4>4. /\ pc'[t] \notin {"read_fast", "read_cas"} /\ pc'[t] # "read_flag"
            /\ pc'[t] # "write_cas" BY <4>1, SMT
      <4> QED BY <4>2, <4>3, <4>4, ZenonT(30) DEF RwReads
    <3>3. CASE /\ Load(t, State)
               /\ \/ Goto(t, ReadLabel(State)) \/ Goto(t, WriteLabel(State))
                  \/ Goto(t, WakeLabel(State))
      <4>1. reg'[t] = State BY <1>4, <3>3, ZenonT(30)
      <4> QED BY <1>1, <1>3, <3>3, <4>1, LabelsRead, ZenonT(30)
    <3>4. CASE Load(t, State) /\ is_read_lockable(State) /\ Goto(t, "read_fast")
      <4>1. reg'[t] = State /\ pc'[t] = "read_fast" BY <1>3, <1>4, <3>4, ZenonT(30)
      <4>2. pc'[t] # "read_flag" /\ pc'[t] # "write_cas"
            /\ pc'[t] \notin {"wake_writers", "wake_both", "wake_readers"} BY <4>1, SMT
      <4> QED BY <1>1, <1>7, <3>4, <4>1, <4>2, ZenonT(30) DEF RwReads
    <3> QED BY <1>8, <3>1, <3>2, <3>3, <3>4, ZenonT(30) DEF Stays
  <2>3. Readers' = Readers /\ Writers' = Writers BY <1>8, <2>2, InsideMoves, ZenonT(30) DEF Stays
  <2>4. RwType' BY <1>1, <1>2, <2>1, <2>2, RwTyped, ZenonT(30)
  <2> QED BY <1>5, <2>1, <2>3, <2>4, SameInside, ZenonT(30)
<1>9. CASE Marks(t)
  <2>1. pc'[t] \in FreeRwPc BY <1>3, <1>9, Zenon DEF Marks
  <2>2. pc'[t] \in OutRwPc /\ RwReads(pc'[t], reg'[t]) BY <1>7, <2>1, FreeReads, ZenonT(30)
  <2>3. Readers' = Readers /\ Writers' = Writers BY <1>9, <2>2, InsideMoves, Zenon DEF Marks
  <2>4. /\ State' \in RwStates /\ State'.n = State.n
        /\ State'.rw /\ Readers # {} => State'.ww
    <3>1. CASE \E x : Put("writer_notify", x) BY <1>1, <1>5, <3>1, SetIs, ZenonT(30)
    <3>2. CASE (State.ww \/ State.n = MASK) /\ Set([State EXCEPT !.rw = TRUE])
      <4>1. State' = [State EXCEPT !.rw = TRUE] BY <3>2, SetIs, Zenon
      <4>2. State' \in RwStates /\ State'.n = State.n /\ State'.ww = State.ww
          BY <1>1, <1>6, <4>1, WithIs, ZenonT(30)
      <4>3. State.n = MASK => Readers = {} BY Counting, Zenon
      <4> QED BY <3>2, <4>2, <4>3, ZenonT(30)
    <3>3. CASE Set([State EXCEPT !.ww = TRUE])
      <4>1. State' = [State EXCEPT !.ww = TRUE] BY <3>3, SetIs, Zenon
      <4> QED BY <1>1, <1>6, <4>1, WithIs, Zenon
    <3>4. CASE State.n = 0 /\ (Set(Unlocked0) \/ Set([State EXCEPT !.ww = FALSE]))
      <4>1. State' = Unlocked0 \/ State' = [State EXCEPT !.ww = FALSE] BY <3>4, SetIs, Zenon
      <4>2. State' \in RwStates /\ State'.n = State.n
        <5>1. CASE State' = Unlocked0 BY <3>4, <5>1, UnlockedIs, ZenonT(30)
        <5>2. CASE State' = [State EXCEPT !.ww = FALSE] BY <1>1, <1>6, <5>2, WithIs, ZenonT(30)
        <5> QED BY <4>1, <5>1, <5>2, ZenonT(30)
      <4>3. Readers = {} BY <3>4, Counting, Zenon
      <4> QED BY <4>2, <4>3, Zenon
    <3> QED BY <1>9, <3>1, <3>2, <3>3, <3>4, ZenonT(30) DEF Marks
  <2>5. RwType' BY <1>1, <1>2, <2>2, <2>4, RwTyped, ZenonT(30)
  <2> QED BY <2>3, <2>4, <2>5, SameInside, ZenonT(30)
<1>10. CASE EntersRead(t)
  <2>1. pc'[t] = "reading" /\ State' = [State EXCEPT !.n = @ + 1]
      BY <1>3, <1>10, SetIs, ZenonT(30) DEF EntersRead
  <2>2. /\ Writers = {} /\ State.n = Cardinality(Readers) /\ Cardinality(Readers) + 1 < MASK
        /\ IsFiniteSet(Readers) /\ Cardinality(Readers) \in Nat
      BY <1>10, Counting, Zenon DEF EntersRead
  <2>3. State.n + 1 \in 0..MASK BY <2>2, MaskAssumption, SMT
  <2>4. State' \in RwStates /\ State'.n = State.n + 1 /\ State'.rw = State.rw
      BY <1>1, <2>1, <2>3, CountIs, ZenonT(30)
  <2>5. ~State.rw BY <1>10, ZenonT(30) DEF EntersRead, is_read_lockable
  <2>6. t \notin Readers /\ Readers' = Readers \union {t} /\ Writers' = Writers
      BY <1>10, <2>1, InsideMoves, ZenonT(30) DEF EntersRead
  <2>7. Cardinality(Readers') = Cardinality(Readers) + 1 BY <2>2, <2>6, FS_AddElement, ZenonT(30)
  <2>8. RwReads(pc'[t], reg'[t]) BY <2>1, FreeReads, ZenonT(30)
  <2>9. RwType' BY <1>1, <1>2, <2>4, <2>8, RwTyped, Zenon
  <2>10. Cardinality(Readers') < MASK /\ State'.n = Cardinality(Readers')
      BY <2>2, <2>4, <2>7, Zenon
  <2>11. Writers' = {} /\ ~State'.rw BY <2>2, <2>4, <2>5, <2>6, ZenonT(30)
  <2> QED BY <2>9, <2>10, <2>11, Zenon DEF RwInv, RwExclusive
<1>11. CASE EntersWrite(t)
  <2>1. pc'[t] = "writing" BY <1>3, <1>11, Zenon DEF EntersWrite
  <2>2. State' = [State EXCEPT !.n = MASK] \/ State' = [State EXCEPT !.n = MASK, !.ww = @ \/ waited[t]]
      BY <1>11, SetIs, Zenon DEF EntersWrite
  <2>3. waited[t] \in BOOLEAN BY Zenon DEF RwInv, RwType
  <2>4. State' \in RwStates /\ State'.n = MASK BY <1>1, <2>2, <2>3, MarkIs, ZenonT(30)
  <2>5. Readers = {} /\ Writers = {} BY <1>11, Counting, Zenon DEF EntersWrite
  <2>6. Readers' = {} /\ Writers' = {t}
    <3>1. Readers' = Readers /\ Writers' = Writers \union {t}
        BY <1>11, <2>1, InsideMoves, Zenon DEF EntersWrite
    <3> QED BY <2>5, <3>1, ZenonT(30)
  <2>7. Cardinality(Writers') = 1 BY <2>6, FS_Singleton, Zenon
  <2>8. Writers' # {} BY <2>6, Zenon
  <2>9. Cardinality(Readers') < MASK
    <3>1. Cardinality(Readers') = 0 BY <2>6, FS_EmptySet, ZenonT(30)
    <3> QED BY <3>1, MaskAssumption, SMT
  <2>10. RwReads(pc'[t], reg'[t]) BY <2>1, FreeReads, ZenonT(30)
  <2>11. RwType' BY <1>1, <1>2, <2>4, <2>10, RwTyped, ZenonT(30)
  <2> QED BY <2>4, <2>6, <2>7, <2>8, <2>9, <2>11, Zenon DEF RwInv, RwExclusive
<1>12. ASSUME NEW s \in RwStates, Leaves(t, s)
       PROVE  State' = s /\ pc'[t] \in OutRwPc /\ RwType'
  <2>1. State' = s /\ reg'[t] = s BY <1>4, <1>12, SetIs, ZenonT(30) DEF Leaves
  <2>2. CASE Goto(t, WakeLabel(s))
    <3>1. pc'[t] = WakeLabel(s) BY <1>3, <2>2, ZenonT(30)
    <3>2. pc'[t] \in OutRwPc /\ RwReads(pc'[t], reg'[t]) BY <2>1, <3>1, LabelsRead, Zenon
    <3>3. RwType' BY <1>1, <1>2, <2>1, <3>2, RwTyped, ZenonT(30)
    <3> QED BY <2>1, <3>2, <3>3, Zenon
  <2>3. CASE Goto(t, "ready")
    <3>1. pc'[t] \in FreeRwPc BY <1>3, <2>3, Zenon DEF FreeRwPc, Over
    <3>2. pc'[t] \in OutRwPc /\ RwReads(pc'[t], reg'[t]) BY <1>7, <3>1, FreeReads, Zenon
    <3>3. RwType' BY <1>1, <1>2, <2>1, <3>2, RwTyped, Zenon
    <3> QED BY <2>1, <3>2, <3>3, Zenon
  <2> QED BY <1>12, <2>2, <2>3, ZenonT(30) DEF Leaves
<1>13. CASE LeavesRead(t)
  <2> DEFINE s == [State EXCEPT !.n = @ - 1]
  <2>1. pc[t] = "reading" /\ Leaves(t, s) BY <1>13, Zenon DEF LeavesRead
  <2>2. Readers # {} BY <2>1, Zenon DEF Readers
  <2>3. /\ Writers = {} /\ State.n = Cardinality(Readers) /\ State.n > 0
        /\ IsFiniteSet(Readers) /\ Cardinality(Readers) \in Nat BY <2>2, Counting, Zenon
  <2>4. State.n \in 0..MASK BY <1>1, <1>6, WithIs, Zenon
  <2>5. State.n - 1 \in 0..MASK BY <2>3, <2>4, MaskAssumption, SMT
  <2>6. s \in RwStates /\ s.n = State.n - 1 /\ s.rw = State.rw /\ s.ww = State.ww
      BY <1>1, <2>5, CountIs, ZenonT(30)
  <2>7. State' = s /\ pc'[t] \in OutRwPc /\ RwType' BY <1>12, <2>1, <2>6, Zenon
  <2>8. t \in Readers /\ Readers' = Readers \ {t} /\ Writers' = Writers
      BY <2>1, <2>7, InsideMoves, Zenon
  <2>9. Cardinality(Readers') = Cardinality(Readers) - 1 BY <2>3, <2>8, FS_RemoveElement, Zenon
  <2>10. State'.n = Cardinality(Readers') BY <2>3, <2>6, <2>7, <2>9, ZenonT(30)
  <2>11. Cardinality(Readers') < MASK
    <3>1. Cardinality(Readers) < MASK BY Zenon DEF RwInv
    <3> QED BY <2>3, <2>9, <3>1, MaskAssumption, SMT
  <2>12. Writers' = {} BY <2>3, <2>8, Zenon
  <2>13. State'.rw => State'.ww BY <1>5, <2>2, <2>6, <2>7, ZenonT(30)
  <2> QED BY <2>7, <2>10, <2>11, <2>12, <2>13, ZenonT(30) DEF RwInv, RwExclusive
<1>14. CASE LeavesWrite(t)
  <2> DEFINE s == [State EXCEPT !.n = @ - MASK]
  <2>1. pc[t] = "writing" /\ Leaves(t, s) BY <1>14, Zenon DEF LeavesWrite
  <2>2. t \in Writers BY <2>1, Zenon DEF Writers
  <2>3. State.n = MASK /\ Readers = {} /\ Writers = {t} BY <2>2, Counting, Zenon
  <2>4. s \in RwStates /\ s.n = 0 BY <1>1, <2>3, CountIs, Zenon
  <2>5. State' = s /\ pc'[t] \in OutRwPc /\ RwType' BY <1>12, <2>1, <2>4, Zenon
  <2>6. Readers' = {} /\ Writers' = {}
    <3>1. Readers' = Readers /\ Writers' = Writers \ {t} BY <2>1, <2>5, InsideMoves, Zenon
    <3> QED BY <2>3, <3>1, Zenon
  <2>7. Cardinality(Readers') = 0 BY <2>6, FS_EmptySet, ZenonT(30)
  <2>8. Cardinality(Readers') < MASK BY <2>7, MaskAssumption, SMT
  <2>9. State'.n = Cardinality(Readers') BY <2>4, <2>5, <2>7, ZenonT(30)
  <2> QED BY <2>5, <2>6, <2>8, <2>9, ZenonT(30) DEF RwInv, RwExclusive
<1> QED BY <1>8, <1>9, <1>10, <1>11, <1>13, <1>14, Zenon DEF RwEffect

-----------------------------------------------------------------------------
\* The steps of the other parts take place outside the lock.
LEMMA RwAway ==
    ASSUME NEW t \in Thread, NEW from, NEW to, Moves(t, from, to), RwInv,
           pc[t] \in MutexPc \union OncePc \union ParkPc \union Over,
           pc'[t] \in MutexPc \union OncePc \union ParkPc \union Over,
           val'["rw"] = val["rw"], UNCHANGED waited
    PROVE  RwInv'
<1>1. \A l \in MutexPc \union OncePc \union ParkPc \union Over :
          l \notin {"reading", "writing", "read_fast", "read_cas", "read_flag", "write_cas",
                    "wake_writers", "wake_both", "wake_readers"}
    BY PlacesApart, ZenonT(30) DEF RwPc
<1>2. State' = State BY Zenon DEF State
<1>3. RwReads(pc'[t], reg'[t]) BY <1>1, Zenon DEF RwReads
<1>4. RwType' BY <1>2, <1>3, RwTyped, Zenon DEF RwInv, RwType
<1>5. Readers' = Readers /\ Writers' = Writers
  <2>1. /\ pc[t] # "reading" /\ pc[t] # "writing"
        /\ pc'[t] # "reading" /\ pc'[t] # "writing" BY <1>1, Zenon
  <2>2. \A u \in Thread : u # t => pc'[u] = pc[u] BY Zenon DEF Moves
  <2>3. Readers' = Readers BY <2>1, <2>2, Zenon DEF Readers
  <2>4. Writers' = Writers BY <2>1, <2>2, Zenon DEF Writers
  <2> QED BY <2>3, <2>4, Zenon
<1>6. State'.rw /\ Readers # {} => State'.ww BY <1>2, Zenon DEF RwInv, RwExclusive
<1> QED BY <1>2, <1>4, <1>5, <1>6, SameInside, ZenonT(30)

\* A step that moves no thread and leaves the word alone.
LEMMA RwStill ==
    ASSUME RwInv, pc' = pc, reg' = reg, val'["rw"] = val["rw"], UNCHANGED waited
    PROVE  RwInv'
<1>1. State' = State BY Zenon DEF State
<1>2. RwType' BY <1>1, Zenon DEF RwInv, RwType, RwReads
<1>3. Readers' = Readers /\ Writers' = Writers BY Zenon DEF Readers, Writers
<1>4. State'.rw /\ Readers # {} => State'.ww BY <1>1, Zenon DEF RwInv, RwExclusive
<1> QED BY <1>1, <1>2, <1>3, <1>4, SameInside, ZenonT(30)

\* No step of the library breaks it.
LEMMA RwStepKeeps ==
    ASSUME NEW t \in Thread, SyncInv, RwInv, SyncStep(t)
    PROVE  RwInv'
<1>1. Shape /\ Flow /\ ReadInv BY Zenon DEF SyncInv, OnceInv
<1>2. CASE ThreadStep(t) /\ UNCHANGED <<lvars, rvars, ovars, svars>>
  <2>1. val'["rw"] = val["rw"] /\ UNCHANGED waited BY <1>1, <1>2, ThreadMoves, ZenonT(30) DEF rvars
  <2>2. CASE UNCHANGED <<pc, cont, reg>> BY <2>1, <2>2, RwStill, Zenon
  <2>3. CASE Moves(t, ParkPc \union Idle, ParkPc \union Returns)
    <3>1. /\ pc[t] \in MutexPc \union OncePc \union ParkPc \union Over
          /\ pc'[t] \in MutexPc \union OncePc \union ParkPc \union Over
        BY <2>3, Zenon DEF Moves, Idle, Returns, OncePc, Over
    <3> QED BY <2>1, <2>3, <3>1, RwAway, ZenonT(30)
  <2> QED BY <1>1, <1>2, <2>2, <2>3, ThreadMoves, ZenonT(30)
<1>3. CASE LocksStep(t) /\ UNCHANGED <<rvars, ovars, svars>>
  <2>1. /\ Moves(t, MutexPc \union Idle, MutexPc \union Over)
        /\ val'["rw"] = val["rw"] /\ UNCHANGED waited BY <1>1, <1>3, LocksMoves, Zenon DEF rvars
  <2>2. /\ pc[t] \in MutexPc \union OncePc \union ParkPc \union Over
        /\ pc'[t] \in MutexPc \union OncePc \union ParkPc \union Over
      BY <2>1, Zenon DEF Moves, Idle, Over
  <2> QED BY <2>1, <2>2, RwAway, Zenon
<1>4. CASE RwStep(t) /\ UNCHANGED <<lvars, ovars, svars>>
  <2>1. Moves(t, RwPc \union Idle, RwPc \union Over) BY <1>1, <1>4, RwMoves, ZenonT(30)
  <2>2. RwEffect(t) BY <1>4, RwEffects, Zenon DEF RwInv
  <2> QED BY <1>1, <2>1, <2>2, RwKept, ZenonT(30)
<1>5. CASE OnceStep(t) /\ UNCHANGED <<lvars, rvars>>
  <2>1. /\ Moves(t, OncePc \union Idle, OncePc \union ParkPc \union Over)
        /\ val' = val /\ UNCHANGED waited BY <1>1, <1>5, OnceMoves, ZenonT(30) DEF rvars
  <2>2. /\ pc[t] \in MutexPc \union OncePc \union ParkPc \union Over
        /\ pc'[t] \in MutexPc \union OncePc \union ParkPc \union Over
      BY <2>1, Zenon DEF Moves, Idle, Over
  <2> QED BY <2>1, <2>2, RwAway, ZenonT(30)
<1> QED BY <1>2, <1>3, <1>4, <1>5, ZenonT(30) DEF SyncStep

\* At the start nobody is inside and the word is zero.
LEMMA RwStarts ==
    ASSUME SyncInit
    PROVE  RwInv
<1>1. /\ pc = [t \in Thread |-> "ready"] /\ val = Zero /\ waited = [t \in Thread |-> FALSE]
    BY Zenon DEF SyncInit, ThreadInit, RwInit
<1>2. State = Unlocked0 BY <1>1, WordsApart, Zenon DEF State, Zero
<1>3. \A t \in Thread : pc[t] = "ready" BY <1>1, Zenon
<1>4. Readers = {} /\ Writers = {}
  <2>1. "ready" # "reading" /\ "ready" # "writing" BY Zenon
  <2> QED BY <1>3, <2>1, Zenon DEF Readers, Writers
<1>5. Cardinality(Readers) = 0 BY <1>4, FS_EmptySet, Zenon
<1>6. Cardinality(Readers) < MASK BY <1>5, MaskAssumption, SMT
<1>7. State \in RwStates /\ State.n = 0 BY <1>2, UnlockedIs, Zenon
<1>8. "ready" \in FreeRwPc BY Zenon DEF FreeRwPc, Over
<1>9. \A t \in Thread : RwReads(pc[t], reg[t]) BY <1>3, <1>8, FreeReads, Zenon
<1>10. waited \in [Thread -> BOOLEAN] BY <1>1, Zenon
<1> QED BY <1>4, <1>5, <1>6, <1>7, <1>9, <1>10, ZenonT(30) DEF RwInv, RwType, RwExclusive

\* However many threads take and give back the lock, in whatever order and with
\* whatever spurious or timed wake-ups, a writer is inside alone, the count in the
\* word is that of the readers inside or the mark of a writer, and a read-locked
\* lock has waiting readers only behind a waiting writer (RawRwLock::read, write,
\* read_unlock, write_unlock, wake_writer_or_readers).
THEOREM WriterIsAlone == SyncSpec => []RwExclusive
<1>1. SyncInit => RwInv BY RwStarts, Zenon
<1>2. SyncInv /\ RwInv /\ [SyncNext]_syncvars => RwInv'
  <2> SUFFICES ASSUME SyncInv, RwInv, [SyncNext]_syncvars PROVE RwInv' BY Zenon
  <2>1. CASE SyncNext
    <3>1. PICK t \in Thread : SyncStep(t) BY <2>1, Zenon DEF SyncNext
    <3> QED BY <3>1, RwStepKeeps, Zenon
  <2>2. CASE UNCHANGED syncvars
    <3>1. pc' = pc /\ reg' = reg /\ val' = val /\ UNCHANGED waited
        BY <2>2, Zenon DEF syncvars, uvars, rvars
    <3> QED BY <3>1, RwStill, ZenonT(30)
  <2> QED BY <2>1, <2>2, Zenon
<1>3. RwInv => RwExclusive BY Zenon DEF RwInv
<1> QED BY <1>1, <1>2, <1>3, SyncInvariant, PTL DEF SyncSpec
=============================================================================
