----------------------------- MODULE UserRwLock -----------------------------
(* RawRwLock of h2o_std (sync/imp.rs).  The state word is a record: n, the   *)
(* readers or MASK for a writer, and the two waiting bits.  A second word,   *)
(* writer_notify, is what writers sleep on.                                  *)
EXTENDS UserThread

CONSTANT MASK        \* WRITE_LOCKED; 2^30 - 1 in the code

ASSUME MaskAssumption == MASK \in Nat \ {0}

VARIABLE waited      \* [Thread -> BOOLEAN]  other_writers_waiting

rvars == waited
State == val["rw"]
Set(s) == Put("rw", s)
Keep3 == UNCHANGED <<cont, todo, waited>>

MAX_READERS == MASK - 1
Unlocked0 == [n |-> 0, rw |-> FALSE, ww |-> FALSE]
is_unlocked(s) == s.n = 0
(* A bug: readers come in ahead of those that wait.                          *)
is_read_lockable_Any(s) == s.n < MAX_READERS

is_read_lockable(s) == s.n < MAX_READERS /\ ~s.rw /\ ~s.ww
has_reached_max_readers(s) == s.n = MAX_READERS

\* A compare-and-exchange against the state loaded last: new is stored and the
\* thread goes to ok, or the state is loaded again and decides what comes next.
Cas(t, new, ok, label(_)) ==
    IF State = reg[t] THEN Set(new) /\ Goto(t, ok) /\ UNCHANGED reg
    ELSE UNCHANGED futexes /\ Load(t, State) /\ Goto(t, label(State))

-----------------------------------------------------------------------------
\* read: one attempt, then read_contended.
Read(t) ==
    /\ Ready(t, "read") /\ UNCHANGED <<futexes, cont, waited>>
    /\ Load(t, State) /\ Goto(t, IF is_read_lockable(State) THEN "read_fast" ELSE "read_spin")

ReadFast(t) ==
    /\ At(t, "read_fast") /\ Keep3 /\ UNCHANGED reg
    /\ IF State = reg[t] THEN Set([State EXCEPT !.n = @ + 1]) /\ Goto(t, "reading")
       ELSE UNCHANGED futexes /\ Goto(t, "read_spin")

ReadLabel(s) ==
    CASE is_read_lockable(s)        -> "read_cas"
      [] has_reached_max_readers(s) -> "panic"
      [] s.rw                       -> "read_sleep"
      [] OTHER                      -> "read_flag"

ReadSpin(t) ==
    /\ At(t, "read_spin") /\ Keep3 /\ UNCHANGED futexes
    /\ Load(t, State) /\ Goto(t, ReadLabel(State))

ReadCas(t) ==
    At(t, "read_cas") /\ Keep3 /\ Cas(t, [reg[t] EXCEPT !.n = @ + 1], "reading", ReadLabel)

ReadFlag(t) ==
    At(t, "read_flag") /\ Keep3 /\ Cas(t, [reg[t] EXCEPT !.rw = TRUE], "read_sleep", ReadLabel)

ReadSleep(t) ==
    /\ At(t, "read_sleep") /\ Keep3 /\ UNCHANGED reg
    /\ FutexWait(t, "rw", [reg[t] EXCEPT !.rw = TRUE], "read_spin")

TryRead(t) ==
    /\ Ready(t, "try_read") /\ UNCHANGED <<cont, reg, waited>>
    /\ IF is_read_lockable(State) THEN Set([State EXCEPT !.n = @ + 1]) /\ Goto(t, "reading")
       ELSE UNCHANGED futexes /\ Done(t)

-----------------------------------------------------------------------------
\* write: one attempt, then write_contended.
Write(t) ==
    /\ Ready(t, "write") /\ waited' = [waited EXCEPT ![t] = FALSE] /\ UNCHANGED <<cont, reg>>
    /\ IF State = Unlocked0 THEN Set([State EXCEPT !.n = MASK]) /\ Goto(t, "writing")
       ELSE UNCHANGED futexes /\ Goto(t, "write_spin")

WriteLabel(s) ==
    CASE is_unlocked(s) -> "write_cas" [] s.ww -> "write_seq" [] OTHER -> "write_flag"

WriteSpin(t) ==
    /\ At(t, "write_spin") /\ Keep3 /\ UNCHANGED futexes
    /\ Load(t, State) /\ Goto(t, WriteLabel(State))

WriteCas(t) ==
    /\ At(t, "write_cas") /\ Keep3
    /\ Cas(t, [reg[t] EXCEPT !.n = MASK, !.ww = @ \/ waited[t]], "writing", WriteLabel)

WriteFlag(t) ==
    At(t, "write_flag") /\ Keep3 /\ Cas(t, [reg[t] EXCEPT !.ww = TRUE], "write_seq", WriteLabel)

\* The counter is read before the state is looked at once more.
WriteSeq(t) ==
    /\ At(t, "write_seq") /\ waited' = [waited EXCEPT ![t] = TRUE]
    /\ Load(t, val["writer_notify"]) /\ Goto(t, "write_check")
    /\ UNCHANGED <<futexes, cont, todo>>

WriteCheck(t) ==
    /\ At(t, "write_check") /\ Keep3 /\ UNCHANGED futexes
    /\ IF is_unlocked(State) \/ ~State.ww THEN Load(t, State) /\ Goto(t, WriteLabel(State))
       ELSE Goto(t, "write_sleep") /\ UNCHANGED reg

WriteSleep(t) ==
    /\ At(t, "write_sleep") /\ Keep3 /\ UNCHANGED reg
    /\ FutexWait(t, "writer_notify", reg[t], "write_spin")

TryWrite(t) ==
    /\ Ready(t, "try_write") /\ UNCHANGED <<cont, reg, waited>>
    /\ IF is_unlocked(State) THEN Set([State EXCEPT !.n = MASK]) /\ Goto(t, "writing")
       ELSE UNCHANGED futexes /\ Done(t)

-----------------------------------------------------------------------------
\* read_unlock and write_unlock: the state left behind decides who is woken.
WakeLabel(s) ==
    CASE s = [Unlocked0 EXCEPT !.ww = TRUE]             -> "wake_writers"
      [] s = [Unlocked0 EXCEPT !.ww = TRUE, !.rw = TRUE] -> "wake_both"
      [] s = [Unlocked0 EXCEPT !.rw = TRUE]             -> "wake_readers"
      [] OTHER                                          -> "ready"

ReadUnlock(t) ==
    /\ At(t, "reading") /\ Keep3
    /\ LET s == [State EXCEPT !.n = @ - 1]
       IN  /\ Set(s) /\ Load(t, s)
           /\ Goto(t, IF is_unlocked(s) /\ s.ww THEN WakeLabel(s) ELSE "ready")

WriteUnlock(t) ==
    /\ At(t, "writing") /\ Keep3
    /\ LET s == [State EXCEPT !.n = @ - MASK]
       IN  Set(s) /\ Load(t, s) /\ Goto(t, IF s.ww \/ s.rw THEN WakeLabel(s) ELSE "ready")

\* wake_writer_or_readers.
WakeWriters(t) == At(t, "wake_writers") /\ Keep3 /\ Cas(t, Unlocked0, "wake_writer", WakeLabel)

WakeBoth(t) ==
    /\ At(t, "wake_both") /\ Keep3 /\ UNCHANGED reg
    /\ IF State = reg[t] THEN Set([reg[t] EXCEPT !.ww = FALSE]) /\ Goto(t, "wake_writer_first")
       ELSE UNCHANGED futexes /\ Done(t)

WakeReaders(t) ==
    /\ At(t, "wake_readers") /\ Keep3 /\ UNCHANGED reg
    /\ IF State = reg[t] THEN Set(Unlocked0) /\ Goto(t, "wake_all")
       ELSE UNCHANGED futexes /\ Done(t)

\* wake_writer: with readers waiting as well, they are woken if no writer was.
WakeWriter(t) ==
    /\ Keep3 /\ UNCHANGED reg /\ Put("writer_notify", val["writer_notify"] + 1)
    /\ \/ At(t, "wake_writer") /\ Goto(t, "wake_writer_futex")
       \/ At(t, "wake_writer_first") /\ Goto(t, "wake_writer_first_futex")

WakeWriterFutex(t) ==
    /\ Keep3 /\ FutexWake("writer_notify")
    /\ \/ At(t, "wake_writer_futex") /\ Done(t) /\ UNCHANGED reg
       \/ /\ At(t, "wake_writer_first_futex")
          /\ IF Woke("writer_notify") THEN Done(t) /\ UNCHANGED reg
             ELSE Goto(t, "wake_readers") /\ Load(t, [Unlocked0 EXCEPT !.rw = TRUE])

\* futex_wake_all.
WakeAll(t) ==
    /\ At(t, "wake_all") /\ Keep3 /\ UNCHANGED reg /\ FutexWake("rw")
    /\ Goto(t, IF Woke("rw") THEN "wake_all" ELSE "ready")

RwInit == waited = [t \in Thread |-> FALSE]

RwStep(t) ==
    \/ Read(t) \/ ReadFast(t) \/ ReadSpin(t) \/ ReadCas(t) \/ ReadFlag(t) \/ ReadSleep(t)
    \/ TryRead(t) \/ Write(t) \/ WriteSpin(t) \/ WriteCas(t) \/ WriteFlag(t) \/ WriteSeq(t)
    \/ WriteCheck(t) \/ WriteSleep(t) \/ TryWrite(t) \/ ReadUnlock(t) \/ WriteUnlock(t)
    \/ WakeWriters(t) \/ WakeBoth(t) \/ WakeReaders(t) \/ WakeWriter(t) \/ WakeWriterFutex(t)
    \/ WakeAll(t)

-----------------------------------------------------------------------------
Readers == {t \in Thread : pc[t] = "reading"}
Writers == {t \in Thread : pc[t] = "writing"}

\* A writer has the data for itself, the word counts who is inside, and, as the
\* assertion of read_unlock has it, readers wait at a read-locked lock only
\* behind a writer (RawRwLock).
RwExclusive ==
    /\ State.n = IF Writers # {} THEN MASK ELSE Cardinality(Readers)
    /\ Writers # {} => Readers = {} /\ Cardinality(Writers) = 1
    /\ Readers # {} /\ State.rw => State.ww
=============================================================================
