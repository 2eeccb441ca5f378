------------------------------- MODULE Stream -------------------------------
(***************************************************************************)
(* Byte streams over a Phys object (h2o_async io.rs): a seek position,     *)
(* vectored reads through a growing cache and vectored writes that fill    *)
(* the object, then extend it and write the rest.  Several streams may     *)
(* share one Phys (as the opens of a MemFile do); a write is suspended     *)
(* between its two halves.  Reads and writes of the Phys itself transfer   *)
(* what lies inside it (module Phys).                                      *)
(***************************************************************************)
EXTENDS Integers, Sequences, SequencesExt

CONSTANTS
    Strm,       \* streams, each behind its own mutex
    StrmByte,       \* byte values; 0 is one of them
    MinCap,     \* the least capacity a vector allocates (8 for bytes)
    MaxSize,    \* bound: length of the object
    MaxBuf,     \* bound: length of a buffer
    MaxIo       \* bound: reads and writes

VARIABLES
    phys,       \* the bytes of the Phys
    seeker,     \* each stream's position
    wr,         \* a write waiting for its second half, or Quiet
    file,       \* the file the writes should have made
    readOk,        \* did the last read return what was there?
    odd,        \* a write overlapped another, or began past the end
    ios

stvars == <<phys, seeker, wr, file, readOk, odd, ios>>

Quiet == [is |-> "quiet"]
Lesser(a, b) == IF a < b THEN a ELSE b
Greater(a, b) == IF a > b THEN a ELSE b
Monus(a, b) == Greater(a - b, 0)
Bufs == {<<b>> : b \in SeqOf(StrmByte, MaxBuf)} \cup {<<<<0>>, b>> : b \in SeqOf(StrmByte, MaxBuf)}

StInit ==
    /\ phys = <<0>> /\ file = phys /\ seeker = [s \in Strm |-> 0] /\ wr = [s \in Strm |-> Quiet]
    /\ readOk = TRUE /\ odd = FALSE /\ ios = 0

Bytes(c, pos, n) == SubSeq(c, pos + 1, pos + Lesser(n, Monus(Len(c), pos)))
Overlay(c, pos, d) == [i \in 1 .. Greater(Len(c), pos + Len(d)) |->
                         IF i > pos /\ i <= pos + Len(d) THEN d[i - pos] ELSE c[i]]
Total(bufs) == FoldLeft(LAMBDA n, b : n + Len(b), 0, bufs)
Flat(bufs) == FoldLeft(LAMBDA d, b : d \o b, <<>>, bufs)

-----------------------------------------------------------------------------
(* Inner::seek: Start, Current, End; going before the start is refused.    *)
SeekTo(s, whence, d) ==
    LET base == CASE whence = "start" -> 0 [] whence = "current" -> seeker[s] [] whence = "end" -> Len(phys)
    IN  /\ wr[s] = Quiet /\ base + d >= 0 /\ base + d <= MaxSize + 1
        /\ seeker' = [seeker EXCEPT ![s] = base + d]
        /\ UNCHANGED <<phys, wr, file, readOk, odd, ios>>

(* Vec::reserve.                                                           *)
ReserveCap(cap, n) == IF n <= cap THEN cap ELSE Greater(Greater(2 * cap, n), MinCap)

(* A bug: a short buffer does not end the read.                            *)
ReadV_On(len, pos, seeks, seek, sizes) ==
    FoldLeft(LAMBDA r, n : [r EXCEPT !.pos = @ + n, !.data = @ \o Bytes(phys, r.pos + 1, n)],
        [pos |-> pos, cap |-> 0, stop |-> FALSE, data |-> <<>>], sizes)

(* read_vectored and read_at_vectored: buffer by buffer, the cache sized   *)
(* from the stream's own position in both; stop at a short one.            *)
ReadV(len, pos, seeks, seek, sizes) ==
    FoldLeft(LAMBDA r, n :
        IF r.stop \/ n = 0 THEN r
        ELSE LET at == IF seeks THEN r.pos ELSE seek
                 cap == ReserveCap(r.cap, Lesser(n, Monus(len, at)))
                 l == Lesser(Lesser(cap, Monus(Len(phys), r.pos)), n)
             IN  [pos |-> r.pos + l, cap |-> cap, stop |-> l < n, data |-> r.data \o Bytes(phys, r.pos, l)],
        [pos |-> pos, cap |-> 0, stop |-> FALSE, data |-> <<>>], sizes)

(* The bytes at the position; all that fit the buffers, if `full'.         *)
Honest(data, pos, sizes, full) ==
    LET want == Bytes(phys, pos, sizes[1] + sizes[2])
    IN  IsPrefix(data, want) /\ (full => data = want)

Sizes(n) == {<<a, b>> : a \in 0 .. n, b \in 0 .. n}

ReadStream(s, sizes) ==
    /\ wr[s] = Quiet /\ ios < MaxIo /\ ios' = ios + 1
    /\ LET r == ReadV(Len(phys), seeker[s], TRUE, seeker[s], sizes)
       IN  /\ seeker' = [seeker EXCEPT ![s] = r.pos]
           /\ readOk' = Honest(r.data, seeker[s], sizes, TRUE)
    /\ UNCHANGED <<phys, wr, file, odd>>

ReadAt(s, pos, sizes) ==
    /\ wr[s] = Quiet /\ ios < MaxIo /\ ios' = ios + 1
    /\ readOk' = Honest(ReadV(Len(phys), pos, FALSE, seeker[s], sizes).data, pos, sizes, seeker[s] <= pos)
    /\ UNCHANGED <<phys, seeker, wr, file, odd>>

-----------------------------------------------------------------------------
(* write_inner: each buffer as far as `len' reaches; stop at a short one.  *)
WriteInner(c, len, pos, bufs) ==
    FoldLeft(LAMBDA r, b :
        IF r.stop \/ b = <<>> THEN r
        ELSE LET l == Lesser(Len(b), Monus(Lesser(len, Len(c)), r.pos))
             IN  [c |-> IF l = 0 THEN r.c ELSE Overlay(r.c, r.pos, SubSeq(b, 1, l)),
                  pos |-> r.pos + l, n |-> r.n + l, stop |-> l < Len(b)],
        [c |-> c, pos |-> pos, n |-> 0, stop |-> FALSE], bufs)

(* A bug: the second half starts over from the first byte.                 *)
Advance_Not(bufs, n) == SubSeq(Flat(bufs), 1, Total(bufs) - n)

(* IoSlice::advance_slices, on the bytes.                                  *)
Advance(bufs, n) == SubSeq(Flat(bufs), n + 1, Total(bufs))

Settle(s, at, pos) == seeker' = IF at THEN seeker ELSE [seeker EXCEPT ![s] = pos]

(* write_vectored, write_at_vectored: the part that fits.                  *)
WriteStart(s, at, pos, bufs) ==
    /\ wr[s] = Quiet /\ ios < MaxIo /\ ios' = ios + 1
    /\ Len(phys) + Total(bufs) <= MaxSize
    /\ LET r == WriteInner(phys, Len(phys), pos, bufs)
           rest == Advance(bufs, r.n)
       IN  /\ phys' = r.c
           /\ wr' = [wr EXCEPT ![s] = IF ~r.stop \/ rest = <<>> THEN Quiet
                                      ELSE [is |-> "grow", at |-> at, pos |-> r.pos, rest |-> rest, len |-> Len(phys)]]
           /\ Settle(s, at, r.pos)
    /\ file' = IF Total(bufs) = 0 \/ pos > Len(file) THEN file ELSE Overlay(file, pos, Flat(bufs))
    /\ odd' = (odd \/ (Total(bufs) > 0 /\ pos > Len(phys)) \/ \E u \in Strm : wr[u] # Quiet)
    /\ UNCHANGED readOk

(* The rest: resize to the length seen before plus what is missing.        *)
ResizedTo(c, n) == [i \in 1 .. n |-> IF i <= Len(c) THEN c[i] ELSE 0]
WriteGrow(s) ==
    /\ wr[s] # Quiet
    /\ LET w == wr[s]
           len == w.len + Len(w.rest)
           r == WriteInner(ResizedTo(phys, len), len, w.pos, <<w.rest>>)
       IN  phys' = r.c /\ Settle(s, w.at, r.pos)
    /\ wr' = [wr EXCEPT ![s] = Quiet]
    /\ UNCHANGED <<file, readOk, odd, ios>>

(* Stream::resize.                                                         *)
ResizeStream(s, n) ==
    /\ wr[s] = Quiet /\ ios < MaxIo /\ ios' = ios + 1
    /\ phys' = ResizedTo(phys, n) /\ file' = ResizedTo(file, n)
    /\ odd' = (odd \/ \E u \in Strm : wr[u] # Quiet)
    /\ UNCHANGED <<seeker, wr, readOk>>

StNext ==
    \E s \in Strm :
        \/ \E whence \in {"start", "current", "end"}, d \in {-1, 0, 2} : SeekTo(s, whence, d)
        \/ \E sizes \in Sizes(MaxBuf) : ReadStream(s, sizes) \/ \E pos \in 0 .. 2 : ReadAt(s, pos, sizes)
        \/ \E bufs \in Bufs : \/ WriteStart(s, FALSE, seeker[s], bufs)
                              \/ \E pos \in 0 .. 2 : WriteStart(s, TRUE, pos, bufs)
        \/ WriteGrow(s)
        \/ \E n \in 1 .. 2 : ResizeStream(s, n)

StSpec == StInit /\ [][StNext]_stvars

-----------------------------------------------------------------------------
(* Until writes of two streams overlap or one starts past the end, the     *)
(* object holds what the writes wrote, in both halves; and a read always   *)
(* returns the bytes that are at its position, all that fit its buffers.   *)
(* Only read_at may stop short, and only below the stream's own position.  *)
StreamIsFile == readOk /\ (~odd /\ (\A s \in Strm : wr[s] = Quiet) => phys = file)
=============================================================================
