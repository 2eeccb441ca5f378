----------------------------- MODULE SelectCpu -----------------------------
(* The pure function select_cpu of the scheduler (sched/imp.rs): the CPU on *)
(* which an unblocked task is queued, from its affinity mask, the CPU that   *)
(* runs the wake-up, the CPU the task last ran on, and the expected run time *)
(* of every CPU.  CPUs are numbers, visited in ascending order as iter_ones  *)
(* does.  Loads are counted in time slices; the code compares microseconds.  *)
EXTENDS Integers, Sequences, SequencesExt

\* MIN_TIME_GRAN, 30ms, in the microseconds that expected_runtime counts.
SliceMicros == 30000

\* The widest logarithm the instances meet (TLC's integers have 32 bits).
MaxLog == 29

\* u64::ilog2 of a positive number.
ILog2(n) == CHOOSE e \in 0..MaxLog : 2^e <= n /\ n < 2^(e + 1)

\* The three weights of the comparison of the candidate a with the next CPU b:
\* stay on the last CPU, avoid an IPI, balance the load.
LastCpuWeight(a, b, last) ==
    IF a = last /\ b # last THEN 1 ELSE IF a # last /\ b = last THEN -1 ELSE 0

CurCpuWeight(a, b, cur) ==
    IF a = cur /\ b # cur THEN 1 ELSE IF a # cur /\ b = cur THEN -1 ELSE 0

RuntimeWeight(ra, rb) ==
    LET diff == SliceMicros * (IF ra > rb THEN ra - rb ELSE rb - ra)
    IN  IF diff <= 1 THEN 0
        ELSE ILog2(diff + 1) * (IF ra > rb THEN -1 ELSE 1)

Weight(a, b, cur, last, load) ==
    LastCpuWeight(a, b, last) * 15 + CurCpuWeight(a, b, cur)
        + RuntimeWeight(load[a], load[b]) * 40

\* One iteration of the loop over the mask; done records the early return of
\* an idle current CPU.
Visit(acc, b, cur, last, load) ==
    IF acc.done THEN acc
    ELSE IF b = cur /\ load[b] = 0 THEN [done |-> TRUE, cpu |-> b]
    ELSE IF Weight(acc.cpu, b, cur, last, load) < 0 THEN [acc EXCEPT !.cpu = b]
    ELSE acc

select_cpu(affinity, cur, last, load) ==
    LET order == SetToSortSeq(affinity, LAMBDA x, y : x < y)
        first == [done |-> order[1] = cur /\ load[order[1]] = 0, cpu |-> order[1]]
    IN  FoldLeft(LAMBDA acc, b : Visit(acc, b, cur, last, load), first, Tail(order)).cpu
=============================================================================
