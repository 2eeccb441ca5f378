------------------------------ MODULE MCSched ------------------------------
(* Instances of Sched for TLC, with the select_cpu of the code.              *)
EXTENDS Sched, SelectCpu, TLC

CONSTANTS i0, i1, a, b

OneCpu  == {0}
TwoCpus == {0, 1}

MCIdleOf   == 0 :> i0 @@ 1 :> i1
MCIdleOf1  == 0 :> i0

OneSpace   == [t \in User |-> "s"]
AnyCpu     == [t \in User |-> CPU]
Pinned     == [t \in User |-> IF t = a THEN {0} ELSE {1}]
AllOnOne   == [t \in User |-> {1}]

\* Ready tasks run (see ReadyRuns); a and b are interchangeable in this instance.
AReadyRuns == ReadyRuns(a)

\* Condemned tasks exit (see DoomedDies).
ADoomedDies == DoomedDies(a)

\* Exited contexts are freed (see ExitedFreed).
AExitedFreed == ExitedFreed(a)
=============================================================================
