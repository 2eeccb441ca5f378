------------------------------ MODULE MCFutex ------------------------------
(* Instances of Futex for TLC: requeues go one way only, from p to q.        *)
EXTENDS Futex, TLC

CONSTANTS p, q, t1, t2, t3

TwoOneNone == (t1 :> 2) @@ (t2 :> 1) @@ (t3 :> 0)
TwoOne == (t1 :> 2) @@ (t2 :> 1)
OneWay == {<<p, q>>}

\* StoreWakes and TimedSleepEnds of the task that only waits.
AStoreWakes == StoreWakes(t1)
ATimedSleepEnds == TimedSleepEnds(t1)
=============================================================================
