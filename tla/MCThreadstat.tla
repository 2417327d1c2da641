---------------------------- MODULE MCThreadstat ----------------------------
(* Constants of Threadstat for TLC: a process with two more threads and one *)
(* with a single thread, or the first alone with two or one more threads.   *)
EXTENDS Threadstat, TLC

CONSTANTS main, w1, w2, other   \* the threads, as model values

TwoProcesses == {main, w1, w2, other}
TwoLeaders == [t \in TwoProcesses |-> IF t = other THEN other ELSE main]

OneProcess == {main, w1, w2}
OneLeader == [t \in OneProcess |-> main]

OneWorker == {main, w1}
WorkerLeader == [t \in OneWorker |-> main]

TidSymmetry == Permutations(Tids)
Symmetry == Permutations({w1, w2}) \cup TidSymmetry
=============================================================================
