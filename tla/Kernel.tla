------------------------------- MODULE Kernel -------------------------------
(***************************************************************************)
(* What the program uses of Linux tasks.  None of it is code of the        *)
(* repository: it is read off the calls the repository makes (gettid in    *)
(* wrapper.c, perf_event_open on a pid in perf_stat.rs).                   *)
(*                                                                         *)
(* A thread gets, when it is created, a thread id that no live thread      *)
(* holds, and gives it back when it ends: the kernel may hand a tid out    *)
(* again.  A performance counter counts what its thread executes.          *)
(***************************************************************************)
EXTENDS Integers, Sequences, Functions

CONSTANTS
    Threads,   \* every thread of every traced process, over all time
    Tids,      \* the kernel's thread ids
    NoTid,     \* the tid of a thread that was never created
    MaxWork    \* bound: what a thread may execute, in countable units

ASSUME KernelAssumption ==
    /\ NoTid \notin Tids
    /\ MaxWork \in Nat

VARIABLES
    tid,       \* tid[t]: the tid t was given; it stays after t has ended
    live,      \* the threads that hold their tid now
    work       \* work[t]: how much t has executed

kernelVars == <<tid, live, work>>

KernelInit ==
    /\ tid = [t \in Threads |-> NoTid]
    /\ live = {}
    /\ work = [t \in Threads |-> 0]

\* The live thread with tid k, in a set: empty when k names nobody (ESRCH).
TaskAt(k) == {t \in live : tid[t] = k}

\* Thread t is created and given the unused tid k.
Clone(t, k) ==
    /\ tid[t] = NoTid
    /\ TaskAt(k) = {}
    /\ tid' = [tid EXCEPT ![t] = k]
    /\ live' = live \cup {t}
    /\ UNCHANGED work

\* The threads of S end and their tids become free.
Reap(S) ==
    /\ live' = live \ S
    /\ UNCHANGED <<tid, work>>

\* Live thread t executes one countable unit.
Execute(t) ==
    /\ t \in live
    /\ work[t] < MaxWork
    /\ work' = [work EXCEPT ![t] = @ + 1]
    /\ UNCHANGED <<tid, live>>

KernelTypeOK ==
    /\ tid \in [Threads -> Tids \cup {NoTid}]
    /\ live \subseteq Threads
    /\ work \in [Threads -> 0 .. MaxWork]
=============================================================================
