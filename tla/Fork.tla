-------------------------------- MODULE Fork --------------------------------
(***************************************************************************)
(* Threadstat with threads that call fork.  The child has one thread, a    *)
(* copy of the caller: nobody announces it, but when the caller was        *)
(* started by wrapper the copy is inside wrapper too, and when its         *)
(* function ends cleanup_handler sends the message on the copied stack: a  *)
(* REMOVE for the tid of the caller.                                       *)
(*                                                                         *)
(* Threads that a child creates announce themselves like all others; they  *)
(* are left out.                                                           *)
(***************************************************************************)
EXTENDS Threadstat

CONSTANT MaxForks   \* bound: calls of fork

ASSUME ForkAssumption == MaxForks \in Nat

VARIABLES
    copies,    \* the children in wrapper: the tid each has in its message
    forked     \* the tids that a child's REMOVE may have hit or may still hit

forkVars == <<copies, forked>>

ForkInit == Init /\ copies = <<>> /\ forked = {}

\* A thread in its function forks, or a child of it does.
fork(k) ==
    /\ \/ \E t \in Threads : pc[t] = "run" /\ Leader[t] # t /\ tid[t] = k
       \/ k \in Range(copies) \ {NoTid}
    /\ Len(copies) < MaxForks
    /\ copies' = Append(copies, k)
    /\ forked' = forked \cup {k}
    /\ UNCHANGED vars

\* The function ends in the child, whenever that is.
ChildReturns(n) ==
    /\ n \in DOMAIN copies /\ copies[n] # NoTid
    /\ Len(queue) < QueueDepth
    /\ queue' = Append(queue, [flag |-> "remove", tid |-> copies[n]])
    /\ copies' = [copies EXCEPT ![n] = NoTid]
    /\ UNCHANGED <<forked, kernelVars, pc, Outside, mainVars, stale>>

\* The tids announced in this step, of which no child is left: whatever was
\* sent about them before comes before this ADD.
Announcing ==
    {tid[t] : t \in {u \in Threads : pc[u] = "announce" /\ pc'[u] = "run"}} \ Range(copies)

ForkNext ==
    \/ Next /\ forked' = forked \ Announcing /\ UNCHANGED copies
    \/ \E k \in Tids : fork(k)
    \/ \E n \in 1 .. MaxForks : ChildReturns(n)

ForkSpec == ForkInit /\ [][ForkNext]_<<vars, forkVars>>

-----------------------------------------------------------------------------
\* What a child sends does no harm beyond the tid its message was copied with,
\* and there only until the tid is announced again with no child left: all other
\* threads are counted as if nobody forked (wrapper.c:70-74, state.rs:82-92).
MonitoredBarForks ==
    \A t \in Threads :
        pc[t] \in Announced /\ Settled(tid[t]) /\ tid[t] \notin stale \cup forked
            => Counted(t)
=============================================================================
