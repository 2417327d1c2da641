---------------------------- MODULE StateCalls ----------------------------
(***************************************************************************)
(* The State of threadstat-shared with any order of calls: tids are        *)
(* announced twice, or closed without having been opened, or announced     *)
(* when their thread is gone, while threads start, run and end.  It is     *)
(* what PerfCalls and Threadstat implement; it has no bounds, and          *)
(* MCStateCalls bounds it for TLC.                                         *)
(***************************************************************************)
EXTENDS State

vars == <<kernelVars, stateVars>>

Init == KernelInit /\ StateInit

\* The calls of queue_handler and of the timer's handler.
Call ==
    \/ \E k \in Tids : open_tid(k) \/ close_tid(k)
    \/ flush_all

\* A process that ends takes all its threads with it.
Task ==
    \/ \E t \in Threads : Execute(t) \/ \E k \in Tids : Clone(t, k)
    \/ \E S \in SUBSET live : Reap(S)

Next ==
    \/ (Call \/ JobStep) /\ UNCHANGED kernelVars
    \/ Task /\ UNCHANGED stateVars

Spec == Init /\ [][Next]_vars

TypeOK == KernelTypeOK /\ StateTypeOK

-----------------------------------------------------------------------------

\* The groups whose descriptors are open: those of the table, those being
\* opened, and those of an entry taken out of the table and not dropped yet.
OpenIds ==
    HeldIds \cup (IF job.op = "open" THEN job.ids ELSE {})
            \cup (IF job.op = "close" THEN job.ids ELSE {})

\* However often a tid is announced, and whoever has it, no thread is counted
\* twice by one configuration: open_tid leaves a held tid alone
\* (threadstat-shared/src/state.rs:18).
OneCounterPerThread ==
    \A i, j \in OpenIds :
        perf[i].task = perf[j].task /\ perf[i].config = perf[j].config => i = j

\* No descriptor of a closed tid goes away without a last read of its own: a
\* read number is used up for it, and unless reading or writing fails the row
\* with that number is there (threadstat-shared/src/state.rs:82-92).
ReadBeforeClose ==
    [][\A i \in OpenIds \ OpenIds' :
          /\ OpenIds \ OpenIds' = {i}
          /\ readId' = readId + 1
          /\ Faults \cap {"read", "csv"} = {} =>
                \E r \in csv'.event : r.id = i /\ r.read_id = readId]_vars

\* The rows join: an event row's read and description were written, although
\* reads and opens fail in between (as long as the files can be written).
EventRowsJoin ==
    \A r \in csv.event :
        /\ "csv" \notin Faults => r.read_id \in csv.read
        /\ "desc" \notin Faults => \E d \in csv.desc : d.id = r.id

\* A read number is used for one read, and a later number of the same group
\* never shows a smaller count, whichever of the two callers of flush_groups
\* it comes from.
ReadIdsOrderCounts ==
    \A r, s \in csv.event :
        /\ r.read_id = s.read_id => r = s
        /\ r.id = s.id /\ r.read_id < s.read_id => r.count <= s.count

\* What the files say of a tid is about a thread that had that tid.
DescribedTid ==
    \A d \in csv.desc : tid[perf[d.id].task] = d.tid
=============================================================================
