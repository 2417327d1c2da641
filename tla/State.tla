------------------------------- MODULE State -------------------------------
(***************************************************************************)
(* threadstat-shared: the State that the handlers share, its counters and  *)
(* its CSV files.                                                          *)
(*                                                                         *)
(* Every configured event group is opened once for every tid announced.    *)
(* An opened group is named by its perf event id (a group's events are     *)
(* opened, read and closed together: the id stands for all of them).  The  *)
(* kernel attaches it to whatever thread holds the tid at that moment.     *)
(*                                                                         *)
(* The collector has one thread, but the threads it watches go on between  *)
(* its system calls.  open_tid, close_tid and flush_all are therefore      *)
(* jobs: the call starts the job, one step is one perf_event_open or one   *)
(* read, and no other call starts before the job is over.                  *)
(***************************************************************************)
EXTENDS Kernel

CONSTANTS
    Configs,   \* event_configs: the event groups of the command line
    Faults     \* which system calls may fail: subset of FaultKinds

FaultKinds == {"open", "desc", "read", "csv"}

ASSUME StateAssumption == Faults \subseteq FaultKinds

VARIABLES
    groups,    \* groups[k]: the ids opened for tid k, for every tid held
    perf,      \* every group opened so far, by id
    readId,    \* read_id: the number of the next read
    csv,       \* the rows of the three files
    job        \* the call in progress

stateVars == <<groups, perf, readId, csv, job>>

Ops == {"idle", "open", "close", "flush"}
Ids == 1 .. Len(perf)

\* configs: those still to open; ids: those opened, or still to be read.
NoJob == [op |-> "idle", tid |-> NoTid, configs |-> {}, ids |-> {}]
Job(op, k, configs, ids) == [op |-> op, tid |-> k, configs |-> configs, ids |-> ids]

Idle == job.op = "idle"
Held == DOMAIN groups
HeldIds == UNION {groups[k] : k \in Held}

StateInit ==
    /\ groups = [k \in {} |-> {}]
    /\ perf = <<>>
    /\ readId = 0
    /\ csv = [desc |-> {}, read |-> {}, event |-> {}]
    /\ job = NoJob

-----------------------------------------------------------------------------
(* open_tid                                                                *)

\* Faulty variant: no look at the table first.
open_tid_Always(k) ==
    /\ Idle
    /\ job' = Job("open", k, Configs, {})
    /\ UNCHANGED <<groups, perf, readId, csv>>

\* A tid that is held already is left alone.
open_tid(k) ==
    /\ Idle
    /\ job' = IF k \in Held THEN NoJob ELSE Job("open", k, Configs, {})
    /\ UNCHANGED <<groups, perf, readId, csv>>

\* Faulty variant: the counter is attached to some thread, whatever its tid.
OpenGroup_AnyThread(c) ==
    /\ job.op = "open" /\ c \in job.configs
    /\ \E t \in live :
          perf' = Append(perf, [task |-> t, config |-> c, base |-> work[t]])
    /\ job' = [job EXCEPT !.configs = @ \ {c}, !.ids = @ \cup {Len(perf')}]
    /\ UNCHANGED <<groups, readId, csv>>

\* PerfStatGroup::new succeeds for config c.
OpenGroup(c) ==
    /\ job.op = "open" /\ c \in job.configs
    /\ \E t \in TaskAt(job.tid) :
          perf' = Append(perf, [task |-> t, config |-> c, base |-> work[t]])
    /\ job' = [job EXCEPT !.configs = @ \ {c}, !.ids = @ \cup {Len(perf')}]
    /\ UNCHANGED <<groups, readId, csv>>

\* It fails, because nobody has the tid or for another reason: that group is
\* left out and the others are still tried.
OpenFails(c) ==
    /\ job.op = "open" /\ c \in job.configs
    /\ TaskAt(job.tid) = {} \/ "open" \in Faults
    /\ job' = [job EXCEPT !.configs = @ \ {c}]
    /\ UNCHANGED <<groups, perf, readId, csv>>

\* The descriptions are written, as far as that succeeds, and the entry is
\* inserted: with no group in it when none could be opened.
Insert ==
    /\ job.op = "open" /\ job.configs = {}
    /\ \E described \in SUBSET job.ids :
          /\ described = job.ids \/ "desc" \in Faults
          /\ csv' = [csv EXCEPT !.desc = @ \cup
                        {[id |-> i, tid |-> job.tid] : i \in described}]
    /\ groups' = [k \in Held \cup {job.tid} |->
                     IF k = job.tid THEN job.ids ELSE groups[k]]
    /\ job' = NoJob
    /\ UNCHANGED <<perf, readId>>

-----------------------------------------------------------------------------
(* close_tid, flush_all and the flush_groups they share                    *)

\* Faulty variant: the entry stays in the table.
close_tid_KeepsEntry(k) ==
    /\ Idle
    /\ job' = IF k \in Held THEN Job("close", k, {}, groups[k]) ELSE NoJob
    /\ UNCHANGED <<groups, perf, readId, csv>>

\* Faulty variant: the entry is dropped without a last read.
close_tid_Unread(k) ==
    /\ Idle
    /\ groups' = Restrict(groups, Held \ {k})
    /\ UNCHANGED <<perf, readId, csv, job>>

\* The entry is taken out of the table, and its groups are read once more.
close_tid(k) ==
    /\ Idle
    /\ job' = IF k \in Held THEN Job("close", k, {}, groups[k]) ELSE NoJob
    /\ groups' = Restrict(groups, Held \ {k})
    /\ UNCHANGED <<perf, readId, csv>>

flush_all ==
    /\ Idle
    /\ job' = Job("flush", NoTid, {}, HeldIds)
    /\ UNCHANGED <<groups, perf, readId, csv>>

Count(i) == work[perf[i].task] - perf[i].base

\* Faulty variant: the number is not counted up.
FlushGroup_SameNumber(i) ==
    /\ job.op \in {"close", "flush"} /\ i \in job.ids
    /\ csv' = [csv EXCEPT !.read = @ \cup {readId},
                          !.event = @ \cup {[read_id |-> readId, count |-> Count(i), id |-> i]}]
    /\ job' = [job EXCEPT !.ids = @ \ {i}]
    /\ UNCHANGED <<groups, perf, readId>>

\* Faulty variant: the event row is written although the read failed.
FlushGroup_RowAnyway(i) ==
    /\ job.op \in {"close", "flush"} /\ i \in job.ids
    /\ readId' = readId + 1
    /\ \E reads \in SUBSET {readId} :
          /\ reads # {} \/ "read" \in Faults
          /\ csv' = [csv EXCEPT !.read = @ \cup reads,
                          !.event = @ \cup {[read_id |-> readId, count |-> Count(i), id |-> i]}]
    /\ job' = [job EXCEPT !.ids = @ \ {i}]
    /\ UNCHANGED <<groups, perf>>

\* One turn of the loop of flush_groups.  The number is used up whatever
\* happens; a failed read leaves no row, and each row may fail on its own.
FlushGroup(i) ==
    /\ job.op \in {"close", "flush"} /\ i \in job.ids
    /\ readId' = readId + 1
    /\ \E reads \in SUBSET {readId},
          events \in SUBSET {[read_id |-> readId, count |-> Count(i), id |-> i]} :
          /\ \/ reads # {} /\ events # {}
             \/ "read" \in Faults /\ reads = {} /\ events = {}
             \/ "csv" \in Faults
          /\ csv' = [csv EXCEPT !.read = @ \cup reads, !.event = @ \cup events]
    /\ job' = [job EXCEPT !.ids = @ \ {i}]
    /\ UNCHANGED <<groups, perf>>

\* The call returns; the groups of a closed entry are dropped.
EndJob ==
    /\ job.op \in {"close", "flush"} /\ job.ids = {}
    /\ job' = NoJob
    /\ UNCHANGED <<groups, perf, readId, csv>>

JobStep ==
    \/ \E c \in Configs : OpenGroup(c) \/ OpenFails(c)
    \/ Insert
    \/ \E i \in Ids : FlushGroup(i)
    \/ EndJob

-----------------------------------------------------------------------------
Groups == [task : Threads, config : Configs, base : 0 .. MaxWork]

StateTypeOK ==
    /\ perf \in Seq(Groups)
    /\ Held \subseteq Tids
    /\ groups \in [Held -> SUBSET Ids]
    /\ readId \in Nat
    /\ csv \in [desc : SUBSET [id : Ids, tid : Tids],
                read : SUBSET (0 .. readId - 1),
                event : SUBSET [read_id : 0 .. readId - 1,
                                count : 0 .. MaxWork, id : Ids]]
    /\ job \in [op : Ops, tid : Tids \cup {NoTid},
                configs : SUBSET Configs, ids : SUBSET Ids]

\* A tid being opened or closed is not in the table.
JobInOrder ==
    /\ job.op \in {"open", "close"} => job.tid \in Tids \ Held
    /\ job.op \in {"idle", "flush"} => job.tid = NoTid
    /\ job.op # "open" => job.configs = {}

\* No counter has counted less than nothing.
CountsInOrder ==
    \A i \in Ids : perf[i].base <= work[perf[i].task]
=============================================================================
