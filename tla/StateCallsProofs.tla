-------------------------- MODULE StateCallsProofs --------------------------
(***************************************************************************)
(* Proofs about StateCalls, for any threads, tids, event groups and        *)
(* faults, and calls in any order.                                         *)
(***************************************************************************)
EXTENDS StateCalls, TLAPS

USE KernelAssumption, StateAssumption

-----------------------------------------------------------------------------
(* The types, whoever makes the calls: for the proofs about Threadstat, too. *)

\* The ids of the table are ids.
LEMMA HeldIdsTypes == StateTypeOK => HeldIds \subseteq Ids
  BY DEF StateTypeOK, HeldIds

\* The calls of the handlers only start a job, and close_tid shrinks the table.
LEMMA CallTypes ==
    ASSUME StateTypeOK,
           flush_all \/ \E k \in Tids : open_tid(k) \/ close_tid(k)
    PROVE  StateTypeOK'
  <1> USE DEF StateTypeOK
  <1>1. ASSUME flush_all
        PROVE  StateTypeOK'
    <2>1. job' \in [op : Ops, tid : Tids \cup {NoTid},
                    configs : SUBSET Configs, ids : SUBSET Ids]
      BY <1>1, HeldIdsTypes DEF flush_all, Job, Ops
    <2> QED
      BY <1>1, <2>1 DEF flush_all, Held, Ids
  <1>2. ASSUME NEW k \in Tids, open_tid(k)
        PROVE  StateTypeOK'
    <2>1. job' \in [op : Ops, tid : Tids \cup {NoTid},
                    configs : SUBSET Configs, ids : SUBSET Ids]
      BY <1>2 DEF open_tid, Job, NoJob, Ops
    <2> QED
      BY <1>2, <2>1 DEF open_tid, Held, Ids
  <1>3. ASSUME NEW k \in Tids, close_tid(k)
        PROVE  StateTypeOK'
    <2>1. job' \in [op : Ops, tid : Tids \cup {NoTid},
                    configs : SUBSET Configs, ids : SUBSET Ids]
      BY <1>3 DEF close_tid, Job, NoJob, Ops
    <2>2. Held' = Held \ {k} /\ groups' \in [Held' -> SUBSET Ids]
      BY <1>3 DEF close_tid, Restrict, Held
    <2> QED
      BY <1>3, <2>1, <2>2 DEF close_tid, Ids
  <1> QED
    BY <1>1, <1>2, <1>3

\* The steps of a job keep the types; a count is never negative because a
\* counter starts at what its thread has executed so far.
LEMMA JobTypes ==
    ASSUME StateTypeOK, KernelTypeOK, JobInOrder, CountsInOrder,
           JobStep, UNCHANGED kernelVars
    PROVE  StateTypeOK'
  <1> USE DEF StateTypeOK
  <1>1. ASSUME NEW c \in Configs, OpenGroup(c)
        PROVE  StateTypeOK'
    <2>1. PICK t \in TaskAt(job.tid) :
             perf' = Append(perf, [task |-> t, config |-> c, base |-> work[t]])
      BY <1>1 DEF OpenGroup
    <2>2. [task |-> t, config |-> c, base |-> work[t]] \in Groups
      BY <2>1 DEF TaskAt, KernelTypeOK, Groups
    <2>3. perf' \in Seq(Groups) /\ Len(perf') = Len(perf) + 1 /\ Len(perf) \in Nat
      BY <2>1, <2>2
    <2>4. Ids \subseteq Ids' /\ Len(perf') \in Ids'
      BY <2>3 DEF Ids
    <2>5. job' \in [op : Ops, tid : Tids \cup {NoTid},
                    configs : SUBSET Configs, ids : SUBSET Ids']
      BY <1>1, <2>4 DEF OpenGroup
    <2> QED
      BY <1>1, <2>3, <2>4, <2>5 DEF OpenGroup, Held
  <1>2. ASSUME NEW c \in Configs, OpenFails(c)
        PROVE  StateTypeOK'
    <2>1. job' \in [op : Ops, tid : Tids \cup {NoTid},
                    configs : SUBSET Configs, ids : SUBSET Ids]
      BY <1>2 DEF OpenFails
    <2> QED
      BY <1>2, <2>1 DEF OpenFails, Held, Ids
  <1>3. ASSUME Insert
        PROVE  StateTypeOK'
    <2>1. job' \in [op : Ops, tid : Tids \cup {NoTid},
                    configs : SUBSET Configs, ids : SUBSET Ids]
      BY <1>3 DEF Insert, NoJob, Ops
    <2>2. job.tid \in Tids /\ job.ids \subseteq Ids
      BY <1>3 DEF Insert, JobInOrder
    <2>3. Held' = Held \cup {job.tid} /\ groups' \in [Held' -> SUBSET Ids]
      BY <1>3, <2>2 DEF Insert, Held
    <2>4. PICK described \in SUBSET job.ids :
             csv' = [csv EXCEPT !.desc = @ \cup
                        {[id |-> i, tid |-> job.tid] : i \in described}]
      BY <1>3 DEF Insert
    <2>5. {[id |-> i, tid |-> job.tid] : i \in described} \subseteq [id : Ids, tid : Tids]
      BY <2>2
    <2>6. csv' \in [desc : SUBSET [id : Ids, tid : Tids],
                    read : SUBSET (0 .. readId - 1),
                    event : SUBSET [read_id : 0 .. readId - 1,
                                    count : 0 .. MaxWork, id : Ids]]
      BY <2>4, <2>5
    <2> QED
      BY <1>3, <2>1, <2>2, <2>3, <2>6 DEF Insert, Ids
  <1>4. ASSUME NEW i \in Ids, FlushGroup(i)
        PROVE  StateTypeOK'
    <2>1. perf[i] \in Groups
      BY DEF Ids
    <2>2. Count(i) \in 0 .. MaxWork
      BY <2>1 DEF Count, Groups, CountsInOrder, KernelTypeOK
    <2>3. PICK reads \in SUBSET {readId},
               events \in SUBSET {[read_id |-> readId, count |-> Count(i), id |-> i]} :
             csv' = [csv EXCEPT !.read = @ \cup reads, !.event = @ \cup events]
      BY <1>4 DEF FlushGroup
    <2>4. readId' = readId + 1 /\ readId \in 0 .. readId' - 1
          /\ 0 .. readId - 1 \subseteq 0 .. readId' - 1
      BY <1>4 DEF FlushGroup
    <2>5. [read_id |-> readId, count |-> Count(i), id |-> i]
             \in [read_id : 0 .. readId' - 1, count : 0 .. MaxWork, id : Ids]
      BY <2>2, <2>4
    <2>6. csv' \in [desc : SUBSET [id : Ids, tid : Tids],
                    read : SUBSET (0 .. readId' - 1),
                    event : SUBSET [read_id : 0 .. readId' - 1,
                                    count : 0 .. MaxWork, id : Ids]]
      BY <2>3, <2>4, <2>5, ZenonT(40)
    <2>7. job' \in [op : Ops, tid : Tids \cup {NoTid},
                    configs : SUBSET Configs, ids : SUBSET Ids]
      BY <1>4 DEF FlushGroup
    <2>8. groups' = groups /\ perf' = perf /\ readId' \in Nat
      BY <1>4, <2>4 DEF FlushGroup
    <2>9. Held' = Held /\ Ids' = Ids
      BY <2>8 DEF Held, Ids
    <2> QED
      BY <2>6, <2>7, <2>8, <2>9
  <1>5. ASSUME EndJob
        PROVE  StateTypeOK'
    <2>1. job' \in [op : Ops, tid : Tids \cup {NoTid},
                    configs : SUBSET Configs, ids : SUBSET Ids]
      BY <1>5 DEF EndJob, NoJob, Ops
    <2> QED
      BY <1>5, <2>1 DEF EndJob, Held, Ids
  <1> QED
    BY <1>1, <1>2, <1>3, <1>4, <1>5 DEF JobStep

-----------------------------------------------------------------------------
(* The invariant.                                                          *)

\* The ids of one entry are of threads that had its tid when they were opened
\* and of different configurations.
Entry(k, ids) ==
    \A i, j \in ids :
        /\ tid[perf[i].task] = k
        /\ perf[i].config = perf[j].config => i = j

\* In the table, and outside it during open_tid and close_tid.
Entries ==
    /\ \A k \in Held : Entry(k, groups[k])
    /\ job.op \in {"open", "close"} => Entry(job.tid, job.ids)
    /\ job.op = "open" => \A i \in job.ids : perf[i].config \notin job.configs
    /\ job.op = "flush" => job.ids \subseteq HeldIds

\* The ids whose descriptions should be there.
DescribedIds == HeldIds \cup (IF job.op \in {"close", "flush"} THEN job.ids ELSE {})

Rows ==
    /\ "desc" \notin Faults =>
          \A i \in DescribedIds \cup {r.id : r \in csv.event} : \E d \in csv.desc : d.id = i
    /\ "csv" \notin Faults => \A r \in csv.event : r.read_id \in csv.read
    /\ \A r \in csv.event : r.count <= Count(r.id)

IInv ==
    /\ TypeOK /\ JobInOrder /\ CountsInOrder
    /\ Entries /\ Rows
    /\ ReadIdsOrderCounts /\ DescribedTid

-----------------------------------------------------------------------------
\* The State is empty at first, and no thread is there.
LEMMA InitIInv == Init => IInv
  <1> SUFFICES ASSUME Init PROVE IInv
    OBVIOUS
  <1> USE DEF Init, KernelInit, StateInit, NoJob
  <1>1. KernelTypeOK
    BY DEF KernelTypeOK
  <1>2. Held = {} /\ HeldIds = {} /\ Ids = {} /\ groups \in [Held -> SUBSET Ids]
    BY DEF Held, HeldIds, Ids
  <1>3. StateTypeOK
    BY <1>2 DEF StateTypeOK, Ops
  <1>4. JobInOrder /\ CountsInOrder
    BY <1>2 DEF JobInOrder, CountsInOrder
  <1>5. Entries /\ Rows /\ ReadIdsOrderCounts /\ DescribedTid
    BY <1>2 DEF Entries, Rows, DescribedIds, ReadIdsOrderCounts, DescribedTid
  <1> QED
    BY <1>1, <1>3, <1>4, <1>5 DEF IInv, TypeOK

\* What the types say of a group.
LEMMA GroupFacts ==
    ASSUME StateTypeOK, NEW i \in Ids
    PROVE  perf[i] \in Groups /\ perf[i].task \in Threads /\ perf[i].base \in Nat
  <1>1. perf[i] \in Groups
    BY DEF StateTypeOK, Ids
  <1> QED
    BY <1>1 DEF Groups

-----------------------------------------------------------------------------
(* The threads.                                                            *)

\* What the threads do: a thread keeps its tid, and its work only grows.
LEMMA TaskFacts ==
    ASSUME KernelTypeOK, Task
    PROVE  /\ KernelTypeOK'
           /\ \A t \in Threads : /\ tid[t] # NoTid => tid'[t] = tid[t]
                                 /\ work[t] <= work'[t]
  <1> USE DEF KernelTypeOK
  <1>1. ASSUME NEW t \in Threads, NEW k \in Tids, Clone(t, k)
        PROVE  /\ KernelTypeOK'
               /\ \A u \in Threads : tid[u] # NoTid => tid'[u] = tid[u]
               /\ work' = work
    BY <1>1 DEF Clone
  <1>2. ASSUME NEW t \in Threads, Execute(t)
        PROVE  /\ KernelTypeOK' /\ tid' = tid
               /\ \A u \in Threads : work[u] <= work'[u]
    <2>1. work[t] + 1 \in 0 .. MaxWork /\ work' = [work EXCEPT ![t] = @ + 1]
      BY <1>2 DEF Execute
    <2> QED
      BY <1>2, <2>1 DEF Execute
  <1>3. ASSUME NEW S \in SUBSET live, Reap(S)
        PROVE  KernelTypeOK' /\ UNCHANGED <<tid, work>>
    BY <1>3 DEF Reap
  <1>4. \A u \in Threads : work[u] <= work[u]
    OBVIOUS
  <1> QED
    BY <1>1, <1>2, <1>3, <1>4 DEF Task

\* A step of the threads disturbs nothing of the State: tids are not changed
\* and counts not turned back.
LEMMA TaskIInv == IInv /\ Task /\ UNCHANGED stateVars => IInv'
  <1> SUFFICES ASSUME IInv, Task, UNCHANGED stateVars PROVE IInv'
    OBVIOUS
  <1>1. /\ KernelTypeOK'
        /\ \A t \in Threads : /\ tid[t] # NoTid => tid'[t] = tid[t]
                              /\ work[t] <= work'[t]
    BY TaskFacts DEF IInv, TypeOK
  <1>2. /\ UNCHANGED <<groups, perf, readId, csv, job>>
        /\ UNCHANGED <<Held, HeldIds, Ids, DescribedIds>>
    BY DEF stateVars, Held, HeldIds, Ids, DescribedIds
  <1>3. TypeOK' /\ JobInOrder'
    BY <1>1, <1>2 DEF IInv, TypeOK, StateTypeOK, JobInOrder
  <1>4. \A i \in Ids : /\ perf[i] \in Groups /\ perf[i].task \in Threads
                       /\ perf[i].base \in Nat
                       /\ work[perf[i].task] \in Nat /\ work'[perf[i].task] \in Nat
    BY <1>1, GroupFacts DEF IInv, TypeOK, KernelTypeOK
  <1>5. CountsInOrder'
    BY <1>1, <1>2, <1>4 DEF IInv, CountsInOrder
  <1>6. \A i \in Ids, k \in Tids : tid[perf[i].task] = k => tid'[perf[i].task] = k
    BY <1>1, <1>4
  <1>7. Entries'
    <2>1. \A k \in Held : k \in Tids /\ groups[k] \subseteq Ids
      BY DEF IInv, TypeOK, StateTypeOK
    <2>2. job.ids \subseteq Ids /\ (job.op \in {"open", "close"} => job.tid \in Tids)
      BY DEF IInv, TypeOK, StateTypeOK, JobInOrder
    <2> QED
      BY <1>2, <1>6, <2>1, <2>2 DEF IInv, Entries, Entry
  <1>8. Rows' /\ ReadIdsOrderCounts'
    <2>1. \A r \in csv.event : r.id \in Ids /\ r.count \in Nat
      BY DEF IInv, TypeOK, StateTypeOK
    <2>2. \A r \in csv.event : r.count <= Count(r.id)'
      BY <1>1, <1>2, <1>4, <2>1 DEF IInv, Rows, Count
    <2> QED
      BY <1>2, <2>2 DEF IInv, Rows, ReadIdsOrderCounts
  <1>9. DescribedTid'
    BY <1>2, <1>6 DEF IInv, TypeOK, StateTypeOK, DescribedTid
  <1> QED
    BY <1>3, <1>5, <1>7, <1>8, <1>9 DEF IInv

-----------------------------------------------------------------------------
(* The calls.                                                              *)

\* A step that opens no group and writes no row leaves what is known of the
\* rows alone, as long as it only moves described ids around.
LEMMA SameRows ==
    ASSUME IInv, UNCHANGED <<kernelVars, perf, csv>>, DescribedIds' \subseteq DescribedIds
    PROVE  Rows' /\ ReadIdsOrderCounts' /\ DescribedTid' /\ CountsInOrder' /\ KernelTypeOK'
  <1>1. \A i : Count(i)' = Count(i)
    BY DEF kernelVars, Count
  <1>2. Rows'
    BY <1>1 DEF IInv, Rows
  <1>3. CountsInOrder' /\ KernelTypeOK' /\ DescribedTid' /\ ReadIdsOrderCounts'
    BY DEF IInv, TypeOK, kernelVars, CountsInOrder, KernelTypeOK, Ids, DescribedTid,
           ReadIdsOrderCounts
  <1> QED
    BY <1>2, <1>3

\* The entry that close_tid takes out of the table is the one that was in it,
\* and flush_all reads what the table holds (state.rs:82-103).
LEMMA CallIInv == IInv /\ Call /\ UNCHANGED kernelVars => IInv'
  <1> SUFFICES ASSUME IInv, Call, UNCHANGED kernelVars PROVE IInv'
    OBVIOUS
  <1> USE DEF IInv
  <1>1. StateTypeOK'
    BY CallTypes DEF Call, TypeOK
  <1>2. ASSUME NEW k \in Tids, open_tid(k)
        PROVE  JobInOrder' /\ Entries' /\ DescribedIds' \subseteq DescribedIds
    <2>1. UNCHANGED <<Held, HeldIds, groups, perf>> /\ tid' = tid
      BY <1>2 DEF open_tid, Held, HeldIds, kernelVars
    <2> QED
      BY <1>2, <2>1 DEF open_tid, Job, NoJob, Idle, JobInOrder, Entries, Entry, DescribedIds
  <1>3. ASSUME NEW k \in Tids, close_tid(k)
        PROVE  JobInOrder' /\ Entries' /\ DescribedIds' \subseteq DescribedIds
    <2>1. /\ Held' = Held \ {k} /\ \A m \in Held' : groups'[m] = groups[m]
          /\ perf' = perf /\ tid' = tid
      BY <1>3 DEF close_tid, Restrict, Held, kernelVars
    <2>2. HeldIds' \subseteq HeldIds
      BY <2>1 DEF HeldIds
    <2>3. k \in Held => groups[k] \subseteq HeldIds
      BY DEF HeldIds
    <2>4. job' = IF k \in Held THEN Job("close", k, {}, groups[k]) ELSE NoJob
      BY <1>3 DEF close_tid
    <2>5. JobInOrder'
      BY <2>1, <2>4 DEF Job, NoJob, JobInOrder
    <2>6. DescribedIds' \subseteq DescribedIds
      BY <2>2, <2>3, <2>4 DEF Job, NoJob, DescribedIds
    <2>7. Entries'
      BY <2>1, <2>4 DEF Job, NoJob, Entries, Entry
    <2> QED
      BY <2>5, <2>6, <2>7
  <1>4. ASSUME flush_all
        PROVE  JobInOrder' /\ Entries' /\ DescribedIds' \subseteq DescribedIds
    <2>1. UNCHANGED <<Held, HeldIds, groups, perf>> /\ tid' = tid
      BY <1>4 DEF flush_all, Held, HeldIds, kernelVars
    <2> QED
      BY <1>4, <2>1 DEF flush_all, Job, Idle, JobInOrder, Entries, Entry, DescribedIds
  <1>5. UNCHANGED <<perf, csv>> /\ JobInOrder' /\ Entries' /\ DescribedIds' \subseteq DescribedIds
    BY <1>2, <1>3, <1>4 DEF Call, open_tid, close_tid, flush_all
  <1> QED
    BY <1>1, <1>5, SameRows DEF TypeOK

-----------------------------------------------------------------------------
(* The steps of a job.                                                     *)

\* A group opened for a tid is of the thread that has the tid, and the first of
\* its configuration in the entry (state.rs:18-27).
LEMMA OpenGroupIInv ==
    ASSUME IInv, NEW c \in Configs, OpenGroup(c), UNCHANGED kernelVars, StateTypeOK'
    PROVE  IInv'
  <1> USE DEF IInv
  <1>1. PICK t \in TaskAt(job.tid) :
           perf' = Append(perf, [task |-> t, config |-> c, base |-> work[t]])
    BY DEF OpenGroup
  <1> DEFINE new == [task |-> t, config |-> c, base |-> work[t]]
             n == Len(perf) + 1
  <1>2. /\ perf \in Seq(Groups) /\ new \in Groups /\ t \in Threads
        /\ tid[t] = job.tid /\ UNCHANGED <<tid, work, live>>
    BY <1>1 DEF TypeOK, StateTypeOK, KernelTypeOK, TaskAt, Groups, kernelVars
  <1>3. /\ Len(perf') = n /\ perf'[n] = new /\ Ids' = Ids \cup {n} /\ n \notin Ids
        /\ \A i \in Ids : perf'[i] = perf[i]
    BY <1>1, <1>2 DEF Ids
  <1>4. /\ job' = [job EXCEPT !.configs = @ \ {c}, !.ids = @ \cup {n}]
        /\ UNCHANGED <<groups, readId, csv, Held, HeldIds>>
        /\ job.op = "open" /\ c \in job.configs
    BY <1>3 DEF OpenGroup, Held, HeldIds
  <1>5. /\ job'.op = "open" /\ job'.tid = job.tid /\ job'.ids = job.ids \cup {n}
        /\ job'.configs = job.configs \ {c}
    BY <1>4 DEF TypeOK, StateTypeOK
  <1>6. /\ \A k \in Held : groups[k] \subseteq Ids
        /\ job.ids \subseteq Ids
        /\ \A r \in csv.event : r.id \in Ids
        /\ \A d \in csv.desc : d.id \in Ids
    BY DEF TypeOK, StateTypeOK
  <1> HIDE DEF new, n
  <1>7. JobInOrder'
    BY <1>4, <1>5 DEF JobInOrder
  <1>8. CountsInOrder'
    <2>1. new.base <= work[new.task]
      BY <1>2 DEF new, Groups, KernelTypeOK, TypeOK
    <2> QED
      BY <1>2, <1>3, <2>1 DEF CountsInOrder
  <1>9. Entries'
    <2>1. \A k \in Held : Entry(k, groups[k])'
      BY <1>2, <1>3, <1>4, <1>6 DEF Entries, Entry
    <2>2. new.task = t /\ new.config = c
      BY DEF new
    <2>3. Entry(job.tid, job.ids)'
      BY <1>2, <1>3, <1>4, <1>5, <1>6, <2>2 DEF Entries, Entry
    <2>4. \A i \in job'.ids : perf'[i].config \notin job'.configs
      BY <1>3, <1>4, <1>5, <1>6, <2>2 DEF Entries
    <2> QED
      BY <1>4, <1>5, <2>1, <2>3, <2>4 DEF Entries
  <1>10. Rows' /\ ReadIdsOrderCounts' /\ DescribedTid'
    <2>1. DescribedIds' = DescribedIds
      BY <1>4, <1>5 DEF DescribedIds
    <2>2. \A r \in csv.event : Count(r.id)' = Count(r.id)
      BY <1>2, <1>3, <1>6 DEF Count
    <2> QED
      BY <1>2, <1>3, <1>4, <1>6, <2>1, <2>2 DEF Rows, ReadIdsOrderCounts, DescribedTid
  <1> QED
    BY <1>2, <1>7, <1>8, <1>9, <1>10 DEF TypeOK, KernelTypeOK

\* The entry is described and put into the table (state.rs:29-43).
LEMMA InsertIInv ==
    ASSUME IInv, Insert, UNCHANGED kernelVars, StateTypeOK'
    PROVE  IInv'
  <1> USE DEF IInv
  <1>1. PICK described \in SUBSET job.ids :
           /\ described = job.ids \/ "desc" \in Faults
           /\ csv' = [csv EXCEPT !.desc = @ \cup
                         {[id |-> i, tid |-> job.tid] : i \in described}]
    BY DEF Insert
  <1>2. /\ job.op = "open" /\ job.tid \in Tids \ Held
        /\ Held' = Held \cup {job.tid} /\ groups'[job.tid] = job.ids
        /\ \A k \in Held : groups'[k] = groups[k]
        /\ job' = NoJob /\ UNCHANGED <<perf, readId, tid, work, live>>
    BY DEF Insert, JobInOrder, Held, kernelVars
  <1>3. /\ csv'.read = csv.read /\ csv'.event = csv.event
        /\ csv'.desc = csv.desc \cup {[id |-> i, tid |-> job.tid] : i \in described}
    BY <1>1 DEF TypeOK, StateTypeOK
  <1>4. HeldIds' = HeldIds \cup job.ids
    BY <1>2 DEF HeldIds
  <1>5. DescribedIds' = HeldIds \cup job.ids /\ DescribedIds = HeldIds
    BY <1>2, <1>4 DEF DescribedIds, NoJob
  <1>6. JobInOrder'
    BY <1>2 DEF JobInOrder, NoJob
  <1>7. CountsInOrder' /\ KernelTypeOK'
    BY <1>2 DEF CountsInOrder, Ids, TypeOK, KernelTypeOK
  <1>8. Entries'
    BY <1>2 DEF Entries, Entry, NoJob
  <1>9. Rows'
    <2>1. "desc" \notin Faults => \A i \in job.ids : \E d \in csv'.desc : d.id = i
      <3>1. ASSUME NEW i \in job.ids, described = job.ids
            PROVE  [id |-> i, tid |-> job.tid] \in csv'.desc
        BY <1>3, <3>1
      <3> QED
        BY <1>1, <3>1
    <2>2. \A i : Count(i)' = Count(i)
      BY <1>2 DEF Count
    <2> QED
      BY <1>3, <1>5, <2>1, <2>2 DEF Rows
  <1>10. ReadIdsOrderCounts' /\ DescribedTid'
    BY <1>1, <1>2, <1>3 DEF ReadIdsOrderCounts, DescribedTid, Entries, Entry
  <1> QED
    BY <1>6, <1>7, <1>8, <1>9, <1>10 DEF TypeOK

\* A read's row has a number of its own and a count that no earlier row of the
\* group exceeds (state.rs:61-76).
LEMMA FlushGroupIInv ==
    ASSUME IInv, NEW i \in Ids, FlushGroup(i), UNCHANGED kernelVars, StateTypeOK'
    PROVE  IInv'
  <1> USE DEF IInv
  <1> DEFINE row == [read_id |-> readId, count |-> Count(i), id |-> i]
  <1>1. PICK reads \in SUBSET {readId}, events \in SUBSET {row} :
           /\ \/ reads # {} /\ events # {}
              \/ "read" \in Faults /\ reads = {} /\ events = {}
              \/ "csv" \in Faults
           /\ csv' = [csv EXCEPT !.read = @ \cup reads, !.event = @ \cup events]
    BY DEF FlushGroup
  <1>2. /\ csv'.desc = csv.desc /\ csv'.read = csv.read \cup reads
        /\ csv'.event = csv.event \cup events
    BY <1>1 DEF TypeOK, StateTypeOK
  <1>3. /\ job.op \in {"close", "flush"} /\ i \in job.ids
        /\ job'.op = job.op /\ job'.tid = job.tid /\ job'.configs = job.configs
        /\ job'.ids = job.ids \ {i}
        /\ UNCHANGED <<groups, perf, Held, HeldIds, Ids, tid, work, live>>
    BY DEF FlushGroup, TypeOK, StateTypeOK, Held, HeldIds, Ids, kernelVars
  <1>4. JobInOrder' /\ CountsInOrder' /\ KernelTypeOK'
    BY <1>3 DEF JobInOrder, CountsInOrder, TypeOK, KernelTypeOK
  <1>5. Entries'
    BY <1>3 DEF Entries, Entry
  <1>6. /\ readId \in Nat /\ Count(i) \in Nat
        /\ \A r \in csv.event : r.read_id \in 0 .. readId - 1 /\ r.count \in Nat
    <2>1. work[perf[i].task] \in Nat /\ perf[i].base <= work[perf[i].task]
      BY GroupFacts DEF TypeOK, KernelTypeOK, CountsInOrder
    <2>2. Count(i) \in Nat
      BY <2>1, GroupFacts DEF TypeOK, Count
    <2> QED
      BY <2>2 DEF TypeOK, StateTypeOK
  <1>7. /\ row.read_id = readId /\ row.count = Count(i) /\ row.id = i
        /\ \A j : Count(j)' = Count(j)
    BY <1>3 DEF Count
  <1> HIDE DEF row
  <1>8. Rows'
    <2>1. i \in DescribedIds /\ DescribedIds' \subseteq DescribedIds
      BY <1>3 DEF DescribedIds
    <2>2. "desc" \notin Faults =>
             \A j \in DescribedIds' \cup {r.id : r \in csv'.event} :
                 \E d \in csv'.desc : d.id = j
      BY <1>1, <1>2, <1>7, <2>1 DEF Rows
    <2>3. "csv" \notin Faults => \A r \in csv'.event : r.read_id \in csv'.read
      BY <1>1, <1>2, <1>7 DEF Rows
    <2>4. \A r \in csv'.event : r.count <= Count(r.id)'
      BY <1>1, <1>2, <1>6, <1>7 DEF Rows
    <2> QED
      BY <2>2, <2>3, <2>4 DEF Rows
  <1>9. ReadIdsOrderCounts'
    <2> SUFFICES ASSUME NEW r \in csv'.event, NEW s \in csv'.event
                 PROVE  /\ r.read_id = s.read_id => r = s
                        /\ r.id = s.id /\ r.read_id < s.read_id => r.count <= s.count
      BY DEF ReadIdsOrderCounts
    <2>1. CASE r \in csv.event /\ s \in csv.event
      BY <2>1 DEF ReadIdsOrderCounts
    <2>2. CASE r = row /\ s = row
      BY <1>6, <1>7, <2>2
    <2>3. CASE r \in csv.event /\ s = row
      BY <1>6, <1>7, <2>3 DEF Rows
    <2>4. CASE r = row /\ s \in csv.event
      BY <1>6, <1>7, <2>4
    <2> QED
      BY <1>1, <1>2, <2>1, <2>2, <2>3, <2>4
  <1>10. DescribedTid'
    BY <1>2, <1>3 DEF DescribedTid
  <1> QED
    BY <1>4, <1>5, <1>8, <1>9, <1>10 DEF TypeOK

\* The steps of a job, the two without a read or an open included.
LEMMA JobIInv == IInv /\ JobStep /\ UNCHANGED kernelVars => IInv'
  <1> SUFFICES ASSUME IInv, JobStep, UNCHANGED kernelVars PROVE IInv'
    OBVIOUS
  <1>1. StateTypeOK'
    BY JobTypes DEF IInv, TypeOK
  <1>2. ASSUME NEW c \in Configs, OpenFails(c) PROVE IInv'
    <2>1. /\ job.op = "open" /\ job'.op = "open" /\ job'.tid = job.tid
          /\ job'.ids = job.ids /\ job'.configs = job.configs \ {c}
          /\ UNCHANGED <<groups, perf, csv, Held, HeldIds, tid>>
      BY <1>2 DEF OpenFails, IInv, TypeOK, StateTypeOK, Held, HeldIds, kernelVars
    <2>2. JobInOrder' /\ Entries' /\ DescribedIds' \subseteq DescribedIds
      BY <2>1 DEF IInv, JobInOrder, Entries, Entry, DescribedIds
    <2> QED
      BY <1>1, <2>1, <2>2, SameRows DEF IInv, TypeOK
  <1>3. CASE EndJob
    <2>1. job' = NoJob /\ UNCHANGED <<groups, perf, csv, Held, HeldIds, tid>>
      BY <1>3 DEF EndJob, Held, HeldIds, kernelVars
    <2>2. JobInOrder' /\ Entries' /\ DescribedIds' \subseteq DescribedIds
      BY <2>1 DEF NoJob, IInv, JobInOrder, Entries, Entry, DescribedIds
    <2> QED
      BY <1>1, <2>1, <2>2, SameRows DEF IInv, TypeOK
  <1> QED
    BY <1>1, <1>2, <1>3, OpenGroupIInv, InsertIInv, FlushGroupIInv DEF JobStep

-----------------------------------------------------------------------------
(* The theorems.                                                           *)

\* Every step keeps the invariant.
LEMMA NextIInv == IInv /\ [Next]_vars => IInv'
  <1> SUFFICES ASSUME IInv, [Next]_vars PROVE IInv'
    OBVIOUS
  <1>1. CASE UNCHANGED vars
    <2>1. UNCHANGED <<kernelVars, groups, perf, readId, csv, job>>
      BY <1>1 DEF vars, stateVars
    <2>2. /\ StateTypeOK' /\ JobInOrder' /\ Entries' /\ DescribedIds' \subseteq DescribedIds
      BY <2>1 DEF IInv, TypeOK, StateTypeOK, JobInOrder, Entries, Entry, DescribedIds,
                  Held, HeldIds, Ids, kernelVars
    <2> QED
      BY <2>1, <2>2, SameRows DEF IInv, TypeOK
  <1> QED
    BY <1>1, CallIInv, JobIInv, TaskIInv DEF Next

\* The inductive invariant: types, what the entries hold, what the rows say.
THEOREM Invariant == Spec => []IInv
  BY InitIInv, NextIInv, PTL DEF Spec

\* The State keeps its types in whatever order it is called.
THEOREM CallsTyped == Spec => []TypeOK
  <1>1. IInv => TypeOK
    BY DEF IInv
  <1> QED
    BY <1>1, Invariant, PTL

\* The rows of the three files join, whatever fails (state.rs:29-76).
THEOREM RowsJoin == Spec => []EventRowsJoin
  <1>1. IInv => EventRowsJoin
    BY DEF IInv, Rows, EventRowsJoin
  <1> QED
    BY <1>1, Invariant, PTL

\* Read numbers are of one read each, and the counts of a group grow with them
\* (state.rs:61-76).
THEOREM ReadIdsOrdered == Spec => []ReadIdsOrderCounts
  <1>1. IInv => ReadIdsOrderCounts
    BY DEF IInv
  <1> QED
    BY <1>1, Invariant, PTL

\* A described tid is the one its counter's thread had (state.rs:31-42).
THEOREM TidsDescribed == Spec => []DescribedTid
  <1>1. IInv => DescribedTid
    BY DEF IInv
  <1> QED
    BY <1>1, Invariant, PTL

\* The ids of two different entries are of different threads.
LEMMA EntriesApart ==
    ASSUME IInv
    PROVE  /\ \A k, m \in Held : \A i \in groups[k] \cap groups[m] : k = m
           /\ job.op \in {"open", "close"} => job.ids \cap HeldIds = {}
  <1>1. \A k \in Held : \A i \in groups[k] : tid[perf[i].task] = k
    BY DEF IInv, Entries, Entry
  <1>2. job.op \in {"open", "close"} =>
          job.tid \notin Held /\ \A i \in job.ids : tid[perf[i].task] = job.tid
    BY DEF IInv, Entries, Entry, JobInOrder
  <1> QED
    BY <1>1, <1>2 DEF HeldIds

\* No thread is counted twice by one configuration, however often its tid is
\* announced and whoever had it before (state.rs:18).
THEOREM CountedOnce == Spec => []OneCounterPerThread
  <1>1. ASSUME IInv PROVE OneCounterPerThread
    <2> SUFFICES ASSUME NEW i \in OpenIds, NEW j \in OpenIds,
                        perf[i].task = perf[j].task, perf[i].config = perf[j].config
                 PROVE  i = j
      BY DEF OneCounterPerThread
    <2> DEFINE Out == IF job.op \in {"open", "close"} THEN job.ids ELSE {}
    <2>1. OpenIds = HeldIds \cup Out
      BY DEF OpenIds
    <2>2. \A n \in HeldIds : /\ tid[perf[n].task] \in Held
                             /\ n \in groups[tid[perf[n].task]]
      BY <1>1 DEF IInv, Entries, Entry, HeldIds
    <2>3. \A n \in Out : tid[perf[n].task] = job.tid /\ job.tid \notin Held
      BY <1>1 DEF IInv, Entries, Entry, JobInOrder
    <2>4. CASE i \in HeldIds /\ j \in HeldIds
      BY <1>1, <2>2, <2>4 DEF IInv, Entries, Entry
    <2>5. CASE i \in Out /\ j \in Out
      BY <1>1, <2>5 DEF IInv, Entries, Entry
    <2> QED
      BY <2>1, <2>2, <2>3, <2>4, <2>5
  <1> QED
    BY <1>1, Invariant, PTL

\* No descriptor goes away without a read of its own: only the loop of close_tid
\* lets go of ids, one for each read (state.rs:82-92).
THEOREM AlwaysReadBeforeClose == Spec => ReadBeforeClose
  <1> DEFINE Read(i) ==
               /\ OpenIds \ OpenIds' = {i}
               /\ readId' = readId + 1
               /\ Faults \cap {"read", "csv"} = {} =>
                     \E r \in csv'.event : r.id = i /\ r.read_id = readId
  <1>1. ASSUME IInv, Next, NEW i \in OpenIds \ OpenIds'
        PROVE  Read(i)
    <2>1. ASSUME (Task /\ UNCHANGED stateVars) \/ flush_all \/ (\E k \in Tids : open_tid(k))
          PROVE  FALSE
      <3>1. HeldIds' = HeldIds
        BY <2>1 DEF stateVars, flush_all, open_tid, HeldIds, Held
      <3>2. CASE Task /\ UNCHANGED stateVars
        BY <1>1, <3>1, <3>2 DEF stateVars, OpenIds
      <3>3. CASE job.op = "idle"
        BY <1>1, <3>1, <3>3 DEF OpenIds
      <3> QED
        BY <2>1, <3>2, <3>3 DEF flush_all, open_tid, Idle
    <2>2. ASSUME NEW k \in Tids, close_tid(k)
          PROVE  FALSE
      <3>1. /\ Held' = Held \ {k} /\ \A m \in Held' : groups'[m] = groups[m]
            /\ job.op = "idle"
            /\ job' = IF k \in Held THEN Job("close", k, {}, groups[k]) ELSE NoJob
        BY <2>2 DEF close_tid, Restrict, Held, Idle
      <3>2. PICK m \in Held : i \in groups[m]
        BY <1>1, <3>1 DEF OpenIds, HeldIds
      <3>3. CASE m = k
        BY <1>1, <3>1, <3>2, <3>3 DEF OpenIds, Job
      <3>4. CASE m # k
        <4>1. i \in HeldIds'
          BY <3>1, <3>2, <3>4 DEF HeldIds
        <4> QED
          BY <1>1, <4>1 DEF OpenIds
      <3> QED
        BY <3>3, <3>4
    <2>3. ASSUME NEW c \in Configs, OpenGroup(c) \/ OpenFails(c)
          PROVE  FALSE
      <3>1. HeldIds' = HeldIds /\ job.op = "open"
        BY <2>3 DEF OpenGroup, OpenFails, HeldIds, Held
      <3>2. \E opened : job' = [job EXCEPT !.configs = @ \ {c}, !.ids = @ \cup opened]
        <4>1. CASE OpenGroup(c)
          BY <4>1 DEF OpenGroup
        <4>2. CASE OpenFails(c)
          <5>1. job' = [job EXCEPT !.configs = @ \ {c}, !.ids = @ \cup {}]
            BY <1>1, <4>2 DEF OpenFails, IInv, TypeOK, StateTypeOK
          <5> QED
            BY <5>1
        <4> QED
          BY <2>3, <4>1, <4>2
      <3>3. job'.op = "open" /\ job.ids \subseteq job'.ids
        BY <1>1, <3>1, <3>2 DEF IInv, TypeOK, StateTypeOK
      <3> QED
        BY <1>1, <3>1, <3>3 DEF OpenIds
    <2>4. ASSUME Insert PROVE FALSE
      <3>1. /\ job.op = "open" /\ job.tid \in Tids \ Held
            /\ Held' = Held \cup {job.tid} /\ groups'[job.tid] = job.ids
            /\ \A k \in Held : groups'[k] = groups[k]
        BY <1>1, <2>4 DEF Insert, IInv, JobInOrder, Held
      <3>2. HeldIds' = HeldIds \cup job.ids
        BY <3>1 DEF HeldIds
      <3> QED
        BY <1>1, <3>1, <3>2 DEF OpenIds
    <2>5. ASSUME EndJob PROVE FALSE
      <3>1. HeldIds' = HeldIds /\ job.op \in {"close", "flush"} /\ job.ids = {}
        BY <2>5 DEF EndJob, HeldIds, Held
      <3> QED
        BY <1>1, <3>1 DEF OpenIds
    <2>6. ASSUME NEW j \in Ids, FlushGroup(j) PROVE Read(i)
      <3>1. /\ HeldIds' = HeldIds /\ job'.op = job.op /\ job'.ids = job.ids \ {j}
            /\ j \in job.ids /\ readId' = readId + 1
            /\ job.op \in {"close", "flush"}
        BY <1>1, <2>6 DEF FlushGroup, IInv, TypeOK, StateTypeOK, HeldIds, Held
      <3>2. job.op = "close" /\ i = j
        BY <1>1, <3>1 DEF OpenIds
      <3>3. OpenIds \ OpenIds' = {i}
        BY <1>1, <3>1, <3>2, EntriesApart DEF OpenIds
      <3>4. ASSUME Faults \cap {"read", "csv"} = {}
            PROVE  \E r \in csv'.event : r.id = i /\ r.read_id = readId
        <4>1. csv' = [csv EXCEPT !.read = @ \cup {readId},
                                 !.event = @ \cup {[read_id |-> readId, count |-> Count(j),
                                                    id |-> j]}]
          <5>1. PICK reads \in SUBSET {readId},
                     events \in SUBSET {[read_id |-> readId, count |-> Count(j), id |-> j]} :
                   /\ reads # {} /\ events # {}
                   /\ csv' = [csv EXCEPT !.read = @ \cup reads, !.event = @ \cup events]
            BY <2>6, <3>4 DEF FlushGroup
          <5> QED
            BY <5>1
        <4>2. [read_id |-> readId, count |-> Count(j), id |-> j] \in csv'.event
          BY <1>1, <4>1 DEF IInv, TypeOK, StateTypeOK
        <4> QED
          BY <3>2, <4>2
      <3> QED
        BY <3>1, <3>3, <3>4
    <2> QED
      BY <1>1, <2>1, <2>2, <2>3, <2>4, <2>5, <2>6 DEF Next, Call, JobStep
  <1>2. ASSUME IInv, [Next]_vars PROVE [\A i \in OpenIds \ OpenIds' : Read(i)]_vars
    BY <1>1, <1>2
  <1> QED
    BY <1>2, Invariant, PTL DEF Spec, ReadBeforeClose
=============================================================================
