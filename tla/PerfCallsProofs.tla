-------------------------- MODULE PerfCallsProofs ---------------------------
(***************************************************************************)
(* Proofs about PerfCalls, for any threads, tids, groups of any sizes, any *)
(* limit of descriptors and any faults.                                    *)
(***************************************************************************)
EXTENDS PerfCalls, SequenceTheorems, FiniteSetTheorems, TLAPS

USE KernelAssumption, PerfAssumption

Ids == DOMAIN perf
Groups == [task : Threads, config : Configs, base : Seq(Nat)]
Opened == [task : Threads, config : Configs, base : Nat]
EventIds == Nat \X Nat
Read == [id : EventIds, count : Int]
Reads == Seq(Read)
Readers == [alloc : Nat, layout : Nat, slice : Nat, nr : Nat, elems : Nat,
            entries : Reads]
Descs == [id : EventIds, tid : Tids \cup {NoTid}]
Rows == [read_id : Nat, id : EventIds, count : Int]

Types ==
    /\ KernelTypeOK
    /\ perf \in Seq(Groups)
    /\ readId \in Nat
    /\ groups \in [Held -> SUBSET Ids]
    /\ csv \in [desc : SUBSET Descs, read : SUBSET Nat, event : SUBSET Rows]
    /\ job \in [op : {"idle", "open", "close", "flush"}, tid : Tids \cup {NoTid},
                configs : SUBSET Configs, ids : SUBSET Ids, taken : SUBSET Ids]
    /\ opening \in Seq(Opened)
    /\ reader \in Readers

\* A group has as many events as its configuration says, and the events opened
\* so far are fewer.
Sized ==
    /\ \A i \in Ids : Len(perf[i].base) = SizeOf(i)
    /\ opening # <<>> => Len(opening) < Size[opening[1].config]

\* The rows are of groups that were opened.
Known ==
    /\ \A d \in csv.desc : d.id[1] \in Ids
    /\ "eof" \notin Faults => \A r \in csv.event : r.id[1] \in Ids

IInv == Types /\ Sized /\ Known /\ ReaderMemory

-----------------------------------------------------------------------------
\* A function on 1 .. n is a sequence of length n.
LEMMA IsSeq ==
    ASSUME NEW S, NEW n \in Nat, NEW f \in [1 .. n -> S]
    PROVE  f \in Seq(S) /\ Len(f) = n
  <1>1. f \in Seq(S)
    OBVIOUS
  <1> QED
    BY <1>1

\* What Append makes of a sequence.
LEMMA AppendIs ==
    ASSUME NEW S, NEW s \in Seq(S), NEW e \in S
    PROVE  Append(s, e) = [i \in 1 .. Len(s) + 1 |-> IF i = Len(s) + 1 THEN e ELSE s[i]]
  <1> DEFINE t == [i \in 1 .. Len(s) + 1 |-> IF i = Len(s) + 1 THEN e ELSE s[i]]
  <1>1. /\ Append(s, e) \in Seq(S) /\ Len(Append(s, e)) = Len(s) + 1 /\ Len(s) \in Nat
        /\ \A i \in 1 .. Len(s) + 1 :
              Append(s, e)[i] = IF i = Len(s) + 1 THEN e ELSE s[i]
    OBVIOUS
  <1>2. \A i \in 1 .. Len(s) + 1 : t[i] = IF i = Len(s) + 1 THEN e ELSE s[i]
    OBVIOUS
  <1>3. t \in [1 .. Len(s) + 1 -> S]
    OBVIOUS
  <1> HIDE DEF t
  <1>4. t \in Seq(S) /\ Len(t) = Len(s) + 1
    BY <1>1, <1>3, IsSeq
  <1>5. Append(s, e) = t
    BY <1>1, <1>2, <1>4, SeqEqual
  <1> QED
    BY <1>5 DEF t

\* The invariant holds at first.
LEMMA InitIInv == Init => IInv
  <1> SUFFICES ASSUME Init PROVE IInv
    OBVIOUS
  <1> USE DEF Init, NoJob
  <1>1. KernelTypeOK
    BY DEF KernelInit, KernelTypeOK
  <1>2. Held = {} /\ Ids = {} /\ perf \in Seq(Groups) /\ opening \in Seq(Opened)
    BY DEF Held, Ids
  <1>3. reader \in Readers
    <2>1. <<>> \in Reads
      BY DEF Reads
    <2> QED
      BY <2>1 DEF Readers
  <1>4. Types
    BY <1>1, <1>2, <1>3 DEF Types
  <1> QED
    BY <1>2, <1>4 DEF IInv, Sized, Known, ReaderMemory

\* What the types say of a group.
LEMMA GroupFacts ==
    ASSUME Types, Sized, NEW i \in Ids
    PROVE  /\ perf[i] \in Groups /\ i \in Nat
           /\ perf[i].task \in Threads /\ perf[i].config \in Configs
           /\ perf[i].base \in Seq(Nat) /\ Len(perf[i].base) = SizeOf(i)
           /\ SizeOf(i) \in Nat \ {0}
  <1>1. perf[i] \in Groups /\ i \in Nat
    BY DEF Types, Ids
  <1> QED
    BY <1>1 DEF Sized, Groups, SizeOf

-----------------------------------------------------------------------------
(* The shared buffer.                                                      *)

\* Growing the buffer keeps its allocation and its layout together, and the
\* slice is what the group needs, whatever was read before (group_reader.rs:46).
LEMMA EnsureSized ==
    ASSUME ReaderMemory, reader \in Readers, NEW count \in Nat, NEW r,
           r = ensure_sized(count)
    PROVE  /\ r \in Readers /\ r.layout = r.alloc /\ r.slice <= r.alloc
           /\ r.slice = necessary_buffer_size(count)
           /\ r.entries = reader.entries
  <1>1. PICK m \in Nat : m = necessary_buffer_size(count)
    BY DEF necessary_buffer_size
  <1>2. r = IF m > reader.layout
            THEN [reader EXCEPT !.alloc = m, !.layout = m, !.slice = m]
            ELSE [reader EXCEPT !.slice = m]
    BY <1>1 DEF ensure_sized
  <1>3. reader.layout = reader.alloc /\ reader.layout \in Nat
    BY DEF ReaderMemory, Readers
  <1>4. CASE m > reader.layout
    <2>1. r = [reader EXCEPT !.alloc = m, !.layout = m, !.slice = m]
      BY <1>2, <1>4
    <2>2. /\ r \in Readers /\ r.alloc = m /\ r.layout = m /\ r.slice = m
          /\ r.entries = reader.entries
      BY <1>1, <2>1 DEF Readers
    <2> QED
      BY <1>1, <2>2
  <1>5. CASE ~(m > reader.layout)
    <2>1. r = [reader EXCEPT !.slice = m]
      BY <1>2, <1>5
    <2>2. m <= reader.alloc /\ r \in Readers
      BY <1>1, <1>3, <1>5, <2>1 DEF Readers
    <2> QED
      BY <1>1, <1>3, <2>1, <2>2 DEF Readers
  <1> QED
    BY <1>4, <1>5

\* What a read of group i can end in: it fails because the call failed, it has
\* every event of the group, or, when the kernel had nothing to give, what the
\* buffer held before (group_reader.rs:79-95, perf_stat.rs:143-167).
LEMMA Outcomes ==
    ASSUME IInv, NEW i \in Ids, NEW outcome \in read_group(i)
    PROVE  /\ outcome.reader \in Readers
           /\ outcome.reader.layout = outcome.reader.alloc
           /\ outcome.reader.slice <= outcome.reader.alloc
           /\ \/ ~outcome.ok /\ "read" \in Faults
              \/ /\ outcome.ok
                 /\ outcome.reader.entries = [n \in 1 .. SizeOf(i) |-> Entry(i, n)]
              \/ outcome.ok /\ "eof" \in Faults
  <1> DEFINE r == ensure_sized(SizeOf(i))
  <1>1. /\ r \in Readers /\ r.layout = r.alloc /\ r.slice <= r.alloc
        /\ r.slice = necessary_buffer_size(SizeOf(i))
    BY EnsureSized, GroupFacts DEF IInv, Types
  <1>2. SizeOf(i) \in Nat /\ i \in Nat
    BY GroupFacts DEF IInv
  <1>3. \A n \in 1 .. SizeOf(i) : Entry(i, n) \in Read
    <2> SUFFICES ASSUME NEW n \in 1 .. SizeOf(i) PROVE Entry(i, n) \in Read
      OBVIOUS
    <2>1. perf[i].task \in Threads /\ perf[i].base \in Seq(Nat) /\ Len(perf[i].base) = SizeOf(i)
      BY GroupFacts DEF IInv
    <2>2. perf[i].base[n] \in Nat
      BY <2>1
    <2>3. work[perf[i].task] \in Int
      BY <2>1 DEF IInv, Types, KernelTypeOK
    <2> QED
      BY <1>2, <2>2, <2>3 DEF Entry, Read, EventIds
  <1>4. /\ Delivered(r, i) \in Readers /\ Delivered(r, i).layout = r.layout
        /\ Delivered(r, i).alloc = r.alloc /\ Delivered(r, i).slice = r.slice
        /\ Delivered(r, i).entries = [n \in 1 .. SizeOf(i) |-> Entry(i, n)]
    <2>1. [n \in 1 .. SizeOf(i) |-> Entry(i, n)] \in Reads
      BY <1>2, <1>3 DEF Reads
    <2> HIDE DEF r
    <2> QED
      BY <1>1, <1>2, <2>1 DEF Delivered, Readers
  <1>5. /\ Stale(r, i) \in Readers /\ Stale(r, i).layout = r.layout
        /\ Stale(r, i).alloc = r.alloc /\ Stale(r, i).slice = r.slice
    <2> HIDE DEF r
    <2> DEFINE old == [n \in 1 .. SizeOf(i) |->
                          IF n <= Len(r.entries) THEN r.entries[n] ELSE NoEvent]
    <2>1. NoEvent \in Read
      BY DEF NoEvent, Read, EventIds
    <2>2. r.entries \in Seq(Read)
      BY <1>1 DEF Readers, Reads
    <2>3. \A n \in 1 .. SizeOf(i) : n <= Len(r.entries) => r.entries[n] \in Read
      BY <1>2, <2>2
    <2>4. old \in Reads
      BY <1>2, <2>1, <2>3 DEF Reads
    <2>5. Stale(r, i) = [r EXCEPT !.elems = SizeOf(i), !.entries = old]
      BY DEF Stale
    <2> HIDE DEF old
    <2> QED
      BY <1>1, <1>2, <2>4, <2>5 DEF Readers
  <1>6. \/ outcome = [ok |-> TRUE, reader |-> Delivered(r, i)]
        \/ outcome = [ok |-> FALSE, reader |-> r] /\ "read" \in Faults
        \/ outcome = [ok |-> TRUE, reader |-> Stale(r, i)] /\ "eof" \in Faults
    BY <1>1 DEF read_group
  <1> HIDE DEF r
  <1>7. CASE outcome = [ok |-> TRUE, reader |-> Delivered(r, i)]
    BY <1>1, <1>4, <1>7
  <1>8. CASE outcome = [ok |-> FALSE, reader |-> r] /\ "read" \in Faults
    BY <1>1, <1>8
  <1>9. CASE outcome = [ok |-> TRUE, reader |-> Stale(r, i)] /\ "eof" \in Faults
    BY <1>1, <1>5, <1>9
  <1> QED
    BY <1>6, <1>7, <1>8, <1>9

-----------------------------------------------------------------------------
(* The invariant is kept.                                                  *)

\* The threads keep the types of the kernel's side.
LEMMA TaskTypes == KernelTypeOK /\ Task => KernelTypeOK'
  <1> SUFFICES ASSUME KernelTypeOK, Task PROVE KernelTypeOK'
    OBVIOUS
  <1> USE DEF KernelTypeOK
  <1>1. ASSUME NEW t \in Threads, NEW k \in Tids, Clone(t, k) PROVE KernelTypeOK'
    BY <1>1 DEF Clone
  <1>2. ASSUME NEW t \in Threads, Execute(t) PROVE KernelTypeOK'
    <2>1. work[t] + 1 \in 0 .. MaxWork
      BY <1>2 DEF Execute
    <2> QED
      BY <1>2, <2>1 DEF Execute
  <1>3. ASSUME NEW t \in Threads, Reap({t}) PROVE KernelTypeOK'
    BY <1>3 DEF Reap
  <1> QED
    BY <1>1, <1>2, <1>3 DEF Task

\* The three calls start a job, about what the table holds.
LEMMA CallIInv == IInv /\ Call /\ UNCHANGED kernelVars => IInv'
  <1> SUFFICES ASSUME IInv, Call, UNCHANGED kernelVars PROVE IInv'
    OBVIOUS
  <1> USE DEF IInv, Types
  <1>1. UNCHANGED <<perf, readId, csv, opening, fds, reader, Ids>> /\ KernelTypeOK'
    BY DEF Call, open_tid, close_tid, flush_all, Ids, kernelVars, KernelTypeOK
  <1>2. /\ groups' \in [Held' -> SUBSET Ids]
        /\ job' \in [op : {"idle", "open", "close", "flush"}, tid : Tids \cup {NoTid},
                     configs : SUBSET Configs, ids : SUBSET Ids, taken : SUBSET Ids]
    <2>1. ASSUME NEW k \in Tids, open_tid(k) PROVE <1>2!1 /\ <1>2!2
      BY <2>1 DEF open_tid, NoJob, Held
    <2>2. ASSUME NEW k \in Tids, close_tid(k) PROVE <1>2!1 /\ <1>2!2
      <3>1. k \in Held /\ groups[k] \subseteq Ids
        BY <2>2 DEF close_tid
      <3>2. Held' = Held \ {k} /\ groups' \in [Held' -> SUBSET Ids]
        BY <2>2 DEF close_tid, Restrict, Held
      <3> QED
        BY <2>2, <3>1, <3>2 DEF close_tid, NoJob
    <2>3. ASSUME flush_all PROVE <1>2!1 /\ <1>2!2
      <3>1. HeldIds \subseteq Ids
        BY DEF HeldIds
      <3> QED
        BY <2>3, <3>1 DEF flush_all, NoJob, Held
    <2> QED
      BY <2>1, <2>2, <2>3 DEF Call
  <1> QED
    BY <1>1, <1>2 DEF Sized, Known, SizeOf, ReaderMemory

\* Opening one more event: the group is complete, or still smaller than it
\* should be.
LEMMA OpenEventIInv ==
    ASSUME IInv, NEW c \in Configs, NEW t \in Threads, OpenEvent(c, t), UNCHANGED kernelVars
    PROVE  IInv'
  <1> USE DEF IInv, Types
  <1> DEFINE new == [task |-> t, config |-> c, base |-> work[t]]
             events == Append(opening, new)
             n == Len(opening) + 1
  <1>1. /\ UNCHANGED <<groups, readId, csv, reader, Held>> /\ KernelTypeOK'
        /\ job.op = "open" /\ c \in job.configs
        /\ opening # <<>> => opening[1].config = c
    BY DEF OpenEvent, Opening, kernelVars, KernelTypeOK, Held
  <1>2. new \in Opened /\ opening \in Seq(Opened)
    BY DEF Opened, KernelTypeOK
  <1>3. /\ events \in Seq(Opened) /\ Len(events) = n /\ n \in Nat \ {0}
        /\ events[n] = new /\ \A m \in 1 .. n - 1 : events[m] = opening[m]
    BY <1>2
  <1> HIDE DEF events
  <1>4. Size[c] \in Nat \ {0} /\ n <= Size[c]
    BY <1>1, <1>3 DEF Sized
  <1>5. CASE Len(events) < Size[c]
    <2>1. opening' = events /\ UNCHANGED <<perf, job, Ids>>
      BY <1>5 DEF OpenEvent, events, Ids
    <2>2. events[1].config = c
      <3>1. CASE opening = <<>>
        BY <1>3, <3>1
      <3>2. CASE opening # <<>>
        <4>1. Len(opening) \in Nat \ {0}
          BY <1>2, <3>2
        <4>2. 1 \in 1 .. n - 1
          BY <4>1
        <4> QED
          BY <1>1, <1>3, <3>2, <4>2
      <3> QED
        BY <3>1, <3>2
    <2> QED
      BY <1>1, <1>3, <1>5, <2>1, <2>2 DEF Sized, Known, SizeOf, ReaderMemory
  <1>6. CASE ~(Len(events) < Size[c])
    <2> DEFINE base == [m \in DOMAIN events |-> events[m].base]
               group == [task |-> t, config |-> c, base |-> base]
    <2>1. /\ opening' = <<>> /\ perf' = Append(perf, group)
          /\ job' = [job EXCEPT !.configs = @ \ {c}, !.ids = @ \cup {Len(perf')}]
      BY <1>6 DEF OpenEvent, events
    <2>2. base \in Seq(Nat) /\ Len(base) = Size[c]
      <3>1. \A m \in 1 .. Len(events) : events[m].base \in Nat
        <4>1. \A m \in 1 .. Len(events) : events[m] \in Opened
          BY <1>3
        <4> QED
          BY <4>1 DEF Opened
      <3>2. Len(events) = Size[c] /\ DOMAIN events = 1 .. Size[c]
        BY <1>3, <1>4, <1>6
      <3>3. base = [m \in 1 .. Size[c] |-> events[m].base]
        BY <3>2
      <3>4. PICK size \in Nat : size = Size[c]
        BY <1>4
      <3> HIDE DEF base
      <3>5. base \in [1 .. size -> Nat]
        BY <3>1, <3>2, <3>3, <3>4
      <3>6. base \in Seq(Nat) /\ Len(base) = size
        BY <3>5, IsSeq
      <3> QED
        BY <3>4, <3>6
    <2>3. group \in Groups
      BY <2>2 DEF Groups
    <2> HIDE DEF base
    <2>4. group.config = c /\ group.base = base
      OBVIOUS
    <2> HIDE DEF group
    <2>5. /\ perf' \in Seq(Groups) /\ Len(perf') = Len(perf) + 1
          /\ perf'[Len(perf')] = group /\ \A i \in Ids : perf'[i] = perf[i]
          /\ Ids' = Ids \cup {Len(perf')}
      BY <2>1, <2>3 DEF Ids
    <2>6. Types'
      <3>1. Len(perf') \in Ids' /\ Ids \subseteq Ids'
        BY <2>5
      <3>2. job' \in [op : {"idle", "open", "close", "flush"}, tid : Tids \cup {NoTid},
                     configs : SUBSET Configs, ids : SUBSET Ids', taken : SUBSET Ids']
        BY <2>1, <3>1
      <3>3. groups' \in [Held' -> SUBSET Ids']
        BY <1>1, <3>1
      <3>4. opening' \in Seq(Opened)
        BY <2>1
      <3> QED
        BY <1>1, <2>5, <3>2, <3>3, <3>4
    <2>7. Sized'
      BY <2>1, <2>2, <2>4, <2>5 DEF Sized, SizeOf
    <2> QED
      BY <1>1, <2>5, <2>6, <2>7 DEF Known, ReaderMemory
  <1> QED
    BY <1>5, <1>6

\* A read's rows are of the group it was asked for.
LEMMA FlushGroupIInv ==
    ASSUME IInv, NEW i \in Ids, FlushGroup(i), UNCHANGED kernelVars
    PROVE  IInv'
  <1>1. PICK outcome \in read_group(i) : reader' = outcome.reader /\ WriteRows(outcome)
    BY DEF FlushGroup
  <1>2. /\ reader' \in Readers /\ ReaderMemory'
        /\ \/ ~outcome.ok
           \/ outcome.reader.entries = [n \in 1 .. SizeOf(i) |-> Entry(i, n)]
           \/ "eof" \in Faults
    BY <1>1, Outcomes DEF ReaderMemory
  <1> DEFINE rows == IF outcome.ok
                     THEN {[read_id |-> readId, id |-> e.id, count |-> e.count] :
                              e \in Range(outcome.reader.entries)}
                     ELSE {}
             reads == IF outcome.ok THEN {readId} ELSE {}
  <1>3. PICK read \in SUBSET reads, event \in SUBSET rows :
           csv' = [csv EXCEPT !.read = @ \cup read, !.event = @ \cup event]
    BY <1>1 DEF WriteRows
  <1>4. reads \subseteq Nat
    BY DEF IInv, Types
  <1>5. rows \subseteq Rows
    <2>1. \A e \in Range(outcome.reader.entries) : e \in Read
      BY <1>1, <1>2 DEF Readers, Reads, Range
    <2> QED
      BY <2>1 DEF Read, Rows, IInv, Types
  <1>6. "eof" \notin Faults => \A r \in rows : r.id[1] \in Ids
    <2> SUFFICES ASSUME "eof" \notin Faults, outcome.ok, NEW e \in Range(outcome.reader.entries)
                 PROVE  e.id[1] \in Ids
      OBVIOUS
    <2>1. PICK n \in 1 .. SizeOf(i) : e = Entry(i, n)
      BY <1>2 DEF Range
    <2> QED
      BY <2>1 DEF Entry
  <1>7. /\ UNCHANGED <<groups, perf, opening, fds, Held, Ids>>
        /\ readId' = readId + 1 /\ job' = [job EXCEPT !.ids = @ \ {i}]
    BY DEF FlushGroup, Held, Ids
  <1> HIDE DEF reads, rows
  <1>8. csv' \in [desc : SUBSET Descs, read : SUBSET Nat, event : SUBSET Rows]
        /\ csv'.desc = csv.desc /\ csv'.event = csv.event \cup event
    BY <1>3, <1>4, <1>5 DEF IInv, Types
  <1>9. Types'
    <2>1. job' \in [op : {"idle", "open", "close", "flush"}, tid : Tids \cup {NoTid},
                     configs : SUBSET Configs, ids : SUBSET Ids, taken : SUBSET Ids]
      BY <1>7 DEF IInv, Types
    <2>2. KernelTypeOK' /\ readId' \in Nat
      BY <1>7 DEF IInv, Types, kernelVars, KernelTypeOK
    <2> QED
      BY <1>2, <1>7, <1>8, <2>1, <2>2 DEF IInv, Types
  <1>10. Sized' /\ Known'
    BY <1>6, <1>7, <1>8 DEF IInv, Sized, Known, SizeOf
  <1> QED
    BY <1>2, <1>9, <1>10 DEF IInv

\* The other steps of a job: a group that cannot be opened, the insertion of
\* the entry, and the end.
LEMMA JobIInv == IInv /\ JobStep /\ UNCHANGED kernelVars => IInv'
  <1> SUFFICES ASSUME IInv, JobStep, UNCHANGED kernelVars PROVE IInv'
    OBVIOUS
  <1>1. KernelTypeOK'
    BY DEF IInv, Types, kernelVars, KernelTypeOK
  <1>2. ASSUME NEW c \in Configs, OpenFails(c) PROVE IInv'
    <2>1. /\ UNCHANGED <<groups, perf, readId, csv, reader, Held, Ids>>
          /\ opening' = <<>> /\ job' = [job EXCEPT !.configs = @ \ {c}]
      BY <1>2 DEF OpenFails, Held, Ids
    <2>2. job' \in [op : {"idle", "open", "close", "flush"}, tid : Tids \cup {NoTid},
                     configs : SUBSET Configs, ids : SUBSET Ids, taken : SUBSET Ids]
      BY <2>1 DEF IInv, Types
    <2>3. opening' \in Seq(Opened)
      BY <2>1
    <2> QED
      BY <1>1, <2>1, <2>2, <2>3 DEF IInv, Types, Sized, Known, ReaderMemory, SizeOf
  <1>3. CASE Insert
    <2> DEFINE events == Events(job.ids)
    <2>1. PICK described \in SUBSET events :
             csv' = [csv EXCEPT !.desc = @ \cup {[id |-> e, tid |-> job.tid] : e \in described}]
      BY <1>3 DEF Insert
    <2>2. \A e \in events : e \in EventIds /\ e[1] \in Ids
      <3> SUFFICES ASSUME NEW i \in job.ids, NEW e \in {i} \X (1 .. SizeOf(i))
                   PROVE  e \in EventIds /\ e[1] \in Ids
        BY DEF Events
      <3>1. i \in Ids /\ i \in Nat /\ SizeOf(i) \in Nat
        BY GroupFacts DEF IInv, Types
      <3> QED
        BY <3>1 DEF EventIds
    <2> HIDE DEF events
    <2>3. job.tid \in Tids \cup {NoTid}
      BY DEF IInv, Types
    <2>4. /\ csv' \in [desc : SUBSET Descs, read : SUBSET Nat, event : SUBSET Rows]
          /\ csv'.event = csv.event
          /\ \A d \in csv'.desc : d.id[1] \in Ids
      BY <2>1, <2>2, <2>3, SMTT(30) DEF IInv, Types, Known, Descs
    <2>5. /\ UNCHANGED <<perf, readId, opening, fds, reader, Ids>> /\ job' = NoJob
          /\ groups' = [k \in Held \cup {job.tid} |->
                           IF k = job.tid THEN job.ids ELSE groups[k]]
      BY <1>3 DEF Insert, Ids
    <2>6. groups' \in [Held' -> SUBSET Ids]
      BY <2>5 DEF IInv, Types, Held
    <2> QED
      BY <1>1, <2>4, <2>5, <2>6
         DEF IInv, Types, Sized, Known, ReaderMemory, SizeOf, NoJob
  <1>4. CASE EndJob
    BY <1>1, <1>4
       DEF EndJob, NoJob, IInv, Types, Sized, Known, ReaderMemory, Held, Ids, SizeOf
  <1>5. 1 .. Len(perf) = Ids
    BY DEF IInv, Types, Ids
  <1> QED
    BY <1>2, <1>3, <1>4, <1>5, OpenEventIInv, FlushGroupIInv DEF JobStep

\* Every step keeps the invariant.
LEMMA NextIInv == IInv /\ [Next]_vars => IInv'
  <1> SUFFICES ASSUME IInv, [Next]_vars PROVE IInv'
    OBVIOUS
  <1>1. ASSUME UNCHANGED perfVars, KernelTypeOK' PROVE IInv'
    BY <1>1 DEF perfVars, IInv, Types, Sized, Known, ReaderMemory, Held, Ids, SizeOf
  <1>2. CASE UNCHANGED vars
    BY <1>1, <1>2 DEF vars, kernelVars, IInv, Types, KernelTypeOK
  <1>3. CASE Task /\ UNCHANGED perfVars
    BY <1>1, <1>3, TaskTypes DEF IInv, Types
  <1> QED
    BY <1>2, <1>3, CallIInv, JobIInv DEF Next

\* The slice that a read is given lies in the memory that was allocated, and the
\* layout that realloc and dealloc are told is that of the allocation, for any
\* groups in any order and whatever fails (group_reader.rs:46-68).
THEOREM MemoryInBounds == Spec => []ReaderMemory
  <1>1. IInv => ReaderMemory
    BY DEF IInv
  <1> QED
    BY <1>1, InitIInv, NextIInv, PTL DEF Spec

-----------------------------------------------------------------------------
(* The descriptors.                                                        *)

\* The events of the groups of A, when the groups opened so far are p.
EventsIn(p, A) == UNION {{i} \X (1 .. Size[p[i].config]) : i \in A}
Count(p, A) == Cardinality(EventsIn(p, A))

\* Groups without events are none, and a group has as many as its configuration.
LEMMA CountBase ==
    /\ \A p : EventsIn(p, {}) = {} /\ Count(p, {}) = 0
    /\ \A p, i : p[i].config \in Configs =>
          /\ IsFiniteSet(EventsIn(p, {i}))
          /\ Count(p, {i}) = Size[p[i].config]
  <1>1. \A p : EventsIn(p, {}) = {}
    BY DEF EventsIn
  <1>2. Cardinality({}) = 0
    BY FS_EmptySet
  <1>3. ASSUME NEW p, NEW i, p[i].config \in Configs
        PROVE  /\ IsFiniteSet(EventsIn(p, {i}))
               /\ Count(p, {i}) = Size[p[i].config]
    <2>1. PICK m \in Nat : m = Size[p[i].config] /\ m > 0
      BY <1>3
    <2>2. EventsIn(p, {i}) = {i} \X (1 .. m)
      BY <2>1 DEF EventsIn
    <2>3. IsFiniteSet({i}) /\ Cardinality({i}) = 1
      BY FS_Singleton
    <2>4. IsFiniteSet(1 .. m) /\ Cardinality(1 .. m) = m
      <3>1. 1 \in Int /\ m \in Int
        OBVIOUS
      <3>2. /\ IsFiniteSet(1 .. m)
            /\ Cardinality(1 .. m) = IF 1 > m THEN 0 ELSE m - 1 + 1
        BY <3>1, FS_Interval
      <3> QED
        BY <2>1, <3>2
    <2>5. /\ IsFiniteSet({i} \X (1 .. m))
          /\ Cardinality({i} \X (1 .. m)) = 1 * m
      BY <2>3, <2>4, FS_Product
    <2>6. 1 * m = m
      OBVIOUS
    <2>7. Cardinality(EventsIn(p, {i})) = m /\ IsFiniteSet(EventsIn(p, {i}))
      BY <2>2, <2>5, <2>6
    <2> QED
      BY <2>1, <2>7 DEF Count
  <1> QED
    BY <1>1, <1>2, <1>3 DEF Count

\* The count is a number.
LEMMA CountType ==
    ASSUME NEW p, NEW U, IsFiniteSet(EventsIn(p, U)), NEW A \in SUBSET U
    PROVE  IsFiniteSet(EventsIn(p, A)) /\ Count(p, A) \in Nat
  <1>1. EventsIn(p, A) \in SUBSET EventsIn(p, U)
    BY DEF EventsIn
  <1>2. IsFiniteSet(EventsIn(p, A))
    BY <1>1, FS_Subset
  <1> QED
    BY <1>2, FS_CardinalityType DEF Count

\* Groups that have none in common have as many events together as each of
\* them adds.
LEMMA CountsAddUp ==
    ASSUME NEW p, NEW A, NEW B, A \cap B = {},
           IsFiniteSet(EventsIn(p, A)), IsFiniteSet(EventsIn(p, B))
    PROVE  /\ IsFiniteSet(EventsIn(p, A \cup B))
           /\ Count(p, A \cup B) = Count(p, A) + Count(p, B)
  <1>1. EventsIn(p, A \cup B) = EventsIn(p, A) \cup EventsIn(p, B)
    BY DEF EventsIn
  <1>2. EventsIn(p, A) \cap EventsIn(p, B) = {}
    BY DEF EventsIn
  <1>3. \A S, T : IsFiniteSet(S) /\ IsFiniteSet(T) /\ S \cap T = {} =>
           IsFiniteSet(S \cup T) /\ Cardinality(S \cup T) = Cardinality(S) + Cardinality(T)
    <2> SUFFICES ASSUME NEW S, NEW T, IsFiniteSet(S), IsFiniteSet(T), S \cap T = {}
                 PROVE  /\ IsFiniteSet(S \cup T)
                        /\ Cardinality(S \cup T) = Cardinality(S) + Cardinality(T)
      OBVIOUS
    <2>1. /\ IsFiniteSet(S \cup T)
          /\ Cardinality(S \cup T) = Cardinality(S) + Cardinality(T) - Cardinality(S \cap T)
      BY FS_Union
    <2>2. Cardinality(S \cap T) = 0
      BY FS_EmptySet
    <2>3. Cardinality(S) \in Nat /\ Cardinality(T) \in Nat
      BY FS_CardinalityType
    <2> QED
      BY <2>1, <2>2, <2>3
  <1> QED
    BY <1>1, <1>2, <1>3 DEF Count

\* Groups keep their events when others are opened.
LEMMA CountKept ==
    ASSUME NEW p, NEW q, NEW A, \A i \in A : p[i] = q[i]
    PROVE  EventsIn(p, A) = EventsIn(q, A) /\ Count(p, A) = Count(q, A)
  <1>1. \A i \in A : {i} \X (1 .. Size[p[i].config]) = {i} \X (1 .. Size[q[i].config])
    OBVIOUS
  <1>2. EventsIn(p, A) = EventsIn(q, A)
    BY <1>1 DEF EventsIn
  <1> QED
    BY <1>2 DEF Count

\* Each group is in one place: in one entry, in the call that is opening it, or
\* in the call that has taken it out to close it.
Owned ==
    /\ \A k, l \in Held : k # l => groups[k] \cap groups[l] = {}
    /\ job.op = "open" => job.tid \notin Held /\ job.ids \cap HeldIds = {}
    /\ job.op # "close" => job.taken = {}

Accounted ==
    /\ IsFiniteSet(EventsIn(perf, Ids))
    /\ fds = Count(perf, HeldIds) + Count(perf, job.taken) + Len(opening)
             + IF job.op = "open" THEN Count(perf, job.ids) ELSE 0

FdInv == Owned /\ Accounted

\* What the types say of the terms of the account.
LEMMA AccountTypes ==
    ASSUME IInv, FdInv
    PROVE  /\ HeldIds \subseteq Ids /\ job.ids \subseteq Ids /\ job.taken \subseteq Ids
           /\ Count(perf, HeldIds) \in Nat /\ Count(perf, job.ids) \in Nat
           /\ Count(perf, job.taken) \in Nat /\ Len(opening) \in Nat
           /\ Count(perf, {}) = 0
  <1>1. /\ HeldIds \subseteq Ids /\ job.ids \subseteq Ids /\ job.taken \subseteq Ids
        /\ Len(opening) \in Nat
    BY DEF HeldIds, IInv, Types
  <1>2. ASSUME NEW A \in SUBSET Ids PROVE Count(perf, A) \in Nat
    BY CountType DEF FdInv, Accounted
  <1> QED
    BY <1>1, <1>2, CountBase

\* Starting a call moves groups, or none, and opens and closes nothing.
LEMMA CallFds == IInv /\ FdInv /\ Call => FdInv'
  <1> SUFFICES ASSUME IInv, FdInv, Call PROVE FdInv'
    OBVIOUS
  <1>1. /\ UNCHANGED <<perf, opening, fds, Ids>>
        /\ job.op = "idle" /\ job.taken = {}
    BY DEF Call, open_tid, close_tid, flush_all, Idle, FdInv, Owned, Ids
  <1>2. fds = Count(perf, HeldIds) + Len(opening)
    BY <1>1, AccountTypes DEF FdInv, Accounted
  <1>3. IsFiniteSet(EventsIn(perf, Ids))'
    BY <1>1 DEF FdInv, Accounted
  <1>4. ASSUME NEW k \in Tids, open_tid(k) PROVE FdInv'
    <2>1. /\ UNCHANGED <<groups, Held, HeldIds>> /\ k \notin Held
          /\ job' = [NoJob EXCEPT !.op = "open", !.tid = k, !.configs = Configs]
      BY <1>4 DEF open_tid, Held, HeldIds
    <2>2. job'.op = "open" /\ job'.tid = k /\ job'.ids = {} /\ job'.taken = {}
      BY <2>1 DEF NoJob
    <2>3. Owned'
      BY <2>1, <2>2 DEF FdInv, Owned
    <2>4. /\ Count(perf', HeldIds') = Count(perf, HeldIds) /\ Count(perf', job'.taken) = 0
          /\ Count(perf', job'.ids) = 0
      BY <1>1, <2>1, <2>2, AccountTypes
    <2>5. Accounted'
      BY <1>1, <1>2, <1>3, <2>2, <2>4, AccountTypes DEF Accounted
    <2> QED
      BY <2>3, <2>5 DEF FdInv
  <1>5. ASSUME NEW k \in Tids, close_tid(k) PROVE FdInv'
    <2>1. /\ k \in Held /\ groups' = Restrict(groups, Held \ {k})
          /\ job' = [NoJob EXCEPT !.op = "close", !.tid = k,
                                  !.ids = groups[k], !.taken = groups[k]]
      BY <1>5 DEF close_tid
    <2>2. Held' = Held \ {k} /\ \A l \in Held' : groups'[l] = groups[l]
      BY <2>1 DEF Held, Restrict
    <2>3. job'.op = "close" /\ job'.taken = groups[k]
      BY <2>1 DEF NoJob
    <2>4. HeldIds = HeldIds' \cup groups[k] /\ HeldIds' \cap groups[k] = {}
      <3>1. \A i : i \in HeldIds <=> \E l \in Held : i \in groups[l]
        BY DEF HeldIds
      <3>2. \A i : i \in HeldIds' <=> \E l \in Held' : i \in groups'[l]
        BY DEF HeldIds
      <3>3. \A l \in Held \ {k} : groups[l] \cap groups[k] = {}
        BY <2>1 DEF FdInv, Owned
      <3> QED
        BY <2>1, <2>2, <3>1, <3>2, <3>3
    <2>5. Owned'
      BY <2>2, <2>3 DEF FdInv, Owned
    <2>6. Count(perf, HeldIds) = Count(perf, HeldIds') + Count(perf, groups[k])
      <3>1. HeldIds' \in SUBSET Ids /\ groups[k] \in SUBSET Ids
        BY <2>4, AccountTypes
      <3>2. IsFiniteSet(EventsIn(perf, HeldIds')) /\ IsFiniteSet(EventsIn(perf, groups[k]))
        BY <3>1, CountType DEF FdInv, Accounted
      <3> QED
        BY <2>4, <3>2, CountsAddUp
    <2>7. Count(perf, HeldIds') \in Nat /\ Count(perf, groups[k]) \in Nat
      <3>1. HeldIds' \in SUBSET Ids /\ groups[k] \in SUBSET Ids
        BY <2>4, AccountTypes
      <3> QED
        BY <3>1, CountType DEF FdInv, Accounted
    <2>8. Accounted'
      BY <1>1, <1>2, <1>3, <2>3, <2>6, <2>7, AccountTypes DEF Accounted
    <2> QED
      BY <2>5, <2>8 DEF FdInv
  <1>6. ASSUME flush_all PROVE FdInv'
    <2>1. /\ UNCHANGED <<groups, Held, HeldIds>>
          /\ job'.op = "flush" /\ job'.taken = {}
      BY <1>6 DEF flush_all, Held, HeldIds, NoJob
    <2>2. Owned'
      BY <2>1 DEF FdInv, Owned
    <2>3. Accounted'
      BY <1>1, <1>2, <1>3, <2>1, AccountTypes DEF Accounted
    <2> QED
      BY <2>2, <2>3 DEF FdInv
  <1> QED
    BY <1>4, <1>5, <1>6 DEF Call

\* A descriptor more is an event more of the group that is being opened, or of
\* one that is now open.
LEMMA OpenEventFds ==
    ASSUME IInv, FdInv, NEW c \in Configs, NEW t \in Threads, OpenEvent(c, t)
    PROVE  FdInv'
  <1> DEFINE new == [task |-> t, config |-> c, base |-> work[t]]
             events == Append(opening, new)
  <1>1. /\ UNCHANGED <<groups, Held, HeldIds>> /\ fds' = fds + 1 /\ job.op = "open"
        /\ job.ids \cap HeldIds = {} /\ job.taken = {}
        /\ opening # <<>> => opening[1].config = c
    BY DEF OpenEvent, Opening, Held, HeldIds, FdInv, Owned
  <1>2. new \in Opened /\ opening \in Seq(Opened)
    BY DEF Opened, IInv, Types, KernelTypeOK
  <1>3. events \in Seq(Opened) /\ Len(events) = Len(opening) + 1
    BY <1>2
  <1>4. fds = Count(perf, HeldIds) + Len(opening) + Count(perf, job.ids)
    BY <1>1, AccountTypes DEF FdInv, Accounted
  <1> HIDE DEF events
  <1>5. CASE Len(events) < Size[c]
    <2>1. opening' = events /\ UNCHANGED <<perf, job, Ids>>
      BY <1>5 DEF OpenEvent, events, Ids
    <2>2. /\ Count(perf', HeldIds') = Count(perf, HeldIds)
          /\ Count(perf', job'.taken) = 0 /\ Count(perf', job'.ids) = Count(perf, job.ids)
      BY <1>1, <2>1, AccountTypes
    <2>3. IsFiniteSet(EventsIn(perf', Ids')) /\ job'.op = "open" /\ Len(opening') = Len(opening) + 1
      BY <1>1, <1>3, <2>1 DEF FdInv, Accounted
    <2>4. Accounted'
      BY <1>1, <1>4, <2>2, <2>3, AccountTypes DEF Accounted
    <2> QED
      BY <1>1, <2>1, <2>4 DEF FdInv, Owned
  <1>6. CASE ~(Len(events) < Size[c])
    <2> DEFINE i == Len(perf')
    <2>1. /\ opening' = <<>> /\ perf'[i].config = c
          /\ \A j \in Ids : perf'[j] = perf[j]
          /\ Ids' = Ids \cup {i} /\ i \notin Ids
          /\ job' = [job EXCEPT !.configs = @ \ {c}, !.ids = @ \cup {i}]
      <3> DEFINE group == [task |-> t, config |-> c,
                           base |-> [n \in DOMAIN events |-> events[n].base]]
      <3>1. /\ opening' = <<>> /\ perf' = Append(perf, group)
            /\ job' = [job EXCEPT !.configs = @ \ {c}, !.ids = @ \cup {Len(perf')}]
        BY <1>6 DEF OpenEvent, events
      <3>2. group.config = c
        OBVIOUS
      <3> HIDE DEF group
      <3>3. PICK S : perf \in Seq(S)
        BY DEF IInv, Types
      <3>4. Len(perf') = Len(perf) + 1 /\ perf'[Len(perf')] = group
            /\ \A j \in 1 .. Len(perf) : perf'[j] = perf[j]
            /\ DOMAIN perf = 1 .. Len(perf) /\ DOMAIN perf' = 1 .. Len(perf) + 1
            /\ Len(perf) \in Nat
        <4>1. perf \in Seq(S \cup {group})
          BY <3>3
        <4> QED
          BY <3>1, <4>1
      <3> QED
        BY <3>1, <3>2, <3>4 DEF Ids
    <2> HIDE DEF i
    <2>2. job'.op = "open" /\ job'.tid = job.tid /\ job'.ids = job.ids \cup {i}
          /\ job'.taken = {}
      BY <1>1, <2>1 DEF IInv, Types
    <2>3. Size[c] = Len(opening) + 1 /\ Len(opening') = 0
      <3>1. Size[c] \in Nat \ {0}
        OBVIOUS
      <3>2. Len(opening) < Size[c]
        <4>1. CASE opening = <<>>
          BY <3>1, <4>1
        <4>2. CASE opening # <<>>
          BY <1>1, <4>2 DEF IInv, Sized
        <4> QED
          BY <4>1, <4>2
      <3> QED
        BY <1>3, <1>6, <2>1, <3>1, <3>2, AccountTypes
    <2>4. IsFiniteSet(EventsIn(perf', {i})) /\ Count(perf', {i}) = Size[c]
      BY <2>1, CountBase
    <2>5. ASSUME NEW A \in SUBSET Ids
          PROVE  /\ Count(perf', A) = Count(perf, A)
                 /\ IsFiniteSet(EventsIn(perf', A \cup {i}))
                 /\ Count(perf', A \cup {i}) = Count(perf, A) + Size[c]
      <3>1. EventsIn(perf', A) = EventsIn(perf, A) /\ Count(perf', A) = Count(perf, A)
        <4>1. \A j \in A : perf'[j] = perf[j]
          BY <2>1
        <4> QED
          BY <4>1, CountKept
      <3>2. IsFiniteSet(EventsIn(perf', A))
        BY <3>1, CountType DEF FdInv, Accounted
      <3>3. A \cap {i} = {}
        BY <2>1
      <3> QED
        BY <2>4, <3>1, <3>2, <3>3, CountsAddUp
    <2>6. Accounted'
      <3>1. IsFiniteSet(EventsIn(perf', Ids'))
        BY <2>1, <2>5
      <3>2. Count(perf', HeldIds') = Count(perf, HeldIds)
        BY <1>1, <2>5, AccountTypes
      <3>3. Count(perf', job'.ids) = Count(perf, job.ids) + Size[c]
        BY <2>2, <2>5, AccountTypes
      <3>4. Count(perf', job'.taken) = 0
        BY <2>2, CountBase
      <3> QED
        BY <1>1, <1>4, <2>2, <2>3, <3>1, <3>2, <3>3, <3>4, AccountTypes DEF Accounted
    <2>7. Owned'
      BY <1>1, <2>1, <2>2, AccountTypes DEF FdInv, Owned
    <2> QED
      BY <2>6, <2>7 DEF FdInv
  <1> QED
    BY <1>5, <1>6

\* The other steps: what a group that failed had opened is closed, an entry is
\* inserted with what was opened for it, a read touches no descriptor, and the
\* end closes what was taken out.
LEMMA JobFds == IInv /\ FdInv /\ JobStep => FdInv'
  <1> SUFFICES ASSUME IInv, FdInv, JobStep PROVE FdInv'
    OBVIOUS
  <1>1. ASSUME NEW c \in Configs, OpenFails(c) PROVE FdInv'
    <2>1. /\ UNCHANGED <<groups, perf, Held, HeldIds, Ids>> /\ fds' = fds - Len(opening)
          /\ opening' = <<>> /\ job' = [job EXCEPT !.configs = @ \ {c}]
      BY <1>1 DEF OpenFails, Held, HeldIds, Ids
    <2>2. job'.op = job.op /\ job'.tid = job.tid /\ job'.ids = job.ids /\ job'.taken = job.taken
      BY <2>1 DEF IInv, Types
    <2>3. Len(opening') = 0
      BY <2>1
    <2>4. Accounted'
      BY <2>1, <2>2, <2>3, AccountTypes DEF FdInv, Accounted
    <2> QED
      BY <2>1, <2>2, <2>4 DEF FdInv, Owned
  <1>2. CASE Insert
    <2>1. /\ job.op = "open" /\ job' = NoJob /\ UNCHANGED <<perf, opening, fds, Ids>>
          /\ groups' = [k \in Held \cup {job.tid} |->
                           IF k = job.tid THEN job.ids ELSE groups[k]]
      BY <1>2 DEF Insert, Ids
    <2>2. /\ job.tid \notin Held /\ job.ids \cap HeldIds = {} /\ job.taken = {}
      BY <2>1 DEF FdInv, Owned
    <2>3. /\ Held' = Held \cup {job.tid} /\ groups'[job.tid] = job.ids
          /\ \A k \in Held : groups'[k] = groups[k]
      BY <2>1, <2>2 DEF Held
    <2>4. HeldIds' = HeldIds \cup job.ids
      <3>1. \A i : i \in HeldIds <=> \E l \in Held : i \in groups[l]
        BY DEF HeldIds
      <3>2. \A i : i \in HeldIds' <=> \E l \in Held' : i \in groups'[l]
        BY DEF HeldIds
      <3> QED
        BY <2>3, <3>1, <3>2
    <2>5. job'.op = "idle" /\ job'.taken = {}
      BY <2>1 DEF NoJob
    <2>6. Owned'
      <3>1. \A k \in Held : groups[k] \cap job.ids = {}
        BY <2>2 DEF HeldIds
      <3>2. \A k, l \in Held' : k # l => groups'[k] \cap groups'[l] = {}
        BY <2>3, <3>1 DEF FdInv, Owned
      <3> QED
        BY <2>5, <3>2 DEF Owned
    <2>7. Count(perf, HeldIds') = Count(perf, HeldIds) + Count(perf, job.ids)
      <3>1. HeldIds \in SUBSET Ids /\ job.ids \in SUBSET Ids
        BY AccountTypes
      <3>2. IsFiniteSet(EventsIn(perf, HeldIds)) /\ IsFiniteSet(EventsIn(perf, job.ids))
        BY <3>1, CountType DEF FdInv, Accounted
      <3>3. HeldIds \cap job.ids = {}
        BY <2>2
      <3> QED
        BY <2>4, <3>2, <3>3, CountsAddUp
    <2>8. Accounted'
      BY <2>1, <2>2, <2>5, <2>7, AccountTypes DEF FdInv, Accounted
    <2> QED
      BY <2>6, <2>8 DEF FdInv
  <1>3. ASSUME NEW i \in 1 .. Len(perf), FlushGroup(i) PROVE FdInv'
    <2>1. /\ UNCHANGED <<groups, perf, Held, HeldIds, Ids, opening, fds>>
          /\ job.op \in {"close", "flush"} /\ job' = [job EXCEPT !.ids = @ \ {i}]
      BY <1>3 DEF FlushGroup, Held, HeldIds, Ids
    <2>2. job'.op = job.op /\ job'.taken = job.taken
      BY <2>1 DEF IInv, Types
    <2> QED
      BY <2>1, <2>2 DEF FdInv, Owned, Accounted
  <1>4. CASE EndJob
    <2>1. /\ UNCHANGED <<groups, perf, Held, HeldIds, Ids, opening>>
          /\ fds' = fds - Cardinality(Events(job.taken))
          /\ job.op \in {"close", "flush"} /\ job' = NoJob
      BY <1>4 DEF EndJob, Held, HeldIds, Ids
    <2>2. job'.op = "idle" /\ job'.taken = {}
      BY <2>1 DEF NoJob
    <2>3. Cardinality(Events(job.taken)) = Count(perf, job.taken)
      BY DEF Events, Count, EventsIn, SizeOf
    <2>4. Accounted'
      BY <2>1, <2>2, <2>3, AccountTypes DEF FdInv, Accounted
    <2> QED
      BY <2>1, <2>2, <2>4 DEF FdInv, Owned
  <1> QED
    BY <1>1, <1>2, <1>3, <1>4, OpenEventFds DEF JobStep

\* Every step of the threads and of the calls keeps the descriptors accounted
\* for.
LEMMA NextFds == IInv /\ FdInv /\ [Next]_vars => FdInv'
  <1> SUFFICES ASSUME IInv, FdInv, [Next]_vars PROVE FdInv'
    OBVIOUS
  <1>1. CASE UNCHANGED perfVars
    BY <1>1 DEF perfVars, FdInv, Owned, Accounted, Held, HeldIds, Ids
  <1>2. UNCHANGED vars => UNCHANGED perfVars
    BY DEF vars
  <1> QED
    BY <1>1, <1>2, CallFds, JobFds DEF Next

\* Every descriptor that perf_event_open gave belongs to a group that is held,
\* being opened or being closed, for any groups and limits and whatever fails on
\* the way: none is leaked and none closed twice (perf_stat.rs:70-107).
THEOREM NeverLeaks == Spec => []NoDescriptorLeak
  <1>1. Init => FdInv
    <2> SUFFICES ASSUME Init PROVE FdInv
      OBVIOUS
    <2>1. /\ Held = {} /\ Ids = {} /\ HeldIds = {} /\ job.op = "idle" /\ job.taken = {}
          /\ fds = 0 /\ Len(opening) = 0
      BY DEF Init, Held, Ids, HeldIds, NoJob
    <2>2. EventsIn(perf, {}) = {} /\ Count(perf, {}) = 0 /\ IsFiniteSet({})
      BY CountBase, FS_EmptySet
    <2>3. Owned
      BY <2>1 DEF Owned
    <2>4. Accounted
      <3>1. Count(perf, HeldIds) = 0 /\ Count(perf, job.taken) = 0
        BY <2>1, <2>2
      <3>2. IsFiniteSet(EventsIn(perf, Ids))
        BY <2>1, <2>2
      <3>3. job.op # "open"
        BY <2>1
      <3> QED
        BY <2>1, <3>1, <3>2, <3>3 DEF Accounted
    <2> QED
      BY <2>3, <2>4 DEF FdInv
  <1>2. FdInv => NoDescriptorLeak
    <2>1. \A A : Cardinality(Events(A)) = Count(perf, A)
      BY DEF Events, Count, EventsIn, SizeOf
    <2> QED
      BY <2>1 DEF FdInv, Accounted, NoDescriptorLeak
  <1> QED
    BY <1>1, <1>2, InitIInv, NextIInv, NextFds, PTL DEF Spec

-----------------------------------------------------------------------------
(* The rows.                                                               *)

\* The groups that can still be read: the held ones, and those that a call is
\* about to read.
ToRead == HeldIds \cup IF job.op \in {"close", "flush"} THEN job.ids ELSE {}

Described ==
    "desc" \notin Faults =>
        \A i \in ToRead : \A n \in 1 .. SizeOf(i) : \E d \in csv.desc : d.id = <<i, n>>

Numbered == \A r \in csv.event : r.read_id < readId

RowsInv == Described /\ Numbered /\ EventsJoin /\ WholeReads

\* A step that writes no rows and has nothing more to read.
LEMMA RowsKept ==
    ASSUME IInv, RowsInv, UNCHANGED <<csv, readId>>, ToRead' \subseteq ToRead,
           Ids \subseteq Ids', \A i \in Ids : perf'[i] = perf[i]
    PROVE  RowsInv'
  <1>1. \A i \in Ids : SizeOf(i)' = SizeOf(i)
    BY DEF SizeOf
  <1>2. ToRead \subseteq Ids
    BY DEF ToRead, HeldIds, IInv, Types
  <1>3. Described'
    BY <1>1, <1>2 DEF RowsInv, Described
  <1>4. Numbered' /\ EventsJoin'
    BY DEF RowsInv, Numbered, EventsJoin
  <1>5. WholeReads'
    BY <1>1 DEF RowsInv, WholeReads, Ids
  <1> QED
    BY <1>3, <1>4, <1>5 DEF RowsInv

\* What is inserted was described event by event (state.rs:35-43).
LEMMA InsertRows ==
    ASSUME IInv, RowsInv, Insert
    PROVE  RowsInv'
  <1>1. PICK described \in SUBSET Events(job.ids) :
           /\ described = Events(job.ids) \/ "desc" \in Faults
           /\ csv' = [csv EXCEPT !.desc = @ \cup {[id |-> e, tid |-> job.tid] : e \in described}]
    BY DEF Insert
  <1>2. /\ job.op = "open" /\ job' = NoJob /\ UNCHANGED <<perf, readId, Ids>>
        /\ groups' = [k \in Held \cup {job.tid} |->
                         IF k = job.tid THEN job.ids ELSE groups[k]]
    BY DEF Insert, Ids
  <1>3. /\ csv'.desc = csv.desc \cup {[id |-> e, tid |-> job.tid] : e \in described}
        /\ csv'.read = csv.read /\ csv'.event = csv.event
    BY <1>1 DEF IInv, Types
  <1>4. ToRead' \subseteq HeldIds \cup job.ids
    <2>1. job'.op = "idle"
      BY <1>2 DEF NoJob
    <2>2. \A i : i \in HeldIds' <=> \E k \in Held' : i \in groups'[k]
      BY DEF HeldIds
    <2>3. \A i : i \in HeldIds <=> \E k \in Held : i \in groups[k]
      BY DEF HeldIds
    <2>4. Held' = Held \cup {job.tid}
      BY <1>2 DEF Held
    <2> QED
      BY <1>2, <2>1, <2>2, <2>3, <2>4 DEF ToRead
  <1>5. Described'
    <2> SUFFICES ASSUME "desc" \notin Faults, NEW i \in ToRead', NEW n \in 1 .. SizeOf(i)'
                 PROVE  \E d \in csv'.desc : d.id = <<i, n>>
      BY DEF Described
    <2>1. SizeOf(i)' = SizeOf(i)
      BY <1>2 DEF SizeOf
    <2>2. CASE i \in HeldIds
      BY <1>3, <2>1, <2>2 DEF RowsInv, Described, ToRead
    <2>3. CASE i \in job.ids
      <3>1. <<i, n>> \in described
        BY <1>1, <2>1, <2>3 DEF Events
      <3>2. [id |-> <<i, n>>, tid |-> job.tid] \in csv'.desc
        BY <1>3, <3>1
      <3> QED
        BY <3>2
    <2> QED
      BY <1>4, <2>2, <2>3
  <1>6. Numbered' /\ EventsJoin'
    BY <1>2, <1>3 DEF RowsInv, Numbered, EventsJoin
  <1>7. WholeReads'
    BY <1>2, <1>3 DEF RowsInv, WholeReads, SizeOf
  <1> QED
    BY <1>5, <1>6, <1>7 DEF RowsInv

\* A read that succeeds writes the rows of one group under a new number, each
\* for an event that was described (state.rs:47-80).
LEMMA FlushGroupRows ==
    ASSUME IInv, RowsInv, NEW i \in Ids, FlushGroup(i)
    PROVE  RowsInv'
  <1>1. PICK outcome \in read_group(i) : WriteRows(outcome)
    BY DEF FlushGroup
  <1> DEFINE rows == IF outcome.ok
                     THEN {[read_id |-> readId, id |-> e.id, count |-> e.count] :
                              e \in Range(outcome.reader.entries)}
                     ELSE {}
             reads == IF outcome.ok THEN {readId} ELSE {}
  <1>2. PICK read \in SUBSET reads, event \in SUBSET rows :
           /\ (read = reads /\ event = rows) \/ "csv" \in Faults
           /\ csv' = [csv EXCEPT !.read = @ \cup read, !.event = @ \cup event]
    BY <1>1 DEF WriteRows
  <1>3. /\ job.op \in {"close", "flush"} /\ i \in job.ids
        /\ job' = [job EXCEPT !.ids = @ \ {i}]
        /\ readId' = readId + 1 /\ UNCHANGED <<groups, perf, Held, HeldIds, Ids>>
    BY DEF FlushGroup, Held, HeldIds, Ids
  <1>4. /\ csv'.desc = csv.desc /\ csv'.read = csv.read \cup read
        /\ csv'.event = csv.event \cup event
    BY <1>2 DEF IInv, Types
  <1>5. readId \in Nat /\ \A r \in csv.event : r.read_id \in Nat
    BY DEF IInv, Types, Rows
  <1>6. \A r \in rows : outcome.ok /\ r.read_id = readId
    OBVIOUS
  <1>7. ToRead' \subseteq ToRead /\ i \in ToRead
    <2>1. job'.op = job.op /\ job'.ids = job.ids \ {i}
      BY <1>3 DEF IInv, Types
    <2> QED
      BY <1>3, <2>1 DEF ToRead
  <1>8. Described'
    <2>1. \A j : SizeOf(j)' = SizeOf(j)
      BY <1>3 DEF SizeOf
    <2> QED
      BY <1>4, <1>7, <2>1 DEF RowsInv, Described
  <1>9. ASSUME "eof" \notin Faults, outcome.ok
        PROVE  {r.id : r \in rows} = {i} \X (1 .. SizeOf(i))
    <2>1. outcome.reader.entries = [n \in 1 .. SizeOf(i) |-> Entry(i, n)]
      BY <1>9, Outcomes
    <2>2. Range(outcome.reader.entries) = {Entry(i, n) : n \in 1 .. SizeOf(i)}
      BY <2>1 DEF Range
    <2>3. \A n : Entry(i, n).id = <<i, n>>
      BY DEF Entry
    <2>4. rows = {[read_id |-> readId, id |-> <<i, n>>, count |-> Entry(i, n).count] :
                     n \in 1 .. SizeOf(i)}
      BY <1>9, <2>2, <2>3, ZenonT(40)
    <2> HIDE DEF rows
    <2>5. ASSUME NEW r \in rows PROVE r.id \in {i} \X (1 .. SizeOf(i))
      <3>1. PICK n \in 1 .. SizeOf(i) :
               r = [read_id |-> readId, id |-> <<i, n>>, count |-> Entry(i, n).count]
        BY <2>4
      <3>2. r.id = <<i, n>>
        BY <3>1
      <3> QED
        BY <3>2
    <2>6. ASSUME NEW n \in 1 .. SizeOf(i) PROVE \E r \in rows : r.id = <<i, n>>
      <3> DEFINE r == [read_id |-> readId, id |-> <<i, n>>, count |-> Entry(i, n).count]
      <3>1. r \in rows /\ r.id = <<i, n>>
        BY <2>4
      <3> QED
        BY <3>1
    <2>7. \A e \in {i} \X (1 .. SizeOf(i)) : \E n \in 1 .. SizeOf(i) : e = <<i, n>>
      OBVIOUS
    <2> QED
      BY <2>5, <2>6, <2>7
  <1> HIDE DEF rows, reads
  <1>10. Numbered'
    BY <1>3, <1>4, <1>5, <1>6 DEF RowsInv, Numbered
  <1>11. EventsJoin'
    <2> SUFFICES ASSUME NEW r \in csv'.event
                 PROVE  /\ "csv" \notin Faults => r.read_id \in csv'.read
                        /\ Faults \cap {"desc", "eof"} = {} => \E d \in csv'.desc : d.id = r.id
      BY DEF EventsJoin
    <2>1. CASE r \in csv.event
      BY <1>4, <2>1 DEF RowsInv, EventsJoin
    <2>2. CASE r \in event
      <3>1. outcome.ok /\ r.read_id = readId
        BY <1>6, <2>2
      <3>2. "csv" \notin Faults => r.read_id \in csv'.read
        BY <1>2, <1>4, <3>1 DEF reads
      <3>3. ASSUME Faults \cap {"desc", "eof"} = {}
            PROVE  \E d \in csv'.desc : d.id = r.id
        <4>1. r.id \in {i} \X (1 .. SizeOf(i))
          BY <1>9, <2>2, <3>1, <3>3
        <4>2. PICK n \in 1 .. SizeOf(i) : r.id = <<i, n>>
          BY <4>1
        <4> QED
          BY <1>4, <1>7, <3>3, <4>2 DEF RowsInv, Described
      <3> QED
        BY <3>2, <3>3
    <2> QED
      BY <1>4, <2>1, <2>2
  <1>12. WholeReads'
    <2> SUFFICES ASSUME Faults \cap {"read", "csv", "eof"} = {}, NEW m \in 0 .. readId' - 1
                 PROVE  \E j \in Ids :
                           {e.id : e \in {x \in csv'.event : x.read_id = m}} =
                              {j} \X (1 .. SizeOf(j)')
      BY <1>3 DEF WholeReads, Ids
    <2>1. event = rows
      BY <1>2
    <2>2. outcome.ok
      BY Outcomes
    <2>3. \A j : SizeOf(j)' = SizeOf(j)
      BY <1>3 DEF SizeOf
    <2>4. CASE m = readId
      <3>1. {x \in csv'.event : x.read_id = m} = rows
        BY <1>4, <1>5, <1>6, <2>1, <2>4 DEF RowsInv, Numbered
      <3> QED
        BY <1>9, <2>2, <2>3, <3>1
    <2>5. CASE m # readId
      <3>1. {x \in csv'.event : x.read_id = m} = {x \in csv.event : x.read_id = m}
        BY <1>4, <1>6, <2>5
      <3>2. m \in 0 .. readId - 1
        BY <1>3, <1>5, <2>5
      <3> QED
        BY <2>3, <3>1, <3>2 DEF RowsInv, WholeReads, Ids
    <2> QED
      BY <2>4, <2>5
  <1> QED
    BY <1>8, <1>10, <1>11, <1>12 DEF RowsInv

\* Every step keeps the rows whole and joined.
LEMMA NextRows == IInv /\ RowsInv /\ [Next]_vars => RowsInv'
  <1> SUFFICES ASSUME IInv, RowsInv, [Next]_vars PROVE RowsInv'
    OBVIOUS
  <1>1. CASE UNCHANGED perfVars
    BY <1>1, RowsKept DEF perfVars, Ids, ToRead, HeldIds, Held
  <1>2. CASE Call
    <2>1. /\ UNCHANGED <<csv, readId, perf, Ids>> /\ job.op = "idle"
      BY <1>2 DEF Call, open_tid, close_tid, flush_all, Idle, Ids
    <2>2. ToRead' \subseteq ToRead
      <3>1. \A i : i \in HeldIds <=> \E k \in Held : i \in groups[k]
        BY DEF HeldIds
      <3>2. \A i : i \in HeldIds' <=> \E k \in Held' : i \in groups'[k]
        BY DEF HeldIds
      <3>3. ASSUME NEW k \in Tids, open_tid(k) PROVE <2>2
        <4>1. UNCHANGED <<groups, Held, HeldIds>> /\ job'.op = "open"
          BY <3>3 DEF open_tid, Held, HeldIds, NoJob
        <4> QED
          BY <4>1 DEF ToRead
      <3>4. ASSUME NEW k \in Tids, close_tid(k) PROVE <2>2
        <4>1. /\ k \in Held /\ Held' = Held \ {k} /\ \A l \in Held' : groups'[l] = groups[l]
              /\ job'.ids = groups[k]
          BY <3>4 DEF close_tid, Held, Restrict, NoJob
        <4>2. HeldIds' \subseteq HeldIds /\ groups[k] \subseteq HeldIds
          BY <3>1, <3>2, <4>1
        <4> QED
          BY <4>1, <4>2 DEF ToRead
      <3>5. ASSUME flush_all PROVE <2>2
        <4>1. UNCHANGED <<groups, Held, HeldIds>> /\ job'.ids = HeldIds
          BY <3>5 DEF flush_all, Held, HeldIds, NoJob
        <4> QED
          BY <4>1 DEF ToRead
      <3> QED
        BY <1>2, <3>3, <3>4, <3>5 DEF Call
    <2> QED
      BY <2>1, <2>2, RowsKept
  <1>3. ASSUME NEW c \in Configs, NEW t \in Threads, OpenEvent(c, t) PROVE RowsInv'
    <2>1. /\ UNCHANGED <<csv, readId, groups, Held, HeldIds>> /\ job.op = "open"
      BY <1>3 DEF OpenEvent, Opening, Held, HeldIds
    <2>2. job'.op = "open"
      BY <1>3, <2>1 DEF OpenEvent, IInv, Types
    <2>3. Ids \subseteq Ids' /\ \A j \in Ids : perf'[j] = perf[j]
      <3>1. CASE UNCHANGED perf
        BY <3>1 DEF Ids
      <3>2. ASSUME NEW g, perf' = Append(perf, g) PROVE <2>3
        <4>1. PICK S : perf \in Seq(S)
          BY DEF IInv, Types
        <4>2. perf \in Seq(S \cup {g})
          BY <4>1
        <4> QED
          BY <3>2, <4>2 DEF Ids
      <3> QED
        BY <1>3, <3>1, <3>2 DEF OpenEvent
    <2> QED
      BY <2>1, <2>2, <2>3, RowsKept DEF ToRead
  <1>4. ASSUME NEW c \in Configs, OpenFails(c) PROVE RowsInv'
    <2>1. /\ UNCHANGED <<csv, readId, perf, Ids, groups, Held, HeldIds>> /\ job.op = "open"
          /\ job' = [job EXCEPT !.configs = @ \ {c}]
      BY <1>4 DEF OpenFails, Opening, Held, HeldIds, Ids
    <2>2. job'.op = "open"
      BY <2>1 DEF IInv, Types
    <2> QED
      BY <2>1, <2>2, RowsKept DEF ToRead
  <1>5. CASE EndJob
    <2>1. /\ UNCHANGED <<csv, readId, perf, Ids, groups, Held, HeldIds>> /\ job'.op = "idle"
      BY <1>5 DEF EndJob, Held, HeldIds, Ids, NoJob
    <2> QED
      BY <2>1, RowsKept DEF ToRead
  <1>6. 1 .. Len(perf) = Ids
    BY DEF IInv, Types, Ids
  <1>7. JobStep => RowsInv'
    BY <1>3, <1>4, <1>5, <1>6, InsertRows, FlushGroupRows DEF JobStep
  <1>8. UNCHANGED vars => UNCHANGED perfVars
    BY DEF vars
  <1> QED
    BY <1>1, <1>2, <1>7, <1>8 DEF Next

\* The rows are whole and join at first, when there are none.
LEMMA InitRows == Init => RowsInv
  <1> SUFFICES ASSUME Init PROVE RowsInv
    OBVIOUS
  <1>1. /\ HeldIds = {} /\ job.op = "idle" /\ csv.event = {} /\ readId = 0
    BY DEF Init, HeldIds, Held, NoJob
  <1>2. ToRead = {} /\ 0 .. readId - 1 = {}
    BY <1>1 DEF ToRead
  <1> QED
    BY <1>1, <1>2 DEF RowsInv, Described, Numbered, EventsJoin, WholeReads

\* As long as reads and writes succeed, each read number has the rows of all
\* events of one group and no others, for groups of any sizes that share the
\* buffer in any order (state.rs:61-76, group_reader.rs:79-95).
THEOREM ReadsAreWhole == Spec => []WholeReads
  <1>1. RowsInv => WholeReads
    BY DEF RowsInv
  <1> QED
    BY <1>1, InitIInv, NextIInv, InitRows, NextRows, PTL DEF Spec

\* The row of every event, not only of the leader, has its read row and its
\* description, whatever events failed to open and whatever reads failed
\* (state.rs:35-43, 61-76).
THEOREM AllEventsJoin == Spec => []EventsJoin
  <1>1. RowsInv => EventsJoin
    BY DEF RowsInv
  <1> QED
    BY <1>1, InitIInv, NextIInv, InitRows, NextRows, PTL DEF Spec

-----------------------------------------------------------------------------
(* The refinement.  A step of a call is the step of StateCalls that stands *)
(* for the last event of a group, or no step there.                        *)

Abstract == Calls!Next \/ UNCHANGED Calls!vars

\* At first nothing is opened, written or under way in either.
LEMMA InitAbstract == Init => Calls!Init
  <1> SUFFICES ASSUME Init PROVE Calls!Init
    OBVIOUS
  <1>1. perfOfCalls = <<>>
    BY DEF Init, perfOfCalls
  <1>2. csvOfCalls = [desc |-> {}, read |-> {}, event |-> {}]
    BY DEF Init, csvOfCalls, LastOf
  <1>3. jobOfCalls = Calls!NoJob
    BY DEF Init, NoJob, jobOfCalls, Calls!NoJob
  <1> QED
    BY <1>1, <1>2, <1>3 DEF Init, Calls!Init, Calls!StateInit, KernelInit, Calls!KernelInit

\* Starting a call is starting it there.
LEMMA CallAbstract == IInv /\ Call /\ UNCHANGED kernelVars => Abstract
  <1> SUFFICES ASSUME IInv, Call, UNCHANGED kernelVars PROVE Abstract
    OBVIOUS
  <1>1. UNCHANGED <<perf, readId, csv>>
    BY DEF Call, open_tid, close_tid, flush_all
  <1>2. perfOfCalls' = perfOfCalls /\ csvOfCalls' = csvOfCalls
    BY <1>1 DEF perfOfCalls, csvOfCalls, LastOf, SizeOf
  <1>3. Len(perfOfCalls) = Len(perf)
    BY IsSeq DEF perfOfCalls, IInv, Types
  <1>4. jobOfCalls.op = job.op
    BY DEF jobOfCalls
  <1>5. ASSUME NEW k \in Tids, open_tid(k)
        PROVE  Calls!open_tid(k)
    <2>1. jobOfCalls' = Calls!Job("open", k, Configs, {})
      BY <1>5 DEF open_tid, NoJob, jobOfCalls, Calls!Job
    <2> QED
      BY <1>2, <1>4, <1>5, <2>1 DEF open_tid, Idle, Held, Calls!open_tid, Calls!Idle, Calls!Held
  <1>6. ASSUME NEW k \in Tids, close_tid(k)
        PROVE  Calls!close_tid(k)
    <2>1. jobOfCalls' = Calls!Job("close", k, {}, groups[k])
      BY <1>6 DEF close_tid, NoJob, jobOfCalls, Calls!Job
    <2> QED
      BY <1>2, <1>4, <1>6, <2>1
         DEF close_tid, Idle, Held, Restrict,
             Calls!close_tid, Calls!Idle, Calls!Held, Calls!Restrict
  <1>7. ASSUME flush_all
        PROVE  Calls!flush_all
    <2>1. jobOfCalls' = Calls!Job("flush", NoTid, {}, HeldIds)
      BY <1>7 DEF flush_all, NoJob, jobOfCalls, Calls!Job
    <2>2. Calls!HeldIds = HeldIds
      BY DEF HeldIds, Held, Calls!HeldIds, Calls!Held
    <2> QED
      BY <1>2, <1>4, <1>7, <2>1, <2>2 DEF flush_all, Idle, Calls!flush_all, Calls!Idle
  <1>8. Calls!Call
    BY <1>3, <1>5, <1>6, <1>7 DEF Call, Calls!Call
  <1> QED
    BY <1>8 DEF Abstract, Calls!Next, Calls!kernelVars, kernelVars

\* The event that completes a group opens the group there; the events before it
\* do nothing there (perf_stat.rs:70-107).
LEMMA OpenEventAbstract ==
    ASSUME IInv, "eof" \notin Faults,
           NEW c \in Configs, NEW t \in Threads, OpenEvent(c, t), UNCHANGED kernelVars
    PROVE  Calls!OpenGroup(c) \/ UNCHANGED <<groups, perfOfCalls, readId, csvOfCalls, jobOfCalls>>
  <1> DEFINE new == [task |-> t, config |-> c, base |-> work[t]]
             events == Append(opening, new)
  <1>1. /\ job.op = "open" /\ c \in job.configs /\ t \in TaskAt(job.tid)
        /\ UNCHANGED <<groups, readId, csv>>
    BY DEF OpenEvent, Opening
  <1>2. new \in Opened /\ opening \in Seq(Opened)
    BY DEF Opened, IInv, Types, KernelTypeOK
  <1>3. /\ events \in Seq(Opened) /\ Len(events) \in Nat \ {0}
        /\ events[Len(events)] = new
    BY <1>2
  <1> HIDE DEF events
  <1>4. CASE Len(events) < Size[c]
    <2>1. UNCHANGED <<groups, perf, readId, csv, job>>
      BY <1>1, <1>4 DEF OpenEvent, events
    <2> QED
      BY <2>1 DEF perfOfCalls, csvOfCalls, jobOfCalls, LastOf, SizeOf
  <1>5. CASE ~(Len(events) < Size[c])
    <2> DEFINE base == [m \in DOMAIN events |-> events[m].base]
               group == [task |-> t, config |-> c, base |-> base]
               Bar(g) == [g EXCEPT !.base = Last(@)]
    <2>1. /\ perf' = Append(perf, group)
          /\ job' = [job EXCEPT !.configs = @ \ {c}, !.ids = @ \cup {Len(perf')}]
      BY <1>5 DEF OpenEvent, events
    <2>2. base \in Seq(Nat) /\ Last(base) = work[t]
      <3>1. \A m \in 1 .. Len(events) : events[m].base \in Nat
        <4>1. \A m \in 1 .. Len(events) : events[m] \in Opened
          BY <1>3
        <4> QED
          BY <4>1 DEF Opened
      <3>2. DOMAIN events = 1 .. Len(events)
        BY <1>3
      <3>3. base \in [1 .. Len(events) -> Nat]
        BY <3>1, <3>2
      <3>4. base \in Seq(Nat) /\ Len(base) = Len(events)
        BY <1>3, <3>3, IsSeq
      <3>5. base[Len(events)] = work[t]
        BY <1>3, <3>2
      <3> QED
        BY <3>4, <3>5 DEF Last
    <2>3. group \in Groups
      BY <2>2 DEF Groups
    <2> HIDE DEF base
    <2>4. Bar(group) = new
      BY <2>2
    <2> HIDE DEF group
    <2>5. /\ perf' \in Seq(Groups) /\ Len(perf') = Len(perf) + 1
          /\ perf'[Len(perf')] = group /\ \A i \in Ids : perf'[i] = perf[i]
          /\ Ids = 1 .. Len(perf) /\ DOMAIN perf' = 1 .. Len(perf) + 1
          /\ Len(perf) \in Nat
      BY <2>1, <2>3 DEF Ids, IInv, Types
    <2>6. perfOfCalls' = Append(perfOfCalls, new)
      <3>1. /\ perfOfCalls = [i \in 1 .. Len(perf) |-> Bar(perf[i])]
            /\ perfOfCalls' = [i \in 1 .. Len(perf) + 1 |-> Bar(perf'[i])]
        BY <2>5 DEF perfOfCalls, Ids
      <3>2. PICK S : new \in S /\ \A i \in 1 .. Len(perf) : Bar(perf[i]) \in S
        <4> DEFINE S == {Bar(perf[i]) : i \in 1 .. Len(perf)} \cup {new}
        <4>1. new \in S /\ \A i \in 1 .. Len(perf) : Bar(perf[i]) \in S
          OBVIOUS
        <4> QED
          BY <4>1
      <3> HIDE DEF Bar, new
      <3>3. perfOfCalls \in [1 .. Len(perf) -> S]
        BY <3>1, <3>2
      <3>4. perfOfCalls \in Seq(S) /\ Len(perfOfCalls) = Len(perf)
        BY <2>5, <3>3, IsSeq
      <3>5. Append(perfOfCalls, new) =
               [i \in 1 .. Len(perf) + 1 |->
                   IF i = Len(perf) + 1 THEN new ELSE perfOfCalls[i]]
        BY <3>2, <3>4, AppendIs
      <3>6. \A i \in 1 .. Len(perf) + 1 :
               Bar(perf'[i]) = IF i = Len(perf) + 1 THEN new ELSE perfOfCalls[i]
        <4>1. \A i \in 1 .. Len(perf) + 1 : i = Len(perf) + 1 \/ i \in 1 .. Len(perf)
          BY <2>5
        <4>2. \A i \in 1 .. Len(perf) : perfOfCalls[i] = Bar(perf'[i]) /\ i # Len(perf) + 1
          BY <2>5, <3>1
        <4> QED
          BY <2>4, <2>5, <4>1, <4>2
      <3> QED
        BY <3>1, <3>5, <3>6, ZenonT(40)
    <2>7. csvOfCalls' = csvOfCalls
      <3>1. \A r \in csv.desc \cup csv.event : SizeOf(r.id[1])' = SizeOf(r.id[1])
        BY <2>5 DEF SizeOf, IInv, Known
      <3>2. LastOf(csv.desc)' = LastOf(csv.desc) /\ LastOf(csv.event)' = LastOf(csv.event)
        BY <1>1, <3>1 DEF LastOf
      <3> QED
        BY <1>1, <3>2 DEF csvOfCalls
    <2>8. jobOfCalls' = [jobOfCalls EXCEPT !.configs = @ \ {c},
                                            !.ids = @ \cup {Len(perfOfCalls')}]
      <3>1. Len(perfOfCalls') = Len(perf')
        BY <2>5, IsSeq DEF perfOfCalls
      <3>2. /\ job'.op = job.op /\ job'.tid = job.tid
            /\ job'.configs = job.configs \ {c}
            /\ job'.ids = job.ids \cup {Len(perf')}
        BY <2>1 DEF IInv, Types
      <3>3. /\ jobOfCalls = [op |-> job.op, tid |-> job.tid, configs |-> job.configs,
                              ids |-> job.ids]
            /\ jobOfCalls' = [op |-> job.op, tid |-> job.tid,
                               configs |-> job.configs \ {c},
                               ids |-> job.ids \cup {Len(perfOfCalls')}]
        BY <3>1, <3>2 DEF jobOfCalls
      <3>4. jobOfCalls \in [op : {job.op}, tid : {job.tid}, configs : {job.configs},
                             ids : {job.ids}]
        BY <3>3
      <3> DEFINE Updated == [op : {job.op}, tid : {job.tid}, configs : {job.configs \ {c}},
                             ids : {job.ids \cup {Len(perfOfCalls')}}]
      <3>5. [jobOfCalls EXCEPT !.configs = @ \ {c}, !.ids = @ \cup {Len(perfOfCalls')}]
               \in Updated
        BY <3>4
      <3>6. jobOfCalls' \in Updated
        BY <3>3
      <3>7. \A r \in Updated :
               r = [op |-> job.op, tid |-> job.tid, configs |-> job.configs \ {c},
                    ids |-> job.ids \cup {Len(perfOfCalls')}]
        OBVIOUS
      <3> HIDE DEF Updated
      <3> QED
        BY <3>5, <3>6, <3>7
    <2> QED
      BY <1>1, <2>6, <2>7, <2>8 DEF jobOfCalls, TaskAt, Calls!OpenGroup, Calls!TaskAt
  <1> QED
    BY <1>4, <1>5

\* A group whose next event cannot be opened is one that failed to open there
\* (perf_stat.rs:86).
LEMMA OpenFailsAbstract ==
    ASSUME IInv, NEW c \in Configs, OpenFails(c)
    PROVE  Calls!OpenFails(c)
  <1>1. /\ job.op = "open" /\ c \in job.configs
        /\ UNCHANGED <<groups, perf, readId, csv>>
        /\ job' = [job EXCEPT !.configs = @ \ {c}]
    BY DEF OpenFails, Opening
  <1>2. perfOfCalls' = perfOfCalls /\ csvOfCalls' = csvOfCalls
    BY <1>1 DEF perfOfCalls, csvOfCalls, LastOf, SizeOf
  <1>3. /\ job'.op = job.op /\ job'.tid = job.tid /\ job'.ids = job.ids
        /\ job'.configs = job.configs \ {c}
    BY <1>1 DEF IInv, Types
  <1>4. jobOfCalls' = [jobOfCalls EXCEPT !.configs = @ \ {c}]
    BY <1>3 DEF jobOfCalls
  <1>5. jobOfCalls.op = "open" /\ c \in jobOfCalls.configs
    BY <1>1 DEF jobOfCalls
  <1> QED
    BY <1>1, <1>2, <1>4, <1>5 DEF Calls!OpenFails

\* The description of a group there is that of its last event
\* (state.rs:21-36).
LEMMA InsertAbstract ==
    ASSUME IInv, Insert
    PROVE  Calls!Insert
  <1> DEFINE events == Events(job.ids)
             Above(d) == [id |-> d.id[1], tid |-> d.tid]
  <1>1. PICK described \in SUBSET events :
           /\ described = events \/ "desc" \in Faults
           /\ csv' = [csv EXCEPT !.desc = @ \cup {[id |-> e, tid |-> job.tid] : e \in described}]
    BY DEF Insert
  <1> DEFINE rows == {[id |-> e, tid |-> job.tid] : e \in described}
             last == {i \in job.ids : <<i, SizeOf(i)>> \in described}
  <1>2. /\ job.op = "open" /\ job.configs = {} /\ job' = NoJob
        /\ groups' = [k \in Held \cup {job.tid} |->
                         IF k = job.tid THEN job.ids ELSE groups[k]]
        /\ UNCHANGED <<perf, readId>>
    BY DEF Insert
  <1>3. perfOfCalls' = perfOfCalls /\ jobOfCalls' = Calls!NoJob
    BY <1>2 DEF perfOfCalls, jobOfCalls, NoJob, Calls!NoJob
  <1>4. csv'.desc = csv.desc \cup rows /\ csv'.read = csv.read /\ csv'.event = csv.event
    BY <1>1 DEF IInv, Types
  <1>5. \A e \in events : e[1] \in job.ids /\ e = <<e[1], e[2]>>
    BY DEF Events
  <1>6. {Above(d) : d \in LastOf(rows)} = {[id |-> i, tid |-> job.tid] : i \in last}
    <2>1. ASSUME NEW i \in last
          PROVE  [id |-> i, tid |-> job.tid] \in {Above(d) : d \in LastOf(rows)}
      <3> DEFINE d == [id |-> <<i, SizeOf(i)>>, tid |-> job.tid]
      <3>1. d \in rows /\ d.id[1] = i /\ d.id[2] = SizeOf(i) /\ d.tid = job.tid
        OBVIOUS
      <3>2. d \in LastOf(rows)
        BY <3>1 DEF LastOf
      <3>3. Above(d) = [id |-> i, tid |-> job.tid]
        BY <3>1
      <3> HIDE DEF d, Above
      <3> QED
        BY <3>2, <3>3
    <2>2. ASSUME NEW d \in LastOf(rows)
          PROVE  Above(d) \in {[id |-> i, tid |-> job.tid] : i \in last}
      <3>1. PICK e \in described : d = [id |-> e, tid |-> job.tid]
        BY DEF LastOf
      <3>2. e[2] = SizeOf(e[1]) /\ e[1] \in job.ids /\ e = <<e[1], e[2]>>
        BY <1>5, <3>1 DEF LastOf
      <3>3. e[1] \in last
        BY <3>1, <3>2
      <3>4. Above(d) = [id |-> e[1], tid |-> job.tid]
        BY <3>1
      <3> QED
        BY <3>3, <3>4
    <2> QED
      BY <2>1, <2>2
  <1>7. /\ LastOf(csv.desc)' = LastOf(csv.desc) \cup LastOf(rows)
        /\ LastOf(csv.event)' = LastOf(csv.event)
    <2>1. perf' = perf
      BY <1>2
    <2> HIDE DEF rows
    <2> QED
      BY <1>4, <2>1 DEF LastOf, SizeOf
  <1> DEFINE desc == {Above(d) : d \in LastOf(csv.desc)}
             added == {[id |-> i, tid |-> job.tid] : i \in last}
             event == {[read_id |-> e.read_id, id |-> e.id[1], count |-> e.count] :
                          e \in LastOf(csv.event)}
  <1>8. csvOfCalls = [desc |-> desc, read |-> csv.read, event |-> event]
    BY DEF csvOfCalls
  <1>9. csvOfCalls' = [desc |-> desc \cup added, read |-> csv.read, event |-> event]
    <2>1. {Above(d) : d \in LastOf(csv.desc)'} = desc \cup added
      <3> HIDE DEF rows, last, Above
      <3> QED
        BY <1>6, <1>7
    <2>2. csvOfCalls' = [desc |-> {Above(d) : d \in LastOf(csv.desc)'}, read |-> csv.read,
                         event |-> event]
      BY <1>4, <1>7 DEF csvOfCalls
    <2> QED
      BY <2>1, <2>2
  <1>10. csvOfCalls' = [csvOfCalls EXCEPT !.desc = @ \cup added]
    <2> HIDE DEF desc, added, event
    <2>1. csvOfCalls.desc = desc
      BY <1>8
    <2> DEFINE Updated == [desc : {desc \cup added}, read : {csv.read}, event : {event}]
    <2>2. csvOfCalls \in [desc : {desc}, read : {csv.read}, event : {event}]
      BY <1>8
    <2>3. [csvOfCalls EXCEPT !.desc = desc \cup added] \in Updated
      BY <2>2
    <2>4. csvOfCalls' \in Updated
      BY <1>9
    <2>5. \A r \in Updated :
             r = [desc |-> desc \cup added, read |-> csv.read, event |-> event]
      OBVIOUS
    <2> HIDE DEF Updated
    <2> QED
      BY <2>1, <2>3, <2>4, <2>5
  <1>11. last \in SUBSET job.ids
         /\ (last = job.ids \/ "desc" \in (Faults \cup {"open"}) \ {"eof"})
    <2>1. CASE described = events
      <3>1. \A i \in job.ids : SizeOf(i) \in Nat \ {0}
        BY GroupFacts DEF IInv, Types
      <3>2. \A i \in job.ids : <<i, SizeOf(i)>> \in events
        BY <3>1 DEF Events
      <3> QED
        BY <2>1, <3>2
    <2>2. CASE "desc" \in Faults
      BY <2>2
    <2> QED
      BY <1>1, <2>1, <2>2
  <1>12. jobOfCalls.op = "open" /\ jobOfCalls.configs = {} /\ jobOfCalls.ids = job.ids
         /\ jobOfCalls.tid = job.tid
    BY <1>2 DEF jobOfCalls
  <1>13. /\ csvOfCalls' = [csvOfCalls EXCEPT !.desc = @ \cup
                              {[id |-> i, tid |-> jobOfCalls.tid] : i \in last}]
         /\ last \in SUBSET jobOfCalls.ids
         /\ last = jobOfCalls.ids \/ "desc" \in (Faults \cup {"open"}) \ {"eof"}
    BY <1>10, <1>11, <1>12
  <1>14. groups' = [k \in Held \cup {jobOfCalls.tid} |->
                       IF k = jobOfCalls.tid THEN jobOfCalls.ids ELSE groups[k]]
    BY <1>2, <1>12
  <1> HIDE DEF last
  <1> QED
    BY <1>2, <1>3, <1>12, <1>13, <1>14 DEF Held, Calls!Insert, Calls!Held


\* A read of a group is a read there, of the count of its last event: the number
\* is used up in both, whatever is written (state.rs:61-76).
LEMMA FlushGroupAbstract ==
    ASSUME IInv, "eof" \notin Faults, NEW i \in Ids, FlushGroup(i), UNCHANGED kernelVars
    PROVE  Calls!FlushGroup(i)
  <1>1. PICK outcome \in read_group(i) : WriteRows(outcome)
    BY DEF FlushGroup
  <1> DEFINE rows == IF outcome.ok
                     THEN {[read_id |-> readId, id |-> e.id, count |-> e.count] :
                              e \in Range(outcome.reader.entries)}
                     ELSE {}
             reads == IF outcome.ok THEN {readId} ELSE {}
  <1>2. PICK read \in SUBSET reads, event \in SUBSET rows :
           /\ (read = reads /\ event = rows) \/ "csv" \in Faults
           /\ csv' = [csv EXCEPT !.read = @ \cup read, !.event = @ \cup event]
    BY <1>1 DEF WriteRows
  <1>3. /\ job.op \in {"close", "flush"} /\ i \in job.ids
        /\ job' = [job EXCEPT !.ids = @ \ {i}]
        /\ readId' = readId + 1 /\ UNCHANGED <<groups, perf>>
    BY DEF FlushGroup
  <1> DEFINE n == SizeOf(i)
             lastRow == [read_id |-> readId, id |-> <<i, n>>, count |-> Entry(i, n).count]
             row == [read_id |-> readId, count |-> Calls!Count(i), id |-> i]
             Above(e) == [read_id |-> e.read_id, id |-> e.id[1], count |-> e.count]
  <1>4. /\ perf[i].base \in Seq(Nat) /\ Len(perf[i].base) = n
        /\ n \in Nat \ {0} /\ i \in Nat
    BY GroupFacts DEF IInv
  <1>5. Above(lastRow) = row
    <2>1. /\ perfOfCalls[i].task = perf[i].task
          /\ perfOfCalls[i].base = perf[i].base[n]
      <3>1. perfOfCalls[i] = [perf[i] EXCEPT !.base = Last(@)]
        BY DEF perfOfCalls, Ids
      <3>2. perf[i] \in Groups
        BY GroupFacts DEF IInv
      <3>3. Last(perf[i].base) = perf[i].base[n]
        BY <1>4 DEF Last
      <3> QED
        BY <3>1, <3>2, <3>3 DEF Groups
    <2>2. Calls!Count(i) = Entry(i, n).count
      BY <2>1 DEF Calls!Count, Entry
    <2> QED
      BY <2>2
  <1>6. ASSUME NEW r \in rows, r.id[2] = SizeOf(r.id[1])
        PROVE  r = lastRow
    <2>1. outcome.ok
      BY <1>6
    <2>2. outcome.reader.entries = [m \in 1 .. n |-> Entry(i, m)]
      BY <2>1, Outcomes
    <2>3. PICK e \in Range(outcome.reader.entries) :
             r = [read_id |-> readId, id |-> e.id, count |-> e.count]
      BY <2>1, <1>6
    <2>4. PICK m \in 1 .. n : e = Entry(i, m)
      BY <2>2, <2>3 DEF Range
    <2>5. r.id = <<i, m>>
      BY <2>3, <2>4 DEF Entry
    <2>6. m = n
      BY <1>6, <2>5
    <2> QED
      BY <2>3, <2>4, <2>6 DEF Entry
  <1>7. outcome.ok => lastRow \in rows /\ reads = {readId}
    <2> SUFFICES ASSUME outcome.ok PROVE lastRow \in rows
      OBVIOUS
    <2>1. outcome.reader.entries = [m \in 1 .. n |-> Entry(i, m)]
      BY Outcomes
    <2>2. Entry(i, n) \in Range(outcome.reader.entries)
      BY <1>4, <2>1 DEF Range
    <2>3. Entry(i, n).id = <<i, n>>
      BY DEF Entry
    <2> QED
      BY <2>2, <2>3
  <1>8. ~outcome.ok => rows = {} /\ reads = {} /\ "read" \in Faults
    BY Outcomes
  <1>9. lastRow.id[2] = SizeOf(lastRow.id[1])
    OBVIOUS
  <1> HIDE DEF rows, reads, lastRow, Above, row
  <1> DEFINE above == {Above(e) : e \in LastOf(event)}
  <1>10. above = IF lastRow \in event THEN {row} ELSE {}
    <2>1. \A r \in LastOf(event) : r = lastRow
      BY <1>6 DEF LastOf
    <2>2. lastRow \in event => lastRow \in LastOf(event)
      BY <1>9 DEF LastOf
    <2> QED
      BY <1>5, <2>1, <2>2 DEF LastOf
  <1>11. /\ read \in SUBSET {readId} /\ above \in SUBSET {row}
         /\ \/ read # {} /\ above # {}
            \/ "read" \in (Faults \cup {"open"}) \ {"eof"} /\ read = {} /\ above = {}
            \/ "csv" \in (Faults \cup {"open"}) \ {"eof"}
    <2>1. CASE outcome.ok
      BY <1>2, <1>7, <1>10, <2>1
    <2>2. CASE ~outcome.ok
      <3>1. read = {} /\ event = {} /\ "read" \in Faults
        BY <1>2, <1>8, <2>2
      <3> QED
        BY <1>10, <3>1
    <2> QED
      BY <2>1, <2>2
  <1>12. csvOfCalls' = [csvOfCalls EXCEPT !.read = @ \cup read, !.event = @ \cup above]
    <2>1. /\ csv'.desc = csv.desc /\ csv'.read = csv.read \cup read
          /\ csv'.event = csv.event \cup event
      BY <1>2 DEF IInv, Types
    <2>2. /\ LastOf(csv.desc)' = LastOf(csv.desc)
          /\ LastOf(csv.event)' = LastOf(csv.event) \cup LastOf(event)
      BY <1>3, <2>1 DEF LastOf, SizeOf
    <2> DEFINE desc == {[id |-> d.id[1], tid |-> d.tid] : d \in LastOf(csv.desc)}
               old == {Above(e) : e \in LastOf(csv.event)}
    <2>3. csvOfCalls = [desc |-> desc, read |-> csv.read, event |-> old]
      BY DEF csvOfCalls, Above
    <2>4. csvOfCalls' = [desc |-> desc, read |-> csv.read \cup read,
                         event |-> {Above(e) : e \in LastOf(csv.event)'}]
      BY <2>1, <2>2 DEF csvOfCalls, Above
    <2>5. {Above(e) : e \in LastOf(csv.event)'} = old \cup above
      BY <2>2
    <2> HIDE DEF desc, old, above
    <2> DEFINE Updated == [desc : {desc}, read : {csv.read \cup read}, event : {old \cup above}]
    <2>6. csvOfCalls \in [desc : {desc}, read : {csv.read}, event : {old}]
      BY <2>3
    <2>7. [csvOfCalls EXCEPT !.read = @ \cup read, !.event = @ \cup above] \in Updated
      BY <2>6
    <2>8. csvOfCalls' \in Updated
      BY <2>4, <2>5
    <2>9. \A r \in Updated :
             r = [desc |-> desc, read |-> csv.read \cup read, event |-> old \cup above]
      OBVIOUS
    <2> HIDE DEF Updated
    <2> QED
      BY <2>7, <2>8, <2>9
  <1>13. /\ jobOfCalls' = [jobOfCalls EXCEPT !.ids = @ \ {i}]
         /\ jobOfCalls.op \in {"close", "flush"} /\ i \in jobOfCalls.ids
    <2>1. /\ job'.op = job.op /\ job'.tid = job.tid /\ job'.ids = job.ids \ {i}
          /\ job'.configs = job.configs
      BY <1>3 DEF IInv, Types
    <2> QED
      BY <1>3, <2>1, SMTT(30) DEF jobOfCalls
  <1>14. perfOfCalls' = perfOfCalls
    BY <1>3 DEF perfOfCalls
  <1> HIDE DEF above
  <1> QED
    BY <1>3, <1>11, <1>12, <1>13, <1>14 DEF row, Calls!FlushGroup

\* The end of a call is its end there.
LEMMA EndAbstract == EndJob => Calls!EndJob
  <1> SUFFICES ASSUME EndJob PROVE Calls!EndJob
    OBVIOUS
  <1>1. perfOfCalls' = perfOfCalls /\ csvOfCalls' = csvOfCalls
    BY DEF EndJob, perfOfCalls, csvOfCalls, LastOf, SizeOf
  <1>2. jobOfCalls' = Calls!NoJob /\ jobOfCalls.op = job.op /\ jobOfCalls.ids = job.ids
    BY DEF EndJob, jobOfCalls, NoJob, Calls!NoJob
  <1> QED
    BY <1>1, <1>2 DEF EndJob, Calls!EndJob

\* A step of a thread is the same step there.
LEMMA TaskAbstract == Task /\ UNCHANGED perfVars => Abstract
  <1> SUFFICES ASSUME Task, UNCHANGED perfVars PROVE Abstract
    OBVIOUS
  <1>1. Calls!Task
    <2>1. PICK t \in Threads :
             \/ \E k \in Tids : Clone(t, k)
             \/ Execute(t)
             \/ t \in live /\ Reap({t})
      BY DEF Task
    <2>2. CASE \E k \in Tids : Clone(t, k)
      BY <2>2 DEF Clone, TaskAt, Calls!Task, Calls!Clone, Calls!TaskAt
    <2>3. CASE Execute(t)
      BY <2>3 DEF Execute, Calls!Task, Calls!Execute
    <2>4. CASE t \in live /\ Reap({t})
      BY <2>4, {t} \in SUBSET live DEF Reap, Calls!Task, Calls!Reap
    <2> QED
      BY <2>1, <2>2, <2>3, <2>4
  <1>2. UNCHANGED Calls!stateVars
    BY DEF perfVars, perfOfCalls, csvOfCalls, jobOfCalls, LastOf, SizeOf, Calls!stateVars
  <1> QED
    BY <1>1, <1>2 DEF Abstract, Calls!Next

\* Every step is a step there, or none.
LEMMA NextAbstract ==
    ASSUME IInv, "eof" \notin Faults, [Next]_vars
    PROVE  Abstract
  <1>1. CASE UNCHANGED vars
    BY <1>1 DEF vars, perfVars, kernelVars, perfOfCalls, csvOfCalls, jobOfCalls, LastOf, SizeOf,
                Abstract, Calls!vars, Calls!kernelVars, Calls!stateVars
  <1>2. CASE JobStep /\ UNCHANGED kernelVars
    <2>1. Calls!JobStep \/ UNCHANGED <<groups, perfOfCalls, readId, csvOfCalls, jobOfCalls>>
      <3>1. ASSUME NEW c \in Configs, NEW t \in Threads, OpenEvent(c, t) PROVE <2>1
        BY <1>2, <3>1, OpenEventAbstract DEF Calls!JobStep
      <3>2. ASSUME NEW c \in Configs, OpenFails(c) PROVE <2>1
        BY <3>2, OpenFailsAbstract DEF Calls!JobStep
      <3>3. ASSUME NEW i \in 1 .. Len(perf), FlushGroup(i) PROVE <2>1
        <4>1. i \in Ids /\ i \in 1 .. Len(perfOfCalls)
          BY <3>3, IsSeq DEF Ids, IInv, Types, perfOfCalls
        <4> QED
          BY <1>2, <3>3, <4>1, FlushGroupAbstract DEF Calls!JobStep, Calls!Ids
      <3> QED
        BY <1>2, <3>1, <3>2, <3>3, InsertAbstract, EndAbstract DEF JobStep, Calls!JobStep
    <2> QED
      BY <1>2, <2>1
         DEF Abstract, Calls!Next, Calls!vars, Calls!kernelVars, Calls!stateVars, kernelVars
  <1> QED
    BY <1>1, <1>2, CallAbstract, TaskAbstract DEF Next

\* What the detailed calls write is what the simple ones may write: opening
\* event by event, closing the events of a group that cannot be completed, and
\* reading groups of different sizes through one buffer is the open_tid,
\* close_tid and flush_all of StateCalls, for any groups and faults, as long as
\* a read is not ended early (perf_stat.rs:70-107, group_reader.rs:79-95).
THEOREM Refines == ASSUME "eof" \notin Faults PROVE Spec => RefinesCalls
  <1>1. IInv /\ [Next]_vars => [Calls!Next]_Calls!vars
    BY NextAbstract DEF Abstract
  <1> QED
    BY <1>1, InitIInv, NextIInv, InitAbstract, PTL DEF Spec, RefinesCalls, Calls!Spec

-----------------------------------------------------------------------------
(* What is proved of StateCalls holds of the detailed calls, for what they *)
(* show of a group: its last event.                                        *)

Proved == INSTANCE StateCallsProofs WITH
    Faults <- (Faults \cup {"open"}) \ {"eof"},
    perf <- perfOfCalls, csv <- csvOfCalls, job <- jobOfCalls

LEMMA ProvedAssumed ==
    /\ (Faults \cup {"open"}) \ {"eof"} \subseteq Proved!FaultKinds
    /\ NoTid \notin Tids /\ MaxWork \in Nat
  BY KernelAssumption, PerfAssumption DEF FaultKinds, Proved!FaultKinds

\* It is the StateCalls of RefinesCalls.
LEMMA ProvedIsCalls == Calls!Spec => Proved!Spec
  <1>1. Calls!Init => Proved!Init
    BY DEF Calls!Init, Calls!KernelInit, Calls!StateInit, Calls!NoJob,
           Proved!Init, Proved!KernelInit, Proved!StateInit, Proved!NoJob
  <1>2. Calls!vars = Proved!vars /\ Calls!vars' = Proved!vars'
        /\ (UNCHANGED Calls!kernelVars <=> UNCHANGED Proved!kernelVars)
        /\ (UNCHANGED Calls!stateVars <=> UNCHANGED Proved!stateVars)
    BY DEF Calls!vars, Calls!kernelVars, Calls!stateVars,
           Proved!vars, Proved!kernelVars, Proved!stateVars
  <1>3. Calls!Call => Proved!Call
    BY DEF Calls!Call, Calls!open_tid, Calls!close_tid, Calls!flush_all, Calls!Idle,
           Calls!Held, Calls!HeldIds, Calls!Job, Calls!NoJob, Calls!Restrict,
           Proved!Call, Proved!open_tid, Proved!close_tid, Proved!flush_all,
           Proved!Idle, Proved!Held, Proved!HeldIds, Proved!Job, Proved!NoJob,
           Proved!Restrict
  <1>4. Calls!JobStep => Proved!JobStep
    BY DEF Calls!JobStep, Calls!OpenGroup, Calls!OpenFails, Calls!Insert,
           Calls!FlushGroup, Calls!EndJob, Calls!Count, Calls!Ids, Calls!TaskAt,
           Calls!Held, Calls!NoJob,
           Proved!JobStep, Proved!OpenGroup, Proved!OpenFails, Proved!Insert,
           Proved!FlushGroup, Proved!EndJob, Proved!Count, Proved!Ids, Proved!TaskAt,
           Proved!Held, Proved!NoJob
  <1>5. Calls!Task => Proved!Task
    BY DEF Calls!Task, Calls!Clone, Calls!Execute, Calls!Reap, Calls!TaskAt,
           Proved!Task, Proved!Clone, Proved!Execute, Proved!Reap, Proved!TaskAt
  <1>6. [Calls!Next]_Calls!vars => [Proved!Next]_Proved!vars
    BY <1>2, <1>3, <1>4, <1>5 DEF Calls!Next, Proved!Next
  <1> QED
    BY <1>1, <1>6, PTL DEF Calls!Spec, Proved!Spec

\* No thread has two complete groups of one configuration open, also when groups
\* are opened event by event and given up half open (state.rs:18, perf_stat.rs:70-107).
THEOREM DetailedCountedOnce == ASSUME "eof" \notin Faults PROVE Spec => []Proved!OneCounterPerThread
  BY Refines, ProvedIsCalls, ProvedAssumed, Proved!CountedOnce, PTL DEF RefinesCalls

\* A read number is used once and orders the counts of an event, although all
\* reads go through one buffer (state.rs:54-56, group_reader.rs:79-95).
THEOREM DetailedReadIdsOrdered == ASSUME "eof" \notin Faults PROVE Spec => []Proved!ReadIdsOrderCounts
  BY Refines, ProvedIsCalls, ProvedAssumed, Proved!ReadIdsOrdered, PTL DEF RefinesCalls

\* The tid a group is described with is that of the thread it is attached to, also
\* when the tid changes hands between two of its events (perf_stat.rs:70-107).
THEOREM DetailedTidsDescribed == ASSUME "eof" \notin Faults PROVE Spec => []Proved!DescribedTid
  BY Refines, ProvedIsCalls, ProvedAssumed, Proved!TidsDescribed, PTL DEF RefinesCalls

\* No complete group is dropped without its last read (state.rs:82-92).
THEOREM DetailedReadBeforeClose == ASSUME "eof" \notin Faults PROVE Spec => Proved!ReadBeforeClose
  BY Refines, ProvedIsCalls, ProvedAssumed, Proved!AlwaysReadBeforeClose, PTL DEF RefinesCalls
=============================================================================
