----------------------------- MODULE PerfCalls ------------------------------
(***************************************************************************)
(* The calls of StateCalls in detail: PerfStatGroup::new opens the events  *)
(* of a group one at a time, each a descriptor attached to whatever thread *)
(* has the tid by then, and PerfGroupReader reads all of them into one     *)
(* buffer that it keeps from group to group.  An event's id is the pair of *)
(* its group and its place there.                                          *)
(*                                                                         *)
(* RefinesCalls: this is the State of StateCalls, where a group is opened  *)
(* in one step and described and read as one thing.                        *)
(***************************************************************************)
EXTENDS Kernel, SequencesExt

CONSTANTS
    Configs,     \* event_configs: the groups of the command line
    Size,        \* Size[c]: how many events c has
    Faults,      \* subset of FaultKinds
    FdLimit,     \* bound: descriptors the process may have open for events
    MaxIds,      \* bound: groups opened by open_tid calls
    MaxReadId    \* bound: reads after which flush_all is not called again

\* "eof": the kernel ends a read of a group in error state with no bytes.
FaultKinds == {"open", "desc", "read", "csv", "eof"}

ASSUME PerfAssumption ==
    /\ Size \in [Configs -> Nat \ {0}]
    /\ Faults \subseteq FaultKinds
    /\ {FdLimit, MaxIds, MaxReadId} \subseteq Nat

VARIABLES
    groups,    \* groups[k]: the groups opened for tid k
    perf,      \* every group opened so far; base: what each event started at
    readId,    \* read_id
    csv,       \* the rows of the three files, now one per event
    job,       \* the call in progress; taken: the groups of a closed entry
    opening,   \* the events that PerfStatGroup::new has opened so far
    fds,       \* open descriptors of events
    reader     \* the PerfGroupReader: its memory, and what the last read left

perfVars == <<groups, perf, readId, csv, job, opening, fds, reader>>
vars == <<kernelVars, perfVars>>

NoJob == [op |-> "idle", tid |-> NoTid, configs |-> {}, ids |-> {}, taken |-> {}]
Idle == job.op = "idle"
Held == DOMAIN groups
HeldIds == UNION {groups[k] : k \in Held}
SizeOf(i) == Size[perf[i].config]
Events(ids) == UNION {{i} \X (1 .. SizeOf(i)) : i \in ids}

NoEvent == [id |-> <<0, 0>>, count |-> 0]

Init ==
    /\ KernelInit
    /\ groups = [k \in {} |-> {}]
    /\ perf = <<>>
    /\ readId = 0
    /\ csv = [desc |-> {}, read |-> {}, event |-> {}]
    /\ job = NoJob
    /\ opening = <<>>
    /\ fds = 0
    /\ reader = [alloc |-> 0, layout |-> 0, slice |-> 0,
                 nr |-> 0, elems |-> 0, entries |-> <<>>]

-----------------------------------------------------------------------------
(* open_tid                                                                *)

open_tid(k) ==
    /\ Idle
    /\ k \notin Held
    /\ job' = [NoJob EXCEPT !.op = "open", !.tid = k, !.configs = Configs]
    /\ UNCHANGED <<groups, perf, readId, csv, opening, fds, reader>>

\* Config c is the one being opened, or may be the next.
Opening(c) ==
    /\ job.op = "open" /\ c \in job.configs
    /\ opening # <<>> => opening[1].config = c

\* perf_event_open of the next event of c.  The kernel takes it into the
\* leader's group only on the leader's thread (EINVAL otherwise).
OpenEvent(c, t) ==
    /\ Opening(c)
    /\ t \in TaskAt(job.tid) /\ fds < FdLimit
    /\ opening # <<>> => opening[1].task = t
    /\ fds' = fds + 1
    /\ LET events == Append(opening, [task |-> t, config |-> c, base |-> work[t]]) IN
        IF Len(events) < Size[c]
        THEN opening' = events /\ UNCHANGED <<perf, job>>
        ELSE /\ perf' = Append(perf, [task |-> t, config |-> c,
                                      base |-> [n \in DOMAIN events |-> events[n].base]])
             /\ job' = [job EXCEPT !.configs = @ \ {c}, !.ids = @ \cup {Len(perf')}]
             /\ opening' = <<>>
    /\ UNCHANGED <<groups, readId, csv, reader>>

\* The next event of c cannot be opened.
NoOpen(c) ==
    \/ TaskAt(job.tid) = {} \/ fds = FdLimit \/ "open" \in Faults
    \/ opening # <<>> /\ opening[1].task \notin TaskAt(job.tid)

\* Faulty variant: the events opened before are kept.
OpenFails_KeepsPart(c) ==
    /\ Opening(c) /\ NoOpen(c)
    /\ IF opening = <<>> THEN job' = [job EXCEPT !.configs = @ \ {c}] /\ UNCHANGED perf
       ELSE /\ perf' = Append(perf, [task |-> opening[1].task, config |-> c,
                                     base |-> [n \in DOMAIN opening |-> opening[n].base]])
            /\ job' = [job EXCEPT !.configs = @ \ {c}, !.ids = @ \cup {Len(perf')}]
    /\ opening' = <<>>
    /\ UNCHANGED <<groups, readId, csv, reader, fds>>

\* Faulty variant: the events opened before are forgotten, not closed.
OpenFails_Leaks(c) ==
    /\ Opening(c) /\ NoOpen(c)
    /\ opening' = <<>>
    /\ job' = [job EXCEPT !.configs = @ \ {c}]
    /\ UNCHANGED <<groups, perf, readId, csv, reader, fds>>

\* The collect into a Result stops at the first error: the events opened
\* before are dropped, which closes them, and the group is left out.
OpenFails(c) ==
    /\ Opening(c) /\ NoOpen(c)
    /\ fds' = fds - Len(opening)
    /\ opening' = <<>>
    /\ job' = [job EXCEPT !.configs = @ \ {c}]
    /\ UNCHANGED <<groups, perf, readId, csv, reader>>

\* Faulty variant: only the leader is described.
Insert_LeaderOnly ==
    /\ job.op = "open" /\ job.configs = {}
    /\ csv' = [csv EXCEPT !.desc = @ \cup
                  {[id |-> <<i, 1>>, tid |-> job.tid] : i \in job.ids}]
    /\ groups' = [k \in Held \cup {job.tid} |->
                     IF k = job.tid THEN job.ids ELSE groups[k]]
    /\ job' = NoJob
    /\ UNCHANGED <<perf, readId, opening, fds, reader>>

\* name_and_ids: each event's id is asked for and its description written.
Insert ==
    /\ job.op = "open" /\ job.configs = {}
    /\ \E described \in SUBSET Events(job.ids) :
          /\ described = Events(job.ids) \/ "desc" \in Faults
          /\ csv' = [csv EXCEPT !.desc = @ \cup
                        {[id |-> e, tid |-> job.tid] : e \in described}]
    /\ groups' = [k \in Held \cup {job.tid} |->
                     IF k = job.tid THEN job.ids ELSE groups[k]]
    /\ job' = NoJob
    /\ UNCHANGED <<perf, readId, opening, fds, reader>>

-----------------------------------------------------------------------------
(* close_tid, flush_all and the reads                                      *)

close_tid(k) ==
    /\ Idle
    /\ k \in Held
    /\ job' = [NoJob EXCEPT !.op = "close", !.tid = k,
                            !.ids = groups[k], !.taken = groups[k]]
    /\ groups' = Restrict(groups, Held \ {k})
    /\ UNCHANGED <<perf, readId, csv, opening, fds, reader>>

flush_all ==
    /\ Idle
    /\ job' = [NoJob EXCEPT !.op = "flush", !.ids = HeldIds]
    /\ UNCHANGED <<groups, perf, readId, csv, opening, fds, reader>>

\* In bytes: a PerfGroupReadHeader and count PerfGroupReadEntry.
necessary_buffer_size(count) == 24 + 16 * count

\* Faulty variant: once allocated the buffer is not grown.
ensure_sized_Once(count) ==
    LET min_size == necessary_buffer_size(count) IN
    IF reader.alloc = 0
    THEN [reader EXCEPT !.alloc = min_size, !.layout = min_size, !.slice = min_size]
    ELSE [reader EXCEPT !.slice = min_size]

\* Faulty variant: the whole buffer is given out.
ensure_sized_Whole(count) ==
    LET min_size == necessary_buffer_size(count) IN
    IF min_size > reader.layout
    THEN [reader EXCEPT !.alloc = min_size, !.layout = min_size, !.slice = min_size]
    ELSE [reader EXCEPT !.slice = reader.layout]

\* Memory for count events; never less than before.  The caller gets a slice
\* of what one group needs.
ensure_sized(count) ==
    LET min_size == necessary_buffer_size(count) IN
    IF min_size > reader.layout
    THEN [reader EXCEPT !.alloc = min_size, !.layout = min_size, !.slice = min_size]
    ELSE [reader EXCEPT !.slice = min_size]

\* What read(2) gives for group i, and ref_from_bytes_with_elems accepts.
Entry(i, n) == [id |-> <<i, n>>, count |-> work[perf[i].task] - perf[i].base[n]]
Delivered(r, i) ==
    [r EXCEPT !.nr = SizeOf(i), !.elems = SizeOf(i),
              !.entries = [n \in 1 .. SizeOf(i) |-> Entry(i, n)]]

\* No bytes: in a release build the caller goes on with what was there before.
Stale(r, i) ==
    [r EXCEPT !.elems = SizeOf(i),
              !.entries = [n \in 1 .. SizeOf(i) |->
                              IF n <= Len(@) THEN @[n] ELSE NoEvent]]

\* The outcomes of read_group.  It fails when the kernel has more to give than
\* the slice can take, or when the slice is larger than the entries it holds.
read_group(i) ==
    LET r == ensure_sized(SizeOf(i))
        exact == r.slice = necessary_buffer_size(SizeOf(i))
    IN  (IF exact THEN {[ok |-> TRUE, reader |-> Delivered(r, i)]}
                  ELSE {[ok |-> FALSE, reader |-> r]})
        \cup (IF "read" \in Faults THEN {[ok |-> FALSE, reader |-> r]} ELSE {})
        \cup (IF "eof" \in Faults /\ exact THEN {[ok |-> TRUE, reader |-> Stale(r, i)]} ELSE {})

\* The rows of a read: all of them, or some, when writing fails.
WriteRows(outcome) ==
    LET rows == IF outcome.ok
                THEN {[read_id |-> readId, id |-> e.id, count |-> e.count] :
                         e \in Range(outcome.reader.entries)}
                ELSE {}
        reads == IF outcome.ok THEN {readId} ELSE {}
    IN  \E read \in SUBSET reads, event \in SUBSET rows :
            /\ (read = reads /\ event = rows) \/ "csv" \in Faults
            /\ csv' = [csv EXCEPT !.read = @ \cup read, !.event = @ \cup event]

FlushGroup(i) ==
    /\ job.op \in {"close", "flush"} /\ i \in job.ids
    /\ \E outcome \in read_group(i) :
          /\ reader' = outcome.reader
          /\ WriteRows(outcome)
    /\ readId' = readId + 1
    /\ job' = [job EXCEPT !.ids = @ \ {i}]
    /\ UNCHANGED <<groups, perf, opening, fds>>

\* The call returns; the groups taken out of the table are dropped with all
\* their descriptors.
EndJob ==
    /\ job.op \in {"close", "flush"} /\ job.ids = {}
    /\ fds' = fds - Cardinality(Events(job.taken))
    /\ job' = NoJob
    /\ UNCHANGED <<groups, perf, readId, csv, opening, reader>>

-----------------------------------------------------------------------------
Call ==
    \/ \E k \in Tids : \/ Len(perf) < MaxIds /\ open_tid(k)
                       \/ close_tid(k)
    \/ readId < MaxReadId /\ flush_all

JobStep ==
    \/ \E c \in Configs : \/ \E t \in Threads : OpenEvent(c, t)
                          \/ OpenFails(c)
    \/ Insert
    \/ \E i \in 1 .. Len(perf) : FlushGroup(i)
    \/ EndJob

Task ==
    \E t \in Threads :
        \/ \E k \in Tids : Clone(t, k)
        \/ Execute(t)
        \/ t \in live /\ Reap({t})

Next ==
    \/ (Call \/ JobStep) /\ UNCHANGED kernelVars
    \/ Task /\ UNCHANGED perfVars

Spec == Init /\ [][Next]_vars

-----------------------------------------------------------------------------
\* Every open descriptor belongs to a group that is held, being opened or
\* being closed, whatever failed on the way: perf_stat.rs:86-106 closes the
\* first events of a group when a later one fails, close_tid all of them.
NoDescriptorLeak ==
    fds = Cardinality(Events(HeldIds)) + Cardinality(Events(job.taken)) + Len(opening)
          + IF job.op = "open" THEN Cardinality(Events(job.ids)) ELSE 0

\* The slice lies in the allocation and the allocation has the layout that
\* realloc and dealloc are told (group_reader.rs:46-68, unsafe).
ReaderMemory ==
    reader.slice <= reader.alloc /\ reader.layout = reader.alloc

\* Groups of different sizes share the buffer and none loses a row by it: a
\* read has the rows of all events of one group (state.rs:61-76).
WholeReads ==
    Faults \cap {"read", "csv", "eof"} = {} =>
        \A r \in 0 .. readId - 1 : \E i \in DOMAIN perf :
            {e.id : e \in {x \in csv.event : x.read_id = r}} = {i} \X (1 .. SizeOf(i))

\* Every event row joins, not only the leader's: its read and its description
\* are there, whatever else failed, as long as the files can be written and no
\* read ends early (state.rs:35-43, 61-76).
EventsJoin ==
    \A r \in csv.event :
        /\ "csv" \notin Faults => r.read_id \in csv.read
        /\ Faults \cap {"desc", "eof"} = {} => \E d \in csv.desc : d.id = r.id

\* debug_assert_eq!(header.nr, len as u64) (perf_stat.rs:155): what read
\* returns is the group it was asked for, once the buffer has held a group.
HeaderOfGroup == reader.nr > 0 => reader.nr = reader.elems

-----------------------------------------------------------------------------
(* The State of StateCalls.  The last event of a group stands for it there: *)
(* it is the one whose opening completes the group.  A group whose thread   *)
(* or whose descriptors run out half-way is one that failed to open.        *)

LastOf(rows) == {r \in rows : r.id[2] = SizeOf(r.id[1])}

perfOfCalls == [i \in DOMAIN perf |-> [perf[i] EXCEPT !.base = Last(@)]]
csvOfCalls ==
    [desc |-> {[id |-> d.id[1], tid |-> d.tid] : d \in LastOf(csv.desc)},
     read |-> csv.read,
     event |-> {[read_id |-> e.read_id, id |-> e.id[1], count |-> e.count] :
                   e \in LastOf(csv.event)}]
jobOfCalls ==
    [op |-> job.op, tid |-> job.tid, configs |-> job.configs, ids |-> job.ids]

Calls == INSTANCE StateCalls WITH
    Faults <- (Faults \cup {"open"}) \ {"eof"},
    perf <- perfOfCalls, csv <- csvOfCalls, job <- jobOfCalls

\* Opening event by event and reading through the shared buffer is a way of
\* doing what StateCalls does (perf_stat.rs:70-107, group_reader.rs:79-95).
RefinesCalls == Calls!Spec
=============================================================================
