# threadstat in TLA+

threadstat counts hardware events per thread. A library preloaded into the
traced programs announces every thread and its end on a POSIX message queue; a
collector opens perf counters for each announced thread, reads them when the
thread ends, on a timer and at its own end, and writes three CSV files.

This directory holds TLA+ modules for that system, the TLC configurations that
check them on small instances, and theorems proved with TLAPS.

## The system

| Part | Source | State it keeps | Operations |
|---|---|---|---|
| preloaded library | `wrapper/wrapper.c` | one queue descriptor; nothing per thread except a message on its stack | constructor (ADD), `pthread_create`, `wrapper` (ADD, user function), `cleanup_handler` (REMOVE) |
| messages | `wrapper/shared_def.h`, `threadstat-message` | none | flags ADD and REMOVE, a tid |
| queue | `mqueue` | the name, a bounded FIFO in the kernel | open with a fallback depth, `read`, unlink on drop |
| State | `threadstat-shared/src/state.rs` | table tid to groups, `read_id`, the CSV files, a read buffer | `open_tid`, `close_tid`, `flush_all` |
| perf groups | `perf-ffi` | descriptors of a group; a shared buffer | `PerfStatGroup::new`, `read`; `PerfGroupReader::read_group` |
| CSV files | `csv_writer.rs` | three buffered files | one write per row |
| event parsing | `parse_perf.rs`, `pfm.rs`, `perf_event_config.rs` | none | command line to event groups |
| poller | `poll` | slab of handlers, kernel interest set | `register_mut`, `poll_once`, `run` |
| signals, timer | `signals`, `timerfd` | what the kernel holds pending | `block`, `read`; `arm_periodic`, `read` |
| main | `threadstat-rust/src/main.rs` | owns all of the above | set up, run the loop, last flush |

How they interact. Traced threads and the collector share only the queue and
the kernel: sends are blocking calls, nobody answers, and a counter is attached
to whichever thread holds the tid when `perf_event_open` is called. Inside the
collector everything runs in one thread: the poller calls one handler at a time
and hands it the State.

What is hard here:

- the traced threads run on between any two system calls of the collector, and
  the kernel reuses tids: an ADD may be handled when its thread is gone, or
  when another thread has its tid;
- a thread may end without its REMOVE (the process exits, the thread is
  cancelled inside `mq_send`, it is the first thread of its process, another
  thread calls execve), which leaves an entry that a new holder of the tid
  finds in the table;
- the queue is bounded, so every traced thread may have to wait;
- opens, reads and writes fail one by one, and the rest of the call goes on;
- a batch of events is handled after the poll that reported it, while handlers
  remove sources or stop the loop;
- SIGINT, the timer and messages compete for one thread, and SIGINT may come at
  any moment of the set-up;
- a group is opened one descriptor at a time, while its thread may end and the
  descriptors run out, and groups of different sizes are read into one buffer;
- rows are in memory until a buffer is full, a write may fail half-way, and the
  process may be killed at any point;
- `fork` copies a thread that owes a REMOVE;
- the queue's name outlives the processes: a collector that is killed, also by a
  SIGINT that comes before it is blocked, leaves its queue to the next run, and
  one that ends unlinks the name whatever queue it refers to by then.

What makes each part correct, in a sentence: **Preload**, messages about a tid
leave in the order ADD, REMOVE, ADD. **State**, a thread is counted at most once
by each group, its last counts are read before its descriptors go, and rows
join. **Perf groups**, a group has all its events or none, no descriptor leaks, a
read stays in its buffer and is of the group it was asked for. **CSV files**,
whatever happens each file is a beginning of what was written, and it is all of
it after an orderly end. **Parser**, the groups are those that commas and
brackets say. **Poller**, reported keys have a handler, hung-up sources go,
nobody starves, and the loop ends when its last source goes. **Timer**, every expiration of
the period asked for is reported once. **main**, SIGINT loses no count, and every
end but a kill leaves whole files and no queue. **System**, the table holds
exactly the threads that should be counted, attached to the right threads, and
SIGINT leads to a complete last flush. **Queue's name**, while a collector is up a
program that opens it reaches that collector, and after a killed one it reaches the
queue that the next run takes over.

## Modules

Names are those of the source where TLA+ allows it.

- `Kernel.tla` (external). Linux tasks as the code depends on them: tids of
  threads, which threads hold theirs, and how much each has executed.
- `Preload.tla` models `wrapper.c`. `pc[t]` is where thread `t` is in
  `constructor()` or `wrapper()`; `queue` is the message queue; `mq_send` has no
  step while the queue is full. `AbruptStep` holds the endings without a
  cleanup handler, each switched on by a member of the constant `Abrupt`.
- `State.tla` models `state.rs` with the calls it makes into `csv_writer.rs` and
  `perf_stat.rs`. A call (`open_tid`, `close_tid`, `flush_all`) starts a `job`;
  one step of a job is one group opened, the descriptions written, or one group
  read. Steps of traced threads fall in between, other calls do not. A group's
  events are opened, read and closed together, so one id stands for the group.
  The order of the groups of an entry is left open.
- `Poller.tla` models `poll_once` and `run` as operators: `epoll_wait`,
  `Handled` (the handler's result and what the loop makes of it), `deregister`
  and `BatchDone`. A `Source`'s handler belongs to the using module. `run` asks
  nothing of its sources: with none registered it waits for ever (the check at
  `poll/src/lib.rs:189` comes after a batch). `main` registers two or three.
- `PipePoller.tla` runs the poller over pipes, as the tests of `poll` do, with
  handlers that may return any result.
- `StateCalls.tla` calls `State` in any order, without a queue, and is what the
  system promises of its table and its rows: `Threadstat`, `Fork` and `PerfCalls` are
  proved to implement it.
- `PerfCalls.tla` is `StateCalls` in detail. `OpenEvent` is one `perf_event_open`;
  `opening` holds the events that `PerfStatGroup::new` has so far and `fds` counts
  the descriptors. `OpenFails` is the end of the `collect` at the first error, with
  the drop of what was opened. `reader` is the `PerfGroupReader`: its allocation,
  the layout it believes in, the slice it hands out, and what the last `read(2)`
  left there; `read_group` gives the outcomes of one read. `RefinesCalls` states
  that all this implements `StateCalls`, where a group is one thing: the last event
  of a group stands for it there, because its opening is what completes the
  group, and a group whose thread or whose descriptors run out half-way is one
  that failed to open.
- `CsvWriter.tla` models the three `BufWriter`s as operators, which `Startup` uses. `disk` is what is in a file, `buf`
  what is in memory, `stream` every piece that was accepted. A row is written in
  two pieces (`writeln!` calls `write` for each part of its format), so that a buffer
  may end inside a row; `PutFails` writes out a part of a full buffer and keeps the
  rest, as `BufWriter` does.
- `ParseGroups.tla` models `parse_event_groups`, one turn of its loop a step, on every
  text of commas, brackets, blanks and letters up to a length. `Grouped` is the
  reference definition, which looks at the text as a whole: which characters are
  structural (`Opener` is the bracket that is open before a position), where names
  start, and which of them stand under one bracket.
- `TimerFD.tla` models `timerfd`: `settime`, the two ways of arming, `disarm` and
  `read`. `timer` is the kernel's timer; `asked`, `since` and `taken` remember what
  was asked for, for the properties. `Period` is the period of a frequency as
  `Duration::from_secs_f64` rounds it, a tie to the even number.
- `Startup.tla` models one run of `main` from its first line to its last drop, with
  `Signal::get_mask`, `block` and `SignalFD`. `locals` are the values `main` owns in
  the order of their declaration: a return and a panic drop them from the last to
  the first, and the drop of the State (`DropState`) writes out what is in its files'
  buffers. Rows are written while a handler or the last flush runs (`WriteRows`).
- `Threadstat.tla` composes `Preload`, `State` and `Poller` as `main.rs` does. The
  three handlers are actions; `phase` is where `main` is. A loop step needs
  `Idle`: a handler runs to its end before the next. `LoopFaults` switches on a
  failing `epoll_wait` and a failing read of the timer, which end in a panic, and a
  failing `mq_receive`, which is printed and takes nothing (`ReceiveFails`).
  `stale` is a history variable: it holds the tids given up by a thread that owed
  a REMOVE, until the next REMOVE about them is sent.
- `Fork.tla` adds `fork` to `Threadstat`. The copy of a thread that `wrapper` started
  returns from its function sometime and sends a REMOVE for the tid of its parent.
  The copy of a first thread sends nothing.
- `MQueue.tla` models the life of the queue's name over several runs of the
  collector: `MQueueReader::open`, `new` with its fallback to the kernel's depth
  and its other errors (`OpenFails`), `read`, `drop`, the set-up of `main` and its panics, the end of `main`, and
  `mq_open` and the first send of `wrapper.c`. `queues` are the queues created so
  far, `name` the one the name refers to, `at[c]` where run `c` is; a queue without
  a name lives on for those who opened it. `Together` lets runs overlap. The rest
  of the system runs between `SetUp` and `MainReturns` and is in `Threadstat`.
- `MCStateCalls.tla`, `MCPerfCalls.tla`, `MCThreadstat.tla`, `MCFork.tla`,
  `MCMQueue.tla` give constants their values for TLC. `MCStateCalls` also bounds the
  calls, which `StateCalls` does not.
- `ThreadstatProofs.tla` (of `Threadstat` and `Fork`), `StateCallsProofs.tla` (with what
  others need of `State`), `PerfCallsProofs.tla`, `PipePollerProofs.tla`,
  `TimerFDProofs.tla`, `StartupProofs.tla` (with what it needs of `CsvWriter`),
  `MQueueProofs.tla` and `ParseGroupsProofs.tla` hold the proofs.

Definitions marked `Faulty variant` are not part of the specification. Each is an
operation of the code with one plausible mistake in it (a check dropped, a step
skipped). Put in place of the operation it is named after, it makes the
property it is meant for fail, which shows that the property depends on that
operation; `PROJECT.json` lists the pairs under `mutants`.

## Runs

| Run | Module, configuration | Shows |
|---|---|---|
| `pipe_poller` | PipePoller, PipePoller.cfg | `NoWrongSlabIndex`, `NeverWaitsOnNothing`, `HungUpHandledOnce`, and under fairness `FullPipeServed`, `HangupEndsLoop` |
| `pipe_hangup` | PipePoller, PipeHangup.cfg | violated: `HungUpNotReadable` |
| `state_calls` | MCStateCalls, StateCalls.cfg | `OneCounterPerThread`, `EventRowsJoin`, `ReadIdsOrderCounts`, `DescribedTid`, `ReadBeforeClose` |
| `sampling` | MCThreadstat, Sampling.cfg | `Monitored`, `TailRecorded`, `NoBlockingRead`, `FinalFlushComplete`, the types and the inductive invariant `SystemInOrder`, with interrupted sends, the timer, and failing reads of it and of the queue |
| `progress` | MCThreadstat, Progress.cfg | under fairness `InterruptEnds`, `SendersServed`, `TicksServed`, with failing waits and timer reads |
| `fork` | MCFork, Fork.cfg | `MonitoredBarForks`, `NothingLeftOpen`, over two processes that exit, lose their first thread and cancel threads |
| `perf_calls` | MCPerfCalls, PerfCalls.cfg | `NoDescriptorLeak`, `ReaderMemory`, `WholeReads`, `EventsJoin`, and `RefinesCalls`: the detailed calls implement `StateCalls` |
| `short_read` | MCPerfCalls, ShortRead.cfg | violated: `HeaderOfGroup` |
| `parse_groups` | ParseGroups, ParseGroups.cfg | `ParsesAsGrouped`, and under fairness `ParsingEnds` |
| `timer_fd` | TimerFD, TimerFD.cfg | `ReadsAddUp`, `NeverRunsUnsampled` |
| `startup` | Startup, Startup.cfg | `FilesAreBeginnings`, `TornOnlyByFailure`, `InterruptLosesNothing`, `OrderlyEnd`, `NamedWhileWriting`, and under fairness `InterruptHeard` |
| `restarts` | MCMQueue, Restarts.cfg | `NamedWhileUp`, `NamedQueueHasOwner`, `KilledQueueAdopted`, `StartsEmpty`, over killed and panicking runs |

A run does not repeat what a theorem says for every value of the constants:
`state_calls` and `perf_calls` leave out the rarer faults, for which
`StateCallsProofs` and `Refines` hold as well, and `restarts` the collectors that run
together, which `AlwaysNamedQueueHasOwner` covers.

`CHECK_DEADLOCK FALSE` stands in every configuration but those of the timer, which
can always be armed again, because every other system may stop: the collector
returns, programs end, a text is parsed, tids and bounds run out.

Bounds, and why they are enough:

- `Threads`, `Tids`: each thread lives once. `fork` has four threads of two
  processes over two tids, which contains every tid reuse between threads of one
  and of two processes, and three holders of a tid in a row: one that is lost, one
  whose REMOVE closes the entry left behind, and one that is counted again. A child that is to do no harm is one more sender there, so it is also
  the run for `Monitored` with many threads (`MonitoredBarForks` is `Monitored` while
  nobody has forked). `sampling` has one process of three threads over two tids, so
  that a tid is used again, beside the timer and counts; `progress` one of two
  threads.
- `Abrupt`: each kind of ending is switched on in the runs where it adds the most:
  interrupted sends beside a full queue in `sampling`; `exit`, the first thread's end
  and cancellation in `fork`, where a tid is lost by one thread and given to another;
  `exit` and `execve` in `progress`, where they make senders that never stop. All of them at once are within the theorems about
  `Threadstat`.
- `QueueDepth` 1 or 2 instead of 50 or the kernel's limit: queues that are
  empty, full, and hold a REMOVE with the ADD of the next holder behind it.
- `MaxEvents` 2 with three pipes, so that a batch leaves a ready source out; in
  the collector 10 as in the code, with three sources.
- `MaxUnread` 2: a hangup with more than one read's worth of data.
- `MaxWork` 1: a thread that has counted something and one that has not. 0
  where no property looks at counts.
- `MaxReadId`, `MaxTicks`, `MaxIds` cap the timer, the expirations that pile up
  and, in `MCStateCalls` and `PerfCalls`, the groups opened; flushes by REMOVE and
  the last flush of `Threadstat` are never cut off.
- Three runs of the collector and three programs in `MQueue`: a killed run, the
  one that takes over its queue and one after it, each with a program. A desired
  depth of 2 with a limit of 1, so that `new` falls back. Each program sends one
  message: the order of messages is the business of `Threadstat`.
- One event group where only the table matters, two in `perf_calls`, so that part
  of an entry may fail. There the groups are a single event and a group
  of two: the buffer grows, is used by its prefix and holds an older, larger read;
  a group of two can fail before, between and after its events. `FdLimit` is below
  what the groups of two tids need.
- `Capacity` 3 with rows of two pieces: rows end on a buffer's end and straddle it,
  and a failing write keeps none, some or most of a buffer. Three rows, all of one file
  or not, fill its buffer twice, and leave one row to follow a torn one.
- Texts of at most five characters, beside the proof for any length: every pair of brackets with two names and a
  comma in it, brackets glued to names, unterminated, empty, nested and stray. One
  letter is enough, since names differ by their length.
- A second of four units and frequencies up to nine, so that periods are 4 to 0
  units: exact, rounded up, rounded down, and rounded to nothing. Delays of zero
  and beyond what a timespec holds.
- `MaxForks` 2: a child, and a child of it or a second one of another thread.
- Two signals in `Startup`, of which main handles one, and every inherited mask.
- Symmetry is used in the runs without liveness properties only, over tids,
  groups and the threads that play the same role.

Fairness. `progress` assumes that the collector's thread is scheduled
while it has something to do (weak fairness of `Collector`), and that a thread
waiting in `mq_send` is let in eventually when the queue is not full again and
again (strong fairness: the kernel keeps the waiting senders in a list, by priority
and then by arrival, and hands them the free place; the threads are taken to have
one priority). Nothing is assumed of user functions, timers or program
starts, and no fault is ever forced: `LoopFails` is not part of `Collector`. Receives
do not fail in `progress`: senders are not served while every one does.
`startup` assumes that `main` goes on (weak fairness of `SetUp`, `Handler` and `Ending`) and
that in the loop the signal has its turn among the sources (strong fairness of
`HandleSignal`), which `progress` shows of the loop (`InterruptEnds`).
`parse_groups` assumes that the parser's loop runs. `pipe_poller` assumes that the thread in `run` is scheduled, and that a source
which is ready again and again is reported eventually: the kernel moves a
reported level-triggered source to the end of its ready list. Writers need not
write, and a poller with no source need not end (`HangupEndsLoop`).

## Findings

- `poll/src/lib.rs:128` says of a hung-up source that it "can never become
  readable again". The source is dropped after one call of its handler; what the
  handler did not read in that call is lost (run `pipe_hangup`).
- `perf-ffi/src/perf_stat.rs:149` meets a read of fewer bytes than asked for with a
  debug assertion only, and so is the header's count at line 155. In a release
  build a read that ends early, as the kernel does for a group in error state,
  gives the rows of whatever group was read before (run `short_read`).

Three comments say more than the code does. `main.rs:18` says of the frequency "0
flushes only at exit", but a thread's counters are flushed when it announces its
end (`close_tid` in `State`). `timerfd/src/lib.rs:12` says that a step of the wall clock
"moves the expiry", but `settime` arms relative to now, which a step does not touch
(`WallClockStep` in `TimerFD`). `main.rs:69` says that more than one expiration "means a
flush ran longer than the sampling period", but any handler may have, for instance
one that opens the counters of a thread.

Two limits of the design are stated in the properties rather than as findings. A
tid that a thread gave up without its REMOVE keeps its entry, and the next thread
with that tid is not counted, because `open_tid` returns early (`state.rs:18`).
First threads never send REMOVE, so every program that is traced to its end
leaves its first tid this way. `stale` says how far the harm goes: it ends with the
next REMOVE about the tid, and the holders after that are counted again
(`Monitored`). And a thread that forks without exec may be closed
by the REMOVE of its child (`forked` in `Fork.tla`): `Monitored` as it stands does
not hold there, `MonitoredBarForks` says that other tids do not notice.

## Proofs

`ThreadstatProofs.tla` proves for every value of the constants, that is for any
number of threads, tids, event groups, any queue depth, any faults and any
abrupt endings:

- `TypeCorrect`: `Spec => []TypeOK`;
- `AlwaysInOrder`: `Spec => []SystemInOrder`;
- `AlwaysMonitored`: `Spec => []Monitored`;
- `AlwaysNothingLeftOpen`: `Spec => []NothingLeftOpen`;
- `NeverBlocks`: `Spec => []NoBlockingRead`;
- `AlwaysFlushedAtEnd`: `Spec => []FinalFlushComplete`;
- `AlwaysTailRecorded`: `Spec => []TailRecorded`;
- `AlwaysMonitoredBarForks`: `ForkSpec => []MonitoredBarForks`;
- `ForksLeaveNothingOpen`: `ForkSpec => []NothingLeftOpen`.

They use the named assumptions on the constants (`KernelAssumption`,
`PreloadAssumption`, `StateAssumption`, `PollerAssumption`,
`ThreadstatAssumption`, and `ForkAssumption` for the last two) and nothing else.

`Monitored` speaks of states in which no message about a tid is under way, so it
is not inductive. `SystemInOrder` says what holds in between, in five parts:

- `TasksInOrder`: a thread is live exactly in the control states that hold a tid,
  and live threads have different tids;
- `JobInOrder`: a tid being opened or closed is not in the table;
- `CountsInOrder`: no counter counts less than nothing, which the type of the
  event rows needs;
- `MessagesInOrder`: for each tid, its messages alternate as far as two REMOVEs
  never follow each other, the first is a REMOVE only if the tid is taken, and the
  last only if it is not announced (`Alternate`); and for each tid that is not
  `stale`, what is taken or announced in vain has its REMOVE to come (`Owed`);
- `EntriesInOrder`: an announced holder with no REMOVE pending has the entry of
  its tid to itself, unless the tid is `stale`.

The argument: a step is a step of a traced thread, the receipt of a message, a
step of a job, the start of a flush, or leaves all of that alone
(`StepKinds`). Seen from one tid a step sends a message about it, receives one, or
keeps what is under way (`SendsAbout`, `ReceivesAbout`, `KeepsAbout`), by lemmas on a
sequence with one element more or less (`AppendSends`, `TailReceives`); `QueueSteps`
says so for every step. `Send...Alternates` and `Receive...Alternates` carry
`Alternate` over them, tid by tid, and `NextOwed` carries `Owed`. Abrupt endings keep the
one and make a tid `stale`, which takes away the other. A tid leaves `stale` with a
REMOVE (`StaleBefore`), which is then the last message about it: whatever is taken
or announced in vain has its REMOVE to come again (`RemoveSettles`), so that nothing of
the thread that was lost is left when its messages are handled. For the
entries, which are carried over thread by thread (`NextEntry`), a thread announces
itself while its tid has no other live holder, so an entry of its tid must still
have a REMOVE to come (`AnnounceWaitsForRemove`). `NeverBlocks` needs less: what is in the batch was ready
when it was reported, each key is handled once, and only the handlers of a key
take from its descriptor.

`AlwaysFlushedAtEnd` rests on `Rested` (after the loop only a flush is in progress,
of groups that are held, and `main` returns from an idle state) and on
`ReadOnceMore`: the groups the last flush has read so far have a row whose number
is among the last ones given out, as many as there are such groups. One read more
uses up one number and adds one group, which is arithmetic on cardinalities
(`NextReadOnce`).

`AlwaysTailRecorded` follows a group from `perf_event_open` to its last row.
`SenderLeft`: whoever sent a REMOVE that is queued or being handled has left,
and counts no more. `TailKept`: a group of a thread whose tid nobody else had is in
the entry of that tid, or is about to be read by `close_tid`, or has a row with
all its counts. The group leaves the first place only by a REMOVE for its tid
(`ReceiveTracks`), whose sender, by `SenderLeft` and because nobody else had the
tid, is the group's own thread; and it leaves the second only by being read
(`JobTracks`). When the thread has left and its messages are handled,
`NothingLeftOpen` takes the first place away: a tid of which nobody else ever was the
holder is `stale` only if that one thread was lost (`StaleIsLost`). What a thread has done is what its
counter shows (`Count`), also when both go on while the collector reads; the
proof needs that a thread that has left does nothing more (`ThreadsGoOn`).

With forks `SystemInOrder` fails: a child may send a REMOVE for a tid that is not
taken. `ForkInOrder` keeps what is true of it. `Owed` holds for all tids not `stale`,
because the sender of each ADD owes a REMOVE of its own whatever children send; it
is all that `AnnounceWaitsForRemove` and `NothingLeftOpen` need. `Shown` says of a tid whose
holder is announced that no REMOVE is the last message about it, and that it is
taken when no message is under way. It is kept for the tids outside `forked`, and
holds again for a tid that leaves `forked`: it is announced with no child of it
left, and its ADD is the last message (`StepShown`). A child's
REMOVE is about a tid in `forked` (`ChildSends`), so it disturbs neither. The lemmas
about steps of `Threadstat` ask for no more than this (`NextTypes`, `QueueSteps`,
`NextEntry`), so that both invariants rest on the same ones.

`StateCallsProofs.tla` proves for any order of calls, any threads, tids, groups and
faults `RowsJoin` (`EventRowsJoin`), `ReadIdsOrdered` (`ReadIdsOrderCounts`),
`TidsDescribed` (`DescribedTid`), `CountedOnce` (`OneCounterPerThread`),
`AlwaysReadBeforeClose` and `CallsTyped`
(`TypeOK`). Its inductive invariant adds to the types
`Entries` (the groups of an entry, in the table or in the call in progress, are of
threads that had its tid and of different configurations, none of them still to
be opened, so that two entries never share a thread and a configuration) and
`Rows` (what is held is described, and no row shows more than its thread has done,
from which the order of counts follows when the next row is written).

`ThreadstatProofs.tla` then proves that the whole system implements `StateCalls`:

- `ImplementsCalls`: `Spec => Calls!Spec`;
- `ForksImplementCalls`: `ForkSpec => Calls!Spec`.

The variables of `State` and of the threads stand for themselves, so a step of the
system is a call of a handler, a step of the call in progress, a step of a thread,
or none of them (`NextIsCall`); `open_tid` and `close_tid` are called for tids from
messages, which have the type that `TypeOK` gives the queue, and a `fork` or a
child is no step at all. What is true of any order of calls therefore holds when a
queue, a poller and traced programs decide on the order: `SystemRowsJoin`,
`SystemReadIdsOrdered`, `SystemTidsDescribed`, `SystemCountsOnce` and
`SystemReadsBeforeClose` are the five properties of `StateCalls`, for `Spec` and for
`ForkSpec`. A run of the system checks none of them.

`PerfCallsProofs.tla` proves for groups of any sizes, any limit of descriptors and
any faults

- `MemoryInBounds`: `Spec => []ReaderMemory`, the soundness of the `unsafe` blocks
  of `group_reader.rs`;
- `Refines`: `Spec => RefinesCalls` when no read ends early (`"eof" \notin Faults`; with
  it `Calls` is not implemented, which is the finding of `short_read`);
- `NeverLeaks`: `Spec => []NoDescriptorLeak`;
- `ReadsAreWhole`: `Spec => []WholeReads`;
- `AllEventsJoin`: `Spec => []EventsJoin`.

Its invariant says that a group has as many events as its configuration, that the
events opened so far are fewer, and that rows are of opened groups. The step
lemmas (`OpenEventAbstract` to `TaskAbstract`) map each step to one of `StateCalls` or
to none. `DetailedCountedOnce`, `DetailedReadIdsOrdered`, `DetailedTidsDescribed` and
`DetailedReadBeforeClose` take the theorems of `StateCallsProofs` over to the last event
of each group of the detailed calls, under the same condition.

The descriptors are counted as a set of events, so that the account of
`NoDescriptorLeak` is about cardinalities: `Owned` says that a group is in one
place only (one entry, the call that opens it or the call that closes it), and
`Accounted` that the open descriptors are the events of those places. Opening adds
one event, a failing open drops the ones before it, closing takes a whole group
(`CountsAddUp` for the disjoint unions). The rows need `RowsInv`: what can still be
read is described, and the numbers in the rows are below the next one, so that the
rows of a new read are the only ones with its number.

`PipePollerProofs.tla` proves, for any sources, any number of events per wait and
handlers that return anything, `SlabIndexRight` (`NoWrongSlabIndex`),
`WaitsOnSomething` (`NeverWaitsOnNothing`), `HungUpOnce` (`HungUpHandledOnce`) and
`TypesHold` (`TypeOK`): the slab and the kernel's set agree whenever no handler is
running, and a batch names a key once.

`TimerFDProofs.tla` proves for any resolution, frequencies and delays
`AlwaysSampled` (`NeverRunsUnsampled`) and `ExpirationsAddUp` (`ReadsAddUp`). The
invariant relates the time left on the timer to the time since it was armed:
expirations times the period, plus what has gone by of the current one.

`MQueueProofs.tla` proves for any number of runs of the collector and of
programs, any depths, overlapping or not, killed or not, from `MQueueAssumption`:

- `AlwaysNamedWhileUp`: `Spec => []NamedWhileUp`;
- `AlwaysNamedQueueHasOwner`: `Spec => []NamedQueueHasOwner`;
- `AlwaysKilledQueueAdopted`: `Spec => []KilledQueueAdopted`;
- `AlwaysStartsEmpty`: `Spec => StartsEmpty`, an action property.

The inductive invariant is `TypeOK` with `NameInOrder`, which adds who has opened a
queue already, and, when collectors run one at a time, that two that are up are
the same and that a queue the name no longer refers to was dropped by one of its
readers. `KilledQueueAdopted` needs the last part; `NamedWhileUp` needs that nobody
else can unlink. `OpenKeepsName` and `DropKeepsName` carry the steps that move the
name, and the messages in the queues do not matter to it (`SameQueues`).

`StartsEmpty` follows from the same invariant: with nobody killed the name can only be
of a run that is up, and the run that opens is the only one and has opened nothing,
so there is no name and the queue is a new one (`OpensUnnamed`).

`StartupProofs.tla` proves for any signals and buffers of any capacity, from
`CsvAssumption` and `StartupAssumption`:

- `BeginningsAlways`: `FairSpec => []FilesAreBeginnings`;
- `TornByFailureOnly`: `FairSpec => []TornOnlyByFailure`;
- `InterruptKeepsCounts`: `FairSpec => []InterruptLosesNothing`;
- `EndsInOrder`: `FairSpec => []OrderlyEnd`;
- `NamedUntilWritten`: `FairSpec => []NamedWhileWriting`.

None uses the fairness. The invariant has five parts. `Types`. `Placed`: which locals
there are and which files are open at each place of `main`; the state is dropped
after all that was declared later and before the queue, and the queue is never
dropped while a file is open. `Masked`: SIGINT is blocked from `blocked` on. `FileInv`,
for each file: while it is open, what was accepted is the file and its buffer one
after the other, afterwards the file is a beginning of it that lacks pieces of
failed rows only; pieces follow each other as `TornOnlyByFailure` asks; and the last
piece tells whether a row is being put, so that the next one fits behind it. `Rowed`:
rows are begun in handlers and in the last flush only, in files that are open, one
row at a time. `TornOnlyByFailure` is not inductive on its own: a failing write must not
tear a row begun before it, which `FileInv`'s last piece rules out. Most lemmas
are about sequences of pieces (`PutText`, `MoveText`, `OrderKept`, `AppendText`): a
piece that moves from the buffer to the file leaves their concatenation as it is.

`ParseGroupsProofs.tla` proves for texts of any length, from `ParseAssumption`:

- `TextParsesAsGrouped`: `Spec => []ParsesAsGrouped`;
- `ParsedPrefix`: `Spec => [](TypeOK /\ ParsedSoFar)`;
- `TurnsMoveOn`: every turn moves on in the text, and not past its end, or ends the
  parsing. This bounds the number of turns; that the turns are taken
  (`ParsingEnds`) is liveness.

`MaxLen` only says how long a text may be, and is any number. The invariant: between two
turns the parser is at the end of the text, or outside brackets where a name ends
(`AtBoundary`), and the groups so far are `GroupsOf` the names that start before it,
all of them encoded (`ParsedSoFar`). A turn reads exactly the names that start in what
it consumes (`Ahead`), and they are of one group, of a later key than all before
(`BracketedTurn`, `SingleTurn`); such names add one group at the end, or nothing if
there are none (`GroupsWith`, `GroupsGrow`). Nothing starts in what is skipped
(`NotSkipped`). A name may have blanks in front where the parser starts after them;
both are trimmed to the same (`TrimAfter`). The order of positions rests on
`ListingOf` and `ListingIs`: a finite set of numbers has one increasing listing.
Where such an argument is by induction it is about the least counterexample
(`LeastNat`, from the well-foundedness of the natural numbers).

Model-checked only:

- liveness (`InterruptEnds`, `TicksServed`, `SendersServed`, `FullPipeServed`,
  `HangupEndsLoop`, `InterruptHeard`, `ParsingEnds`): the prover has no rules for
  fairness. `TurnsMoveOn` is the part of `ParsingEnds` that is about steps.

## Not modelled

- The attribute that libpfm makes of an event name (foreign tables), the builders of
  `perf_event_config.rs` and the plain accessors of `non-empty`, which the program
  does not call or which are those of a slice.
- The text of CSV rows, timestamps, `time_enabled` and `time_running`, log output.
- Allocation failures, and the argument block that `pthread_create` leaks when the
  original fails: no state of the system depends on them.
- Command-line errors: clap ends the program before anything is opened.
- Messages that are malformed or carry an unknown flag (`handlers.rs:12`): only
  `wrapper.c` sends.
- Two builds with different message layouts on one queue name, of which the
  receives of one fail for ever, and the gap
  between `epoll_wait` and `mq_receive` when two collectors share a queue.
- `execve` by a thread other than the first, which takes over the tid of the first.
- What a thread executes after it has sent its REMOVE (the return of `wrapper` and
  the destructors of thread-specific data): `TailRecorded` is about the work of the
  user's function.
- Threads that a forked child creates: they announce themselves like any other.

## Plan

Done: the system (Kernel, Preload, State, Poller, Threadstat, Fork) and its
invariant; the calls in any order and in detail, and that the system and the
detailed calls implement them; the queue's name over several runs; one run of main
with signals; the files, the timer, the parser; proofs of every safety property
that a run checks. What would come next:

1. Queues with a message size of another build: receives that fail for ever, and
   who waits for them.
2. `execve` by a thread other than the first.
