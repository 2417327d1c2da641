----------------------------- MODULE Threadstat -----------------------------
(***************************************************************************)
(* The whole system: traced processes (Preload) send ADD and REMOVE over   *)
(* the message queue to the collector, threadstat-rust/src/main.rs, whose  *)
(* event loop (Poller) hands the one State to three handlers: SIGINT stops *)
(* the loop, a message opens or closes a tid, the timer flushes all.       *)
(*                                                                         *)
(* The model starts when main has opened a fresh queue, blocked SIGINT and *)
(* registered its sources.                                                 *)
(***************************************************************************)
EXTENDS Preload, State, Poller

CONSTANTS
    MaxReadId,   \* bound: reads after which the timer does not fire again
    MaxTicks     \* bound: expirations that pile up in the timerfd

ASSUME ThreadstatAssumption ==
    /\ Keys \in SUBSET {"signal", "mqueue", "timer"}
    /\ {"signal", "mqueue"} \subseteq Keys
    /\ MaxReadId \in Nat
    /\ MaxTicks \in Nat

VARIABLES
    sigint,      \* SIGINT is pending (blocked, so only the signalfd sees it)
    ticks,       \* expirations the timerfd holds
    phase,       \* where main is
    stale        \* history: the tids given up by a thread that owed a REMOVE, and
                 \* of which no REMOVE was sent since

mainVars == <<sigint, ticks, phase>>
vars == <<kernelVars, preloadVars, stateVars, pollerVars, mainVars, stale>>

Phases == {"run",     \* in poller.run
           "flush",   \* in the last flush_all
           "done",    \* returned: everything is dropped, the queue unlinked
           "panicked"}   \* the expect on poller.run unwound: the same, too

Init ==
    /\ KernelInit /\ PreloadInit /\ StateInit /\ PollerInit
    /\ sigint = FALSE
    /\ ticks = 0
    /\ phase = "run"
    /\ stale = {}

-----------------------------------------------------------------------------
(* What happens around the collector.                                      *)

Outside == <<stateVars, pollerVars>>

\* The tids of the announced threads that come to state s in this step.
TidsTo(s) == {tid[t] : t \in {u \in Threads : pc[u] \in Announced /\ pc'[u] = s}}

\* A program can only start while the queue has its name: otherwise its
\* constructor fails in mq_open and exits.
ProcessStep ==
    /\ \E t \in Threads :
        \/ \E k \in Tids : \/ phase \in {"run", "flush"} /\ constructor(t, k)
                           \/ pthread_create(t, k)
        \/ ThreadStep(t)
        \/ AbruptStep(t)
    /\ stale' = (stale \ TidsTo("exiting")) \cup TidsTo("lost")
    /\ UNCHANGED <<Outside, mainVars>>

Interrupt ==
    /\ phase = "run" /\ ~sigint
    /\ sigint' = TRUE
    /\ UNCHANGED <<kernelVars, preloadVars, Outside, ticks, phase, stale>>

TimerExpires ==
    /\ "timer" \in Keys
    /\ phase = "run" /\ ticks < MaxTicks /\ readId <= MaxReadId
    /\ ticks' = ticks + 1
    /\ UNCHANGED <<kernelVars, preloadVars, Outside, sigint, phase, stale>>

-----------------------------------------------------------------------------
(* The event loop and its handlers.  A handler whose call into the State   *)
(* is still running keeps the loop where it is.                            *)

Ready(key) ==
    CASE key = "signal" -> sigint
      [] key = "mqueue" -> queue # <<>>
      [] key = "timer" -> ticks > 0

Event(key) == [key |-> key, hangup |-> FALSE]
ReadyEvents == {Event(key) : key \in {x \in interest : Ready(x)}}

Wait ==
    /\ phase = "run" /\ Idle
    /\ epoll_wait(ReadyEvents)
    /\ UNCHANGED <<kernelVars, preloadVars, stateVars, mainVars, stale>>

WaitFails ==
    /\ phase = "run" /\ Idle
    /\ wait_fails
    /\ UNCHANGED <<kernelVars, preloadVars, stateVars, mainVars, stale>>

\* The reads of the three descriptors: each would block with nothing to take.
\* A read of the timerfd takes every expiration at once.
ReadSignal == sigint /\ sigint' = FALSE
ReadMessage == queue # <<>> /\ queue' = Tail(queue)
ReadTimer == ticks > 0 /\ ticks' = 0

\* Faulty variant: the loop goes on after the signal.
SignalHandler_Continues ==
    /\ Idle
    /\ Handled(Event("signal"), "continue")
    /\ ReadSignal
    /\ UNCHANGED <<kernelVars, preloadVars, stateVars, ticks, phase, stale>>

SignalHandler ==
    /\ Idle
    /\ Handled(Event("signal"), "stop")
    /\ ReadSignal
    /\ UNCHANGED <<kernelVars, preloadVars, stateVars, ticks, phase, stale>>

\* Faulty variant: the queue's source is removed after one message.
queue_handler_Once ==
    /\ Idle
    /\ Handled(Event("mqueue"), "remove")
    /\ ReadMessage
    /\ \/ Head(queue).flag = "add" /\ open_tid(Head(queue).tid)
       \/ Head(queue).flag = "remove" /\ close_tid(Head(queue).tid)
    /\ UNCHANGED <<kernelVars, pc, mainVars, stale>>

\* One message is received; on an empty queue mq_receive would block.
queue_handler ==
    /\ Idle
    /\ Handled(Event("mqueue"), "continue")
    /\ ReadMessage
    /\ \/ Head(queue).flag = "add" /\ open_tid(Head(queue).tid)
       \/ Head(queue).flag = "remove" /\ close_tid(Head(queue).tid)
    /\ UNCHANGED <<kernelVars, pc, mainVars, stale>>

TimerHandler ==
    /\ Idle
    /\ Handled(Event("timer"), "continue")
    /\ ReadTimer
    /\ flush_all
    /\ UNCHANGED <<kernelVars, preloadVars, sigint, phase, stale>>

\* The `?` on timer.read(): no flush, and the end of the loop.
TimerReadFails ==
    /\ "read" \in LoopFaults
    /\ Idle
    /\ Handled(Event("timer"), "error")
    /\ UNCHANGED <<kernelVars, preloadVars, stateVars, mainVars, stale>>

\* An error of mq_receive is printed: nothing is taken, and the loop goes on.
ReceiveFails ==
    /\ "receive" \in LoopFaults
    /\ Idle
    /\ Handled(Event("mqueue"), "continue")
    /\ UNCHANGED <<kernelVars, preloadVars, stateVars, mainVars, stale>>

PollAgain ==
    /\ Idle
    /\ BatchDone
    /\ UNCHANGED <<kernelVars, preloadVars, stateVars, mainVars, stale>>

StateStep ==
    /\ JobStep
    /\ UNCHANGED <<kernelVars, preloadVars, pollerVars, mainVars, stale>>

\* Faulty variant: main returns without the last flush.
FinalFlush_Skipped ==
    /\ phase = "run" /\ loop = "stopped"
    /\ phase' = "flush"
    /\ UNCHANGED <<kernelVars, preloadVars, stateVars, pollerVars, sigint, ticks, stale>>

\* poller.run returned.
FinalFlush ==
    /\ phase = "run" /\ loop = "stopped"
    /\ flush_all
    /\ phase' = "flush"
    /\ UNCHANGED <<kernelVars, preloadVars, pollerVars, sigint, ticks, stale>>

MainReturns ==
    /\ phase = "flush" /\ Idle
    /\ phase' = "done"
    /\ UNCHANGED <<kernelVars, preloadVars, Outside, sigint, ticks, stale>>

\* poller.run returned Err: main panics, without a last flush.
PollPanics ==
    /\ phase = "run" /\ loop = "failed"
    /\ phase' = "panicked"
    /\ UNCHANGED <<kernelVars, preloadVars, Outside, sigint, ticks, stale>>

Collector ==
    \/ Wait
    \/ SignalHandler \/ queue_handler \/ TimerHandler
    \/ PollAgain
    \/ StateStep
    \/ FinalFlush \/ MainReturns \/ PollPanics

LoopFails == WaitFails \/ TimerReadFails \/ ReceiveFails

Next == ProcessStep \/ Interrupt \/ TimerExpires \/ Collector \/ LoopFails

Spec == Init /\ [][Next]_vars

\* The collector's thread is scheduled; its calls need not fail.  The kernel
\* lets the waiting senders of one priority in by order of arrival, so a mq_send
\* that has room again and again goes through: strong fairness.  The user's functions
\* need not end and no program is forced to start.
FairSpec ==
    /\ Spec
    /\ WF_vars(Collector)
    /\ \A t \in Threads :
          SF_vars((SendAdd(t) \/ cleanup_handler(t)) /\ ProcessStep)

TypeOK ==
    /\ PreloadTypeOK
    /\ StateTypeOK
    /\ PollerTypeOK
    /\ sigint \in BOOLEAN
    /\ ticks \in 0 .. MaxTicks
    /\ phase \in Phases
    /\ stale \subseteq Tids

-----------------------------------------------------------------------------
(* Which threads are counted, and why.                                     *)

\* Messages in the queue that concern tid k, and calls in progress for it.
Pending(k) == \E n \in 1 .. Len(queue) : queue[n].tid = k
Changing(k) == job.op \in {"open", "close"} /\ job.tid = k
Settled(k) == ~Pending(k) /\ ~Changing(k)

\* t ended, or is about to, and owes no REMOVE.
Left(t) == pc[t] \in {"exiting", "exited"}

\* The tid of t is held, with groups attached to t only, and all of them when
\* opening does not fail.
Counted(t) ==
    /\ tid[t] \in Held
    /\ \A i \in groups[tid[t]] : perf[i].task = t
    /\ "open" \notin Faults => {perf[i].config : i \in groups[tid[t]]} = Configs

\* A thread that has announced itself and not left is counted, by groups
\* attached to itself and not to an earlier holder of its tid, once the
\* messages about its tid are handled.  This rests on the order ADD, REMOVE that
\* every holder of the tid sends in, on the FIFO queue, and on the sends coming
\* before the thread's end.  A holder that ends without its REMOVE spoils its
\* tid, because open_tid returns early (state.rs:18), but only until the next
\* REMOVE about it is sent: the holders after that are counted again.
Monitored ==
    \A t \in Threads :
        pc[t] \in Announced /\ Settled(tid[t]) /\ tid[t] \notin stale => Counted(t)

\* Nothing of a thread that left in order stays open: when its messages are
\* handled and its tid has no new holder, its tid is not held, whatever earlier
\* holders left there; only a later one that owes its REMOVE may have left more.
NothingLeftOpen ==
    \A t \in Threads :
        LET k == tid[t] IN
        (/\ Left(t) /\ Settled(k) /\ k \notin stale
         /\ \A u \in Threads : tid[u] = k => pc[u] \notin Announced)
            => k \notin Held

\* The rest of this section is the invariant that Monitored and
\* NothingLeftOpen follow from.

\* A thread holds its tid exactly while its control state says so, and no two
\* threads hold the same one.
TasksInOrder ==
    /\ live = {t \in Threads : pc[t] \in Alive}
    /\ \A t \in Threads : pc[t] = "none" <=> tid[t] = NoTid
    /\ \A t, u \in live : tid[t] = tid[u] => t = u

\* The tids held or being opened, and those of the announced threads.
TakenTids == Held \cup IF job.op = "open" THEN {job.tid} ELSE {}
AnnouncedTids == {tid[t] : t \in {u \in Threads : pc[u] \in Announced}}

NoneAbout(q, k, from, to) == \A n \in from .. to : q[n].tid # k
About(q, k) == {n \in 1 .. Len(q) : q[n].tid = k}

\* The messages of q about tid k alternate with the tids taken and announced: the
\* first may be a REMOVE if k is taken, the last if k is not announced, and two
\* REMOVEs do not follow each other.  Without a message an announced k is taken.
Alternate(q, k, taken, announced) ==
    /\ \A n \in About(q, k) : q[n].flag = "remove" =>
          /\ NoneAbout(q, k, 1, n - 1) => k \in taken
          /\ NoneAbout(q, k, n + 1, Len(q)) => k \notin announced
    /\ \A n, m \in About(q, k) :
          n < m /\ NoneAbout(q, k, n + 1, m - 1) /\ q[n].flag = "remove"
              => q[m].flag = "add"
    /\ NoneAbout(q, k, 1, Len(q)) /\ k \in announced => k \in taken

\* Without a holder that is announced, the entry of k and every ADD about it
\* have their REMOVE to come.
Owed(q, k, taken, announced) ==
    k \notin announced =>
        /\ k \in taken => \E m \in About(q, k) : q[m].flag = "remove"
        /\ \A n \in About(q, k) : q[n].flag = "add" =>
              \E m \in About(q, k) : n < m /\ q[m].flag = "remove"

\* The order is kept whatever threads are lost, what is owed only by those that
\* are not.
MessagesInOrder ==
    \A k \in Tids :
        /\ Alternate(queue, k, TakenTids, AnnouncedTids)
        /\ k \notin stale => Owed(queue, k, TakenTids, AnnouncedTids)

\* A holder that is there and has sent no REMOVE has the entry of its tid to
\* itself: every group in it is attached to that thread.
RemovePending(k) ==
    \E n \in 1 .. Len(queue) : queue[n].tid = k /\ queue[n].flag = "remove"
EntryIds(k) == IF k \in Held THEN groups[k] ELSE job.ids
StillToOpen(k) == IF k \in Held THEN {} ELSE job.configs

EntriesInOrder ==
    \A t \in Threads :
        LET k == tid[t] IN
        pc[t] \in Announced /\ k \in TakenTids \ stale /\ ~RemovePending(k)
            => /\ \A i \in EntryIds(k) : perf[i].task = t
               /\ "open" \notin Faults =>
                    {perf[i].config : i \in EntryIds(k)} \cup StillToOpen(k) = Configs

\* The inductive invariant (proved in ThreadstatProofs), beyond the types.
SystemInOrder ==
    /\ TasksInOrder /\ JobInOrder /\ CountsInOrder
    /\ MessagesInOrder /\ EntriesInOrder

-----------------------------------------------------------------------------
(* What the files show, and how the loop ends.                             *)

\* What a thread did is in the files: when it left in order, its messages are
\* handled and nobody else ever had its tid, every group attached to it has a
\* row with all it counted since it was opened (state.rs:82-92).
TailRecorded ==
    Faults \cap {"read", "csv"} = {} =>
        \A t \in Threads :
            (/\ Left(t) /\ Settled(tid[t])
             /\ \A u \in Threads : tid[u] = tid[t] => u = t)
                => \A i \in Ids : perf[i].task = t =>
                      \E r \in csv.event : r.id = i /\ r.count = Count(i)

\* The handlers' blocking reads never block: what made a source ready is
\* still there when its turn in the batch comes (mq_receive, read of the
\* signalfd and of the timerfd).
NoBlockingRead ==
    \A e \in batch : Ready(e.key)

\* Before main returns, each open group is read once more after the loop has
\* ended, also those opened by the last message of the loop.
FinalFlushComplete ==
    phase = "done" /\ Faults \cap {"read", "csv"} = {} =>
        \A i \in HeldIds : \E r \in csv.event :
            r.id = i /\ r.read_id >= readId - Cardinality(HeldIds)

\* SIGINT ends the program, whatever messages and ticks keep coming, unless
\* the loop fails first, which ends it too.
InterruptEnds == sigint ~> phase \in {"done", "panicked"}

\* A tick is answered with a flush, or the loop ends: a flood of messages
\* cannot keep the counters from being sampled.
TicksServed == ticks > 0 ~> (ticks = 0 \/ loop \in {"stopped", "failed"})

\* While the loop runs no sender waits forever on a full queue: traced
\* programs are held up for as long as the collector is busy, not longer.
SendersServed ==
    \A t \in Threads : Sending(t) ~> (~Sending(t) \/ loop \in {"stopped", "failed"})
=============================================================================
