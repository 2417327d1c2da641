------------------------------ MODULE Preload -------------------------------
(***************************************************************************)
(* wrapper/wrapper.c: the library preloaded into every traced process.     *)
(*                                                                         *)
(* The first thread of a process announces itself from the library's       *)
(* constructor.  Every other thread is created through the interposed      *)
(* pthread_create and runs wrapper(): it sends ADD with its tid, runs the  *)
(* user's function and sends REMOVE from a cleanup handler.  Both sends    *)
(* are blocking mq_send calls on one bounded FIFO queue shared by all      *)
(* processes (all messages have priority 0).                               *)
(*                                                                         *)
(* A thread can also end without that handler: the whole process exits,    *)
(* its first thread ends (nothing was pushed for it), it is cancelled in   *)
(* mq_send, which is a cancellation point, or another thread calls execve, *)
(* after which the new image announces the same tid once more.  Abrupt     *)
(* says which of these the traced programs do.                             *)
(***************************************************************************)
EXTENDS Kernel

CONSTANTS
    Leader,      \* Leader[t]: the first thread of t's process
    QueueDepth,  \* mq_maxmsg of the queue
    Abrupt       \* which of AbruptKinds the traced programs do

AbruptKinds == {"exit", "mainexit", "cancel", "signal", "exec"}

ASSUME PreloadAssumption ==
    /\ Leader \in [Threads -> Threads]
    /\ QueueDepth \in Nat \ {0}
    /\ Abrupt \subseteq AbruptKinds

VARIABLES
    pc,          \* pc[t]: where thread t is
    queue        \* the message queue, oldest message first

preloadVars == <<pc, queue>>

\* MESSAGE_FLAG_ADD_PROCESS and MESSAGE_FLAG_REMOVE_PROCESS; struct message.
Flags == {"add", "remove"}
Messages == [flag : Flags, tid : Tids]

PCs == {"none",      \* not created yet
        "announce",  \* in mq_send(ADD)
        "run",       \* in the user's function
        "reannounce",  \* after execve: in mq_send(ADD) again
        "leave",     \* function returned: in mq_send(REMOVE), cancellable
        "unwind",    \* pthread_exit or cancelled: in mq_send(REMOVE)
        "exiting",   \* REMOVE is sent, the thread still holds its tid
        "exited",    \* gone, and it owes no REMOVE
        "lost"}      \* gone after its ADD without sending REMOVE

\* Where a thread holds a tid; where its ADD is sent and its REMOVE is not.
Announced == {"run", "reannounce", "leave", "unwind"}
Alive == Announced \cup {"announce", "exiting"}

PreloadInit ==
    /\ pc = [t \in Threads |-> "none"]
    /\ queue = <<>>

\* No live thread has tid k, and no first thread that is gone while its
\* process goes on: it keeps its tid until the last thread ends.
TidFree(k) == \A t \in Threads : t \in live \cup {Leader[u] : u \in live} => tid[t] # k

Sending(t) == pc[t] \in {"announce", "reannounce", "leave", "unwind"}

\* Faulty variant: nothing bounds the queue.
mq_send_Unbounded(f, t) ==
    queue' = Append(queue, [flag |-> f, tid |-> tid[t]])

\* Faulty variant: a REMOVE has a higher priority than an ADD.
mq_send_RemoveFirst(f, t) ==
    /\ Len(queue) < QueueDepth
    /\ queue' = IF f = "remove" THEN <<[flag |-> f, tid |-> tid[t]]>> \o queue
                               ELSE Append(queue, [flag |-> f, tid |-> tid[t]])

\* mq_send: blocks, that is has no step, while the queue is full.
mq_send(f, t) ==
    /\ Len(queue) < QueueDepth
    /\ queue' = Append(queue, [flag |-> f, tid |-> tid[t]])

-----------------------------------------------------------------------------
(* The life of a thread.                                                   *)

\* A program starts: the dynamic loader runs constructor() in its first
\* thread, up to the mq_send.
constructor(t, k) ==
    /\ Leader[t] = t
    /\ TidFree(k)
    /\ Clone(t, k)
    /\ pc' = [pc EXCEPT ![t] = "announce"]
    /\ UNCHANGED queue

\* A running thread of the process calls the interposed pthread_create.
pthread_create(t, k) ==
    /\ Leader[t] # t
    /\ \E u \in live : Leader[u] = Leader[t] /\ pc[u] = "run"
    /\ TidFree(k)
    /\ Clone(t, k)
    /\ pc' = [pc EXCEPT ![t] = "announce"]
    /\ UNCHANGED queue

\* The ADD of constructor() or of wrapper() goes out; the thread does not
\* wait for an answer.
SendAdd(t) ==
    /\ pc[t] \in {"announce", "reannounce"}
    /\ mq_send("add", t)
    /\ pc' = [pc EXCEPT ![t] = "run"]
    /\ UNCHANGED kernelVars

\* tmp.func returns (to "leave"), or the thread unwinds out of it because of
\* pthread_exit or a cancellation (to "unwind").  Both run cleanup_handler.
FinishFunction(t, how) ==
    /\ pc[t] = "run"
    /\ Leader[t] # t
    /\ pc' = [pc EXCEPT ![t] = how]
    /\ UNCHANGED <<queue, kernelVars>>

\* Faulty variant: a REMOVE that finds the queue full is given up.
cleanup_handler_Nonblocking(t) ==
    /\ pc[t] \in {"leave", "unwind"}
    /\ mq_send("remove", t) \/ (Len(queue) = QueueDepth /\ UNCHANGED queue)
    /\ pc' = [pc EXCEPT ![t] = "exiting"]
    /\ UNCHANGED kernelVars

\* The REMOVE goes out.
cleanup_handler(t) ==
    /\ pc[t] \in {"leave", "unwind"}
    /\ mq_send("remove", t)
    /\ pc' = [pc EXCEPT ![t] = "exiting"]
    /\ UNCHANGED kernelVars

\* The wrapper returned; the thread ends and its tid is free again.
Exit(t) ==
    /\ pc[t] = "exiting"
    /\ pc' = [pc EXCEPT ![t] = "exited"]
    /\ Reap({t})
    /\ UNCHANGED queue

-----------------------------------------------------------------------------
(* Abrupt endings.                                                         *)

\* Where a thread that stops right now is left: it owes a REMOVE or not.
Ended(s) == CASE s \in Announced -> "lost"
              [] s \in {"announce", "exiting"} -> "exited"
              [] OTHER -> s

\* exit(), a fatal signal, or the first thread returning from main: every
\* thread of the process ends where it is.
EndProcess(l) ==
    /\ \E t \in live : Leader[t] = l
    /\ pc' = [t \in Threads |-> IF Leader[t] = l THEN Ended(pc[t]) ELSE pc[t]]
    /\ Reap({t \in Threads : Leader[t] = l})
    /\ UNCHANGED queue

ProcessExit(l) ==
    /\ "exit" \in Abrupt
    /\ EndProcess(l)

\* A signal handler interrupts a mq_send that waits on a full queue: the send
\* fails and the library calls exit(EXIT_FAILURE).
SendInterrupted(t) ==
    /\ "signal" \in Abrupt
    /\ Sending(t)
    /\ Len(queue) = QueueDepth
    /\ EndProcess(Leader[t])

\* The first thread calls execve: the others end where they are, and the
\* constructor of the new image runs with the same tid.
Execve(t) ==
    /\ "exec" \in Abrupt
    /\ Leader[t] = t
    /\ pc[t] = "run"
    /\ LET others == {u \in Threads : Leader[u] = t /\ u # t} IN
        /\ pc' = [u \in Threads |-> CASE u = t -> "reannounce"
                                       [] u \in others -> Ended(pc[u])
                                       [] OTHER -> pc[u]]
        /\ Reap(others)
    /\ UNCHANGED queue

\* Thread t alone ends where it is.
EndThread(t) ==
    /\ pc' = [pc EXCEPT ![t] = Ended(@)]
    /\ Reap({t})
    /\ UNCHANGED queue

\* The first thread calls pthread_exit: no cleanup handler was pushed for it.
MainThreadExit(t) ==
    /\ "mainexit" \in Abrupt
    /\ Leader[t] = t
    /\ pc[t] = "run"
    /\ EndThread(t)

\* A thread created by pthread_create is cancelled in mq_send: before the
\* handler is pushed, or after pthread_cleanup_pop took it off.
CancelledInSend(t) ==
    /\ "cancel" \in Abrupt
    /\ Leader[t] # t
    /\ pc[t] \in {"announce", "leave"}
    /\ EndThread(t)

-----------------------------------------------------------------------------
\* What the user's function does, as far as a counter sees it.
RunFunction(t) ==
    /\ pc[t] = "run"
    /\ Execute(t)
    /\ UNCHANGED preloadVars

ThreadStep(t) ==
    \/ SendAdd(t)
    \/ \E how \in {"leave", "unwind"} : FinishFunction(t, how)
    \/ cleanup_handler(t)
    \/ Exit(t)
    \/ RunFunction(t)

AbruptStep(t) ==
    \/ ProcessExit(t)
    \/ SendInterrupted(t)
    \/ MainThreadExit(t)
    \/ CancelledInSend(t)
    \/ Execve(t)

PreloadTypeOK ==
    /\ KernelTypeOK
    /\ pc \in [Threads -> PCs]
    /\ queue \in Seq(Messages)
    /\ Len(queue) <= QueueDepth
=============================================================================
