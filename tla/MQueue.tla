------------------------------- MODULE MQueue -------------------------------
(***************************************************************************)
(* The life of the message queue: mqueue/src/lib.rs, the set-up and the    *)
(* end of threadstat-rust/src/main.rs, and mq_open in wrapper.c.           *)
(*                                                                         *)
(* The queue's name is in the kernel and outlives the processes.  A run of *)
(* the collector opens the queue, creating it when it is not there, and    *)
(* unlinks the name when the MQueueReader is dropped: when main returns    *)
(* and also when the set-up panics.  A SIGINT that comes before it is      *)
(* blocked, and a crash at any time, leave the name behind, and the next   *)
(* run finds it.                                                           *)
(***************************************************************************)
EXTENDS Integers, Sequences

CONSTANTS
    Collectors,      \* the runs of the collector, over all time
    Programs,        \* the traced programs
    DesiredMaxMsg,   \* DESIRED_MAXMSG
    MsgMax,          \* fs.mqueue.msg_max, the kernel's limit
    Together,        \* whether one collector may start while another runs
    Kills            \* whether a collector may be killed

ASSUME MQueueAssumption ==
    /\ DesiredMaxMsg \in Nat \ {0}
    /\ MsgMax \in Nat \ {0}
    /\ Together \in BOOLEAN /\ Kills \in BOOLEAN

VARIABLES
    queues,      \* every queue created so far, by number
    name,        \* the number of the queue that the name refers to, or 0
    at,          \* at[c]: where collector c is
    fd,          \* fd[c]: the queue it opened, or 0
    program      \* program[p]: where program p is, and the queue it opened

vars == <<queues, name, at, fd, program>>

Stages == {"start",
           "fallback",   \* the desired depth was refused
           "failed",     \* new returned another error: no reader, main panicked
           "opened",     \* the queue is open, SIGINT still kills
           "running",    \* SIGINT is blocked and read from the signalfd
           "ended",      \* returned or panicked: the reader was dropped
           "killed"}

Up == {c \in Collectors : at[c] \in {"fallback", "opened", "running"}}
Opened == {c \in Collectors : fd[c] # 0}

Init ==
    /\ queues = <<>>
    /\ name = 0
    /\ at = [c \in Collectors |-> "start"]
    /\ fd = [c \in Collectors |-> 0]
    /\ program = [p \in Programs |-> [stage |-> "start", fd |-> 0]]

-----------------------------------------------------------------------------
(* The collector.                                                          *)

\* Faulty variant: a queue of the same name is unlinked before the open.
open_Anew(c, maxmsg) ==
    /\ name # 0 \/ maxmsg <= MsgMax
    /\ queues' = Append(queues, [depth |-> maxmsg, msgs |-> <<>>])
    /\ name' = Len(queues')
    /\ fd' = [fd EXCEPT ![c] = name']
    /\ at' = [at EXCEPT ![c] = "opened"]

\* open: O_CREAT without O_EXCL.  A queue that is there keeps its depth and
\* its messages.
open(c, maxmsg) ==
    /\ name # 0 \/ maxmsg <= MsgMax
    /\ queues' = IF name # 0 THEN queues
                 ELSE Append(queues, [depth |-> maxmsg, msgs |-> <<>>])
    /\ name' = IF name # 0 THEN name ELSE Len(queues')
    /\ fd' = [fd EXCEPT ![c] = name']
    /\ at' = [at EXCEPT ![c] = "opened"]

\* MQueueReader::new tries the desired depth ...
new(c) ==
    /\ at[c] = "start"
    /\ Together \/ Up = {}
    /\ open(c, DesiredMaxMsg)
    /\ UNCHANGED program

\* ... which the kernel refuses with EINVAL when the queue is not there yet,
DepthRefused(c) ==
    /\ at[c] = "start"
    /\ Together \/ Up = {}
    /\ name = 0 /\ DesiredMaxMsg > MsgMax
    /\ at' = [at EXCEPT ![c] = "fallback"]
    /\ UNCHANGED <<queues, name, fd, program>>

\* and then the depth the kernel allows.
new_fallback(c) ==
    /\ at[c] = "fallback"
    /\ open(c, MsgMax)
    /\ UNCHANGED program

\* Any other error of either mq_open: there is no reader to drop, and the name,
\* if it is there, stays.
OpenFails(c) ==
    /\ \/ at[c] = "start" /\ (Together \/ Up = {})
       \/ at[c] = "fallback"
    /\ at' = [at EXCEPT ![c] = "failed"]
    /\ UNCHANGED <<queues, name, fd, program>>

\* Faulty variant: the name is given up once the queue is open.
SetUp_Unlinks(c) ==
    /\ at[c] = "opened"
    /\ at' = [at EXCEPT ![c] = "running"]
    /\ name' = 0
    /\ UNCHANGED <<queues, fd, program>>

\* Events parsed, files opened, SIGINT blocked, sources registered.
SetUp(c) ==
    /\ at[c] = "opened"
    /\ at' = [at EXCEPT ![c] = "running"]
    /\ UNCHANGED <<queues, name, fd, program>>

\* Faulty variant: only the descriptor is closed.
drop_KeepsName(c) ==
    /\ at' = [at EXCEPT ![c] = "ended"]
    /\ UNCHANGED <<queues, name, fd, program>>

\* MQueueReader::drop, in main's last step or unwinding: mq_unlink removes
\* the name, whichever queue it refers to by then.
drop(c) ==
    /\ at' = [at EXCEPT ![c] = "ended"]
    /\ name' = 0
    /\ UNCHANGED <<queues, fd, program>>

\* An expect of the set-up panics: no such event, files that cannot be opened.
SetUpPanics(c) ==
    /\ at[c] = "opened"
    /\ drop(c)

\* SIGINT ended the loop, and main returns.
MainReturns(c) ==
    /\ at[c] = "running"
    /\ drop(c)

\* SIGINT before it is blocked, or a crash or SIGKILL.
Killed(c) ==
    /\ Kills
    /\ c \in Up
    /\ at' = [at EXCEPT ![c] = "killed"]
    /\ UNCHANGED <<queues, name, fd, program>>

\* One message is received.
read(c) ==
    /\ at[c] = "running"
    /\ queues[fd[c]].msgs # <<>>
    /\ queues' = [queues EXCEPT ![fd[c]].msgs = Tail(@)]
    /\ UNCHANGED <<name, at, fd, program>>

-----------------------------------------------------------------------------
(* The traced programs: one message each is enough here.                   *)

\* constructor: mq_open(O_WRONLY), which fails when the name is not there.
ProgramOpens(p) ==
    /\ program[p].stage = "start"
    /\ program' = [program EXCEPT ![p] =
                      [stage |-> IF name = 0 THEN "failed" ELSE "opened", fd |-> name]]
    /\ UNCHANGED <<queues, name, at, fd>>

\* mq_send blocks while the queue is full, also when nobody reads it any more.
ProgramSends(p) ==
    /\ program[p].stage = "opened"
    /\ LET q == program[p].fd IN
        /\ Len(queues[q].msgs) < queues[q].depth
        /\ queues' = [queues EXCEPT ![q].msgs = Append(@, p)]
    /\ program' = [program EXCEPT ![p].stage = "sent"]
    /\ UNCHANGED <<name, at, fd>>

Collector(c) ==
    \/ new(c) \/ DepthRefused(c) \/ new_fallback(c) \/ OpenFails(c)
    \/ SetUp(c) \/ SetUpPanics(c)
    \/ read(c) \/ MainReturns(c)
    \/ Killed(c)

Next ==
    \/ \E c \in Collectors : Collector(c)
    \/ \E p \in Programs : ProgramOpens(p) \/ ProgramSends(p)

Spec == Init /\ [][Next]_vars

Queues == 0 .. Len(queues)

TypeOK ==
    /\ queues \in Seq([depth : Nat \ {0}, msgs : Seq(Programs)])
    /\ \A n \in 1 .. Len(queues) : Len(queues[n].msgs) <= queues[n].depth
    /\ name \in Queues
    /\ at \in [Collectors -> Stages]
    /\ fd \in [Collectors -> Queues]
    /\ program \in [Programs -> [stage : {"start", "failed", "opened", "sent"}, fd : Queues]]

-----------------------------------------------------------------------------

\* The runs that ended without unlinking.
Left == {c \in Collectors : at[c] = "killed"}

\* Programs that start while a collector is up reach that collector, also when
\* its queue was left by a killed run (mqueue/src/lib.rs:41), as long as one
\* collector runs at a time.
NamedWhileUp ==
    ~Together => \A c \in Up \cap Opened : name = fd[c]

\* The name never refers to a queue that all its readers have ended with in
\* order: one of them is up, or was killed and could not unlink it.  This holds
\* for collectors that run together too, although each unlinks the other's name.
\* The queue of a killed run has no reader until the next run; the programs that
\* open it meanwhile wait once it is full.
NamedQueueHasOwner ==
    name # 0 => \E c \in Opened : fd[c] = name /\ c \in Up \cup Left

\* A run that takes over the queue of a killed one also gets the programs that
\* had opened it: they send to the queue that is read, or to one whose last
\* reader ended in order.
KilledQueueAdopted ==
    ~Together =>
        \A p \in Programs, c \in Up \cap Opened :
            program[p].fd \notin {0, fd[c]} =>
                \E d \in Collectors : at[d] = "ended" /\ fd[d] = program[p].fd

\* Who has opened a queue: a run from new's return on, a program from mq_open on.
Unopened == \A c \in Collectors : at[c] \in {"start", "fallback", "failed"} => fd[c] = 0
OpenedFirst ==
    /\ \A c \in Collectors : at[c] \in {"opened", "running"} => fd[c] # 0
    /\ \A p \in Programs : program[p].stage \in {"opened", "sent"} => program[p].fd # 0

\* The inductive invariant (proved in MQueueProofs), beyond the types: a run
\* that is up has opened a queue or is about to, one at a time unless Together,
\* and then a queue that lost the name lost it to a drop by one of its readers.
NameInOrder ==
    /\ Unopened
    /\ OpenedFirst
    /\ NamedQueueHasOwner
    /\ NamedWhileUp
    /\ ~Together =>
          /\ \A c, d \in Up : c = d
          /\ \A n \in 1 .. Len(queues) :
                n # name => \E d \in Collectors : at[d] = "ended" /\ fd[d] = n

\* A run that was not preceded by a killed one starts with an empty queue: it
\* does not open counters for the tids of programs long gone.
StartsEmpty ==
    [][\A c \in Collectors :
          Left = {} /\ ~Together /\ fd[c] = 0 /\ fd'[c] # 0
              => queues'[fd'[c]].msgs = <<>>]_vars
=============================================================================
