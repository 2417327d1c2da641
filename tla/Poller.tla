------------------------------- MODULE Poller -------------------------------
(***************************************************************************)
(* poll/src/lib.rs: the epoll loop that runs one handler at a time.        *)
(*                                                                         *)
(* A source is known by its slab key.  It is in two tables: the slab that  *)
(* owns its handler (sources) and the kernel's interest set (interest);    *)
(* the code indexes the first with what the second reports.                *)
(*                                                                         *)
(* The module gives the steps of poll_once as operators.  What a handler   *)
(* does, and which sources are ready, belongs to the module that uses it.  *)
(***************************************************************************)
EXTENDS Integers, FiniteSets

CONSTANTS
    Keys,        \* the slab keys of the sources
    MaxEvents,   \* COUNT: how many events one epoll_wait may report
    LoopFaults   \* which calls of the loop may fail: subset of LoopFaultKinds

\* EPOLL_CTL_ADD, epoll_wait, EPOLL_CTL_DEL, and of the module that uses the
\* poller two kinds of reads on a healthy descriptor.
LoopFaultKinds == {"add", "wait", "delete", "read", "receive"}

ASSUME PollerAssumption ==
    /\ MaxEvents \in Nat \ {0}
    /\ LoopFaults \subseteq LoopFaultKinds

VARIABLES
    sources,    \* keys in the slab
    interest,   \* keys in the epoll set
    batch,      \* reported events whose handlers have not run yet
    loop        \* where Poller::run is

pollerVars == <<sources, interest, batch, loop>>

\* EPOLLIN is requested; EPOLLERR and EPOLLHUP come unasked: hangup.
Events == [key : Keys, hangup : BOOLEAN]

\* PollAction, or Err from the handler.
Results == {"continue", "stop", "remove", "error"}

Loops == {"idle",       \* run is not called yet
          "waiting", "dispatching",
          "stopped",    \* run returned Ok
          "failed"}     \* run returned Err, or register_mut panicked

PollerNew ==
    /\ sources = {}
    /\ interest = {}
    /\ batch = {}
    /\ loop = "idle"

\* The key of a new source is that of its slab entry.
register_mut(key) ==
    /\ loop = "idle"
    /\ key \notin sources
    /\ sources' = sources \cup {key}
    /\ \/ interest' = interest \cup {key} /\ UNCHANGED loop
       \/ "add" \in LoopFaults /\ loop' = "failed" /\ UNCHANGED interest
    /\ UNCHANGED batch

\* run goes to its first epoll_wait, whether anything is registered or not.
run ==
    /\ loop = "idle"
    /\ loop' = "waiting"
    /\ UNCHANGED <<sources, interest, batch>>

\* The poller after register_mut for every key, and the call of run.
PollerInit ==
    /\ sources = Keys
    /\ interest = Keys
    /\ batch = {}
    /\ loop = "waiting"

\* epoll_wait with no timeout: it returns once an event is there, with as many
\* of the ready ones as fit, in any order.  (An interrupted wait is repeated.)
epoll_wait(ready) ==
    /\ loop = "waiting"
    /\ ready # {}
    /\ batch' \in SUBSET ready
    /\ Cardinality(batch') = MaxEvents \/ batch' = ready
    /\ Cardinality(batch') <= MaxEvents
    /\ loop' = "dispatching"
    /\ UNCHANGED <<sources, interest>>

\* It fails, and not with EINTR.
wait_fails ==
    /\ "wait" \in LoopFaults
    /\ loop = "waiting"
    /\ loop' = "failed"
    /\ UNCHANGED <<sources, interest, batch>>

\* The next event to handle is e.
Delivers(e) ==
    /\ loop = "dispatching"
    /\ e \in batch

\* Faulty variant: the descriptor stays in the epoll set.
deregister_SlabOnly(key) ==
    /\ sources' = sources \ {key}
    /\ UNCHANGED interest

\* deregister(key): out of the slab, then EPOLL_CTL_DEL.
deregister(key) ==
    /\ sources' = sources \ {key}
    /\ interest' = interest \ {key}

\* Faulty variant: Continue is obeyed on a dead fd too.
Keeps_Dead(e, result) == result = "continue"

\* The source stays when the handler said Continue and the fd is healthy.  An
\* error on a dead fd is taken for Remove; Continue on a dead fd is overruled.
Keeps(e, result) == result = "continue" /\ ~e.hangup
Drops(e, result) == result = "remove" \/ (e.hangup /\ result \in {"continue", "error"})

\* Faulty variant: the rest of the batch is dropped after one event.
Handled_First(e, result) ==
    /\ Delivers(e)
    /\ e.key \in sources
    /\ batch' = {}
    /\ loop' = CASE result = "stop" -> "stopped"
                 [] result = "error" /\ ~e.hangup -> "failed"
                 [] OTHER -> loop
    /\ IF Drops(e, result) THEN deregister(e.key) ELSE UNCHANGED <<sources, interest>>

\* Faulty variant: an event whose source stays is handled once more.
Handled_Again(e, result) ==
    /\ Delivers(e)
    /\ e.key \in sources
    /\ batch' = CASE Keeps(e, result) -> batch
                  [] Drops(e, result) -> batch \ {e}
                  [] OTHER -> {}
    /\ loop' = CASE result = "stop" -> "stopped"
                 [] result = "error" /\ ~e.hangup -> "failed"
                 [] OTHER -> loop
    /\ IF Drops(e, result) THEN deregister(e.key) ELSE UNCHANGED <<sources, interest>>

\* The handler of e, looked up in the slab, returned result.  (The expect on a
\* missing slab entry is the guard: that it never bites is a property.)
Handled(e, result) ==
    /\ Delivers(e)
    /\ e.key \in sources
    /\ \/ /\ result = "stop"
          /\ loop' = "stopped"
          /\ batch' = {}
          /\ UNCHANGED <<sources, interest>>
       \/ /\ result = "error" /\ ~e.hangup
          /\ loop' = "failed"
          /\ batch' = {}
          /\ UNCHANGED <<sources, interest>>
       \/ /\ Keeps(e, result)
          /\ batch' = batch \ {e}
          /\ UNCHANGED <<sources, interest, loop>>
       \/ /\ Drops(e, result)
          /\ deregister(e.key)
          /\ batch' = batch \ {e}
          /\ UNCHANGED loop
       \/ /\ Drops(e, result) /\ "delete" \in LoopFaults
          /\ sources' = sources \ {e.key}
          /\ loop' = "failed"
          /\ batch' = {}
          /\ UNCHANGED interest

\* Faulty variant: the empty poller goes on waiting.
BatchDone_Empty ==
    /\ loop = "dispatching"
    /\ batch = {}
    /\ loop' = "waiting"
    /\ UNCHANGED <<sources, interest, batch>>

\* All events handled: poll_once returns, and run calls it again unless no
\* source is left.
BatchDone ==
    /\ loop = "dispatching"
    /\ batch = {}
    /\ loop' = IF sources = {} THEN "stopped" ELSE "waiting"
    /\ UNCHANGED <<sources, interest, batch>>

PollerTypeOK ==
    /\ sources \subseteq Keys
    /\ interest \subseteq Keys
    /\ batch \subseteq Events
    /\ loop \in Loops
=============================================================================
