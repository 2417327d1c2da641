----------------------------- MODULE PipePoller -----------------------------
(***************************************************************************)
(* The poller over pipes, as in the tests of poll/src/lib.rs: each source  *)
(* is the read end of a pipe whose writer writes chunks and may hang up,   *)
(* and each handler reads one chunk, or fails, and returns what it likes.  *)
(***************************************************************************)
EXTENDS Poller

CONSTANT MaxUnread   \* bound: chunks in a pipe

ASSUME PipeAssumption == MaxUnread \in Nat \ {0}

VARIABLES
    unread,     \* unread[k]: chunks in the pipe of source k
    hung        \* the sources whose writer has closed

vars == <<pollerVars, unread, hung>>

Init ==
    /\ PollerNew
    /\ unread = [k \in Keys |-> 0]
    /\ hung = {}

ReadyEvents ==
    {e \in Events : /\ e.key \in interest
                    /\ e.hangup = (e.key \in hung)
                    /\ unread[e.key] > 0 \/ e.hangup}

Write(k) ==
    /\ k \notin hung
    /\ unread[k] < MaxUnread
    /\ unread' = [unread EXCEPT ![k] = @ + 1]
    /\ UNCHANGED <<pollerVars, hung>>

CloseWriter(k) ==
    /\ k \notin hung
    /\ hung' = hung \cup {k}
    /\ UNCHANGED <<pollerVars, unread>>

\* Set-up: some of the pipes are registered, or none, then the loop runs.
SetUp ==
    /\ run \/ \E k \in Keys : register_mut(k)
    /\ UNCHANGED <<unread, hung>>

Wait ==
    /\ epoll_wait(ReadyEvents)
    /\ UNCHANGED <<unread, hung>>

\* call_func: read(2) takes a chunk, or reports the end of a closed pipe; on
\* an open empty pipe it would block.  A failing handler may not read at all.
CallHandler(e, result) ==
    /\ Handled(e, result)
    /\ \/ unread[e.key] > 0 /\ unread' = [unread EXCEPT ![e.key] = @ - 1]
       \/ unread[e.key] = 0 /\ e.key \in hung /\ UNCHANGED unread
       \/ result = "error" /\ UNCHANGED unread
    /\ UNCHANGED hung

Dispatch == \E e \in batch, result \in Results : CallHandler(e, result)

Run ==
    \/ Wait
    \/ Dispatch
    \/ BatchDone /\ UNCHANGED <<unread, hung>>

Next ==
    \/ SetUp
    \/ Run
    \/ wait_fails /\ UNCHANGED <<unread, hung>>
    \/ \E k \in Keys : Write(k) \/ CloseWriter(k)

Spec == Init /\ [][Next]_vars

\* The thread that called run keeps going whenever it can, and the kernel's
\* ready list rotates: a source that keeps being ready keeps being reported.
FairSpec ==
    /\ Spec
    /\ WF_vars(Run)
    /\ \A k \in Keys : SF_vars(Wait /\ \E e \in batch' : e.key = k)

TypeOK ==
    /\ PollerTypeOK
    /\ unread \in [Keys -> 0 .. MaxUnread]
    /\ hung \subseteq Keys

-----------------------------------------------------------------------------

\* Every event the kernel reported still has its handler when its turn comes,
\* whatever the handlers before it in the batch did, so that poll_once never
\* panics on a wrong slab index (poll/src/lib.rs:160-163).
NoWrongSlabIndex == \A e \in batch : e.key \in sources

\* epoll_wait "on an empty set would block forever with no way to be woken"
\* (poll/src/lib.rs:188).  A loop gets there only when it was run with nothing
\* registered: it does not go back to wait after a batch that left nothing in
\* the epoll set (what it looks at is the slab), and no wait empties the set.
NeverWaitsOnNothing ==
    [][(loop = "waiting" /\ interest = {})' => loop # "dispatching" /\ interest = {}]_vars

\* A source whose hangup was reported is handled once and not again: when its
\* event leaves the batch it leaves the epoll set (or the loop ends there).
HungUpHandledOnce ==
    [][\A e \in batch : e.hangup /\ e \notin batch' =>
          e.key \notin interest' \/ loop' \in {"stopped", "failed"}]_vars

\* A full pipe is read from, however busy the other sources are, unless its
\* source is removed or the loop ends: no handler starves another.
FullPipeServed ==
    \A k \in Keys :
        unread[k] = MaxUnread
            ~> (unread[k] < MaxUnread \/ k \notin sources
                \/ loop \in {"idle", "stopped", "failed"})

\* When the writers of all its sources have hung up the running loop ends instead
\* of spinning on dead descriptors (the test hangup_removes_source_despite_continue).
HangupEndsLoop ==
    (sources # {} /\ sources \subseteq hung /\ loop # "idle")
        ~> (loop \in {"stopped", "failed"})

\* "Such a source can never become readable again" (poll/src/lib.rs:128): when
\* a handler that would go on has run for a hung-up source, nothing is left.
HungUpNotReadable ==
    [][\A e \in batch :
          e.hangup /\ CallHandler(e, "continue") => unread'[e.key] = 0]_vars
=============================================================================
