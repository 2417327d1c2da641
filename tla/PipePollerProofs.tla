-------------------------- MODULE PipePollerProofs --------------------------
(***************************************************************************)
(* Proofs about PipePoller, for any number of pipes, any size of the batch *)
(* and any calls that may fail.                                            *)
(***************************************************************************)
EXTENDS PipePoller, TLAPS

\* The two tables agree while the loop may still use them, and a batch has one
\* event for each of its keys.
Tables ==
    /\ loop \in {"idle", "waiting", "dispatching"} => interest = sources
    /\ batch # {} => loop = "dispatching"
    /\ \A e, f \in batch : e.key = f.key => e = f

IInv == TypeOK /\ Tables /\ NoWrongSlabIndex

-----------------------------------------------------------------------------
\* The invariant holds for a new poller and empty pipes (poll/src/lib.rs).
LEMMA InitIInv == Init => IInv
  <1> SUFFICES ASSUME Init PROVE IInv
    OBVIOUS
  <1>1. MaxUnread \in Nat /\ 0 \in 0 .. MaxUnread
    BY PipeAssumption
  <1>2. TypeOK
    BY <1>1 DEF Init, PollerNew, TypeOK, PollerTypeOK, Loops
  <1> QED
    BY <1>2 DEF Init, PollerNew, IInv, Tables, NoWrongSlabIndex

\* Registering a source, and calling run, keep the invariant.
LEMMA SetUpIInv == IInv /\ SetUp => IInv'
  <1> SUFFICES ASSUME IInv, SetUp PROVE IInv'
    OBVIOUS
  <1> USE DEF IInv, TypeOK, PollerTypeOK, Tables, NoWrongSlabIndex, Loops
  <1>1. CASE run
    BY <1>1 DEF SetUp, run
  <1>2. ASSUME NEW k \in Keys, register_mut(k) PROVE IInv'
    <2>1. batch = {} /\ interest = sources
      BY <1>2 DEF register_mut
    <2> QED
      BY <1>2, <2>1 DEF SetUp, register_mut
  <1> QED
    BY <1>1, <1>2 DEF SetUp

\* epoll_wait reports one event for a descriptor, and of registered ones only
\* (poll/src/lib.rs:147).
LEMMA WaitIInv == IInv /\ Wait => IInv'
  <1> SUFFICES ASSUME IInv, Wait PROVE IInv'
    OBVIOUS
  <1>1. /\ batch' \subseteq ReadyEvents /\ loop = "waiting" /\ loop' = "dispatching"
        /\ UNCHANGED <<sources, interest, unread, hung>>
    BY DEF Wait, epoll_wait
  <1>2. \A e \in batch' : /\ e \in Events /\ e.key \in interest
                          /\ e.hangup = (e.key \in hung)
    BY <1>1 DEF ReadyEvents
  <1>3. interest = sources
    BY <1>1 DEF IInv, Tables
  <1>4. TypeOK'
    BY <1>1, <1>2 DEF IInv, TypeOK, PollerTypeOK, Loops
  <1>5. \A e, f \in batch' : e.key = f.key => e = f
    <2> SUFFICES ASSUME NEW e \in batch', NEW f \in batch', e.key = f.key
                 PROVE  e = f
      OBVIOUS
    <2>1. e.hangup = f.hangup
      BY <1>2
    <2> QED
      BY <1>2, <2>1 DEF Events
  <1>6. Tables' /\ NoWrongSlabIndex'
    BY <1>1, <1>2, <1>3, <1>5 DEF IInv, Tables, NoWrongSlabIndex
  <1> QED
    BY <1>4, <1>6 DEF IInv

\* What a handler's result does to the two tables (poll/src/lib.rs:152-186):
\* only the handled event's key may go, and with it goes its only event.
LEMMA HandledIInv ==
    ASSUME IInv, NEW e \in batch, NEW result \in Results, Handled(e, result)
    PROVE  PollerTypeOK' /\ Tables' /\ NoWrongSlabIndex'
  <1> USE DEF IInv, TypeOK, PollerTypeOK, Tables, NoWrongSlabIndex, Loops
  <1>0. loop = "dispatching" /\ interest = sources
    BY DEF Handled, Delivers
  <1>1. CASE batch' = {} /\ loop' \in {"stopped", "failed"}
             /\ sources' \subseteq sources /\ interest' = interest
    BY <1>1
  <1>2. CASE batch' = batch \ {e} /\ UNCHANGED <<sources, interest, loop>>
    BY <1>0, <1>2
  <1>3. CASE batch' = batch \ {e} /\ UNCHANGED loop /\ deregister(e.key)
    BY <1>0, <1>3 DEF deregister
  <1> QED
    BY <1>1, <1>2, <1>3 DEF Handled

\* A handler takes a chunk of its own pipe and no more than is there.
LEMMA DispatchIInv == IInv /\ Dispatch => IInv'
  <1> SUFFICES ASSUME IInv, NEW e \in batch, NEW result \in Results,
                      CallHandler(e, result)
               PROVE  IInv'
    BY DEF Dispatch
  <1>1. PollerTypeOK' /\ Tables' /\ NoWrongSlabIndex'
    BY HandledIInv DEF CallHandler
  <1>2. e.key \in Keys /\ unread \in [Keys -> 0 .. MaxUnread] /\ MaxUnread \in Nat
    BY PipeAssumption DEF IInv, TypeOK, PollerTypeOK, Events
  <1>3. unread' \in [Keys -> 0 .. MaxUnread]
    <2>1. CASE unread[e.key] > 0 /\ unread' = [unread EXCEPT ![e.key] = @ - 1]
      <3>1. unread[e.key] - 1 \in 0 .. MaxUnread
        BY <1>2, <2>1
      <3> QED
        BY <1>2, <2>1, <3>1
    <2>2. CASE unread' = unread
      BY <1>2, <2>2
    <2> QED
      BY <2>1, <2>2 DEF CallHandler
  <1>4. hung' \subseteq Keys
    BY DEF CallHandler, IInv, TypeOK
  <1> QED
    BY <1>1, <1>3, <1>4 DEF IInv, TypeOK

\* The end of a batch changes neither table nor pipe (poll/src/lib.rs:189-192).
LEMMA BatchDoneIInv == IInv /\ BatchDone /\ UNCHANGED <<unread, hung>> => IInv'
  BY DEF BatchDone, IInv, TypeOK, PollerTypeOK, Tables, NoWrongSlabIndex, Loops

\* A writer fills or closes its pipe and touches nothing of the poller.
LEMMA WriterIInv ==
    ASSUME IInv, NEW k \in Keys, Write(k) \/ CloseWriter(k)
    PROVE  IInv'
  <1>1. UNCHANGED pollerVars
    BY DEF Write, CloseWriter
  <1>2. hung' \subseteq Keys
    BY DEF Write, CloseWriter, IInv, TypeOK
  <1>3. unread' \in [Keys -> 0 .. MaxUnread]
    <2>1. unread \in [Keys -> 0 .. MaxUnread] /\ MaxUnread \in Nat
      BY PipeAssumption DEF IInv, TypeOK
    <2>2. CASE Write(k)
      <3>1. unread[k] + 1 \in 0 .. MaxUnread
        BY <2>1, <2>2 DEF Write
      <3> QED
        BY <2>1, <2>2, <3>1 DEF Write
    <2>3. CASE CloseWriter(k)
      BY <2>1, <2>3 DEF CloseWriter
    <2> QED
      BY <2>2, <2>3
  <1> QED
    BY <1>1, <1>2, <1>3
       DEF pollerVars, IInv, TypeOK, PollerTypeOK, Tables, NoWrongSlabIndex

\* Every step keeps the invariant.
LEMMA NextIInv == IInv /\ [Next]_vars => IInv'
  <1> SUFFICES ASSUME IInv, [Next]_vars PROVE IInv'
    OBVIOUS
  <1>1. CASE SetUp
    BY <1>1, SetUpIInv
  <1>2. CASE Run
    BY <1>2, WaitIInv, DispatchIInv, BatchDoneIInv DEF Run
  <1>3. CASE wait_fails /\ UNCHANGED <<unread, hung>>
    BY <1>3 DEF wait_fails, IInv, TypeOK, PollerTypeOK, Tables, NoWrongSlabIndex, Loops
  <1>4. CASE \E k \in Keys : Write(k) \/ CloseWriter(k)
    BY <1>4, WriterIInv
  <1>5. CASE UNCHANGED vars
    BY <1>5 DEF vars, pollerVars, IInv, TypeOK, PollerTypeOK, Tables, NoWrongSlabIndex
  <1> QED
    BY <1>1, <1>2, <1>3, <1>4, <1>5 DEF Next

\* The poller's tables, batch and pipes keep their types.
THEOREM TypesHold == Spec => []TypeOK
  <1>1. IInv => TypeOK
    BY DEF IInv
  <1> QED
    BY <1>1, InitIInv, NextIInv, PTL DEF Spec

\* The expect on the slab entry of a reported event never fails, for any number
\* of sources and any handlers (poll/src/lib.rs:160-163).
THEOREM SlabIndexRight == Spec => []NoWrongSlabIndex
  <1>1. IInv => NoWrongSlabIndex
    BY DEF IInv
  <1> QED
    BY <1>1, InitIInv, NextIInv, PTL DEF Spec

\* After a batch the loop waits only on something: the slab, which is what
\* poll_once asks (poll/src/lib.rs:189), and the epoll set agree there, whichever
\* sources the batch removed.  An empty set that is waited on was empty when run
\* was called.
THEOREM WaitsOnSomething == Spec => NeverWaitsOnNothing
  <1>1. ASSUME IInv, [Next]_vars, loop' = "waiting", interest' = {}
        PROVE  loop # "dispatching" /\ interest = {}
    <2>1. CASE BatchDone
      BY <1>1, <2>1 DEF BatchDone, IInv, Tables
    <2>2. ASSUME NEW e \in batch, NEW result \in Results, Handled(e, result)
          PROVE  FALSE
      BY <1>1, <2>2 DEF Handled, Delivers
    <2>3. CASE UNCHANGED <<loop, interest>>
      BY <1>1, <2>3 DEF IInv, Tables
    <2>4. CASE ~BatchDone /\ ~(\E e \in batch, result \in Results : Handled(e, result))
               /\ ~UNCHANGED <<loop, interest>>
      BY <1>1, <2>4
         DEF Next, SetUp, run, register_mut, Run, Wait, epoll_wait, Dispatch, CallHandler,
             wait_fails, Write, CloseWriter, vars, pollerVars
    <2> QED
      BY <2>1, <2>2, <2>3, <2>4
  <1>2. IInv /\ [Next]_vars =>
          [(loop = "waiting" /\ interest = {})' => loop # "dispatching" /\ interest = {}]_vars
    BY <1>1
  <1> QED
    BY <1>2, InitIInv, NextIInv, PTL DEF Spec, NeverWaitsOnNothing

\* An event of a dead descriptor is handled once: the descriptor is out of the
\* epoll set when the event is out of the batch, or the loop has ended.
THEOREM HungUpOnce == Spec => HungUpHandledOnce
  <1>1. ASSUME IInv, [Next]_vars, NEW e \in batch, e.hangup, e \notin batch'
        PROVE  e.key \notin interest' \/ loop' \in {"stopped", "failed"}
    <2>1. loop = "dispatching" /\ batch # {}
      BY <1>1 DEF IInv, Tables
    <2>2. batch' # batch
      BY <1>1
    <2>3. PICK f \in batch, result \in Results : CallHandler(f, result)
      BY <1>1, <2>1, <2>2
         DEF Next, SetUp, run, register_mut, Run, Wait, epoll_wait, Dispatch, BatchDone,
             wait_fails, Write, CloseWriter, vars, pollerVars
    <2>4. Handled(f, result)
      BY <2>3 DEF CallHandler
    <2>5. CASE loop' \in {"stopped", "failed"}
      BY <2>5
    <2>6. CASE loop' \notin {"stopped", "failed"}
      <3>1. batch' = batch \ {f}
        BY <2>4, <2>6 DEF Handled
      <3>2. f = e
        BY <1>1, <3>1
      <3>3. deregister(e.key)
        BY <1>1, <2>4, <2>6, <3>2 DEF Handled, Keeps
      <3> QED
        BY <3>3 DEF deregister
    <2> QED
      BY <2>5, <2>6
  <1>2. IInv /\ [Next]_vars =>
          [\A e \in batch : e.hangup /\ e \notin batch' =>
              e.key \notin interest' \/ loop' \in {"stopped", "failed"}]_vars
    BY <1>1
  <1> QED
    BY <1>2, InitIInv, NextIInv, PTL DEF Spec, HungUpHandledOnce
=============================================================================
