---------------------------- MODULE MQueueProofs ----------------------------
(***************************************************************************)
(* Proofs about MQueue, for any runs of the collector, any programs and    *)
(* any depths.                                                             *)
(***************************************************************************)
EXTENDS MQueue, TLAPS

Queue == [depth : Nat \ {0}, msgs : Seq(Programs)]

-----------------------------------------------------------------------------
(* Types.                                                                  *)

\* What the types say of one queue.
LEMMA QueueTypes ==
    ASSUME TypeOK, NEW n \in 1 .. Len(queues)
    PROVE  /\ queues[n] \in Queue
           /\ queues[n].depth \in Nat /\ queues[n].msgs \in Seq(Programs)
           /\ Len(queues[n].msgs) <= queues[n].depth
  <1>1. queues \in Seq(Queue)
    BY DEF TypeOK, Queue
  <1>2. queues[n] \in Queue
    BY <1>1
  <1>3. Len(queues[n].msgs) <= queues[n].depth
    BY DEF TypeOK
  <1> QED
    BY <1>2, <1>3 DEF Queue

\* A queue that open creates is empty, and the others stay as they are.
LEMMA Created ==
    ASSUME TypeOK, NEW maxmsg \in Nat \ {0},
           queues' = Append(queues, [depth |-> maxmsg, msgs |-> <<>>])
    PROVE  /\ queues' \in Seq(Queue)
           /\ Len(queues') = Len(queues) + 1
           /\ \A n \in 1 .. Len(queues) : queues'[n] = queues[n]
           /\ \A n \in 1 .. Len(queues') : Len(queues'[n].msgs) <= queues'[n].depth
  <1> DEFINE new_queue == [depth |-> maxmsg, msgs |-> <<>>]
  <1>1. queues \in Seq(Queue) /\ new_queue \in Queue
    BY DEF TypeOK, Queue
  <1>2. /\ queues' \in Seq(Queue)
        /\ Len(queues') = Len(queues) + 1
        /\ \A n \in 1 .. Len(queues) : queues'[n] = queues[n]
        /\ queues'[Len(queues) + 1] = new_queue
    BY <1>1
  <1>3. Len(new_queue.msgs) <= new_queue.depth
    OBVIOUS
  <1> QED
    BY <1>1, <1>2, <1>3, SMTT(30) DEF TypeOK

\* Opening the queue keeps every type (mqueue/src/lib.rs:29-51).
LEMMA OpenKeepsTypes ==
    ASSUME TypeOK, NEW c \in Collectors, NEW maxmsg \in Nat \ {0},
           open(c, maxmsg), UNCHANGED program
    PROVE  TypeOK'
  <1>1. /\ queues' \in Seq(Queue) /\ Len(queues') \in Nat
        /\ Len(queues) <= Len(queues')
        /\ name' \in 1 .. Len(queues')
        /\ \A n \in 1 .. Len(queues') : Len(queues'[n].msgs) <= queues'[n].depth
    <2>1. CASE name # 0
      <3>1. queues' = queues /\ name' = name
        BY <2>1 DEF open
      <3>2. Len(queues) \in Nat /\ name \in 1 .. Len(queues)
        BY <2>1 DEF TypeOK, Queues
      <3> QED
        BY <3>1, <3>2 DEF TypeOK, Queue
    <2>2. CASE name = 0
      <3>1. queues' = Append(queues, [depth |-> maxmsg, msgs |-> <<>>])
        BY <2>2 DEF open
      <3>2. Len(queues) \in Nat /\ name' = Len(queues')
        BY <2>2 DEF open, TypeOK
      <3> QED
        BY <3>1, <3>2, Created
    <2> QED
      BY <2>1, <2>2
  <1>2. Queues \subseteq Queues'
    BY <1>1 DEF TypeOK, Queues
  <1>3. /\ fd' \in [Collectors -> Queues']
        /\ at' \in [Collectors -> Stages]
        /\ name' \in Queues'
    BY <1>1, <1>2 DEF open, TypeOK, Queues, Stages
  <1>4. program' \in [Programs -> [stage : {"start", "failed", "opened", "sent"}, fd : Queues']]
    BY <1>2 DEF TypeOK
  <1> QED
    BY <1>1, <1>3, <1>4 DEF TypeOK, Queue

\* Receiving a message and sending one keep every type, and the queue within
\* its depth (mqueue/src/lib.rs:75-93, wrapper.c:40).
LEMMA TrafficKeepsTypes ==
    ASSUME TypeOK, NEW n \in 1 .. Len(queues), NEW msgs \in Seq(Programs),
           Len(msgs) <= queues[n].depth,
           queues' = [queues EXCEPT ![n].msgs = msgs]
    PROVE  /\ queues' \in Seq(Queue)
           /\ Len(queues') = Len(queues)
           /\ \A m \in 1 .. Len(queues') : Len(queues'[m].msgs) <= queues'[m].depth
  <1> DEFINE filled == [depth |-> queues[n].depth, msgs |-> msgs]
  <1>1. queues \in Seq(Queue) /\ queues[n] \in Queue
    BY QueueTypes DEF TypeOK, Queue
  <1>2. [queues[n] EXCEPT !.msgs = msgs] = filled
    BY <1>1 DEF Queue
  <1>3. filled \in Queue
    BY <1>1 DEF Queue
  <1>4. queues' = [queues EXCEPT ![n] = filled]
    BY <1>2
  <1>5. filled.depth = queues[n].depth /\ filled.msgs = msgs
    OBVIOUS
  <1> HIDE DEF filled
  <1>6. /\ queues' \in Seq(Queue) /\ Len(queues') = Len(queues)
        /\ queues'[n] = filled
        /\ \A m \in 1 .. Len(queues) : m # n => queues'[m] = queues[m]
    BY <1>1, <1>3, <1>4, SMTT(30)
  <1> QED
    BY <1>5, <1>6 DEF TypeOK

\* Every step keeps the types.
LEMMA NextTypes ==
    ASSUME TypeOK, NameInOrder, [Next]_vars
    PROVE  TypeOK'
  <1>1. ASSUME NEW c \in Collectors, new(c) \/ new_fallback(c)
        PROVE  TypeOK'
    BY <1>1, OpenKeepsTypes, MQueueAssumption DEF new, new_fallback
  <1>2. ASSUME NEW c \in Collectors,
               \/ DepthRefused(c) \/ OpenFails(c) \/ SetUp(c) \/ SetUpPanics(c)
               \/ MainReturns(c) \/ Killed(c)
        PROVE  TypeOK'
    <2>1. /\ UNCHANGED <<queues, fd, program>> /\ name' \in {0, name}
          /\ at' \in [Collectors -> Stages]
      BY <1>2 DEF DepthRefused, OpenFails, SetUp, SetUpPanics, MainReturns, Killed, drop, TypeOK, Stages
    <2> QED
      BY <2>1 DEF TypeOK, Queues
  <1>3. ASSUME NEW c \in Collectors, read(c)
        PROVE  TypeOK'
    <2> DEFINE n == fd[c]
    <2>1. n \in 1 .. Len(queues)
      BY <1>3 DEF read, TypeOK, NameInOrder, OpenedFirst, Queues
    <2>2. /\ queues[n].msgs \in Seq(Programs) /\ queues[n].msgs # <<>>
          /\ Len(queues[n].msgs) <= queues[n].depth /\ queues[n].depth \in Nat
      BY <1>3, <2>1, QueueTypes DEF read
    <2>3. /\ Tail(queues[n].msgs) \in Seq(Programs)
          /\ Len(Tail(queues[n].msgs)) <= queues[n].depth
      BY <2>2
    <2>4. queues' = [queues EXCEPT ![n].msgs = Tail(queues[n].msgs)]
      BY <1>3 DEF read
    <2>5. /\ queues' \in Seq(Queue) /\ Len(queues') = Len(queues)
          /\ \A m \in 1 .. Len(queues') : Len(queues'[m].msgs) <= queues'[m].depth
      BY <2>1, <2>3, <2>4, TrafficKeepsTypes
    <2> QED
      BY <1>3, <2>5 DEF read, TypeOK, Queues, Queue
  <1>4. ASSUME NEW p \in Programs, ProgramOpens(p)
        PROVE  TypeOK'
    BY <1>4 DEF ProgramOpens, TypeOK, Queues
  <1>5. ASSUME NEW p \in Programs, ProgramSends(p)
        PROVE  TypeOK'
    <2> DEFINE n == program[p].fd
    <2>1. n \in 1 .. Len(queues)
      BY <1>5 DEF ProgramSends, TypeOK, NameInOrder, OpenedFirst, Queues
    <2>2. /\ queues[n].msgs \in Seq(Programs)
          /\ Len(queues[n].msgs) < queues[n].depth /\ queues[n].depth \in Nat
      BY <1>5, <2>1, QueueTypes DEF ProgramSends
    <2>3. /\ Append(queues[n].msgs, p) \in Seq(Programs)
          /\ Len(Append(queues[n].msgs, p)) <= queues[n].depth
      BY <2>2
    <2>4. queues' = [queues EXCEPT ![n].msgs = Append(queues[n].msgs, p)]
      BY <1>5 DEF ProgramSends
    <2>5. /\ queues' \in Seq(Queue) /\ Len(queues') = Len(queues)
          /\ \A m \in 1 .. Len(queues') : Len(queues'[m].msgs) <= queues'[m].depth
      BY <2>1, <2>3, <2>4, TrafficKeepsTypes
    <2>6. program' \in [Programs -> [stage : {"start", "failed", "opened", "sent"}, fd : Queues]]
      BY <1>5 DEF ProgramSends, TypeOK
    <2> QED
      BY <1>5, <2>5, <2>6 DEF ProgramSends, TypeOK, Queues, Queue
  <1>6. CASE UNCHANGED vars
    BY <1>6 DEF vars, TypeOK, Queues
  <1> QED
    BY <1>1, <1>2, <1>3, <1>4, <1>5, <1>6 DEF Next, Collector

-----------------------------------------------------------------------------
(* The name.                                                               *)

\* Opening the queue makes the collector one of those that read the queue the
\* name refers to (mqueue/src/lib.rs:29-70).
LEMMA OpenKeepsName ==
    ASSUME TypeOK, NameInOrder, NEW c \in Collectors, NEW maxmsg \in Nat \ {0},
           open(c, maxmsg), UNCHANGED program,
           fd[c] = 0, at[c] \in {"start", "fallback"},
           ~Together => Up \subseteq {c}
    PROVE  NameInOrder'
  <1>1. /\ Len(queues) \in Nat /\ name' # 0
        /\ fd' = [fd EXCEPT ![c] = name'] /\ at' = [at EXCEPT ![c] = "opened"]
        /\ fd \in [Collectors -> Queues] /\ at \in [Collectors -> Stages]
        /\ \/ queues' = queues /\ name' = name
           \/ name = 0 /\ Len(queues') = Len(queues) + 1 /\ name' = Len(queues) + 1
    <2>1. CASE name # 0
      BY <2>1 DEF open, TypeOK
    <2>2. CASE name = 0
      BY <2>2 DEF open, TypeOK
    <2> QED
      BY <2>1, <2>2
  <1>2. Unopened' /\ OpenedFirst'
    BY <1>1 DEF NameInOrder, Unopened, OpenedFirst
  <1>3. NamedQueueHasOwner'
    BY <1>1 DEF NamedQueueHasOwner, Up, Opened
  <1>4. ASSUME ~Together
        PROVE  /\ \A d \in Up' : d = c
               /\ \A n \in 1 .. Len(queues') :
                     n # name' => \E d \in Collectors : at'[d] = "ended" /\ fd'[d] = n
    <2>1. \A d \in Up' : d = c
      BY <1>1, <1>4 DEF Up
    <2>2. ASSUME NEW n \in 1 .. Len(queues'), n # name'
          PROVE  \E d \in Collectors : at'[d] = "ended" /\ fd'[d] = n
      <3>1. n \in 1 .. Len(queues) /\ n # name
        BY <1>1, <2>2
      <3>2. PICK d \in Collectors : at[d] = "ended" /\ fd[d] = n
        BY <1>4, <3>1 DEF NameInOrder
      <3> QED
        BY <1>1, <3>2
    <2> QED
      BY <2>1, <2>2
  <1>5. NamedWhileUp'
    BY <1>1, <1>4 DEF NamedWhileUp, Opened
  <1> QED
    BY <1>2, <1>3, <1>4, <1>5 DEF NameInOrder

\* Dropping the reader removes the name: every queue without a name has a
\* reader that ended in order (mqueue/src/lib.rs:108-115).
LEMMA DropKeepsName ==
    ASSUME TypeOK, NameInOrder, NEW c \in Collectors, drop(c),
           at[c] \in {"opened", "running"}
    PROVE  NameInOrder'
  <1>1. /\ name' = 0 /\ at' = [at EXCEPT ![c] = "ended"]
        /\ UNCHANGED <<queues, fd, program>>
        /\ at \in [Collectors -> Stages]
    BY DEF drop, TypeOK
  <1>2. \A d \in Up' : d \in Up /\ d # c
    BY <1>1 DEF Up
  <1>3. /\ NamedQueueHasOwner'
        /\ Unopened' /\ OpenedFirst'
    BY <1>1 DEF NamedQueueHasOwner, NameInOrder, Unopened, OpenedFirst
  <1>4. c \in Up /\ c \in Opened
    BY DEF Up, Opened, NameInOrder, OpenedFirst
  <1>5. ASSUME ~Together
        PROVE  /\ Up' = {}
               /\ \A n \in 1 .. Len(queues') :
                     n # name' => \E d \in Collectors : at'[d] = "ended" /\ fd'[d] = n
    <2>1. Up' = {}
      BY <1>2, <1>4, <1>5 DEF NameInOrder
    <2>2. fd[c] = name
      BY <1>4, <1>5 DEF NameInOrder, NamedWhileUp
    <2> QED
      BY <1>1, <1>5, <2>1, <2>2 DEF NameInOrder
  <1> QED
    BY <1>3, <1>5 DEF NameInOrder, NamedWhileUp

\* The messages in the queues do not matter to the name.
LEMMA SameQueues ==
    ASSUME TypeOK, NameInOrder, UNCHANGED <<name, at, fd>>,
           \E n, q : queues' = [queues EXCEPT ![n] = q],
           \A p \in Programs : program'[p].stage \in {"opened", "sent"} => program'[p].fd # 0
    PROVE  NameInOrder'
  <1>1. Len(queues') = Len(queues)
    BY DEF TypeOK
  <1> QED
    BY <1>1 DEF NameInOrder, Unopened, OpenedFirst, NamedQueueHasOwner, NamedWhileUp, Up, Opened, Left

\* Every step keeps the name in order.
LEMMA NextName ==
    ASSUME TypeOK, NameInOrder, [Next]_vars
    PROVE  NameInOrder'
  <1>1. ASSUME NEW c \in Collectors, new(c)
        PROVE  NameInOrder'
    <2>1. at[c] = "start" /\ (~Together => Up \subseteq {c})
      BY <1>1 DEF new
    <2>3. fd[c] = 0
      BY <2>1 DEF NameInOrder, Unopened
    <2>2. open(c, DesiredMaxMsg) /\ UNCHANGED program
      BY <1>1 DEF new
    <2> QED
      BY <2>1, <2>2, <2>3, OpenKeepsName, MQueueAssumption
  <1>2. ASSUME NEW c \in Collectors, new_fallback(c)
        PROVE  NameInOrder'
    <2>1. ~Together => Up \subseteq {c}
      BY <1>2 DEF new_fallback, NameInOrder, Up
    <2> QED
      <3>1. at[c] = "fallback"
        BY <1>2 DEF new_fallback
      <3>3. fd[c] = 0
        BY <3>1 DEF NameInOrder, Unopened
      <3>2. open(c, MsgMax) /\ UNCHANGED program
        BY <1>2 DEF new_fallback
      <3> QED
        BY <2>1, <3>1, <3>2, <3>3, OpenKeepsName, MQueueAssumption
  <1>3. ASSUME NEW c \in Collectors, SetUpPanics(c) \/ MainReturns(c)
        PROVE  NameInOrder'
    BY <1>3, DropKeepsName DEF SetUpPanics, MainReturns
  <1>4. ASSUME NEW c \in Collectors,
               DepthRefused(c) \/ OpenFails(c) \/ SetUp(c) \/ Killed(c)
        PROVE  NameInOrder'
    <2>1. /\ UNCHANGED <<queues, name, fd, program>>
          /\ at \in [Collectors -> Stages]
          /\ \/ at[c] = "start" /\ at' = [at EXCEPT ![c] = "fallback"] /\ (Together \/ Up = {})
             \/ at[c] \in {"start", "fallback"} /\ at' = [at EXCEPT ![c] = "failed"]
             \/ at[c] = "opened" /\ at' = [at EXCEPT ![c] = "running"]
             \/ c \in Up /\ at' = [at EXCEPT ![c] = "killed"]
      BY <1>4 DEF DepthRefused, OpenFails, SetUp, Killed, TypeOK
    <2>2. Unopened' /\ OpenedFirst'
      BY <2>1 DEF NameInOrder, Unopened, OpenedFirst
    <2>3. NamedQueueHasOwner'
      <3>1. SUFFICES ASSUME name # 0
                     PROVE  \E d \in Opened : fd[d] = name /\ d \in Up' \cup Left'
        BY <2>1 DEF NamedQueueHasOwner, Opened
      <3>2. PICK d \in Opened : fd[d] = name /\ d \in Up \cup Left
        BY <3>1 DEF NameInOrder, NamedQueueHasOwner
      <3>3. at[d] \in {"opened", "running", "killed"}
        BY <3>2 DEF NameInOrder, Unopened, Opened, Up, Left
      <3>4. at'[d] = at[d] \/ at'[d] \in {"running", "killed"}
        BY <2>1, <3>2, <3>3 DEF Opened, Up
      <3> QED
        BY <3>2, <3>3, <3>4 DEF Opened, Up, Left
    <2>4. Up' \cap Opened' \subseteq Up \cap Opened
      BY <2>1 DEF NameInOrder, Up, Opened
    <2>5. NamedWhileUp'
      BY <2>1, <2>4 DEF NameInOrder, NamedWhileUp
    <2>6. ~Together => \A d, e \in Up' : d = e
      BY <2>1 DEF NameInOrder, Up
    <2>7. \A d \in Collectors : at[d] = "ended" => at'[d] = "ended"
      BY <2>1 DEF Up
    <2> QED
      BY <2>1, <2>2, <2>3, <2>5, <2>6, <2>7 DEF NameInOrder
  <1>5. CASE \/ \E c \in Collectors : read(c)
             \/ \E p \in Programs : ProgramOpens(p) \/ ProgramSends(p)
             \/ UNCHANGED vars
    <2>1. CASE \E c \in Collectors : read(c)
      <3>1. /\ UNCHANGED <<name, at, fd, program>>
            /\ \E n, q : queues' = [queues EXCEPT ![n] = q]
        BY <2>1 DEF read
      <3>2. \A p \in Programs : program'[p].stage \in {"opened", "sent"} => program'[p].fd # 0
        BY <3>1 DEF NameInOrder, Unopened, OpenedFirst
      <3> QED
        BY <3>1, <3>2, SameQueues
    <2>2. CASE \E p \in Programs : ProgramOpens(p)
      <3>1. /\ UNCHANGED <<queues, name, at, fd>>
            /\ \A p \in Programs :
                  program'[p].stage \in {"opened", "sent"} => program'[p].fd # 0
        BY <2>2 DEF ProgramOpens, TypeOK, NameInOrder, Unopened, OpenedFirst
      <3> QED
        BY <3>1 DEF NameInOrder, Unopened, OpenedFirst, NamedQueueHasOwner, NamedWhileUp, Up, Opened, Left
    <2>3. CASE \E p \in Programs : ProgramSends(p)
      <3>1. PICK p \in Programs : ProgramSends(p)
        BY <2>3
      <3>2. /\ UNCHANGED <<name, at, fd>>
            /\ \E n, q : queues' = [queues EXCEPT ![n] = q]
        BY <3>1 DEF ProgramSends
      <3>3. program[p].fd # 0 /\ program' = [program EXCEPT ![p].stage = "sent"]
        BY <3>1 DEF ProgramSends, NameInOrder, OpenedFirst
      <3>4. \A r \in Programs : program'[r].stage \in {"opened", "sent"} => program'[r].fd # 0
        BY <3>3 DEF TypeOK, NameInOrder, OpenedFirst
      <3> QED
        BY <3>2, <3>4, SameQueues
    <2> QED
      BY <1>5, <2>1, <2>2, <2>3
         DEF vars, NameInOrder, Unopened, OpenedFirst, NamedQueueHasOwner, NamedWhileUp, Up, Opened, Left
  <1> QED
    BY <1>1, <1>2, <1>3, <1>4, <1>5 DEF Next, Collector

-----------------------------------------------------------------------------

\* Types and name together are inductive: the queue's bound, and who may have
\* opened or unlinked what the name refers to.
THEOREM MQueueInvariant == Spec => [](TypeOK /\ NameInOrder)
  <1>1. Init => TypeOK /\ NameInOrder
    BY DEF Init, TypeOK, NameInOrder, Unopened, OpenedFirst, NamedQueueHasOwner, NamedWhileUp, Queues, Up, Opened, Stages
  <1>2. TypeOK /\ NameInOrder /\ [Next]_vars => (TypeOK /\ NameInOrder)'
    BY NextTypes, NextName
  <1> QED
    BY <1>1, <1>2, PTL DEF Spec

\* A collector that is up is found by the programs that start, also after a
\* killed run, if collectors run one at a time (mqueue/src/lib.rs:41).
THEOREM AlwaysNamedWhileUp == Spec => []NamedWhileUp
  <1>1. NameInOrder => NamedWhileUp
    BY DEF NameInOrder
  <1> QED
    BY <1>1, MQueueInvariant, PTL

\* The name is never left on a queue without a reader, except by a killed run,
\* also when collectors run together (mqueue/src/lib.rs:108-115).
THEOREM AlwaysNamedQueueHasOwner == Spec => []NamedQueueHasOwner
  <1>1. NameInOrder => NamedQueueHasOwner
    BY DEF NameInOrder
  <1> QED
    BY <1>1, MQueueInvariant, PTL

\* Programs that opened the queue of a killed run are heard by the next one
\* (mqueue/src/lib.rs:41, wrapper.c:28).
THEOREM AlwaysKilledQueueAdopted == Spec => []KilledQueueAdopted
  <1>1. TypeOK /\ NameInOrder => KilledQueueAdopted
    <2> SUFFICES ASSUME TypeOK, NameInOrder, ~Together,
                        NEW p \in Programs, NEW c \in Up \cap Opened,
                        program[p].fd \notin {0, fd[c]}
                 PROVE  \E d \in Collectors : at[d] = "ended" /\ fd[d] = program[p].fd
      BY DEF KilledQueueAdopted
    <2>1. program[p].fd \in 1 .. Len(queues) /\ fd[c] = name
      BY DEF TypeOK, Queues, NameInOrder, NamedWhileUp
    <2> QED
      BY <2>1 DEF NameInOrder
  <1> QED
    BY <1>1, MQueueInvariant, PTL

\* A run that opens while no other is up and none was killed finds no name: the
\* queue it gets is a new one, and empty (mqueue/src/lib.rs:29-51,
\* mqueue/src/lib.rs:108-115).
LEMMA OpensUnnamed ==
    ASSUME TypeOK, NameInOrder, Left = {}, NEW c \in Collectors, fd[c] = 0,
           Up \subseteq {c}
    PROVE  name = 0
  <1> SUFFICES ASSUME name # 0
               PROVE  FALSE
    OBVIOUS
  <1>1. PICK d \in Opened : fd[d] = name /\ d \in Up \cup Left
    BY DEF NameInOrder, NamedQueueHasOwner
  <1>2. d = c
    BY <1>1
  <1> QED
    BY <1>1, <1>2

\* A run that no killed one came before starts with an empty queue
\* (mqueue/src/lib.rs:29-51).
THEOREM AlwaysStartsEmpty == Spec => StartsEmpty
  <1>1. TypeOK /\ NameInOrder /\ [Next]_vars
            => [\A c \in Collectors :
                  Left = {} /\ ~Together /\ fd[c] = 0 /\ fd'[c] # 0
                      => queues'[fd'[c]].msgs = <<>>]_vars
    <2> SUFFICES ASSUME TypeOK, NameInOrder, [Next]_vars, NEW c \in Collectors,
                        Left = {}, ~Together, fd[c] = 0, fd'[c] # 0
                 PROVE  queues'[fd'[c]].msgs = <<>>
      OBVIOUS
    <2>1. PICK maxmsg \in Nat \ {0} : open(c, maxmsg) /\ Up \subseteq {c}
      <3>1. \E d \in Collectors : new(d) \/ new_fallback(d)
        BY DEF Next, Collector, vars, DepthRefused, OpenFails, SetUp, SetUpPanics, MainReturns, drop,
               Killed, read, ProgramOpens, ProgramSends
      <3>2. PICK d \in Collectors : new(d) \/ new_fallback(d)
        BY <3>1
      <3>3. d = c
        BY <3>2 DEF new, new_fallback, open, TypeOK
      <3>4. CASE new(d)
        BY <3>3, <3>4, MQueueAssumption DEF new
      <3>5. CASE new_fallback(d)
        BY <3>3, <3>5, MQueueAssumption DEF new_fallback, NameInOrder, Up
      <3> QED
        BY <3>2, <3>4, <3>5
    <2>2. name = 0
      BY <2>1, OpensUnnamed
    <2>3. /\ queues' = Append(queues, [depth |-> maxmsg, msgs |-> <<>>])
          /\ fd'[c] = Len(queues')
      BY <2>1, <2>2 DEF open, TypeOK
    <2>4. queues \in Seq(Queue) /\ [depth |-> maxmsg, msgs |-> <<>>] \in Queue
      BY DEF TypeOK, Queue
    <2>5. queues'[Len(queues')] = [depth |-> maxmsg, msgs |-> <<>>]
      BY <2>3, <2>4
    <2> QED
      BY <2>3, <2>5
  <1> QED
    BY <1>1, MQueueInvariant, PTL DEF Spec, StartsEmpty
=============================================================================
