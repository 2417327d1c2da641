-------------------------- MODULE ThreadstatProofs --------------------------
(***************************************************************************)
(* Proofs about Threadstat, for any threads, tids, queue depth, event      *)
(* groups, faults and abrupt endings.                                      *)
(***************************************************************************)
EXTENDS Fork, FiniteSetTheorems, TLAPS

\* The State on its own, with calls in any order, and what is proved about it.
Calls == INSTANCE StateCallsProofs

-----------------------------------------------------------------------------
(* The queue: what a send and a receive do to Alternate.                     *)

\* Sending appends a message and leaves the others where they are (mq_send).
LEMMA AppendFacts ==
    ASSUME NEW q \in Seq(Messages), NEW m \in Messages
    PROVE  /\ Append(q, m) \in Seq(Messages)
           /\ Len(Append(q, m)) = Len(q) + 1
           /\ Append(q, m)[Len(q) + 1] = m
           /\ \A n \in 1 .. Len(q) : Append(q, m)[n] = q[n]
           /\ Len(q) \in Nat
  OBVIOUS

\* Receiving takes the oldest message and moves the others up (mq_receive).
LEMMA TailFacts ==
    ASSUME NEW q \in Seq(Messages), q # <<>>
    PROVE  /\ Tail(q) \in Seq(Messages)
           /\ Len(Tail(q)) = Len(q) - 1
           /\ \A n \in 1 .. Len(q) - 1 : Tail(q)[n] = q[n + 1]
           /\ Head(q) = q[1] /\ Head(q) \in Messages
           /\ Len(q) \in Nat \ {0}
  OBVIOUS

\* What is to be known of the queue p that a send of m makes of q, as far as
\* messages about k go, with end the new position.
Sent(q, m, k, p, end) ==
    /\ Len(p) = end /\ p[end] = m /\ ~(end < end)
    /\ About(p, k) = About(q, k) \cup (IF m.tid = k THEN {end} ELSE {})
    /\ \A n \in About(q, k) :
          /\ n < end /\ ~(end < n) /\ p[n] = q[n]
          /\ NoneAbout(p, k, 1, n - 1) <=> NoneAbout(q, k, 1, n - 1)
          /\ NoneAbout(p, k, n + 1, end - 1) <=> NoneAbout(q, k, n + 1, Len(q))
          /\ NoneAbout(p, k, n + 1, end)
                <=> NoneAbout(q, k, n + 1, Len(q)) /\ m.tid # k
          /\ \A r \in About(q, k) :
                NoneAbout(p, k, n + 1, r - 1) <=> NoneAbout(q, k, n + 1, r - 1)
    /\ NoneAbout(p, k, 1, end - 1) <=> NoneAbout(q, k, 1, Len(q))
    /\ NoneAbout(p, k, 1, end) <=> NoneAbout(q, k, 1, Len(q)) /\ m.tid # k
    /\ m.tid = k => NoneAbout(p, k, end + 1, end)

LEMMA AppendSends ==
    ASSUME NEW q \in Seq(Messages), NEW m \in Messages, NEW k \in Tids
    PROVE  Sent(q, m, k, Append(q, m), Len(q) + 1)
  <1> DEFINE p == Append(q, m)
             end == Len(q) + 1
  <1>1. /\ Len(p) = end /\ p[end] = m /\ Len(q) \in Nat
        /\ \A n \in 1 .. Len(q) : p[n] = q[n]
    BY AppendFacts
  <1> HIDE DEF p
  <1>2. /\ \A n \in About(q, k) : n < end /\ ~(end < n) /\ p[n] = q[n]
        /\ About(p, k) = About(q, k) \cup (IF m.tid = k THEN {end} ELSE {})
        /\ end \notin About(q, k)
    BY <1>1 DEF About
  <1>3. \A i \in Nat \ {0}, j \in Int : j <= Len(q) =>
            (NoneAbout(p, k, i, j) <=> NoneAbout(q, k, i, j))
    BY <1>1 DEF NoneAbout
  <1>4. \A i \in 1 .. end : NoneAbout(p, k, i, end)
            <=> NoneAbout(q, k, i, Len(q)) /\ m.tid # k
    BY <1>1 DEF NoneAbout
  <1>5. About(q, k) \subseteq 1 .. Len(q) /\ end - 1 = Len(q) /\ ~(end < end)
    BY <1>1 DEF About
  <1>6. /\ NoneAbout(p, k, 1, end - 1) <=> NoneAbout(q, k, 1, Len(q))
        /\ NoneAbout(p, k, 1, end) <=> NoneAbout(q, k, 1, Len(q)) /\ m.tid # k
        /\ NoneAbout(p, k, end + 1, end)
    <2>1. NoneAbout(p, k, end + 1, end)
      BY <1>1 DEF NoneAbout
    <2> QED
      BY <1>1, <1>3, <1>4, <2>1
  <1>7. ASSUME NEW n \in About(q, k)
        PROVE  /\ NoneAbout(p, k, 1, n - 1) <=> NoneAbout(q, k, 1, n - 1)
               /\ NoneAbout(p, k, n + 1, end - 1) <=> NoneAbout(q, k, n + 1, Len(q))
               /\ NoneAbout(p, k, n + 1, end)
                     <=> NoneAbout(q, k, n + 1, Len(q)) /\ m.tid # k
               /\ \A r \in About(q, k) :
                     NoneAbout(p, k, n + 1, r - 1) <=> NoneAbout(q, k, n + 1, r - 1)
    BY <1>1, <1>3, <1>4, <1>5
  <1> HIDE DEF end
  <1> QED
    BY <1>1, <1>2, <1>5, <1>6, <1>7 DEF p, end, Sent

\* And of the queue p that a receive makes of q, in which the message at n was
\* at up(n).
up(n) == n + 1
Received(q, k, p) ==
    /\ Head(q) = q[1] /\ (1 \in About(q, k) <=> Head(q).tid = k)
    /\ NoneAbout(q, k, 1, 1 - 1)
    /\ \A m \in About(q, k) : m = 1 \/ \E n \in About(p, k) : m = up(n)
    /\ \A n \in About(p, k) :
          /\ up(n) \in About(q, k) /\ p[n] = q[up(n)] /\ 1 < up(n) /\ ~(up(n) < 1)
          /\ NoneAbout(p, k, 1, n - 1) <=> NoneAbout(q, k, 1 + 1, up(n) - 1)
          /\ NoneAbout(q, k, 1, up(n) - 1)
                <=> NoneAbout(q, k, 1 + 1, up(n) - 1) /\ Head(q).tid # k
          /\ NoneAbout(p, k, n + 1, Len(p)) <=> NoneAbout(q, k, up(n) + 1, Len(q))
          /\ \A r \in About(p, k) :
                /\ n < r <=> up(n) < up(r)
                /\ NoneAbout(p, k, n + 1, r - 1)
                      <=> NoneAbout(q, k, up(n) + 1, up(r) - 1)
    /\ NoneAbout(p, k, 1, Len(p)) <=> NoneAbout(q, k, 1 + 1, Len(q))
    /\ NoneAbout(q, k, 1, Len(q)) <=> NoneAbout(q, k, 1 + 1, Len(q)) /\ Head(q).tid # k

LEMMA TailReceives ==
    ASSUME NEW q \in Seq(Messages), q # <<>>, NEW k \in Tids
    PROVE  Received(q, k, Tail(q))
  <1> DEFINE p == Tail(q)
  <1>1. /\ Len(p) = Len(q) - 1 /\ Head(q) = q[1] /\ Len(q) \in Nat \ {0}
        /\ \A n \in 1 .. Len(q) - 1 : p[n] = q[n + 1]
    BY TailFacts
  <1> HIDE DEF p
  <1>2. \A n \in About(p, k) : n + 1 \in About(q, k)
    BY <1>1 DEF About
  <1>3. ASSUME NEW i \in Nat \ {0}, NEW j \in Int, j <= Len(q) - 1
        PROVE  NoneAbout(p, k, i, j) <=> NoneAbout(q, k, i + 1, j + 1)
    <2>1. ASSUME NoneAbout(p, k, i, j), NEW n \in i + 1 .. j + 1
          PROVE  q[n].tid # k
      <3>1. PICK r \in i .. j : n = r + 1 /\ r \in 1 .. Len(q) - 1
        BY <1>1, <1>3
      <3> QED
        BY <1>1, <2>1, <3>1 DEF NoneAbout
    <2>2. ASSUME NoneAbout(q, k, i + 1, j + 1), NEW n \in i .. j
          PROVE  p[n].tid # k
      <3>1. n + 1 \in i + 1 .. j + 1 /\ n \in 1 .. Len(q) - 1
        BY <1>1, <1>3
      <3> QED
        BY <1>1, <2>2, <3>1 DEF NoneAbout
    <2> QED
      BY <2>1, <2>2 DEF NoneAbout
  <1>4. \A j \in 1 .. Len(q) : NoneAbout(q, k, 1, j)
            <=> NoneAbout(q, k, 1 + 1, j) /\ Head(q).tid # k
    BY <1>1 DEF NoneAbout
  <1>5. About(p, k) \subseteq 1 .. Len(p)
    BY DEF About
  <1>6. 1 \in About(q, k) <=> Head(q).tid = k
    BY <1>1 DEF About
  <1>7. ASSUME NEW n \in About(p, k)
        PROVE  /\ up(n) \in About(q, k) /\ p[n] = q[up(n)] /\ 1 < up(n) /\ ~(up(n) < 1)
               /\ NoneAbout(p, k, 1, n - 1) <=> NoneAbout(q, k, 1 + 1, up(n) - 1)
               /\ NoneAbout(q, k, 1, up(n) - 1)
                     <=> NoneAbout(q, k, 1 + 1, up(n) - 1) /\ Head(q).tid # k
               /\ NoneAbout(p, k, n + 1, Len(p)) <=> NoneAbout(q, k, up(n) + 1, Len(q))
    <2>1. n \in 1 .. Len(q) - 1 /\ up(n) \in About(q, k) /\ p[n] = q[up(n)]
      BY <1>1, <1>2, <1>5 DEF up
    <2>2. NoneAbout(p, k, 1, n - 1) <=> NoneAbout(q, k, 1 + 1, n - 1 + 1)
      BY <1>1, <1>3, <2>1
    <2>3. NoneAbout(p, k, n + 1, Len(p)) <=> NoneAbout(q, k, n + 1 + 1, Len(p) + 1)
      BY <1>1, <1>3, <2>1
    <2>4. NoneAbout(q, k, 1, n) <=> NoneAbout(q, k, 1 + 1, n) /\ Head(q).tid # k
      BY <1>1, <1>4, <2>1
    <2>5. /\ n - 1 + 1 = n /\ n + 1 = up(n) /\ up(n) - 1 = n /\ 1 < up(n) /\ ~(up(n) < 1)
          /\ Len(p) + 1 = Len(q)
      BY <1>1, <2>1 DEF up
    <2> QED
      BY <2>1, <2>2, <2>3, <2>4, <2>5
  <1>8. ASSUME NEW n \in About(p, k), NEW r \in About(p, k)
        PROVE  /\ n < r <=> up(n) < up(r)
               /\ NoneAbout(p, k, n + 1, r - 1)
                     <=> NoneAbout(q, k, up(n) + 1, up(r) - 1)
    <2>1. n \in 1 .. Len(q) - 1 /\ r \in 1 .. Len(q) - 1
      BY <1>1, <1>5
    <2>2. NoneAbout(p, k, n + 1, r - 1) <=> NoneAbout(q, k, n + 1 + 1, r - 1 + 1)
      BY <1>1, <1>3, <2>1
    <2>3. r - 1 + 1 = up(r) - 1 /\ n + 1 = up(n) /\ (n < r <=> up(n) < up(r))
      BY <1>1, <2>1 DEF up
    <2> QED
      BY <2>2, <2>3
  <1>9. /\ NoneAbout(p, k, 1, Len(p)) <=> NoneAbout(q, k, 1 + 1, Len(q))
        /\ NoneAbout(q, k, 1, Len(q)) <=> NoneAbout(q, k, 1 + 1, Len(q)) /\ Head(q).tid # k
    <2>1. NoneAbout(p, k, 1, Len(p)) <=> NoneAbout(q, k, 1 + 1, Len(p) + 1)
      BY <1>1, <1>3
    <2>2. Len(p) + 1 = Len(q) /\ Len(q) \in 1 .. Len(q)
      BY <1>1
    <2> QED
      BY <1>4, <2>1, <2>2
  <1>10. NoneAbout(q, k, 1, 1 - 1)
    BY DEF NoneAbout
  <1>11. ASSUME NEW m \in About(q, k), m # 1
         PROVE  \E n \in About(p, k) : m = up(n)
    <2>1. m - 1 \in 1 .. Len(q) - 1 /\ m = (m - 1) + 1
      BY <1>1, <1>11 DEF About
    <2>2. m - 1 \in About(p, k)
      BY <1>1, <2>1 DEF About
    <2> QED
      BY <2>1, <2>2 DEF up
  <1> QED
    BY <1>1, <1>6, <1>7, <1>8, <1>9, <1>10, <1>11 DEF p, Received

\* An ADD about k goes to the end of the queue: its sender is there.
LEMMA SendAddAlternates ==
    ASSUME NEW q, NEW p, NEW m, NEW end, NEW k, NEW taken, NEW before, NEW after,
           Alternate(q, k, taken, before), Sent(q, m, k, p, end),
           m.tid = k, m.flag = "add", k \in after
    PROVE  Alternate(p, k, taken, after)
  <1>1. ASSUME NEW n \in About(p, k), p[n].flag = "remove"
        PROVE  /\ NoneAbout(p, k, 1, n - 1) => k \in taken
               /\ ~NoneAbout(p, k, n + 1, Len(p))
    BY <1>1 DEF Alternate, Sent
  <1>2. ASSUME NEW n \in About(p, k), NEW r \in About(p, k), n < r,
               NoneAbout(p, k, n + 1, r - 1), p[n].flag = "remove"
        PROVE  p[r].flag = "add"
    BY <1>2 DEF Alternate, Sent
  <1>3. ~NoneAbout(p, k, 1, Len(p))
    BY DEF Sent
  <1> QED
    BY <1>1, <1>2, <1>3 DEF Alternate

\* A REMOVE about k goes to the end of the queue: its sender was there until
\* then, so that the last message about k, if any, is an ADD.
LEMMA SendRemoveAlternates ==
    ASSUME NEW q, NEW p, NEW m, NEW end, NEW k, NEW taken, NEW before, NEW after,
           Alternate(q, k, taken, before), Sent(q, m, k, p, end),
           m.tid = k, m.flag = "remove", k \in before, k \notin after
    PROVE  Alternate(p, k, taken, after)
  <1>1. ASSUME NEW n \in About(p, k), p[n].flag = "remove"
        PROVE  NoneAbout(p, k, 1, n - 1) => k \in taken
    BY <1>1 DEF Alternate, Sent
  <1>2. ASSUME NEW n \in About(p, k), NEW r \in About(p, k), n < r,
               NoneAbout(p, k, n + 1, r - 1), p[n].flag = "remove"
        PROVE  p[r].flag = "add"
    <2>1. n \in About(q, k) /\ q[n].flag = "remove"
      BY <1>2 DEF Sent
    <2>2. CASE r = end
      <3>1. ~NoneAbout(q, k, n + 1, Len(q))
        BY <2>1 DEF Alternate
      <3> QED
        BY <1>2, <2>1, <2>2, <3>1 DEF Sent
    <2>3. CASE r # end
      BY <1>2, <2>1, <2>3 DEF Alternate, Sent
    <2> QED
      BY <2>2, <2>3
  <1> QED
    BY <1>1, <1>2 DEF Alternate

\* A message about another tid makes no difference to k.
LEMMA SendOtherAlternates ==
    ASSUME NEW q, NEW p, NEW m, NEW end, NEW k, NEW taken, NEW before, NEW after,
           Alternate(q, k, taken, before), Sent(q, m, k, p, end),
           m.tid # k, k \in before <=> k \in after
    PROVE  Alternate(p, k, taken, after)
  BY DEF Alternate, Sent

\* Handling an ADD leaves the tid taken.
LEMMA ReceiveAddAlternates ==
    ASSUME NEW q, NEW p, NEW k, NEW before, NEW after, NEW announced,
           Alternate(q, k, before, announced), Received(q, k, p),
           Head(q).tid = k, Head(q).flag = "add", k \in after
    PROVE  Alternate(p, k, after, announced)
  <1>1. ASSUME NEW n \in About(p, k), p[n].flag = "remove"
        PROVE  /\ NoneAbout(p, k, 1, n - 1) => k \in after
               /\ NoneAbout(p, k, n + 1, Len(p)) => k \notin announced
    BY <1>1 DEF Alternate, Received
  <1>2. ASSUME NEW n \in About(p, k), NEW m \in About(p, k), n < m,
               NoneAbout(p, k, n + 1, m - 1), p[n].flag = "remove"
        PROVE  p[m].flag = "add"
    BY <1>2 DEF Alternate, Received
  <1>3. NoneAbout(p, k, 1, Len(p)) /\ k \in announced => k \in after
    BY DEF Alternate, Received
  <1> QED
    BY <1>1, <1>2, <1>3 DEF Alternate

\* Handling a REMOVE leaves it free: what follows starts with an ADD, and if
\* nothing follows nobody is there.
LEMMA ReceiveRemoveAlternates ==
    ASSUME NEW q, NEW p, NEW k, NEW before, NEW after, NEW announced,
           Alternate(q, k, before, announced), Received(q, k, p),
           Head(q).tid = k, Head(q).flag = "remove", k \notin after
    PROVE  Alternate(p, k, after, announced)
  <1>1. ASSUME NEW n \in About(p, k), p[n].flag = "remove"
        PROVE  /\ NoneAbout(p, k, 1, n - 1) => k \in after
               /\ NoneAbout(p, k, n + 1, Len(p)) => k \notin announced
    <2>1. 1 \in About(q, k) /\ up(n) \in About(q, k) /\ q[1].flag = "remove"
          /\ q[up(n)].flag = "remove" /\ 1 < up(n)
      BY <1>1 DEF Received
    <2>2. ~NoneAbout(q, k, 1 + 1, up(n) - 1)
      BY <2>1 DEF Alternate
    <2> QED
      BY <1>1, <2>1, <2>2 DEF Alternate, Received
  <1>2. ASSUME NEW n \in About(p, k), NEW m \in About(p, k), n < m,
               NoneAbout(p, k, n + 1, m - 1), p[n].flag = "remove"
        PROVE  p[m].flag = "add"
    BY <1>2 DEF Alternate, Received
  <1>3. NoneAbout(p, k, 1, Len(p)) /\ k \in announced => k \in after
    BY DEF Alternate, Received
  <1> QED
    BY <1>1, <1>2, <1>3 DEF Alternate

\* Handling a message about another tid makes no difference to k.
LEMMA ReceiveOtherAlternates ==
    ASSUME NEW q, NEW p, NEW k, NEW before, NEW after, NEW announced,
           Alternate(q, k, before, announced), Received(q, k, p),
           Head(q).tid # k, k \in before <=> k \in after
    PROVE  Alternate(p, k, after, announced)
  <1>1. ASSUME NEW n \in About(p, k), p[n].flag = "remove"
        PROVE  /\ NoneAbout(p, k, 1, n - 1) => k \in after
               /\ NoneAbout(p, k, n + 1, Len(p)) => k \notin announced
    BY <1>1 DEF Alternate, Received
  <1>2. ASSUME NEW n \in About(p, k), NEW m \in About(p, k), n < m,
               NoneAbout(p, k, n + 1, m - 1), p[n].flag = "remove"
        PROVE  p[m].flag = "add"
    BY <1>2 DEF Alternate, Received
  <1>3. NoneAbout(p, k, 1, Len(p)) /\ k \in announced => k \in after
    BY DEF Alternate, Received
  <1> QED
    BY <1>1, <1>2, <1>3 DEF Alternate

-----------------------------------------------------------------------------
(* Types.                                                                  *)

\* All the assumptions on the constants.
USE KernelAssumption, PreloadAssumption, StateAssumption, PollerAssumption,
    ThreadstatAssumption

-----------------------------------------------------------------------------
(* The State of Threadstat is that of StateCalls.                          *)

\* What StateCalls assumes of its constants.
LEMMA CallsAssumed == Faults \subseteq Calls!FaultKinds /\ NoTid \notin Tids /\ MaxWork \in Nat
  BY DEF FaultKinds, Calls!FaultKinds

\* Both have the same types.
LEMMA SameTypes == (StateTypeOK <=> Calls!StateTypeOK) /\ (StateTypeOK' <=> Calls!StateTypeOK')
  BY DEF StateTypeOK, Held, Ids, Groups, Ops,
         Calls!StateTypeOK, Calls!Held, Calls!Ids, Calls!Groups, Calls!Ops

\* The same calls, and the same steps in them.
LEMMA SameCalls ==
    /\ \A k : (open_tid(k) <=> Calls!open_tid(k)) /\ (close_tid(k) <=> Calls!close_tid(k))
    /\ flush_all <=> Calls!flush_all
    /\ JobStep <=> Calls!JobStep
  <1>1. \A k : (open_tid(k) <=> Calls!open_tid(k)) /\ (close_tid(k) <=> Calls!close_tid(k))
    BY DEF open_tid, close_tid, Idle, Job, NoJob, Held, Restrict, Calls!open_tid,
           Calls!close_tid, Calls!Idle, Calls!Job, Calls!NoJob, Calls!Held, Calls!Restrict
  <1>2. flush_all <=> Calls!flush_all
    BY DEF flush_all, Idle, Job, HeldIds, Held,
           Calls!flush_all, Calls!Idle, Calls!Job, Calls!HeldIds, Calls!Held
  <1>3. \A c \in Configs : OpenGroup(c) \/ OpenFails(c)
                             <=> Calls!OpenGroup(c) \/ Calls!OpenFails(c)
    BY DEF OpenGroup, OpenFails, TaskAt, Calls!OpenGroup, Calls!OpenFails, Calls!TaskAt
  <1>4. Insert <=> Calls!Insert
    BY DEF Insert, NoJob, Held, Calls!Insert, Calls!NoJob, Calls!Held
  <1>5. \A i : FlushGroup(i) <=> Calls!FlushGroup(i)
    BY DEF FlushGroup, Count, Calls!FlushGroup, Calls!Count
  <1>6. EndJob <=> Calls!EndJob
    BY DEF EndJob, NoJob, Calls!EndJob, Calls!NoJob
  <1>7. Ids = Calls!Ids
    BY DEF Ids, Calls!Ids
  <1> QED
    BY <1>1, <1>2, <1>3, <1>4, <1>5, <1>6, <1>7 DEF JobStep, Calls!JobStep

\* The calls of the handlers keep the types (state.rs:17-92).
LEMMA CallTypes ==
    ASSUME StateTypeOK,
           flush_all \/ \E k \in Tids : open_tid(k) \/ close_tid(k)
    PROVE  StateTypeOK'
  <1>1. Calls!StateTypeOK /\ (Calls!flush_all \/ \E k \in Tids : Calls!open_tid(k) \/ Calls!close_tid(k))
    BY SameTypes, SameCalls
  <1> QED
    BY <1>1, CallsAssumed, SameTypes, Calls!CallTypes

\* So do the steps of a job.
LEMMA JobTypes ==
    ASSUME StateTypeOK, KernelTypeOK, JobInOrder, CountsInOrder,
           JobStep, UNCHANGED kernelVars
    PROVE  StateTypeOK'
  <1>1. Calls!StateTypeOK /\ Calls!JobStep
    BY SameTypes, SameCalls
  <1>2. /\ Calls!KernelTypeOK /\ Calls!JobInOrder /\ Calls!CountsInOrder
        /\ UNCHANGED Calls!kernelVars
    BY DEF KernelTypeOK, JobInOrder, CountsInOrder, Held, Ids, kernelVars, Calls!KernelTypeOK,
           Calls!JobInOrder, Calls!CountsInOrder, Calls!Held, Calls!Ids, Calls!kernelVars
  <1> QED
    BY <1>1, <1>2, CallsAssumed, SameTypes, Calls!JobTypes


\* Everything starts empty.
LEMMA InitTypes == Init => TypeOK
  <1> SUFFICES ASSUME Init PROVE TypeOK
    OBVIOUS
  <1>1. PreloadTypeOK
    BY DEF Init, KernelInit, PreloadInit, PreloadTypeOK, KernelTypeOK, PCs
  <1>2. StateTypeOK
    <2> USE DEF Init, StateInit
    <2>1. Held = {} /\ groups \in [Held -> SUBSET Ids]
      BY DEF Held
    <2>2. perf \in Seq(Groups) /\ readId \in Nat
      OBVIOUS
    <2>3. job \in [op : Ops, tid : Tids \cup {NoTid},
                   configs : SUBSET Configs, ids : SUBSET Ids]
      BY DEF NoJob, Ops
    <2> QED
      BY <2>1, <2>2, <2>3 DEF StateTypeOK
  <1>3. PollerTypeOK
    BY DEF Init, PollerInit, PollerTypeOK, Loops
  <1>4. sigint \in BOOLEAN
    BY Zenon DEF Init
  <1>5. ticks \in 0 .. MaxTicks /\ phase \in Phases /\ stale \subseteq Tids
    BY DEF Init, Phases
  <1> QED
    BY <1>1, <1>2, <1>3, <1>4, <1>5 DEF TypeOK

\* A thread that has a control state other than "none" has a tid.
LEMMA HasTid ==
    ASSUME TypeOK, TasksInOrder, NEW t \in Threads, pc[t] # "none"
    PROVE  tid[t] \in Tids
  BY DEF TypeOK, PreloadTypeOK, KernelTypeOK, TasksInOrder

\* A message goes out while there is room.
LEMMA SendTypes ==
    ASSUME TypeOK, TasksInOrder, NEW t \in Threads, pc[t] # "none",
           NEW f \in Flags, mq_send(f, t)
    PROVE  /\ [flag |-> f, tid |-> tid[t]] \in Messages
           /\ queue' \in Seq(Messages) /\ Len(queue') <= QueueDepth
  <1>1. [flag |-> f, tid |-> tid[t]] \in Messages
    BY HasTid DEF Messages
  <1>2. queue \in Seq(Messages)
    BY DEF TypeOK, PreloadTypeOK
  <1> QED
    BY <1>1, <1>2, AppendFacts DEF mq_send

\* The threads' steps keep the types of the tasks, their control states and
\* the queue, which never holds more than its depth.
LEMMA ProcessTypes ==
    ASSUME TypeOK, TasksInOrder, ProcessStep
    PROVE  PreloadTypeOK'
  <1> USE DEF TypeOK, PreloadTypeOK, KernelTypeOK
  <1>1. ASSUME NEW t \in Threads, NEW k \in Tids, constructor(t, k)
        PROVE  PreloadTypeOK'
    BY <1>1 DEF constructor, Clone, PCs
  <1>2. ASSUME NEW t \in Threads, NEW k \in Tids, pthread_create(t, k)
        PROVE  PreloadTypeOK'
    BY <1>2 DEF pthread_create, Clone, PCs
  <1>3. ASSUME NEW t \in Threads, SendAdd(t)
        PROVE  PreloadTypeOK'
    BY <1>3, SendTypes DEF SendAdd, kernelVars, PCs, Flags
  <1>4. ASSUME NEW t \in Threads, cleanup_handler(t)
        PROVE  PreloadTypeOK'
    BY <1>4, SendTypes DEF cleanup_handler, kernelVars, PCs, Flags
  <1>5. ASSUME NEW t \in Threads, NEW how \in {"leave", "unwind"}, FinishFunction(t, how)
        PROVE  PreloadTypeOK'
    BY <1>5 DEF FinishFunction, kernelVars, PCs
  <1>6. ASSUME NEW t \in Threads, Exit(t)
        PROVE  PreloadTypeOK'
    BY <1>6 DEF Exit, Reap, PCs
  <1>7. ASSUME NEW t \in Threads, RunFunction(t)
        PROVE  PreloadTypeOK'
    BY <1>7 DEF RunFunction, Execute, preloadVars
  <1>8. \A s \in PCs : Ended(s) \in PCs
    BY DEF Ended, PCs, Announced
  <1>9. ASSUME NEW l \in Threads, EndProcess(l)
        PROVE  PreloadTypeOK'
    BY <1>8, <1>9 DEF EndProcess, Reap
  <1>10. ASSUME NEW t \in Threads, EndThread(t)
         PROVE  PreloadTypeOK'
    BY <1>8, <1>10 DEF EndThread, Reap
  <1>11. ASSUME NEW t \in Threads, Execve(t)
         PROVE  PreloadTypeOK'
    <2>1. "reannounce" \in PCs
      BY DEF PCs
    <2> QED
      BY <1>8, <1>11, <2>1 DEF Execve, Reap
  <1>12. ASSUME NEW t \in Threads, AbruptStep(t)
         PROVE  PreloadTypeOK'
    <2>1. Leader[t] \in Threads
      OBVIOUS
    <2> QED
      BY <1>9, <1>10, <1>11, <1>12, <2>1
      DEF AbruptStep, ProcessExit, SendInterrupted, MainThreadExit, CancelledInSend
  <1> QED
    BY <1>1, <1>2, <1>3, <1>4, <1>5, <1>6, <1>7, <1>12 DEF ProcessStep, ThreadStep

\* What the loop does to its tables and its batch.
LEMMA PollerTypes ==
    ASSUME PollerTypeOK,
           \/ epoll_wait(ReadyEvents) \/ wait_fails
           \/ \E e \in batch, result \in Results : Handled(e, result)
           \/ BatchDone
           \/ UNCHANGED pollerVars
    PROVE  PollerTypeOK'
  <1> USE DEF PollerTypeOK, Loops
  <1>1. ASSUME epoll_wait(ReadyEvents)
        PROVE  PollerTypeOK'
    <2>1. ReadyEvents \subseteq Events
      <3>1. \A key \in Keys : Event(key) \in Events
        BY DEF Event, Events
      <3> QED
        BY <3>1 DEF ReadyEvents
    <2> QED
      BY <1>1, <2>1 DEF epoll_wait
  <1>2. ASSUME NEW e \in batch, NEW result \in Results, Handled(e, result)
        PROVE  PollerTypeOK'
    BY <1>2 DEF Handled, deregister
  <1>3. ASSUME BatchDone
        PROVE  PollerTypeOK'
    BY <1>3 DEF BatchDone
  <1>4. ASSUME UNCHANGED pollerVars \/ wait_fails
        PROVE  PollerTypeOK'
    BY <1>4 DEF pollerVars, wait_fails
  <1> QED
    BY <1>1, <1>2, <1>3, <1>4

\* The parts of the system in the collector that a step may change: Stutter
\* changes neither the threads nor the State; Starts starts a flush.
Quiet == UNCHANGED <<kernelVars, preloadVars, stateVars>>
StartsFlush == flush_all /\ UNCHANGED <<kernelVars, preloadVars>>

\* What a step of the system is to the threads, the queue and the State.
LEMMA StepKinds ==
    ASSUME TypeOK, [Next]_vars
    PROVE  \/ ProcessStep \/ queue_handler \/ StateStep
           \/ StartsFlush \/ Quiet
  <1>1. CASE ProcessStep \/ queue_handler \/ StateStep
    BY <1>1
  <1>2. CASE Interrupt \/ TimerExpires \/ MainReturns \/ PollPanics
    BY <1>2 DEF Interrupt, TimerExpires, MainReturns, PollPanics, Quiet, Outside, stateVars
  <1>3. CASE Wait \/ SignalHandler \/ PollAgain \/ LoopFails
    BY <1>3 DEF Wait, SignalHandler, ReadSignal, PollAgain, LoopFails, WaitFails,
                TimerReadFails, ReceiveFails, Quiet
  <1>4. CASE TimerHandler \/ FinalFlush
    BY <1>4 DEF TimerHandler, ReadTimer, FinalFlush, StartsFlush
  <1>5. CASE UNCHANGED vars
    BY <1>5 DEF vars, Quiet
  <1> QED
    BY <1>1, <1>2, <1>3, <1>4, <1>5 DEF Next, Collector

\* What receiving a message is to the State.
LEMMA Receives ==
    ASSUME TypeOK, queue_handler
    PROVE  /\ queue # <<>> /\ queue' = Tail(queue) /\ UNCHANGED <<kernelVars, pc>>
           /\ Head(queue) \in Messages
           /\ \/ Head(queue).flag = "add" /\ open_tid(Head(queue).tid)
              \/ Head(queue).flag = "remove" /\ close_tid(Head(queue).tid)
  BY TailFacts DEF queue_handler, ReadMessage, TypeOK, PreloadTypeOK

\* Only the threads make a tid stale, or heal it.
LEMMA StaleUnchanged == [Next]_vars /\ ~ProcessStep => stale' = stale
  <1>1. CASE Interrupt \/ TimerExpires \/ Wait \/ SignalHandler \/ queue_handler \/ TimerHandler
    BY <1>1 DEF Interrupt, TimerExpires, Wait, SignalHandler, queue_handler, TimerHandler
  <1>2. CASE PollAgain \/ StateStep \/ FinalFlush \/ MainReturns \/ PollPanics
    BY <1>2 DEF PollAgain, StateStep, FinalFlush, MainReturns, PollPanics
  <1>3. CASE LoopFails \/ UNCHANGED vars
    BY <1>3 DEF LoopFails, WaitFails, TimerReadFails, ReceiveFails, vars
  <1> QED
    BY <1>1, <1>2, <1>3 DEF Next, Collector

LEMMA NextTypes ==
    ASSUME TypeOK, TasksInOrder, JobInOrder, CountsInOrder, [Next]_vars
    PROVE  TypeOK'
  <1>1. PreloadTypeOK'
    <2>1. CASE ProcessStep
      BY <2>1, ProcessTypes
    <2>2. CASE queue_handler
      <3>1. queue' \in Seq(Messages) /\ Len(queue') <= QueueDepth
        <4>1. queue \in Seq(Messages) /\ queue # <<>> /\ queue' = Tail(queue)
          BY <2>2, Receives DEF TypeOK, PreloadTypeOK
        <4>2. queue' \in Seq(Messages) /\ Len(queue') = Len(queue) - 1
              /\ Len(queue) \in Nat
          BY <4>1, TailFacts
        <4>3. Len(queue) <= QueueDepth
          BY DEF TypeOK, PreloadTypeOK
        <4> QED
          BY <4>2, <4>3
      <3> QED
        BY <2>2, <3>1, Receives DEF TypeOK, PreloadTypeOK, KernelTypeOK, kernelVars
    <2>3. CASE StateStep \/ StartsFlush \/ Quiet
      BY <2>3 DEF StateStep, StartsFlush, Quiet, TypeOK, PreloadTypeOK,
                  KernelTypeOK, kernelVars, preloadVars
    <2> QED
      BY <2>1, <2>2, <2>3, StepKinds
  <1>2. StateTypeOK'
    <2>1. CASE ProcessStep \/ Quiet
      BY <2>1 DEF ProcessStep, Outside, Quiet, TypeOK, StateTypeOK, stateVars, Held, Ids
    <2>2. CASE queue_handler
      <3>1. Head(queue).tid \in Tids
        BY <2>2, Receives DEF Messages
      <3> QED
        BY <2>2, <3>1, Receives, CallTypes DEF TypeOK
    <2>3. CASE StateStep
      BY <2>3, JobTypes DEF StateStep, TypeOK, PreloadTypeOK
    <2>4. CASE StartsFlush
      BY <2>4, CallTypes DEF StartsFlush, TypeOK
    <2> QED
      BY <2>1, <2>2, <2>3, <2>4, StepKinds
  <1>3. PollerTypeOK'
    <2>1. \/ epoll_wait(ReadyEvents) \/ wait_fails
          \/ \E e \in batch, result \in Results : Handled(e, result)
          \/ BatchDone
          \/ UNCHANGED pollerVars
      <3>1. CASE Wait \/ PollAgain \/ WaitFails
        BY <3>1 DEF Wait, PollAgain, WaitFails
      <3>2. CASE \/ SignalHandler \/ queue_handler \/ TimerHandler
                 \/ TimerReadFails \/ ReceiveFails
        BY <3>2 DEF SignalHandler, queue_handler, TimerHandler, TimerReadFails,
                    ReceiveFails, Handled, Delivers, Results
      <3>3. CASE ProcessStep \/ Interrupt \/ TimerExpires
        BY <3>3 DEF ProcessStep, Interrupt, TimerExpires, Outside
      <3>4. CASE StateStep \/ FinalFlush \/ MainReturns \/ PollPanics \/ UNCHANGED vars
        BY <3>4 DEF StateStep, FinalFlush, MainReturns, PollPanics, Outside, vars
      <3> QED
        BY <3>1, <3>2, <3>3, <3>4 DEF Next, Collector, LoopFails
    <2> QED
      BY <2>1, PollerTypes DEF TypeOK
  <1>4. sigint' \in BOOLEAN
    <2>1. CASE Interrupt
      BY <2>1, Zenon DEF Interrupt
    <2>2. CASE SignalHandler
      BY <2>2, Zenon DEF SignalHandler, ReadSignal
    <2>3. CASE ~Interrupt /\ ~SignalHandler
      <3>1. sigint' = sigint
        <4>1. CASE ProcessStep \/ TimerExpires \/ Wait \/ PollAgain \/ StateStep \/ LoopFails
          BY <4>1 DEF ProcessStep, TimerExpires, Wait, PollAgain, StateStep, LoopFails,
                      WaitFails, TimerReadFails, ReceiveFails, mainVars
        <4>2. CASE queue_handler \/ TimerHandler \/ FinalFlush \/ MainReturns \/ PollPanics
          BY <4>2 DEF queue_handler, TimerHandler, FinalFlush, MainReturns, PollPanics, mainVars
        <4>3. CASE UNCHANGED vars
          BY <4>3 DEF vars, mainVars
        <4> QED
          BY <2>3, <4>1, <4>2, <4>3 DEF Next, Collector
      <3> QED
        BY <3>1 DEF TypeOK
    <2> QED
      BY <2>1, <2>2, <2>3
  <1>5. ticks' \in 0 .. MaxTicks /\ phase' \in Phases
    <2>0. ticks \in 0 .. MaxTicks /\ phase \in Phases
      BY DEF TypeOK
    <2> USE DEF Phases
    <2>1. CASE ProcessStep \/ Interrupt \/ TimerExpires
      BY <2>0, <2>1 DEF ProcessStep, Interrupt, TimerExpires, mainVars
    <2>2. CASE Wait \/ PollAgain \/ StateStep \/ LoopFails \/ UNCHANGED vars
      BY <2>0, <2>2 DEF Wait, PollAgain, StateStep, LoopFails, WaitFails, TimerReadFails,
                        ReceiveFails, vars, mainVars
    <2>3. CASE SignalHandler \/ queue_handler \/ TimerHandler
      BY <2>0, <2>3 DEF SignalHandler, ReadSignal, queue_handler, ReadMessage, TimerHandler, ReadTimer, mainVars
    <2>4. CASE FinalFlush \/ MainReturns \/ PollPanics
      BY <2>0, <2>4 DEF FinalFlush, MainReturns, PollPanics
    <2> QED
      BY <2>1, <2>2, <2>3, <2>4 DEF Next, Collector
  <1>6. stale' \subseteq Tids
    <2>1. CASE ProcessStep
      <3>1. \A s : TidsTo(s) \subseteq Tids
        BY HasTid DEF TidsTo, Announced
      <3> QED
        BY <2>1, <3>1 DEF ProcessStep, TypeOK
    <2>2. CASE ~ProcessStep
      BY <2>2, StaleUnchanged DEF TypeOK
    <2> QED
      BY <2>1, <2>2
  <1> QED
    BY <1>1, <1>2, <1>3, <1>4, <1>5, <1>6 DEF TypeOK

-----------------------------------------------------------------------------
(* Who holds which tid.                                                    *)

\* A step of the threads that is not a send takes each thread along one of
\* these ways: an announced thread stays announced or is lost.
Drift(t) ==
    \/ pc'[t] = pc[t] /\ tid'[t] = tid[t]
    \/ pc[t] = "none" /\ pc'[t] = "announce"
    \/ /\ tid'[t] = tid[t] /\ pc[t] \in Announced
       /\ pc'[t] \in Announced \cup {"lost"}
    \/ /\ tid'[t] = tid[t] /\ pc[t] \in {"announce", "exiting"}
       /\ pc'[t] = "exited"

Drifts == queue' = queue /\ \A t \in Threads : Drift(t)

\* What kinds of step the threads make: a send, or a drift; and every one of
\* them keeps track of who holds which tid.
LEMMA ProcessKinds ==
    ASSUME TypeOK, TasksInOrder, ProcessStep
    PROVE  /\ TasksInOrder'
           /\ \/ \E t \in Threads : SendAdd(t) \/ cleanup_handler(t)
              \/ Drifts
  <1> USE DEF TypeOK, PreloadTypeOK, KernelTypeOK, TasksInOrder, Alive, Announced
  <1>1. ASSUME NEW t \in Threads, NEW k \in Tids, constructor(t, k) \/ pthread_create(t, k)
        PROVE  TasksInOrder' /\ Drifts
    <2>1. Clone(t, k) /\ pc' = [pc EXCEPT ![t] = "announce"] /\ queue' = queue
      BY <1>1 DEF constructor, pthread_create
    <2>2. tid[t] = NoTid /\ pc[t] = "none" /\ tid' = [tid EXCEPT ![t] = k]
          /\ live' = live \cup {t} /\ \A u \in live : tid[u] # k
      BY <2>1 DEF Clone, TaskAt
    <2>3. Drifts
      BY <2>1, <2>2 DEF Drifts, Drift
    <2>4. TasksInOrder'
      BY <2>1, <2>2
    <2> QED
      BY <2>3, <2>4
  <1>2. ASSUME NEW t \in Threads, SendAdd(t) \/ cleanup_handler(t)
        PROVE  TasksInOrder'
    BY <1>2 DEF SendAdd, cleanup_handler, kernelVars
  <1>3. ASSUME NEW t \in Threads, NEW how \in {"leave", "unwind"}, FinishFunction(t, how)
        PROVE  TasksInOrder' /\ Drifts
    BY <1>3 DEF FinishFunction, kernelVars, Drifts, Drift
  <1>4. ASSUME NEW t \in Threads, Exit(t)
        PROVE  TasksInOrder' /\ Drifts
    BY <1>4 DEF Exit, Reap, Drifts, Drift
  <1>5. ASSUME NEW t \in Threads, RunFunction(t)
        PROVE  TasksInOrder' /\ Drifts
    BY <1>5 DEF RunFunction, Execute, preloadVars, Drifts, Drift
  <1>6. ASSUME NEW l \in Threads, EndProcess(l)
        PROVE  TasksInOrder' /\ Drifts
    <2>1. /\ pc' = [t \in Threads |-> IF Leader[t] = l THEN Ended(pc[t]) ELSE pc[t]]
          /\ live' = live \ {t \in Threads : Leader[t] = l}
          /\ tid' = tid /\ queue' = queue
      BY <1>6 DEF EndProcess, Reap
    <2>2. Drifts
      BY <2>1 DEF Drifts, Drift, Ended, PCs
    <2>3. TasksInOrder'
      BY <2>1 DEF Ended, PCs
    <2> QED
      BY <2>2, <2>3
  <1>7. ASSUME NEW t \in Threads, EndThread(t)
        PROVE  TasksInOrder' /\ Drifts
    <2>1. /\ pc' = [pc EXCEPT ![t] = Ended(pc[t])] /\ live' = live \ {t}
          /\ tid' = tid /\ queue' = queue
      BY <1>7 DEF EndThread, Reap
    <2>2. Drifts
      BY <2>1 DEF Drifts, Drift, Ended, PCs
    <2>3. TasksInOrder'
      BY <2>1 DEF Ended, PCs
    <2> QED
      BY <2>2, <2>3
  <1>8. ASSUME NEW t \in Threads, Execve(t)
        PROVE  TasksInOrder' /\ Drifts
    <2> DEFINE others == {u \in Threads : Leader[u] = t /\ u # t}
    <2>1. /\ pc[t] = "run" /\ t \notin others
          /\ pc' = [u \in Threads |-> CASE u = t -> "reannounce"
                                         [] u \in others -> Ended(pc[u])
                                         [] OTHER -> pc[u]]
          /\ live' = live \ others /\ tid' = tid /\ queue' = queue
      BY <1>8 DEF Execve, Reap
    <2>2. \A u \in Threads : pc'[u] = IF u = t THEN "reannounce"
                                      ELSE IF u \in others THEN Ended(pc[u]) ELSE pc[u]
      BY <2>1
    <2>3. \A u \in Threads : Drift(u)
      BY <2>1, <2>2 DEF Drift, Ended, PCs
    <2>4. live' = {u \in Threads : pc'[u] \in Alive}
      BY <2>1, <2>2 DEF Ended, PCs
    <2>5. \A u \in Threads : pc'[u] = "none" <=> tid'[u] = NoTid
      BY <2>1, <2>2 DEF Ended, PCs
    <2> QED
      BY <2>1, <2>3, <2>4, <2>5 DEF Drifts
  <1>9. ASSUME NEW t \in Threads, AbruptStep(t)
        PROVE  TasksInOrder' /\ Drifts
    <2>1. Leader[t] \in Threads
      OBVIOUS
    <2> QED
      BY <1>6, <1>7, <1>8, <1>9, <2>1
      DEF AbruptStep, ProcessExit, SendInterrupted, MainThreadExit, CancelledInSend
  <1> QED
    BY <1>1, <1>2, <1>3, <1>4, <1>5, <1>9 DEF ProcessStep, ThreadStep

\* Only the threads' steps are about who holds which tid.
LEMMA NextTasks ==
    ASSUME TypeOK, TasksInOrder, [Next]_vars
    PROVE  TasksInOrder'
  <1>1. CASE ProcessStep
    BY <1>1, ProcessKinds
  <1>2. CASE queue_handler
    BY <1>2, Receives DEF TasksInOrder, kernelVars
  <1>3. CASE StateStep \/ StartsFlush \/ Quiet
    BY <1>3 DEF StateStep, StartsFlush, Quiet, TasksInOrder, kernelVars, preloadVars
  <1> QED
    BY <1>1, <1>2, <1>3, StepKinds

-----------------------------------------------------------------------------
(* The State between two messages.                                         *)

\* A call starts for a tid that is not, or no longer, in the table.
LEMMA NextJob ==
    ASSUME TypeOK, JobInOrder, [Next]_vars
    PROVE  JobInOrder'
  <1> USE DEF JobInOrder, Held
  <1>1. CASE ProcessStep \/ Quiet
    BY <1>1 DEF ProcessStep, Outside, Quiet, stateVars
  <1>2. CASE queue_handler
    <2>1. Head(queue).tid \in Tids
      BY <1>2, Receives DEF Messages
    <2>2. CASE open_tid(Head(queue).tid)
      BY <2>1, <2>2 DEF open_tid, Job, NoJob
    <2>3. CASE close_tid(Head(queue).tid)
      BY <2>1, <2>3 DEF close_tid, Job, NoJob, Restrict
    <2> QED
      BY <1>2, <2>2, <2>3, Receives
  <1>3. CASE StateStep
    <2> USE DEF TypeOK, StateTypeOK, StateStep
    <2>1. ASSUME NEW c \in Configs, OpenGroup(c) \/ OpenFails(c)
          PROVE  JobInOrder'
      BY <2>1 DEF OpenGroup, OpenFails
    <2>2. CASE Insert \/ EndJob
      BY <2>2 DEF Insert, EndJob, NoJob
    <2>3. ASSUME NEW i \in Ids, FlushGroup(i)
          PROVE  JobInOrder'
      BY <2>3 DEF FlushGroup
    <2> QED
      BY <1>3, <2>1, <2>2, <2>3 DEF JobStep
  <1>4. CASE StartsFlush
    BY <1>4 DEF StartsFlush, flush_all, Job
  <1> QED
    BY <1>1, <1>2, <1>3, <1>4, StepKinds

\* The fields of an opened group.
LEMMA PerfTypes ==
    ASSUME StateTypeOK, NEW i \in Ids
    PROVE  perf[i].task \in Threads /\ perf[i].base \in Nat /\ perf[i].config \in Configs
  <1>1. perf[i] \in Groups
    BY DEF StateTypeOK, Ids
  <1> QED
    BY <1>1 DEF Groups

\* A group starts to count at what its thread has executed, and threads only
\* go on.
LEMMA NextCounts ==
    ASSUME TypeOK, CountsInOrder, [Next]_vars
    PROVE  CountsInOrder'
  <1> USE DEF CountsInOrder, Ids
  <1>1. CASE ProcessStep
    <2>1. perf' = perf
      BY <1>1 DEF ProcessStep, Outside, stateVars
    <2>2. \A t \in Threads : work[t] \in Nat /\ work'[t] \in Nat /\ work[t] <= work'[t]
      <3>1. PICK t \in Threads :
               \/ \E k \in Tids : constructor(t, k) \/ pthread_create(t, k)
               \/ ThreadStep(t) \/ AbruptStep(t)
        BY <1>1 DEF ProcessStep
      <3>2. work \in [Threads -> 0 .. MaxWork]
        BY DEF TypeOK, PreloadTypeOK, KernelTypeOK
      <3>3. CASE RunFunction(t)
        BY <3>2, <3>3 DEF RunFunction, Execute
      <3>4. CASE ~RunFunction(t)
        <4>1. work' = work
          BY <3>1, <3>4 DEF constructor, pthread_create, Clone, ThreadStep, SendAdd,
             FinishFunction, cleanup_handler, Exit, Reap, kernelVars, AbruptStep,
             ProcessExit, SendInterrupted, MainThreadExit, CancelledInSend, Execve,
             EndProcess, EndThread
        <4> QED
          BY <3>2, <4>1
      <3> QED
        BY <3>3, <3>4
    <2>3. \A i \in Ids : perf[i].task \in Threads /\ perf[i].base \in Nat
      BY PerfTypes DEF TypeOK
    <2> QED
      BY <2>1, <2>2, <2>3
  <1>2. CASE queue_handler
    BY <1>2, Receives DEF kernelVars, open_tid, close_tid
  <1>3. CASE StateStep
    <2>1. work' = work
      BY <1>3 DEF StateStep, kernelVars
    <2>2. ASSUME NEW c \in Configs, OpenGroup(c)
          PROVE  CountsInOrder'
      <3>1. PICK t \in TaskAt(job.tid) :
               perf' = Append(perf, [task |-> t, config |-> c, base |-> work[t]])
        BY <2>2 DEF OpenGroup
      <3>2. [task |-> t, config |-> c, base |-> work[t]] \in Groups
        BY <3>1 DEF TaskAt, TypeOK, PreloadTypeOK, KernelTypeOK, Groups
      <3>3. work[t] <= work[t]
        BY DEF TaskAt, TypeOK, PreloadTypeOK, KernelTypeOK
      <3>4. perf \in Seq(Groups)
        BY DEF TypeOK, StateTypeOK
      <3> QED
        BY <2>1, <3>1, <3>2, <3>3, <3>4
    <2>3. CASE \/ \E c \in Configs : OpenFails(c)
               \/ Insert \/ EndJob \/ \E i \in Ids : FlushGroup(i)
      BY <2>1, <2>3 DEF OpenFails, Insert, EndJob, FlushGroup
    <2> QED
      BY <1>3, <2>2, <2>3 DEF StateStep, JobStep
  <1>4. CASE StartsFlush \/ Quiet
    BY <1>4 DEF StartsFlush, flush_all, Quiet, kernelVars, stateVars
  <1> QED
    BY <1>1, <1>2, <1>3, <1>4, StepKinds

-----------------------------------------------------------------------------
(* The messages under way.                                                 *)

\* A drift announces no tid, and ends the announcement of none but those it
\* makes stale.
LEMMA DriftKeepsAnnounced ==
    ASSUME TypeOK, TasksInOrder, ProcessStep, Drifts, NEW k \in Tids
    PROVE  /\ k \in AnnouncedTids' => k \in AnnouncedTids
           /\ k \in AnnouncedTids /\ k \notin AnnouncedTids' => k \in stale'
  <1>1. ASSUME NEW t \in Threads, tid[t] = k, pc[t] \in Announced, k \notin stale'
        PROVE  tid'[t] = k /\ pc'[t] \in Announced
    <2>1. tid'[t] = k /\ (pc'[t] \in Announced \/ pc'[t] = "lost")
      BY <1>1 DEF Drifts, Drift, Announced
    <2>2. pc'[t] # "lost"
      BY <1>1 DEF ProcessStep, TidsTo
    <2> QED
      BY <2>1, <2>2
  <1>2. ASSUME NEW t \in Threads, tid'[t] = k, pc'[t] \in Announced
        PROVE  tid[t] = k /\ pc[t] \in Announced
    BY <1>2 DEF Drifts, Drift, Announced
  <1> QED
    BY <1>1, <1>2 DEF AnnouncedTids

\* After its ADD the sender is announced; with its REMOVE it is not any more,
\* and nobody else holds its tid.
LEMMA SendChangesAnnounced ==
    ASSUME TypeOK, TasksInOrder, NEW t \in Threads
    PROVE  /\ SendAdd(t) => AnnouncedTids' = AnnouncedTids \cup {tid[t]}
           /\ cleanup_handler(t) =>
                 /\ tid[t] \in AnnouncedTids
                 /\ AnnouncedTids' = AnnouncedTids \ {tid[t]}
  <1> USE DEF TypeOK, PreloadTypeOK, AnnouncedTids, Announced
  <1>1. ASSUME SendAdd(t)
        PROVE  AnnouncedTids' = AnnouncedTids \cup {tid[t]}
    <2>1. pc[t] \in {"announce", "reannounce"} /\ tid' = tid
          /\ pc' = [pc EXCEPT ![t] = "run"]
      BY <1>1 DEF SendAdd, kernelVars
    <2> QED
      BY <2>1
  <1>2. ASSUME cleanup_handler(t)
        PROVE  tid[t] \in AnnouncedTids /\ AnnouncedTids' = AnnouncedTids \ {tid[t]}
    <2>1. pc[t] \in {"leave", "unwind"} /\ tid' = tid
          /\ pc' = [pc EXCEPT ![t] = "exiting"]
      BY <1>2 DEF cleanup_handler, kernelVars
    <2>2. \A u \in Threads : tid[u] = tid[t] /\ pc[u] \in Announced => u = t
      BY <2>1 DEF TasksInOrder, Alive
    <2> QED
      BY <2>1, <2>2
  <1> QED
    BY <1>1, <1>2

\* Which tids are taken changes only when a message is handled.
LEMMA TakenChanges ==
    ASSUME TypeOK, JobInOrder
    PROVE  /\ ProcessStep \/ StateStep \/ StartsFlush \/ Quiet => TakenTids' = TakenTids
           /\ \A k \in Tids : open_tid(k) => TakenTids' = TakenTids \cup {k}
           /\ \A k \in Tids : close_tid(k) => TakenTids' = TakenTids \ {k}
  <1> USE DEF TakenTids, Held
  <1>1. ASSUME ProcessStep \/ Quiet
        PROVE  TakenTids' = TakenTids
    BY <1>1 DEF ProcessStep, Quiet, Outside, stateVars
  <1>2. ASSUME StartsFlush
        PROVE  TakenTids' = TakenTids
    BY <1>2 DEF StartsFlush, flush_all, Idle, Job
  <1>3. ASSUME StateStep
        PROVE  TakenTids' = TakenTids
    <2> USE DEF TypeOK, StateTypeOK
    <2>1. ASSUME NEW c \in Configs, OpenGroup(c) \/ OpenFails(c)
          PROVE  TakenTids' = TakenTids
      BY <2>1 DEF OpenGroup, OpenFails
    <2>2. CASE Insert \/ EndJob
      BY <2>2 DEF Insert, EndJob, NoJob
    <2>3. ASSUME NEW i \in Ids, FlushGroup(i)
          PROVE  TakenTids' = TakenTids
      BY <2>3 DEF FlushGroup
    <2> QED
      BY <1>3, <2>1, <2>2, <2>3 DEF StateStep, JobStep
  <1>4. ASSUME NEW k \in Tids, open_tid(k)
        PROVE  TakenTids' = TakenTids \cup {k}
    BY <1>4 DEF open_tid, Idle, Job, NoJob
  <1>5. ASSUME NEW k \in Tids, close_tid(k)
        PROVE  TakenTids' = TakenTids \ {k}
    BY <1>5 DEF close_tid, Idle, Job, NoJob, Restrict
  <1> QED
    BY <1>1, <1>2, <1>3, <1>4, <1>5

\* What a step is to the messages about tid k, and to whether k is taken and
\* announced: a message goes out, or one is handled, or nothing of it changes.
SendsAbout(k) ==
    /\ TakenTids' = TakenTids
    /\ \E m \in Messages, end \in Nat :
          /\ Sent(queue, m, k, queue', end)
          /\ \/ m.tid = k /\ m.flag = "add" /\ k \in AnnouncedTids'
             \/ m.tid = k /\ m.flag = "remove" /\ k \in AnnouncedTids /\ k \notin AnnouncedTids'
             \/ m.tid # k /\ (k \in AnnouncedTids <=> k \in AnnouncedTids')

ReceivesAbout(k) ==
    /\ AnnouncedTids' = AnnouncedTids
    /\ Received(queue, k, queue')
    /\ \/ Head(queue).tid = k /\ Head(queue).flag = "add" /\ k \in TakenTids'
       \/ Head(queue).tid = k /\ Head(queue).flag = "remove" /\ k \notin TakenTids'
       \/ Head(queue).tid # k /\ (k \in TakenTids <=> k \in TakenTids')

KeepsAbout(k) ==
    /\ queue' = queue /\ TakenTids' = TakenTids
    /\ k \in AnnouncedTids' => k \in AnnouncedTids
    /\ k \in AnnouncedTids /\ k \notin AnnouncedTids' => k \in stale'

\* Every step of the system is one of these: only the threads send, and only
\* the message handler receives (wrapper.c, handlers.rs).
LEMMA QueueSteps ==
    ASSUME TypeOK, TasksInOrder, JobInOrder, [Next]_vars, NEW k \in Tids
    PROVE  SendsAbout(k) \/ ReceivesAbout(k) \/ KeepsAbout(k)
  <1>2. queue \in Seq(Messages)
    BY DEF TypeOK, PreloadTypeOK
  <1>3. CASE ProcessStep
    <2>1. TakenTids' = TakenTids
      BY <1>3, TakenChanges
    <2>2. ASSUME NEW t \in Threads, NEW f \in Flags, mq_send(f, t), pc[t] # "none"
          PROVE  \E m \in Messages, end \in Nat : /\ m.flag = f /\ m.tid = tid[t]
                                                  /\ Sent(queue, m, k, queue', end)
      <3> DEFINE m == [flag |-> f, tid |-> tid[t]]
      <3>1. m \in Messages /\ m.flag = f /\ m.tid = tid[t]
        BY <2>2, HasTid DEF Messages
      <3>2. queue' = Append(queue, m)
        BY <2>2 DEF mq_send
      <3> HIDE DEF m
      <3>3. Sent(queue, m, k, queue', Len(queue) + 1)
        BY <1>2, <3>1, <3>2, AppendSends
      <3>4. Len(queue) + 1 \in Nat
        BY <1>2
      <3> QED
        BY <3>1, <3>3, <3>4
    <2>3. ASSUME NEW t \in Threads, SendAdd(t)
          PROVE  SendsAbout(k)
      <3>1. PICK m \in Messages, end \in Nat : /\ m.flag = "add" /\ m.tid = tid[t]
                                              /\ Sent(queue, m, k, queue', end)
        BY <2>2, <2>3 DEF SendAdd, Flags
      <3>2. AnnouncedTids' = AnnouncedTids \cup {tid[t]}
        BY <2>3, SendChangesAnnounced
      <3> QED
        BY <2>1, <3>1, <3>2 DEF SendsAbout
    <2>4. ASSUME NEW t \in Threads, cleanup_handler(t)
          PROVE  SendsAbout(k)
      <3>1. PICK m \in Messages, end \in Nat : /\ m.flag = "remove" /\ m.tid = tid[t]
                                              /\ Sent(queue, m, k, queue', end)
        BY <2>2, <2>4 DEF cleanup_handler, Flags
      <3>2. tid[t] \in AnnouncedTids /\ AnnouncedTids' = AnnouncedTids \ {tid[t]}
        BY <2>4, SendChangesAnnounced
      <3> QED
        BY <2>1, <3>1, <3>2 DEF SendsAbout
    <2>5. CASE Drifts
      BY <1>3, <2>1, <2>5, DriftKeepsAnnounced DEF Drifts, KeepsAbout
    <2> QED
      BY <1>3, <2>3, <2>4, <2>5, ProcessKinds
  <1>4. CASE queue_handler
    <2> DEFINE m == Head(queue)
    <2>1. /\ queue # <<>> /\ queue' = Tail(queue) /\ m.tid \in Tids
          /\ \/ m.flag = "add" /\ open_tid(m.tid)
             \/ m.flag = "remove" /\ close_tid(m.tid)
      BY <1>4, Receives DEF Messages
    <2>2. Received(queue, k, queue')
      BY <1>2, <2>1, TailReceives
    <2>3. AnnouncedTids' = AnnouncedTids
      BY <1>4, Receives DEF AnnouncedTids, kernelVars
    <2>4. CASE m.flag = "add" /\ open_tid(m.tid)
      <3>1. TakenTids' = TakenTids \cup {m.tid}
        BY <2>1, <2>4, TakenChanges
      <3> QED
        BY <2>2, <2>3, <2>4, <3>1 DEF ReceivesAbout
    <2>5. CASE m.flag = "remove" /\ close_tid(m.tid)
      <3>1. TakenTids' = TakenTids \ {m.tid}
        BY <2>1, <2>5, TakenChanges
      <3> QED
        BY <2>2, <2>3, <2>5, <3>1 DEF ReceivesAbout
    <2> QED
      BY <2>1, <2>4, <2>5
  <1>5. CASE StateStep \/ StartsFlush \/ Quiet
    <2>1. TakenTids' = TakenTids
      BY <1>5, TakenChanges
    <2>2. queue' = queue /\ AnnouncedTids' = AnnouncedTids
      BY <1>5 DEF StateStep, StartsFlush, Quiet, kernelVars, preloadVars, AnnouncedTids
    <2> QED
      BY <2>1, <2>2 DEF KeepsAbout
  <1> QED
    BY <1>3, <1>4, <1>5, StepKinds

\* What is owed stays owed, whatever else is in the queue.
LEMMA StepOwed ==
    ASSUME NEW k, k \notin stale', Owed(queue, k, TakenTids, AnnouncedTids),
           SendsAbout(k) \/ ReceivesAbout(k) \/ KeepsAbout(k)
    PROVE  Owed(queue', k, TakenTids', AnnouncedTids')
  <1>1. CASE SendsAbout(k)
    BY <1>1 DEF SendsAbout, Owed, Sent
  <1>2. CASE ReceivesAbout(k)
    <2> SUFFICES ASSUME k \notin AnnouncedTids'
                 PROVE  /\ k \in TakenTids' =>
                              \E m \in About(queue', k) : queue'[m].flag = "remove"
                        /\ \A n \in About(queue', k) : queue'[n].flag = "add" =>
                              \E m \in About(queue', k) : n < m /\ queue'[m].flag = "remove"
      BY DEF Owed
    <2>1. ASSUME NEW n \in About(queue', k), queue'[n].flag = "add"
          PROVE  \E m \in About(queue', k) : n < m /\ queue'[m].flag = "remove"
      <3>1. PICK m \in About(queue, k) : up(n) < m /\ queue[m].flag = "remove"
        BY <1>2, <2>1 DEF ReceivesAbout, Owed, Received
      <3>2. PICK r \in About(queue', k) : m = up(r)
        BY <1>2, <3>1 DEF ReceivesAbout, Received
      <3> QED
        BY <1>2, <3>1, <3>2 DEF ReceivesAbout, Received
    <2>2. ASSUME k \in TakenTids'
          PROVE  \E m \in About(queue', k) : queue'[m].flag = "remove"
      <3>1. PICK m \in About(queue, k) : queue[m].flag = "remove" /\ m # 1
        BY <1>2, <2>2 DEF ReceivesAbout, Owed, Received
      <3>2. PICK r \in About(queue', k) : m = up(r)
        BY <1>2, <3>1 DEF ReceivesAbout, Received
      <3> QED
        BY <1>2, <3>1, <3>2 DEF ReceivesAbout, Received
    <2> QED
      BY <2>1, <2>2
  <1>3. CASE KeepsAbout(k)
    BY <1>3 DEF KeepsAbout, Owed
  <1> QED
    BY <1>1, <1>2, <1>3

\* A REMOVE about k goes to the end of the queue, and its sender was the last
\* that was announced.
RemovesAbout(k) ==
    /\ k \notin AnnouncedTids'
    /\ \E m \in Messages, end \in Nat :
          Sent(queue, m, k, queue', end) /\ m.tid = k /\ m.flag = "remove"

\* A tid was not stale before, unless it is healed by the REMOVE of its holder
\* (wrapper.c:70-74).
LEMMA StaleBefore ==
    ASSUME TypeOK, TasksInOrder, [Next]_vars, NEW k \in stale, k \notin stale'
    PROVE  RemovesAbout(k)
  <1>1. ProcessStep /\ k \in Tids /\ queue \in Seq(Messages)
    BY StaleUnchanged DEF TypeOK, PreloadTypeOK
  <1>2. PICK t \in Threads : tid[t] = k /\ pc[t] \in Announced /\ pc'[t] = "exiting"
    BY <1>1 DEF ProcessStep, TidsTo
  <1>3. cleanup_handler(t)
    <2>1. ~Drifts
      BY <1>2 DEF Drifts, Drift, Announced
    <2>2. PICK u \in Threads : SendAdd(u) \/ cleanup_handler(u)
      BY <1>1, <2>1, ProcessKinds
    <2> QED
      BY <1>2, <2>2 DEF SendAdd, cleanup_handler, Announced, TypeOK, PreloadTypeOK
  <1>4. k \notin AnnouncedTids'
    BY <1>2, <1>3, SendChangesAnnounced
  <1>5. PICK m \in Messages : m = [flag |-> "remove", tid |-> k]
    BY <1>1 DEF Messages, Flags
  <1>6. queue' = Append(queue, m) /\ m.tid = k /\ m.flag = "remove"
    BY <1>2, <1>3, <1>5 DEF cleanup_handler, mq_send
  <1>7. Sent(queue, m, k, queue', Len(queue) + 1) /\ Len(queue) + 1 \in Nat
    BY <1>1, <1>6, AppendSends
  <1> QED
    BY <1>4, <1>6, <1>7 DEF RemovesAbout

\* With that REMOVE at its end the queue has all that is owed to k, and was not
\* before.
LEMMA RemoveSettles ==
    ASSUME NEW k, RemovesAbout(k)
    PROVE  Owed(queue', k, TakenTids', AnnouncedTids')
  BY DEF RemovesAbout, Owed, Sent

\* What is owed to all tids that are not stale.
LEMMA NextOwed ==
    ASSUME TypeOK, TasksInOrder, JobInOrder, [Next]_vars, NEW k \in Tids, k \notin stale',
           k \notin stale => Owed(queue, k, TakenTids, AnnouncedTids)
    PROVE  Owed(queue', k, TakenTids', AnnouncedTids')
  BY QueueSteps, StepOwed, StaleBefore, RemoveSettles

\* MessagesInOrder is kept: a send and a receive by the lemmas on the queue,
\* any other step because it changes nothing that the tid's messages are about.
LEMMA NextMessages ==
    ASSUME TypeOK, TasksInOrder, JobInOrder, MessagesInOrder, [Next]_vars
    PROVE  MessagesInOrder'
  <1> SUFFICES ASSUME NEW k \in Tids
               PROVE  /\ Alternate(queue', k, TakenTids', AnnouncedTids')
                      /\ k \notin stale' => Owed(queue', k, TakenTids', AnnouncedTids')
    BY DEF MessagesInOrder
  <1>1. Alternate(queue, k, TakenTids, AnnouncedTids)
    BY DEF MessagesInOrder
  <1>2. CASE SendsAbout(k)
    BY <1>1, <1>2, NextOwed, SendAddAlternates, SendRemoveAlternates, SendOtherAlternates
       DEF SendsAbout, MessagesInOrder
  <1>3. CASE ReceivesAbout(k)
    BY <1>1, <1>3, NextOwed, ReceiveAddAlternates, ReceiveRemoveAlternates,
       ReceiveOtherAlternates DEF ReceivesAbout, MessagesInOrder
  <1>4. CASE KeepsAbout(k)
    BY <1>1, <1>4, NextOwed DEF KeepsAbout, Alternate, MessagesInOrder
  <1> QED
    BY <1>2, <1>3, <1>4, QueueSteps

-----------------------------------------------------------------------------
(* The entries of the announced threads.                                   *)

\* What EntriesInOrder says of thread t.
EntryInOrder(t) ==
    LET k == tid[t] IN
    /\ \A i \in EntryIds(k) : perf[i].task = t
    /\ "open" \notin Faults =>
          {perf[i].config : i \in EntryIds(k)} \cup StillToOpen(k) = Configs

\* Who has announced itself, and waits for nothing to be closed.
Alone(t) == pc[t] \in Announced /\ tid[t] \in TakenTids /\ ~RemovePending(tid[t])

LEMMA AloneEntries ==
    EntriesInOrder <=> \A t \in Threads : Alone(t) /\ tid[t] \notin stale => EntryInOrder(t)
  BY DEF EntriesInOrder, EntryInOrder, Alone

\* A thread that has announced itself had its tid before.
LEMMA AloneBefore ==
    ASSUME TypeOK, TasksInOrder, [Next]_vars, NEW t \in Threads, pc'[t] \in Announced
    PROVE  tid'[t] = tid[t] /\ pc[t] \in Announced \cup {"announce"}
  <1>1. CASE Drifts
    BY <1>1 DEF Drifts, Drift, Announced
  <1>2. ASSUME NEW u \in Threads, SendAdd(u) \/ cleanup_handler(u)
        PROVE  tid'[t] = tid[t] /\ pc[t] \in Announced \cup {"announce"}
    BY <1>2 DEF SendAdd, cleanup_handler, kernelVars, Announced, TypeOK, PreloadTypeOK
  <1>3. CASE queue_handler
    BY <1>3, Receives DEF kernelVars
  <1>4. CASE StateStep \/ StartsFlush \/ Quiet
    BY <1>4 DEF StateStep, StartsFlush, Quiet, kernelVars, preloadVars
  <1> QED
    BY <1>1, <1>2, <1>3, <1>4, ProcessKinds, StepKinds

\* A send only adds a message.
LEMMA SendKeepsPending ==
    ASSUME TypeOK, TasksInOrder, NEW t \in Threads, pc[t] # "none", NEW f \in Flags,
           mq_send(f, t), NEW k
    PROVE  RemovePending(k) => RemovePending(k)'
  <1>1. queue \in Seq(Messages) /\ [flag |-> f, tid |-> tid[t]] \in Messages
    BY SendTypes DEF TypeOK, PreloadTypeOK
  <1>2. /\ Len(queue') = Len(queue) + 1 /\ Len(queue) \in Nat
        /\ \A n \in 1 .. Len(queue) : queue'[n] = queue[n]
    BY <1>1, AppendFacts DEF mq_send
  <1> QED
    BY <1>2 DEF RemovePending

\* Of an announcing thread's tid a REMOVE is under way if the tid is taken: the
\* one of the thread that had the tid before.
LEMMA AnnounceWaitsForRemove ==
    ASSUME TypeOK, TasksInOrder, NEW t \in Threads, pc[t] = "announce",
           Owed(queue, tid[t], TakenTids, AnnouncedTids), tid[t] \in TakenTids
    PROVE  RemovePending(tid[t])
  <1>1. tid[t] \notin AnnouncedTids
    BY DEF AnnouncedTids, Announced, Alive, TasksInOrder, TypeOK, PreloadTypeOK
  <1> QED
    BY <1>1 DEF Owed, About, RemovePending

\* Nothing about an entry changes while the threads go on; a thread that has
\* just announced itself does not own the entry that an earlier holder of its
\* tid still has.
LEMMA ProcessEntry ==
    ASSUME TypeOK, TasksInOrder, ProcessStep, TakenTids' = TakenTids,
           NEW t \in Threads, Alone(t)', Alone(t) => EntryInOrder(t),
           pc[t] = "announce" => Owed(queue, tid[t], TakenTids, AnnouncedTids)
    PROVE  EntryInOrder(t)'
  <1>1. UNCHANGED stateVars
    BY DEF ProcessStep, Outside
  <1>2. ASSUME tid'[t] = tid[t], Alone(t)
        PROVE  EntryInOrder(t)'
    BY <1>1, <1>2 DEF EntryInOrder, EntryIds, StillToOpen, Held, stateVars
  <1>3. CASE Drifts
    <2>1. pc[t] \in Announced /\ tid'[t] = tid[t] /\ queue' = queue
      BY <1>3 DEF Drifts, Drift, Alone, Announced
    <2> QED
      BY <1>2, <2>1 DEF Alone, RemovePending
  <1>4. ASSUME NEW u \in Threads, SendAdd(u) \/ cleanup_handler(u)
        PROVE  EntryInOrder(t)'
    <2>1. tid' = tid /\ pc[u] # "none" /\ \E f \in Flags : mq_send(f, u)
      BY <1>4 DEF SendAdd, cleanup_handler, kernelVars, Flags
    <2>2. tid[t] \in TakenTids /\ ~RemovePending(tid[t])
      BY <2>1, SendKeepsPending DEF Alone
    <2>3. pc[t] \in Announced
      <3>1. pc[t] \in Announced \/ pc[t] = "announce"
        BY <1>4 DEF SendAdd, cleanup_handler, Alone, Announced, TypeOK, PreloadTypeOK
      <3> QED
        BY <2>2, <3>1, AnnounceWaitsForRemove
    <2> QED
      BY <1>2, <2>1, <2>2, <2>3 DEF Alone
  <1> QED
    BY <1>3, <1>4, ProcessKinds

\* Handling a message: an ADD of a free tid starts an entry with everything to
\* be opened, a REMOVE frees the tid, and other entries are not touched.
LEMMA ReceiveEntry ==
    ASSUME TypeOK, TasksInOrder, JobInOrder, queue_handler,
           NEW t \in Threads, Alone(t)', Alone(t) => EntryInOrder(t)
    PROVE  EntryInOrder(t)'
  <1> DEFINE m == Head(queue)
             k == tid[t]
  <1>1. /\ queue # <<>> /\ queue' = Tail(queue) /\ UNCHANGED <<tid, pc>>
        /\ m \in Messages
        /\ \/ m.flag = "add" /\ open_tid(m.tid)
           \/ m.flag = "remove" /\ close_tid(m.tid)
    BY Receives DEF kernelVars
  <1>2. (m.tid = k /\ m.flag = "remove") \/ ~RemovePending(k)
    <2>1. ~RemovePending(k)'
      BY <1>1 DEF Alone
    <2>2. queue \in Seq(Messages)
      BY DEF TypeOK, PreloadTypeOK
    <2>3. /\ Len(Tail(queue)) = Len(queue) - 1 /\ m = queue[1]
          /\ \A n \in 1 .. Len(queue) - 1 : Tail(queue)[n] = queue[n + 1]
          /\ Len(queue) \in Nat \ {0}
      BY <1>1, <2>2, TailFacts
    <2>4. ASSUME NEW n \in 1 .. Len(queue), queue[n].tid = k, queue[n].flag = "remove"
          PROVE  n = 1
      <3>1. CASE n # 1
        <4>1. n - 1 \in 1 .. Len(queue) - 1 /\ (n - 1) + 1 = n
          BY <2>3, <3>1
        <4>2. queue'[n - 1] = queue[n] /\ n - 1 \in 1 .. Len(queue')
          BY <1>1, <2>3, <4>1
        <4> QED
          BY <1>1, <2>1, <2>4, <4>2 DEF RemovePending
      <3> QED
        BY <3>1
    <2> QED
      BY <2>3, <2>4 DEF RemovePending
  <1>3. pc[t] \in Announced /\ k \in TakenTids' /\ m.tid \in Tids
    BY <1>1 DEF Alone, Messages
  <1>4. ASSUME open_tid(m.tid), m.flag = "add"
        PROVE  EntryInOrder(t)'
    <2>1. ~RemovePending(k)
      BY <1>2, <1>4
    <2>2. CASE k \in Held
      <3>1. k \in TakenTids
        BY <2>2 DEF TakenTids
      <3>2. EntryInOrder(t)
        BY <1>3, <2>1, <3>1 DEF Alone
      <3>3. groups' = groups /\ perf' = perf
        BY <1>4 DEF open_tid
      <3> QED
        BY <1>1, <2>2, <3>2, <3>3 DEF EntryInOrder, EntryIds, StillToOpen, Held
    <2>3. CASE k \notin Held
      <3>1. k = m.tid /\ job' = Job("open", k, Configs, {}) /\ groups' = groups
        BY <1>3, <1>4, <2>3 DEF open_tid, TakenTids, Held, Job, NoJob
      <3>2. EntryIds(k)' = {} /\ StillToOpen(k)' = Configs
        BY <1>1, <2>3, <3>1 DEF EntryIds, StillToOpen, Held, Job
      <3> QED
        BY <1>1, <3>2 DEF EntryInOrder
    <2> QED
      BY <2>2, <2>3
  <1>5. ASSUME close_tid(m.tid), m.flag = "remove"
        PROVE  EntryInOrder(t)'
    <2>1. TakenTids' = TakenTids \ {m.tid}
      BY <1>3, <1>5, TakenChanges
    <2>2. m.tid # k /\ k \in TakenTids /\ ~RemovePending(k)
      BY <1>2, <1>3, <2>1
    <2>3. EntryInOrder(t)
      BY <1>3, <2>2 DEF Alone
    <2>4. k \in Held
      BY <1>5, <2>2 DEF TakenTids, close_tid, Idle
    <2>5. perf' = perf /\ k \in Held' /\ groups'[k] = groups[k]
      BY <1>5, <2>2, <2>4 DEF close_tid, Restrict, Held
    <2> QED
      BY <1>1, <2>3, <2>4, <2>5 DEF EntryInOrder, EntryIds, StillToOpen
  <1> QED
    BY <1>1, <1>4, <1>5

\* The ids of an entry are ids.
LEMMA EntryTypes ==
    ASSUME StateTypeOK, NEW k
    PROVE  EntryIds(k) \subseteq Ids
  BY DEF StateTypeOK, EntryIds

\* While t holds the tid being opened, each group opened is attached to t, and
\* none fails unless opening may; the other entries are not touched.
LEMMA JobEntry ==
    ASSUME TypeOK, TasksInOrder, JobInOrder, StateStep,
           NEW t \in Threads, Alone(t)', Alone(t) => EntryInOrder(t)
    PROVE  EntryInOrder(t)'
  <1> DEFINE k == tid[t]
  <1>1. JobStep /\ UNCHANGED <<tid, live, pc, queue>> /\ TakenTids' = TakenTids
    BY TakenChanges DEF StateStep, kernelVars, preloadVars
  <1>2. Alone(t) /\ k \in TakenTids
    BY <1>1 DEF Alone, RemovePending
  <1>3. EntryInOrder(t)
    BY <1>2
  <1>4. t \in TaskAt(k) /\ \A u \in TaskAt(k) : u = t
    BY <1>2 DEF Alone, TaskAt, TasksInOrder, Alive
  <1>5. k \in Held \/ (k = job.tid /\ job.op = "open")
    BY <1>2 DEF TakenTids
  <1>6. EntryIds(k) \subseteq Ids
    BY EntryTypes DEF TypeOK
  <1>7. ASSUME perf' = perf, EntryIds(k)' = EntryIds(k), StillToOpen(k)' = StillToOpen(k)
        PROVE  EntryInOrder(t)'
    BY <1>1, <1>3, <1>7 DEF EntryInOrder
  <1>8. ASSUME NEW c \in Configs, OpenGroup(c)
        PROVE  EntryInOrder(t)'
    <2>1. PICK u \in TaskAt(job.tid) :
             perf' = Append(perf, [task |-> u, config |-> c, base |-> work[u]])
      BY <1>8 DEF OpenGroup
    <2> DEFINE new == [task |-> u, config |-> c, base |-> work[u]]
               end == Len(perf) + 1
    <2>2. perf \in Seq(Groups) /\ new \in Groups
      BY DEF TypeOK, PreloadTypeOK, KernelTypeOK, StateTypeOK, TaskAt, Groups
    <2>3. Len(perf') = end /\ perf'[end] = new /\ \A i \in Ids : perf'[i] = perf[i]
      BY <2>1, <2>2 DEF Ids
    <2> HIDE DEF new, end
    <2>4. groups' = groups /\ job.op = "open" /\ job.tid \notin Held
          /\ job' = [job EXCEPT !.configs = @ \ {c}, !.ids = @ \cup {end}]
      BY <1>8, <2>3 DEF OpenGroup, JobInOrder
    <2>5. CASE k \in Held
      <3>1. EntryIds(k)' = EntryIds(k) /\ StillToOpen(k)' = StillToOpen(k)
        BY <1>1, <2>4, <2>5 DEF EntryIds, StillToOpen, Held
      <3> QED
        BY <1>1, <1>3, <1>6, <2>3, <3>1 DEF EntryInOrder
    <2>6. CASE k = job.tid
      <3>1. k \notin Held /\ k \notin Held' /\ u = t
        BY <1>4, <2>4, <2>6 DEF Held
      <3>2. EntryIds(k) = job.ids /\ StillToOpen(k) = job.configs
        BY <3>1 DEF EntryIds, StillToOpen
      <3>3. EntryIds(k)' = job.ids \cup {end} /\ StillToOpen(k)' = job.configs \ {c}
        BY <1>1, <2>4, <3>1 DEF EntryIds, StillToOpen, TypeOK, StateTypeOK
      <3>4. perf'[end].task = t /\ perf'[end].config = c
        BY <2>3, <3>1 DEF new
      <3>5. \A i \in EntryIds(k)' : perf'[i].task = t
        BY <1>3, <1>6, <2>3, <3>2, <3>3, <3>4 DEF EntryInOrder
      <3>6. {perf'[i].config : i \in job.ids \cup {end}} =
               {perf[i].config : i \in job.ids} \cup {c}
        BY <1>6, <2>3, <3>2, <3>4
      <3>7. ASSUME "open" \notin Faults
            PROVE  {perf'[i].config : i \in EntryIds(k)'} \cup StillToOpen(k)' = Configs
        <4>1. {perf[i].config : i \in job.ids} \cup job.configs = Configs
          BY <1>3, <3>2, <3>7 DEF EntryInOrder
        <4> QED
          BY <3>3, <3>6, <4>1
      <3> QED
        BY <1>1, <3>5, <3>7 DEF EntryInOrder
    <2> QED
      BY <1>5, <2>5, <2>6
  <1>9. ASSUME NEW c \in Configs, OpenFails(c)
        PROVE  EntryInOrder(t)'
    <2>1. UNCHANGED <<groups, perf>> /\ job' = [job EXCEPT !.configs = @ \ {c}]
      BY <1>9 DEF OpenFails
    <2>2. EntryIds(k)' = EntryIds(k)
      BY <1>1, <2>1 DEF EntryIds, Held, TypeOK, StateTypeOK
    <2>3. CASE k \in Held
      BY <1>1, <1>7, <2>1, <2>2, <2>3 DEF StillToOpen, Held
    <2>4. CASE k = job.tid
      <3>1. "open" \in Faults
        BY <1>4, <1>9, <2>4 DEF OpenFails
      <3> QED
        BY <1>1, <1>3, <2>1, <2>2, <3>1 DEF EntryInOrder
    <2> QED
      BY <1>5, <2>3, <2>4
  <1>10. ASSUME Insert
         PROVE  EntryInOrder(t)'
    <2>1. /\ groups' = [j \in Held \cup {job.tid} |->
                          IF j = job.tid THEN job.ids ELSE groups[j]]
          /\ perf' = perf /\ job.configs = {} /\ job.tid \notin Held
      BY <1>10 DEF Insert, JobInOrder
    <2>2. k \in Held'
      BY <1>5, <2>1 DEF Held
    <2> QED
      BY <1>1, <1>5, <1>7, <2>1, <2>2 DEF EntryIds, StillToOpen, Held
  <1>11. ASSUME EndJob \/ \E i \in Ids : FlushGroup(i)
         PROVE  EntryInOrder(t)'
    <2>1. groups' = groups /\ perf' = perf /\ job.op # "open"
      BY <1>11 DEF EndJob, FlushGroup
    <2> QED
      BY <1>1, <1>5, <1>7, <2>1 DEF EntryIds, StillToOpen, Held
  <1> QED
    BY <1>1, <1>8, <1>9, <1>10, <1>11 DEF JobStep

\* No step takes an entry away from the thread that has it to itself, and no
\* thread finds itself with the entry of another.
LEMMA NextEntry ==
    ASSUME TypeOK, TasksInOrder, JobInOrder, [Next]_vars,
           NEW t \in Threads, Alone(t)', Alone(t) => EntryInOrder(t),
           pc[t] = "announce" => Owed(queue, tid[t], TakenTids, AnnouncedTids)
    PROVE  EntryInOrder(t)'
  <1>1. CASE ProcessStep
    BY <1>1, ProcessEntry, TakenChanges
  <1>2. CASE queue_handler
    BY <1>2, ReceiveEntry
  <1>3. CASE StateStep
    BY <1>3, JobEntry
  <1>4. CASE StartsFlush \/ Quiet
    <2>1. UNCHANGED <<tid, pc, queue, groups, perf>> /\ TakenTids' = TakenTids
      BY <1>4, TakenChanges DEF StartsFlush, Quiet, flush_all, kernelVars, preloadVars, stateVars
    <2>2. Alone(t) /\ EntryInOrder(t)
      BY <2>1 DEF Alone, RemovePending
    <2>3. CASE tid[t] \in Held
      BY <2>1, <2>2, <2>3 DEF EntryInOrder, EntryIds, StillToOpen, Held
    <2>4. CASE tid[t] \notin Held
      <3>1. job' = job
        BY <1>4, <2>2, <2>4 DEF StartsFlush, flush_all, Idle, Job, Quiet, stateVars, Alone, TakenTids, Held
      <3> QED
        BY <2>1, <2>2, <3>1 DEF EntryInOrder, EntryIds, StillToOpen, Held
    <2> QED
      BY <2>3, <2>4
  <1> QED
    BY <1>1, <1>2, <1>3, <1>4, StepKinds

\* The tid of a thread that is announced was not healed in this step.
LEMMA AloneNotHealed ==
    ASSUME TypeOK, TasksInOrder, [Next]_vars, NEW t \in Threads, pc'[t] \in Announced,
           tid'[t] \notin stale'
    PROVE  tid[t] \notin stale
  <1>1. tid'[t] \in AnnouncedTids' /\ tid'[t] = tid[t]
    BY AloneBefore DEF AnnouncedTids
  <1> QED
    BY <1>1, StaleBefore DEF RemovesAbout

LEMMA NextEntries ==
    ASSUME TypeOK, SystemInOrder, [Next]_vars
    PROVE  EntriesInOrder'
  <1> SUFFICES ASSUME NEW t \in Threads, Alone(t)', tid'[t] \notin stale'
               PROVE  EntryInOrder(t)'
    BY AloneEntries DEF EntriesInOrder, EntryInOrder, Alone
  <1> USE DEF SystemInOrder
  <1>1. tid[t] \notin stale /\ tid[t] = tid'[t] /\ pc[t] \in Announced \cup {"announce"}
    BY AloneBefore, AloneNotHealed DEF Alone
  <1>2. Alone(t) => EntryInOrder(t)
    BY <1>1, AloneEntries
  <1>3. Owed(queue, tid[t], TakenTids, AnnouncedTids)
    <2>1. tid[t] \in Tids
      BY <1>1, HasTid DEF Announced
    <2> QED
      BY <1>1, <2>1 DEF MessagesInOrder
  <1> QED
    BY <1>2, <1>3, NextEntry

-----------------------------------------------------------------------------
(* The theorems.                                                           *)

\* At first nobody is announced and no tid is taken.
LEMMA InitInOrder == Init => SystemInOrder
  <1> SUFFICES ASSUME Init PROVE SystemInOrder
    OBVIOUS
  <1> USE DEF Init, KernelInit, PreloadInit, StateInit
  <1>1. TasksInOrder
    BY DEF TasksInOrder, Alive, Announced
  <1>2. JobInOrder
    BY DEF JobInOrder, NoJob
  <1>3. CountsInOrder
    BY DEF CountsInOrder, Ids
  <1>4. AnnouncedTids = {} /\ TakenTids = {}
    BY DEF AnnouncedTids, TakenTids, Held, NoJob, Announced
  <1>5. MessagesInOrder
    BY <1>4 DEF MessagesInOrder, Alternate, Owed, About
  <1>6. EntriesInOrder
    BY <1>4 DEF EntriesInOrder
  <1> QED
    BY <1>1, <1>2, <1>3, <1>5, <1>6 DEF SystemInOrder

\* Every step of the system keeps the inductive invariant.
LEMMA NextInvariant ==
    ASSUME TypeOK, SystemInOrder, [Next]_vars
    PROVE  TypeOK' /\ SystemInOrder'
  <1>1. TypeOK'
    BY NextTypes DEF SystemInOrder
  <1>2. TasksInOrder' /\ JobInOrder' /\ CountsInOrder' /\ MessagesInOrder'
    BY NextTasks, NextJob, NextCounts, NextMessages DEF SystemInOrder
  <1>3. EntriesInOrder'
    BY NextEntries
  <1> QED
    BY <1>1, <1>2, <1>3 DEF SystemInOrder

\* The inductive invariant holds throughout: types, who holds which tid, what
\* call is in progress, what is under way in the queue, and whose counters are
\* in the table.
THEOREM Invariant == Spec => [](TypeOK /\ SystemInOrder)
  <1>1. Init => TypeOK /\ SystemInOrder
    BY InitTypes, InitInOrder
  <1>2. (TypeOK /\ SystemInOrder) /\ [Next]_vars => (TypeOK /\ SystemInOrder)'
    BY NextInvariant
  <1> QED
    BY <1>1, <1>2, PTL DEF Spec

\* Every variable keeps its type; among others, no count is negative and the
\* queue never exceeds its depth.
THEOREM TypeCorrect == Spec => []TypeOK
  BY Invariant, PTL

\* The messages under way fit the table and the announced threads, whatever
\* is sent, lost or handled (the part of the invariant the others rest on).
THEOREM AlwaysInOrder == Spec => []SystemInOrder
  BY Invariant, PTL

\* A thread between its ADD and its REMOVE is counted, by groups attached to
\* itself, once its messages are handled (wrapper.c:55-77, state.rs:17-45).
THEOREM AlwaysMonitored == Spec => []Monitored
  <1>1. TypeOK /\ SystemInOrder => Monitored
    <2> SUFFICES ASSUME TypeOK, SystemInOrder, NEW t \in Threads, pc[t] \in Announced,
                        Settled(tid[t]), tid[t] \notin stale
                 PROVE  /\ tid[t] \in Held
                        /\ \A i \in groups[tid[t]] : perf[i].task = t
                        /\ "open" \notin Faults =>
                              {perf[i].config : i \in groups[tid[t]]} = Configs
      BY DEF Monitored, Counted
    <2> USE DEF SystemInOrder
    <2>1. tid[t] \in Tids /\ tid[t] \in AnnouncedTids
      BY HasTid DEF Announced, AnnouncedTids
    <2>2. NoneAbout(queue, tid[t], 1, Len(queue)) /\ ~RemovePending(tid[t])
      BY DEF Settled, Pending, NoneAbout, RemovePending
    <2>3. tid[t] \in TakenTids
      BY <2>1, <2>2 DEF MessagesInOrder, Alternate
    <2>4. tid[t] \in Held
      BY <2>3 DEF Settled, Changing, TakenTids
    <2>5. EntryInOrder(t)
      BY <2>2, <2>3, AloneEntries DEF Alone
    <2> QED
      BY <2>4, <2>5 DEF EntryInOrder, EntryIds, StillToOpen
  <1> QED
    BY <1>1, Invariant, PTL

\* Nothing of a thread that has left in order stays open, once its messages
\* are handled and unless its tid has a new holder (state.rs:82-92).
THEOREM AlwaysNothingLeftOpen == Spec => []NothingLeftOpen
  <1>1. TypeOK /\ SystemInOrder => NothingLeftOpen
    <2> SUFFICES ASSUME TypeOK, SystemInOrder, NEW t \in Threads, Left(t),
                        Settled(tid[t]), tid[t] \notin stale,
                        \A u \in Threads : tid[u] = tid[t] => pc[u] \notin Announced,
                        tid[t] \in Held
                 PROVE  FALSE
      BY DEF NothingLeftOpen
    <2> USE DEF SystemInOrder
    <2>1. tid[t] \in Tids /\ tid[t] \notin AnnouncedTids /\ tid[t] \in TakenTids
      BY HasTid DEF Left, AnnouncedTids, TakenTids
    <2>2. \E n \in About(queue, tid[t]) : queue[n].flag = "remove"
      BY <2>1 DEF MessagesInOrder, Owed
    <2> QED
      BY <2>2 DEF Settled, Pending, About
  <1> QED
    BY <1>1, Invariant, PTL

-----------------------------------------------------------------------------
(* The handlers' reads.                                                    *)

\* What each reported event was reported for is still there to be read.
BatchReady ==
    \A e \in batch :
        /\ e = Event(e.key)
        /\ e.key = "signal" => sigint
        /\ e.key = "mqueue" => queue # <<>>
        /\ e.key = "timer" => ticks > 0

\* The events still to be handled after one that kept its source.
LEMMA HandledOnly ==
    ASSUME NEW key, NEW result \in {"continue", "stop"}, BatchReady,
           Handled(Event(key), result)
    PROVE  \A e \in batch' : e \in batch /\ e.key # key
  <1>1. ~Event(key).hangup /\ Event(key).key = key
    BY DEF Event
  <1>2. ~Drops(Event(key), result)
    BY <1>1 DEF Drops
  <1>3. batch' = {} \/ batch' = batch \ {Event(key)}
    BY <1>2 DEF Handled
  <1>4. \A e \in batch : e.key = key => e = Event(key)
    BY DEF BatchReady
  <1> QED
    BY <1>3, <1>4

\* No handler takes what another one is about to read, and the threads only
\* add to the queue.
LEMMA NextBatch ==
    ASSUME TypeOK, SystemInOrder, BatchReady, [Next]_vars
    PROVE  BatchReady'
  <1>1. CASE ProcessStep
    <2>1. batch' = batch /\ sigint' = sigint /\ ticks' = ticks
      BY <1>1 DEF ProcessStep, Outside, pollerVars, mainVars
    <2>2. queue # <<>> => queue' # <<>>
      <3>1. CASE \E t \in Threads : SendAdd(t) \/ cleanup_handler(t)
        <4>1. PICK m : queue' = Append(queue, m)
          BY <3>1 DEF SendAdd, cleanup_handler, mq_send
        <4> QED
          BY <4>1 DEF TypeOK, PreloadTypeOK
      <3>2. CASE Drifts
        BY <3>2 DEF Drifts
      <3> QED
        BY <1>1, <3>1, <3>2, ProcessKinds DEF SystemInOrder
    <2> QED
      BY <2>1, <2>2 DEF BatchReady, Event
  <1>2. CASE Interrupt
    <2>1. batch' = batch /\ sigint' /\ ticks' = ticks /\ queue' = queue
      BY <1>2, Zenon DEF Interrupt, Outside, pollerVars, preloadVars
    <2> QED
      BY <2>1 DEF BatchReady, Event
  <1>3. CASE TimerExpires
    <2>1. batch' = batch /\ sigint' = sigint /\ queue' = queue /\ ticks' = ticks + 1
      BY <1>3 DEF TimerExpires, Outside, pollerVars, preloadVars
    <2>2. ticks \in Nat
      BY DEF TypeOK
    <2> QED
      BY <2>1, <2>2 DEF BatchReady, Event
  <1>4. CASE Wait
    <2>1. batch' \subseteq ReadyEvents /\ UNCHANGED <<sigint, queue, ticks>>
      BY <1>4 DEF Wait, epoll_wait, preloadVars, mainVars
    <2>2. \A e \in batch' : e = Event(e.key) /\ Ready(e.key)
      BY <2>1 DEF ReadyEvents, Event
    <2> QED
      BY <2>1, <2>2 DEF BatchReady, Ready, Event
  <1>5. CASE SignalHandler
    <2>1. UNCHANGED <<queue, ticks>>
      BY <1>5 DEF SignalHandler, preloadVars
    <2>2. \A e \in batch' : e \in batch /\ e.key # "signal"
      BY <1>5, HandledOnly DEF SignalHandler
    <2> QED
      BY <2>1, <2>2 DEF BatchReady, Event
  <1>6. CASE queue_handler
    <2>1. UNCHANGED <<sigint, ticks>>
      BY <1>6 DEF queue_handler, mainVars
    <2>2. \A e \in batch' : e \in batch /\ e.key # "mqueue"
      BY <1>6, HandledOnly DEF queue_handler
    <2> QED
      BY <2>1, <2>2 DEF BatchReady, Event
  <1>7. CASE TimerHandler
    <2>1. UNCHANGED <<sigint, queue>>
      BY <1>7 DEF TimerHandler, preloadVars
    <2>2. \A e \in batch' : e \in batch /\ e.key # "timer"
      BY <1>7, HandledOnly DEF TimerHandler
    <2> QED
      BY <2>1, <2>2 DEF BatchReady, Event
  <1>8. CASE PollAgain \/ LoopFails
    <2>1. UNCHANGED <<sigint, queue, ticks>> /\ batch' \subseteq batch
      BY <1>8 DEF PollAgain, BatchDone, LoopFails, WaitFails, wait_fails,
                  TimerReadFails, ReceiveFails, Handled, preloadVars, mainVars
    <2> QED
      BY <2>1 DEF BatchReady, Event
  <1>9. CASE StateStep \/ FinalFlush \/ MainReturns \/ PollPanics \/ UNCHANGED vars
    <2>1. UNCHANGED <<sigint, queue, ticks, batch>>
      BY <1>9 DEF StateStep, FinalFlush, MainReturns, PollPanics, Outside, vars,
                  preloadVars, pollerVars, mainVars
    <2> QED
      BY <2>1 DEF BatchReady, Event
  <1> QED
    BY <1>1, <1>2, <1>3, <1>4, <1>5, <1>6, <1>7, <1>8, <1>9 DEF Next, Collector

\* None of the three blocking reads ever finds its descriptor empty, whatever
\* the order of a batch (main.rs:63, 71, handlers.rs:6).
THEOREM NeverBlocks == Spec => []NoBlockingRead
  <1>1. Init => BatchReady
    BY DEF Init, PollerInit, BatchReady
  <1>2. TypeOK /\ SystemInOrder /\ BatchReady /\ [Next]_vars => BatchReady'
    BY NextBatch
  <1>3. TypeOK /\ BatchReady => NoBlockingRead
    BY DEF TypeOK, PollerTypeOK, Events, BatchReady, NoBlockingRead, Ready
  <1> QED
    BY <1>1, <1>2, <1>3, Invariant, PTL DEF Spec

-----------------------------------------------------------------------------
(* The last flush.                                                         *)

\* After the loop only a flush is in progress, of what is held.
Rested ==
    /\ Idle => job.ids = {}
    /\ job.op = "flush" => job.ids \subseteq HeldIds
    /\ phase \in {"flush", "done"} => loop = "stopped" /\ job.op \in {"idle", "flush"}
    /\ phase = "done" => Idle

LEMMA NextRested ==
    ASSUME TypeOK, Rested, [Next]_vars
    PROVE  Rested'
  <1> USE DEF Rested, Idle, HeldIds, Held
  <1>1. CASE ProcessStep \/ Interrupt \/ TimerExpires \/ UNCHANGED vars
    <2>1. UNCHANGED <<groups, job, loop, phase>>
      BY <1>1 DEF ProcessStep, Interrupt, TimerExpires, Outside, vars, stateVars, pollerVars,
                  mainVars
    <2> QED
      BY <2>1
  <1>2. CASE \/ Wait \/ WaitFails \/ SignalHandler \/ PollAgain
             \/ TimerReadFails \/ ReceiveFails
    <2>1. UNCHANGED <<groups, job, phase>> /\ phase \notin {"flush", "done"}
      BY <1>2 DEF Wait, WaitFails, SignalHandler, PollAgain, TimerReadFails, ReceiveFails,
                  BatchDone, Handled, Delivers, stateVars, mainVars
    <2> QED
      BY <2>1
  <1>3. CASE queue_handler
    <2>1. phase' = phase /\ phase \notin {"flush", "done"}
      BY <1>3 DEF queue_handler, Handled, Delivers, mainVars
    <2>2. PICK k : open_tid(k) \/ close_tid(k)
      BY <1>3, Receives
    <2> QED
      BY <2>1, <2>2 DEF open_tid, close_tid, Job, NoJob
  <1>4. CASE TimerHandler
    <2>1. phase' = phase /\ phase \notin {"flush", "done"} /\ flush_all
      BY <1>4 DEF TimerHandler, Handled, Delivers
    <2> QED
      BY <2>1 DEF flush_all, Job
  <1>5. CASE StateStep
    <2>1. JobStep /\ UNCHANGED <<loop, phase>>
      BY <1>5 DEF StateStep, pollerVars, mainVars
    <2> USE DEF TypeOK, StateTypeOK
    <2>2. ASSUME NEW c \in Configs, OpenGroup(c) \/ OpenFails(c)
          PROVE  Rested'
      BY <2>1, <2>2 DEF OpenGroup, OpenFails
    <2>3. CASE Insert \/ EndJob
      BY <2>1, <2>3 DEF Insert, EndJob, NoJob
    <2>4. ASSUME NEW i \in Ids, FlushGroup(i)
          PROVE  Rested'
      BY <2>1, <2>4 DEF FlushGroup
    <2> QED
      BY <2>1, <2>2, <2>3, <2>4 DEF JobStep
  <1>6. CASE FinalFlush
    BY <1>6 DEF FinalFlush, flush_all, Job, pollerVars
  <1>7. CASE MainReturns \/ PollPanics
    BY <1>7 DEF MainReturns, PollPanics, Outside, stateVars, pollerVars
  <1> QED
    BY <1>1, <1>2, <1>3, <1>4, <1>5, <1>6, <1>7 DEF Next, Collector, LoopFails

\* What the last flush has read has its row among the last.
ReadOnceMore ==
    phase \in {"flush", "done"} /\ Faults \cap {"read", "csv"} = {} =>
        \A i \in HeldIds \ job.ids : \E r \in csv.event :
            r.id = i /\ r.read_id >= readId - Cardinality(HeldIds \ job.ids)

\* The row of a group that is read, when no read and no row may fail.
LEMMA ReadLeavesRow ==
    ASSUME StateTypeOK, NEW i \in Ids, FlushGroup(i), Faults \cap {"read", "csv"} = {}
    PROVE  /\ csv.event \subseteq csv'.event /\ readId' = readId + 1
           /\ \E r \in csv'.event : r.id = i /\ r.read_id = readId /\ r.count = Count(i)
           /\ i \in job.ids /\ job' = [job EXCEPT !.ids = @ \ {i}]
           /\ UNCHANGED <<groups, perf>>
  <1> DEFINE row == [read_id |-> readId, count |-> Count(i), id |-> i]
  <1>1. PICK reads \in SUBSET {readId}, events \in SUBSET {row} :
           /\ events # {}
           /\ csv' = [csv EXCEPT !.read = @ \cup reads, !.event = @ \cup events]
    BY DEF FlushGroup
  <1>2. row \in events
    BY <1>1
  <1>3. csv'.event = csv.event \cup events
    BY <1>1 DEF StateTypeOK
  <1>4. row.id = i /\ row.read_id = readId /\ row.count = Count(i)
    OBVIOUS
  <1> HIDE DEF row
  <1> QED
    BY <1>2, <1>3, <1>4 DEF FlushGroup

\* One more is read, with the number that is used up by it.
LEMMA NextReadOnce ==
    ASSUME TypeOK, Rested, ReadOnceMore, [Next]_vars
    PROVE  ReadOnceMore'
  <1> USE DEF ReadOnceMore, HeldIds, Held
  <1>1. CASE ProcessStep \/ Interrupt \/ TimerExpires \/ MainReturns \/ UNCHANGED vars
    <2>1. UNCHANGED <<groups, job, csv, readId>>
          /\ (phase' \in {"flush", "done"} => phase \in {"flush", "done"})
      BY <1>1 DEF ProcessStep, Interrupt, TimerExpires, MainReturns, Outside, vars, stateVars,
                  mainVars
    <2>2. HeldIds' = HeldIds
      BY <2>1
    <2>3. \A i \in HeldIds : i \in HeldIds \ job.ids <=> i \in HeldIds' \ job'.ids
      BY <2>1, <2>2
    <2>4. HeldIds' \ job'.ids = HeldIds \ job.ids
      BY <2>2, <2>3
    <2> HIDE DEF HeldIds
    <2> QED
      BY <2>1, <2>4
  <1>2. CASE \/ Wait \/ WaitFails \/ SignalHandler \/ PollAgain \/ TimerReadFails
             \/ ReceiveFails \/ queue_handler \/ TimerHandler \/ PollPanics
    <2>1. phase' \notin {"flush", "done"}
      BY <1>2 DEF Wait, WaitFails, SignalHandler, PollAgain, TimerReadFails, ReceiveFails,
                  BatchDone, queue_handler, TimerHandler, PollPanics, Handled, Delivers, mainVars, Rested
    <2> QED
      BY <2>1
  <1>3. CASE FinalFlush
    <2>1. job' = Job("flush", NoTid, {}, HeldIds) /\ groups' = groups
      BY <1>3 DEF FinalFlush, flush_all
    <2>2. HeldIds' \ job'.ids = {}
      BY <2>1 DEF Job
    <2> QED
      BY <2>2
  <1>4. CASE StateStep
    <2> SUFFICES ASSUME phase \in {"flush", "done"}, Faults \cap {"read", "csv"} = {},
                        NEW i \in (HeldIds \ job.ids)'
                 PROVE  \E r \in csv'.event :
                           r.id = i /\ r.read_id >= readId' - Cardinality((HeldIds \ job.ids)')
      BY <1>4 DEF StateStep, mainVars
    <2>1. JobStep /\ job.op = "flush"
      BY <1>4 DEF StateStep, Rested, JobStep, OpenGroup, OpenFails, Insert, FlushGroup, EndJob
    <2>2. CASE EndJob
      <3>1. (HeldIds \ job.ids)' = HeldIds \ job.ids /\ UNCHANGED <<csv, readId>>
        BY <2>2 DEF EndJob, NoJob
      <3> QED
        BY <3>1
    <2>3. ASSUME NEW j \in Ids, FlushGroup(j)
          PROVE  \E r \in csv'.event :
                    r.id = i /\ r.read_id >= readId' - Cardinality((HeldIds \ job.ids)')
      <3>1. /\ csv.event \subseteq csv'.event /\ readId' = readId + 1
            /\ \E r \in csv'.event : r.id = j /\ r.read_id = readId
            /\ j \in job.ids /\ job' = [job EXCEPT !.ids = @ \ {j}] /\ groups' = groups
        BY <2>3, ReadLeavesRow DEF TypeOK
      <3>2. PICK S : S = HeldIds \ job.ids
        OBVIOUS
      <3>3. j \in HeldIds /\ job'.ids = job.ids \ {j} /\ HeldIds' = HeldIds
        BY <2>1, <3>1 DEF Rested, TypeOK, StateTypeOK
      <3>4. (HeldIds \ job.ids)' = S \cup {j} /\ j \notin S
        BY <3>1, <3>2, <3>3
      <3>5. S \subseteq 1 .. Len(perf) /\ Len(perf) \in Nat
        BY <3>2 DEF TypeOK, StateTypeOK, Ids
      <3>6. /\ Cardinality(S) \in Nat
            /\ Cardinality((HeldIds \ job.ids)') = Cardinality(S) + 1
        <4>1. IsFiniteSet(1 .. Len(perf))
          BY <3>5, FS_Interval
        <4>2. IsFiniteSet(S)
          BY <3>5, <4>1, FS_Subset
        <4>3. Cardinality(S) \in Nat /\ Cardinality(S \cup {j}) = Cardinality(S) + 1
          BY <3>4, <4>2, FS_CardinalityType, FS_AddElement
        <4> QED
          BY <3>4, <4>3
      <3>7. readId \in Nat /\ \A r \in csv.event : r.read_id \in Int
        BY DEF TypeOK, StateTypeOK
      <3>8. CASE i = j
        <4>1. PICK r \in csv'.event : r.id = j /\ r.read_id = readId
          BY <3>1
        <4>2. r.read_id >= readId' - Cardinality((HeldIds \ job.ids)')
          BY <3>1, <3>6, <3>7, <4>1
        <4> QED
          BY <3>8, <4>1, <4>2
      <3>9. CASE i # j
        <4>1. PICK r \in csv.event : r.id = i /\ r.read_id >= readId - Cardinality(S)
          BY <3>2, <3>4, <3>9
        <4>2. r.read_id >= readId' - Cardinality((HeldIds \ job.ids)')
          BY <3>1, <3>6, <3>7, <4>1
        <4> QED
          BY <3>1, <4>1, <4>2
      <3> QED
        BY <3>8, <3>9
    <2>4. ~Insert /\ \A c \in Configs : ~OpenGroup(c) /\ ~OpenFails(c)
      BY <2>1 DEF Insert, OpenGroup, OpenFails
    <2> QED
      BY <2>1, <2>2, <2>3, <2>4 DEF JobStep
  <1> QED
    BY <1>1, <1>2, <1>3, <1>4 DEF Next, Collector, LoopFails

\* Before main returns, each group that is open is read once more after the loop
\* has ended (main.rs:86).
THEOREM AlwaysFlushedAtEnd == Spec => []FinalFlushComplete
  <1>1. Init => Rested /\ ReadOnceMore
    BY DEF Init, StateInit, NoJob, Rested, ReadOnceMore, Idle
  <1>2. TypeOK /\ Rested /\ ReadOnceMore /\ [Next]_vars => (Rested /\ ReadOnceMore)'
    BY NextRested, NextReadOnce
  <1>3. Rested /\ ReadOnceMore => FinalFlushComplete
    <2> SUFFICES ASSUME Rested, ReadOnceMore, phase = "done", Faults \cap {"read", "csv"} = {}
                 PROVE  \A i \in HeldIds : \E r \in csv.event :
                           r.id = i /\ r.read_id >= readId - Cardinality(HeldIds)
      BY DEF FinalFlushComplete
    <2>1. HeldIds \ job.ids = HeldIds
      BY DEF Rested
    <2> QED
      BY <2>1 DEF ReadOnceMore
  <1> QED
    BY <1>1, <1>2, <1>3, TypeCorrect, PTL DEF Spec

-----------------------------------------------------------------------------
(* The last rows of a thread.                                              *)

\* No step takes a thread's tid away, brings a lost one back, or lets one that
\* has left do more work.
LEMMA ThreadsGoOn ==
    ASSUME TypeOK, TasksInOrder, [Next]_vars, NEW t \in Threads, pc[t] # "none"
    PROVE  /\ tid'[t] = tid[t] /\ pc'[t] # "none"
           /\ pc[t] = "lost" => pc'[t] = "lost"
           /\ Left(t) => Left(t)' /\ work'[t] = work[t]
  <1> USE DEF Left, Announced
  <1>1. CASE ProcessStep
    <2>1. /\ tid'[t] = tid[t] /\ pc'[t] # "none"
          /\ pc[t] = "lost" => pc'[t] = "lost"
          /\ Left(t) => Left(t)'
      <3>1. CASE Drifts
        BY <3>1 DEF Drifts, Drift
      <3>2. ASSUME NEW u \in Threads, SendAdd(u) \/ cleanup_handler(u)
            PROVE  /\ tid'[t] = tid[t] /\ pc'[t] # "none"
                   /\ pc[t] = "lost" => pc'[t] = "lost"
                   /\ Left(t) => Left(t)'
        BY <3>2 DEF SendAdd, cleanup_handler, kernelVars, TypeOK, PreloadTypeOK
      <3> QED
        BY <1>1, <3>1, <3>2, ProcessKinds
    <2>2. Left(t) => work'[t] = work[t]
      <3>1. PICK u \in Threads :
               \/ \E k \in Tids : constructor(u, k) \/ pthread_create(u, k)
               \/ ThreadStep(u) \/ AbruptStep(u)
        BY <1>1 DEF ProcessStep
      <3>2. CASE RunFunction(u)
        BY <3>2 DEF RunFunction, Execute, TypeOK, PreloadTypeOK, KernelTypeOK
      <3>3. CASE ~RunFunction(u)
        BY <3>1, <3>3 DEF constructor, pthread_create, Clone, ThreadStep, SendAdd,
           FinishFunction, cleanup_handler, Exit, Reap, kernelVars, AbruptStep,
           ProcessExit, SendInterrupted, MainThreadExit, CancelledInSend, Execve,
           EndProcess, EndThread
      <3> QED
        BY <3>2, <3>3
    <2> QED
      BY <2>1, <2>2
  <1>2. CASE queue_handler
    BY <1>2, Receives DEF kernelVars
  <1>3. CASE StateStep \/ StartsFlush \/ Quiet
    BY <1>3 DEF StateStep, StartsFlush, Quiet, kernelVars, preloadVars
  <1> QED
    BY <1>1, <1>2, <1>3, StepKinds

\* A thread with tid k has left, of itself.
LeftFrom(k) == \E t \in Threads : tid[t] = k /\ Left(t)

\* The sender of every REMOVE has left.
SenderLeft ==
    /\ \A n \in 1 .. Len(queue) : queue[n].flag = "remove" => LeftFrom(queue[n].tid)
    /\ job.op = "close" => LeftFrom(job.tid)

LEMMA NextSenderLeft ==
    ASSUME TypeOK, TasksInOrder, SenderLeft, [Next]_vars
    PROVE  SenderLeft'
  <1>1. ASSUME NEW k, LeftFrom(k)
        PROVE  \E t \in Threads : tid'[t] = k /\ Left(t)'
    <2>1. PICK t \in Threads : tid[t] = k /\ Left(t)
      BY <1>1 DEF LeftFrom
    <2>2. tid'[t] = k /\ Left(t)'
      BY <2>1, ThreadsGoOn DEF Left
    <2> QED
      BY <2>2
  <1>2. queue \in Seq(Messages)
    BY DEF TypeOK, PreloadTypeOK
  <1>3. CASE ProcessStep
    <2>1. job' = job
      BY <1>3 DEF ProcessStep, Outside, stateVars
    <2>2. CASE Drifts
      BY <1>1, <2>1, <2>2 DEF Drifts, SenderLeft, LeftFrom
    <2>3. ASSUME NEW t \in Threads, SendAdd(t) \/ cleanup_handler(t)
          PROVE  SenderLeft'
      <3>1. PICK f \in Flags : /\ mq_send(f, t) /\ pc[t] # "none"
                               /\ f = "remove" => cleanup_handler(t)
        BY <2>3 DEF SendAdd, cleanup_handler, Flags
      <3>2. PICK m \in Messages : m = [flag |-> f, tid |-> tid[t]]
        BY <3>1, SendTypes DEF TypeOK
      <3>3. queue' = Append(queue, m) /\ m.flag = f /\ m.tid = tid[t]
        BY <3>1, <3>2 DEF mq_send
      <3>4. /\ Len(queue') = Len(queue) + 1 /\ queue'[Len(queue) + 1] = m
            /\ \A n \in 1 .. Len(queue) : queue'[n] = queue[n]
            /\ Len(queue) \in Nat
        BY <1>2, <3>3, AppendFacts
      <3>5. f = "remove" => \E u \in Threads : tid'[u] = tid[t] /\ Left(u)'
        BY <3>1 DEF cleanup_handler, kernelVars, Left, TypeOK, PreloadTypeOK
      <3>6. ASSUME NEW n \in 1 .. Len(queue'), queue'[n].flag = "remove"
            PROVE  \E u \in Threads : tid'[u] = queue'[n].tid /\ Left(u)'
        <4>1. CASE n = Len(queue) + 1
          BY <3>3, <3>4, <3>5, <3>6, <4>1
        <4>2. CASE n # Len(queue) + 1
          <5>1. n \in 1 .. Len(queue) /\ queue'[n] = queue[n]
            BY <3>4, <4>2
          <5>2. LeftFrom(queue[n].tid)
            BY <3>6, <5>1 DEF SenderLeft
          <5> QED
            BY <1>1, <5>1, <5>2
        <4> QED
          BY <4>1, <4>2
      <3> QED
        BY <1>1, <2>1, <3>6 DEF SenderLeft, LeftFrom
    <2> QED
      BY <1>3, <2>2, <2>3, ProcessKinds
  <1>4. CASE queue_handler
    <2>1. /\ queue # <<>> /\ queue' = Tail(queue)
          /\ \/ Head(queue).flag = "add" /\ open_tid(Head(queue).tid)
             \/ Head(queue).flag = "remove" /\ close_tid(Head(queue).tid)
      BY <1>4, Receives
    <2>2. /\ Len(queue') = Len(queue) - 1 /\ Head(queue) = queue[1]
          /\ \A n \in 1 .. Len(queue) - 1 : queue'[n] = queue[n + 1]
          /\ Len(queue) \in Nat \ {0}
      BY <1>2, <2>1, TailFacts
    <2>3. ASSUME NEW n \in 1 .. Len(queue'), queue'[n].flag = "remove"
          PROVE  \E u \in Threads : tid'[u] = queue'[n].tid /\ Left(u)'
      <3>1. n + 1 \in 1 .. Len(queue) /\ queue'[n] = queue[n + 1]
        BY <2>2
      <3>2. LeftFrom(queue'[n].tid)
        BY <2>3, <3>1 DEF SenderLeft
      <3> QED
        BY <1>1, <3>2
    <2>4. ASSUME job'.op = "close" PROVE \E u \in Threads : tid'[u] = job'.tid /\ Left(u)'
      <3>1. queue[1].flag = "remove" /\ job'.tid = queue[1].tid
        BY <2>1, <2>2, <2>4 DEF open_tid, close_tid, Job, NoJob
      <3>2. LeftFrom(job'.tid)
        BY <2>2, <3>1 DEF SenderLeft
      <3> QED
        BY <1>1, <3>2
    <2> QED
      BY <2>3, <2>4 DEF SenderLeft, LeftFrom
  <1>5. CASE StateStep
    <2>1. queue' = queue /\ JobStep
      BY <1>5 DEF StateStep, preloadVars
    <2>2. job'.op = "close" => job.op = "close" /\ job'.tid = job.tid
      <3> USE DEF TypeOK, StateTypeOK
      <3>1. ASSUME NEW c \in Configs, OpenGroup(c) \/ OpenFails(c)
            PROVE  job'.op = "close" => job.op = "close" /\ job'.tid = job.tid
        BY <3>1 DEF OpenGroup, OpenFails
      <3>2. CASE Insert \/ EndJob
        BY <3>2 DEF Insert, EndJob, NoJob
      <3>3. ASSUME NEW i \in Ids, FlushGroup(i)
            PROVE  job'.op = "close" => job.op = "close" /\ job'.tid = job.tid
        BY <3>3 DEF FlushGroup
      <3> QED
        BY <2>1, <3>1, <3>2, <3>3 DEF JobStep
    <2> QED
      BY <1>1, <2>1, <2>2 DEF SenderLeft, LeftFrom
  <1>6. CASE StartsFlush
    BY <1>1, <1>6 DEF StartsFlush, flush_all, Job, preloadVars, SenderLeft, LeftFrom
  <1>7. CASE Quiet
    BY <1>1, <1>7 DEF Quiet, preloadVars, stateVars, SenderLeft, LeftFrom
  <1> QED
    BY <1>3, <1>4, <1>5, <1>6, <1>7, StepKinds

\* Nobody else ever had the tid of t.
OnlyHolder(t) == \A u \in Threads : tid[u] = tid[t] => u = t

\* Group i of t is in the table or about to be; or it is being read for the last
\* time, or was.
Tracked(t, i) ==
    \/ tid[t] \in TakenTids /\ i \in EntryIds(tid[t])
    \/ Left(t) /\ job.op = "close" /\ job.tid = tid[t] /\ i \in job.ids
    \/ Left(t) /\ \E r \in csv.event : r.id = i /\ r.count = Count(i)

TailKept ==
    \A i \in Ids :
        LET t == perf[i].task IN
        /\ pc[t] # "none"
        /\ /\ Faults \cap {"read", "csv"} = {} /\ OnlyHolder(t) /\ pc[t] # "lost"
           => Tracked(t, i)

\* A call for the tid of the group, or for another one.
LEMMA ReceiveTracks ==
    ASSUME TypeOK, SystemInOrder, SenderLeft, queue_handler, NEW i \in Ids,
           NEW t \in Threads, t = perf[i].task, OnlyHolder(t), Tracked(t, i),
           UNCHANGED <<perf, tid, csv>>, Left(t) => Left(t)' /\ Count(i)' = Count(i)
    PROVE  Tracked(t, i)'
  <1> DEFINE k == tid[t]
             m == Head(queue)
  <1>1. /\ Idle /\ queue # <<>> /\ m \in Messages
        /\ \/ m.flag = "add" /\ open_tid(m.tid)
           \/ m.flag = "remove" /\ close_tid(m.tid)
    BY Receives DEF queue_handler
  <1>2. CASE Left(t) /\ \E r \in csv.event : r.id = i /\ r.count = Count(i)
    BY <1>2 DEF Tracked
  <1>3. CASE k \in TakenTids /\ i \in EntryIds(k)
    <2>1. k \in Held /\ i \in groups[k]
      BY <1>1, <1>3 DEF TakenTids, EntryIds, Idle
    <2>2. CASE open_tid(m.tid)
      <3>1. groups' = groups
        BY <2>2 DEF open_tid
      <3> QED
        BY <2>1, <3>1 DEF Tracked, TakenTids, EntryIds, Held
    <2>3. CASE close_tid(m.tid) /\ m.tid # k
      <3>1. k \in Held' /\ groups'[k] = groups[k]
        BY <2>1, <2>3 DEF close_tid, Restrict, Held
      <3> QED
        BY <2>1, <3>1 DEF Tracked, TakenTids, EntryIds
    <2>4. CASE close_tid(m.tid) /\ m.tid = k /\ m.flag = "remove"
      <3>1. job' = Job("close", k, {}, groups[k])
        BY <2>1, <2>4 DEF close_tid
      <3>2. LeftFrom(k)
        <4>1. m = queue[1] /\ 1 \in 1 .. Len(queue)
          BY <1>1, TailFacts DEF TypeOK, PreloadTypeOK
        <4> QED
          BY <2>4, <4>1 DEF SenderLeft
      <3>3. Left(t)
        BY <3>2 DEF LeftFrom, OnlyHolder
      <3> QED
        BY <2>1, <3>1, <3>3 DEF Tracked, Job
    <2> QED
      BY <1>1, <2>2, <2>3, <2>4
  <1> QED
    BY <1>1, <1>2, <1>3 DEF Tracked, Idle

\* Opening a group adds to the ids of the call at most (state.rs:22-33).
LEMMA OpeningAdds ==
    ASSUME StateTypeOK, NEW c \in Configs, OpenGroup(c) \/ OpenFails(c)
    PROVE  groups' = groups /\ job.ids \subseteq job'.ids
  <1>1. CASE OpenGroup(c)
    BY <1>1 DEF OpenGroup, StateTypeOK
  <1>2. CASE OpenFails(c)
    BY <1>2 DEF OpenFails, StateTypeOK
  <1> QED
    BY <1>1, <1>2

\* The groups of an entry stay together until each of them is read.
LEMMA JobTracks ==
    ASSUME TypeOK, SystemInOrder, StateStep, NEW i \in Ids,
           NEW t \in Threads, t = perf[i].task, Tracked(t, i),
           Faults \cap {"read", "csv"} = {}, UNCHANGED tid,
           Left(t) => Left(t)' /\ Count(i)' = Count(i)
    PROVE  Tracked(t, i)'
  <1> DEFINE k == tid[t]
  <1> USE DEF SystemInOrder, JobInOrder
  <1>1. JobStep /\ TakenTids' = TakenTids
    BY TakenChanges DEF StateStep
  <1>2. csv.event \subseteq csv'.event
    <2> USE DEF TypeOK, StateTypeOK
    <2>1. CASE Insert
      BY <2>1 DEF Insert
    <2>2. CASE EndJob \/ \E c \in Configs : OpenGroup(c) \/ OpenFails(c)
      BY <2>2 DEF EndJob, OpenGroup, OpenFails
    <2>3. CASE \E j \in Ids : FlushGroup(j)
      BY <2>3, ReadLeavesRow
    <2> QED
      BY <1>1, <2>1, <2>2, <2>3 DEF JobStep
  <1>3. CASE Left(t) /\ \E r \in csv.event : r.id = i /\ r.count = Count(i)
    BY <1>2, <1>3 DEF Tracked
  <1>4. CASE k \in TakenTids /\ i \in EntryIds(k)
    <2>1. k \in Held \/ (k = job.tid /\ job.op = "open" /\ k \notin Held)
      BY <1>4 DEF TakenTids
    <2>2. i \in EntryIds(k)'
      <3>1. ASSUME NEW c \in Configs, OpenGroup(c) \/ OpenFails(c)
            PROVE  i \in EntryIds(k)'
        <4>1. groups' = groups /\ job.ids \subseteq job'.ids
          BY <3>1, OpeningAdds DEF TypeOK
        <4> QED
          BY <1>4, <4>1 DEF EntryIds, Held
      <3>2. CASE Insert
        <4>1. /\ groups' = [j \in Held \cup {job.tid} |->
                               IF j = job.tid THEN job.ids ELSE groups[j]]
              /\ job.tid \notin Held
          BY <3>2 DEF Insert
        <4>2. k \in Held' /\ groups'[k] = EntryIds(k)
          BY <2>1, <4>1 DEF Held, EntryIds
        <4> QED
          BY <1>4, <4>2 DEF EntryIds
      <3>3. CASE EndJob \/ \E j \in Ids : FlushGroup(j)
        <4>1. groups' = groups /\ k \in Held
          BY <2>1, <3>3 DEF EndJob, FlushGroup
        <4> QED
          BY <1>4, <4>1 DEF EntryIds, Held
      <3> QED
        BY <1>1, <3>1, <3>2, <3>3 DEF JobStep
    <2> QED
      BY <1>1, <1>4, <2>2 DEF Tracked
  <1>5. CASE Left(t) /\ job.op = "close" /\ job.tid = k /\ i \in job.ids
    <2>1. PICK j \in Ids : FlushGroup(j)
      BY <1>1, <1>5 DEF JobStep, OpenGroup, OpenFails, Insert, EndJob
    <2>2. CASE j = i
      BY <1>5, <2>1, <2>2, ReadLeavesRow DEF Tracked, TypeOK
    <2>3. CASE j # i
      <3>1. job'.op = "close" /\ job'.tid = k /\ i \in job'.ids
        BY <1>5, <2>1, <2>3 DEF FlushGroup, TypeOK, StateTypeOK
      <3> QED
        BY <1>5, <3>1 DEF Tracked
    <2> QED
      BY <2>2, <2>3
  <1> QED
    BY <1>3, <1>4, <1>5 DEF Tracked

\* A group that is being opened is in the entry being opened for its thread's tid.
LEMMA OpenTracks ==
    ASSUME TypeOK, SystemInOrder, StateStep, NEW i \in Ids' \ Ids
    PROVE  \E t \in Threads : perf'[i].task = t /\ pc'[t] # "none" /\ Tracked(t, i)'
  <1>1. JobStep /\ UNCHANGED <<tid, live, pc>> /\ TakenTids' = TakenTids
    BY TakenChanges DEF StateStep, kernelVars, preloadVars, SystemInOrder
  <1>2. PICK c \in Configs : OpenGroup(c)
    BY <1>1 DEF JobStep, OpenFails, Insert, FlushGroup, EndJob, Ids
  <1>3. PICK t \in TaskAt(job.tid) :
           perf' = Append(perf, [task |-> t, config |-> c, base |-> work[t]])
    BY <1>2 DEF OpenGroup
  <1>4. PICK g \in Groups : g = [task |-> t, config |-> c, base |-> work[t]]
    BY DEF TypeOK, PreloadTypeOK, KernelTypeOK, TaskAt, Groups
  <1>5. perf \in Seq(Groups) /\ perf' = Append(perf, g)
    BY <1>3, <1>4 DEF TypeOK, StateTypeOK
  <1>6. i = Len(perf') /\ perf'[i] = g /\ g.task = t
    <2>1. Len(perf') = Len(perf) + 1 /\ perf'[Len(perf) + 1] = g /\ Len(perf) \in Nat
      BY <1>5
    <2>2. i = Len(perf) + 1
      BY <2>1 DEF Ids
    <2> QED
      BY <1>4, <2>1, <2>2
  <1>7. tid[t] = job.tid /\ t \in Threads /\ pc[t] # "none"
    BY <1>3 DEF TaskAt, SystemInOrder, TasksInOrder, Alive, Announced
  <1>8. /\ job.op = "open" /\ job.tid \notin Held /\ groups' = groups
        /\ job'.ids = job.ids \cup {Len(perf')}
    BY <1>2 DEF OpenGroup, SystemInOrder, JobInOrder, TypeOK, StateTypeOK
  <1>9. tid[t] \in TakenTids /\ i \in EntryIds(tid[t])'
    BY <1>1, <1>6, <1>7, <1>8 DEF TakenTids, EntryIds, Held
  <1> QED
    BY <1>1, <1>6, <1>7, <1>9 DEF Tracked

LEMMA NextTail ==
    ASSUME TypeOK, SystemInOrder, SenderLeft, TailKept, [Next]_vars
    PROVE  TailKept'
  <1> SUFFICES ASSUME NEW i \in Ids'
               PROVE  \E t \in Threads :
                         /\ perf'[i].task = t /\ pc'[t] # "none"
                         /\ /\ Faults \cap {"read", "csv"} = {} /\ OnlyHolder(t)'
                            /\ pc'[t] # "lost"
                            => Tracked(t, i)'
    BY DEF TailKept, OnlyHolder, Tracked, TakenTids, EntryIds, Held, Left, Count
  <1>1. CASE i \notin Ids
    <2>1. StateStep
      <3>1. CASE ProcessStep \/ StartsFlush \/ Quiet
        BY <1>1, <3>1 DEF ProcessStep, Outside, StartsFlush, flush_all, Quiet, stateVars, Ids
      <3>2. CASE queue_handler
        BY <1>1, <3>2, Receives DEF open_tid, close_tid, Ids
      <3> QED
        BY <3>1, <3>2, StepKinds
    <2> QED
      BY <1>1, <2>1, OpenTracks
  <1>2. CASE i \in Ids
    <2>1. PICK t \in Threads : t = perf[i].task
      BY <1>2, PerfTypes DEF TypeOK
    <2>2. perf'[i] = perf[i]
      <3>1. CASE ProcessStep \/ StartsFlush \/ Quiet
        BY <3>1 DEF ProcessStep, Outside, StartsFlush, flush_all, Quiet, stateVars
      <3>2. CASE queue_handler
        BY <3>2, Receives DEF open_tid, close_tid
      <3>3. CASE StateStep
        <4>1. perf' = perf \/ \E g \in Groups : perf' = Append(perf, g)
          <5>1. ASSUME NEW c \in Configs, OpenGroup(c)
                PROVE  \E g \in Groups : perf' = Append(perf, g)
            BY <5>1 DEF OpenGroup, TypeOK, PreloadTypeOK, KernelTypeOK, TaskAt, Groups
          <5> QED
            BY <3>3, <5>1 DEF StateStep, JobStep, OpenFails, Insert, FlushGroup, EndJob
        <4>2. perf \in Seq(Groups)
          BY DEF TypeOK, StateTypeOK
        <4> QED
          BY <1>2, <4>1, <4>2 DEF Ids
      <3> QED
        BY <3>1, <3>2, <3>3, StepKinds
    <2>3. pc[t] # "none"
      BY <1>2, <2>1 DEF TailKept
    <2>4. /\ tid'[t] = tid[t] /\ pc'[t] # "none"
          /\ pc[t] = "lost" => pc'[t] = "lost"
          /\ Left(t) => Left(t)' /\ work'[t] = work[t]
      BY <2>3, ThreadsGoOn DEF SystemInOrder
    <2>5. Left(t) => Left(t)' /\ Count(i)' = Count(i)
      BY <2>1, <2>2, <2>4 DEF Count
    <2>6. ASSUME Faults \cap {"read", "csv"} = {}, OnlyHolder(t)', pc'[t] # "lost"
          PROVE  Tracked(t, i)'
      <3>1. OnlyHolder(t)
        <4>1. ASSUME NEW u \in Threads, tid[u] = tid[t] PROVE u = t
          <5>1. pc[u] # "none"
            BY <2>3, <4>1 DEF SystemInOrder, TasksInOrder
          <5>2. tid'[u] = tid[u]
            BY <5>1, ThreadsGoOn DEF SystemInOrder
          <5> QED
            BY <2>4, <2>6, <4>1, <5>2 DEF OnlyHolder
        <4> QED
          BY <4>1 DEF OnlyHolder
      <3>2. Tracked(t, i)
        BY <1>2, <2>1, <2>4, <2>6, <3>1 DEF TailKept
      <3>3. CASE ProcessStep \/ Quiet
        <4>1. UNCHANGED <<groups, perf, csv, job>>
          BY <3>3 DEF ProcessStep, Outside, Quiet, stateVars
        <4> QED
          BY <2>4, <2>5, <3>2, <4>1 DEF Tracked, TakenTids, EntryIds, Held
      <3>4. CASE StartsFlush
        <4>1. UNCHANGED <<groups, perf, csv>> /\ Idle /\ job'.op = "flush"
          BY <3>4 DEF StartsFlush, flush_all, Job
        <4> QED
          BY <2>4, <2>5, <3>2, <4>1 DEF Tracked, TakenTids, EntryIds, Held, Idle
      <3>5. CASE queue_handler
        <4>1. UNCHANGED <<perf, tid, csv>>
          BY <3>5, Receives DEF open_tid, close_tid, kernelVars
        <4> QED
          BY <1>2, <2>1, <2>5, <3>1, <3>2, <3>5, <4>1, ReceiveTracks
      <3>6. CASE StateStep
        <4>1. UNCHANGED tid
          BY <3>6 DEF StateStep, kernelVars
        <4> QED
          BY <1>2, <2>1, <2>5, <2>6, <3>2, <3>6, <4>1, JobTracks
      <3> QED
        BY <3>3, <3>4, <3>5, <3>6, StepKinds
    <2> QED
      BY <2>1, <2>2, <2>4, <2>6
  <1> QED
    BY <1>1, <1>2

\* A stale tid was given up by a thread that is lost.
StaleIsLost == \A k \in stale : \E u \in Threads : tid[u] = k /\ pc[u] = "lost"

LEMMA NextStale ==
    ASSUME TypeOK, TasksInOrder, StaleIsLost, [Next]_vars
    PROVE  StaleIsLost'
  <1> SUFFICES ASSUME NEW k \in stale'
               PROVE  \E u \in Threads : tid'[u] = k /\ pc'[u] = "lost"
    BY DEF StaleIsLost
  <1>1. CASE k \in stale
    BY <1>1, ThreadsGoOn DEF StaleIsLost
  <1>2. CASE k \notin stale
    <2>1. ProcessStep
      BY <1>2, StaleUnchanged
    <2>2. PICK u \in Threads : tid[u] = k /\ pc[u] \in Announced /\ pc'[u] = "lost"
      BY <1>2, <2>1 DEF ProcessStep, TidsTo
    <2> QED
      BY <2>2, ThreadsGoOn DEF Announced
  <1> QED
    BY <1>1, <1>2

\* What a thread that left in order did is in the files once its messages are
\* handled, when no later thread had its tid (state.rs:82-92).
THEOREM AlwaysTailRecorded == Spec => []TailRecorded
  <1>1. Init => SenderLeft /\ TailKept /\ StaleIsLost
    BY DEF Init, PreloadInit, StateInit, NoJob, SenderLeft, TailKept, StaleIsLost, Ids
  <1>2. TypeOK /\ SystemInOrder /\ SenderLeft /\ TailKept /\ StaleIsLost /\ [Next]_vars
            => (SenderLeft /\ TailKept /\ StaleIsLost)'
    BY NextSenderLeft, NextTail, NextStale DEF SystemInOrder
  <1>3. TypeOK /\ SystemInOrder /\ TailKept /\ StaleIsLost => TailRecorded
    <2> SUFFICES ASSUME TypeOK, SystemInOrder, TailKept, StaleIsLost, Faults \cap {"read", "csv"} = {},
                        NEW t \in Threads, Left(t), Settled(tid[t]),
                        \A u \in Threads : tid[u] = tid[t] => u = t,
                        NEW i \in Ids, perf[i].task = t
                 PROVE  \E r \in csv.event : r.id = i /\ r.count = Count(i)
      BY DEF TailRecorded
    <2>1. Tracked(t, i)
      BY DEF TailKept, OnlyHolder, Left
    <2>2. tid[t] \in Tids /\ tid[t] \notin AnnouncedTids /\ tid[t] \notin stale
      BY HasTid DEF Left, AnnouncedTids, StaleIsLost, Announced, SystemInOrder
    <2>3. tid[t] \notin TakenTids
      <3>1. Owed(queue, tid[t], TakenTids, AnnouncedTids)
        BY <2>2 DEF SystemInOrder, MessagesInOrder
      <3>2. About(queue, tid[t]) = {}
        BY DEF Settled, Pending, About
      <3> QED
        BY <2>2, <3>1, <3>2 DEF Owed
    <2> QED
      BY <2>1, <2>3 DEF Tracked, Settled, Changing
  <1> QED
    BY <1>1, <1>2, <1>3, Invariant, PTL DEF Spec

-----------------------------------------------------------------------------
(* Threads that fork.  A child's REMOVE is about a tid in forked, of which   *)
(* less is known: only that what is owed to it has a REMOVE to come.         *)

\* A tid is announced in vain never: its last message is an ADD, and without
\* one it is taken.
Shown(q, k, taken, announced) ==
    k \in announced =>
        /\ \A n \in About(q, k) :
              q[n].flag = "remove" => ~NoneAbout(q, k, n + 1, Len(q))
        /\ NoneAbout(q, k, 1, Len(q)) => k \in taken

ForkTypes ==
    /\ copies \in Seq(Tids \cup {NoTid})
    /\ forked \subseteq Tids
    /\ \A n \in 1 .. Len(copies) : copies[n] \in forked \cup {NoTid}

\* The inductive invariant: that of Threadstat, with the order of messages and
\* the entries for the tids outside forked, and what is owed for all.
ForkInOrder ==
    /\ TasksInOrder /\ JobInOrder /\ CountsInOrder
    /\ \A k \in Tids \ stale : Owed(queue, k, TakenTids, AnnouncedTids)
    /\ \A k \in Tids \ (stale \cup forked) : Shown(queue, k, TakenTids, AnnouncedTids)
    /\ \A t \in Threads : Alone(t) /\ tid[t] \notin stale \cup forked => EntryInOrder(t)

ForkInv == TypeOK /\ ForkTypes /\ ForkInOrder

\* A tid is shown after every step that keeps it announced, and after the ADD
\* that announces it, whatever was sent about it before (wrapper.c:55-68).
LEMMA StepShown ==
    ASSUME NEW k, SendsAbout(k) \/ ReceivesAbout(k) \/ KeepsAbout(k),
           \/ Shown(queue, k, TakenTids, AnnouncedTids)
           \/ k \notin AnnouncedTids /\ k \in AnnouncedTids'
    PROVE  Shown(queue', k, TakenTids', AnnouncedTids')
  <1> SUFFICES ASSUME k \in AnnouncedTids'
               PROVE  /\ \A n \in About(queue', k) : queue'[n].flag = "remove"
                            => ~NoneAbout(queue', k, n + 1, Len(queue'))
                      /\ NoneAbout(queue', k, 1, Len(queue')) => k \in TakenTids'
    BY DEF Shown
  <1>1. CASE SendsAbout(k)
    <2>1. PICK m \in Messages, end \in Nat :
             /\ Sent(queue, m, k, queue', end)
             /\ \/ m.tid = k /\ m.flag = "add"
                \/ m.tid # k /\ k \in AnnouncedTids
      BY <1>1 DEF SendsAbout
    <2>2. CASE m.tid = k /\ m.flag = "add"
      BY <2>1, <2>2 DEF Sent
    <2>3. CASE m.tid # k /\ k \in AnnouncedTids
      BY <1>1, <2>1, <2>3 DEF SendsAbout, Sent, Shown
    <2> QED
      BY <2>1, <2>2, <2>3
  <1>2. CASE ReceivesAbout(k)
    <2>1. Shown(queue, k, TakenTids, AnnouncedTids) /\ k \in AnnouncedTids
      BY <1>2 DEF ReceivesAbout
    <2>2. \A n \in About(queue', k) : queue'[n].flag = "remove"
                            => ~NoneAbout(queue', k, n + 1, Len(queue'))
      BY <1>2, <2>1 DEF ReceivesAbout, Received, Shown
    <2>3. NoneAbout(queue', k, 1, Len(queue')) => k \in TakenTids'
      BY <1>2, <2>1 DEF ReceivesAbout, Received, Shown
    <2> QED
      BY <2>2, <2>3
  <1>3. CASE KeepsAbout(k)
    BY <1>3 DEF KeepsAbout, Shown
  <1> QED
    BY <1>1, <1>2, <1>3

\* Only its own ADD takes a tid out of forked, and nobody was announced with it
\* before.
LEMMA AnnouncingIs ==
    ASSUME TypeOK, TasksInOrder, [Next]_vars, NEW k \in Announcing
    PROVE  k \notin AnnouncedTids /\ k \in AnnouncedTids'
  <1>1. PICK u \in Threads : pc[u] = "announce" /\ pc'[u] = "run" /\ tid[u] = k
    BY DEF Announcing
  <1>2. \A t \in Threads : pc[t] \in Announced /\ tid[t] = tid[u] => t = u
    BY <1>1 DEF TasksInOrder, Alive
  <1>3. tid'[u] = tid[u]
    BY <1>1, AloneBefore DEF Announced
  <1> QED
    BY <1>1, <1>2, <1>3 DEF AnnouncedTids, Announced

\* A step of the system, seen by the threads that fork.
LEMMA NextFork ==
    ASSUME ForkInv, [Next]_vars, forked' = forked \ Announcing, UNCHANGED copies
    PROVE  ForkInv'
  <1> USE DEF ForkInv
  <1>1. TypeOK' /\ TasksInOrder' /\ JobInOrder' /\ CountsInOrder'
    BY NextTypes, NextTasks, NextJob, NextCounts DEF ForkInOrder
  <1>2. ForkTypes'
    <2>1. \A n \in 1 .. Len(copies) : copies[n] \notin Announcing
      BY DEF Announcing, Range, ForkTypes
    <2> QED
      BY <2>1 DEF ForkTypes
  <1>3. ASSUME NEW k \in Tids, k \notin stale'
        PROVE  Owed(queue', k, TakenTids', AnnouncedTids')
    BY <1>3, NextOwed DEF ForkInOrder
  <1>4. ASSUME NEW k \in Tids, k \notin stale', k \notin forked', k \in AnnouncedTids'
        PROVE  Shown(queue', k, TakenTids', AnnouncedTids')
    <2>1. SendsAbout(k) \/ ReceivesAbout(k) \/ KeepsAbout(k)
      BY QueueSteps DEF ForkInOrder
    <2>2. CASE k \notin forked
      <3>1. k \notin stale
        BY <1>4, StaleBefore DEF ForkInOrder, RemovesAbout
      <3> QED
        BY <2>1, <2>2, <3>1, StepShown DEF ForkInOrder
    <2>3. CASE k \in forked
      <3>1. k \notin AnnouncedTids
        BY <1>4, <2>3, AnnouncingIs DEF ForkInOrder
      <3> QED
        BY <1>4, <2>1, <3>1, StepShown
    <2> QED
      BY <2>2, <2>3
  <1>5. ASSUME NEW t \in Threads, Alone(t)', tid'[t] \notin stale', tid'[t] \notin forked'
        PROVE  EntryInOrder(t)'
    <2>1. tid'[t] = tid[t] /\ pc[t] \in Announced \cup {"announce"} /\ tid[t] \notin stale
      BY <1>5, AloneBefore, AloneNotHealed DEF Alone, ForkInOrder
    <2>2. tid[t] \in Tids
      BY <2>1, HasTid DEF Announced, ForkInOrder
    <2>3. Owed(queue, tid[t], TakenTids, AnnouncedTids)
      BY <2>1, <2>2 DEF ForkInOrder
    <2>4. ASSUME Alone(t)
          PROVE  EntryInOrder(t)
      <3>1. tid[t] \in AnnouncedTids
        BY <2>4 DEF Alone, AnnouncedTids
      <3>2. tid[t] \notin Announcing
        BY <3>1, AnnouncingIs DEF ForkInOrder
      <3> QED
        BY <1>5, <2>1, <2>4, <3>2 DEF ForkInOrder
    <2> QED
      BY <1>5, <2>3, <2>4, NextEntry DEF ForkInOrder
  <1>6. \A k : k \notin AnnouncedTids' => Shown(queue', k, TakenTids', AnnouncedTids')
    BY DEF Shown
  <1> QED
    BY <1>1, <1>2, <1>3, <1>4, <1>5, <1>6 DEF ForkInOrder, Alone, EntryInOrder

\* A child's REMOVE is about another tid than k, or leaves k what is owed to it
\* (wrapper.c:70-74).
LEMMA ChildSends ==
    ASSUME ForkInv, NEW n \in 1 .. MaxForks, ChildReturns(n)
    PROVE  /\ copies[n] \in forked
           /\ \A k \in Tids :
                 /\ k # copies[n] => SendsAbout(k)
                 /\ Owed(queue, k, TakenTids, AnnouncedTids)
                       => Owed(queue', k, TakenTids', AnnouncedTids')
  <1> DEFINE m == [flag |-> "remove", tid |-> copies[n]]
  <1>1. copies[n] \in forked /\ copies[n] \in Tids
    BY DEF ChildReturns, ForkInv, ForkTypes
  <1>2. m \in Messages /\ m.tid = copies[n] /\ m.flag = "remove"
    BY <1>1 DEF Messages, Flags
  <1>3. queue' = Append(queue, m) /\ queue \in Seq(Messages)
    BY DEF ChildReturns, ForkInv, TypeOK, PreloadTypeOK
  <1> HIDE DEF m
  <1>4. AnnouncedTids' = AnnouncedTids /\ TakenTids' = TakenTids
    BY DEF ChildReturns, Outside, stateVars, kernelVars, AnnouncedTids, TakenTids, Held
  <1>5. ASSUME NEW k \in Tids
        PROVE  /\ k # copies[n] => SendsAbout(k)
               /\ Owed(queue, k, TakenTids, AnnouncedTids)
                     => Owed(queue', k, TakenTids', AnnouncedTids')
    <2>1. Sent(queue, m, k, queue', Len(queue) + 1) /\ Len(queue) + 1 \in Nat
      BY <1>2, <1>3, AppendSends
    <2>2. k # copies[n] => SendsAbout(k)
      BY <1>2, <1>4, <2>1 DEF SendsAbout
    <2>3. Owed(queue, k, TakenTids, AnnouncedTids)
             => Owed(queue', k, TakenTids', AnnouncedTids')
      BY <1>2, <1>4, <2>1 DEF Owed, Sent
    <2> QED
      BY <2>2, <2>3
  <1> QED
    BY <1>1, <1>5

\* A child's end harms no tid that is not in forked.
LEMMA ReturnFork ==
    ASSUME ForkInv, NEW n \in 1 .. MaxForks, ChildReturns(n)
    PROVE  ForkInv'
  <1> USE DEF ForkInv
  <1>1. UNCHANGED <<forked, kernelVars, pc, Outside, mainVars, stale>>
    BY DEF ChildReturns
  <1>2. TypeOK'
    <2>1. queue' \in Seq(Messages) /\ Len(queue') <= QueueDepth
      <3>1. [flag |-> "remove", tid |-> copies[n]] \in Messages
        BY ChildSends DEF Messages, Flags, ForkTypes
      <3>2. queue \in Seq(Messages) /\ Len(queue) < QueueDepth
        BY DEF ChildReturns, TypeOK, PreloadTypeOK
      <3> QED
        BY <3>1, <3>2, AppendFacts DEF ChildReturns
    <2>2. PreloadTypeOK'
      BY <1>1, <2>1 DEF TypeOK, PreloadTypeOK, KernelTypeOK, kernelVars
    <2>3. StateTypeOK'
      BY <1>1 DEF TypeOK, StateTypeOK, Outside, stateVars, Held, Ids
    <2>4. PollerTypeOK'
      BY <1>1 DEF TypeOK, PollerTypeOK, Outside, pollerVars
    <2> QED
      BY <1>1, <2>2, <2>3, <2>4 DEF TypeOK, mainVars
  <1>3. ForkTypes'
    <2>1. copies' = [copies EXCEPT ![n] = NoTid] /\ forked' = forked /\ n \in DOMAIN copies
      BY DEF ChildReturns
    <2>2. PICK S : S = Tids \cup {NoTid}
      OBVIOUS
    <2>3. copies \in Seq(S) /\ NoTid \in S /\ DOMAIN copies = 1 .. Len(copies)
      BY <2>2 DEF ForkTypes
    <2>4. /\ copies' \in Seq(S)
          /\ Len(copies') = Len(copies)
          /\ \A j \in 1 .. Len(copies) : copies'[j] = IF j = n THEN NoTid ELSE copies[j]
      BY <2>1, <2>3
    <2>5. \A j \in 1 .. Len(copies') : copies'[j] \in forked' \cup {NoTid}
      BY <2>1, <2>4 DEF ForkTypes
    <2>6. copies' \in Seq(Tids \cup {NoTid})
      BY <2>2, <2>4
    <2> QED
      BY <2>1, <2>5, <2>6 DEF ForkTypes
  <1>4. TasksInOrder' /\ JobInOrder' /\ CountsInOrder' /\ stale' = stale
    BY <1>1 DEF ForkInOrder, TasksInOrder, JobInOrder, CountsInOrder, Outside,
                stateVars, kernelVars, Held, Ids
  <1>5. \A k \in Tids \ stale : Owed(queue', k, TakenTids', AnnouncedTids')
    BY ChildSends DEF ForkInOrder
  <1>6. \A k \in Tids \ (stale \cup forked) : Shown(queue', k, TakenTids', AnnouncedTids')
    BY ChildSends, StepShown DEF ForkInOrder
  <1>7. ASSUME NEW t \in Threads, Alone(t)', tid[t] \notin stale \cup forked
        PROVE  EntryInOrder(t)'
    <2>1. \A k : RemovePending(k) => RemovePending(k)'
      <3>1. queue' = Append(queue, [flag |-> "remove", tid |-> copies[n]])
            /\ queue \in Seq(Messages)
        BY DEF ChildReturns, TypeOK, PreloadTypeOK
      <3>2. [flag |-> "remove", tid |-> copies[n]] \in Messages
        BY ChildSends DEF Messages, Flags, ForkTypes
      <3>3. /\ Len(queue') = Len(queue) + 1 /\ Len(queue) \in Nat
            /\ \A r \in 1 .. Len(queue) : queue'[r] = queue[r]
        BY <3>1, <3>2, AppendFacts
      <3> QED
        BY <3>3 DEF RemovePending
    <2>2. UNCHANGED <<tid, pc, groups, job, perf>>
      BY <1>1 DEF kernelVars, Outside, stateVars
    <2>3. Alone(t)
      BY <1>7, <2>1, <2>2 DEF Alone, TakenTids, Held
    <2>4. EntryInOrder(t)
      BY <1>7, <2>3 DEF ForkInOrder
    <2> QED
      BY <2>2, <2>4 DEF EntryInOrder, EntryIds, StillToOpen, Held
  <1>8. tid' = tid /\ forked' = forked
    BY <1>1 DEF kernelVars
  <1> QED
    BY <1>2, <1>3, <1>4, <1>5, <1>6, <1>7, <1>8 DEF ForkInOrder, Alone, EntryInOrder

\* A thread that forks puts its tid among those that less is known of.
LEMMA ForkFork ==
    ASSUME ForkInv, NEW k \in Tids, fork(k)
    PROVE  ForkInv'
  <1> USE DEF ForkInv
  <1>1. copies' = Append(copies, k) /\ forked' = forked \cup {k} /\ UNCHANGED vars
    BY DEF fork
  <1>2. ForkTypes'
    <2>1. copies \in Seq(Tids \cup {NoTid}) /\ k \in Tids \cup {NoTid}
      BY DEF ForkTypes
    <2>2. /\ copies' \in Seq(Tids \cup {NoTid}) /\ Len(copies') = Len(copies) + 1
          /\ copies'[Len(copies) + 1] = k /\ Len(copies) \in Nat
          /\ \A n \in 1 .. Len(copies) : copies'[n] = copies[n]
      BY <1>1, <2>1
    <2>3. \A n \in 1 .. Len(copies') : n \in 1 .. Len(copies) \/ n = Len(copies) + 1
      BY <2>2
    <2> QED
      BY <1>1, <2>2, <2>3 DEF ForkTypes
  <1>3. TypeOK' /\ TasksInOrder' /\ JobInOrder' /\ CountsInOrder'
    BY <1>1, NextTypes, NextTasks, NextJob, NextCounts DEF ForkInOrder
  <1>4. /\ UNCHANGED <<queue, TakenTids, AnnouncedTids, stale>>
        /\ \A t \in Threads : /\ Alone(t)' <=> Alone(t)
                              /\ EntryInOrder(t)' <=> EntryInOrder(t)
                              /\ tid'[t] = tid[t]
    BY <1>1 DEF vars, kernelVars, preloadVars, stateVars, TakenTids, AnnouncedTids,
                Alone, EntryInOrder, EntryIds, StillToOpen, RemovePending, Held
  <1> QED
    BY <1>1, <1>2, <1>3, <1>4 DEF ForkInOrder

LEMMA ForkInvariant == ForkSpec => []ForkInv
  <1>1. ForkInit => ForkInv
    <2> SUFFICES ASSUME ForkInit PROVE ForkInv
      OBVIOUS
    <2>1. TypeOK /\ SystemInOrder
      BY InitTypes, InitInOrder DEF ForkInit
    <2>2. ForkTypes
      BY DEF ForkInit, ForkTypes
    <2>3. ForkInOrder
      BY <2>1, AloneEntries
         DEF ForkInit, SystemInOrder, MessagesInOrder, Alternate, ForkInOrder, Shown
    <2> QED
      BY <2>1, <2>2, <2>3 DEF ForkInv
  <1>2. ForkInv /\ [ForkNext]_<<vars, forkVars>> => ForkInv'
    <2> SUFFICES ASSUME ForkInv, [ForkNext]_<<vars, forkVars>> PROVE ForkInv'
      OBVIOUS
    <2>1. CASE Next /\ forked' = forked \ Announcing /\ UNCHANGED copies
      BY <2>1, NextFork
    <2>2. CASE \E k \in Tids : fork(k)
      BY <2>2, ForkFork
    <2>3. CASE \E n \in 1 .. MaxForks : ChildReturns(n)
      BY <2>3, ReturnFork
    <2>4. CASE UNCHANGED <<vars, forkVars>>
      <3>1. Announcing = {} /\ UNCHANGED <<vars, copies, forked>>
        BY <2>4 DEF Announcing, vars, preloadVars, forkVars
      <3> QED
        BY <3>1, NextFork
    <2> QED
      BY <2>1, <2>2, <2>3, <2>4 DEF ForkNext
  <1> QED
    BY <1>1, <1>2, PTL DEF ForkSpec

\* Threads that fork do no harm to the counting of others: a thread is counted,
\* by groups attached to itself, whatever the children of threads with other
\* tids send and when (wrapper.c:70-74, state.rs:82-92).
THEOREM AlwaysMonitoredBarForks == ForkSpec => []MonitoredBarForks
  <1>1. ForkInv => MonitoredBarForks
    <2> SUFFICES ASSUME ForkInv, NEW t \in Threads, pc[t] \in Announced,
                        Settled(tid[t]), tid[t] \notin stale \cup forked
                 PROVE  Counted(t)
      BY DEF MonitoredBarForks
    <2> USE DEF ForkInv
    <2>1. tid[t] \in Tids /\ tid[t] \in AnnouncedTids
      BY HasTid DEF Announced, AnnouncedTids, ForkInOrder
    <2>2. NoneAbout(queue, tid[t], 1, Len(queue)) /\ ~RemovePending(tid[t])
      BY DEF Settled, Pending, NoneAbout, RemovePending
    <2>3. tid[t] \in TakenTids
      BY <2>1, <2>2 DEF ForkInOrder, Shown
    <2>4. tid[t] \in Held
      BY <2>3 DEF Settled, Changing, TakenTids
    <2>5. EntryInOrder(t)
      BY <2>2, <2>3 DEF Alone, ForkInOrder
    <2> QED
      BY <2>4, <2>5 DEF EntryInOrder, EntryIds, StillToOpen, Counted
  <1> QED
    BY <1>1, ForkInvariant, PTL

\* Nor does a child leave anything open: what is owed to a tid has its REMOVE to
\* come, also when a child has sent one more (state.rs:82-92).
THEOREM ForksLeaveNothingOpen == ForkSpec => []NothingLeftOpen
  <1>1. ForkInv => NothingLeftOpen
    <2> SUFFICES ASSUME ForkInv, NEW t \in Threads, Left(t),
                        Settled(tid[t]), tid[t] \notin stale,
                        \A u \in Threads : tid[u] = tid[t] => pc[u] \notin Announced,
                        tid[t] \in Held
                 PROVE  FALSE
      BY DEF NothingLeftOpen
    <2> USE DEF ForkInv
    <2>1. tid[t] \in Tids /\ tid[t] \notin AnnouncedTids /\ tid[t] \in TakenTids
      BY HasTid DEF Left, AnnouncedTids, TakenTids, ForkInOrder
    <2>2. \E n \in About(queue, tid[t]) : queue[n].flag = "remove"
      BY <2>1 DEF ForkInOrder, Owed
    <2> QED
      BY <2>2 DEF Settled, Pending, About
  <1> QED
    BY <1>1, ForkInvariant, PTL

-----------------------------------------------------------------------------
(* The State among the other parts: whatever programs, queue and loop do,  *)
(* the State goes through a behavior of StateCalls, and all that is true   *)
(* of calls in any order is true of the system.                            *)

\* Threads that end, however many at once, end there too.
LEMMA ReapIsTask == ASSUME NEW S, Reap(S) PROVE Calls!Task
  <1>1. live' = live \ (S \cap live) /\ (S \cap live) \in SUBSET live
    BY DEF Reap
  <1> QED
    BY <1>1 DEF Reap, Calls!Reap, Calls!Task

\* What a thread does is a step of a thread there, or none.
LEMMA ThreadIsTask == ProcessStep => Calls!Task \/ UNCHANGED kernelVars
  <1> SUFFICES ASSUME ProcessStep PROVE Calls!Task \/ UNCHANGED kernelVars
    OBVIOUS
  <1>1. PICK t \in Threads : \/ \E k \in Tids : constructor(t, k) \/ pthread_create(t, k)
                             \/ ThreadStep(t)
                             \/ AbruptStep(t)
    BY DEF ProcessStep
  <1>2. ASSUME NEW k \in Tids, constructor(t, k) \/ pthread_create(t, k)
        PROVE  Calls!Task
    <2>1. Clone(t, k)
      BY <1>2 DEF constructor, pthread_create
    <2> QED
      BY <2>1 DEF Clone, TaskAt, Calls!Clone, Calls!TaskAt, Calls!Task
  <1>3. CASE ThreadStep(t)
    <2>1. CASE SendAdd(t) \/ cleanup_handler(t) \/ \E how \in {"leave", "unwind"} : FinishFunction(t, how)
      BY <2>1 DEF SendAdd, cleanup_handler, FinishFunction, kernelVars
    <2>2. CASE Exit(t)
      BY <2>2, ReapIsTask DEF Exit
    <2>3. CASE RunFunction(t)
      BY <2>3 DEF RunFunction, Execute, Calls!Execute, Calls!Task
    <2> QED
      BY <1>3, <2>1, <2>2, <2>3 DEF ThreadStep
  <1>4. CASE AbruptStep(t)
    BY <1>4, ReapIsTask
       DEF AbruptStep, ProcessExit, SendInterrupted, MainThreadExit, CancelledInSend, Execve,
           EndProcess, EndThread
  <1> QED
    BY <1>1, <1>2, <1>3, <1>4

\* Every step of the system is a step of StateCalls or leaves the State and the
\* threads alone (main.rs:60-83, handlers.rs:13-27).
LEMMA NextIsCall == TypeOK /\ [Next]_vars => [Calls!Next]_Calls!vars
  <1> SUFFICES ASSUME TypeOK, [Next]_vars PROVE [Calls!Next]_Calls!vars
    OBVIOUS
  <1>1. (UNCHANGED kernelVars <=> UNCHANGED Calls!kernelVars)
        /\ (UNCHANGED stateVars <=> UNCHANGED Calls!stateVars)
    BY DEF kernelVars, stateVars, Calls!kernelVars, Calls!stateVars
  <1>2. CASE ProcessStep
    BY <1>1, <1>2, ThreadIsTask DEF ProcessStep, Outside, Calls!Next, Calls!vars
  <1>3. CASE queue_handler
    <2>1. Head(queue).tid \in Tids /\ UNCHANGED kernelVars
          /\ (open_tid(Head(queue).tid) \/ close_tid(Head(queue).tid))
      BY <1>3, Receives DEF Messages
    <2> QED
      BY <1>1, <2>1, SameCalls DEF Calls!Next, Calls!Call
  <1>4. CASE StateStep
    BY <1>1, <1>4, SameCalls DEF StateStep, Calls!Next
  <1>5. CASE StartsFlush
    BY <1>1, <1>5, SameCalls DEF StartsFlush, Calls!Next, Calls!Call
  <1>6. CASE Quiet
    BY <1>1, <1>6 DEF Quiet, Calls!vars
  <1> QED
    BY <1>2, <1>3, <1>4, <1>5, <1>6, StepKinds

\* Both start alike.
LEMMA InitIsCalls == Init => Calls!Init
  BY DEF Init, KernelInit, StateInit, NoJob,
         Calls!Init, Calls!KernelInit, Calls!StateInit, Calls!NoJob

\* The handlers of main call the State as StateCalls allows, one call at a time,
\* whatever is sent and whenever (main.rs:60-83, handlers.rs:13-27).
THEOREM ImplementsCalls == Spec => Calls!Spec
  BY Invariant, InitIsCalls, NextIsCall, PTL DEF Calls!Spec, Spec

\* Also when children of threads that fork send what they like.
THEOREM ForksImplementCalls == ForkSpec => Calls!Spec
  <1>1. ForkInv /\ [ForkNext]_<<vars, forkVars>> => [Calls!Next]_Calls!vars
    <2> SUFFICES ASSUME ForkInv, [ForkNext]_<<vars, forkVars>>
                 PROVE  [Calls!Next]_Calls!vars
      OBVIOUS
    <2>1. CASE [Next]_vars
      BY <2>1, NextIsCall DEF ForkInv
    <2>2. CASE \E k \in Tids : fork(k)
      BY <2>2, NextIsCall DEF fork, ForkInv
    <2>3. CASE \E n \in 1 .. MaxForks : ChildReturns(n)
      BY <2>3 DEF ChildReturns, Outside, stateVars, kernelVars,
                  Calls!vars, Calls!stateVars, Calls!kernelVars
    <2> QED
      BY <2>1, <2>2, <2>3 DEF ForkNext
  <1> QED
    BY <1>1, ForkInvariant, InitIsCalls, PTL DEF ForkSpec, ForkInit, Calls!Spec

\* So what StateCalls promises holds of the system, for programs that fork as for
\* others.  The rows of the three files join (state.rs:35-75).
THEOREM SystemRowsJoin == Spec \/ ForkSpec => []Calls!EventRowsJoin
  BY ImplementsCalls, ForksImplementCalls, CallsAssumed, Calls!RowsJoin, PTL

\* Read numbers are used once, and order the counts of a group (state.rs:54-56).
THEOREM SystemReadIdsOrdered == Spec \/ ForkSpec => []Calls!ReadIdsOrderCounts
  BY ImplementsCalls, ForksImplementCalls, CallsAssumed, Calls!ReadIdsOrdered, PTL

\* What is written about a tid is about a thread that had it, although threads
\* end and pass on their tids while messages wait (state.rs:17-44).
THEOREM SystemTidsDescribed == Spec \/ ForkSpec => []Calls!DescribedTid
  BY ImplementsCalls, ForksImplementCalls, CallsAssumed, Calls!TidsDescribed, PTL

\* No thread is counted twice, however its tid is announced (state.rs:18).
THEOREM SystemCountsOnce == Spec \/ ForkSpec => []Calls!OneCounterPerThread
  BY ImplementsCalls, ForksImplementCalls, CallsAssumed, Calls!CountedOnce, PTL

\* No group is dropped without its last read, whoever's REMOVE closes it
\* (state.rs:82-92).
THEOREM SystemReadsBeforeClose == Spec \/ ForkSpec => Calls!ReadBeforeClose
  BY ImplementsCalls, ForksImplementCalls, CallsAssumed, Calls!AlwaysReadBeforeClose, PTL
=============================================================================
