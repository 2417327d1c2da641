--------------------------- MODULE TimerFDProofs ----------------------------
(***************************************************************************)
(* Proofs about TimerFD, for any durations, frequencies and clocks and any *)
(* time.                                                                   *)
(***************************************************************************)
EXTENDS TimerFD, TLAPS

Ops == {"periodic", "oneshot", "disarm"}
Timers == [value : Nat, interval : Nat, absolute : {FALSE}]

TypeOK ==
    /\ timer \in Timers
    /\ {ticks, since, taken} \subseteq Nat
    /\ asked \in [op : Ops, duration : Nat]

Fired == taken + ticks

\* What the timer counts down is what is left of the duration asked for, after
\* the expirations so far.
Periodic ==
    asked.op = "periodic" =>
        /\ timer.interval = asked.duration
        /\ timer.value \in 1 .. asked.duration
        /\ since = Fired * asked.duration + (asked.duration - timer.value)

Oneshot ==
    asked.op = "oneshot" =>
        /\ timer.interval = 0
        /\ timer.value > 0 => since + timer.value = asked.duration /\ Fired = 0
        /\ timer.value = 0 => since >= asked.duration /\ Fired = 1

Disarmed ==
    asked.op = "disarm" => timer.value = 0 /\ timer.interval = 0 /\ Fired = 0

IInv == TypeOK /\ Periodic /\ Oneshot /\ Disarmed

-----------------------------------------------------------------------------
\* Division: n whole periods and a rest are n periods.
LEMMA WholePeriods ==
    ASSUME NEW d \in Nat \ {0}, NEW n \in Nat, NEW rest \in 0 .. (d - 1)
    PROVE  (n * d + rest) \div d = n
  <1> DEFINE x == n * d + rest
             q == x \div d
  <1>1. n * d \in Nat /\ x \in Nat
    OBVIOUS
  <1>2. q \in Int /\ d * q <= x /\ x < d * q + d
    BY <1>1, SMT
  <1>3. CASE q < n
    <2>1. d * q + d <= n * d
      BY <1>2, <1>3, SMT
    <2> QED
      BY <1>2, <2>1, SMT
  <1>4. CASE q > n
    <2>1. n * d + d <= d * q
      BY <1>2, <1>4, SMT
    <2> QED
      BY <1>1, <1>2, <2>1, SMT
  <1> QED
    BY <1>2, <1>3, <1>4, SMT

\* One more period.
LEMMA OneMore ==
    ASSUME NEW d \in Nat, NEW n \in Nat
    PROVE  (n + 1) * d = n * d + d /\ n * d \in Nat
  OBVIOUS

\* Setting what is left of a timer.
LEMMA SetValue ==
    ASSUME NEW x \in Timers, NEW n \in Nat
    PROVE  LET y == [x EXCEPT !.value = n]
           IN  y \in Timers /\ y.value = n /\ y.interval = x.interval
  BY DEF Timers

\* settime starts the count anew (timerfd/src/lib.rs:109-137).
LEMMA ArmedIInv ==
    ASSUME NEW op \in Ops, NEW duration \in Nat, NEW interval \in Nat, NEW value \in Nat,
           settime(interval, value), asked' = [op |-> op, duration |-> duration],
           op = "periodic" => duration > 0 /\ interval = duration /\ value = duration,
           op = "oneshot" => duration > 0 /\ interval = 0 /\ value = duration,
           op = "disarm" => interval = 0 /\ value = 0
    PROVE  IInv'
  <1>1. /\ timer' = [value |-> value, interval |-> interval, absolute |-> FALSE]
        /\ ticks' = 0 /\ since' = 0 /\ taken' = 0
    BY DEF settime
  <1>2. TypeOK'
    BY <1>1 DEF TypeOK, Timers
  <1>3. Fired' = 0 /\ timer'.value = value /\ timer'.interval = interval
        /\ asked'.op = op /\ asked'.duration = duration
    BY <1>1 DEF Fired
  <1>4. Oneshot' /\ Disarmed'
    BY <1>1, <1>3 DEF Oneshot, Disarmed
  <1>5. Periodic'
    BY <1>1, <1>3 DEF Periodic
  <1> QED
    BY <1>2, <1>4, <1>5 DEF IInv

\* arm_periodic, arm_oneshot and disarm (timerfd/src/lib.rs:65-107).
LEMMA ArmIInv ==
    ASSUME NEW d \in Int, arm_periodic(d) \/ arm_oneshot(d) \/ disarm
    PROVE  IInv'
  <1>0. MaxSpec \in Nat
    BY TimerAssumption
  <1>1. CASE arm_periodic(d)
    BY <1>0, <1>1, ArmedIInv DEF arm_periodic, Ops
  <1>2. CASE arm_oneshot(d)
    BY <1>0, <1>2, ArmedIInv DEF arm_oneshot, Ops
  <1>3. CASE disarm
    BY <1>3, ArmedIInv DEF disarm, Ops
  <1> QED
    BY <1>1, <1>2, <1>3

\* read moves what has expired from the kernel to the program.
LEMMA ReadIInv == IInv /\ read => IInv'
  <1> SUFFICES ASSUME IInv, read PROVE IInv'
    OBVIOUS
  <1>1. /\ taken' = taken + ticks /\ ticks' = 0
        /\ UNCHANGED <<timer, asked, since>>
        /\ {ticks, taken} \subseteq Nat
    BY DEF read, IInv, TypeOK
  <1>2. Fired' = Fired
    BY <1>1 DEF Fired
  <1> QED
    BY <1>1, <1>2 DEF IInv, TypeOK, Periodic, Oneshot, Disarmed

\* A unit of time passes.
LEMMA PassIInv == IInv /\ Pass => IInv'
  <1> SUFFICES ASSUME IInv, Pass PROVE IInv'
    OBVIOUS
  <1> DEFINE v == timer.value
             i == timer.interval
             d == asked.duration
  <1>1. /\ v \in Nat /\ i \in Nat /\ d \in Nat /\ {ticks, since, taken} \subseteq Nat
        /\ timer \in Timers
        /\ since' = since + 1 /\ taken' = taken /\ asked' = asked
    <2>1. timer \in Timers /\ asked \in [op : Ops, duration : Nat]
      BY DEF IInv, TypeOK
    <2> QED
      BY <2>1 DEF Pass, IInv, TypeOK, Timers
  <1>2. CASE v = 0
    <2>1. timer' = timer /\ ticks' = ticks
      BY <1>2 DEF Pass
    <2> QED
      BY <1>1, <1>2, <2>1 DEF IInv, TypeOK, Periodic, Oneshot, Disarmed, Fired
  <1>3. CASE v = 1
    <2>1. timer' = [timer EXCEPT !.value = i] /\ ticks' = ticks + 1
      BY <1>3 DEF Pass
    <2>2. /\ timer' \in Timers /\ timer'.value = i /\ timer'.interval = i
          /\ Fired' = Fired + 1 /\ Fired \in Nat
      BY <1>1, <2>1, SetValue DEF Fired
    <2>3. TypeOK'
      BY <1>1, <2>1, <2>2 DEF IInv, TypeOK
    <2>4. Periodic'
      <3> SUFFICES ASSUME asked.op = "periodic"
                   PROVE  /\ i = d /\ i \in 1 .. d
                          /\ since + 1 = (Fired + 1) * d + (d - i)
        BY <1>1, <2>2 DEF Periodic
      <3>1. i = d /\ d >= 1 /\ since = Fired * d + (d - 1)
        BY <1>1, <1>3 DEF IInv, Periodic
      <3>2. (Fired + 1) * d = Fired * d + d /\ Fired * d \in Nat
        BY <1>1, <2>2, OneMore
      <3> QED
        BY <1>1, <3>1, <3>2
    <2>5. Oneshot' /\ Disarmed'
      BY <1>1, <1>3, <2>2 DEF IInv, Oneshot, Disarmed
    <2> QED
      BY <2>3, <2>4, <2>5 DEF IInv
  <1>4. CASE v > 1
    <2>1. timer' = [timer EXCEPT !.value = v - 1] /\ ticks' = ticks
      BY <1>1, <1>4 DEF Pass
    <2>2. /\ timer' \in Timers /\ timer'.value = v - 1 /\ timer'.interval = i
          /\ Fired' = Fired /\ Fired \in Nat
      <3>1. v - 1 \in Nat
        BY <1>1, <1>4
      <3> QED
        BY <1>1, <2>1, <3>1, SetValue DEF Fired
    <2>3. TypeOK'
      BY <1>1, <2>1, <2>2 DEF IInv, TypeOK
    <2>4. Periodic'
      <3> SUFFICES ASSUME asked.op = "periodic"
                   PROVE  /\ i = d /\ v - 1 \in 1 .. d
                          /\ since + 1 = Fired * d + (d - (v - 1))
        BY <1>1, <2>2 DEF Periodic
      <3>1. i = d /\ v \in 1 .. d /\ since = Fired * d + (d - v) /\ Fired * d \in Nat
        BY <1>1, <2>2 DEF IInv, Periodic
      <3> QED
        BY <1>1, <1>4, <3>1
    <2>5. Oneshot' /\ Disarmed'
      BY <1>1, <1>4, <2>2 DEF IInv, Oneshot, Disarmed
    <2> QED
      BY <2>3, <2>4, <2>5 DEF IInv
  <1> QED
    BY <1>1, <1>2, <1>3, <1>4

\* A step of the wall clock moves no timer of this library: none is absolute.
LEMMA WallClockIInv == IInv /\ WallClockStep => IInv'
  <1> SUFFICES ASSUME IInv, WallClockStep PROVE IInv'
    OBVIOUS
  <1>1. timer' = timer /\ UNCHANGED <<ticks, asked, since, taken>>
    BY DEF WallClockStep, IInv, TypeOK, Timers
  <1> QED
    BY <1>1 DEF IInv, TypeOK, Periodic, Oneshot, Disarmed, Fired

\* A timer that was never armed is disarmed.
LEMMA InitIInv == Init => IInv
  BY DEF Init, IInv, TypeOK, Timers, Ops, Periodic, Oneshot, Disarmed, Fired

\* Every step keeps the invariant.
LEMMA NextIInv == IInv /\ [Next]_vars => IInv'
  <1> SUFFICES ASSUME IInv, [Next]_vars PROVE IInv'
    OBVIOUS
  <1>0. /\ {MaxFrequency, Second} \subseteq Nat /\ Delays \subseteq Nat
    BY TimerAssumption
  <1>1. ASSUME NEW f \in 1 .. MaxFrequency, arm_periodic(Period(f)) PROVE IInv'
    <2>1. Period(f) \in Int
      BY <1>0, <1>1 DEF arm_periodic
    <2> QED
      BY <1>1, <2>1, ArmIInv
  <1>2. ASSUME NEW delay \in Delays, arm_oneshot(delay) PROVE IInv'
    BY <1>0, <1>2, ArmIInv
  <1>3. CASE disarm
    BY <1>3, ArmIInv
  <1>4. CASE read
    BY <1>4, ReadIInv
  <1>5. CASE Pass
    BY <1>5, PassIInv
  <1>6. CASE WallClockStep
    BY <1>6, WallClockIInv
  <1>7. CASE UNCHANGED vars
    BY <1>7 DEF vars, IInv, TypeOK, Periodic, Oneshot, Disarmed, Fired
  <1> QED
    BY <1>1, <1>2, <1>3, <1>4, <1>5, <1>6, <1>7 DEF Next

\* A timer that arm_periodic accepted goes on firing with the period it was
\* given, for any frequency and any rounding (main.rs:51-54).
THEOREM AlwaysSampled == Spec => []NeverRunsUnsampled
  <1>1. IInv => NeverRunsUnsampled
    BY DEF IInv, TypeOK, Periodic, NeverRunsUnsampled
  <1> QED
    BY <1>1, InitIInv, NextIInv, PTL DEF Spec

\* What read returns adds up to the expirations since the timer was set,
\* for any duration and any time (timerfd/src/lib.rs:55-137).
THEOREM ExpirationsAddUp == Spec => []ReadsAddUp
  <1>1. ASSUME IInv PROVE ReadsAddUp
    <2>1. asked.op \in Ops /\ asked.duration \in Nat /\ timer.value \in Nat
          /\ {since, ticks, taken} \subseteq Nat /\ Fired \in Nat
      BY <1>1 DEF IInv, TypeOK, Timers, Fired
    <2>2. CASE asked.op = "periodic"
      <3> DEFINE d == asked.duration
                 rest == asked.duration - timer.value
      <3>1. d \in Nat \ {0} /\ rest \in 0 .. (d - 1) /\ since = Fired * d + rest
        BY <1>1, <2>1, <2>2 DEF IInv, Periodic
      <3>2. since \div d = Fired
        <4> HIDE DEF d, rest
        <4> QED
          BY <2>1, <3>1, WholePeriods
      <3> QED
        BY <2>2, <3>2 DEF ReadsAddUp, Fired
    <2>3. CASE asked.op = "oneshot"
      BY <1>1, <2>1, <2>3 DEF IInv, Oneshot, ReadsAddUp, Fired
    <2>4. CASE asked.op = "disarm"
      BY <1>1, <2>4 DEF IInv, Disarmed, ReadsAddUp, Fired
    <2> QED
      BY <2>1, <2>2, <2>3, <2>4 DEF Ops
  <1> QED
    BY <1>1, InitIInv, NextIInv, PTL DEF Spec
=============================================================================
