------------------------------ MODULE TimerFD -------------------------------
(***************************************************************************)
(* timerfd: a timer on a descriptor, armed, disarmed and read in any order *)
(* while time passes and the wall clock is stepped.  main arms it with the *)
(* period of a frequency.  Time is in the unit of a timespec.              *)
(***************************************************************************)
EXTENDS Integers

CONSTANTS
    Second,         \* nanoseconds in a second, to scale
    MaxFrequency,   \* bound: what --frequency may be
    MaxSpec,        \* the longest duration a timespec holds
    Delays,         \* bound: what arm_oneshot is called with
    MaxTime,        \* bound: time since the timer was last set
    MaxSteps        \* bound: steps of the wall clock

ASSUME TimerAssumption ==
    /\ {Second, MaxSpec} \subseteq Nat \ {0}
    /\ {MaxFrequency, MaxTime, MaxSteps} \cup Delays \subseteq Nat

VARIABLES
    clock,     \* the Clock of TimerFD::new
    timer,     \* the kernel's timer: it_value counted down, 0 when disarmed
    ticks,     \* expirations to be read
    asked,     \* the last call that returned Ok, and its duration
    since,     \* time since that call
    taken,     \* expirations read since that call
    steps      \* steps of the wall clock

vars == <<clock, timer, ticks, asked, since, taken, steps>>

Init ==
    /\ clock \in {"Monotonic", "Realtime"}
    /\ timer = [value |-> 0, interval |-> 0, absolute |-> FALSE]
    /\ ticks = 0
    /\ asked = [op |-> "disarm", duration |-> 0]
    /\ since = 0 /\ taken = 0 /\ steps = 0

-----------------------------------------------------------------------------
\* Faulty variant: with TFD_TIMER_ABSTIME.
settime_Absolute(interval, value) ==
    /\ timer' = [value |-> value, interval |-> interval, absolute |-> TRUE]
    /\ ticks' = 0 /\ since' = 0 /\ taken' = 0
    /\ UNCHANGED <<clock, steps>>

\* timerfd_settime with no flags: the time is relative, and what the timer
\* was armed with or had to be read is gone.
settime(interval, value) ==
    /\ timer' = [value |-> value, interval |-> interval, absolute |-> FALSE]
    /\ ticks' = 0 /\ since' = 0 /\ taken' = 0
    /\ UNCHANGED <<clock, steps>>

\* What main arms: 1/f seconds, rounded to the nearest nanosecond, and to the
\* even one of two that are as near.
Period(f) ==
    LET down == Second \div f
        rest == Second % f
    IN  IF 2 * rest > f \/ (2 * rest = f /\ down % 2 = 1) THEN down + 1 ELSE down

\* Faulty variant: zero goes through.
arm_periodic_Zero(period) ==
    /\ period <= MaxSpec
    /\ settime(period, period)
    /\ asked' = [op |-> "periodic", duration |-> period]

\* A zero period, and one that no timespec holds, are refused: no step.
arm_periodic(period) ==
    /\ period \in 1 .. MaxSpec
    /\ settime(period, period)
    /\ asked' = [op |-> "periodic", duration |-> period]

arm_oneshot(delay) ==
    /\ delay \in 1 .. MaxSpec
    /\ settime(0, delay)
    /\ asked' = [op |-> "oneshot", duration |-> delay]

disarm ==
    /\ settime(0, 0)
    /\ asked' = [op |-> "disarm", duration |-> 0]

\* Takes every expiration; blocks, that is has no step, while there is none.
read ==
    /\ ticks > 0
    /\ taken' = taken + ticks
    /\ ticks' = 0
    /\ UNCHANGED <<clock, timer, asked, since, steps>>

-----------------------------------------------------------------------------
(* The kernel's side: timerfd_settime(2), timerfd_create(2).               *)

\* One unit of time: the timer counts down, and starts over if periodic.
Pass ==
    /\ since < MaxTime
    /\ since' = since + 1
    /\ timer' = CASE timer.value = 0 -> timer
                  [] timer.value = 1 -> [timer EXCEPT !.value = timer.interval]
                  [] OTHER -> [timer EXCEPT !.value = @ - 1]
    /\ ticks' = IF timer.value = 1 THEN ticks + 1 ELSE ticks
    /\ UNCHANGED <<clock, asked, taken, steps>>

\* The wall clock is set back by one unit: only a timer that waits for an
\* absolute time of that clock is concerned.
WallClockStep ==
    /\ steps < MaxSteps
    /\ steps' = steps + 1
    /\ timer' = IF clock = "Realtime" /\ timer.absolute /\ timer.value > 0
                THEN [timer EXCEPT !.value = @ + 1]
                ELSE timer
    /\ UNCHANGED <<clock, ticks, asked, since, taken>>

Next ==
    \/ \E f \in 1 .. MaxFrequency : arm_periodic(Period(f))
    \/ \E delay \in Delays : arm_oneshot(delay)
    \/ disarm
    \/ read
    \/ Pass
    \/ WallClockStep

Spec == Init /\ [][Next]_vars

-----------------------------------------------------------------------------
\* What was read and what is still to be read are the expirations since the
\* timer was set, of the duration asked for: none is lost or left over from
\* an earlier arming, a oneshot fires once, a disarmed timer is quiet, and a
\* wall-clock step changes nothing (timerfd/src/lib.rs:55-137, main.rs:48).
ReadsAddUp ==
    taken + ticks =
        CASE asked.op = "periodic" -> since \div asked.duration
          [] asked.op = "oneshot" -> IF since >= asked.duration THEN 1 ELSE 0
          [] asked.op = "disarm" -> 0

\* A timer that arm_periodic accepted goes on firing, whatever the frequency
\* was rounded to: main either samples or stops in the expect, it never runs
\* with a timer that a zero period disarmed (main.rs:51-54, lib.rs:69-76).
NeverRunsUnsampled ==
    asked.op = "periodic" => timer.value > 0 /\ timer.interval = asked.duration
=============================================================================
