------------------------------ MODULE TimeUtil ------------------------------
(***************************************************************************)
(* The conversions of src/base/time_util.h, and the timed waits that       *)
(* Monitor::Impl and Mutex::Impl build from them: read the clock, round it *)
(* to milliseconds, add the timeout, and hand the sum to pthread as an     *)
(* absolute timespec.                                                      *)
(*                                                                         *)
(* The resolutions are parameters: the proportions of the real ones (10^9, *)
(* 10^6, 10^3) matter, their size does not.                                *)
(***************************************************************************)
EXTENDS Integers

CONSTANTS NS_PER_S, US_PER_S, MS_PER_S,
          IntMax,       \* the largest int
          MaxClock,     \* bound on the clock, in nanoseconds
          Timeouts      \* positive timeouts, in milliseconds

NS_PER_MS == NS_PER_S \div MS_PER_S
US_PER_MS == US_PER_S \div MS_PER_S

ASSUME ResolutionsAssumption ==
  /\ MS_PER_S \in Nat \ {0} /\ US_PER_S \in Nat /\ NS_PER_S \in Nat
  /\ NS_PER_S % MS_PER_S = 0 /\ NS_PER_MS % 2 = 0 /\ NS_PER_MS > 0
  /\ US_PER_S % MS_PER_S = 0 /\ US_PER_MS % 2 = 0 /\ US_PER_MS > 0
  /\ NS_PER_S % US_PER_S = 0
  /\ IntMax \in Nat /\ MaxClock \in Nat /\ Timeouts \subseteq Nat \ {0}

VARIABLES clock,      \* CLOCK_REALTIME, in nanoseconds; nobody sets it back
          call,       \* "none", "Wait" or "TimedLock"
          since,      \* when it was called
          timeout,    \* its argument
          abstime,    \* the deadline pthread was given
          waited      \* history: the sum of the timeouts of the Waits that timed out

vars == <<clock, call, since, timeout, abstime, waited>>

-----------------------------------------------------------------------------
(* The conversions.  Clocks and timespecs are not negative.                *)

\* Mutant: ">" for ">=".
ToTicksHalfDown(secs, old_ticks, old_ticks_per_sec, new_ticks_per_sec) ==
  LET result == secs * new_ticks_per_sec
                + (old_ticks * new_ticks_per_sec) \div old_ticks_per_sec
      old_per_new == old_ticks_per_sec \div new_ticks_per_sec
  IN IF old_per_new # 0 /\ old_ticks % old_per_new > old_per_new \div 2
     THEN result + 1 ELSE result

\* Mutant: rounded up within the second only.
ToTicksInSecond(secs, old_ticks, old_ticks_per_sec, new_ticks_per_sec) ==
  LET ticks == (old_ticks * new_ticks_per_sec) \div old_ticks_per_sec
      old_per_new == old_ticks_per_sec \div new_ticks_per_sec
      up == old_ticks % old_per_new >= old_per_new \div 2
  IN secs * new_ticks_per_sec + (IF up THEN (ticks + 1) % new_ticks_per_sec ELSE ticks)

ToTicks(secs, old_ticks, old_ticks_per_sec, new_ticks_per_sec) ==
  LET result == secs * new_ticks_per_sec
                + (old_ticks * new_ticks_per_sec) \div old_ticks_per_sec
      old_per_new == old_ticks_per_sec \div new_ticks_per_sec
  IN IF old_per_new # 0 /\ old_ticks % old_per_new >= old_per_new \div 2
     THEN result + 1 ELSE result

\* Mutant: milliseconds taken for microseconds.
ToTimespecShort(value) ==
  [tv_sec |-> value \div MS_PER_S, tv_nsec |-> (value % MS_PER_S) * US_PER_MS]

ToTimespec(value) ==
  [tv_sec |-> value \div MS_PER_S, tv_nsec |-> (value % MS_PER_S) * NS_PER_MS]

ToTimeval(value) ==
  [tv_sec |-> value \div MS_PER_S, tv_usec |-> (value % MS_PER_S) * US_PER_MS]

\* ToMilliseconds of a timespec and of a timeval, ToUsec of a timespec.
TimespecToMilliseconds(ts) == ToTicks(ts.tv_sec, ts.tv_nsec, NS_PER_S, MS_PER_S)
TimevalToMilliseconds(tv) == ToTicks(tv.tv_sec, tv.tv_usec, US_PER_S, MS_PER_S)
TimespecToUsec(ts) == ToTicks(ts.tv_sec, ts.tv_nsec, NS_PER_S, US_PER_S)

\* What clock_gettime returns.
Now == [tv_sec |-> clock \div NS_PER_S, tv_nsec |-> clock % NS_PER_S]

CurrentTime == TimespecToMilliseconds(Now)
CurrentTimeUsec == TimespecToUsec(Now)

-----------------------------------------------------------------------------
(* A thread in Monitor::Wait(timeout) or Mutex::TimedLock(timeout).  The   *)
(* epoch is further back than any int of milliseconds.                     *)

Epoch == (IntMax + 1) * NS_PER_MS

Init ==
  /\ clock = Epoch
  /\ call = "none" /\ since = 0 /\ timeout = 0 /\ abstime = ToTimespec(0)
  /\ waited = 0

Tick(n) ==
  /\ clock + n <= MaxClock
  /\ clock' = clock + n
  /\ UNCHANGED <<call, since, timeout, abstime, waited>>

\* Mutex::TimedLock(int64_t) hands its argument to an int.
ToInt(value) == ((value + IntMax + 1) % (2 * (IntMax + 1))) - (IntMax + 1)

CallWith(what, value, milliseconds) ==
  /\ call = "none"
  /\ call' = what /\ since' = clock /\ timeout' = value
  /\ abstime' = ToTimespec(CurrentTime + milliseconds)
  /\ UNCHANGED <<clock, waited>>

WaitForTimeRelative(timeout_ms) == CallWith("Wait", timeout_ms, timeout_ms)
TimedLock(ms) == CallWith("TimedLock", ms, ToInt(ms))

Nanoseconds(ts) == ts.tv_sec * NS_PER_S + ts.tv_nsec

\* pthread gives up once the clock has reached the deadline.
TimedOut ==
  /\ call # "none"
  /\ clock >= Nanoseconds(abstime)
  /\ call' = "none"
  /\ waited' = IF call = "Wait" THEN waited + timeout ELSE waited
  /\ UNCHANGED <<clock, since, timeout, abstime>>

\* The TimedLock gets the mutex.
Locked ==
  /\ call = "TimedLock"
  /\ call' = "none"
  /\ UNCHANGED <<clock, since, timeout, abstime, waited>>

Next ==
  \/ \E n \in {1, NS_PER_MS} : Tick(n)
  \/ \E t \in Timeouts : WaitForTimeRelative(t) \/ TimedLock(t)
  \/ TimedOut \/ Locked

Spec == Init /\ [][Next]_vars

-----------------------------------------------------------------------------
(* Properties.                                                             *)

\* A timed wait or lock is never off by more than half a millisecond: the deadline
\* handed to pthread is the moment of the call, to the nearest millisecond, plus the
\* timeout, across seconds as well.  Only TimedLock of a timeout that is no int can
\* give up earlier, and it never waits longer.
DeadlineNearest ==
  call # "none" =>
    LET exact == since + timeout * NS_PER_MS
    IN /\ 2 * (Nanoseconds(abstime) - exact) <= NS_PER_MS
       /\ \/ call = "TimedLock" /\ timeout > IntMax
          \/ 2 * (exact - Nanoseconds(abstime)) < NS_PER_MS

\* Waits that time out never add up to more than CurrentTime measures, though each one
\* may be half a millisecond short: MonitorTimeoutTest subtracts the sum from the
\* measured time as an unsigned number.
WaitsMeasured == CurrentTime >= (IntMax + 1) + waited

\* The deadline is a valid timespec that stands for a whole number of milliseconds,
\* and ToMilliseconds gives that number back, through a timeval too.
RoundTrip ==
  LET ms == TimespecToMilliseconds(abstime)
  IN /\ abstime.tv_nsec \in 0..NS_PER_S - 1
     /\ ToTimespec(ms) = abstime
     /\ TimevalToMilliseconds(ToTimeval(ms)) = ms

\* CurrentTime and CurrentTimeUsec never go back while the clock does not, rounding
\* and the carry into the next second included; queued tasks expire in that order.
TimeMonotone == [][CurrentTime' >= CurrentTime /\ CurrentTimeUsec' >= CurrentTimeUsec]_vars
=============================================================================
