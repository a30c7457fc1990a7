---------------------------- MODULE RealtimeLoop ----------------------------
(***************************************************************************)
(* The release schedule of the hard-realtime loop                          *)
(* (robot_io/daemon/realtime_loop.cpp): absolute deadlines on a grid of    *)
(* periods, late releases skipped, arithmetic that saturates at the end of *)
(* the clock.  DaemonLifecycle runs the loop; the operators here are what  *)
(* wait_next and observe_finish compute.                                   *)
(***************************************************************************)
EXTENDS Integers

CONSTANTS
    Period,                \* config_.period
    MaxTime                \* the last instant of the clock (INT64_MAX)

ASSUME PeriodAssumption == Period \in Nat \ {0}
ASSUME ClockAssumption == MaxTime \in Nat /\ MaxTime > Period

Times == 0..MaxTime

saturating_add(value, increment) ==
    IF value > MaxTime - increment THEN MaxTime ELSE value + increment

\* The first release is one period from now, each later one a period after the
\* one before.
Scheduled(started, deadline, now) ==
    IF started THEN saturating_add(deadline, Period) ELSE saturating_add(now, Period)

\* Releases of the grid that have passed at now, release r included.
Passed(r, now) == (now - r) \div Period + 1

\* Mutant: a release that is due exactly now is not skipped.
SkippedLate(r, now) == IF r < now THEN Passed(r, now) ELSE 0

Skipped(r, now) == IF r <= now THEN Passed(r, now) ELSE 0

\* The periods that may be added to r before the clock ends.
MaximumIncrement(r) == (MaxTime - r) \div Period

IncrementPeriods(r, now) ==
    LET skipped == Skipped(r, now)
        most == MaximumIncrement(r)
    IN  IF skipped < most THEN skipped ELSE most

\* next_deadline_ns_ when wait_next goes to sleep.
NextDeadline(r, now) == r + IncrementPeriods(r, now) * Period

\* The releases a cycle that ends at finish has overrun.
Misses(deadline, finish) ==
    LET next_release == saturating_add(deadline, Period)
    IN  IF finish > next_release THEN Passed(next_release, finish) ELSE 0
=============================================================================
