----------------------- MODULE DaemonLifecycleProofs -----------------------
(***************************************************************************)
(* The daemon's safety properties for any number of servo buses and motor  *)
(* frames, any period and any end of the clock.  First what wait_next and  *)
(* observe_finish compute.  Then the daemon: its inductive invariant       *)
(* says, for every location of the main thread, who owns the cycle, what   *)
(* is open and what has been stopped (Ownership, Ports, Stopped), and what *)
(* the schedule promises to the next wait (Schedule).                      *)
(***************************************************************************)
EXTENDS DaemonLifecycle, TLAPS

-----------------------------------------------------------------------------
(* The arithmetic of the release. *)

\* Until the end of the arithmetic.
USE PeriodAssumption, ClockAssumption DEF Times

LEMMA DivBounds ==
    ASSUME NEW x \in Nat, NEW p \in Nat \ {0}
    PROVE  /\ x \div p \in Nat
           /\ p * (x \div p) <= x
           /\ x < p * (x \div p) + p
  OBVIOUS

LEMMA DivMonotone ==
    ASSUME NEW x \in Nat, NEW y \in Nat, NEW p \in Nat \ {0}, x <= y
    PROVE  x \div p <= y \div p
  BY DivBounds

LEMMA Products ==
    ASSUME NEW m \in Nat, NEW n \in Nat
    PROVE  /\ m * Period \in Nat /\ Period * m = m * Period
           /\ m <= n => m * Period <= n * Period
  OBVIOUS

LEMMA SaturatingAddType ==
    ASSUME NEW v \in Times
    PROVE  /\ saturating_add(v, Period) \in Times
           /\ saturating_add(v, Period) <= v + Period
           /\ saturating_add(v, Period) = v + Period \/ saturating_add(v, Period) = MaxTime
  BY DEF saturating_add

\* The first release after t on the grid through r is one more than the
\* releases passed away from r.
LEMMA PassedBounds ==
    ASSUME NEW r \in Times, NEW t \in Times, r <= t
    PROVE  /\ Passed(r, t) \in Nat
           /\ t < r + Passed(r, t) * Period
           /\ r + Passed(r, t) * Period <= t + Period
  <1> DEFINE q == (t - r) \div Period
  <1>1. t - r \in Nat
    OBVIOUS
  <1>2. q \in Nat /\ Period * q <= t - r /\ t - r < Period * q + Period
    BY <1>1, DivBounds
  <1> HIDE DEF q
  <1>3. (q + 1) * Period = Period * q + Period
    BY <1>2
  <1>4. Passed(r, t) = q + 1
    BY DEF Passed, q
  <1> QED BY <1>2, <1>3, <1>4

\* wait_next sleeps until an instant of the grid that lies ahead of the clock by
\* at most one period, or else the clock ends before the release after it.
THEOREM ReleaseBounds ==
    ASSUME NEW r \in Times, NEW t \in Times, r <= t + Period
    PROVE  /\ NextDeadline(r, t) \in Times
           /\ \E k \in Nat : NextDeadline(r, t) = r + k * Period
           /\ t < NextDeadline(r, t) \/ MaxTime - NextDeadline(r, t) < Period
           /\ NextDeadline(r, t) <= t + Period
  <1> DEFINE most == MaximumIncrement(r)
  <1> DEFINE k == IncrementPeriods(r, t)
  <1>1. MaxTime - r \in Nat
    OBVIOUS
  <1>2. most \in Nat /\ Period * most <= MaxTime - r /\ MaxTime - r < Period * most + Period
    BY <1>1, DivBounds DEF MaximumIncrement
  <1>3. NextDeadline(r, t) = r + k * Period
    BY DEF NextDeadline
  <1>4. CASE r > t
    <2>1. k = 0
      BY <1>2, <1>4 DEF IncrementPeriods, Skipped
    <2> QED BY <1>3, <1>4, <2>1
  <1>5. CASE r <= t
    <2> DEFINE skip == Passed(r, t)
    <2>1. skip \in Nat /\ t < r + skip * Period /\ r + skip * Period <= t + Period
      BY <1>5, PassedBounds
    <2>2. k = IF skip < most THEN skip ELSE most
      BY <1>5 DEF IncrementPeriods, Skipped
    <2> HIDE DEF k, skip, most
    <2> DEFINE ms == most * Period
    <2> DEFINE sk == skip * Period
    <2>a. ms \in Nat /\ sk \in Nat /\ Period * most = ms
      BY <1>2, <2>1, Products DEF ms, sk
    <2>b. t < r + sk /\ r + sk <= t + Period /\ ms <= MaxTime - r
          /\ MaxTime - r < ms + Period
      BY <1>2, <2>1, <2>a DEF sk
    <2>c. (skip <= most => sk <= ms) /\ (most <= skip => ms <= sk)
      BY <1>2, <2>1, Products DEF ms, sk
    <2>3. CASE skip < most
      <3>1. k = skip /\ NextDeadline(r, t) = r + sk
        BY <1>3, <2>2, <2>3 DEF sk
      <3>2. sk <= ms
        BY <1>2, <2>1, <2>3, <2>c
      <3>3. \E j \in Nat : NextDeadline(r, t) = r + j * Period
        BY <1>3, <2>1, <3>1
      <3> HIDE DEF ms, sk
      <3>4. /\ NextDeadline(r, t) \in Times /\ NextDeadline(r, t) <= t + Period
            /\ t < NextDeadline(r, t) \/ MaxTime - NextDeadline(r, t) < Period
        BY <2>a, <2>b, <3>1, <3>2
      <3> QED BY <3>3, <3>4
    <2>4. CASE most <= skip
      <3>1. k = most /\ NextDeadline(r, t) = r + ms
        <4>1. k = most
          BY <1>2, <2>1, <2>2, <2>4
        <4> QED BY <1>3, <4>1 DEF ms
      <3>2. ms <= sk
        BY <2>4, <2>c
      <3>3. \E j \in Nat : NextDeadline(r, t) = r + j * Period
        BY <1>2, <1>3, <3>1
      <3> HIDE DEF ms, sk
      <3>4. /\ NextDeadline(r, t) \in Times /\ NextDeadline(r, t) <= t + Period
            /\ t < NextDeadline(r, t) \/ MaxTime - NextDeadline(r, t) < Period
        BY <2>a, <2>b, <3>1, <3>2
      <3> QED BY <3>3, <3>4
    <2> QED BY <1>2, <2>1, <2>3, <2>4
  <1> QED BY <1>4, <1>5

\* Every release that observe_finish counts as missed is skipped by the wait_next
\* that follows.
THEOREM MissesAreSkipped ==
    ASSUME NEW d \in Times, NEW finish \in Times, NEW t \in Times,
           finish <= t
    PROVE  Misses(d, finish) <= Skipped(saturating_add(d, Period), t)
  <1> DEFINE r == saturating_add(d, Period)
  <1>1. r \in Times
    BY SaturatingAddType
  <1> HIDE DEF r
  <1>2. CASE finish > r
    <2>1. finish - r \in Nat /\ t - r \in Nat /\ finish - r <= t - r
      BY <1>1, <1>2
    <2>2. (finish - r) \div Period <= (t - r) \div Period
      BY <2>1, DivMonotone
    <2>3. (finish - r) \div Period \in Nat /\ (t - r) \div Period \in Nat
      BY <2>1, DivBounds
    <2>4. Passed(r, finish) <= Passed(r, t)
      BY <2>2, <2>3 DEF Passed
    <2> QED BY <1>1, <1>2, <2>4 DEF Misses, Skipped, r
  <1>3. CASE finish <= r
    <2>1. Misses(d, finish) = 0
      BY <1>1, <1>3 DEF Misses, r
    <2>2. r <= t => Passed(r, t) \in Nat
      BY <1>1, PassedBounds
    <2>3. Skipped(r, t) >= 0
      BY <1>1, <2>2 DEF Skipped
    <2> QED BY <2>1, <2>3 DEF r
  <1> QED BY <1>1, <1>2, <1>3

HIDE DEF Times

-----------------------------------------------------------------------------
(* The daemon. *)

RunPcs == {"prepare", "test", "wait", "sleep", "cycle", "release"}
StopPcs == {"stop_dds", "join_dds", "stop_serial", "stop_can", "join_sender",
            "join_receiver", "stop_master"}
BeforeAccept == {"new", "configured", "attached", "failed", "start_failed",
                 "start_add", "start_bind", "start_open", "open_slaves",
                 "start_serial", "start_accept"}

AllOpen == master_open /\ handler_bound /\ serial = Buses /\ bus_running

\* The main thread owns the cycle from run's entry to its return; it leaves the
\* loop only when the drives are off.
Ownership ==
    /\ owner \in {"none", "main", "other"}
    /\ pc \in RunPcs => owner = "main" /\ running /\ ~destroying
    /\ owner = "main" => pc \in RunPcs \cup StopPcs /\ ~destroying
    /\ destroying => owner = "none" /\ pc \in StopPcs \cup {"exited"}
    /\ pc = "exited" => destroying
    /\ pc \in StopPcs /\ ~destroying => owner = "main"
    /\ pc \in StopPcs \cup {"release"} /\ ~destroying => shutdown_complete
    /\ shutdown_complete => ~energised

\* What start has opened, and when commands are accepted.
Ports ==
    /\ serial \subseteq Buses /\ registered \subseteq serial \cup {Master}
    /\ master_open => handler_bound
    /\ pc \in {"new", "configured", "attached", "start_add", "start_bind", "start_open",
              "open_slaves"} => ~master_open
    /\ pc = "start_failed" /\ ~dds_running => ~master_open
    /\ pc \in {"start_add", "start_bind", "start_open", "open_slaves", "start_serial"}
           => dds_running
    /\ pc \in {"start_open", "open_slaves"} => handler_bound
    /\ pc = "start_serial" => master_open
    /\ pc = "start_accept" => AllOpen
    /\ pc \in BeforeAccept => ~accepting
    /\ accepting => AllOpen \/ dds_worker = "none"

\* The IgH backend is in use exactly while the master is open, but for the stages
\* of open in between.
Backend ==
    /\ igh \in {"released", "requested", "activated"}
    /\ master_open <=> igh = "activated"
    /\ igh = "requested" => pc = "open_slaves"
    /\ igh = "released" => slaves = 0

\* What stop_transports has stopped.
Stopped ==
    /\ pc \in {"stop_serial", "stop_can", "join_sender", "join_receiver", "stop_master",
              "exited"} => dds_worker = "none" /\ ~dds_running
    /\ pc \in {"stop_can", "join_sender", "join_receiver", "stop_master", "exited"}
           => serial = {}
    /\ pc \in {"join_sender", "join_receiver", "stop_master", "exited"} => ~bus_running
    /\ pc \in {"join_receiver", "stop_master", "exited"} => sender = "none"
    /\ pc \in {"stop_master", "exited"} => receiver = "none"
    /\ pc = "exited" => ~master_open /\ ~handler_bound /\ registered = {}
    /\ setup \subseteq Settings
    /\ captured_thread_state => pc \in RunPcs
    /\ captured_thread_state \/ setup = {}

LifeInv == Ownership /\ Ports /\ Backend /\ Stopped

USE DEF RunPcs, StopPcs, BeforeAccept, AllOpen, Master, Buses, setupVars,
        backendVars, add, remove

LEMMA LifeInit == Init => LifeInv
  BY Zenon DEF Init, BusInit, LifeInv, Ownership, Ports, Backend, Stopped

\* What a stage of EthercatMaster::open does outside the backend.
Opening ==
    /\ pc \in {"start_open", "open_slaves"}
    /\ pc' \in {"open_slaves", "start_serial", "start_failed"}
    /\ UNCHANGED <<destroying, owner, energised, running, accepting, shutdown_complete>>
    /\ UNCHANGED <<dds_running, dds_worker, serial, setup, captured_thread_state>>
    /\ UNCHANGED <<bus_running, sender, receiver>>
    /\ UNCHANGED <<now, deadline, skipped, missed, schedule_started, sleep_failed>>
    /\ pc' = "start_failed" => /\ handler_bound' = FALSE /\ master_open' = master_open
                               /\ registered' = registered \ {Master}
    /\ pc' # "start_failed" => UNCHANGED <<registered, handler_bound>>
    /\ pc' = "open_slaves" => master_open' = master_open
    /\ pc' = "start_serial" => master_open' = TRUE

LEMMA OpenStep == StartOpen => Opening
  <1> USE DEF Goto, flagVars, ddsVars, portVars, loopVars, busVars
  <1>1. OpenFails => handler_bound' = FALSE /\ registered' = registered \ {Master}
                     /\ pc' = "start_failed" /\ master_open' = master_open
    BY Zenon DEF OpenFails
  <1>2. initialize => Opening
    BY <1>1, Zenon DEF initialize, OpenFails, Opening
  <1>3. configure_axis => Opening
    BY <1>1, Zenon DEF configure_axis, OpenFails, Opening
  <1>4. activate => Opening
    BY <1>1, Zenon DEF activate, OpenFails, Opening
  <1> QED BY <1>2, <1>3, <1>4 DEF StartOpen

\* Every step keeps the invariant: one step per action, under it one per part.
LEMMA LifeStep ==
    LifeInv /\ [Next]_vars => LifeInv'
  <1> SUFFICES ASSUME LifeInv, [Next]_vars PROVE LifeInv'
    OBVIOUS
  <1> USE DEF LifeInv, Goto, flagVars, ddsVars, portVars, loopVars, busVars
  <1>1. CASE configure
    <2>1. Ownership'
      BY <1>1 DEF configure, Ownership
    <2>2. Ports'
      BY <1>1, Zenon DEF configure, Ownership, Ports, Stopped
    <2>3. Stopped'
      BY <1>1, Zenon DEF configure, Ownership, Ports, Stopped
    <2>4. Backend'
      BY <1>1, Zenon DEF configure, Backend
    <2> QED BY <2>1, <2>2, <2>3, <2>4
  <1>2. CASE attach_dds
    <2>1. Ownership'
      BY <1>2 DEF attach_dds, Ownership
    <2>2. Ports'
      BY <1>2, Zenon DEF attach_dds, Ownership, Ports, Stopped
    <2>3. Stopped'
      BY <1>2, Zenon DEF attach_dds, Ownership, Ports, Stopped
    <2>4. Backend'
      BY <1>2, Zenon DEF attach_dds, Backend
    <2> QED BY <2>1, <2>2, <2>3, <2>4
  <1>3. CASE StartDds
    <2>1. Ownership'
      BY <1>3 DEF StartDds, Startable, Ownership
    <2>2. Ports'
      BY <1>3 DEF StartDds, Startable, Ownership, Ports, Stopped
    <2>3. Stopped'
      BY <1>3, Zenon DEF StartDds, Startable, Ownership, Ports, Stopped
    <2>4. Backend'
      BY <1>3, Zenon DEF StartDds, Startable, Backend
    <2> QED BY <2>1, <2>2, <2>3, <2>4
  <1>4. CASE StartAdd
    <2>1. Ownership'
      BY <1>4 DEF StartAdd, Ownership
    <2>2. Ports'
      BY <1>4, Zenon DEF StartAdd, Ownership, Ports, Stopped
    <2>3. Stopped'
      BY <1>4, Zenon DEF StartAdd, Ownership, Ports, Stopped
    <2>4. Backend'
      BY <1>4, Zenon DEF StartAdd, Backend
    <2> QED BY <2>1, <2>2, <2>3, <2>4
  <1>5. CASE StartBind
    <2>1. Ownership'
      BY <1>5 DEF StartBind, Ownership
    <2>2. Ports'
      BY <1>5, Zenon DEF StartBind, Ownership, Ports, Stopped
    <2>3. Stopped'
      BY <1>5, Zenon DEF StartBind, Ownership, Ports, Stopped
    <2>4. Backend'
      BY <1>5, Zenon DEF StartBind, Backend
    <2> QED BY <2>1, <2>2, <2>3, <2>4
  <1>6. CASE StartOpen
    <2>1. Ownership'
      BY <1>6, OpenStep DEF Opening, Ownership
    <2>2. Ports'
      <3>1. Opening
        BY <1>6, OpenStep
      <3>2. /\ ~master_open /\ ~accepting /\ dds_running /\ handler_bound
            /\ serial \subseteq Buses /\ registered \subseteq serial \cup {Master}
        BY <3>1, Zenon DEF Opening, Ports
      <3>3. UNCHANGED <<accepting, dds_running, serial>>
        BY <3>1, Zenon DEF Opening
      <3>4. CASE pc' = "start_failed"
        <4>1. ~master_open' /\ handler_bound' = FALSE /\ registered' = registered \ {Master}
          BY <3>1, <3>2, <3>4 DEF Opening
        <4> QED BY <3>2, <3>3, <3>4, <4>1, Zenon DEF Ports
      <3>5. CASE pc' = "open_slaves"
        <4>1. ~master_open' /\ UNCHANGED <<handler_bound, registered>>
          BY <3>1, <3>2, <3>5 DEF Opening
        <4> QED BY <3>2, <3>3, <3>5, <4>1, Zenon DEF Ports
      <3>6. CASE pc' = "start_serial"
        <4>1. master_open' /\ UNCHANGED <<handler_bound, registered>>
          BY <3>1, <3>2, <3>6, Zenon DEF Opening
        <4> QED BY <3>2, <3>3, <3>6, <4>1, Zenon DEF Ports
      <3> QED BY <3>1, <3>4, <3>5, <3>6, Zenon DEF Opening
    <2>3. Stopped'
      BY <1>6, OpenStep DEF Opening, Stopped
    <2>4. Backend'
      <3>1. ~master_open /\ igh # "activated"
        BY <1>6, OpenStep, Zenon DEF Opening, Ports, Backend
      <3>2. CASE OpenFails /\ deactivate
        <4>1. pc' = "start_failed" /\ ~master_open'
          BY <3>1, <3>2, Zenon DEF OpenFails
        <4>2. igh' = "released" /\ slaves' = 0
          BY <3>2 DEF deactivate, Backend
        <4> QED BY <4>1, <4>2 DEF Backend
      <3>3. CASE initialize
        <4>1. ~master_open' /\ pc = "start_open"
          BY <3>1, <3>3 DEF initialize, OpenFails
        <4>2. \/ igh' = "requested" /\ pc' = "open_slaves"
              \/ igh' = igh /\ slaves' = slaves
          BY <3>3, Zenon DEF initialize
        <4> QED BY <3>1, <4>1, <4>2 DEF Backend
      <3>4. CASE configure_axis /\ ~(OpenFails /\ deactivate)
        <4>1. ~master_open' /\ igh = "requested" /\ igh' = igh /\ pc' = "open_slaves"
          BY <3>1, <3>4 DEF configure_axis, configure_slave
        <4> QED BY <4>1 DEF Backend
      <3>5. CASE activate /\ ~(OpenFails /\ deactivate)
        <4>1. master_open' /\ igh' = "activated"
          BY <3>5, Zenon DEF activate
        <4> QED BY <4>1 DEF Backend
      <3> QED BY <1>6, <3>2, <3>3, <3>4, <3>5 DEF StartOpen
    <2> QED BY <2>1, <2>2, <2>3, <2>4
  <1>7. ASSUME NEW b \in Buses, StartBus(b) PROVE LifeInv'
    <2>1. Ownership'
      BY <1>7 DEF StartBus, Ownership
    <2>2. Ports'
      BY <1>7, Zenon DEF StartBus, Ownership, Ports, Stopped
    <2>3. Stopped'
      BY <1>7, Zenon DEF StartBus, Ownership, Ports, Stopped
    <2>4. Backend'
      BY <1>7, Zenon DEF StartBus, deactivate, Ports, Backend
    <2> QED BY <2>1, <2>2, <2>3, <2>4
  <1>8. CASE StartCan
    <2>1. Ownership'
      BY <1>8 DEF StartCan, BusStarts, BusStartFails, Ownership
    <2>2. Ports'
      BY <1>8, Zenon DEF StartCan, BusStarts, BusStartFails, Ownership, Ports, Stopped
    <2>3. Stopped'
      BY <1>8, Zenon DEF StartCan, BusStarts, BusStartFails, Ownership, Ports, Stopped
    <2>4. Backend'
      BY <1>8, Zenon DEF StartCan, BusStarts, BusStartFails, Backend
    <2> QED BY <2>1, <2>2, <2>3, <2>4
  <1>9. CASE StartAccept
    <2>1. Ownership'
      BY <1>9, Zenon DEF StartAccept, Ownership
    <2>2. Ports'
      BY <1>9, Zenon DEF StartAccept, Ownership, Ports, Stopped
    <2>3. Stopped'
      BY <1>9, Zenon DEF StartAccept, Ownership, Ports, Stopped
    <2>4. Backend'
      BY <1>9, Zenon DEF StartAccept, Backend
    <2> QED BY <2>1, <2>2, <2>3, <2>4
  <1>10. CASE StartRun
    <2>1. Ownership'
      BY <1>10, Zenon DEF StartRun, Ownership
    <2>2. Ports'
      BY <1>10, Zenon DEF StartRun, Ownership, Ports, Stopped
    <2>3. Stopped'
      BY <1>10, Zenon DEF StartRun, Ownership, Ports, Stopped
    <2>4. Backend'
      BY <1>10, Zenon DEF StartRun, Backend
    <2> QED BY <2>1, <2>2, <2>3, <2>4
  <1>11. CASE EnterRun
    <2>1. Ownership'
      BY <1>11 DEF EnterRun, Ownership
    <2>2. Ports'
      BY <1>11, Zenon DEF EnterRun, Ownership, Ports, Stopped
    <2>3. Stopped'
      BY <1>11, Zenon DEF EnterRun, Ownership, Ports, Stopped
    <2>4. Backend'
      BY <1>11, Zenon DEF EnterRun, Backend
    <2> QED BY <2>1, <2>2, <2>3, <2>4
  <1>12. CASE prepare
    <2>1. Ownership'
      BY <1>12, Zenon DEF prepare, Ownership
    <2>2. Ports'
      BY <1>12, Zenon DEF prepare, Ownership, Ports, Stopped
    <2>3. Stopped'
      <3>1. pc' = "test" /\ UNCHANGED <<dds_worker, dds_running, serial, bus_running,
                sender, receiver, master_open, handler_bound, registered>>
        BY <1>12, Zenon DEF prepare
      <3>2. setup' \subseteq Settings /\ (captured_thread_state' \/ setup' = {})
        BY <1>12, Zenon DEF prepare, Granted, Released
      <3> QED BY <3>1, <3>2, Zenon DEF Stopped
    <2>4. Backend'
      BY <1>12, Zenon DEF prepare, Backend
    <2> QED BY <2>1, <2>2, <2>3, <2>4
  <1>13. CASE TestLoop
    <2>1. Ownership'
      BY <1>13, Zenon DEF TestLoop, Continues, Ownership
    <2>2. Ports'
      BY <1>13, Zenon DEF TestLoop, Continues, Ownership, Ports, Stopped
    <2>3. Stopped'
      BY <1>13, Zenon DEF TestLoop, Continues, Ownership, Ports, Stopped
    <2>4. Backend'
      BY <1>13, Zenon DEF TestLoop, Continues, Backend
    <2> QED BY <2>1, <2>2, <2>3, <2>4
  <1>14. CASE wait_next
    <2>1. Ownership'
      BY <1>14, Zenon DEF wait_next, Ownership
    <2>2. Ports'
      BY <1>14, Zenon DEF wait_next, Ownership, Ports, Stopped
    <2>3. Stopped'
      BY <1>14, Zenon DEF wait_next, Ownership, Ports, Stopped
    <2>4. Backend'
      BY <1>14, Zenon DEF wait_next, Backend
    <2> QED BY <2>1, <2>2, <2>3, <2>4
  <1>15. CASE Wakes
    <2>1. Ownership'
      BY <1>15, Zenon DEF Wakes, Ownership
    <2>2. Ports'
      BY <1>15, Zenon DEF Wakes, Ownership, Ports, Stopped
    <2>3. Stopped'
      BY <1>15, Zenon DEF Wakes, Ownership, Ports, Stopped
    <2>4. Backend'
      BY <1>15, Zenon DEF Wakes, Backend
    <2> QED BY <2>1, <2>2, <2>3, <2>4
  <1>16. CASE SleepFails
    <2>1. Ownership'
      BY <1>16, Zenon DEF SleepFails, Ownership
    <2>2. Ports'
      BY <1>16, Zenon DEF SleepFails, Ownership, Ports, Stopped
    <2>3. Stopped'
      BY <1>16, Zenon DEF SleepFails, Ownership, Ports, Stopped
    <2>4. Backend'
      BY <1>16, Zenon DEF SleepFails, Backend
    <2> QED BY <2>1, <2>2, <2>3, <2>4
  <1>17. CASE RunCycle
    <2>1. Ownership'
      BY <1>17, Zenon DEF RunCycle, cycle_owned, ProcessDeviceCycle, Ownership
    <2>2. Ports'
      BY <1>17, Zenon DEF RunCycle, cycle_owned, ProcessDeviceCycle, Ownership, Ports, Stopped
    <2>3. Stopped'
      BY <1>17, Zenon DEF RunCycle, cycle_owned, ProcessDeviceCycle, Ownership, Ports, Stopped
    <2>4. Backend'
      BY <1>17, Zenon DEF RunCycle, cycle_owned, ProcessDeviceCycle, Backend
    <2> QED BY <2>1, <2>2, <2>3, <2>4
  <1>18. CASE release
    <2>1. Ownership'
      BY <1>18, Zenon DEF release, Ownership
    <2>2. Ports'
      BY <1>18, Zenon DEF release, Ownership, Ports, Stopped
    <2>3. Stopped'
      <3>1. setup' = {} /\ captured_thread_state' = FALSE
        BY <1>18, Zenon DEF release, Released, Stopped
      <3> QED BY <1>18, <3>1, Zenon DEF release, Stopped
    <2>4. Backend'
      BY <1>18, Zenon DEF release, Backend
    <2> QED BY <2>1, <2>2, <2>3, <2>4
  <1>19. CASE Destroy
    <2>1. Ownership'
      BY <1>19, Zenon DEF Destroy, Ownership
    <2>2. Ports'
      BY <1>19, Zenon DEF Destroy, Ownership, Ports, Stopped
    <2>3. Stopped'
      BY <1>19, Zenon DEF Destroy, Ownership, Ports, Stopped
    <2>4. Backend'
      BY <1>19, Zenon DEF Destroy, Backend
    <2> QED BY <2>1, <2>2, <2>3, <2>4
  <1>20. CASE StopDds
    <2>1. Ownership'
      BY <1>20, Zenon DEF StopDds, Ownership
    <2>2. Ports'
      BY <1>20, Zenon DEF StopDds, Ownership, Ports, Stopped
    <2>3. Stopped'
      BY <1>20, Zenon DEF StopDds, Ownership, Ports, Stopped
    <2>4. Backend'
      BY <1>20, Zenon DEF StopDds, Backend
    <2> QED BY <2>1, <2>2, <2>3, <2>4
  <1>21. CASE JoinDds
    <2>1. Ownership'
      BY <1>21, Zenon DEF JoinDds, Ownership
    <2>2. Ports'
      BY <1>21, Zenon DEF JoinDds, Ownership, Ports, Stopped
    <2>3. Stopped'
      BY <1>21, Zenon DEF JoinDds, Ownership, Ports, Stopped
    <2>4. Backend'
      BY <1>21, Zenon DEF JoinDds, Backend
    <2> QED BY <2>1, <2>2, <2>3, <2>4
  <1>22. CASE StopBus
    <2>1. Ownership'
      BY <1>22, Zenon DEF StopBus, StopRequested, Ownership
    <2>2. Ports'
      BY <1>22, Zenon DEF StopBus, StopRequested, Ownership, Ports, Stopped
    <2>3. Stopped'
      BY <1>22, Zenon DEF StopBus, StopRequested, Ownership, Ports, Stopped
    <2>4. Backend'
      BY <1>22, Zenon DEF StopBus, StopRequested, Backend
    <2> QED BY <2>1, <2>2, <2>3, <2>4
  <1>23. CASE AwaitSender
    <2>1. Ownership'
      BY <1>23, Zenon DEF AwaitSender, JoinSender, Ownership
    <2>2. Ports'
      BY <1>23, Zenon DEF AwaitSender, JoinSender, Ownership, Ports, Stopped
    <2>3. Stopped'
      BY <1>23, Zenon DEF AwaitSender, JoinSender, Ownership, Ports, Stopped
    <2>4. Backend'
      BY <1>23, Zenon DEF AwaitSender, JoinSender, Backend
    <2> QED BY <2>1, <2>2, <2>3, <2>4
  <1>24. CASE AwaitReceiver
    <2>1. Ownership'
      BY <1>24, Zenon DEF AwaitReceiver, JoinReceiver, Ownership
    <2>2. Ports'
      BY <1>24, Zenon DEF AwaitReceiver, JoinReceiver, Ownership, Ports, Stopped
    <2>3. Stopped'
      BY <1>24, Zenon DEF AwaitReceiver, JoinReceiver, Ownership, Ports, Stopped
    <2>4. Backend'
      BY <1>24, Zenon DEF AwaitReceiver, JoinReceiver, Backend
    <2> QED BY <2>1, <2>2, <2>3, <2>4
  <1>25. CASE StopMaster
    <2>1. Ownership'
      BY <1>25, Zenon DEF StopMaster, Ownership
    <2>2. Ports'
      BY <1>25, Zenon DEF StopMaster, Ownership, Ports, Stopped
    <2>3. Stopped'
      BY <1>25, Zenon DEF StopMaster, Ownership, Ports, Stopped
    <2>4. Backend'
      BY <1>25, Zenon DEF StopMaster, deactivate, Ports, Backend
    <2> QED BY <2>1, <2>2, <2>3, <2>4
  <1>26. CASE request_stop
    <2>1. Ownership'
      BY <1>26, Zenon DEF request_stop, Alive, Ownership
    <2>2. Ports'
      BY <1>26, Zenon DEF request_stop, Alive, Ownership, Ports, Stopped
    <2>3. Stopped'
      BY <1>26, Zenon DEF request_stop, Alive, Ownership, Ports, Stopped
    <2>4. Backend'
      BY <1>26, Zenon DEF request_stop, Alive, Backend
    <2> QED BY <2>1, <2>2, <2>3, <2>4
  <1>27. CASE Signal
    <2>1. Ownership'
      BY <1>27, Zenon DEF Signal, Ownership
    <2>2. Ports'
      BY <1>27, Zenon DEF Signal, Ownership, Ports, Stopped
    <2>3. Stopped'
      BY <1>27, Zenon DEF Signal, Ownership, Ports, Stopped
    <2>4. Backend'
      BY <1>27, Zenon DEF Signal, Backend
    <2> QED BY <2>1, <2>2, <2>3, <2>4
  <1>28. CASE BeginOtherCycle
    <2>1. Ownership'
      BY <1>28, Zenon DEF BeginOtherCycle, Alive, Ownership
    <2>2. Ports'
      BY <1>28, Zenon DEF BeginOtherCycle, Alive, Ownership, Ports, Stopped
    <2>3. Stopped'
      BY <1>28, Zenon DEF BeginOtherCycle, Alive, Ownership, Ports, Stopped
    <2>4. Backend'
      BY <1>28, Zenon DEF BeginOtherCycle, Alive, Backend
    <2> QED BY <2>1, <2>2, <2>3, <2>4
  <1>29. CASE OtherCycle
    <2>1. Ownership'
      BY <1>29, Zenon DEF OtherCycle, cycle_owned, ProcessDeviceCycle, Ownership
    <2>2. Ports'
      BY <1>29, Zenon DEF OtherCycle, cycle_owned, ProcessDeviceCycle, Ownership, Ports, Stopped
    <2>3. Stopped'
      BY <1>29, Zenon DEF OtherCycle, cycle_owned, ProcessDeviceCycle, Ownership, Ports, Stopped
    <2>4. Backend'
      BY <1>29, Zenon DEF OtherCycle, cycle_owned, ProcessDeviceCycle, Backend
    <2> QED BY <2>1, <2>2, <2>3, <2>4
  <1>30. CASE DdsTests
    <2>1. Ownership'
      BY <1>30, Zenon DEF DdsTests, Ownership
    <2>2. Ports'
      BY <1>30, Zenon DEF DdsTests, Ownership, Ports, Stopped
    <2>3. Stopped'
      BY <1>30, Zenon DEF DdsTests, Ownership, Ports, Stopped
    <2>4. Backend'
      BY <1>30, Zenon DEF DdsTests, Backend
    <2> QED BY <2>1, <2>2, <2>3, <2>4
  <1>31. CASE DdsPasses
    <2>1. Ownership'
      BY <1>31, Zenon DEF DdsPasses, Stage, Ownership
    <2>2. Ports'
      BY <1>31, Zenon DEF DdsPasses, Stage, Ownership, Ports, Stopped
    <2>3. Stopped'
      BY <1>31, Zenon DEF DdsPasses, Stage, Ownership, Ports, Stopped
    <2>4. Backend'
      BY <1>31, Zenon DEF DdsPasses, Stage, Backend
    <2> QED BY <2>1, <2>2, <2>3, <2>4
  <1>32. CASE Can
    <2>1. Ownership'
      BY <1>32, Zenon DEF Can, Sender, Receiver, SenderTests, SenderPasses, ReceiverTests, ReceiverPasses,
               AfterTest, Ownership
    <2>2. Ports'
      BY <1>32, Zenon DEF Can, Sender, Receiver, SenderTests, SenderPasses, ReceiverTests, ReceiverPasses,
               AfterTest, Ownership, Ports, Stopped
    <2>3. Stopped'
      <3>1. /\ sender = "none" => sender' = "none"
            /\ receiver = "none" => receiver' = "none"
            /\ bus_running' = bus_running
        BY <1>32, Zenon DEF Can, Sender, Receiver, SenderTests, SenderPasses, ReceiverTests,
           ReceiverPasses
      <3>2. UNCHANGED <<pc, dds_worker, dds_running, serial, master_open, handler_bound,
                        registered, setup, captured_thread_state>>
        BY <1>32, Zenon DEF Can
      <3> QED BY <3>1, <3>2, Zenon DEF Stopped
    <2>4. Backend'
      BY <1>32, Zenon DEF Can, Sender, Receiver, SenderTests, SenderPasses, ReceiverTests, ReceiverPasses,
               AfterTest, Backend
    <2> QED BY <2>1, <2>2, <2>3, <2>4
  <1>33. CASE UNCHANGED vars
    <2>1. Ownership'
      BY <1>33, Zenon DEF vars, Ownership
    <2>2. Ports'
      BY <1>33, Zenon DEF vars, busVars, Ports
    <2>3. Stopped'
      BY <1>33, Zenon DEF vars, busVars, Stopped
    <2>4. Backend'
      BY <1>33, Zenon DEF vars, Backend
    <2> QED BY <2>1, <2>2, <2>3, <2>4
  <1>34. ASSUME NEW b \in Buses, StopSerialBus(b) PROVE LifeInv'
    <2>1. Ownership'
      BY <1>34, Zenon DEF StopSerialBus, Ownership
    <2>2. Ports'
      BY <1>34, Zenon DEF StopSerialBus, Ownership, Ports, Stopped
    <2>3. Stopped'
      BY <1>34, Zenon DEF StopSerialBus, Ownership, Ports, Stopped
    <2>4. Backend'
      BY <1>34, Zenon DEF StopSerialBus, Backend
    <2> QED BY <2>1, <2>2, <2>3, <2>4
  <1>35. CASE SerialStopped
    <2>1. Ownership'
      BY <1>35, Zenon DEF SerialStopped, Ownership
    <2>2. Ports'
      BY <1>35, Zenon DEF SerialStopped, Ownership, Ports, Stopped
    <2>3. Stopped'
      BY <1>35, Zenon DEF SerialStopped, Ownership, Ports, Stopped
    <2>4. Backend'
      BY <1>35, Zenon DEF SerialStopped, Backend
    <2> QED BY <2>1, <2>2, <2>3, <2>4
  <1> QED
    BY <1>1, <1>2, <1>3, <1>4, <1>5, <1>6, <1>7, <1>8, <1>9,
       <1>10, <1>11, <1>12, <1>13, <1>14, <1>15, <1>16, <1>17, <1>18,
       <1>19, <1>20, <1>21, <1>22, <1>23, <1>24, <1>25, <1>26, <1>27,
       <1>28, <1>29, <1>30, <1>31, <1>32, <1>33, <1>34, <1>35, Zenon
       DEF Next, Main, start, run, stop_transports, DdsWorker

LEMMA LifeInvariant == Spec => []LifeInv
  <1>1. Init => LifeInv
    BY LifeInit
  <1>2. LifeInv /\ [Next]_vars => LifeInv'
    BY LifeStep
  <1> QED BY <1>1, <1>2, PTL DEF Spec

\* A daemon that is gone has left nothing running, open, registered or bound.
THEOREM CleanExit == Spec => []ExitIsClean
  <1>1. LifeInv => ExitIsClean
    BY Zenon DEF LifeInv, Ownership, Ports, Backend, Stopped, ExitIsClean
  <1> QED BY <1>1, LifeInvariant, PTL

\* As long as an EtherCAT epoch or a servo command can be accepted every transport
\* is open.
THEOREM AcceptingStarted == Spec => []AcceptingMeansStarted
  <1>1. LifeInv => AcceptingMeansStarted
    BY Zenon DEF LifeInv, Ports, AcceptingMeansStarted
  <1> QED BY <1>1, LifeInvariant, PTL

\* run closes the master only when the last evaluation enabled no drive: before the
\* destructor the main thread is past the loop only if shutdown_complete.
THEOREM DisabledFirst == Spec => DisabledBeforeClose
  <1> DEFINE Closes == master_open /\ ~master_open' /\ owner = "main" => ~energised
  <1>1. LifeInv /\ [Next]_vars => [Closes]_vars
    <2> SUFFICES ASSUME LifeInv, Next, master_open, ~master_open', owner = "main"
                 PROVE  ~energised
      BY Zenon DEF vars, portVars
    <2>1. pc \in RunPcs \cup StopPcs /\ ~destroying
      BY Zenon DEF LifeInv, Ownership
    <2>2. pc = "stop_master"
      <3> USE DEF flagVars, ddsVars, portVars, loopVars, busVars
      <3>1. CASE configure \/ attach_dds \/ start
        BY <2>1, <3>1, OpenStep, Zenon DEF Opening, configure, attach_dds, start, StartDds,
           StartAdd, StartBind, StartBus, StartCan, StartAccept, StartRun
      <3>2. CASE run
        BY <3>2, Zenon DEF run, EnterRun, prepare, TestLoop, wait_next, Wakes, SleepFails,
           RunCycle, cycle_owned, release
      <3>3. CASE Destroy \/ stop_transports
        BY <3>3, Zenon DEF Destroy, stop_transports, StopDds, JoinDds, StopSerialBus, SerialStopped,
           StopBus, AwaitSender, AwaitReceiver, StopMaster
      <3>4. CASE request_stop \/ Signal \/ BeginOtherCycle \/ OtherCycle
        BY <3>4, Zenon DEF request_stop, Signal, BeginOtherCycle, OtherCycle, cycle_owned
      <3>5. CASE DdsWorker \/ Can \/ UNCHANGED vars
        BY <3>5, Zenon DEF DdsWorker, DdsTests, DdsPasses, Can, vars
      <3> QED BY <3>1, <3>2, <3>3, <3>4, <3>5 DEF Next, Main
    <2> QED BY <2>1, <2>2 DEF LifeInv, Ownership
  <1> QED BY <1>1, LifeInvariant, PTL DEF Spec, DisabledBeforeClose

-----------------------------------------------------------------------------
(* The motor frames *)

\* What a motor has got is not ahead of what was tried.
Frontier ==
    mailbox \in Nat /\ consumed_sequence \in Nat /\ sent \in Nat
    /\ sent <= consumed_sequence

\* What a step may do to the slot and the bus.
FrameMoves ==
    \/ UNCHANGED <<mailbox, consumed_sequence, sent>>
    \/ mailbox' \in Frames /\ UNCHANGED <<consumed_sequence, sent>>
    \/ /\ read_latest /\ consumed_sequence' = mailbox
       /\ sent' \in {sent, mailbox} /\ UNCHANGED mailbox

LEMMA FrameStep == [Next]_vars => FrameMoves
  <1> SUFFICES ASSUME [Next]_vars PROVE FrameMoves
    OBVIOUS
  <1> USE DEF busVars
  <1>1. CASE configure \/ attach_dds
    BY <1>1, Zenon DEF configure, attach_dds, FrameMoves
  <1>2. CASE StartOpen
    BY <1>2, Zenon DEF StartOpen, initialize, configure_axis, activate, OpenFails, FrameMoves
  <1>3. CASE StartDds \/ StartAdd \/ StartBind \/ (\E b \in Buses : StartBus(b)) \/ StartCan
             \/ StartAccept \/ StartRun
    BY <1>3, Zenon DEF StartDds, StartAdd, StartBind, StartBus, StartCan, BusStarts,
       BusStartFails, StartAccept, StartRun, FrameMoves
  <1>4. CASE run
    BY <1>4, Zenon DEF run, EnterRun, prepare, TestLoop, wait_next, Wakes, SleepFails,
       RunCycle, cycle_owned, release, FrameMoves
  <1>5. CASE Destroy \/ stop_transports
    BY <1>5, Zenon DEF Destroy, stop_transports, StopDds, JoinDds, StopSerialBus,
       SerialStopped, StopBus, StopRequested, AwaitSender, JoinSender, AwaitReceiver,
       JoinReceiver, StopMaster, FrameMoves
  <1>6. CASE request_stop \/ Signal \/ BeginOtherCycle \/ OtherCycle \/ UNCHANGED vars
    BY <1>6, Zenon DEF request_stop, Signal, BeginOtherCycle, OtherCycle, cycle_owned, vars,
       FrameMoves
  <1>7. CASE DdsWorker
    BY <1>7, Zenon DEF DdsWorker, DdsTests, DdsPasses, Stage, FrameMoves
  <1>8. CASE Can
    BY <1>8, Zenon DEF Can, Sender, SenderTests, SenderPasses, send_frame, Receiver,
       ReceiverTests, ReceiverPasses, FrameMoves
  <1> QED BY <1>1, <1>2, <1>3, <1>4, <1>5, <1>6, <1>7, <1>8, Zenon DEF Next, Main, start

\* The frames a motor gets ascend: the sender writes only what is newer than all it
\* has tried, and what was written is among that.
THEOREM MotorFramesAscend == Spec => FramesAscend
  <1>1. Init => Frontier
    BY DEF Init, BusInit, NoFrame, Frontier
  <1>2. Frontier /\ [Next]_vars => Frontier'
    BY FrameStep, FrameAssumption DEF Frontier, FrameMoves, Frames, read_latest
  <1>3. Frontier /\ [Next]_vars => [sent' # sent => sent' > sent]_vars
    BY FrameStep DEF Frontier, FrameMoves, read_latest
  <1> QED BY <1>1, <1>2, <1>3, PTL DEF Spec, FramesAscend

-----------------------------------------------------------------------------
(* The schedule *)

\* Outside a failed sleep a cycle starts at its deadline or later; what the last
\* cycle was counted to miss is what the next wait will skip.
Schedule ==
    /\ now \in Times /\ deadline \in Times /\ skipped \in Nat /\ missed \in Nat
    /\ sleep_failed => pc \in {"cycle", "test", "release", "returned", "exited"} \cup StopPcs
    /\ pc = "sleep" => schedule_started
    /\ pc \in {"cycle", "test", "wait"} /\ schedule_started /\ ~sleep_failed
           => deadline <= now
    /\ pc \in {"cycle", "test", "wait"} /\ ~schedule_started => missed = 0
    /\ pc \in {"test", "wait"} /\ schedule_started
           => missed <= Skipped(saturating_add(deadline, Period), now)
    /\ ReleaseIsAhead

\* The instants after one are instants.
LEMMA LaterBounds ==
    ASSUME NEW t \in Times, NEW u \in Later(t)
    PROVE  u \in Times /\ t <= u
  BY DEF Later

LEMMA PassingBounds ==
    ASSUME now \in Times, NEW u \in Passing
    PROVE  u \in Times /\ now <= u
  <1>1. CASE schedule_started
    BY <1>1, LaterBounds DEF Passing
  <1>2. CASE ~schedule_started
    BY <1>2 DEF Passing, Times
  <1> QED BY <1>1, <1>2

\* A later look at the clock skips no fewer releases.
LEMMA SkippedMonotone ==
    ASSUME NEW r \in Times, NEW t \in Times, NEW u \in Times, t <= u
    PROVE  Skipped(r, t) <= Skipped(r, u)
  <1>1. CASE r <= t
    <2>1. t - r \in Nat /\ u - r \in Nat /\ t - r <= u - r /\ r <= u
      BY <1>1 DEF Times
    <2>2. (t - r) \div Period <= (u - r) \div Period
      BY <2>1, DivMonotone, PeriodAssumption
    <2>3. (t - r) \div Period \in Nat /\ (u - r) \div Period \in Nat
      BY <2>1, DivBounds, PeriodAssumption
    <2> QED BY <1>1, <2>1, <2>2, <2>3 DEF Skipped, Passed
  <1>2. CASE ~(r <= t)
    <2>1. Skipped(r, t) = 0 /\ Skipped(r, u) \in Nat
      BY <1>2, PassedBounds DEF Skipped
    <2> QED BY <2>1
  <1> QED BY <1>1, <1>2

LEMMA SkippedType ==
    ASSUME NEW r \in Times, NEW t \in Times
    PROVE  Skipped(r, t) \in Nat
  BY PassedBounds DEF Skipped

LEMMA MissesType ==
    ASSUME NEW d \in Times, NEW t \in Times
    PROVE  Misses(d, t) \in Nat
  <1> DEFINE r == saturating_add(d, Period)
  <1>1. r \in Times
    BY SaturatingAddType
  <1> HIDE DEF r
  <1>2. CASE t > r
    BY <1>1, <1>2, PassedBounds DEF Misses, Times, r
  <1>3. CASE ~(t > r)
    BY <1>1, <1>3 DEF Misses, r
  <1> QED BY <1>2, <1>3

LEMMA ScheduleInit == Init => Schedule
  BY ClockAssumption DEF Init, Schedule, Times, ReleaseIsAhead

LEMMA ScheduleStep ==
    LifeInv /\ Schedule /\ [Next]_vars => Schedule'
  <1> SUFFICES ASSUME LifeInv, Schedule, [Next]_vars PROVE Schedule'
    OBVIOUS
  <1> USE DEF Goto, flagVars, ddsVars, portVars, loopVars, busVars
  <1>1. CASE wait_next
    <2> DEFINE r == Scheduled(schedule_started, deadline, now')
    <2>1. now' \in Times /\ now <= now'
      BY <1>1, PassingBounds, Zenon DEF wait_next, Schedule
    <2>2. r \in Times /\ r <= now' + Period
      <3>1. CASE schedule_started
        <4>1. deadline <= now
          BY <1>1, <3>1, Zenon DEF wait_next, Schedule
        <4>2. r = saturating_add(deadline, Period) /\ deadline \in Times
          BY <3>1, Zenon DEF Scheduled, Schedule
        <4>3. /\ saturating_add(deadline, Period) \in Times
              /\ saturating_add(deadline, Period) <= deadline + Period
          BY <4>2, SaturatingAddType
        <4> HIDE DEF r
        <4> QED BY <2>1, <4>1, <4>2, <4>3, PeriodAssumption, ClockAssumption DEF Times, Schedule
      <3>2. CASE ~schedule_started
        <4>1. r = saturating_add(now', Period)
          BY <3>2 DEF Scheduled
        <4> QED BY <2>1, <4>1, SaturatingAddType
      <3> QED BY <3>1, <3>2
    <2> HIDE DEF r
    <2>3. missed <= Skipped(r, now') /\ Skipped(r, now') \in Nat
      <3>1. Skipped(r, now') \in Nat
        BY <2>1, <2>2, SkippedType
      <3>2. CASE schedule_started
        <4>1. r = saturating_add(deadline, Period)
          BY <3>2 DEF r, Scheduled
        <4>2. missed <= Skipped(r, now) /\ now \in Times /\ missed \in Nat
          BY <1>1, <3>2, <4>1, Zenon DEF wait_next, Schedule
        <4>3. Skipped(r, now) <= Skipped(r, now') /\ Skipped(r, now) \in Nat
          BY <2>1, <2>2, <4>2, SkippedMonotone, SkippedType
        <4> QED BY <3>1, <4>2, <4>3
      <3>3. CASE ~schedule_started
        BY <1>1, <3>1, <3>3 DEF wait_next, Schedule
      <3> QED BY <3>1, <3>2, <3>3
    <2>4. /\ NextDeadline(r, now') \in Times
          /\ now' < NextDeadline(r, now') \/ MaxTime - NextDeadline(r, now') < Period
          /\ NextDeadline(r, now') <= now' + Period
      BY <2>1, <2>2, ReleaseBounds
    <2>5. /\ deadline' = NextDeadline(r, now') /\ skipped' = Skipped(r, now')
          /\ schedule_started' = TRUE /\ pc' = "sleep"
          /\ UNCHANGED <<missed, sleep_failed>>
      BY <1>1, Zenon DEF wait_next, r
    <2>6. ~sleep_failed /\ missed \in Nat
      BY <1>1, Zenon DEF wait_next, Schedule
    <2> QED BY <2>1, <2>3, <2>4, <2>5, <2>6, Zenon DEF Schedule, ReleaseIsAhead
  <1>2. CASE Wakes
    <2>1. now' \in Times /\ deadline <= now'
      BY <1>2, LaterBounds DEF Wakes, Schedule, Times
    <2> QED BY <1>2, <2>1, Zenon DEF Wakes, Schedule, ReleaseIsAhead
  <1>3. CASE RunCycle
    <2>1. now' \in Times /\ now <= now'
      BY <1>3, PassingBounds, Zenon DEF RunCycle, cycle_owned, Schedule
    <2>2. /\ Misses(deadline, now') <= Skipped(saturating_add(deadline, Period), now')
          /\ Misses(deadline, now') \in Nat
      BY <2>1, MissesAreSkipped, MissesType DEF Schedule, Times
    <2>3. /\ pc = "cycle" /\ pc' = "test"
          /\ missed' = IF schedule_started THEN Misses(deadline, now') ELSE missed
          /\ UNCHANGED <<schedule_started, sleep_failed, deadline, skipped>>
      BY <1>3, Zenon DEF RunCycle, cycle_owned
    <2> QED BY <2>1, <2>2, <2>3 DEF Schedule, ReleaseIsAhead, Times
  <1>4. CASE OtherCycle
    <2>1. now' \in Times
      BY <1>4, PassingBounds, Zenon DEF OtherCycle, cycle_owned, Schedule
    <2>2. Misses(deadline, now') \in Nat
      BY <2>1, MissesType, Zenon DEF Schedule
    <2>3. /\ owner = "other" /\ pc' = pc
          /\ missed' = IF schedule_started THEN Misses(deadline, now') ELSE missed
          /\ UNCHANGED <<schedule_started, sleep_failed, deadline, skipped>>
      BY <1>4, Zenon DEF OtherCycle, cycle_owned
    <2>4. pc \notin RunPcs
      BY <2>3, Zenon DEF LifeInv, Ownership
    <2> QED BY <2>1, <2>2, <2>3, <2>4, Zenon DEF Schedule, ReleaseIsAhead
  <1>5. CASE configure
    BY <1>5, Zenon DEF configure, Schedule, ReleaseIsAhead
  <1>6. CASE attach_dds
    BY <1>6, Zenon DEF attach_dds, Schedule, ReleaseIsAhead
  <1>7. CASE StartDds
    BY <1>7, Zenon DEF StartDds, Schedule, ReleaseIsAhead
  <1>8. CASE StartAdd
    BY <1>8, Zenon DEF StartAdd, Schedule, ReleaseIsAhead
  <1>9. CASE StartBind
    BY <1>9, Zenon DEF StartBind, Schedule, ReleaseIsAhead
  <1>10. CASE StartOpen
    <2>1. /\ pc' \in {"open_slaves", "start_serial", "start_failed"}
          /\ UNCHANGED <<now, deadline, skipped, missed, schedule_started, sleep_failed>>
      BY <1>10, OpenStep, Zenon DEF Opening
    <2>2. ~sleep_failed
      BY <1>10, OpenStep, Zenon DEF Opening, Schedule
    <2> QED BY <2>1, <2>2, Zenon DEF Schedule, ReleaseIsAhead
  <1>11. ASSUME NEW b \in Buses, StartBus(b) PROVE Schedule'
    BY <1>11, Zenon DEF StartBus, Schedule, ReleaseIsAhead
  <1>12. CASE StartCan
    BY <1>12, Zenon DEF StartCan, Schedule, ReleaseIsAhead
  <1>13. CASE StartAccept
    BY <1>13, Zenon DEF StartAccept, Schedule, ReleaseIsAhead
  <1>14. CASE StartRun
    BY <1>14, Zenon DEF StartRun, Schedule, ReleaseIsAhead
  <1>15. CASE EnterRun
    BY <1>15, Zenon DEF EnterRun, Schedule, ReleaseIsAhead
  <1>16. CASE prepare
    <2>1. /\ pc' = "test" /\ schedule_started' = FALSE
          /\ deadline' = 0 /\ skipped' = 0 /\ missed' = 0
          /\ UNCHANGED <<now, sleep_failed>>
      BY <1>16, Zenon DEF prepare, reset_schedule
    <2>2. 0 \in Times
      BY ClockAssumption DEF Times
    <2> QED BY <2>1, <2>2, Zenon DEF Schedule, ReleaseIsAhead
  <1>17. CASE TestLoop
    BY <1>17, Zenon DEF TestLoop, Continues, Schedule, ReleaseIsAhead
  <1>18. CASE SleepFails
    BY <1>18, Zenon DEF SleepFails, Schedule, ReleaseIsAhead
  <1>19. CASE release
    BY <1>19, Zenon DEF release, Schedule, ReleaseIsAhead
  <1>20. CASE Destroy
    BY <1>20, Zenon DEF Destroy, Schedule, ReleaseIsAhead
  <1>21. CASE StopDds
    BY <1>21, Zenon DEF StopDds, Schedule, ReleaseIsAhead
  <1>22. CASE JoinDds
    BY <1>22, Zenon DEF JoinDds, Schedule, ReleaseIsAhead
  <1>23. CASE StopBus
    BY <1>23, Zenon DEF StopBus, Schedule, ReleaseIsAhead
  <1>24. CASE AwaitSender
    BY <1>24, Zenon DEF AwaitSender, Schedule, ReleaseIsAhead
  <1>25. CASE AwaitReceiver
    BY <1>25, Zenon DEF AwaitReceiver, Schedule, ReleaseIsAhead
  <1>26. CASE StopMaster
    BY <1>26, Zenon DEF StopMaster, Schedule, ReleaseIsAhead
  <1>27. CASE request_stop
    BY <1>27, Zenon DEF request_stop, Schedule, ReleaseIsAhead
  <1>28. CASE Signal
    BY <1>28, Zenon DEF Signal, Schedule, ReleaseIsAhead
  <1>29. CASE BeginOtherCycle
    BY <1>29, Zenon DEF BeginOtherCycle, Schedule, ReleaseIsAhead
  <1>30. CASE DdsTests
    BY <1>30, Zenon DEF DdsTests, Schedule, ReleaseIsAhead
  <1>31. CASE DdsPasses
    BY <1>31, Zenon DEF DdsPasses, Schedule, ReleaseIsAhead
  <1>32. CASE Can
    BY <1>32, Zenon DEF Can, Schedule, ReleaseIsAhead
  <1>33. CASE UNCHANGED vars
    BY <1>33, Zenon DEF vars, Schedule, ReleaseIsAhead
  <1>34. ASSUME NEW b \in Buses, StopSerialBus(b) PROVE Schedule'
    BY <1>34, Zenon DEF StopSerialBus, Schedule, ReleaseIsAhead
  <1>35. CASE SerialStopped
    BY <1>35, Zenon DEF SerialStopped, Schedule, ReleaseIsAhead
  <1> QED
    BY <1>1, <1>2, <1>3, <1>4, <1>5, <1>6, <1>7, <1>8, <1>9,
       <1>10, <1>11, <1>12, <1>13, <1>14, <1>15, <1>16, <1>17, <1>18,
       <1>19, <1>20, <1>21, <1>22, <1>23, <1>24, <1>25, <1>26, <1>27,
       <1>28, <1>29, <1>30, <1>31, <1>32, <1>33, <1>34, <1>35, Zenon
       DEF Next, Main, start, run, stop_transports, DdsWorker

\* The loop sleeps towards a release at most a period ahead and skips what it
\* was counted to miss, for every period and every end of the clock.
THEOREM ReleaseAhead == Spec => []ReleaseIsAhead
  <1>1. LifeInv /\ Schedule /\ [Next]_vars => Schedule'
    BY ScheduleStep
  <1>2. Schedule => ReleaseIsAhead
    BY Zenon DEF Schedule
  <1> QED BY <1>1, <1>2, ScheduleInit, LifeInvariant, PTL DEF Spec
=============================================================================
