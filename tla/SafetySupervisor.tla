-------------------------- MODULE SafetySupervisor --------------------------
(***************************************************************************)
(* The safety supervisor of the robot I/O daemon                           *)
(* (src/robot_io/daemon/safety_supervisor.cpp).  It accepts command        *)
(* snapshots, and once per bus cycle turns the commands, the state of the  *)
(* bus and the state of every drive into one request per axis.             *)
(*                                                                         *)
(* Clock values are kept as ages: lastAge is now - last_command_timestamp, *)
(* stopAge is now - stop_started during a stop and 0 outside one; both     *)
(* saturate at AgeCap, beyond every timeout they are compared with.  What  *)
(* a snapshot, a bus state or a PDO image holds beyond the conditions the  *)
(* code tests is left out.                                                 *)
(***************************************************************************)
EXTENDS Integers

CONSTANTS
    AxisCount,             \* axis_count_
    GroupOf,               \* AxisSafetyConfig::group
    CommandTimeout,        \* AxisSafetyConfig::command_timeout_ns
    WkcLimit,              \* SafetyOptions::consecutive_wkc_limit
    MaxFaultResets,        \* SafetyOptions::maximum_fault_resets
    SafeStopTimeout,       \* SafetyOptions::safe_stop_timeout
    ZeroCycles,            \* SafetyOptions::zero_velocity_confirmation_cycles
    AgeCap,                \* bound: ages saturate here
    Snapshots,             \* the command snapshots callers may offer
    BusStates,             \* the bus states a cycle may see
    Pdos                   \* the drive images a cycle may see

Axes == 0 .. AxisCount - 1

AxisRequest == {"enable", "disable", "quick_stop", "fault_reset"}

StopPhase == {"running", "quick_stop", "disabled"}

DriveState == {"not_ready_to_switch_on", "switch_on_disabled",
               "ready_to_switch_on", "switched_on", "operation_enabled",
               "quick_stop_active", "fault_reaction_active", "fault",
               "unknown"}

\* A snapshot: wellFormed stands for the per-record checks of valid_snapshot,
\* age is now - timestamp_ns (-1: a timestamp in the future).
Snapshot == [seq : Nat, age : -1 .. AgeCap - 1, wellFormed : BOOLEAN,
             request : [Axes -> AxisRequest]]

\* counterBad: the working counter is incomplete or not the expected one.
SafetyBusState == [counterBad : BOOLEAN, linkUp : BOOLEAN, pdValid : BOOLEAN,
                   operational : SUBSET Axes, stopAxes : SUBSET Axes]

\* moving: |actual_velocity| above the zero-velocity threshold; farOff: the
\* staged target is further from the actual value than following_error_limit.
PdoView == [drive : DriveState, moving : BOOLEAN, modeOk : BOOLEAN,
            farOff : BOOLEAN]

\* configure() accepts between 0 and 12 axes and only positive options.
ASSUME ConfigAssumption ==
    /\ AxisCount \in Nat
    /\ GroupOf \in [Axes -> Nat]
    /\ CommandTimeout \in [Axes -> Nat]
    /\ WkcLimit \in Nat \ {0}
    /\ MaxFaultResets \in Nat \ {0}
    /\ SafeStopTimeout \in Nat \ {0}
    /\ ZeroCycles \in Nat \ {0}

\* The cap lies beyond every timeout.
ASSUME CapAssumption ==
    /\ AgeCap \in Nat
    /\ AgeCap >= SafeStopTimeout
    /\ \A a \in Axes : AgeCap > CommandTimeout[a]

ASSUME InputAssumption ==
    /\ Snapshots \subseteq Snapshot
    /\ BusStates \subseteq SafetyBusState
    /\ Pdos \subseteq [Axes -> PdoView]

VARIABLES
    hasCommand, commandsValid, lastSeq, lastAge,
    request,               \* request_from_flags(commands_[axis].flags)
    wkcFailures, shutdownRequested, shutdownComplete,
    phase, stopAge, zeroCycles, stoppedSeq, episode, edges, resetOutput,
    decision,              \* last_requests_
    stopReason             \* feedback_flags # 0 in the last evaluation

commandVars == <<hasCommand, commandsValid, lastSeq, request>>
axisVars == <<phase, zeroCycles, stoppedSeq, episode, edges, resetOutput,
              decision, stopReason>>
vars == <<commandVars, lastAge, wkcFailures, shutdownRequested,
          shutdownComplete, axisVars, stopAge>>

Init ==
    /\ hasCommand = FALSE
    /\ commandsValid = FALSE
    /\ lastSeq = 0
    /\ lastAge = 0
    /\ request = [a \in Axes |-> "disable"]
    /\ wkcFailures = 0
    /\ shutdownRequested = FALSE
    /\ shutdownComplete = FALSE
    /\ phase = [a \in Axes |-> "running"]
    /\ stopAge = [a \in Axes |-> 0]
    /\ zeroCycles = [a \in Axes |-> 0]
    /\ stoppedSeq = [a \in Axes |-> 0]
    /\ episode = [a \in Axes |-> FALSE]
    /\ edges = [a \in Axes |-> 0]
    /\ resetOutput = [a \in Axes |-> FALSE]
    /\ decision = [a \in Axes |-> "disable"]
    /\ stopReason = [a \in Axes |-> FALSE]

-----------------------------------------------------------------------------
(* accept_commands *)

valid_snapshot(s) == s.wellFormed /\ s.age >= 0

\* Older than the last accepted snapshot by sequence or by timestamp.
Regresses(s) == hasCommand /\ (s.seq < lastSeq \/ s.age > lastAge)

SameSequence(s) == hasCommand /\ s.seq = lastSeq

\* command_equals over every axis.
SameContent(s) == s.age = lastAge /\ s.request = request

Rejects(s) ==
    \/ ~valid_snapshot(s)
    \/ Regresses(s)
    \/ SameSequence(s) /\ ~SameContent(s)

Accepts(s) == valid_snapshot(s) /\ ~Regresses(s) /\ ~SameSequence(s)

RejectCommands(s) ==
    /\ Rejects(s)
    /\ commandsValid' = FALSE
    /\ UNCHANGED <<hasCommand, lastSeq, lastAge, request, wkcFailures,
                   shutdownRequested, shutdownComplete, axisVars, stopAge>>

AcceptCommands(s) ==
    /\ Accepts(s)
    /\ request' = s.request
    /\ lastSeq' = s.seq
    /\ lastAge' = s.age
    /\ hasCommand' = TRUE
    /\ commandsValid' = TRUE
    /\ UNCHANGED <<wkcFailures, shutdownRequested, shutdownComplete,
                   axisVars, stopAge>>

\* A well-formed repetition of the last snapshot: nothing changes, and an
\* invalidated command set stays invalid.
DuplicateCommands(s) ==
    /\ ~Rejects(s) /\ ~Accepts(s)
    /\ UNCHANGED vars

request_shutdown ==
    /\ shutdownRequested' = TRUE
    /\ UNCHANGED <<commandVars, lastAge, wkcFailures, shutdownComplete,
                   axisVars, stopAge>>

-----------------------------------------------------------------------------
(* evaluate: the reasons to stop an axis *)

axis_operational(bus, a) == a \in bus.operational

NextWkcFailures(bus) ==
    IF ~bus.counterBad THEN 0
    ELSE IF wkcFailures < WkcLimit THEN wkcFailures + 1 ELSE WkcLimit

InvalidProcessData(bus) == ~bus.pdValid /\ ~bus.counterBad /\ bus.linkUp

CommandExpired(a) == ~hasCommand \/ lastAge > CommandTimeout[a]

\* evaluate_target: a staged target is only compared with the actual value
\* for an enable request and a drive that holds torque.
FollowingError(pdo, a) ==
    /\ request[a] = "enable"
    /\ pdo[a].drive \in {"switched_on", "operation_enabled",
                         "quick_stop_active"}
    /\ pdo[a].farOff

DriveFault(pdo, a) == pdo[a].drive \in {"fault", "fault_reaction_active"}

FaultClear(bus, pdo, a) ==
    /\ ~DriveFault(pdo, a)
    /\ pdo[a].drive # "unknown"
    /\ bus.linkUp /\ bus.pdValid
    /\ axis_operational(bus, a)

\* A fault episode opens at the first cycle that is not seen clear and closes
\* at the first that is; either way its counters start over.
EpisodeRestarts(bus, pdo, a) == FaultClear(bus, pdo, a) \/ ~episode[a]

EpisodeEdges(bus, pdo, a) ==
    IF EpisodeRestarts(bus, pdo, a) THEN 0 ELSE edges[a]

EpisodeOutput(bus, pdo, a) ==
    IF EpisodeRestarts(bus, pdo, a) THEN FALSE ELSE resetOutput[a]

ResetWanted(pdo, a) ==
    pdo[a].drive = "fault" /\ request[a] = "fault_reset"

ResetEdge(bus, pdo, a) ==
    ResetWanted(pdo, a) /\ ~EpisodeOutput(bus, pdo, a)

BudgetAvailable(bus, pdo, a) ==
    ResetEdge(bus, pdo, a) => EpisodeEdges(bus, pdo, a) < MaxFaultResets

\* Mutant: a requested shutdown alone is no reason to stop an axis.
OwnReasonWithoutShutdown(bus, pdo, a) ==
    \/ CommandExpired(a)
    \/ ~commandsValid
    \/ ~bus.linkUp
    \/ ~axis_operational(bus, a)
    \/ DriveFault(pdo, a)

\* reasons[axis] # 0 before the groups are looked at.
OwnReason(bus, pdo, a) ==
    \/ CommandExpired(a)
    \/ ~commandsValid
    \/ a \in bus.stopAxes
    \/ ~bus.linkUp
    \/ NextWkcFailures(bus) >= WkcLimit
    \/ InvalidProcessData(bus)
    \/ ~axis_operational(bus, a)
    \/ ~pdo[a].modeOk
    \/ FollowingError(pdo, a)
    \/ /\ DriveFault(pdo, a)
       /\ ~(ResetWanted(pdo, a) /\ BudgetAvailable(bus, pdo, a))
    \/ shutdownRequested

OwnTrigger(bus, pdo, a) ==
    request[a] = "quick_stop" \/ OwnReason(bus, pdo, a)

ResetCandidate(bus, pdo, a) ==
    /\ ResetWanted(pdo, a)
    /\ BudgetAvailable(bus, pdo, a)
    /\ ~OwnReason(bus, pdo, a)

\* Mutant: the inner loop starts after the source instead of at 0.
LowerPeers(a) == {b \in Axes : b < a /\ GroupOf[b] = GroupOf[a]}

Peers(a) == {b \in Axes : b # a /\ GroupOf[b] = GroupOf[a]}

\* A peer stops this axis; or a peer resets its drive and this axis does not.
GroupStop(bus, pdo, a) ==
    \E b \in Peers(a) :
        \/ OwnTrigger(bus, pdo, b)
        \/ ResetCandidate(bus, pdo, b) /\ ~ResetCandidate(bus, pdo, a)

\* reasons[axis] # 0 after both propagation loops.  The first loop also marks
\* an axis whose own quick-stop request comes back to it from a later member.
FinalReason(bus, pdo, a) ==
    \/ OwnReason(bus, pdo, a)
    \/ GroupStop(bus, pdo, a)
    \/ OwnTrigger(bus, pdo, a) /\ \E b \in Peers(a) : b > a

Triggered(bus, pdo, a) == OwnTrigger(bus, pdo, a) \/ GroupStop(bus, pdo, a)

-----------------------------------------------------------------------------
(* evaluate: the stop sequence of an axis and its decision *)

FaultResetAllowed(bus, pdo, a) ==
    /\ ResetWanted(pdo, a)
    /\ ~FinalReason(bus, pdo, a)
    /\ BudgetAvailable(bus, pdo, a)

EntersQuickStop(bus, pdo, a) ==
    Triggered(bus, pdo, a) /\ phase[a] = "running"

\* Mutant: recovery looks at the phase and the sequence only.
RecoversUnchecked(bus, pdo, a) ==
    /\ phase[a] = "disabled"
    /\ lastSeq > stoppedSeq[a]
    /\ request[a] = "enable"

\* Mutant: recovery also accepts the command the axis was stopped under.
RecoversBySameCommand(bus, pdo, a) ==
    /\ ~Triggered(bus, pdo, a)
    /\ phase[a] = "disabled"
    /\ hasCommand
    /\ lastSeq >= stoppedSeq[a]
    /\ request[a] = "enable"

Recovers(bus, pdo, a) ==
    /\ ~Triggered(bus, pdo, a)
    /\ phase[a] = "disabled"
    /\ hasCommand
    /\ lastSeq > stoppedSeq[a]
    /\ request[a] = "enable"

\* Mutant: a trigger disables at once.
PhaseDisabledAtOnce(bus, pdo, a) ==
    IF EntersQuickStop(bus, pdo, a) THEN "disabled"
    ELSE IF Recovers(bus, pdo, a) THEN "running"
    ELSE phase[a]

\* The phase before the stop sequence advances.
LatchedPhase(bus, pdo, a) ==
    IF EntersQuickStop(bus, pdo, a) THEN "quick_stop"
    ELSE IF Recovers(bus, pdo, a) THEN "running"
    ELSE phase[a]

\* Still stopping, and not in the cycle that started the stop.
Confirming(bus, pdo, a) ==
    /\ ~FaultResetAllowed(bus, pdo, a)
    /\ phase[a] = "quick_stop"

NextZeroCycles(bus, pdo, a) ==
    IF EntersQuickStop(bus, pdo, a) THEN 0
    ELSE IF ~Confirming(bus, pdo, a) THEN zeroCycles[a]
    ELSE IF pdo[a].moving THEN 0
    ELSE zeroCycles[a] + 1

\* Mutant: the safe-stop timeout is not looked at.
StopEndsByRestOnly(bus, pdo, a) ==
    /\ Confirming(bus, pdo, a)
    /\ NextZeroCycles(bus, pdo, a) >= ZeroCycles

StopEnds(bus, pdo, a) ==
    /\ Confirming(bus, pdo, a)
    /\ \/ NextZeroCycles(bus, pdo, a) >= ZeroCycles
       \/ stopAge[a] >= SafeStopTimeout

NextPhase(bus, pdo, a) ==
    IF StopEnds(bus, pdo, a) THEN "disabled" ELSE LatchedPhase(bus, pdo, a)

\* A reset request outside the fault state is not passed on: it would arm the
\* edge latch of the drive's state machine without a reset pulse.
Decision(bus, pdo, a) ==
    IF FaultResetAllowed(bus, pdo, a) THEN "fault_reset"
    ELSE CASE NextPhase(bus, pdo, a) = "quick_stop" -> "quick_stop"
           [] NextPhase(bus, pdo, a) = "disabled" -> "disable"
           [] NextPhase(bus, pdo, a) = "running" ->
                IF request[a] = "fault_reset" THEN "disable" ELSE request[a]

evaluate(bus, pdo) ==
    /\ wkcFailures' = NextWkcFailures(bus)
    /\ phase' = [a \in Axes |-> NextPhase(bus, pdo, a)]
    /\ stopAge' = [a \in Axes |->
                     IF /\ phase[a] = "quick_stop"
                        /\ NextPhase(bus, pdo, a) = "quick_stop"
                     THEN stopAge[a] ELSE 0]
    /\ stoppedSeq' = [a \in Axes |-> IF EntersQuickStop(bus, pdo, a)
                                     THEN lastSeq ELSE stoppedSeq[a]]
    /\ zeroCycles' = [a \in Axes |-> NextZeroCycles(bus, pdo, a)]
    /\ episode' = [a \in Axes |-> ~FaultClear(bus, pdo, a)]
    /\ edges' = [a \in Axes |->
                   IF FaultResetAllowed(bus, pdo, a) /\ ResetEdge(bus, pdo, a)
                   THEN EpisodeEdges(bus, pdo, a) + 1
                   ELSE EpisodeEdges(bus, pdo, a)]
    /\ resetOutput' = [a \in Axes |-> FaultResetAllowed(bus, pdo, a)]
    /\ decision' = [a \in Axes |-> Decision(bus, pdo, a)]
    /\ stopReason' = [a \in Axes |-> FinalReason(bus, pdo, a)]
    /\ shutdownComplete' = /\ shutdownRequested
                           /\ \A a \in Axes : Decision(bus, pdo, a) = "disable"
    /\ UNCHANGED <<commandVars, lastAge, shutdownRequested>>

-----------------------------------------------------------------------------
(* Time passes between calls. *)

Older(age) == IF age < AgeCap THEN age + 1 ELSE AgeCap

Tick ==
    /\ lastAge' = Older(lastAge)
    /\ stopAge' = [a \in Axes |-> IF phase[a] = "quick_stop"
                                  THEN Older(stopAge[a]) ELSE stopAge[a]]
    /\ UNCHANGED <<commandVars, wkcFailures, shutdownRequested,
                   shutdownComplete, axisVars>>

Evaluate == \E bus \in BusStates, pdo \in Pdos : evaluate(bus, pdo)

Next ==
    \/ \E s \in Snapshots : \/ RejectCommands(s)
                            \/ AcceptCommands(s)
                            \/ DuplicateCommands(s)
    \/ request_shutdown
    \/ Evaluate
    \/ Tick

Spec == Init /\ [][Next]_vars

\* Where no evaluation leaves everything as it is.  Fairness of Evaluate is
\* stated for these states only: elsewhere a cycle may repeat the last one, and
\* asking for a change would force the inputs to change.
MustAct ==
    \/ \E a \in Axes : /\ phase[a] = "quick_stop" /\ ~resetOutput[a]
                       /\ stopAge[a] >= SafeStopTimeout
    \/ /\ shutdownRequested
       /\ \/ \E a \in Axes : phase[a] = "running" \/ resetOutput[a]
          \/ ~shutdownComplete /\ \A a \in Axes : phase[a] = "disabled"

\* The realtime loop releases a cycle every period and the clock advances.
FairSpec == Spec /\ WF_vars(MustAct /\ Evaluate) /\ WF_vars(Tick)

-----------------------------------------------------------------------------
(* Properties *)

\* Type invariant; the bounds on the counters are the limits of SafetyOptions:
\* the reset edges of an episode never exceed maximum_fault_resets, the
\* zero-velocity count stops at the confirmation count.
TypeOK ==
    /\ hasCommand \in BOOLEAN /\ commandsValid \in BOOLEAN
    /\ lastSeq \in Nat
    /\ lastAge \in 0 .. AgeCap
    /\ request \in [Axes -> AxisRequest]
    /\ wkcFailures \in 0 .. WkcLimit
    /\ shutdownRequested \in BOOLEAN /\ shutdownComplete \in BOOLEAN
    /\ phase \in [Axes -> StopPhase]
    /\ stopAge \in [Axes -> 0 .. AgeCap]
    /\ zeroCycles \in [Axes -> 0 .. ZeroCycles]
    /\ stoppedSeq \in [Axes -> Nat]
    /\ episode \in [Axes -> BOOLEAN]
    /\ edges \in [Axes -> 0 .. MaxFaultResets]
    /\ resetOutput \in [Axes -> BOOLEAN]
    /\ decision \in [Axes -> AxisRequest]
    /\ stopReason \in [Axes -> BOOLEAN]

\* A safety group stops together: when the last evaluation found a reason to
\* stop one member, or let one member reset its drive, no member of its group
\* is enabled (the two propagation loops of evaluate, :362-389).
GroupStopsTogether ==
    \A a, b \in Axes :
        /\ GroupOf[a] = GroupOf[b]
        /\ stopReason[b] \/ decision[b] = "fault_reset"
        => decision[a] # "enable"

\* A reported shutdown is real: every axis has finished its stop sequence and
\* is commanded to disable, whatever the axes were doing when the shutdown was
\* requested (:473-477; the daemon closes the bus on this flag).
ShutdownMeansDisabled ==
    shutdownComplete =>
        /\ shutdownRequested
        /\ \A a \in Axes : phase[a] = "disabled" /\ decision[a] = "disable"

\* A reported shutdown is final: no later command, bus state or drive state
\* takes it back, so the daemon may close the master after it.
ShutdownIsFinal == [][shutdownComplete => shutdownComplete']_vars

\* Torque is never cut for a safety reason in the cycle after an axis was
\* enabled: "QuickStop -> zero-speed confirmation -> Disable" (README.md:92).
SafetyStopStartsWithQuickStop ==
    [][\A a \in Axes :
         decision[a] = "enable" /\ decision'[a] = "disable"
            => ~stopReason'[a]]_vars

\* A requested shutdown completes, whatever the bus and the drives report
\* (the safe-stop timeout bounds a drive that never comes to rest).
ShutdownCompletes == shutdownRequested ~> shutdownComplete

\* A stop sequence ends, unless the axis is being reset instead.
StopEndsEventually ==
    \A a \in Axes :
        phase[a] = "quick_stop" ~> phase[a] # "quick_stop" \/ resetOutput[a]

=============================================================================
