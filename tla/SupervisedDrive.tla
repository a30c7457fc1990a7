--------------------------- MODULE SupervisedDrive ---------------------------
(***************************************************************************)
(* One bus cycle of the daemon over CiA 402 drives: the supervisor decides *)
(* (SafetySupervisor), each axis passes its request to the drive's state   *)
(* machine (src/devices/cia402/axis.cpp, state_machine.cpp), and the drive *)
(* at the other end of the bus obeys or not.  The drive is external: it is *)
(* modelled by the CiA 402 transitions the control words ask for, plus the *)
(* faults it may have at any time.                                         *)
(*                                                                         *)
(* The process image keeps the last status word a cycle received and the   *)
(* drive the last control word it received: with the link down both are    *)
(* stale.                                                                  *)
(***************************************************************************)
EXTENDS SafetySupervisor

CONSTANT Refusals          \* sets of axes whose axis code refuses to enable

ASSUME RefusalAssumption == Refusals \subseteq SUBSET Axes

VARIABLES
    drive,                 \* state of the drive itself
    image,                 \* decode(pdo.status_word) of the last cycle
    word,                  \* control word the drive received last
    latched,               \* Cia402StateMachine::fault_reset_latched_
    pulses,                \* history: reset pulses since last seen clear
    burntSeq               \* history: last sequence an axis was stopped at

driveVars == <<drive, image, word, latched, pulses, burntSeq>>
allVars == <<vars, driveVars>>

ControlWord == {"0000", "0002", "0006", "0007", "000F", "0080"}

-----------------------------------------------------------------------------
(* Cia402StateMachine::update *)

\* Mutant: the latch is not looked at, so a held request pulses every cycle.
WordUnlatched(state, req, latch) ==
    IF req = "fault_reset" /\ state = "fault" THEN "0080" ELSE "0000"

\* Mutant: a drive that is ready is asked to get ready again.
WordStaysAtShutdown(state, req, latch) ==
    CASE req = "fault_reset" /\ ~latch /\ state = "fault" -> "0080"
      [] req = "enable" /\ state \in {"switch_on_disabled",
                                     "ready_to_switch_on"} -> "0006"
      [] OTHER -> "0000"

\* The control word for a drive state, a request and the reset latch.
UpdateWord(state, req, latch) ==
    CASE req = "quick_stop"
            /\ state \in {"ready_to_switch_on", "switched_on",
                          "operation_enabled", "quick_stop_active"} -> "0002"
      [] req = "fault_reset" /\ ~latch /\ state = "fault" -> "0080"
      [] req = "enable" /\ state = "switch_on_disabled" -> "0006"
      [] req = "enable" /\ state = "ready_to_switch_on" -> "0007"
      [] req = "enable"
            /\ state \in {"switched_on", "operation_enabled",
                          "quick_stop_active"} -> "000F"
      [] OTHER -> "0000"

\* The latch after update: armed by a reset request, released by any other.
UpdateLatch(req) == req = "fault_reset"

\* Mutant: a disable decision is passed on as an enable.
ActionEnables(d, refused) ==
    IF d = "enable" /\ refused THEN "quick_stop"
    ELSE IF d = "disable" THEN "enable" ELSE d

\* Cia402Axis::cycle: an enable request becomes a quick stop when the axis
\* finds a following error, the wrong mode or a set point out of range.  Other
\* requests pass: the actual values convert, and their set point converts back,
\* for every scale but those near the limits of a double.
AxisAction(d, refused) ==
    IF d = "enable" /\ refused THEN "quick_stop" ELSE d

-----------------------------------------------------------------------------
(* One cycle: read the image, decide, run every axis, send. *)

AxisCycle(bus, pdo, refused) ==
    LET act(a) == AxisAction(decision'[a], a \in refused)
        out(a) == UpdateWord(pdo[a].drive, act(a), latched[a])
    IN  /\ latched' = [a \in Axes |-> UpdateLatch(act(a))]
        /\ word' = [a \in Axes |-> IF bus.linkUp THEN out(a) ELSE word[a]]
        /\ pulses' = [a \in Axes |->
                        IF FaultClear(bus, pdo, a) THEN 0
                        ELSE IF out(a) = "0080" THEN pulses[a] + 1
                        ELSE pulses[a]]

\* Remember the sequence at which a safety reason took an enabled axis down.
RecordStop ==
    burntSeq' = [a \in Axes |->
                   IF decision[a] = "enable" /\ stopReason'[a]
                   THEN lastSeq ELSE burntSeq[a]]

\* The state an axis sees is the drive's, or the stale one without a link.
Cycle ==
    \E bus \in BusStates, pdo \in Pdos, refused \in Refusals :
        /\ image' = IF bus.linkUp THEN drive ELSE image
        /\ \A a \in Axes : pdo[a].drive = image'[a]
        /\ evaluate(bus, pdo)
        /\ AxisCycle(bus, pdo, refused)
        /\ RecordStop
        /\ UNCHANGED drive

-----------------------------------------------------------------------------
(* The drive (external) *)

\* Where the control word the drive holds takes it.
DriveTarget(state, w) ==
    CASE state = "not_ready_to_switch_on" -> "switch_on_disabled"
      [] state = "fault_reaction_active" -> "fault"
      [] state = "fault" /\ w = "0080" -> "switch_on_disabled"
      [] state = "switch_on_disabled" /\ w = "0006" -> "ready_to_switch_on"
      [] state = "ready_to_switch_on" /\ w = "0007" -> "switched_on"
      [] state \in {"switched_on", "quick_stop_active"} /\ w = "000F"
            -> "operation_enabled"
      [] state = "operation_enabled" /\ w = "0002" -> "quick_stop_active"
      [] state \in {"ready_to_switch_on", "switched_on", "operation_enabled",
                    "quick_stop_active"} /\ w = "0000" -> "switch_on_disabled"
      [] state \in {"ready_to_switch_on", "switched_on"} /\ w = "0002"
            -> "switch_on_disabled"
      [] OTHER -> state

DriveObeys(a) ==
    /\ drive' = [drive EXCEPT ![a] = DriveTarget(drive[a], word[a])]
    /\ UNCHANGED <<vars, image, word, latched, pulses, burntSeq>>

\* A quick stop that has come to rest leaves the drive disabled by itself.
DriveComesToRest(a) ==
    /\ drive[a] = "quick_stop_active" /\ word[a] # "000F"
    /\ drive' = [drive EXCEPT ![a] = "switch_on_disabled"]
    /\ UNCHANGED <<vars, image, word, latched, pulses, burntSeq>>

DriveFaults(a) ==
    /\ drive[a] \notin {"fault", "fault_reaction_active"}
    /\ drive' = [drive EXCEPT ![a] = "fault_reaction_active"]
    /\ UNCHANGED <<vars, image, word, latched, pulses, burntSeq>>

-----------------------------------------------------------------------------
DriveInit ==
    /\ Init
    /\ drive = [a \in Axes |-> "not_ready_to_switch_on"]
    /\ image = [a \in Axes |-> "not_ready_to_switch_on"]
    /\ word = [a \in Axes |-> "0000"]
    /\ latched = [a \in Axes |-> FALSE]
    /\ pulses = [a \in Axes |-> 0]
    /\ burntSeq = [a \in Axes |-> -1]

Ingress ==
    /\ \/ \E s \in Snapshots : RejectCommands(s) \/ AcceptCommands(s)
       \/ request_shutdown
       \/ Tick
    /\ UNCHANGED driveVars

DriveStep == \E a \in Axes : DriveObeys(a) \/ DriveComesToRest(a)

DriveNext ==
    \/ Ingress
    \/ Cycle
    \/ DriveStep
    \/ \E a \in Axes : DriveFaults(a)

DriveSpec == DriveInit /\ [][DriveNext]_allVars

\* Where a cycle may change nothing: no axis is enabled, or the words in place
\* are those the next cycle would send.  Fairness asks for nothing here, since
\* a cycle that must change something would be one on which the bus fails.
Settled ==
    \/ \A a \in Axes : decision[a] # "enable"
    \/ /\ image = drive
       /\ \A a \in Axes : \E refused \in BOOLEAN :
            word[a] = UpdateWord(drive[a], AxisAction(decision[a], refused),
                                 latched[a])

\* The loop cycles, possibly without any change, and a powered drive carries out
\* its control word.  Ticks are not fair: a clock that stands still stands for a stream of commands that
\* keeps the axis fresh for as long as it takes.
FairDriveSpec ==
    /\ DriveSpec
    /\ WF_allVars(~Settled /\ Cycle)
    /\ \A a \in Axes : WF_allVars(DriveObeys(a))
-----------------------------------------------------------------------------
(* Properties *)

\* Type invariant of the composition.
DriveTypeOK ==
    /\ TypeOK
    /\ drive \in [Axes -> DriveState]
    /\ image \in [Axes -> DriveState]
    /\ word \in [Axes -> ControlWord]
    /\ latched \in [Axes -> BOOLEAN]
    /\ pulses \in [Axes -> Nat]
    /\ burntSeq \in [Axes -> Int]

\* The reset budget is exact: the edges the supervisor has charged to an
\* episode are the 0x0080 words sent since the drive was last seen clear.  No
\* edge is charged without a pulse ("poisoning the first real reset
\* opportunity", safety_supervisor.cpp:455-457) and no pulse goes uncharged.
ResetEdgesArePulses == \A a \in Axes : edges[a] = pulses[a]

\* A faulted drive gets at most maximum_fault_resets pulses per episode,
\* however requests, link losses and other stop reasons alternate.
ResetPulsesBounded == \A a \in Axes : pulses[a] <= MaxFaultResets

\* "Recovery requires a newer command sequence" (README.md:93): an axis that
\* was enabled and then stopped for a safety reason is not enabled again by
\* the command it was stopped under.
RecoveryNeedsNewerCommand ==
    \A a \in Axes : decision[a] = "enable" => lastSeq > burntSeq[a]

\* A control word that powers a drive up is only sent on a valid, fresh
\* command and never during a shutdown.
PowerNeedsFreshCommand ==
    [][\A a \in Axes :
         /\ word'[a] # word[a]
         /\ word'[a] \in {"0006", "0007", "000F"}
         => /\ hasCommand /\ commandsValid
            /\ lastAge <= CommandTimeout[a]
            /\ ~shutdownRequested]_allVars

\* An axis that stays enabled gets its drive to operation enabled: from any
\* state the words of update climb the CiA 402 ladder, unless the axis keeps
\* refusing or the drive drops out again.
EnabledDriveStarts ==
    \A a \in Axes :
        <>[](decision[a] = "enable" /\ word[a] \in {"0006", "0007", "000F"})
            => []<>(drive[a] = "operation_enabled")

=============================================================================
