----------------------- MODULE SupervisedDriveProofs -----------------------
(***************************************************************************)
(* Proofs about the safety supervisor, for any number of axes, any groups, *)
(* any options configure() accepts and any inputs; and about supervisor    *)
(* and drives together: the reset budget and the recovery rule hold for    *)
(* any behaviour of the drives and of the bus.                             *)
(***************************************************************************)
EXTENDS SupervisedDrive, TLAPS

\* The strengthening TypeOK needs to be inductive: a stop in progress has not
\* reached its confirmation count, and only a running axis is enabled.
Sequencing ==
    \A a \in Axes :
        /\ phase[a] = "quick_stop" => zeroCycles[a] < ZeroCycles
        /\ decision[a] = "enable" => phase[a] = "running"

IInv == TypeOK /\ Sequencing /\ GroupStopsTogether /\ ShutdownMeansDisabled

-----------------------------------------------------------------------------
(* What one evaluation decides for one axis. *)

\* A stop reason found by evaluate triggers the axis (:356-389).
LEMMA ReasonTriggers ==
    ASSUME NEW bus, NEW pdo, NEW a \in Axes, FinalReason(bus, pdo, a)
    PROVE  Triggered(bus, pdo, a)
BY DEF FinalReason, Triggered, OwnTrigger

\* The phases evaluate leaves an axis in, and its decision (:407-460).
LEMMA DecisionByPhase ==
    ASSUME TypeOK, NEW bus, NEW pdo, NEW a \in Axes
    PROVE  /\ LatchedPhase(bus, pdo, a) \in StopPhase
           /\ NextPhase(bus, pdo, a) \in StopPhase
           /\ Decision(bus, pdo, a) \in AxisRequest
           /\ Decision(bus, pdo, a) = "enable" =>
                 /\ NextPhase(bus, pdo, a) = "running"
                 /\ request[a] = "enable"
<1>1. phase[a] \in StopPhase /\ request[a] \in AxisRequest
  BY Zenon DEF TypeOK
<1>2. LatchedPhase(bus, pdo, a) \in StopPhase
  BY <1>1 DEF LatchedPhase, StopPhase
<1>3. NextPhase(bus, pdo, a) \in StopPhase
  BY <1>2 DEF NextPhase, StopPhase
<1>4. /\ Decision(bus, pdo, a) \in AxisRequest
      /\ Decision(bus, pdo, a) = "enable" =>
            /\ NextPhase(bus, pdo, a) = "running"
            /\ request[a] = "enable"
  BY <1>1, <1>3, Zenon DEF Decision, StopPhase, AxisRequest
<1>. QED  BY <1>2, <1>3, <1>4

\* A triggered axis is stopped: it is not left running, a running one starts
\* with a quick stop and a disabled one stays disabled (:408-419).
LEMMA TriggeredStops ==
    ASSUME TypeOK, NEW bus, NEW pdo, NEW a \in Axes, Triggered(bus, pdo, a)
    PROVE  /\ NextPhase(bus, pdo, a) # "running"
           /\ Decision(bus, pdo, a) # "enable"
           /\ phase[a] = "running" => NextPhase(bus, pdo, a) = "quick_stop"
           /\ phase[a] = "disabled" => NextPhase(bus, pdo, a) = "disabled"
<1>1. phase[a] \in StopPhase
  BY Zenon DEF TypeOK
<1>2. /\ NextPhase(bus, pdo, a) # "running"
      /\ phase[a] = "running" => NextPhase(bus, pdo, a) = "quick_stop"
      /\ phase[a] = "disabled" => NextPhase(bus, pdo, a) = "disabled"
  BY <1>1, Zenon DEF NextPhase, LatchedPhase, StopEnds, Confirming, EntersQuickStop,
              Recovers, StopPhase
<1>. QED  BY <1>2, DecisionByPhase

\* An axis whose evaluation found a reason gets no reset pulse, and its
\* decision follows its phase (:402-451).
LEMMA ReasonDecision ==
    ASSUME TypeOK, NEW bus, NEW pdo, NEW a \in Axes, FinalReason(bus, pdo, a)
    PROVE  /\ ~FaultResetAllowed(bus, pdo, a)
           /\ Decision(bus, pdo, a) = "disable"
                <=> NextPhase(bus, pdo, a) = "disabled"
           /\ phase[a] = "running" => Decision(bus, pdo, a) = "quick_stop"
<1>1. ~FaultResetAllowed(bus, pdo, a)
  BY DEF FaultResetAllowed
<1>2. Triggered(bus, pdo, a)
  BY ReasonTriggers
<1>3. NextPhase(bus, pdo, a) \in {"quick_stop", "disabled"}
  BY <1>2, DecisionByPhase, TriggeredStops DEF StopPhase
<1>. QED  BY <1>1, <1>2, <1>3, TriggeredStops, Zenon DEF Decision

-----------------------------------------------------------------------------
(* The invariant is inductive. *)

LEMMA InitIInv == Init => IInv
<1>. SUFFICES ASSUME Init PROVE IInv
  OBVIOUS
<1>. USE DEF Init
<1>1. /\ hasCommand \in BOOLEAN /\ commandsValid \in BOOLEAN
      /\ shutdownRequested \in BOOLEAN /\ shutdownComplete \in BOOLEAN
      /\ episode \in [Axes -> BOOLEAN]
      /\ resetOutput \in [Axes -> BOOLEAN]
      /\ stopReason \in [Axes -> BOOLEAN]
  BY Zenon
<1>2. /\ lastSeq \in Nat
      /\ lastAge \in 0 .. AgeCap
      /\ wkcFailures \in 0 .. WkcLimit
      /\ stopAge \in [Axes -> 0 .. AgeCap]
      /\ zeroCycles \in [Axes -> 0 .. ZeroCycles]
      /\ stoppedSeq \in [Axes -> Nat]
      /\ edges \in [Axes -> 0 .. MaxFaultResets]
  BY ConfigAssumption, CapAssumption
<1>3. /\ request \in [Axes -> AxisRequest]
      /\ phase \in [Axes -> StopPhase]
      /\ decision \in [Axes -> AxisRequest]
  BY DEF AxisRequest, StopPhase
<1>4. Sequencing
  BY DEF Sequencing
<1>5. GroupStopsTogether
  BY DEF GroupStopsTogether
<1>6. ShutdownMeansDisabled
  BY DEF ShutdownMeansDisabled
<1>. QED  BY <1>1, <1>2, <1>3, <1>4, <1>5, <1>6, Zenon DEF IInv, TypeOK

LEMMA EvaluateTypeOK ==
    ASSUME IInv, NEW bus \in SafetyBusState, NEW pdo \in [Axes -> PdoView],
           evaluate(bus, pdo)
    PROVE  TypeOK' /\ Sequencing'
<1>. USE ConfigAssumption, CapAssumption
<1>1. TypeOK /\ Sequencing
  BY DEF IInv
<1>2. wkcFailures' \in 0 .. WkcLimit
  BY <1>1 DEF evaluate, NextWkcFailures, TypeOK
<1>3. /\ phase' \in [Axes -> StopPhase]
      /\ decision' \in [Axes -> AxisRequest]
  BY <1>1, DecisionByPhase, Zenon DEF evaluate
<1>4. /\ stopAge' \in [Axes -> 0 .. AgeCap]
      /\ stoppedSeq' \in [Axes -> Nat]
  BY <1>1 DEF evaluate, TypeOK
<1>5. \A a \in Axes :
        /\ NextZeroCycles(bus, pdo, a) \in 0 .. ZeroCycles
        /\ NextPhase(bus, pdo, a) = "quick_stop"
              => NextZeroCycles(bus, pdo, a) < ZeroCycles
  <2>. TAKE a \in Axes
  <2>1. /\ zeroCycles[a] \in 0 .. ZeroCycles
        /\ phase[a] = "quick_stop" => zeroCycles[a] < ZeroCycles
        /\ phase[a] \in StopPhase
    BY <1>1, Zenon DEF TypeOK, Sequencing
  <2>2. NextZeroCycles(bus, pdo, a) \in 0 .. ZeroCycles
    BY <2>1 DEF NextZeroCycles, Confirming
  <2>3. CASE EntersQuickStop(bus, pdo, a)
    BY <2>2, <2>3 DEF NextZeroCycles
  <2>4. CASE ~EntersQuickStop(bus, pdo, a)
    BY <2>1, <2>2, <2>4
    DEF NextPhase, LatchedPhase, StopEnds, Confirming, NextZeroCycles
  <2>. QED  BY <2>2, <2>3, <2>4, Zenon
<1>6. zeroCycles' \in [Axes -> 0 .. ZeroCycles]
  BY <1>5, Zenon DEF evaluate
<1>7. \A a \in Axes :
        /\ EpisodeEdges(bus, pdo, a) \in 0 .. MaxFaultResets
        /\ FaultResetAllowed(bus, pdo, a) /\ ResetEdge(bus, pdo, a)
              => EpisodeEdges(bus, pdo, a) < MaxFaultResets
  BY <1>1 DEF TypeOK, EpisodeEdges, FaultResetAllowed, BudgetAvailable
<1>8. edges' \in [Axes -> 0 .. MaxFaultResets]
  BY <1>7 DEF evaluate
<1>9. /\ episode' \in [Axes -> BOOLEAN]
      /\ resetOutput' \in [Axes -> BOOLEAN]
      /\ stopReason' \in [Axes -> BOOLEAN]
      /\ shutdownComplete' \in BOOLEAN
  BY Zenon DEF evaluate, FaultClear, FaultResetAllowed, FinalReason
<1>10. TypeOK'
  BY <1>1, <1>2, <1>3, <1>4, <1>6, <1>8, <1>9, Zenon
  DEF evaluate, commandVars, TypeOK
<1>11. Sequencing'
  BY <1>1, <1>5, DecisionByPhase, Zenon DEF Sequencing, evaluate
<1>. QED  BY <1>10, <1>11

LEMMA EvaluateGroup ==
    ASSUME TypeOK, NEW bus, NEW pdo, evaluate(bus, pdo)
    PROVE  GroupStopsTogether'
<1>. SUFFICES ASSUME NEW a \in Axes, NEW b \in Axes,
                     GroupOf[a] = GroupOf[b],
                     stopReason'[b] \/ decision'[b] = "fault_reset",
                     decision'[a] = "enable"
              PROVE  FALSE
  BY ConfigAssumption, Zenon DEF GroupStopsTogether
<1>1. /\ FinalReason(bus, pdo, b) \/ Decision(bus, pdo, b) = "fault_reset"
      /\ Decision(bus, pdo, a) = "enable"
  BY Zenon DEF evaluate
<1>2. ~Triggered(bus, pdo, a) /\ request[a] = "enable"
  BY <1>1, TriggeredStops, DecisionByPhase
<1>3. CASE a = b
  BY <1>1, <1>2, <1>3, ReasonTriggers, Zenon DEF evaluate
<1>4. CASE a # b
  <2>1. b \in Peers(a) /\ a \in Peers(b)
    BY <1>4 DEF Peers
  <2>2. ~OwnTrigger(bus, pdo, b) /\ ~OwnTrigger(bus, pdo, a)
    BY <1>2, <2>1 DEF Triggered, GroupStop
  <2>3. CASE FinalReason(bus, pdo, b)
    <3>1. GroupStop(bus, pdo, b)
      BY <2>2, <2>3 DEF FinalReason, OwnTrigger
    <3>2. PICK c \in Peers(b) :
            \/ OwnTrigger(bus, pdo, c)
            \/ ResetCandidate(bus, pdo, c)
      BY <3>1 DEF GroupStop
    <3>3. ~ResetCandidate(bus, pdo, a)
      BY <1>2 DEF ResetCandidate, ResetWanted
    <3>4. c # a
      BY <2>2, <3>2, <3>3
    <3>5. c \in Peers(a)
      BY <3>4 DEF Peers
    <3>. QED  BY <1>2, <3>2, <3>3, <3>5 DEF Triggered, GroupStop
  <2>4. CASE Decision(bus, pdo, b) = "fault_reset"
    <3>1. FaultResetAllowed(bus, pdo, b)
      BY <2>4, DecisionByPhase, Zenon DEF Decision, StopPhase
    <3>2. ResetCandidate(bus, pdo, b)
      BY <3>1 DEF FaultResetAllowed, ResetCandidate, FinalReason
    <3>3. ~ResetCandidate(bus, pdo, a)
      BY <1>2 DEF ResetCandidate, ResetWanted
    <3>. QED  BY <1>2, <2>1, <3>2, <3>3 DEF Triggered, GroupStop
  <2>. QED  BY <1>1, <2>3, <2>4
<1>. QED  BY <1>3, <1>4

\* With a shutdown requested every axis has a reason to stop, so one that is
\* disabled stays disabled and is commanded to disable (:350, :408-419).
LEMMA EvaluateShutdown ==
    ASSUME TypeOK, NEW bus, NEW pdo, evaluate(bus, pdo)
    PROVE  /\ ShutdownMeansDisabled'
           /\ ShutdownMeansDisabled /\ shutdownComplete => shutdownComplete'
<1>1. ASSUME shutdownRequested
      PROVE  \A a \in Axes : FinalReason(bus, pdo, a)
  BY <1>1 DEF FinalReason, OwnReason
<1>2. ShutdownMeansDisabled'
  <2>. SUFFICES ASSUME shutdownComplete'
                PROVE  /\ shutdownRequested'
                       /\ \A a \in Axes : phase'[a] = "disabled"
                                         /\ decision'[a] = "disable"
    BY DEF ShutdownMeansDisabled
  <2>1. /\ shutdownRequested /\ shutdownRequested'
        /\ \A a \in Axes : Decision(bus, pdo, a) = "disable"
    BY Zenon DEF evaluate
  <2>2. \A a \in Axes : NextPhase(bus, pdo, a) = "disabled"
    BY <1>1, <2>1, ReasonDecision
  <2>. QED  BY <2>1, <2>2, Zenon DEF evaluate
<1>3. ASSUME ShutdownMeansDisabled, shutdownComplete
      PROVE  shutdownComplete'
  <2>1. shutdownRequested /\ \A a \in Axes : phase[a] = "disabled"
    BY <1>3 DEF ShutdownMeansDisabled
  <2>2. \A a \in Axes : NextPhase(bus, pdo, a) = "disabled"
    BY <1>1, <2>1, ReasonTriggers, TriggeredStops
  <2>3. \A a \in Axes : Decision(bus, pdo, a) = "disable"
    BY <1>1, <2>1, <2>2, ReasonDecision
  <2>. QED  BY <2>1, <2>3, Zenon DEF evaluate
<1>. QED  BY <1>2, <1>3

LEMMA NextIInv == IInv /\ [Next]_vars => IInv'
<1>. SUFFICES ASSUME IInv, [Next]_vars PROVE IInv'
  OBVIOUS
<1>. USE ConfigAssumption, CapAssumption
<1>1. ASSUME NEW s \in Snapshots, RejectCommands(s)
      PROVE  IInv'
  BY <1>1, Zenon DEF IInv, TypeOK, Sequencing, GroupStopsTogether,
              ShutdownMeansDisabled, RejectCommands, axisVars
<1>2. ASSUME NEW s \in Snapshots, AcceptCommands(s)
      PROVE  IInv'
  <2>1. /\ s.seq \in Nat /\ s.age \in 0 .. AgeCap
        /\ s.request \in [Axes -> AxisRequest]
    BY <1>2, InputAssumption DEF Snapshot, AcceptCommands, Accepts,
                                 valid_snapshot
  <2>. QED
    BY <1>2, <2>1, Zenon DEF IInv, TypeOK, Sequencing, GroupStopsTogether,
                      ShutdownMeansDisabled, AcceptCommands, axisVars
<1>3. ASSUME NEW s \in Snapshots, DuplicateCommands(s)
      PROVE  IInv'
  BY <1>3, Zenon DEF IInv, TypeOK, Sequencing, GroupStopsTogether,
              ShutdownMeansDisabled, DuplicateCommands, vars, axisVars,
              commandVars
<1>4. CASE request_shutdown
  BY <1>4, Zenon DEF IInv, TypeOK, Sequencing, GroupStopsTogether,
              ShutdownMeansDisabled, request_shutdown, axisVars, commandVars
<1>5. ASSUME NEW bus \in BusStates, NEW pdo \in Pdos, evaluate(bus, pdo)
      PROVE  IInv'
  <2>1. bus \in SafetyBusState /\ pdo \in [Axes -> PdoView] /\ TypeOK
    BY InputAssumption DEF IInv
  <2>. QED  BY <1>5, <2>1, EvaluateTypeOK, EvaluateGroup, EvaluateShutdown, Zenon
            DEF IInv
<1>6. CASE Tick
  <2>1. \A n \in 0 .. AgeCap : Older(n) \in 0 .. AgeCap
    BY DEF Older
  <2>. QED
    BY <1>6, <2>1, Zenon DEF IInv, TypeOK, Sequencing, GroupStopsTogether,
                      ShutdownMeansDisabled, Tick, axisVars, commandVars
<1>7. CASE UNCHANGED vars
  BY <1>7, Zenon DEF IInv, TypeOK, Sequencing, GroupStopsTogether,
              ShutdownMeansDisabled, vars, axisVars, commandVars
<1>. QED  BY <1>1, <1>2, <1>3, <1>4, <1>5, <1>6, <1>7, Zenon DEF Next, Evaluate

LEMMA Invariance == Spec => []IInv
BY InitIInv, NextIInv, PTL DEF Spec

-----------------------------------------------------------------------------
(* Theorems *)

\* Type correctness, with the limits of SafetyOptions on every counter.
THEOREM TypeCorrect == Spec => []TypeOK
<1>. IInv => TypeOK  BY DEF IInv
<1>. QED  BY Invariance, PTL

\* Safety groups stop together, however many axes and groups there are.
THEOREM GroupSafety == Spec => []GroupStopsTogether
<1>. IInv => GroupStopsTogether  BY DEF IInv
<1>. QED  BY Invariance, PTL

\* A reported shutdown means that every axis is disabled.
THEOREM ShutdownSafety == Spec => []ShutdownMeansDisabled
<1>. IInv => ShutdownMeansDisabled  BY DEF IInv
<1>. QED  BY Invariance, PTL

\* A reported shutdown is never taken back.
THEOREM ShutdownFinality == Spec => ShutdownIsFinal
<1>1. IInv /\ [Next]_vars => [shutdownComplete => shutdownComplete']_vars
  <2>. SUFFICES ASSUME IInv, Next, shutdownComplete
                PROVE  shutdownComplete'
    OBVIOUS
  <2>1. ASSUME NEW bus \in BusStates, NEW pdo \in Pdos, evaluate(bus, pdo)
        PROVE  shutdownComplete'
    BY <2>1, EvaluateShutdown DEF IInv
  <2>. QED
    BY <2>1, Zenon DEF Next, Evaluate, RejectCommands, AcceptCommands,
                DuplicateCommands, request_shutdown, Tick, vars
<1>. QED  BY <1>1, Invariance, PTL DEF Spec, ShutdownIsFinal

\* A safety stop of an enabled axis begins with a quick stop.
THEOREM QuickStopFirst == Spec => SafetyStopStartsWithQuickStop
<1>. DEFINE Step == \A a \in Axes :
                      decision[a] = "enable" /\ decision'[a] = "disable"
                         => ~stopReason'[a]
<1>1. IInv /\ [Next]_vars => [Step]_vars
  <2>. SUFFICES ASSUME IInv, Next, NEW a \in Axes, decision[a] = "enable",
                       decision'[a] = "disable"
                PROVE  ~stopReason'[a]
    OBVIOUS
  <2>1. ASSUME NEW bus \in BusStates, NEW pdo \in Pdos, evaluate(bus, pdo)
        PROVE  ~stopReason'[a]
    <3>1. phase[a] = "running" /\ TypeOK
      BY DEF IInv, Sequencing
    <3>2. Decision(bus, pdo, a) = "disable"
      BY <2>1, Zenon DEF evaluate
    <3>3. ~FinalReason(bus, pdo, a)
      BY <3>1, <3>2, ReasonDecision
    <3>. QED  BY <2>1, <3>3, Zenon DEF evaluate
  <2>. QED
    BY <2>1, Zenon DEF Next, Evaluate, RejectCommands, AcceptCommands,
                DuplicateCommands, request_shutdown, Tick, vars, axisVars
<1>. QED  BY <1>1, Invariance, PTL DEF Spec, SafetyStopStartsWithQuickStop

-----------------------------------------------------------------------------
(* Supervisor and drives. *)

\* The supervisor's record of its reset output is the latch of the drive's
\* state machine, and its edge counter is the number of pulses sent; outside
\* an episode both are cleared.
ResetLink ==
    \A a \in Axes :
        /\ latched[a] = resetOutput[a]
        /\ edges[a] = pulses[a]
        /\ ~episode[a] => pulses[a] = 0 /\ ~resetOutput[a]

\* A running axis holds a command newer than any it was stopped under.
RecoveryLink ==
    /\ ~hasCommand => lastSeq = 0
    /\ \A a \in Axes :
        /\ burntSeq[a] <= stoppedSeq[a]
        /\ phase[a] = "running" => lastSeq > burntSeq[a]

DriveIInv == IInv /\ DriveTypeOK /\ ResetLink /\ RecoveryLink

-----------------------------------------------------------------------------
\* evaluate decides fault_reset exactly when a reset is allowed (:421-428).
LEMMA ResetDecision ==
    ASSUME TypeOK, NEW bus, NEW pdo, NEW a \in Axes
    PROVE  Decision(bus, pdo, a) = "fault_reset"
              <=> FaultResetAllowed(bus, pdo, a)
BY DecisionByPhase, Zenon DEF Decision, StopPhase, TypeOK, AxisRequest

\* The control word is one of the six the state machine sends.
LEMMA WordType ==
    ASSUME NEW st, NEW req, NEW latch \in BOOLEAN
    PROVE  /\ UpdateWord(st, req, latch) \in ControlWord
           /\ UpdateWord(st, req, latch) = "0080"
                 <=> req = "fault_reset" /\ ~latch /\ st = "fault"
BY DEF UpdateWord, ControlWord

\* A cycle keeps the latch, the output record and the two counters in step.
LEMMA CycleResetLink ==
    ASSUME DriveIInv, NEW bus \in SafetyBusState,
           NEW pdo \in [Axes -> PdoView], NEW refused,
           evaluate(bus, pdo), AxisCycle(bus, pdo, refused)
    PROVE  ResetLink' /\ pulses' \in [Axes -> Nat]
                      /\ latched' \in [Axes -> BOOLEAN]
<1>. DEFINE act(a) == AxisAction(decision'[a], a \in refused)
            out(a) == UpdateWord(pdo[a].drive, act(a), latched[a])
<1>1. /\ latched' = [a \in Axes |-> UpdateLatch(act(a))]
      /\ pulses' = [a \in Axes |->
                      IF FaultClear(bus, pdo, a) THEN 0
                      ELSE IF out(a) = "0080" THEN pulses[a] + 1
                      ELSE pulses[a]]
  BY Zenon DEF AxisCycle
<1>2. TypeOK /\ pulses \in [Axes -> Nat] /\ latched \in [Axes -> BOOLEAN]
  BY DEF DriveIInv, DriveTypeOK
<1>3. ASSUME NEW a \in Axes
      PROVE  act(a) = "fault_reset" <=> FaultResetAllowed(bus, pdo, a)
  BY <1>2, ResetDecision, Zenon DEF AxisAction, evaluate
<1>4. ASSUME NEW a \in Axes
      PROVE  out(a) = "0080" <=> /\ FaultResetAllowed(bus, pdo, a)
                                 /\ ~latched[a]
  <2>1. latched[a] \in BOOLEAN
    BY <1>2
  <2>2. FaultResetAllowed(bus, pdo, a) => pdo[a].drive = "fault"
    BY DEF FaultResetAllowed, ResetWanted
  <2>. QED  BY <1>3, <2>1, <2>2, WordType
<1>5. latched' \in [Axes -> BOOLEAN] /\ pulses' \in [Axes -> Nat]
  BY <1>1, <1>2 DEF UpdateLatch
<1>6. ASSUME NEW a \in Axes
      PROVE  latched'[a] = resetOutput'[a]
  <2>1. latched'[a] = (act(a) = "fault_reset")
    BY <1>1, Zenon DEF UpdateLatch
  <2>2. resetOutput'[a] = FaultResetAllowed(bus, pdo, a)
    BY Zenon DEF evaluate
  <2>3. FaultResetAllowed(bus, pdo, a) \in BOOLEAN
    BY DEF FaultResetAllowed
  <2>. QED  BY <1>3, <2>1, <2>2, <2>3, Zenon
<1>7. ASSUME NEW a \in Axes
      PROVE  edges'[a] = pulses'[a]
  <2>1. CASE FaultClear(bus, pdo, a)
    BY <1>1, <2>1, Zenon DEF evaluate, FaultClear, DriveFault, FaultResetAllowed,
                      ResetWanted, EpisodeEdges, EpisodeRestarts
  <2>2. CASE ~FaultClear(bus, pdo, a)
    <3>1. /\ EpisodeEdges(bus, pdo, a) = pulses[a]
          /\ EpisodeOutput(bus, pdo, a) = latched[a]
      <4>. /\ latched[a] = resetOutput[a]
           /\ edges[a] = pulses[a]
           /\ ~episode[a] => pulses[a] = 0 /\ ~resetOutput[a]
           /\ resetOutput[a] \in BOOLEAN
        BY <1>2, Zenon DEF DriveIInv, ResetLink, TypeOK
      <4>. QED  BY <2>2, Zenon DEF EpisodeEdges, EpisodeOutput, EpisodeRestarts
    <3>2. FaultResetAllowed(bus, pdo, a) /\ ResetEdge(bus, pdo, a)
            <=> out(a) = "0080"
      BY <1>4, <3>1, Zenon DEF ResetEdge, FaultResetAllowed
    <3>. QED  BY <1>1, <2>2, <3>1, <3>2, Zenon DEF evaluate
  <2>. QED  BY <2>1, <2>2
<1>8. ASSUME NEW a \in Axes, ~episode'[a]
      PROVE  pulses'[a] = 0 /\ ~resetOutput'[a]
  <2>1. FaultClear(bus, pdo, a)
    BY <1>8, Zenon DEF evaluate
  <2>. QED  BY <1>1, <2>1, Zenon DEF evaluate, FaultClear, DriveFault,
                              FaultResetAllowed, ResetWanted
<1>. QED  BY <1>5, <1>6, <1>7, <1>8, Zenon DEF ResetLink

\* A cycle enables again only what a newer command released.
LEMMA CycleRecoveryLink ==
    ASSUME DriveIInv, NEW bus, NEW pdo, evaluate(bus, pdo), RecordStop
    PROVE  RecoveryLink' /\ burntSeq' \in [Axes -> Int]
<1>1. /\ TypeOK /\ Sequencing /\ RecoveryLink /\ burntSeq \in [Axes -> Int]
  BY DEF DriveIInv, DriveTypeOK, IInv
<1>2. burntSeq' \in [Axes -> Int]
  BY <1>1 DEF RecordStop, TypeOK
<1>3. lastSeq' = lastSeq /\ hasCommand' = hasCommand
  BY Zenon DEF evaluate, commandVars
<1>4. ASSUME NEW a \in Axes
      PROVE  /\ burntSeq'[a] <= stoppedSeq'[a]
             /\ phase'[a] = "running" => lastSeq' > burntSeq'[a]
  <2>1. /\ burntSeq[a] \in Int /\ stoppedSeq[a] \in Nat /\ lastSeq \in Nat
        /\ burntSeq[a] <= stoppedSeq[a]
        /\ phase[a] = "running" => lastSeq > burntSeq[a]
        /\ phase[a] \in StopPhase
        /\ decision[a] = "enable" => phase[a] = "running"
    BY <1>1, Zenon DEF TypeOK, RecoveryLink, Sequencing
  <2>2. CASE decision[a] = "enable" /\ stopReason'[a]
    <3>1. FinalReason(bus, pdo, a)
      BY <2>2, Zenon DEF evaluate
    <3>2. Triggered(bus, pdo, a) /\ phase[a] = "running"
      BY <2>1, <2>2, <3>1, ReasonTriggers
    <3>3. NextPhase(bus, pdo, a) # "running"
      BY <1>1, <3>2, TriggeredStops
    <3>4. burntSeq'[a] = lastSeq /\ stoppedSeq'[a] = lastSeq
      BY <2>2, <3>2, Zenon DEF RecordStop, evaluate, EntersQuickStop
    <3>5. phase'[a] # "running"
      BY <3>3, Zenon DEF evaluate
    <3>. QED  BY <2>1, <3>4, <3>5
  <2>3. CASE ~(decision[a] = "enable" /\ stopReason'[a])
    <3>1. burntSeq'[a] = burntSeq[a]
      BY <2>3 DEF RecordStop
    <3>2. CASE phase[a] = "running"
      BY <1>3, <2>1, <3>1, <3>2 DEF evaluate
    <3>3. CASE phase[a] # "running"
      <4>1. stoppedSeq'[a] = stoppedSeq[a]
        BY <3>3, Zenon DEF evaluate, EntersQuickStop
      <4>2. phase'[a] = "running" => lastSeq > stoppedSeq[a]
        BY <3>3, Zenon DEF evaluate, NextPhase, LatchedPhase, Recovers,
                    EntersQuickStop
      <4>. QED  BY <1>3, <2>1, <3>1, <4>1, <4>2
    <3>. QED  BY <3>2, <3>3, Zenon
  <2>. QED  BY <2>2, <2>3, Zenon
<1>. QED  BY <1>1, <1>2, <1>3, <1>4, Zenon DEF RecoveryLink

-----------------------------------------------------------------------------
LEMMA DriveInitIInv == DriveInit => DriveIInv
<1>. SUFFICES ASSUME DriveInit PROVE DriveIInv
  OBVIOUS
<1>1. IInv
  BY InitIInv DEF DriveInit
<1>2. DriveTypeOK
  <2>1. TypeOK
    BY <1>1 DEF IInv
  <2>2. latched \in [Axes -> BOOLEAN]
    BY DEF DriveInit
  <2>. QED  BY <2>1, <2>2 DEF DriveTypeOK, DriveInit, DriveState, ControlWord
<1>3. ResetLink
  BY Zenon DEF DriveInit, Init, ResetLink
<1>4. RecoveryLink
  BY DEF DriveInit, Init, RecoveryLink
<1>. QED  BY <1>1, <1>2, <1>3, <1>4 DEF DriveIInv

\* The supervisor's own calls between cycles leave the drive side alone.
LEMMA IngressIInv == DriveIInv /\ Ingress => DriveIInv'
<1>. SUFFICES ASSUME DriveIInv, Ingress PROVE DriveIInv'
  OBVIOUS
<1>1. [Next]_vars
  BY DEF Ingress, Next
<1>2. IInv'
  BY <1>1, NextIInv DEF DriveIInv
<1>3. DriveTypeOK'
  BY <1>2, Zenon DEF DriveIInv, DriveTypeOK, Ingress, driveVars, IInv
<1>4. UNCHANGED <<resetOutput, edges, episode, phase, stoppedSeq>>
  BY Zenon DEF Ingress, RejectCommands, AcceptCommands, request_shutdown, Tick,
         axisVars
<1>5. ResetLink'
  BY <1>4, Zenon DEF DriveIInv, ResetLink, Ingress, driveVars
<1>6. lastSeq' >= lastSeq /\ (~hasCommand' => ~hasCommand /\ lastSeq' = lastSeq)
  <2>1. ASSUME NEW s \in Snapshots, AcceptCommands(s)
        PROVE  lastSeq' >= lastSeq /\ hasCommand'
    BY <2>1, InputAssumption DEF AcceptCommands, Accepts, Regresses,
       SameSequence, Snapshot, DriveIInv, RecoveryLink, IInv, TypeOK
  <2>. QED
    BY <2>1 DEF Ingress, RejectCommands, request_shutdown, Tick, commandVars,
                DriveIInv, IInv, TypeOK
<1>7. RecoveryLink'
  <2>1. lastSeq \in Nat /\ lastSeq' \in Nat /\ burntSeq \in [Axes -> Int]
    BY <1>2, Zenon DEF DriveIInv, IInv, TypeOK, DriveTypeOK
  <2>. QED  BY <1>4, <1>6, <2>1 DEF DriveIInv, RecoveryLink, Ingress, driveVars
<1>. QED  BY <1>2, <1>3, <1>5, <1>7 DEF DriveIInv

LEMMA CycleIInv == DriveIInv /\ Cycle => DriveIInv'
<1>. SUFFICES ASSUME DriveIInv, Cycle PROVE DriveIInv'
  OBVIOUS
<1>1. PICK bus \in BusStates, pdo \in Pdos, refused \in Refusals :
        /\ image' = IF bus.linkUp THEN drive ELSE image
        /\ \A a \in Axes : pdo[a].drive = image'[a]
        /\ evaluate(bus, pdo)
        /\ AxisCycle(bus, pdo, refused)
        /\ RecordStop
        /\ UNCHANGED drive
  BY Zenon DEF Cycle
<1>2. bus \in SafetyBusState /\ pdo \in [Axes -> PdoView]
  BY InputAssumption
<1>3. IInv'
  <2>1. Next
    BY <1>1 DEF Next, Evaluate
  <2>. QED  BY <2>1, NextIInv DEF DriveIInv
<1>4. /\ ResetLink' /\ pulses' \in [Axes -> Nat]
      /\ latched' \in [Axes -> BOOLEAN]
  BY <1>1, <1>2, CycleResetLink, Zenon
<1>5. RecoveryLink' /\ burntSeq' \in [Axes -> Int]
  BY <1>1, CycleRecoveryLink
<1>6. word' \in [Axes -> ControlWord]
  BY <1>1, WordType, Zenon DEF AxisCycle, DriveIInv, DriveTypeOK
<1>7. DriveTypeOK'
  BY <1>1, <1>3, <1>4, <1>5, <1>6, Zenon DEF DriveTypeOK, DriveIInv, IInv
<1>. QED  BY <1>3, <1>4, <1>5, <1>7 DEF DriveIInv

\* What the drive does on its own touches no state of the daemon.
LEMMA DriveStepIInv ==
    ASSUME DriveIInv, NEW a \in Axes,
           DriveObeys(a) \/ DriveComesToRest(a) \/ DriveFaults(a)
    PROVE  DriveIInv'
<1>1. UNCHANGED <<vars, image, word, latched, pulses, burntSeq>>
  BY Zenon DEF DriveObeys, DriveComesToRest, DriveFaults
<1>2. IInv'
  BY <1>1, NextIInv DEF DriveIInv
<1>3. DriveTarget(drive[a], word[a]) \in DriveState
  BY Zenon DEF DriveTarget, DriveState, DriveIInv, DriveTypeOK
<1>4. drive' \in [Axes -> DriveState]
  BY <1>3, Zenon DEF DriveObeys, DriveComesToRest, DriveFaults, DriveState,
              DriveIInv, DriveTypeOK
<1>5. DriveTypeOK'
  BY <1>1, <1>2, <1>4, Zenon DEF DriveIInv, DriveTypeOK, IInv
<1>6. ResetLink' /\ RecoveryLink'
  BY <1>1, Zenon DEF DriveIInv, ResetLink, RecoveryLink, vars, commandVars, axisVars
<1>. QED  BY <1>2, <1>5, <1>6 DEF DriveIInv

LEMMA DriveNextIInv == DriveIInv /\ [DriveNext]_allVars => DriveIInv'
<1>. SUFFICES ASSUME DriveIInv, [DriveNext]_allVars PROVE DriveIInv'
  OBVIOUS
<1>1. CASE UNCHANGED allVars
  <2>1. IInv'
    BY <1>1, NextIInv DEF DriveIInv, allVars
  <2>. QED
    BY <1>1, <2>1, Zenon DEF DriveIInv, DriveTypeOK, IInv, ResetLink, RecoveryLink,
                      allVars, driveVars, vars, commandVars, axisVars
<1>. QED  BY <1>1, IngressIInv, CycleIInv, DriveStepIInv
          DEF DriveNext, DriveStep

LEMMA DriveInvariance == DriveSpec => []DriveIInv
BY DriveInitIInv, DriveNextIInv, PTL DEF DriveSpec

-----------------------------------------------------------------------------
(* Theorems *)

\* Every charged reset edge is a pulse on the wire and conversely.
THEOREM ResetAccounting == DriveSpec => []ResetEdgesArePulses
<1>. DriveIInv => ResetEdgesArePulses
  BY DEF DriveIInv, ResetLink, ResetEdgesArePulses
<1>. QED  BY DriveInvariance, PTL

\* A faulted drive is reset at most maximum_fault_resets times per episode.
THEOREM ResetBudget == DriveSpec => []ResetPulsesBounded
<1>. DriveIInv => ResetPulsesBounded
  BY ConfigAssumption DEF DriveIInv, ResetLink, ResetPulsesBounded, IInv, TypeOK
<1>. QED  BY DriveInvariance, PTL

\* An axis is not re-enabled by the command it was stopped under.
THEOREM Recovery == DriveSpec => []RecoveryNeedsNewerCommand
<1>. DriveIInv => RecoveryNeedsNewerCommand
  BY DEF DriveIInv, RecoveryLink, RecoveryNeedsNewerCommand, IInv, Sequencing
<1>. QED  BY DriveInvariance, PTL

\* Power-up words need a valid, fresh command and no shutdown: only an enable
\* decision produces one, and an enable decision means no reason was found.
THEOREM PowerUp == DriveSpec => PowerNeedsFreshCommand
<1>. DEFINE Fresh(a) == /\ hasCommand /\ commandsValid
                        /\ lastAge <= CommandTimeout[a]
                        /\ ~shutdownRequested
            Step == \A a \in Axes :
                      /\ word'[a] # word[a]
                      /\ word'[a] \in {"0006", "0007", "000F"}
                      => Fresh(a)
<1>1. DriveIInv /\ [DriveNext]_allVars => [Step]_allVars
  <2>. SUFFICES ASSUME DriveIInv, DriveNext, NEW a \in Axes,
                       word'[a] # word[a],
                       word'[a] \in {"0006", "0007", "000F"}
                PROVE  Fresh(a)
    OBVIOUS
  <2>1. Cycle
    BY Zenon DEF DriveNext, Ingress, DriveStep, DriveObeys, DriveComesToRest,
           DriveFaults, driveVars
  <2>2. PICK bus \in BusStates, pdo \in Pdos, refused \in Refusals :
          evaluate(bus, pdo) /\ AxisCycle(bus, pdo, refused)
    BY <2>1 DEF Cycle
  <2>. DEFINE act == AxisAction(decision'[a], a \in refused)
  <2>3. word'[a] = UpdateWord(pdo[a].drive, act, latched[a])
    BY <2>2, Zenon DEF AxisCycle
  <2>4. act = "enable"
    BY <2>3, Zenon DEF UpdateWord
  <2>5. Decision(bus, pdo, a) = "enable"
    BY <2>2, <2>4, Zenon DEF AxisAction, evaluate
  <2>6. TypeOK
    BY DEF DriveIInv, IInv
  <2>7. ~Triggered(bus, pdo, a)
    BY <2>5, <2>6, TriggeredStops
  <2>8. ~OwnReason(bus, pdo, a)
    BY <2>7 DEF Triggered, OwnTrigger
  <2>. QED  BY <2>6, <2>8, ConfigAssumption, SMTT(30)
            DEF OwnReason, CommandExpired, TypeOK
<1>. QED  BY <1>1, DriveInvariance, PTL DEF DriveSpec, PowerNeedsFreshCommand
=============================================================================
