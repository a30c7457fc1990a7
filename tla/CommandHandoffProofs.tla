------------------------ MODULE CommandHandoffProofs ------------------------
(***************************************************************************)
(* The safety of the command handoff for any number of stagers, any set of *)
(* snapshots and any number of publications.  The two supervisors agree    *)
(* because the register always holds what the ingress accepted last, and   *)
(* the owner's supervisor is never ahead of the ingress.                   *)
(***************************************************************************)
EXTENDS CommandHandoff, TLAPS

\* A snapshot a supervisor may hold.
Held == Snapshots \cup {None}
StagerPcs == {"idle", "gate", "locked", "accepted", "clear", "report"}

Types ==
    /\ publication \in Nat
    /\ ingressLast \in Held /\ safetyLast \in Held
    /\ stager \in [Stagers -> [pc : StagerPcs, snapshot : Held]]

\* What is in the register: the last snapshot the ingress accepted, under a
\* number that was issued.
Register ==
    /\ handoff.publication \in 0..publication
    /\ handoff.snapshot = ingressLast
    /\ handoff.publication > 0 => ingressLast.wellFormed
    /\ ingressLast # None => handoff.publication > 0

\* The owner's supervisor has accepted nothing the ingress has not accepted,
\* and nothing newer than the register.
Behind ==
    \/ safetyLast \in {None, ingressLast}
    \/ ingressLast # None /\ safetyLast.seq < ingressLast.seq

IInv == Types /\ Register /\ Behind

-----------------------------------------------------------------------------
LEMMA HeldSeq ==
    ASSUME NEW s \in Held
    PROVE  s.seq \in Nat
  BY SnapshotAssumption DEF Held, Snapshot, None

\* accept_commands takes a snapshot only if it is well formed and newer.
LEMMA AcceptedIsNewer ==
    ASSUME NEW s \in Held, NEW last \in Held, Acceptance(s, last) = "accepted"
    PROVE  s.wellFormed /\ (last = None \/ s.seq > last.seq)
  BY DEF Acceptance

\* It rejects no well-formed snapshot that is newer, or the last one again.
LEMMA NewerIsNotRejected ==
    ASSUME NEW s \in Held, NEW last \in Held, s.wellFormed,
           last \in {None, s} \/ last.seq < s.seq
    PROVE  Acceptance(s, last) # "rejected"
  BY HeldSeq DEF Acceptance

\* What read returns is the register's content or nothing.
LEMMA ReadIsHandoff ==
    ASSUME NEW event \in ReadHandoff
    PROVE  event = handoff \/ event = NoEvent
  BY DEF ReadHandoff

\* An event the owner may consume is the one in the register.
LEMMA ConsumableIsHandoff ==
    ASSUME Register, Types, acknowledged \in Nat,
           NEW event \in ReadHandoff, Consumable(event)
    PROVE  event = handoff /\ handoff.publication > 0
  BY ReadIsHandoff DEF Consumable, NoEvent, Register, Types

-----------------------------------------------------------------------------
\* The owner's numbers; kept apart from the register's.
OwnerNumbers ==
    /\ rejectedPublication \in Nat /\ loaded \in Nat /\ acknowledged \in Nat
    /\ consumed \in Nat

LEMMA OwnerNumbersStep ==
    ASSUME Types, Register, OwnerNumbers, [Next]_vars
    PROVE  OwnerNumbers'
  <1>1. ASSUME NEW t \in Stagers, Publish(t)
        PROVE  OwnerNumbers'
    BY <1>1 DEF Publish, StickyRejection, Types, OwnerNumbers, ownerVars
  <1>2. CASE BeginCycle \/ EnterProcess
    BY <1>2 DEF BeginCycle, EnterProcess, OwnerNumbers, ingressVars
  <1>3. CASE consume_staged_commands
    <2>1. rejectedPublication' = rejectedPublication /\ loaded' = loaded
      BY <1>3 DEF consume_staged_commands, ingressVars
    <2>2. PICK event \in ReadHandoff :
             AcknowledgeRejection \/ ConsumeCommand(event) \/ NothingToConsume(event)
      BY <1>3 DEF consume_staged_commands
    <2>3. CASE AcknowledgeRejection
      BY <2>1, <2>3 DEF AcknowledgeRejection, OwnerNumbers
    <2>4. CASE ConsumeCommand(event)
      BY <2>1, <2>4, ReadIsHandoff DEF ConsumeCommand, OwnerNumbers, Register, Types, NoEvent
    <2>5. CASE NothingToConsume(event)
      BY <2>1, <2>5 DEF NothingToConsume, OwnerNumbers
    <2> QED BY <2>2, <2>3, <2>4, <2>5
  <1>4. CASE request_stop \/ EvaluateCycle \/ UNCHANGED vars
    BY <1>4 DEF request_stop, EvaluateCycle, vars, ingressVars, ownerVars, OwnerNumbers
  <1>5. ASSUME NEW t \in Stagers,
               (\E s \in Snapshots : stage_commands(t, s)) \/ TakeGate(t) \/ ClearGate(t) \/ Report(t)
        PROVE  OwnerNumbers'
    BY <1>5 DEF stage_commands, TakeGate, ClearGate, Report, ownerVars, OwnerNumbers
  <1> QED BY <1>1, <1>2, <1>3, <1>4, <1>5 DEF Next, Stager, Owner

LEMMA HandoffStep ==
    ASSUME IInv, OwnerNumbers, [Next]_vars
    PROVE  IInv'
  <1> USE DEF IInv
  <1>1. ASSUME NEW t \in Stagers, NEW s \in Snapshots, stage_commands(t, s)
        PROVE  IInv'
    BY <1>1 DEF stage_commands, Types, StagerPcs, Held, Register, Behind, ownerVars
  <1>2. ASSUME NEW t \in Stagers, TakeGate(t) \/ ClearGate(t) \/ Report(t)
        PROVE  IInv'
    <2>1. stager' \in [Stagers -> [pc : StagerPcs, snapshot : Held]]
      BY <1>2 DEF TakeGate, ClearGate, Report, Types, StagerPcs, Held
    <2>2. UNCHANGED <<publication, handoff, ingressLast, safetyLast>>
      BY <1>2 DEF TakeGate, ClearGate, Report, ownerVars
    <2> QED BY <2>1, <2>2 DEF Types, Register, Behind
  <1>3. ASSUME NEW t \in Stagers, Publish(t)
        PROVE  IInv'
    <2> DEFINE s == stager[t].snapshot
               result == Acceptance(s, ingressLast)
    <2>1. s \in Held /\ ingressLast \in Held /\ publication \in Nat
      BY DEF Types
    <2>2. stager' \in [Stagers -> [pc : StagerPcs, snapshot : Held]]
      BY <1>3 DEF Publish, Types, StagerPcs
    <2>3. safetyLast' = safetyLast
      BY <1>3 DEF Publish, ownerVars
    <2>4. CASE result = "accepted"
      <3>1. /\ publication' = publication + 1 /\ ingressLast' = s
            /\ handoff' = [publication |-> publication + 1, snapshot |-> s]
        BY <1>3, <2>4 DEF Publish, Numbered, HandedOver
      <3>2. s.wellFormed /\ (ingressLast = None \/ s.seq > ingressLast.seq)
        BY <2>1, <2>4, AcceptedIsNewer
      <3>3. s # None
        BY <3>2 DEF None
      <3>4. Types' /\ Register'
        BY <2>1, <2>2, <2>3, <3>1, <3>2 DEF Types, Register
      <3>5. Behind'
        <4> HIDE DEF s
        <4> QED BY <2>1, <2>3, <3>1, <3>2, <3>3, HeldSeq DEF Behind, Types
      <3> QED BY <3>4, <3>5
    <2>5. CASE result # "accepted"
      <3>1. /\ publication' \in {publication, publication + 1}
            /\ UNCHANGED <<ingressLast, handoff>>
        BY <1>3, <2>5 DEF Publish, HandedOver
      <3> QED BY <2>1, <2>2, <2>3, <3>1 DEF Types, Register, Behind
    <2> QED BY <2>4, <2>5
  <1>4. CASE consume_staged_commands
    <2>1. UNCHANGED <<publication, handoff, ingressLast, stager>>
      BY <1>4 DEF consume_staged_commands, ingressVars
    <2>2. safetyLast' = safetyLast \/ safetyLast' = ingressLast
      <3>1. PICK event \in ReadHandoff :
               AcknowledgeRejection \/ ConsumeCommand(event) \/ NothingToConsume(event)
        BY <1>4 DEF consume_staged_commands
      <3>2. CASE ConsumeCommand(event)
        <4>1. event = handoff
          BY <3>2, ConsumableIsHandoff DEF ConsumeCommand, OwnerNumbers
        <4> QED BY <3>2, <4>1 DEF ConsumeCommand, Register
      <3>3. CASE AcknowledgeRejection \/ NothingToConsume(event)
        BY <3>3 DEF AcknowledgeRejection, NothingToConsume
      <3> QED BY <3>1, <3>2, <3>3
    <2> QED BY <2>1, <2>2 DEF Types, Register, Behind
  <1>5. CASE request_stop \/ BeginCycle \/ EnterProcess \/ EvaluateCycle \/ UNCHANGED vars
    <2>1. UNCHANGED <<publication, handoff, ingressLast, stager, safetyLast>>
      BY <1>5 DEF request_stop, BeginCycle, EnterProcess, EvaluateCycle, vars, ingressVars,
         ownerVars
    <2> QED BY <2>1 DEF Types, Register, Behind
  <1> QED BY <1>1, <1>2, <1>3, <1>4, <1>5 DEF Next, Stager, Owner

LEMMA HandoffInvariant == Spec => [](IInv /\ OwnerNumbers)
  <1>1. Init => IInv /\ OwnerNumbers
    BY DEF Init, IInv, OwnerNumbers, Types, Register, Behind, NoEvent, Held, StagerPcs
  <1>2. (IInv /\ OwnerNumbers) /\ [Next]_vars => (IInv /\ OwnerNumbers)'
    BY HandoffStep, OwnerNumbersStep DEF IInv
  <1> QED BY <1>1, <1>2, PTL DEF Spec

-----------------------------------------------------------------------------
\* The supervisor behind the handoff never rejects a snapshot that the one
\* before it published, whichever publications the owner missed or, after an
\* acknowledged rejection, met again.
THEOREM SupervisorsAgree == Spec => []OwnerAgreesWithIngress
  <1>1. IInv /\ OwnerNumbers => OwnerAgreesWithIngress
    <2> SUFFICES ASSUME IInv, OwnerNumbers, NEW event \in ReadHandoff, Consumable(event)
                 PROVE  Acceptance(event.snapshot, safetyLast) # "rejected"
      BY DEF OwnerAgreesWithIngress
    <2>1. event = handoff /\ handoff.publication > 0
      BY ConsumableIsHandoff DEF IInv, OwnerNumbers
    <2>2. event.snapshot = ingressLast /\ ingressLast.wellFormed
      BY <2>1 DEF IInv, Register
    <2>3. ingressLast \in Held /\ safetyLast \in Held
      BY DEF IInv, Types
    <2> QED BY <2>2, <2>3, NewerIsNotRejected DEF IInv, Behind
  <1> QED BY <1>1, HandoffInvariant, PTL

\* The command set becomes valid only by a publication that was issued and is
\* newer than every rejection the owner has acknowledged.
THEOREM OldCommandsStayStale == Spec => NoStaleReplay
  <1>1. IInv /\ OwnerNumbers /\ [Next]_vars
          => [commandsValid' /\ ~commandsValid
                => consumed' > acknowledged' /\ consumed' <= publication]_vars
    <2> SUFFICES ASSUME IInv, OwnerNumbers, [Next]_vars, commandsValid', ~commandsValid
                 PROVE  consumed' > acknowledged' /\ consumed' <= publication
      OBVIOUS
    <2>1. consume_staged_commands
      BY DEF Next, Stager, Owner, stage_commands, TakeGate, Publish, ClearGate, Report,
         request_stop, BeginCycle, EnterProcess, EvaluateCycle, ownerVars, vars
    <2>2. PICK event \in ReadHandoff :
             AcknowledgeRejection \/ ConsumeCommand(event) \/ NothingToConsume(event)
      BY <2>1 DEF consume_staged_commands
    <2>3. ConsumeCommand(event)
      BY <2>2 DEF AcknowledgeRejection, NothingToConsume
    <2>4. consumed' = event.publication /\ acknowledged' = acknowledged /\ Consumable(event)
      BY <2>3 DEF ConsumeCommand
    <2>5. event = handoff
      BY <2>4, ConsumableIsHandoff DEF IInv, OwnerNumbers
    <2> QED BY <2>4, <2>5 DEF IInv, Register, Types, Consumable, OwnerNumbers
  <1> QED BY <1>1, HandoffInvariant, PTL DEF Spec, NoStaleReplay

-----------------------------------------------------------------------------
(* Numbers and the gate *)

\* The owner's numbers are numbers the ingress has issued.
Issued ==
    /\ rejectedPublication <= publication /\ loaded <= publication
    /\ acknowledged <= publication /\ consumed <= publication

Inside == {"locked", "accepted", "clear"}

\* Between TakeGate and ClearGate a thread has the gate for itself.
OneInside ==
    \A t, u \in Stagers : stager[t].pc \in Inside /\ stager[u].pc \in Inside => t = u

GateTaken == (\E t \in Stagers : stager[t].pc \in Inside) => gate = TRUE

Switches ==
    /\ gate \in BOOLEAN /\ accepting \in BOOLEAN /\ stopRequested \in BOOLEAN
    /\ commandsValid \in BOOLEAN /\ owed \in BOOLEAN

Rest ==
    /\ handoff \in [publication : Nat, snapshot : Snapshot]
    /\ reported \in Nat
    /\ ownerPc \in {"idle", "refresh", "between", "process", "evaluate"}

LEMMA HeldIsSnapshot == Held \subseteq Snapshot
  <1>1. None \in Snapshot
    BY DEF Snapshot, None
  <1> QED BY <1>1, SnapshotAssumption DEF Held

LEMMA IssuedStep ==
    ASSUME IInv, OwnerNumbers, Issued, [Next]_vars
    PROVE  Issued'
  <1>0. publication \in Nat /\ handoff.publication \in 0..publication
    BY DEF IInv, Types, Register
  <1>1. ASSUME NEW t \in Stagers, Publish(t)
        PROVE  Issued'
    <2> DEFINE result == Acceptance(stager[t].snapshot, ingressLast)
    <2>1. /\ publication' = IF result # "duplicate" THEN publication + 1 ELSE publication
          /\ rejectedPublication' = IF result = "rejected" THEN publication + 1
                                    ELSE rejectedPublication
          /\ UNCHANGED <<loaded, acknowledged, consumed>>
      BY <1>1 DEF Publish, Numbered, StickyRejection, ownerVars
    <2> HIDE DEF result
    <2> QED BY <1>0, <2>1 DEF Issued, OwnerNumbers
  <1>2. CASE BeginCycle \/ EnterProcess
    BY <1>2 DEF BeginCycle, EnterProcess, Issued, ingressVars
  <1>3. CASE consume_staged_commands
    <2>1. UNCHANGED <<rejectedPublication, publication, loaded>>
      BY <1>3 DEF consume_staged_commands, ingressVars
    <2>2. PICK event \in ReadHandoff :
             AcknowledgeRejection \/ ConsumeCommand(event) \/ NothingToConsume(event)
      BY <1>3 DEF consume_staged_commands
    <2>3. CASE AcknowledgeRejection
      BY <2>1, <2>3 DEF AcknowledgeRejection, OwnerNumbers, Issued
    <2>4. CASE ConsumeCommand(event)
      <3>1. event.publication <= publication
        BY <1>0, ReadIsHandoff DEF NoEvent
      <3> QED BY <2>1, <2>4, <3>1 DEF ConsumeCommand, Issued
    <2>5. CASE NothingToConsume(event)
      BY <2>1, <2>5 DEF NothingToConsume, Issued
    <2> QED BY <2>2, <2>3, <2>4, <2>5
  <1>4. CASE request_stop \/ EvaluateCycle \/ UNCHANGED vars
    BY <1>4 DEF request_stop, EvaluateCycle, vars, ingressVars, ownerVars, Issued
  <1>5. ASSUME NEW t \in Stagers,
               (\E s \in Snapshots : stage_commands(t, s)) \/ TakeGate(t) \/ ClearGate(t) \/ Report(t)
        PROVE  Issued'
    BY <1>5 DEF stage_commands, TakeGate, ClearGate, Report, ownerVars, Issued
  <1> QED BY <1>1, <1>2, <1>3, <1>4, <1>5 DEF Next, Stager, Owner

LEMMA GateStep ==
    ASSUME Types, OneInside, GateTaken, [Next]_vars
    PROVE  OneInside' /\ GateTaken'
  <1>0. stager \in [Stagers -> [pc : StagerPcs, snapshot : Held]]
    BY DEF Types
  <1>1. CASE UNCHANGED <<stager, gate>>
    BY <1>1 DEF OneInside, GateTaken
  <1>2. ASSUME NEW t \in Stagers, UNCHANGED gate, stager'[t].pc \in Inside => stager[t].pc \in Inside,
               \A u \in Stagers : u # t => stager'[u] = stager[u]
        PROVE  OneInside' /\ GateTaken'
    BY <1>2 DEF OneInside, GateTaken
  <1>3. ASSUME NEW t \in Stagers, NEW s \in Snapshots, stage_commands(t, s)
        PROVE  OneInside' /\ GateTaken'
    <2>1. /\ stager'[t].pc = "gate" /\ UNCHANGED gate
          /\ \A u \in Stagers : u # t => stager'[u] = stager[u]
      BY <1>0, <1>3 DEF stage_commands
    <2> QED BY <1>2, <2>1 DEF Inside
  <1>4. ASSUME NEW t \in Stagers, Publish(t)
        PROVE  OneInside' /\ GateTaken'
    <2>1. /\ stager[t].pc = "locked" /\ UNCHANGED gate
          /\ \A u \in Stagers : u # t => stager'[u] = stager[u]
      BY <1>0, <1>4 DEF Publish
    <2> QED BY <1>2, <2>1 DEF Inside
  <1>5. ASSUME NEW t \in Stagers, Report(t)
        PROVE  OneInside' /\ GateTaken'
    <2>1. /\ stager'[t].pc = "idle" /\ UNCHANGED gate
          /\ \A u \in Stagers : u # t => stager'[u] = stager[u]
      BY <1>0, <1>5 DEF Report
    <2> QED BY <1>2, <2>1 DEF Inside
  <1>6. ASSUME NEW t \in Stagers, TakeGate(t)
        PROVE  OneInside' /\ GateTaken'
    <2>1. ~gate
      BY <1>6 DEF TakeGate
    <2>2. \A u \in Stagers : stager[u].pc \notin Inside
      BY <2>1 DEF GateTaken
    <2>3. gate' = TRUE /\ \A u \in Stagers : u # t => stager'[u] = stager[u]
      BY <1>0, <1>6 DEF TakeGate
    <2> QED BY <2>2, <2>3 DEF OneInside, GateTaken
  <1>7. ASSUME NEW t \in Stagers, ClearGate(t)
        PROVE  OneInside' /\ GateTaken'
    <2>1. /\ stager[t].pc \in Inside /\ stager'[t].pc \in {"report", "idle"}
          /\ \A u \in Stagers : u # t => stager'[u] = stager[u]
      BY <1>0, <1>7 DEF ClearGate, Inside
    <2>2. \A u \in Stagers : u # t => stager[u].pc \notin Inside
      BY <2>1 DEF OneInside
    <2>3. \A u \in Stagers : stager'[u].pc \notin Inside
      BY <2>1, <2>2 DEF Inside
    <2> QED BY <2>3 DEF OneInside, GateTaken
  <1>8. CASE request_stop \/ Owner \/ UNCHANGED vars
    BY <1>1, <1>8 DEF request_stop, Owner, BeginCycle, consume_staged_commands, EnterProcess,
       EvaluateCycle, ingressVars, vars
  <1> QED BY <1>3, <1>4, <1>5, <1>6, <1>7, <1>8 DEF Next, Stager

LEMMA RestStep ==
    ASSUME IInv, Rest, [Next]_vars
    PROVE  Rest'
  <1>0. stager \in [Stagers -> [pc : StagerPcs, snapshot : Held]] /\ publication \in Nat
    BY DEF IInv, Types
  <1>1. ASSUME NEW t \in Stagers, Publish(t)
        PROVE  Rest'
    <2>1. stager[t].snapshot \in Snapshot
      BY <1>0, HeldIsSnapshot
    <2>2. /\ \/ UNCHANGED handoff
             \/ handoff' = [publication |-> publication + 1, snapshot |-> stager[t].snapshot]
          /\ UNCHANGED <<reported, ownerPc>>
      BY <1>1 DEF Publish
    <2> QED BY <1>0, <2>1, <2>2 DEF Rest
  <1>2. ASSUME NEW t \in Stagers, Report(t)
        PROVE  Rest'
    <2>1. stager[t].snapshot.seq \in Nat
      BY <1>0, HeldSeq
    <2> QED BY <1>2, <2>1 DEF Report, Rest
  <1>3. ASSUME NEW t \in Stagers,
               (\E s \in Snapshots : stage_commands(t, s)) \/ TakeGate(t) \/ ClearGate(t)
        PROVE  Rest'
    BY <1>3 DEF stage_commands, TakeGate, ClearGate, Rest
  <1>4. CASE request_stop \/ Owner \/ UNCHANGED vars
    BY <1>4 DEF request_stop, Owner, BeginCycle, consume_staged_commands, AfterConsume,
       EnterProcess, EvaluateCycle, ingressVars, vars, Rest
  <1> QED BY <1>1, <1>2, <1>3, <1>4 DEF Next, Stager

LEMMA SwitchesStep ==
    ASSUME Switches, [Next]_vars
    PROVE  Switches'
  <1>1. gate' \in {TRUE, FALSE, gate}
    BY DEF Next, Stager, Owner, stage_commands, TakeGate, Publish, ClearGate, Report,
       request_stop, BeginCycle, consume_staged_commands, EnterProcess, EvaluateCycle,
       ingressVars, vars
  <1>2. stopRequested' \in {TRUE, stopRequested}
    BY DEF Next, Stager, Owner, stage_commands, TakeGate, Publish, ClearGate, Report,
       request_stop, BeginCycle, consume_staged_commands, EnterProcess, EvaluateCycle, vars
  <1>3. accepting' = (accepting /\ ~stopRequested) \/ accepting' = FALSE \/ UNCHANGED accepting
    BY Zenon DEF Next, Stager, Owner, stage_commands, TakeGate, Publish, ClearGate, Report,
       request_stop, BeginCycle, consume_staged_commands, EnterProcess, EvaluateCycle, vars
  <1>4. commandsValid' \in {TRUE, FALSE, commandsValid} /\ owed' \in {TRUE, FALSE, owed}
    <2>1. CASE consume_staged_commands
      <3>1. PICK event \in ReadHandoff :
               AcknowledgeRejection \/ ConsumeCommand(event) \/ NothingToConsume(event)
        BY <2>1 DEF consume_staged_commands
      <3>2. CASE ConsumeCommand(event)
        <4>1. Acceptance(event.snapshot, safetyLast) \in {"accepted", "rejected", "duplicate"}
          BY DEF Acceptance
        <4> QED BY <3>2, <4>1 DEF ConsumeCommand
      <3> QED BY <3>1, <3>2 DEF AcknowledgeRejection, NothingToConsume
    <2>2. CASE ~consume_staged_commands
      BY <2>2 DEF Next, Stager, Owner, stage_commands, TakeGate, Publish, ClearGate, Report,
         request_stop, BeginCycle, EnterProcess, EvaluateCycle, ownerVars, vars
    <2> QED BY <2>1, <2>2
  <1>5. accepting' \in BOOLEAN
    <2>1. (accepting /\ ~stopRequested) \in BOOLEAN
      BY Zenon
    <2> QED BY <1>3, <2>1, Zenon DEF Switches
  <1> QED BY <1>1, <1>2, <1>4, <1>5 DEF Switches

LEMMA GateInvariant ==
    Spec => [](IInv /\ OwnerNumbers /\ Issued /\ OneInside /\ GateTaken /\ Rest /\ Switches)
  <1> DEFINE Inv == Issued /\ OneInside /\ GateTaken /\ Rest /\ Switches
  <1>1. Init => Inv
    <2> SUFFICES ASSUME Init PROVE Inv
      OBVIOUS
    <2>1. Issued /\ OneInside /\ GateTaken
      BY DEF Init, Issued, OneInside, GateTaken, Inside
    <2>2. None \in Snapshot
      BY HeldIsSnapshot DEF Held
    <2>3. Rest
      BY <2>2 DEF Init, Rest, NoEvent
    <2>4. Switches
      BY DEF Init, Switches
    <2> QED BY <2>1, <2>3, <2>4
  <1>2. IInv /\ OwnerNumbers /\ Inv /\ [Next]_vars => Inv'
    BY IssuedStep, GateStep, RestStep, SwitchesStep DEF IInv
  <1>3. Inv => Issued /\ OneInside /\ GateTaken /\ Rest /\ Switches
    OBVIOUS
  <1> HIDE DEF Inv
  <1> QED BY <1>1, <1>2, <1>3, HandoffInvariant, PTL DEF Spec

\* Type correctness; every publication number in use has been issued.
THEOREM HandoffTypes == Spec => []TypeOK
  <1>1. IInv /\ OwnerNumbers /\ Issued /\ OneInside /\ GateTaken /\ Rest /\ Switches => TypeOK
    <2> SUFFICES ASSUME IInv, OwnerNumbers, Issued, Rest, Switches PROVE TypeOK
      OBVIOUS
    <2>1. /\ publication \in Nat
          /\ {rejectedPublication, loaded, acknowledged, consumed, handoff.publication}
                \subseteq 0 .. publication
      BY DEF IInv, Types, Register, OwnerNumbers, Issued
    <2>2. /\ ingressLast \in Snapshot /\ safetyLast \in Snapshot
          /\ stager \in [Stagers -> [pc : StagerPcs, snapshot : Snapshot]]
      BY HeldIsSnapshot DEF IInv, Types
    <2> QED BY <2>1, <2>2 DEF TypeOK, Rest, Switches, StagerPcs
  <1> QED BY <1>1, GateInvariant, PTL

\* The gate of stage_commands excludes: of any number of threads one at most is
\* between taking and clearing it, so the ingress supervisor and the handoff
\* register have one writer at a time (daemon.cpp, command_ingress_gate_).
THEOREM GateExcludes == Spec => []OneInside
  BY GateInvariant, PTL
=============================================================================
