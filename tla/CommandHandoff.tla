--------------------------- MODULE CommandHandoff ---------------------------
(***************************************************************************)
(* How commands get from the threads that stage them to the thread that    *)
(* owns the bus cycle (src/robot_io/daemon/daemon.cpp).  Stagers pass a    *)
(* snapshot through an ingress supervisor under a spin gate and publish it *)
(* in a one-place register, or publish a sticky rejection in a second one. *)
(* The owner reads the two registers at different times, twice in a cycle. *)
(*                                                                         *)
(* The register is atomic here (LocalSnapshot shows why it may be), except *)
(* that a read during a publication may give up and return nothing.  Of    *)
(* the two supervisors only accept_commands matters: its state is the last *)
(* accepted snapshot and whether the command set is valid.  Timestamps are *)
(* left out: a snapshot whose timestamp is unacceptable is malformed.      *)
(***************************************************************************)
EXTENDS Integers

CONSTANTS
    Stagers,               \* threads calling stage_commands
    Snapshots,             \* the snapshots they stage
    MaxPublications        \* bound: publications of one behaviour

None == [seq |-> 0, body |-> 0, wellFormed |-> FALSE]
NoEvent == [publication |-> 0, snapshot |-> None]

Snapshot == [seq : Nat, body : Nat, wellFormed : BOOLEAN]

ASSUME SnapshotAssumption == Snapshots \subseteq Snapshot
ASSUME BoundAssumption == MaxPublications \in Nat

VARIABLES
    gate,                  \* command_ingress_gate_
    accepting,             \* accepting_commands_
    stopRequested,         \* stop_requested_
    publication,           \* command_publication_
    handoff,               \* command_handoff_
    rejectedPublication,   \* rejected_command_publication_
    ingressLast,           \* last snapshot command_ingress_ accepted
    stager,                \* per thread: where it is and its snapshot
    reported,              \* last_command_sequence_, shown by health()
    ownerPc,               \* where the cycle owner is
    loaded,                \* rejection number read by the current consume
    acknowledged,          \* acknowledged_rejection_publication_
    consumed,              \* consumed_command_publication_
    safetyLast,            \* last snapshot safety_ accepted
    commandsValid,         \* safety_.commands_valid_
    owed                   \* history: a rejection no evaluation has shown yet

ingressVars == <<gate, publication, handoff, rejectedPublication,
                 ingressLast, stager, reported>>
ownerVars == <<loaded, acknowledged, consumed, safetyLast, commandsValid>>
vars == <<ingressVars, accepting, stopRequested, ownerPc, ownerVars, owed>>

Init ==
    /\ gate = FALSE
    /\ accepting = TRUE /\ stopRequested = FALSE
    /\ publication = 0 /\ handoff = NoEvent /\ rejectedPublication = 0
    /\ ingressLast = None
    /\ stager = [t \in Stagers |-> [pc |-> "idle", snapshot |-> None]]
    /\ reported = 0
    /\ ownerPc = "idle" /\ loaded = 0
    /\ acknowledged = 0 /\ consumed = 0
    /\ safetyLast = None /\ commandsValid = FALSE
    /\ owed = FALSE

-----------------------------------------------------------------------------
(* SafetySupervisor::accept_commands, for a supervisor whose last accepted *)
(* snapshot is "last" (None before the first).                             *)

Acceptance(s, last) ==
    IF ~s.wellFormed \/ (last # None /\ s.seq < last.seq) THEN "rejected"
    ELSE IF last = None \/ s.seq > last.seq THEN "accepted"
    ELSE IF s = last THEN "duplicate" ELSE "rejected"

-----------------------------------------------------------------------------
(* stage_commands *)

\* The flag is read before the gate is taken, and again inside.
stage_commands(t, s) ==
    /\ stager[t].pc = "idle"
    /\ publication < MaxPublications
    /\ accepting
    /\ stager' = [stager EXCEPT ![t] = [pc |-> "gate", snapshot |-> s]]
    /\ UNCHANGED <<gate, publication, handoff, rejectedPublication,
                   ingressLast, reported, accepting, stopRequested, ownerPc,
                   ownerVars, owed>>

TakeGate(t) ==
    /\ stager[t].pc = "gate"
    /\ ~gate
    /\ gate' = TRUE
    /\ stager' = [stager EXCEPT ![t].pc = IF accepting THEN "locked"
                                          ELSE "clear"]
    /\ UNCHANGED <<publication, handoff, rejectedPublication, ingressLast,
                   reported, accepting, stopRequested, ownerPc, ownerVars,
                   owed>>

Numbered(result) == result # "duplicate"

\* Mutant: a rejected snapshot is handed over as well.
HandedOverAnyway(result) == result # "duplicate"

HandedOver(result) == result = "accepted"

\* Mutant: a valid command clears the rejection before it.
RejectionCleared(result, number) ==
    CASE result = "rejected" -> number
      [] result = "accepted" -> 0
      [] OTHER -> rejectedPublication

StickyRejection(result, number) ==
    IF result = "rejected" THEN number ELSE rejectedPublication

\* Accept into the ingress supervisor; publish the command or the rejection.
Publish(t) ==
    LET s == stager[t].snapshot
        result == Acceptance(s, ingressLast)
        number == publication + 1
    IN  /\ stager[t].pc = "locked"
        /\ stager' = [stager EXCEPT ![t].pc = IF result = "accepted"
                                              THEN "accepted" ELSE "clear"]
        /\ publication' = IF Numbered(result) THEN number ELSE publication
        /\ ingressLast' = IF result = "accepted" THEN s ELSE ingressLast
        /\ handoff' = IF HandedOver(result)
                      THEN [publication |-> number, snapshot |-> s]
                      ELSE handoff
        /\ rejectedPublication' = StickyRejection(result, number)
        /\ UNCHANGED <<gate, reported, accepting, stopRequested, ownerPc,
                       ownerVars, owed>>

ClearGate(t) ==
    /\ stager[t].pc \in {"accepted", "clear"}
    /\ gate' = FALSE
    /\ stager' = [stager EXCEPT ![t] =
                    IF stager[t].pc = "accepted"
                    THEN [stager[t] EXCEPT !.pc = "report"]
                    ELSE [pc |-> "idle", snapshot |-> None]]
    /\ UNCHANGED <<publication, handoff, rejectedPublication, ingressLast,
                   reported, accepting, stopRequested, ownerPc, ownerVars,
                   owed>>

\* The reported sequence is stored after the gate is released.
Report(t) ==
    /\ stager[t].pc = "report"
    /\ reported' = stager[t].snapshot.seq
    /\ stager' = [stager EXCEPT ![t] = [pc |-> "idle", snapshot |-> None]]
    /\ UNCHANGED <<gate, publication, handoff, rejectedPublication,
                   ingressLast, accepting, stopRequested, ownerPc, ownerVars,
                   owed>>

Stager(t) == TakeGate(t) \/ Publish(t) \/ ClearGate(t) \/ Report(t)

request_stop ==
    /\ ~stopRequested
    /\ stopRequested' = TRUE /\ accepting' = FALSE
    /\ UNCHANGED <<ingressVars, ownerPc, ownerVars, owed>>

-----------------------------------------------------------------------------
(* The cycle owner.  cycle() consumes in refresh_commands and once more in *)
(* process_device_cycle; a caller of process_device_cycle consumes once.   *)

Consuming(pc) == pc \in {"refresh", "process"}

BeginCycle ==
    /\ ownerPc = "idle"
    /\ ownerPc' \in {"refresh", "process"}
    /\ loaded' = rejectedPublication
    /\ UNCHANGED <<ingressVars, accepting, stopRequested, acknowledged,
                   consumed, safetyLast, commandsValid, owed>>

AfterConsume(pc) == IF pc = "refresh" THEN "between" ELSE "evaluate"

\* Mutant: the pending command is counted as consumed with the rejection.
AcknowledgeAndDrop ==
    /\ loaded # acknowledged
    /\ acknowledged' = loaded
    /\ consumed' = handoff.publication
    /\ commandsValid' = FALSE
    /\ owed' = TRUE
    /\ UNCHANGED safetyLast

\* A rejection the owner has not acknowledged: forget the later command it
\* may already have consumed and invalidate the command set.
AcknowledgeRejection ==
    /\ loaded # acknowledged
    /\ acknowledged' = loaded
    /\ consumed' = IF consumed > loaded THEN loaded ELSE consumed
    /\ commandsValid' = FALSE
    /\ owed' = TRUE
    /\ UNCHANGED safetyLast

\* Mutant: the rejection barrier is not looked at when a command is consumed.
ConsumableBehindBarrier(event) ==
    /\ loaded = acknowledged
    /\ event # NoEvent
    /\ event.publication # consumed

\* A publication newer than every acknowledged rejection is consumed once.
Consumable(event) ==
    /\ loaded = acknowledged
    /\ event.publication > acknowledged
    /\ event.publication # consumed

ConsumeCommand(event) ==
    /\ Consumable(event)
    /\ consumed' = event.publication
    /\ LET result == Acceptance(event.snapshot, safetyLast)
       IN  /\ safetyLast' = IF result = "accepted" THEN event.snapshot
                            ELSE safetyLast
           /\ commandsValid' = CASE result = "accepted" -> TRUE
                                 [] result = "rejected" -> FALSE
                                 [] result = "duplicate" -> commandsValid
    /\ UNCHANGED <<acknowledged, owed>>

NothingToConsume(event) ==
    /\ loaded = acknowledged
    /\ ~Consumable(event)
    /\ UNCHANGED <<acknowledged, consumed, safetyLast, commandsValid, owed>>

\* LocalSnapshot::read: the current event, or nothing when a publication
\* about to be completed disturbs every attempt.
ReadHandoff ==
    {handoff} \cup
    {NoEvent : t \in {u \in Stagers :
                        /\ stager[u].pc = "locked"
                        /\ Acceptance(stager[u].snapshot, ingressLast)
                              = "accepted"}}

consume_staged_commands ==
    /\ Consuming(ownerPc)
    /\ \E event \in ReadHandoff :
          \/ AcknowledgeRejection
          \/ ConsumeCommand(event)
          \/ NothingToConsume(event)
    /\ ownerPc' = AfterConsume(ownerPc)
    /\ UNCHANGED <<ingressVars, accepting, stopRequested, loaded>>

\* Between the two: the serial buses and the receive half of the EtherCAT
\* cycle; the handler then starts its own consume.
EnterProcess ==
    /\ ownerPc = "between"
    /\ ownerPc' = "process"
    /\ loaded' = rejectedPublication
    /\ UNCHANGED <<ingressVars, accepting, stopRequested, acknowledged,
                   consumed, safetyLast, commandsValid, owed>>

\* The rest of process_device_cycle: an invalid command set stops the axes.
EvaluateCycle ==
    /\ ownerPc = "evaluate"
    /\ ownerPc' = "idle"
    /\ accepting' = (accepting /\ ~stopRequested)
    /\ owed' = FALSE
    /\ UNCHANGED <<ingressVars, stopRequested, ownerVars>>

Owner == BeginCycle \/ consume_staged_commands \/ EnterProcess \/ EvaluateCycle

Next ==
    \/ \E t \in Stagers : \/ \E s \in Snapshots : stage_commands(t, s)
                          \/ Stager(t)
    \/ request_stop
    \/ Owner

Spec == Init /\ [][Next]_vars

\* The realtime loop keeps cycling and a stager that has begun goes on.
FairSpec ==
    /\ Spec
    /\ WF_vars(Owner)
    /\ \A t \in Stagers : WF_vars(Publish(t)) /\ WF_vars(ClearGate(t))

-----------------------------------------------------------------------------
(* Properties *)

\* Type invariant; every publication number in use has been issued.
TypeOK ==
    /\ gate \in BOOLEAN /\ accepting \in BOOLEAN /\ stopRequested \in BOOLEAN
    /\ publication \in Nat
    /\ {rejectedPublication, loaded, acknowledged, consumed,
        handoff.publication} \subseteq 0 .. publication
    /\ handoff \in [publication : Nat, snapshot : Snapshot]
    /\ ingressLast \in Snapshot /\ safetyLast \in Snapshot
    /\ stager \in [Stagers -> [pc : {"idle", "gate", "locked", "accepted",
                                     "clear", "report"},
                               snapshot : Snapshot]]
    /\ reported \in Nat
    /\ ownerPc \in {"idle", "refresh", "between", "process", "evaluate"}
    /\ commandsValid \in BOOLEAN /\ owed \in BOOLEAN

\* The owner's supervisor agrees with the ingress supervisor: it never
\* rejects a snapshot the ingress published, although it sees only some of
\* them and may see one twice (the two accept_commands calls, :516 and :559).
OwnerAgreesWithIngress ==
    \A event \in ReadHandoff :
        Consuming(ownerPc) /\ Consumable(event)
            => Acceptance(event.snapshot, safetyLast) # "rejected"

\* Publications at or below an acknowledged rejection are permanently stale
\* (:541-543): the command set becomes valid only by a publication newer than
\* every rejection the owner has acknowledged.
NoStaleReplay ==
    [][commandsValid' /\ ~commandsValid
         => consumed' > acknowledged' /\ consumed' <= publication]_vars

\* A sticky rejection is not lost: whatever is published after it, the owner
\* comes to acknowledge it (test ConcurrentCommandPublicationCannotLoseA-
\* StickyRejection).
RejectionReachesOwner ==
    \A n \in 1 .. MaxPublications :
        rejectedPublication = n ~> acknowledged >= n

\* The newest command reaches the owner, unless a rejection overtakes it.
CommandReachesOwner ==
    \A n \in 1 .. MaxPublications :
        handoff.publication = n
            ~> \/ safetyLast.seq >= handoff.snapshot.seq
               \/ rejectedPublication > n

\* The comment on refresh_commands (daemon.cpp:573): "Preserve one complete
\* safe-stop output cycle."  An acknowledged rejection is shown by the next
\* evaluation: the command set is still invalid when it runs.
RejectionIsEvaluated == ownerPc = "evaluate" /\ owed => ~commandsValid

=============================================================================
