-------------------------- MODULE TransportRuntime --------------------------
(***************************************************************************)
(* TransportRuntime in CAN mode (robot_io/daemon/transport_runtime.cpp)    *)
(* with the motor behind it: the DDS worker stages encoded motor commands  *)
(* in a latest-value slot (CommandMailbox), a sender thread tries to put   *)
(* the newest one on the bus once per period, and a receiver thread polls  *)
(* the socket.  stop() clears running_ and joins the two threads.          *)
(*                                                                         *)
(* A frame is identified with its sequence number, which is the one of the *)
(* host's sample: a delayed sample, or one of a restarted host, may carry  *)
(* a lower number than the frame before.  The slot's AtomicValue is        *)
(* modelled in AtomicValue; here a store and a load are one step each.     *)
(***************************************************************************)
EXTENDS Integers

CONSTANTS MaxFrames        \* bound: the highest sequence number of a frame

ASSUME FrameAssumption == MaxFrames \in Nat

Frames == 1..MaxFrames
NoFrame == 0

VARIABLES
    bus_running,           \* running_
    sender,                \* worker_: "none", "test", "pass", "ended"
    receiver,              \* receive_worker_
    mailbox,               \* sequence of the frame in the slot, or NoFrame
    consumed_sequence,     \* of the slot: the last frame given to send_frame
    sent                   \* history: the last frame written to the bus

busVars == <<bus_running, sender, receiver, mailbox, consumed_sequence, sent>>

BusInit ==
    /\ bus_running = FALSE
    /\ sender = "none" /\ receiver = "none"
    /\ mailbox = NoFrame /\ consumed_sequence = NoFrame /\ sent = NoFrame

\* start: both threads run.  A second start is refused.
BusStarts ==
    /\ ~bus_running
    /\ bus_running' = TRUE /\ receiver' = "test" /\ sender' = "test"
    /\ UNCHANGED <<mailbox, consumed_sequence, sent>>

\* start: a thread cannot be created, and stop() joins the one that was.
BusStartFails ==
    /\ bus_running' = FALSE /\ receiver' = "none" /\ sender' = "none"
    /\ UNCHANGED <<mailbox, consumed_sequence, sent>>

\* stage_damiao_command: a command outside the motor's limits does not encode
\* and is not staged.
Stage(frame) ==
    /\ mailbox' = frame
    /\ UNCHANGED <<bus_running, sender, receiver, consumed_sequence, sent>>

-----------------------------------------------------------------------------
(* The two threads *)

AfterTest == IF bus_running THEN "pass" ELSE "ended"

SenderTests ==
    /\ sender = "test"
    /\ sender' = AfterTest
    /\ UNCHANGED <<bus_running, receiver, mailbox, consumed_sequence, sent>>

\* Mutant: any frame but the last one counts as new.
read_other == mailbox # consumed_sequence

read_latest == mailbox > consumed_sequence

\* The socket does not block: a write may fail, and then nothing is sent.
send_frame(frame) == sent' \in {sent, frame}

\* One pass over the slots.  The frame counts as consumed before it is written,
\* and the result of send_frame is dropped: a frame whose write failed is never
\* tried again.
SenderPasses ==
    /\ sender = "pass"
    /\ IF read_latest
       THEN consumed_sequence' = mailbox /\ send_frame(mailbox)
       ELSE UNCHANGED <<consumed_sequence, sent>>
    /\ sender' = "test"
    /\ UNCHANGED <<bus_running, receiver, mailbox>>

ReceiverTests ==
    /\ receiver = "test"
    /\ receiver' = AfterTest
    /\ UNCHANGED <<bus_running, sender, mailbox, consumed_sequence, sent>>

\* receive_once: at most one frame, whose feedback goes to the ring of its
\* sensor (SensorEventQueue).
ReceiverPasses ==
    /\ receiver = "pass"
    /\ receiver' = "test"
    /\ UNCHANGED <<bus_running, sender, mailbox, consumed_sequence, sent>>

Sender == SenderTests \/ SenderPasses
Receiver == ReceiverTests \/ ReceiverPasses

-----------------------------------------------------------------------------
(* stop, in the thread that calls it *)

StopRequested ==
    /\ bus_running' = FALSE
    /\ UNCHANGED <<sender, receiver, mailbox, consumed_sequence, sent>>

JoinSender ==
    /\ sender \in {"none", "ended"}
    /\ sender' = "none"
    /\ UNCHANGED <<bus_running, receiver, mailbox, consumed_sequence, sent>>

JoinReceiver ==
    /\ receiver \in {"none", "ended"}
    /\ receiver' = "none"
    /\ UNCHANGED <<bus_running, sender, mailbox, consumed_sequence, sent>>

BusTypeOK ==
    /\ bus_running \in BOOLEAN
    /\ {sender, receiver} \subseteq {"none", "test", "pass", "ended"}
    /\ {mailbox, consumed_sequence, sent} \subseteq 0..MaxFrames
=============================================================================
