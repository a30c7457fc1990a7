------------------------------ MODULE St3215Bus ------------------------------
(***************************************************************************)
(* The shared half-duplex ST3215 servo bus (src/src/devices/st3215/        *)
(* servo.cpp) over the serial transport in its zero-wait configuration     *)
(* (src/src/transport/serial/serial_transport.cpp).  One cycle polls the   *)
(* answer of the servo asked last, moves to the next servo, writes one     *)
(* request to it and receives at most one frame.  Other threads stage      *)
(* commands between any two steps of a cycle.                              *)
(*                                                                         *)
(* Time is counted in ticks and kept as ages.  A cycle reads the clock     *)
(* once, so a tick may pass between that reading and its use: `lag' is how *)
(* far the reading is behind.  Frames are what the code tells apart: the   *)
(* servo that answers, its error flag, a frame that does not parse, and    *)
(* noise that is no frame.                                                 *)
(***************************************************************************)
EXTENDS Integers, Sequences, SequencesExt

CONSTANTS
  ServoCount,          \* servos on the bus, visited round robin
  CommandTimeout,      \* command_timeout, in ticks; 0 is no timeout
  FeedbackTimeout,     \* feedback_timeout, in ticks
  MaxFuture,           \* maximum_command_future, in ticks
  Commanded,           \* bound: the servos commands are staged for
  MaxSequence,         \* bound: command sequences staged
  MaxLag,              \* bound: ticks that pass within one cycle
  MaxLine              \* bound: frames under way to the receiver

ASSUME BusAssumption ==
  /\ ServoCount \in Nat \ {0} /\ Commanded \subseteq 1..ServoCount
  /\ CommandTimeout \in Nat /\ FeedbackTimeout \in Nat \ {0}
  /\ MaxFuture \in Nat /\ MaxSequence \in Nat /\ MaxLag \in Nat /\ MaxLine \in Nat \ {0}

VARIABLES
  last,       \* last[i]: the newest accepted command, which is also the published one
  unread,     \* unread[i]: its publication differs from consumed_publication
  command,    \* command[i]: the bus owner's copy
  timedOut,   \* timedOut[i]: command_timed_out
  goal,       \* goal[i]: goal_sequence, 0 when no goal was dispatched
  silence,    \* silence[i]: ticks since the last answer or the start
  fault,      \* fault[i]: the published feedback is flagged faulty or carries no stamp
  cursor,     \* cursor_ and pending_index_
  dispatched, \* dispatched_
  latched,    \* fault_latched_
  rx,         \* rx_queue
  lastError,  \* last_error: "none", "timeout" or any other error
  line,       \* answers that have reached the port and were not received
  asked,      \* servos that have a request to answer
  sent,       \* the request of this cycle: its servo and goal sequence, 0 for a position read
  pc,         \* where the owner is in a cycle
  lag         \* ticks since the cycle read the clock

servoVars == <<last, unread, command, timedOut, goal, silence, fault>>
busVars == <<cursor, dispatched, latched>>
portVars == <<rx, lastError, line, asked, sent>>
vars == <<last, unread, command, timedOut, goal, silence, fault,
          cursor, dispatched, latched, rx, lastError, line, asked, sent, pc, lag>>

Servos == 1..ServoCount

\* An age beyond every timeout is as good as any older one.
AgeCap == (IF CommandTimeout > FeedbackTimeout THEN CommandTimeout ELSE FeedbackTimeout) + MaxLag + 1
Ages == -MaxFuture .. AgeCap
Older(a) == IF a < AgeCap THEN a + 1 ELSE a

\* `present' is has_command_ at the ingress and has_command at the owner, whose
\* stamp matters only while it is present.
Commands == [present : BOOLEAN, sequence : 0..MaxSequence, enabled : BOOLEAN, age : Ages]
NoCommand == [present |-> FALSE, sequence |-> 0, enabled |-> FALSE, age |-> 0]

\* What comes over the line: the status answer of a servo, whose error flag is
\* seen when it is parsed, a frame that does not parse, or bytes that are no frame.
Status(i) == [kind |-> "status", servo |-> i]
Corrupt == [kind |-> "corrupt", servo |-> 0]
Noise == [kind |-> "noise", servo |-> 0]
Frames == {Status(i) : i \in Servos} \cup {Corrupt}

NothingSent == [servo |-> 1, goal |-> 0]

Init ==
  /\ last = [i \in Servos |-> NoCommand]
  /\ unread = [i \in Servos |-> FALSE]
  /\ command = [i \in Servos |-> NoCommand]
  /\ timedOut = [i \in Servos |-> FALSE]
  /\ goal = [i \in Servos |-> 0]
  /\ silence = [i \in Servos |-> 0]
  /\ fault = [i \in Servos |-> TRUE]
  /\ cursor = 1
  /\ dispatched = FALSE
  /\ latched = FALSE
  /\ rx = <<>>
  /\ lastError = "none"
  /\ line = <<>>
  /\ asked = {}
  /\ sent = NothingSent
  /\ pc = "idle"
  /\ lag = 0

-----------------------------------------------------------------------------
(* The ingress: St3215Servo::stage_command under the command gate.           *)

\* Mutated: a repeated or older sequence is accepted when its stamp is newer.
AdmissibleByStamp(i, c) ==
  /\ CommandTimeout > 0 => c.age \in -MaxFuture..CommandTimeout
  /\ last[i].present => c.sequence # last[i].sequence /\ c.age <= last[i].age

\* inspect_command accepts: the stamp is neither too old nor too far ahead,
\* and sequence and stamp do not go back.
Admissible(i, c) ==
  /\ CommandTimeout > 0 => c.age \in -MaxFuture..CommandTimeout
  /\ last[i].present => c.sequence > last[i].sequence /\ c.age <= last[i].age

stage_command(i, c) ==
  /\ Admissible(i, c)
  /\ last' = [last EXCEPT ![i] = c]
  /\ unread' = [unread EXCEPT ![i] = TRUE]
  /\ UNCHANGED <<command, timedOut, goal, silence, fault, busVars, portVars, pc, lag>>

-----------------------------------------------------------------------------
(* The bus owner.                                                            *)

\* A failed poll or write: fault_latched_ and a feedback that names the fault.
Latch(i) ==
  /\ latched' = TRUE
  /\ fault' = [fault EXCEPT ![i] = TRUE]

\* The transport records how its cycle ended, as far as read tells it apart.
publish_error(errors) == lastError' \in errors

EndCycle == pc' = "idle" /\ lag' = 0

\* refresh_staged takes the staged command when the snapshot read got it.
Taken(i, got) == IF got THEN last[i] ELSE command[i]

\* Mutated: the timeout of the next tick.
ExpiredLate(c) ==
  c.present /\ CommandTimeout > 0 /\ (c.age < lag \/ c.age - lag > CommandTimeout + 1)

\* The command is older than its timeout, or ahead of the cycle's clock reading.
Expired(c) ==
  c.present /\ CommandTimeout > 0 /\ (c.age < lag \/ c.age - lag > CommandTimeout)

Refreshed(i, got) ==
  IF Expired(Taken(i, got)) THEN [Taken(i, got) EXCEPT !.present = FALSE, !.enabled = FALSE, !.age = 0]
                            ELSE Taken(i, got)

refresh_staged(i, got) ==
  /\ got => unread[i]
  /\ unread' = [unread EXCEPT ![i] = @ /\ ~got]
  /\ command' = [command EXCEPT ![i] = Refreshed(i, got)]
  /\ timedOut' = [timedOut EXCEPT ![i] = Expired(Taken(i, got)) \/ (@ /\ ~got)]

BeginCycle ==
  /\ pc = "idle"
  /\ pc' = IF latched THEN "idle" ELSE IF dispatched THEN "poll" ELSE "dispatch"
  /\ fault' = [fault EXCEPT ![cursor] = @ \/ latched]
  /\ sent' = NothingSent
  /\ UNCHANGED <<last, unread, command, timedOut, goal, silence, busVars, rx, lastError, line, asked, lag>>

\* The next servo, once the poll has not latched the bus.
Successor(i) == (i % ServoCount) + 1

\* Mutated: one answering servo excuses the silence of the others.
SilentBus(i) == \A j \in Servos : silence[j] - lag > FeedbackTimeout

\* The silence of the polled servo is past its feedback timeout.
Silent(i) == silence[i] - lag > FeedbackTimeout

\* poll_response finds a frame of the polled servo.
PollAnswer(i) ==
  /\ rx # <<>> /\ Head(rx) = Status(i)
  /\ \E error \in BOOLEAN : fault' = [fault EXCEPT ![i] = error \/ timedOut'[i]]
  /\ silence' = [silence EXCEPT ![i] = lag]
  /\ rx' = Tail(rx)
  /\ UNCHANGED latched

\* It finds a frame of another servo or one that does not parse.
PollForeign(i) ==
  /\ rx # <<>> /\ Head(rx) # Status(i)
  /\ Latch(i)
  /\ rx' = Tail(rx)
  /\ UNCHANGED silence

\* The transport's read of an empty queue is a timeout only when its cycle ended so.
ReadTimesOut == rx = <<>> /\ lastError = "timeout"

\* It finds nothing: tolerated after a receive timeout until the servo has
\* been silent for too long, fatal after any other transport error.
PollNothing(i) ==
  /\ rx = <<>>
  /\ IF ReadTimesOut /\ ~Silent(i) THEN UNCHANGED <<latched, fault>>
                                           ELSE Latch(i)
  /\ UNCHANGED <<silence, rx>>

\* A latched bus reads the line no more: what is on it is forgotten.
LineUnread == line' = <<>> /\ asked' = {}

\* A cycle whose poll latched the bus writes no request.
poll_response(got) ==
  /\ pc = "poll"
  /\ refresh_staged(cursor, got)
  /\ PollAnswer(cursor) \/ PollForeign(cursor) \/ PollNothing(cursor)
  /\ IF latched'
     THEN EndCycle /\ LineUnread /\ UNCHANGED cursor
     ELSE /\ pc' = "dispatch" /\ cursor' = Successor(cursor)
          /\ UNCHANGED <<lag, line, asked>>
  /\ UNCHANGED <<last, goal, dispatched, lastError, sent>>

\* send_request writes a goal once per sequence, else it asks for the position.
SendsGoal(c, g) == c.present /\ c.enabled /\ g # c.sequence

\* The transport's cycle writes the request and goes on to receive; a write that
\* would block or fails ends it, and the goal counts as dispatched all the same.
write_all ==
  /\ asked' = asked \cup {cursor}
  /\ pc' = "receive"
  /\ UNCHANGED <<lastError, lag>>

WriteFails ==
  /\ publish_error({"timeout", "failed"})
  /\ EndCycle
  /\ UNCHANGED asked

SendsRequest ==
  /\ sent' = [servo |-> cursor,
              goal |-> IF SendsGoal(command'[cursor], goal[cursor]) THEN command'[cursor].sequence ELSE 0]
  /\ write_all \/ WriteFails
  /\ UNCHANGED <<fault, latched, line>>

\* The port takes no request, because it is closed or its queue is full.  (The
\* other error of send_request, a target that is not finite, does not occur:
\* inspect_command has refused it.)
RequestRefused ==
  /\ Latch(cursor) /\ EndCycle /\ LineUnread
  /\ sent' = NothingSent
  /\ UNCHANGED lastError

dispatch_request(got) ==
  /\ pc = "dispatch"
  /\ refresh_staged(cursor, got)
  /\ goal' = [goal EXCEPT ![cursor] = IF SendsGoal(command'[cursor], @) THEN command'[cursor].sequence ELSE @]
  /\ dispatched' = TRUE
  /\ SendsRequest \/ RequestRefused
  /\ UNCHANGED <<last, silence, cursor, rx>>

\* receive_one(0) queues the first frame of the line.  Bytes before it that are
\* no frame are skipped; alone they are a framing error or none at all.
FirstFrame == SelectInSeq(line, LAMBDA f : f # Noise)

receive_one ==
  /\ pc = "receive"
  /\ EndCycle
  /\ IF FirstFrame > 0
     THEN /\ rx' = Append(rx, line[FirstFrame])
          /\ publish_error({"none"})
          /\ line' = SubSeq(line, FirstFrame + 1, Len(line))
     ELSE /\ publish_error(IF line = <<>> THEN {"timeout"} ELSE {"timeout", "failed"})
          /\ line' = <<>>
          /\ UNCHANGED rx
  /\ sent' = NothingSent
  /\ UNCHANGED <<servoVars, busVars, asked>>

\* read or poll on the port fails.
ReceiveFails ==
  /\ pc = "receive"
  /\ EndCycle
  /\ publish_error({"failed"})
  /\ sent' = NothingSent
  /\ UNCHANGED <<servoVars, busVars, rx, line, asked>>

\* Mutated: only the flags count.
FaultedByFlag(i) == fault[i]

\* What safety_snapshot counts as a fault of a servo.  A feedback without a fault
\* flag was published with the servo's last answer, so it is as old as that.
Faulted(i) == fault[i] \/ silence[i] > FeedbackTimeout

-----------------------------------------------------------------------------
(* The servos, the line and the clock.                                       *)

Answer(i) ==
  /\ i \in asked /\ Len(line) < MaxLine
  /\ asked' = asked \ {i}
  /\ \E f \in {Status(i), Corrupt, Noise} : line' = Append(line, f)
  /\ UNCHANGED <<servoVars, busVars, rx, lastError, sent, pc, lag>>

NoAnswer(i) ==
  /\ i \in asked
  /\ asked' = asked \ {i}
  /\ UNCHANGED <<servoVars, busVars, rx, lastError, line, sent, pc, lag>>

Aged(c) == [c EXCEPT !.age = IF c.present THEN Older(@) ELSE @]

Tick ==
  /\ pc = "idle" \/ lag < MaxLag
  /\ last' = [i \in Servos |-> Aged(last[i])]
  /\ command' = [i \in Servos |-> Aged(command[i])]
  /\ silence' = [i \in Servos |-> Older(silence[i])]
  /\ lag' = IF pc = "idle" THEN lag ELSE lag + 1
  /\ UNCHANGED <<unread, timedOut, goal, fault, busVars, portVars, pc>>

Stage == \E i \in Commanded, s \in 1..MaxSequence, e \in BOOLEAN, a \in -MaxFuture..CommandTimeout :
           stage_command(i, [present |-> TRUE, sequence |-> s, enabled |-> e, age |-> a])

Owner(got) == BeginCycle \/ poll_response(got) \/ dispatch_request(got) \/ receive_one

Next ==
  \/ Stage \/ Tick \/ ReceiveFails
  \/ \E got \in BOOLEAN : Owner(got)
  \/ \E i \in Servos : Answer(i) \/ NoAnswer(i)

Spec == Init /\ [][Next]_vars

\* The realtime loop keeps cycling and time passes.
FairSpec == Spec /\ WF_vars(Tick) /\ WF_vars(\E got \in BOOLEAN : Owner(got))

-----------------------------------------------------------------------------

\* Type correctness; the receive queue never holds more than one frame, since a
\* cycle takes one frame before it receives one.
TypeOK ==
  /\ last \in [Servos -> Commands] /\ command \in [Servos -> Commands]
  /\ unread \in [Servos -> BOOLEAN] /\ timedOut \in [Servos -> BOOLEAN]
  /\ goal \in [Servos -> 0..MaxSequence]
  /\ silence \in [Servos -> 0..AgeCap]
  /\ fault \in [Servos -> BOOLEAN]
  /\ cursor \in Servos
  /\ dispatched \in BOOLEAN /\ latched \in BOOLEAN
  /\ rx \in {<<>>} \cup {<<f>> : f \in Frames}
  /\ lastError \in {"none", "timeout", "failed"}
  /\ Len(line) <= MaxLine
  /\ asked \subseteq Servos
  /\ sent \in [servo : Servos, goal : 0..MaxSequence]
  /\ pc \in {"idle", "poll", "dispatch", "receive"}
  /\ lag \in 0..MaxLag

Writes == pc = "dispatch" /\ pc' # "dispatch"

\* A servo is sent the goal of a command sequence at most once, and never the
\* goal of an older sequence after a newer one, however staging, expiry and
\* failed writes interleave (send_request, inspect_command).
GoalsAscend == [][Writes /\ sent'.goal # 0 => sent'.goal > goal[sent'.servo]]_vars

\* A goal is written only while its command is within its timeout at the
\* cycle's clock reading, whenever it was staged (refresh_staged before send_request).
GoalsAreFresh ==
  [][Writes /\ sent'.goal # 0 => command'[sent'.servo].age - lag \in 0..CommandTimeout]_vars

\* Every servo goes on answering, or the bus latches a fault: no servo stays
\* silent behind the answers of the others (poll_response).
SilenceIsNoticed ==
  \A i \in Servos : []<>(silence[i] <= FeedbackTimeout \/ latched)

\* When the bus has latched a fault, every servo of the bus is reported faulted
\* in the end and stays so, as the latch does: the ones not under the cursor by
\* their age (St3215Servo::feedback, St3215DeviceRegistry::safety_snapshot).
LatchReachesSafety == <>[](latched => \A i \in Servos : Faulted(i))

=============================================================================
