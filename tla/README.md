# A formal model of the robot I/O runtime

This directory holds TLA+ modules for the concurrent and safety-relevant parts
of the runtime, the TLC configurations that model-check them, and TLAPS proofs
of the properties that matter most. Every definition that models code is
listed in `PROJECT.json` under `map` with the lines it was translated from.

## The system

A policy **runtime host** takes observations and publishes commands over DDS.
A **robot I/O daemon** receives them, supervises them, and owns the buses: one
EtherCAT master with CiA 402 drives, serial buses with ST3215 servos, and CAN
buses with Damiao motors. Inside the daemon:

* The worker of the **DDS endpoint** collects the commands of an EtherCAT group
  until their commit arrives, and hands commands to **staging** callbacks
  (`RobotIoDaemon::stage_commands`, `St3215Servo::stage_command`, the mailbox of
  a motor).
* One thread, the **cycle owner**, runs a realtime loop. It reads staged
  commands through lock-free registers (`LocalSnapshot`), lets the **safety
  supervisor** decide one request per axis, runs the CiA 402 state machine of
  every axis, and exchanges process data. It also runs one step of every servo
  bus, and one step of the EtherCAT mailbox.
* Every CAN bus has a sending and a receiving thread (`TransportRuntime`).
* Feedback leaves through overwriting rings (`SensorEventQueue`) and sequence
  locks (`detail::AtomicValue`), drained by the DDS worker.
* A servo bus that reports a fault stops the axes of its safety group.

## Inventory

| Part | Source | Status | Modules |
|---|---|---|---|
| Safety supervisor | `robot_io/daemon/safety_supervisor.cpp` | modelled, proved | `SafetySupervisor`, `SupervisedDriveProofs` |
| CiA 402 axis, state machine | `devices/cia402/{axis,state_machine}.cpp` | modelled, proved | `SupervisedDrive`, `SupervisedDriveProofs` |
| Command ingress and handoff | `robot_io/daemon/daemon.cpp` | modelled, proved | `CommandHandoff`, `CommandHandoffProofs` |
| Daemon lifecycle, `main` | `robot_io/daemon/daemon.cpp`, `apps/robot_io_daemon_main.cpp` | modelled, proved | `DaemonLifecycle`, `DaemonLifecycleProofs` |
| Realtime loop | `robot_io/daemon/realtime_loop.cpp` | modelled, proved | `RealtimeLoop`, `DaemonLifecycle`, `DaemonLifecycleProofs` |
| Transport runtime, scheduler, CAN, motors | `robot_io/daemon/transport_*.cpp`, `transport/socketcan/` | threads, slots and registration modelled | `TransportRuntime`, `DaemonLifecycle` |
| Runtime host, DDS robot I/O, DDS endpoint | `runtime/`, `robot_io/dds/` | command and feedback paths modelled, proved | `DdsCommandPath`, `DdsCommandPathProofs`, `SensorEventQueue`, `RealtimeMailboxProofs` |
| Local snapshot register | `robot_io/daemon/local_snapshot.hpp` | modelled, proved | `LocalSnapshot`, `Register`, `LocalSnapshotProofs` |
| Sequence lock, sensor ring, command mailbox | `robot_io/dds/realtime_mailbox.hpp` | modelled, lock and ring proved | `AtomicValue`, `SensorEventQueue`, `RealtimeMailboxProofs`, `TransportRuntime` |
| EtherCAT master and mailbox, IgH backend | `transport/ethercat/*.cpp` | lifecycle and mailbox modelled, proved | `EthercatMailbox`, `EthercatMailboxProofs`, `DaemonLifecycle` |
| ST3215 servo bus, serial transport | `devices/st3215/servo.cpp`, `transport/serial/serial_transport.cpp` | cycle, ingress, start and stop modelled, goals proved | `St3215Bus`, `St3215BusProofs`, `DaemonLifecycle` |

## How the modules correspond to the code

**SafetySupervisor.** The variables are the members of the class. Actions:
`RejectCommands`, `AcceptCommands` (and `DuplicateCommands`) for
`accept_commands`, `request_shutdown`, and `evaluate(bus, pdo)` for the whole
of `evaluate`: working counter, per-axis reasons, reset episodes, group stop,
stop phases, decisions, shutdown. Time stamps are ages that saturate at
`AgeCap`; `Tick` lets time pass. A snapshot, a bus state and a drive image keep
the conditions the code tests and no numbers.

**SupervisedDrive** composes the supervisor with `Cia402Axis::cycle`,
`Cia402StateMachine::update` and a drive that obeys the control word, comes to
rest or faults at any time (`DriveObeys`, `DriveComesToRest`, `DriveFaults`:
the external CiA 402 device). History variables count the reset pulses the
drive has seen and the sequence an axis was stopped under.

**CommandHandoff** breaks `stage_commands` into the steps other threads can
see (take the gate, accept, publish one of the two registers, clear the gate)
and the owner cycle into its two reads of both registers, the acknowledgement
of a rejection, the consumption of a command and the evaluation.

**DdsCommandPath.** The host begins a publication (`handle`), writes its topics
one by one (`publish_commands`, then `publish_damiao_commands`, which stores the
sequence), may fail at any write (`PublicationFails`) and may be restarted at
any point (`Restart`). A topic holds the samples still to be taken: reliable,
of depth one, in order for one topic of one host and in no order otherwise. The
endpoint's worker goes round the axes' and the commits' channels (`take_axis`,
`take_commit`) and takes the servos' (`take_servo`). The callback of a commit
applies the acceptance test of the ingress in the same step.

**RealtimeLoop** is the arithmetic of `wait_next` and `observe_finish` as
operators on a clock that ends at `MaxTime`, as 64-bit nanoseconds do:
`NextDeadline` skips the releases that have passed and saturates.

**TransportRuntime** is one CAN bus: `start`, `stop`, the loops of its two
threads, each with its test of `running_` and its pass as separate steps, and
the slot of one motor. The sender counts a frame as consumed before it writes
it, and the write may fail (`send_frame`); `sent` is the last frame written.

**DaemonLifecycle** composes both with `RobotIoDaemon`. `pc` is where the main
thread is between construction and destruction. `start` has one action per
stage, each of which may fail and unwinds as the code does; opening the EtherCAT
master has the stages of the IgH backend (`initialize`, `configure_axis` per
slave, `activate`), and any failure gives the IgH master back. `run` is
`EnterRun`, `prepare`, `TestLoop`, `wait_next`, `Wakes`, `RunCycle`, `release`;
`stop_transports` has one action for each thing it stops or waits for, servo
buses last to first. `setup` holds the realtime settings in force: each may be
refused, and an incomplete set is taken back (`Granted`, `Released`); taking
back, which lowers a priority and widens an affinity, is assumed to be granted.
The environment requests a stop (`request_stop`, `Signal`) and calls `cycle` from a
second thread (`BeginOtherCycle`, `OtherCycle`) at any time. Of a cycle it keeps
what it does to the clock, to the acceptance of commands and to the drives:
`energised` says whether the last evaluation left a drive enabled. Any
evaluation may; the one that reports the shutdown complete does not.

**LocalSnapshot** has one step per atomic access of `publish` and `read`. It is
shown to implement **Register**, an atomic register whose reads return a value
that was current during the read, or give up if they were overtaken.
`AtomicValue` does the same for the one-slot sequence lock, with a constant
`ProgramOrder`: when false, accesses move as far as the memory orders in the
code allow.

**SensorEventQueue** models the ring, with a step for each shared access of
`push_realtime` and `pop`, then the endpoint's worker that writes what it pops,
a topic that loses samples, and the host's `read_feedback` that merges what
arrives into its cache.

**EthercatMailbox** has five threads: the lock-free owner cycle, the master's
`open`/`close`, the mailbox's `open`/`close`/`enqueue`, its staging thread, and
a client that polls. Locks are modelled where a thread waits while holding one.
The IgH transfer is a small state machine that ends by itself.

**St3215Bus** has one step for each part of `St3215Bus::cycle` that another
thread or the line can interleave with: poll, dispatch and write, receive.
Servos answer at once, late, garbled or never; the port may fail. Frames are
reduced to who answers and whether they parse. A port that takes no request
latches the bus (`RequestRefused`). A read of the staged command may
give up, as `LocalSnapshot` allows. Once the bus has latched a fault it reads
nothing more, so what is on the line is forgotten.

The `MC` modules give the constants that are functions or records their values;
the `.cfg` files give the rest.

## Runs

| Run | Checks | Distinct states |
|---|---|---|
| `supervisor` | One axis with a reason to stop takes its group along; a safety stop starts with a quick stop; a shutdown is complete, final and reached; stop sequences end | 19,670 |
| `drive` | Reset edges are the pulses the drive sees; recovery needs a newer command; power needs a fresh command; an enabled drive starts | 75,754 |
| `handoff` | The owner sees what the ingress accepted, never an older command after a rejection; rejections and commands reach it | 199,784 |
| `handoff_rejection_evaluated` | *violated*: a rejection is evaluated before the next command | |
| `dds_path` | The axes follow one publication at a time; only a reused sequence can be rejected; only an early commit can lose an epoch; no axis or servo goes back to an earlier host session | 2,324,421 |
| `daemon` | A daemon that is gone left nothing behind; commands are accepted only with every transport open; `run` closes the master only with the drives off; releases lie ahead; a stop ends `run`; motor frames ascend | 330,242 |
| `snapshot` | The double slot implements the atomic register; reads never go back | 1,462,218 |
| `atomic_value_weak` | *violated*: a load returns the bytes of one store | |
| `sensor_queue` | The newest events are retained, losses are counted, the ring is drained, and feedback at the host only advances | 89,227 |
| `mailbox` | The backend is used only while activated; no transfer ends a foreign request; no request is orphaned; a completed request stays completed | 916,653 |
| `mailbox_live` | Both closes return; every request ends | 65,397 |
| `servo_bus` | Goals ascend and are fresh; silence is noticed; a latched fault reaches the safety snapshot | 764,562 |

Every property of a passing run has a mutant in `PROJECT.json`: a definition
of the model changed the way a plausible bug would change the code, under
which TLC finds the property violated. The type invariants of the modules
(`TypeOK`) document the variables; where a proof rests on one it is proved.

### What the violated properties show

* **Rejection overtaken** (`daemon.cpp:597`). The owner acknowledges a
  rejection, then consumes again in the same cycle and takes the command behind
  it, so the safe-stop cycle announced at `daemon.cpp:573` is not output.
* **Torn load** (`realtime_mailbox.hpp:22`). On a machine that reorders relaxed
  accesses a load may mix two stores. In program order this cannot happen,
  which is proved.

### Bounds and why they are enough

* `supervisor`: two axes of one group are the smallest instance with a peer.
  Two sequences give a newer, an equal and a regressing command; three bus
  states and four pairs of drive images reach every reason class. Ages saturate
  one tick beyond the timeouts.
* `drive`: one axis, since peers are covered above; two resets per episode so
  that a budget can be half used.
* `handoff`: two stagers for the gate, three publications so that a rejection
  can lie between two commands. `snapshot`: two readers, two words, four
  publications, so that a slot is reused twice during a read.
* `dds_path`: two axes and their commit can be mixed in every way; with three
  publications and two hosts a sequence can be reused after a failure and after
  a restart, with a sample of the first use still on its way. There is one
  group, as in every robot profile of the repository. The model stops when the
  publications are used up, so deadlock is not checked.
* `daemon`: two servo buses and two slaves so that the second can fail after the
  first; a period of two ticks with delays of up to three, so that no, one and
  two releases can be missed, and a clock of seven instants that ends while the
  loop runs; one CAN bus and two frames.
* `sensor_queue`: capacity 3 and 8 events lap the ring twice.
* `mailbox`: two requests on two objects over two generations; the liveness run
  has one object and one generation. Both end after the last close, so deadlock
  is not checked there.
* `servo_bus`: two servos, one of them commanded with two sequences; one frame
  on the line beside the one in the queue. Timeouts of one tick let commands
  and silence be just in time, just late and far too late. `MaxLag = 0`: no
  tick passes inside a cycle.

### Fairness

The realtime loop keeps cycling, and the clock advances: weak fairness of the
owner's steps and of `Tick`. A cycle that repeats the last one is a stuttering
step, and weak fairness of a cycle would rule it out: a healthy axis would be
obliged to fail, and a property about axes that stay enabled would hold for
want of one. `SafetySupervisor` and `SupervisedDrive` therefore ask for a
cycle only in states where none can be idle (`MustAct`) or where an enabled
axis has words to send (`~Settled`). On the instances of the runs, every state of
`MustAct` was seen to admit no idle cycle, and every state that admits one to
be `Settled`. `SupervisedDrive` has no fair `Tick`: a clock that stands still
stands for commands that keep coming.

A thread that holds a gate or a lock goes on. Blocked threads in
`EthercatMailbox` get a mutex in the end (strong fairness), and an IgH transfer
ends, by its answer or by its own timeout. A drive obeys its control word as
long as it is not faulted. In `DaemonLifecycle` every thread of the daemon goes
on; a supervisor that is evaluated again and again after a request reports the
shutdown complete, which is what the run `supervisor` shows of it
(`ShutdownCompletes`) and enters here as strong fairness. In
`SensorEventQueue` a push that was begun ends and the worker goes on. Callers
are never assumed to send anything.

## Proofs

All for arbitrary values of the constants, under the named assumptions in the
modules (axis, bus and word counts, limits and inputs of the right type, a
positive period that fits the clock). Every safety invariant and every action
property of a passing run is proved; `theorems` in `PROJECT.json` names the
theorem for each.

**`SupervisedDriveProofs`, the supervisor.** `TypeCorrect`, `GroupSafety`,
`ShutdownSafety`, `ShutdownFinality`, `QuickStopFirst`. The inductive invariant
adds `Sequencing`: which phases, zero-velocity counts and decisions occur
together. It is needed because a decision is derived from a phase that was
reached several cycles earlier.

**`SupervisedDriveProofs`, the drive.** `ResetAccounting`, `ResetBudget`,
`Recovery`, `PowerUp`. `ResetLink` ties the supervisor's edge counter to the
output latch of the state machine and to the pulses counted at the drive;
`RecoveryLink` ties the sequence remembered at the stop to the current one. The
supervisor's invariant is reused unchanged.

**`CommandHandoffProofs`.** `SupervisorsAgree`, `OldCommandsStayStale`,
`GateExcludes`, `HandoffTypes`, for any number of staging threads. `Register`
says that the handoff register holds the last snapshot the ingress accepted,
under a number that was issued; `Behind` says that the owner's supervisor has
accepted that snapshot or an older one. The owner therefore rejects nothing the
ingress took, whichever publications it missed. `OneInside` becomes inductive
with `GateTaken`: while a thread is inside, the gate is set.

**`LocalSnapshotProofs`.** `TypeCorrect`, `Refinement`, `MonotoneReads`. The
invariant says what each slot holds for each writer position (`SlotInv`), what
a reader may still return (`ReaderInv`: a value seen as current, or the one
about to become so), and that a retried read was overtaken once per attempt.
Refinement then is one abstract step or a stutter per step.

**`RealtimeMailboxProofs`, the sequence lock.** `CompleteInProgramOrder`, for
hardware that keeps program order: a load that found the same even version
twice holds the bytes of the store of that version.

**`RealtimeMailboxProofs`, the sensor ring.** `NewestAreRetained`,
`LossIsCounted`, `FeedbackMovesForward`, `QueueTypes`, for every capacity.
`Kept` says that the last `Capacity` events are in their slots, but for the one
being replaced. `Handed` says that what `pop` returned last is ahead of all the
host has seen. `Counted` says that the counter covers what was lost and, while
a push is under way on a full ring, the event it is about to evict (`Pending`):
the counter is raised several steps before the event is gone, and the consumer
may move in between.

**`EthercatMailboxProofs`.** `BackendIsActivated`, `TransfersAreOwn`,
`EveryRequestIsEnded`, `CompletedStaysCompleted`, `MailboxTypes`, for any number
of requests, objects and generations. Beside the types the invariant has seven
parts: `Admission`, when a cycle can be running; `Locking`, which thread is
where while a mutex is held; `Generations`, which generation the mailbox and
the closers work on; `Table`, which requests are in use; `Slot`, whose transfer
the backend is running; `Closing`, who still answers for a request that has not
ended (the open mailbox, or a closer that has not come to it yet); `Answers`,
what a client that was told "completed" may rely on. No part is inductive by
itself: that a transfer is gone before the next request is staged rests on the
wait for the admitted cycle (`Admission`), and that a request is not forgotten
on the order in which a closer takes the mutexes (`Locking`).

**`DdsCommandPathProofs`.** `OnePublication`, `SessionsAdvance`, `OneEpoch`,
`NoRejectionWithoutReuse`, `LossIsEarlyCommit`. The first invariant speaks of
all samples there are, on their way, staged or accepted (`Pool`): none is from
the future (`Past`), a timestamp names one publication and timestamps order the
sessions (`Ordered`). It is needed because the acceptance test compares
sequences and timestamps, never sessions. The last two theorems are about runs
in which no sequence was used twice, where a sample's sequence is its timestamp
(`Fresh`). `CommitsAhead` says that a commit still to be taken is newer than
what the ingress has accepted, so it is not rejected; `Delivery` says that the
last publication is still under way on a topic, has arrived there, or had its
commit taken early. `LossIsEarlyCommit` is stated for robots one of whose
groups holds all axes: the callback of `attach_dds` passes on no other epoch
(`daemon.cpp:327`), so with any other grouping the axes get no command.

**`St3215BusProofs`.** `GoalsOnlyAscend`, `GoalsStayFresh`, `BusTypes`, for any
number of servos. `Ladder` orders the sequences of a servo: the last goal
written, the command the owner has read, the last command staged.
`GoalsStayFresh` is for a bus with a command timeout; with timeout 0 a goal has
no age limit and there is nothing to claim. `Turn` says that a frame waits in
the receive queue only between the cycle that received it and the poll of the
next one. The queue therefore never holds two, and the push of `receive_one`
does not find it full (`serial_transport.cpp:325`). The proofs include ticks
inside a cycle (`MaxLag > 0`), which the run leaves out.

**`DaemonLifecycleProofs`, the loop.** `ReleaseBounds`, `MissesAreSkipped`.
Arithmetic of division and saturation, for every period and clock.

**`DaemonLifecycleProofs`, the daemon.** `CleanExit`, `AcceptingStarted`,
`DisabledFirst`, `ReleaseAhead`, `MotorFramesAscend`. `Ownership`, `Ports` and `Stopped` say, for
every location of the main thread, who owns the cycle, what is open and what has
been stopped; `Backend` ties the IgH backend to the master; `Schedule` says that
a cycle starts at its deadline or later and that what it was counted to miss is
what the next wait will skip. They are needed because each property speaks of
one location and holds there for what was done many locations before.
`Frontier` says that no frame on the bus is newer than the consumed one: writes
fail, so the two differ, and the sender compares with the consumed one only.

Only model-checked, since TLAPS has no rules for `ENABLED` and fairness here:
`ShutdownCompletes`, `StopEndsEventually`, `EnabledDriveStarts`,
`RejectionReachesOwner`, `CommandReachesOwner`, `StopEndsRun`,
`RingIsDrained`, `CloseReturns`, `RequestsEnd`,
`SilenceIsNoticed`, `LatchReachesSafety`. The two violated properties are
refuted by their runs.

## Observations

Behaviours met while modelling that no run claims as findings.

Commands and feedback over DDS:

* The commit and the commands of an epoch are separate topics. A commit that is
  taken before one of its commands is dropped and not repeated: that epoch is
  lost (`daemon_endpoint.cpp:399`). `LossNeedsEarlyCommit` says this is the only
  way to lose the last one.
* A publication that fails half way does not store its sequence, and the next
  one uses it again with another timestamp (`runtime_host.cpp:597`). The same
  holds for a restarted host. The daemon may then reject the set, which is a
  safe stop. `RejectionNeedsReuse` says nothing else is.
* The callback of a commit ignores a group that is not the whole robot
  (`daemon.cpp:327`): with two EtherCAT groups no axis gets a command.
* Motor frames are compared by sequence only (`realtime_mailbox.hpp:110`). After
  a restart of the host the lower sequences are not sent, and a delayed sample
  of the previous host with a higher one is.
* A motor frame is consumed before it is written, and the result of the write is
  dropped (`transport_runtime.cpp:207`, `:212`). A frame whose write failed is
  not tried again: the motor gets none until a newer one is staged.
* The callback of a motor has no `accepting_commands_` test: frames staged before
  `start` has completed, or after a stop request, are sent as long as the bus
  runs. The shutdown sends the motors nothing.
* The host does not look at the age of feedback, takes zeros for a sensor that
  has not reported, and stamps a snapshot with the newest of its axes.

Lifecycle:

* A CAN transport that fails to start leaves what was started before it running
  (`daemon.cpp:496`), and a second `start` then fails at the DDS endpoint. Only
  the destructor cleans up, which `ExitIsClean` covers.
* A DDS endpoint whose thread cannot be created throws out of `start` with its
  `running` flag set (`daemon_endpoint.cpp:359`), and refuses to be started again.
* `start` may set `accepting_commands_` after a concurrent `request_stop` has
  cleared it; the first cycle clears it again (`daemon.cpp:599`).
* A DDS worker that ends by an exception is noticed by `poll_health`, which the
  daemon does not call.

Buses and drives:

* A command replayed after an older rejection is a duplicate to the supervisor
  (`safety_supervisor.cpp:140`) and leaves the command set invalid until a newer
  sequence arrives.
* The servo bus polls before it receives, and receives only after the next
  request is written. An answer that comes between two cycles is polled as the
  next servo's, fails the device ID check and latches the whole bus
  (`servo.cpp:264`). On a bus with one servo, answers that once came late stay
  queued, and all later feedback is one answer old and stamped as new.
* A servo command stamped after the cycle's single clock reading but staged
  before the bus reads it counts as expired (`servo.cpp:293`), is consumed and
  never written. The same holds for one accepted within
  `maximum_command_future`.
* A servo goal counts as dispatched before its write; a failed write is not
  repeated for that sequence. A disabled or expired command sends the servo
  nothing: it finishes its last goal.
* The drop counter of the sensor ring may count an event that is also
  delivered.
* `mailbox_status` may report a request failed that is reported completed
  later.
* An axis is enabled again without a new decision by the operator when newer
  commands were streamed while the fault persisted.

## Not modelled

* **Frame codecs** (ST3215, Damiao, CiA 402 process data, Elmo object lists,
  virtual CAN framing): pure byte layouts without state. A frame is reduced to
  who sends it, its sequence and whether it parses. What the encoders compute
  for every input is beyond TLAPS (induction over data), and comparing them with
  a second transcription over a few inputs would add little to their unit tests.
* **RPC codec, profile loader, command line**: parsing and validation at the
  edge. What other parts rely on is in the assumptions on the constants.
* **Inference sessions of the host** (`RuntimeHost::sessions_`) and the
  **policies**: one request at a time, numeric, no influence on the command path
  other than the values commanded. The ZeroMQ socket of the host likewise.
* **Process data exchange and domain health** of the EtherCAT master: calls into
  the IgH library; their result is an input of the supervisor.
* **Blocking callers of the serial transport**: the daemon uses it without
  waiting, so the quarantine after a timeout is never entered.
* **Several CAN buses**: they do not interact, except that a failed start of one
  leaves earlier ones running until the destructor.
* **Middleware exceptions and discovery** of DDS. A publication may fail and a
  topic may deliver late; the daemon's readers do not throw.
* **Scales near the limits of a double**: with them a drive's actual values do
  not convert, and `Cia402Axis::cycle` quick-stops an axis whatever it was asked
  (`axis.cpp:129`). In the models only an enable request is refused.
* **Statistics** (lateness, cycle time, health counters other than the drop
  counter): written and reported, never read back.
* **Python runtime and simulators**: a single-threaded request loop and MuJoCo
  front ends, not part of the controlled system.
