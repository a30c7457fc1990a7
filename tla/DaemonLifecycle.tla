-------------------------- MODULE DaemonLifecycle --------------------------
(***************************************************************************)
(* The life of the robot I/O daemon (apps/robot_io_daemon_main.cpp,        *)
(* robot_io/daemon/daemon.cpp): the main thread configures the daemon,     *)
(* attaches the DDS endpoint, starts the transports one after the other,   *)
(* runs the realtime loop until the safety supervisor reports that the     *)
(* shutdown is complete, stops the transports and destroys the daemon.     *)
(* Meanwhile the DDS worker and the two threads of the CAN bus run, a      *)
(* signal or another thread asks for a stop, and another thread may call   *)
(* cycle() itself.                                                         *)
(*                                                                         *)
(* A step that can fail is a choice; what start() undoes after a failure   *)
(* is part of the failing step.  The supervisor is its promise, which      *)
(* SafetySupervisor checks: shutdown_complete needs a shutdown request,    *)
(* comes in the end and is final.  Time passes where the loop reads the    *)
(* clock, and counts from the first wait.                                  *)
(***************************************************************************)
EXTENDS RealtimeLoop, TransportRuntime, FiniteSets

CONSTANTS
    NBuses,                \* ST3215 buses
    NSlaves,               \* axes of the EtherCAT master
    MaxDelay               \* bound: how far the clock moves in one step

ASSUME BusAssumption == NBuses \in Nat
ASSUME SlaveAssumption == NSlaves \in Nat \ {0}
ASSUME DelayAssumption == MaxDelay \in Nat

Buses == 1..NBuses
Master == 0                \* the EtherCAT master among the transports

VARIABLES
    pc,                    \* main thread
    destroying,            \* main thread: in the destructor
    configured,            \* configured_
    attached,              \* dds_.has_value()
    running,               \* running_
    accepting,             \* accepting_commands_
    stop_requested,        \* stop_requested_
    shutdown_requested,    \* request_shutdown has reached the supervisor
    shutdown_complete,     \* shutdown_complete_
    signal_stop_requested, \* set by the signal handler
    owner,                 \* cycle_owner_token_: "none", "main", "other"
    dds_running,           \* endpoint: running
    dds_worker,            \* endpoint: "none", "test", "pass", "ended"
    dds_stop,              \* endpoint: the worker's stop token
    registered,            \* TransportScheduler::assignments_
    handler_bound,         \* master_handler_bound_
    master_open,           \* the master's cycle admission
    igh,                   \* IghBackend: "released", "requested", "activated"
    slaves,                \* IghBackend: slaves configured
    serial,                \* the ST3215 buses that are open
    captured_thread_state, \* captured_thread_state_
    setup,                 \* realtime settings in force
    schedule_started,      \* schedule_started_
    sleep_failed,          \* run: the loop no longer sleeps
    now,                   \* the monotonic clock
    deadline,              \* next_deadline_ns_
    skipped,               \* history: releases the last wait_next skipped
    missed,                \* history: releases the last cycle overran
    energised              \* history: the last evaluation left drives enabled

flagVars == <<configured, attached, running, accepting, stop_requested,
              shutdown_requested, shutdown_complete, signal_stop_requested>>
ddsVars == <<dds_running, dds_worker, dds_stop>>
backendVars == <<igh, slaves>>
portVars == <<registered, handler_bound, master_open, backendVars, serial>>
setupVars == <<captured_thread_state, setup>>
loopVars == <<setupVars, schedule_started, sleep_failed, now, deadline,
              skipped, missed>>
vars == <<pc, destroying, owner, energised, flagVars, ddsVars, portVars,
          loopVars, busVars>>

Init ==
    /\ pc = "new" /\ destroying = FALSE /\ owner = "none" /\ energised = FALSE
    /\ configured = FALSE /\ attached = FALSE
    /\ running = FALSE /\ accepting = FALSE
    /\ stop_requested = FALSE
    /\ shutdown_requested = FALSE /\ shutdown_complete = FALSE
    /\ signal_stop_requested = FALSE
    /\ dds_running = FALSE /\ dds_worker = "none" /\ dds_stop = FALSE
    /\ registered = {} /\ handler_bound = FALSE
    /\ master_open = FALSE /\ igh = "released" /\ slaves = 0 /\ serial = {}
    /\ captured_thread_state = FALSE /\ setup = {}
    /\ schedule_started = FALSE /\ sleep_failed = FALSE
    /\ now = 0 /\ deadline = 0 /\ skipped = 0 /\ missed = 0
    /\ BusInit

\* The step of the main thread that ends at location l.
Goto(l) == pc' = l /\ UNCHANGED <<destroying, energised>>

-----------------------------------------------------------------------------
(* configure, attach_dds *)

\* Everything is checked and built before the daemon changes.
configure ==
    /\ pc = "new"
    /\ \/ configured' = TRUE /\ Goto("configured")
       \/ UNCHANGED configured /\ Goto("failed")
    /\ UNCHANGED <<attached, running, accepting, stop_requested,
                   shutdown_requested, shutdown_complete, signal_stop_requested,
                   owner, ddsVars, portVars, loopVars, busVars>>

attach_dds ==
    /\ pc = "configured"
    /\ \/ attached' = TRUE /\ Goto("attached")
       \/ UNCHANGED attached /\ Goto("failed")
    /\ UNCHANGED <<configured, running, accepting, stop_requested,
                   shutdown_requested, shutdown_complete, signal_stop_requested,
                   owner, ddsVars, portVars, loopVars, busVars>>

-----------------------------------------------------------------------------
(* TransportScheduler: the transports that are registered *)

add(t) == t \notin registered /\ registered' = registered \cup {t}

remove(t) == registered' = registered \ {t}

-----------------------------------------------------------------------------
(* start *)

\* start's own conditions and those of the endpoint's start.
Startable ==
    configured /\ ~running /\ ~stop_requested /\ ~shutdown_complete /\ ~dds_running

\* Mutant: commands are accepted as soon as their source runs.
StartDdsAccepting ==
    /\ pc = "attached" /\ Startable
    /\ dds_running' = TRUE /\ dds_worker' = "test" /\ dds_stop' = FALSE
    /\ accepting' = TRUE
    /\ Goto("start_add")
    /\ UNCHANGED <<configured, attached, running, stop_requested,
                   shutdown_requested, shutdown_complete, signal_stop_requested,
                   owner, portVars, loopVars, busVars>>

\* A failed start may be called again.  The endpoint's start throws when its
\* worker cannot be created, with its running flag set already: whoever catches
\* that can start no more.
StartDds ==
    /\ pc \in {"attached", "start_failed"}
    /\ \/ /\ Startable
          /\ dds_running' = TRUE /\ dds_worker' = "test" /\ dds_stop' = FALSE
          /\ Goto("start_add")
       \/ /\ Startable
          /\ dds_running' = TRUE /\ UNCHANGED <<dds_worker, dds_stop>>
          /\ Goto("start_failed")
       \/ ~Startable /\ UNCHANGED ddsVars /\ Goto("start_failed")
    /\ UNCHANGED <<flagVars, owner, portVars, loopVars, busVars>>

\* The master cannot be created, or is registered with the scheduler.
StartAdd ==
    /\ pc = "start_add"
    /\ \/ add(Master) /\ Goto("start_bind")
       \/ UNCHANGED registered /\ Goto("start_failed")
    /\ UNCHANGED <<flagVars, owner, ddsVars, handler_bound, master_open,
                   backendVars, serial, loopVars, busVars>>

StartBind ==
    /\ pc = "start_bind"
    /\ \/ handler_bound' = TRUE /\ UNCHANGED registered /\ Goto("start_open")
       \/ /\ remove(Master) /\ UNCHANGED handler_bound
          /\ Goto("start_failed")
    /\ UNCHANGED <<flagVars, owner, ddsVars, master_open, backendVars, serial,
                   loopVars, busVars>>

\* IghBackend::deactivate.
deactivate ==
    IF igh = "released" THEN UNCHANGED backendVars
    ELSE igh' = "released" /\ slaves' = 0

\* start() undoes what it did when EthercatMaster::open fails.
OpenFails ==
    /\ handler_bound' = FALSE /\ remove(Master)
    /\ Goto("start_failed")
    /\ UNCHANGED <<flagVars, owner, ddsVars, master_open, serial, loopVars, busVars>>

\* The IgH master is requested and its domain created, or neither is kept.
initialize ==
    /\ pc = "start_open"
    /\ \/ /\ igh = "released" /\ igh' = "requested"
          /\ Goto("open_slaves")
          /\ UNCHANGED <<flagVars, owner, ddsVars, registered, handler_bound,
                         master_open, slaves, serial, loopVars, busVars>>
       \/ OpenFails /\ UNCHANGED backendVars

configure_slave == igh = "requested" /\ slaves' = slaves + 1

bind_pdo_entry(slave) == igh # "activated" /\ slave <= slaves'

\* The next axis is configured and its entries are bound.  Whatever is refused on
\* the way, open deactivates the backend.
configure_axis ==
    /\ pc = "open_slaves" /\ slaves < NSlaves
    /\ \/ /\ configure_slave /\ bind_pdo_entry(slaves + 1)
          /\ Goto("open_slaves")
          /\ UNCHANGED <<flagVars, owner, ddsVars, registered, handler_bound,
                         master_open, igh, serial, loopVars, busVars>>
       \/ OpenFails /\ deactivate

\* Also a mailbox that does not open undoes the activation.
activate ==
    /\ pc = "open_slaves" /\ slaves = NSlaves
    /\ \/ /\ igh = "requested" /\ igh' = "activated" /\ master_open' = TRUE
          /\ Goto("start_serial")
          /\ UNCHANGED <<flagVars, owner, ddsVars, registered, handler_bound,
                         slaves, serial, loopVars, busVars>>
       \/ OpenFails /\ deactivate

StartOpen == initialize \/ configure_axis \/ activate

\* St3215Bus::start of the next bus; when it fails the registry stops the buses
\* before it and start() closes the master.
StartBus(b) ==
    /\ pc = "start_serial" /\ serial = 1..(b - 1)
    /\ \/ /\ add(b) /\ serial' = serial \cup {b}
          /\ UNCHANGED <<handler_bound, master_open, backendVars>>
          /\ Goto("start_serial")
       \/ /\ serial' = {} /\ registered' = {}
          /\ handler_bound' = FALSE /\ master_open' = FALSE /\ deactivate
          /\ Goto("start_failed")
    /\ UNCHANGED <<flagVars, owner, ddsVars, loopVars, busVars>>

\* The CAN runtime; its failure undoes nothing of what was started before.
StartCan ==
    /\ pc = "start_serial" /\ serial = Buses
    /\ \/ BusStarts /\ Goto("start_accept")
       \/ BusStartFails /\ Goto("start_failed")
    /\ UNCHANGED <<flagVars, owner, ddsVars, portVars, loopVars>>

StartAccept ==
    /\ pc = "start_accept"
    /\ accepting' = TRUE
    /\ Goto("start_run")
    /\ UNCHANGED <<configured, attached, running, stop_requested,
                   shutdown_requested, shutdown_complete, signal_stop_requested,
                   owner, ddsVars, portVars, loopVars, busVars>>

StartRun ==
    /\ pc = "start_run"
    /\ running' = TRUE
    /\ Goto("started")
    /\ UNCHANGED <<configured, attached, accepting, stop_requested,
                   shutdown_requested, shutdown_complete, signal_stop_requested,
                   owner, ddsVars, portVars, loopVars, busVars>>

start ==
    \/ StartDds \/ StartAdd \/ StartBind \/ StartOpen
    \/ \E b \in Buses : StartBus(b)
    \/ StartCan \/ StartAccept \/ StartRun

-----------------------------------------------------------------------------
(* cycle_owned: one device cycle of the thread that owns the cycle *)

\* The instants the clock may show after time t.
Later(t) == {u \in Times : t <= u /\ u <= t + MaxDelay}

\* What the clock may show when it is read next.
Passing == IF schedule_started THEN Later(now) ELSE {now}

\* process_device_cycle_owned.  The master admits the cycle and calls the
\* handler whether or not the process data are valid.  The decisions enable some
\* drive or none, but none once the shutdown is complete (ShutdownMeansDisabled
\* of SafetySupervisor).
ProcessDeviceCycle ==
    IF ~running \/ slaves # NSlaves
    THEN UNCHANGED <<accepting, shutdown_requested, shutdown_complete, energised>>
    ELSE /\ accepting' = (accepting /\ ~stop_requested)
         /\ shutdown_requested' = (shutdown_requested \/ stop_requested)
         /\ shutdown_complete' \in
                IF shutdown_complete THEN {TRUE}
                ELSE IF shutdown_requested' THEN BOOLEAN ELSE {FALSE}
         /\ energised' \in IF shutdown_complete' THEN {FALSE} ELSE BOOLEAN

\* The serial buses and the master are cycled, then the finish is observed.
cycle_owned ==
    /\ ProcessDeviceCycle
    /\ now' \in Passing
    /\ missed' = IF schedule_started THEN Misses(deadline, now') ELSE missed
    /\ UNCHANGED <<setupVars, schedule_started, sleep_failed, deadline, skipped,
                   configured, attached, running, stop_requested,
                   signal_stop_requested, ddsVars, portVars, busVars>>

-----------------------------------------------------------------------------
(* run *)

\* run returns at once when the daemon is not running or a cycle has an owner.
EnterRun ==
    /\ pc = "started"
    /\ \/ running /\ owner = "none" /\ owner' = "main" /\ Goto("prepare")
       \/ (~running \/ owner # "none") /\ UNCHANGED owner /\ Goto("returned")
    /\ UNCHANGED <<flagVars, ddsVars, portVars, loopVars, busVars>>

\* What LinuxRealtimeSystem changes: nothing before it has captured the state of
\* the thread, and the system may refuse each setting.
Settings == {"memory", "affinity", "fifo"}
Granted(captured) == IF captured THEN SUBSET Settings ELSE {{}}

\* RealtimeLoop::release: the thread gets back its captured state, and memory
\* that was locked is unlocked.  The code does not look at what these calls
\* return; the system is taken to grant them.
Released(captured, granted) ==
    granted \ (IF captured THEN Settings ELSE {"memory"})

reset_schedule ==
    /\ schedule_started' = FALSE
    /\ deadline' = 0 /\ skipped' = 0 /\ missed' = 0

\* A setup that does not give the realtime guarantee is released again.  prepare
\* itself cannot fail: start has validated the configuration.
prepare ==
    /\ pc = "prepare"
    /\ \E captured, preempt_rt \in BOOLEAN : \E granted \in Granted(captured) :
           LET guarantee == captured /\ preempt_rt /\ granted = Settings
           IN  /\ captured_thread_state' = guarantee
               /\ setup' = IF guarantee THEN granted ELSE Released(captured, granted)
    /\ reset_schedule
    /\ Goto("test")
    /\ UNCHANGED <<flagVars, owner, ddsVars, portVars, now, sleep_failed, busVars>>

\* Mutant: the loop ends on the request, not on its completion.
ContinuesUntilRequested == running /\ ~stop_requested

Continues == running /\ ~shutdown_complete

\* Mutant: the signal is not looked at.
TestLoopOnly ==
    /\ pc = "test"
    /\ Goto(IF ~Continues THEN "release" ELSE IF sleep_failed THEN "cycle" ELSE "wait")
    /\ UNCHANGED <<flagVars, owner, ddsVars, portVars, loopVars, busVars>>

\* The head of the loop: its condition, and the signal.
TestLoop ==
    /\ pc = "test"
    /\ IF Continues
       THEN /\ stop_requested' = (stop_requested \/ signal_stop_requested)
            /\ accepting' = (accepting /\ ~signal_stop_requested)
            /\ Goto(IF sleep_failed THEN "cycle" ELSE "wait")
       ELSE UNCHANGED <<stop_requested, accepting>> /\ Goto("release")
    /\ UNCHANGED <<configured, attached, running, shutdown_requested,
                   shutdown_complete, signal_stop_requested, owner, ddsVars,
                   portVars, loopVars, busVars>>

\* wait_next up to the sleep: it reads the clock once.
wait_next ==
    /\ pc = "wait"
    /\ now' \in Passing
    /\ LET r == Scheduled(schedule_started, deadline, now')
       IN  /\ deadline' = NextDeadline(r, now')
           /\ skipped' = Skipped(r, now')
    /\ schedule_started' = TRUE
    /\ Goto("sleep")
    /\ UNCHANGED <<flagVars, owner, ddsVars, portVars, setupVars, sleep_failed,
                   missed, busVars>>

\* The sleep ends at the deadline or later.  The histories of the round end too.
Wakes ==
    /\ pc = "sleep"
    /\ now' \in Later(IF deadline > now THEN deadline ELSE now)
    /\ skipped' = 0 /\ missed' = 0
    /\ Goto("cycle")
    /\ UNCHANGED <<flagVars, owner, ddsVars, portVars, setupVars,
                   schedule_started, sleep_failed, deadline, busVars>>

\* The sleep fails: the loop asks for a stop and goes on without sleeping.
SleepFails ==
    /\ pc = "sleep"
    /\ sleep_failed' = TRUE
    /\ stop_requested' = TRUE /\ accepting' = FALSE
    /\ Goto("cycle")
    /\ UNCHANGED <<configured, attached, running, shutdown_requested,
                   shutdown_complete, signal_stop_requested, owner, ddsVars,
                   portVars, setupVars, schedule_started, now, deadline,
                   skipped, missed, busVars>>

RunCycle ==
    /\ pc = "cycle"
    /\ cycle_owned
    /\ pc' = "test"
    /\ UNCHANGED <<destroying, owner>>

release ==
    /\ pc = "release"
    /\ setup' = Released(captured_thread_state, setup)
    /\ captured_thread_state' = FALSE
    /\ Goto("stop_dds")
    /\ UNCHANGED <<flagVars, owner, ddsVars, portVars, schedule_started,
                   sleep_failed, now, deadline, skipped, missed, busVars>>

run ==
    \/ EnterRun \/ prepare \/ TestLoop \/ wait_next \/ Wakes \/ SleepFails
    \/ RunCycle \/ release

-----------------------------------------------------------------------------
(* stop_transports, at the end of run and in the destructor *)

\* Mutant: a daemon that is not running has nothing to stop.
DestroysOnlyRunning ==
    /\ pc \in {"failed", "start_failed", "returned"} /\ owner # "other"
    /\ destroying' = TRUE
    /\ pc' = IF running THEN "stop_dds" ELSE "exited"
    /\ UNCHANGED <<energised, flagVars, owner, ddsVars, portVars, loopVars, busVars>>

\* main returns after a failure or after run; the destructor is not called
\* while another thread is in the daemon.
Destroy ==
    /\ pc \in {"failed", "start_failed", "returned"} /\ owner # "other"
    /\ destroying' = TRUE
    /\ pc' = "stop_dds"
    /\ UNCHANGED <<energised, flagVars, owner, ddsVars, portVars, loopVars, busVars>>

StopDds ==
    /\ pc = "stop_dds"
    /\ dds_stop' = TRUE
    /\ Goto("join_dds")
    /\ UNCHANGED <<flagVars, owner, dds_running, dds_worker, portVars, loopVars, busVars>>

JoinDds ==
    /\ pc = "join_dds"
    /\ dds_worker \in {"none", "ended"}
    /\ dds_worker' = "none" /\ dds_running' = FALSE
    /\ Goto("stop_serial")
    /\ UNCHANGED <<flagVars, owner, dds_stop, portVars, loopVars, busVars>>

\* St3215Bus::stop; the registry stops the last bus first.
StopSerialBus(b) ==
    /\ pc = "stop_serial" /\ serial = 1..b
    /\ serial' = serial \ {b} /\ remove(b)
    /\ Goto("stop_serial")
    /\ UNCHANGED <<flagVars, owner, ddsVars, handler_bound, master_open,
                   backendVars, loopVars, busVars>>

SerialStopped ==
    /\ pc = "stop_serial" /\ serial = {}
    /\ Goto("stop_can")
    /\ UNCHANGED <<flagVars, owner, ddsVars, portVars, loopVars, busVars>>

StopBus ==
    /\ pc = "stop_can"
    /\ StopRequested
    /\ Goto("join_sender")
    /\ UNCHANGED <<flagVars, owner, ddsVars, portVars, loopVars>>

AwaitSender ==
    /\ pc = "join_sender"
    /\ JoinSender
    /\ Goto("join_receiver")
    /\ UNCHANGED <<flagVars, owner, ddsVars, portVars, loopVars>>

AwaitReceiver ==
    /\ pc = "join_receiver"
    /\ JoinReceiver
    /\ Goto("stop_master")
    /\ UNCHANGED <<flagVars, owner, ddsVars, portVars, loopVars>>

\* The master is closed if its handler is bound; run gives the cycle up when it
\* returns.
StopMaster ==
    /\ pc = "stop_master"
    /\ IF master_open /\ handler_bound THEN master_open' = FALSE /\ deactivate
       ELSE UNCHANGED <<master_open, backendVars>>
    /\ handler_bound' = FALSE
    /\ remove(Master)
    /\ running' = FALSE
    /\ owner' = IF owner = "main" THEN "none" ELSE owner
    /\ Goto(IF destroying THEN "exited" ELSE "returned")
    /\ UNCHANGED <<configured, attached, accepting, stop_requested,
                   shutdown_requested, shutdown_complete, signal_stop_requested,
                   ddsVars, serial, loopVars, busVars>>

stop_transports ==
    \/ StopDds \/ JoinDds
    \/ (\E b \in Buses : StopSerialBus(b)) \/ SerialStopped
    \/ StopBus \/ AwaitSender \/ AwaitReceiver \/ StopMaster

Main == configure \/ attach_dds \/ start \/ run \/ Destroy \/ stop_transports

-----------------------------------------------------------------------------
(* The other threads *)

Alive == ~destroying /\ pc # "new"

\* request_stop by another thread.  start() may store accepting_commands_ after
\* it: the next device cycle takes that back.
request_stop ==
    /\ Alive /\ configured /\ ~stop_requested
    /\ stop_requested' = TRUE /\ accepting' = FALSE
    /\ UNCHANGED <<pc, destroying, energised, configured, attached, running,
                   shutdown_requested, shutdown_complete, signal_stop_requested,
                   owner, ddsVars, portVars, loopVars, busVars>>

Signal ==
    /\ ~signal_stop_requested /\ pc # "exited"
    /\ signal_stop_requested' = TRUE
    /\ UNCHANGED <<pc, destroying, energised, configured, attached, running,
                   accepting, stop_requested, shutdown_requested,
                   shutdown_complete, owner, ddsVars, portVars, loopVars, busVars>>

\* cycle() of another thread returns at once when the cycle has an owner.
BeginOtherCycle ==
    /\ Alive /\ configured /\ owner = "none"
    /\ owner' = "other"
    /\ UNCHANGED <<pc, destroying, energised, flagVars, ddsVars, portVars,
                   loopVars, busVars>>

OtherCycle ==
    /\ owner = "other"
    /\ cycle_owned
    /\ owner' = "none"
    /\ UNCHANGED <<pc, destroying>>

\* The worker of the endpoint; an exception ends it, and nobody notices.
DdsTests ==
    /\ dds_worker = "test"
    /\ dds_worker' = IF dds_stop THEN "ended" ELSE "pass"
    /\ UNCHANGED <<pc, destroying, energised, flagVars, owner, dds_running,
                   dds_stop, portVars, loopVars, busVars>>

\* A pass hands over what arrived.  An EtherCAT epoch or a servo command is
\* staged if the daemon accepts commands (CommandHandoff, St3215Bus); a motor
\* command is staged in any case.
DdsPasses ==
    /\ dds_worker = "pass"
    /\ \/ dds_worker' = "test" /\ UNCHANGED busVars
       \/ dds_worker' = "test" /\ \E f \in Frames : Stage(f)
       \/ dds_worker' = "ended" /\ UNCHANGED busVars
    /\ UNCHANGED <<pc, destroying, energised, flagVars, owner, dds_running,
                   dds_stop, portVars, loopVars>>

DdsWorker == DdsTests \/ DdsPasses

Can ==
    /\ Sender \/ Receiver
    /\ UNCHANGED <<pc, destroying, energised, flagVars, owner, ddsVars, portVars, loopVars>>

Next ==
    \/ Main \/ request_stop \/ Signal \/ BeginOtherCycle \/ OtherCycle
    \/ DdsWorker \/ Can
    \/ pc = "exited" /\ UNCHANGED vars

Spec == Init /\ [][Next]_vars

\* Every thread runs; a call of cycle() ends; the supervisor, evaluated again
\* and again after a request, completes the shutdown.
FairSpec ==
    /\ Spec
    /\ WF_vars(Main) /\ WF_vars(OtherCycle) /\ WF_vars(DdsWorker)
    /\ WF_vars(Sender /\ UNCHANGED <<pc, destroying, energised, flagVars, owner,
                                     ddsVars, portVars, loopVars>>)
    /\ WF_vars(Receiver /\ UNCHANGED <<pc, destroying, energised, flagVars, owner,
                                       ddsVars, portVars, loopVars>>)
    /\ SF_vars(RunCycle /\ shutdown_complete')

-----------------------------------------------------------------------------
(* Properties *)

\* The daemon's variables keep their types.
TypeOK ==
    /\ pc \in {"new", "configured", "attached", "failed", "start_failed",
               "start_add", "start_bind", "start_open", "open_slaves", "start_serial",
               "start_accept", "start_run", "started", "prepare", "test", "wait",
               "sleep", "cycle", "release", "stop_dds", "join_dds", "stop_serial",
               "stop_can", "join_sender", "join_receiver", "stop_master", "returned", "exited"}
    /\ {destroying, configured, attached, running, accepting, stop_requested,
        shutdown_requested, shutdown_complete, signal_stop_requested,
        dds_running, dds_stop, handler_bound, master_open, captured_thread_state,
        schedule_started, sleep_failed, energised} \subseteq BOOLEAN
    /\ owner \in {"none", "main", "other"}
    /\ dds_worker \in {"none", "test", "pass", "ended"}
    /\ registered \subseteq (Buses \cup {Master}) /\ serial \subseteq Buses
    /\ igh \in {"released", "requested", "activated"} /\ slaves \in 0..NSlaves
    /\ setup \subseteq Settings
    /\ now \in Times /\ deadline \in Times
    /\ skipped \in Nat /\ missed \in Nat
    /\ BusTypeOK

\* Whatever stage failed or whenever the stop came, a daemon that is gone has no
\* thread left, no transport open, registered or bound, and has given back the IgH
\* master, the slaves configured on it and its realtime setup (EthercatMaster::open,
\* stop_transports, RealtimeLoop::release).
ExitIsClean ==
    pc = "exited" =>
        /\ ~dds_running /\ dds_worker = "none"
        /\ ~bus_running /\ sender = "none" /\ receiver = "none"
        /\ ~master_open /\ ~handler_bound /\ igh = "released" /\ slaves = 0
        /\ serial = {} /\ registered = {}
        /\ setup = {} /\ ~captured_thread_state /\ owner = "none"

\* While an EtherCAT epoch or a servo command can still be accepted every transport
\* is open: accepting_commands_ is set after the last start and the source of
\* commands is stopped before the first transport is.  (A motor command does not
\* ask for accepting_commands_.)
AcceptingMeansStarted ==
    accepting /\ dds_worker = "pass" =>
        master_open /\ handler_bound /\ serial = Buses /\ bus_running

\* run closes the master only when the last evaluation enabled no drive, also when
\* the stop comes from a signal, from a failed sleep, or during another thread's
\* cycle (run leaves its loop on shutdown_complete_ only).
DisabledBeforeClose ==
    [][master_open /\ ~master_open' /\ owner = "main" => ~energised]_vars

\* The loop sleeps until a release that is ahead of the clock by at most one
\* period, unless the clock ends before it, and it skips at least the releases
\* that the cycle before was counted to have missed.
ReleaseIsAhead ==
    pc = "sleep" =>
        /\ now < deadline \/ MaxTime - deadline < Period
        /\ deadline <= now + Period
        /\ missed <= skipped

\* run returns after a signal or a request to stop, with all threads joined.
StopEndsRun ==
    owner = "main" /\ (signal_stop_requested \/ stop_requested) ~> owner = "none"

\* A motor never gets an older frame after a newer one, although delayed samples
\* replace newer frames in the slot and writes fail (cycle_loop, read_latest).
FramesAscend == [][sent' # sent => sent' > sent]_vars
=============================================================================
