--------------------------- MODULE DdsCommandPath ---------------------------
(***************************************************************************)
(* The way of a command from the policy host to the daemon's actuators     *)
(* over DDS: RuntimeHost::handle (src/runtime/runtime_host.cpp) writes one *)
(* sample per topic (dds_robot_io.cpp), the middleware delivers the topics *)
(* independently, and the worker of the daemon's endpoint                  *)
(* (robot_io/dds/daemon_endpoint.cpp) takes them in passes and hands them  *)
(* to the callbacks of attach_dds (robot_io/daemon/daemon.cpp).            *)
(*                                                                         *)
(* A topic is a number; the host writes the topics in ascending order and  *)
(* the motors' last (TransportRuntime models those).  The daemon accepts   *)
(* commands (DaemonLifecycle models when it does).  What                   *)
(* a sample carries is its publication: the host session, the sequence     *)
(* number, which is also the epoch, and the source timestamp.  The clock   *)
(* is monotonic and common to all hosts, so the timestamp of a publication *)
(* is its number.  Samples arrive within the command timeout.              *)
(***************************************************************************)
EXTENDS Integers

CONSTANTS
    NAxes, NGroups, NServos,
    GroupOf,               \* the EtherCAT execution group of every axis
    MaxPublications,       \* bound: publications of all hosts
    MaxSessions            \* bound: hosts started one after the other

Axes == 1 .. NAxes
Groups == 1 .. NGroups
Commits == NAxes + 1 .. NAxes + NGroups
Servos == NAxes + NGroups + 1 .. NAxes + NGroups + NServos
NTopics == NAxes + NGroups + NServos
Topics == 1 .. NTopics

Members(g) == {a \in Axes : GroupOf[a] = g}
CommitGroup(t) == t - NAxes

Sample == [session : Nat, sequence : Nat, stamp : Nat]
None == [session |-> 0, sequence |-> 0, stamp |-> 0]

ASSUME ShapeAssumption ==
    /\ NAxes \in Nat \ {0} /\ NGroups \in Nat \ {0} /\ NServos \in Nat
    /\ GroupOf \in [Axes -> Groups]
ASSUME BoundAssumption == MaxPublications \in Nat /\ MaxSessions \in Nat

VARIABLES
    session,               \* hosts started so far; the last one is running
    command_sequence,      \* command_sequence_ of the current host
    writing,               \* the topic handle writes next, 0 between requests
    stamp,                 \* publications begun so far by all hosts
    sent,                  \* per topic: samples written and not yet taken
    worker,                \* the channel the endpoint's pass has come to
    epoch, commands, staged,  \* EthercatGroup, per group and per axis
    ingress,               \* commands command_ingress_ accepted last
    servo,                 \* per servo: last_command_
    begun,                 \* history: sequence numbers publications began with
    reused,                \* history: one of them began twice
    rejected,              \* history: the ingress rejected a staged epoch
    early                  \* history: last publication whose commit was dropped

hostVars == <<session, command_sequence, writing, stamp, begun, reused>>
groupVars == <<epoch, commands, staged>>
daemonVars == <<groupVars, ingress, servo, rejected, early>>
vars == <<hostVars, sent, worker, daemonVars>>

Init ==
    /\ session = 1 /\ command_sequence = 0 /\ writing = 0
    /\ stamp = 0 /\ begun = {} /\ reused = FALSE
    /\ sent = [t \in Topics |-> {}]
    /\ worker = 1
    /\ epoch = [g \in Groups |-> 0]
    /\ commands = [a \in Axes |-> None]
    /\ staged = [a \in Axes |-> FALSE]
    /\ ingress = [a \in Axes |-> None]
    /\ servo = [t \in Servos |-> None]
    /\ rejected = FALSE /\ early = 0

-----------------------------------------------------------------------------
(* The host *)

\* The host ends, possibly in the middle of a publication, and another one
\* is opened: its counters begin at zero.
Restart ==
    /\ session < MaxSessions
    /\ session' = session + 1
    /\ command_sequence' = 0 /\ writing' = 0
    /\ UNCHANGED <<stamp, begun, reused, sent, worker, daemonVars>>

NextSequence == command_sequence + 1

\* An observation request that passes every check of handle() starts a
\* publication.  A request refused before leaves all of this state alone.
handle ==
    /\ writing = 0
    /\ stamp < MaxPublications
    /\ writing' = 1
    /\ stamp' = stamp + 1
    /\ begun' = begun \union {NextSequence}
    /\ reused' = (reused \/ NextSequence \in begun)
    /\ UNCHANGED <<session, command_sequence, sent, worker, daemonVars>>

Current == [session |-> session, sequence |-> NextSequence, stamp |-> stamp]

\* One write of publish_commands.  Writer and reader keep one sample each, so
\* of what the writer wrote before, one sample at most is still to be taken.
publish_commands ==
    /\ writing \in Topics
    /\ LET older == {s \in sent[writing] : s.session = session}
       IN  \E kept \in IF older = {} THEN {{}} ELSE {{s} : s \in older} :
              sent' = [sent EXCEPT ![writing] =
                         (@ \ older) \union kept \union {Current}]
    /\ writing' = writing + 1
    /\ UNCHANGED <<session, command_sequence, stamp, begun, reused, worker,
                   daemonVars>>

\* The motors' topics are written, and only now is the sequence stored.
publish_damiao_commands ==
    /\ writing = NTopics + 1
    /\ writing' = 0
    /\ command_sequence' = NextSequence
    /\ UNCHANGED <<session, stamp, begun, reused, sent, worker, daemonVars>>

\* A write throws: handle() answers with an error, the number is not stored.
PublicationFails ==
    /\ writing # 0
    /\ writing' = 0
    /\ UNCHANGED <<session, command_sequence, stamp, begun, reused, sent,
                   worker, daemonVars>>

Host ==
    \/ Restart \/ handle
    \/ publish_commands \/ publish_damiao_commands \/ PublicationFails

-----------------------------------------------------------------------------
(* The middleware is reliable with KeepLast(1): it keeps the order of one  *)
(* topic of one host, and no order between topics or hosts.  The           *)
(* endpoint's worker takes from the axes, the commits, the other channels. *)

\* reader.take() of the channel whose turn it is finds sample s, or None when
\* nothing has arrived.  What the same host wrote before s is gone.  A servo's
\* channel shares nothing with the others: when in a pass it is read makes no
\* difference.
Takes(t, s) ==
    /\ sent' = [sent EXCEPT ![t] =
                  {r \in @ : r.session # s.session \/ r.stamp > s.stamp}]
    /\ IF t \in Servos THEN UNCHANGED worker
       ELSE /\ worker = t
            /\ worker' = IF t = NAxes + NGroups THEN 1 ELSE t + 1
    /\ UNCHANGED hostVars

\* Another epoch, older or newer, discards what its group has staged.
StagedFor(a, e) ==
    IF epoch[GroupOf[a]] = e THEN staged
    ELSE [b \in Axes |-> GroupOf[b] # GroupOf[a] /\ staged[b]]

take_axis(a) ==
    \E s \in sent[a] \union {None} :
        /\ Takes(a, s)
        /\ IF s = None THEN UNCHANGED groupVars
           ELSE /\ epoch' = [epoch EXCEPT ![GroupOf[a]] = s.sequence]
                /\ commands' = [commands EXCEPT ![a] = s]
                /\ staged' = [StagedFor(a, s.sequence) EXCEPT ![a] = TRUE]
        /\ UNCHANGED <<ingress, servo, rejected, early>>

\* accept_commands of the ingress for the set staged under epoch e.
Last == ingress[1]

\* Mutant: the timestamps of the axes are not compared.
SameEpoch(e) == \A a \in Axes : commands[a].sequence = e

valid_snapshot(e) ==
    \A a \in Axes : /\ commands[a].sequence = e
                    /\ commands[a].stamp = commands[1].stamp

Accepts(e) ==
    /\ valid_snapshot(e)
    /\ \/ Last = None
       \/ e > Last.sequence /\ commands[1].stamp >= Last.stamp

Duplicate(e) == valid_snapshot(e) /\ Last # None /\ commands = ingress

\* The callback drops the epoch of a group that is not the whole robot.
stage_ethercat_epoch(g, e) ==
    IF Members(g) # Axes THEN UNCHANGED <<ingress, rejected>>
    ELSE IF Accepts(e) THEN ingress' = commands /\ UNCHANGED rejected
    ELSE rejected' = (rejected \/ ~Duplicate(e)) /\ UNCHANGED ingress

\* Mutant: a commit does not wait for the members of its group.
CommitsEpoch(g, e) == e = epoch[g]

CommitsGroup(g, e) == e = epoch[g] /\ \A a \in Members(g) : staged[a]

take_commit(t) ==
    \E s \in sent[t] \union {None} : LET g == CommitGroup(t) IN
        /\ Takes(t, s)
        /\ IF s # None /\ CommitsGroup(g, s.sequence)
           THEN /\ stage_ethercat_epoch(g, s.sequence)
                /\ staged' = [a \in Axes |-> GroupOf[a] # g /\ staged[a]]
                /\ UNCHANGED early
           ELSE /\ early' = IF s = None THEN early ELSE s.stamp
                /\ UNCHANGED <<staged, ingress, rejected>>
        /\ UNCHANGED <<epoch, commands, servo>>

\* Mutant: the timestamps are not compared.
InspectsSequence(s, last) == last = None \/ s.sequence > last.sequence

\* Mutant: the comparison of the timestamps is turned around.
InspectsOlder(s, last) ==
    \/ last = None
    \/ s.sequence > last.sequence /\ s.stamp <= last.stamp

\* St3215Servo::stage_command.
InspectsServo(s, last) ==
    \/ last = None
    \/ s.sequence > last.sequence /\ s.stamp >= last.stamp

take_servo(t) ==
    \E s \in sent[t] :
        /\ Takes(t, s)
        /\ servo' = IF InspectsServo(s, servo[t])
                    THEN [servo EXCEPT ![t] = s] ELSE servo
        /\ UNCHANGED <<groupVars, ingress, rejected, early>>

Worker ==
    \/ \E a \in Axes : take_axis(a)
    \/ \E t \in Commits : take_commit(t)
    \/ \E t \in Servos : take_servo(t)

Next == Host \/ Worker

Spec == Init /\ [][Next]_vars

-----------------------------------------------------------------------------
(* Properties *)

TypeOK ==
    /\ reused \in BOOLEAN /\ rejected \in BOOLEAN
    /\ session \in Nat /\ command_sequence \in Nat /\ stamp \in Nat
    /\ writing \in 0 .. NTopics + 1 /\ worker \in 1 .. NAxes + NGroups
    /\ begun \subseteq Nat /\ early \in Nat
    /\ sent \in [Topics -> SUBSET Sample]
    /\ epoch \in [Groups -> Nat]
    /\ commands \in [Axes -> Sample] /\ staged \in [Axes -> BOOLEAN]
    /\ ingress \in [Axes -> Sample]
    /\ servo \in [Servos -> Sample]

\* Whatever order the topics arrive in, what a group has staged belongs to
\* the epoch it is collecting: a commit never finds commands of two epochs
\* (daemon_endpoint.cpp:377-380).
StagedIsOneEpoch ==
    \A a \in Axes : staged[a] => commands[a].sequence = epoch[GroupOf[a]]

\* The axes never follow a mixture of two publications, not even of two that
\* carry the same epoch because the first one failed or its host ended: a
\* set with two timestamps is not accepted (safety_supervisor.cpp:117).
AcceptedIsOnePublication == \A a, b \in Axes : ingress[a] = ingress[b]

\* The ingress rejects nothing, and so stops nothing, as long as no sequence
\* number has been published twice: commits that are late, early, overtaken
\* or lost are not enough.  Only a failed publication (runtime_host.cpp:597)
\* and a restarted host use a number again.
RejectionNeedsReuse == rejected => reused

\* A command of an earlier host session is never accepted after one of a
\* later session, by the axes or by a servo, although no one looks at the
\* session of a sample: the timestamps tell (safety_supervisor.cpp:136,
\* servo.cpp:90).
OldSessionNeverReturns ==
    [][/\ \A a \in Axes : ingress'[a].session >= ingress[a].session
       /\ \A t \in Servos : servo'[t].session >= servo[t].session]_vars

\* When nothing of the current host is on its way any more, its last complete
\* publication is the one the servos follow, and the axes too, unless its
\* commit was taken before one of its commands and dropped
\* (daemon_endpoint.cpp:399-402).
Quiet ==
    /\ writing = 0
    /\ command_sequence # 0 /\ NextSequence \notin begun
    /\ \A t \in Topics : \A s \in sent[t] : s.session # session

LossNeedsEarlyCommit ==
    Quiet /\ ~reused
        => /\ \A t \in Servos : servo[t].stamp = stamp
           /\ Last.stamp = stamp \/ early = stamp

=============================================================================
